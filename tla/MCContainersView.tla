-------------------------- MODULE MCContainersView --------------------------
(* Constants of ContainersView for TLC: one container exists at the start.  *)
EXTENDS ContainersView, TLC
CONSTANTS a, b, n, m
MCIds == {a, b}
MCNames == {n, m}
MCRows == {[name |-> n, running |-> TRUE, upd |-> TRUE],
           [name |-> m, running |-> FALSE, upd |-> FALSE]}
MCBoot == (a :> [name |-> n, running |-> TRUE, upd |-> TRUE]) @@ (b :> None)
=============================================================================
