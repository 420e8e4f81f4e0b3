----------------------------- MODULE LatestWins -----------------------------
(***************************************************************************)
(* What every "load and show" slice of the web interface promises.         *)
(*                                                                         *)
(* A slice numbers the requests it sends.  What it shows is the answer to  *)
(* one of them, or nothing (0).  However the answers are delayed or        *)
(* reordered, the slice only ever turns to the answer of the newest        *)
(* request: an answer that a later request overtook is never shown.        *)
(*                                                                         *)
(* The status polls implement it with a ticket counter and the             *)
(* administration page with the cancelled flag of its effects; StatusPoll  *)
(* and AdminPage are each checked against this specification.              *)
(***************************************************************************)
EXTENDS Naturals

VARIABLES issued, shown

lwvars == <<issued, shown>>

Init == issued \in Nat /\ shown = 0

\* A request is sent, or the number is advanced to invalidate the open ones.
Issue == issued' = issued + 1 /\ shown' \in {0, shown}

\* The newest request is answered, and its answer is shown.
Show == shown' = issued /\ UNCHANGED issued

\* The slice stops showing an answer.
Clear == shown' = 0 /\ UNCHANGED issued

Next == Issue \/ Show \/ Clear

Spec == Init /\ [][Next]_lwvars
=============================================================================
