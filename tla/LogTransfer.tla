----------------------------- MODULE LogTransfer -----------------------------
(***************************************************************************)
(* What the client-side log queue promises: entries are numbered as they   *)
(* are captured, wait in a queue, and are delivered at least once.  An     *)
(* entry leaves the queue because the server has it, or because the whole  *)
(* queue is given up; it never just disappears.                            *)
(*                                                                         *)
(* LogQueue implements this specification.                                 *)
(***************************************************************************)
EXTENDS Naturals

VARIABLES
    last,     \* number of the newest entry
    queue,    \* entries waiting
    kept,     \* entries the server has
    lost      \* entries that were given up

ltvars == <<last, queue, kept, lost>>

Init == last = 0 /\ queue = {} /\ kept = {} /\ lost = {}

Capture == last' = last + 1 /\ queue' = queue \cup {last'} /\ UNCHANGED <<kept, lost>>

\* Delivery; of an entry delivered or given up before it is a duplicate.
Keep == /\ \E e \in 1..last : kept' = kept \cup {e}
        /\ UNCHANGED <<last, queue, lost>>

Prune == /\ \E S \in SUBSET (queue \cap kept) : queue' = queue \ S
         /\ UNCHANGED <<last, kept, lost>>

GiveUp == lost' = lost \cup queue /\ queue' = {} /\ UNCHANGED <<last, kept>>

Next == Capture \/ Keep \/ Prune \/ GiveUp

Spec == Init /\ [][Next]_ltvars
=============================================================================
