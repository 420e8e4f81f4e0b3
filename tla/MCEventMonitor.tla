--------------------------- MODULE MCEventMonitor ---------------------------
(* Instances of EventMonitor for TLC. *)
EXTENDS EventMonitor, TLC

MCBootHost == [name : Names, image : Images, status : {"running"}]
MCBootRows == [name : Names, image : Images, status : {"running"},
               auto : BOOLEAN, avail : BOOLEAN]

Symmetry == Permutations(Ids) \cup Permutations(Names)
=============================================================================
