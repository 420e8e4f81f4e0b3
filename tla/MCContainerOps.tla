--------------------------- MODULE MCContainerOps ---------------------------
(* ContainerOps for model checking; ids and users are interchangeable.       *)
EXTENDS ContainerOps, TLC

MCBootHost == [name : Names, image : Images, status : {"running", "exited"}]
MCBootRows == Row

\* A host whose containers run an old version.
MCOldHost == [name : Names, image : {0}, status : {"running"}]

Symmetry == Permutations(Ids) \cup Permutations(Users)
=============================================================================
