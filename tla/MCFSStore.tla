------------------------------ MODULE MCFSStore ------------------------------
(* FSStore with three requests for the shared file and one for another.      *)
EXTENDS FSStore
CONSTANTS r1, r2, r3, r4

MCRequest == {r1, r2, r3, r4}
MCPrivate == {r4}
=============================================================================
