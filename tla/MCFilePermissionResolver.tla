---------------------- MODULE MCFilePermissionResolver ----------------------
(* FilePermissionResolver with two workers, the first of which sends two of *)
(* the requests and the second the others.                                  *)
EXTENDS FilePermissionResolver
CONSTANTS w1, w2, r1, r2, r3, r4

MCWorker  == {w1, w2}
MCRequest == {r1, r2, r3, r4}
MCOwner   == [r \in MCRequest |-> IF r \in {r1, r2} THEN w1 ELSE w2]
=============================================================================
