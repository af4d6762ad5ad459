----------------------------- MODULE MCLockPool -----------------------------
(* LockPool with two workers that send three requests and two.               *)
EXTENDS LockPool
CONSTANTS w1, w2, r1, r2, r3, r4, r5

MCWorker  == {w1, w2}
MCRequest == {r1, r2, r3, r4, r5}
MCOwner   == [r \in MCRequest |-> IF r \in {r1, r2, r3} THEN w1 ELSE w2]
=============================================================================
