------------------------------ MODULE MultiLock ------------------------------
(***************************************************************************)
(* core/utils/src/multi-lock.ts: a counting lock shared by many ids.       *)
(*                                                                         *)
(* lockHash counts the locks each id holds (an id that is absent from the  *)
(* Map holds none, which is 0 here) and lockLength is the total that the   *)
(* code maintains next to the Map instead of summing it.  The actions      *)
(* change nothing but these two variables, so that a component owning a    *)
(* MultiLock conjoins them to its own steps.                               *)
(***************************************************************************)
EXTENDS Integers

CONSTANTS
  Id,         \* the ids locks are counted for (worker ids in this code base)
  LockLimit   \* the most locks all ids may hold together, 0 for no limit

VARIABLES lockHash, lockLength

lockVars == <<lockHash, lockLength>>

LockTypeOK ==
  /\ lockHash \in [Id -> Nat]
  /\ lockLength \in Int

LockInit ==
  /\ lockHash = [id \in Id |-> 0]
  /\ lockLength = 0

(* The first test of acquire(): the limit is reached. *)
Full == LockLimit # 0 /\ lockLength >= LockLimit

(* acquire(id) answering true. *)
Acquire(id) ==
  /\ ~Full
  /\ lockHash' = [lockHash EXCEPT ![id] = @ + 1]
  /\ lockLength' = lockLength + 1

(* release(id) answering true: id holds a lock. *)
ReleaseOne(id) ==
  /\ lockHash[id] > 0
  /\ lockHash' = [lockHash EXCEPT ![id] = @ - 1]
  /\ lockLength' = lockLength - 1

(* release(id), whatever it answers: without a lock of id it does nothing. *)
Release(id) ==
  \/ ReleaseOne(id)
  \/ lockHash[id] = 0 /\ UNCHANGED lockVars

(* clean(id): all the locks of one id. *)
Clean(id) ==
  /\ lockHash' = [lockHash EXCEPT ![id] = 0]
  /\ lockLength' = lockLength - lockHash[id]

(* clean() without an id: all the locks there are. *)
CleanAll ==
  /\ lockHash' = [id \in Id |-> 0]
  /\ lockLength' = 0

=============================================================================
