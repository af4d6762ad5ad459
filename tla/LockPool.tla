------------------------------ MODULE LockPool ------------------------------
(***************************************************************************)
(* core/fs-store/src/utils/LockPool.ts: at most MaxLockCount requests work *)
(* on files at a time, the others wait in requestQue.                      *)
(*                                                                         *)
(* acquire() answers with a promise.  A request that finds the pool full   *)
(* waits until a release passes its slot on (the promise then resolves to  *)
(* true) or until it is released itself while it waits (false).  The pool  *)
(* counts its slots per worker and not per request: holders are the        *)
(* requests whose promise was resolved to true and that have not released. *)
(***************************************************************************)
EXTENDS Integers, Sequences, FiniteSets

CONSTANTS
  Worker,        \* worker ids
  Request,       \* request ids
  Owner,         \* the worker each request comes from
  MaxLockCount   \* the size of the pool, 0 for no limit

ASSUME LockPoolAssumption ==
  /\ IsFiniteSet(Worker)
  /\ IsFiniteSet(Request)
  /\ Owner \in [Request -> Worker]
  /\ MaxLockCount \in Nat

VARIABLES
  lockHash,    \* poolLock: the slots per worker
  lockLength,  \* poolLock: their number
  requestQue,  \* the requests that wait for a slot
  requests,    \* the ids acquire() refuses to see again
  holders      \* requests that were given a slot and have not released it

vars == <<lockHash, lockLength, requestQue, requests, holders>>

poolLock == INSTANCE MultiLock WITH Id <- Worker, LockLimit <- MaxLockCount

Waiting       == {requestQue[i] : i \in DOMAIN requestQue}
OfWorker(w)   == {r \in Request : Owner[r] = w}
Without(q, S) == SelectSeq(q, LAMBDA r : r \notin S)
Removed(q, i) == [j \in 1..Len(q) - 1 |-> q[IF j < i THEN j ELSE j + 1]]

TypeOK ==
  /\ poolLock!LockTypeOK
  /\ requestQue \in Seq(Request)
  /\ requests \subseteq Request
  /\ holders \subseteq Request

Init ==
  /\ poolLock!LockInit
  /\ requestQue = <<>>
  /\ requests = {}
  /\ holders = {}

-----------------------------------------------------------------------------
(* Mutant of acquire(): waiting comes first when anybody waits, full or not. *)
AcquireBehindQueue(r) ==
  /\ r \notin requests
  /\ requests' = requests \cup {r}
  /\ requestQue' = Append(requestQue, r)
  /\ UNCHANGED <<lockHash, lockLength, holders>>

(* acquire(): an id that is in requests is rejected and changes nothing.     *)
Acquire(r) ==
  /\ r \notin requests
  /\ requests' = requests \cup {r}
  /\ \/ /\ poolLock!Acquire(Owner[r])
        /\ holders' = holders \cup {r}
        /\ UNCHANGED requestQue
     \/ /\ poolLock!Full
        /\ requestQue' = Append(requestQue, r)
        /\ UNCHANGED <<lockHash, lockLength, holders>>

(* release() of a request that waits: it leaves the queue (requests lets no  *)
(* id be there twice) with the answer false, and its id stays in requests.   *)
ReleaseWaiting(r) ==
  /\ \E i \in DOMAIN requestQue :
       requestQue[i] = r /\ requestQue' = Removed(requestQue, i)
  /\ UNCHANGED <<lockHash, lockLength, requests, holders>>

(* Mutant of release(): nobody is called from the queue.                     *)
ReleaseSlotOnly(r) ==
  /\ r \notin Waiting
  /\ poolLock!ReleaseOne(Owner[r])
  /\ holders' = holders \ {r}
  /\ requests' = requests \ {r}
  /\ UNCHANGED requestQue

(* Mutant of release(): the first of the queue is let in without a slot.     *)
ReleaseUncounted(r) ==
  /\ r \notin Waiting
  /\ poolLock!ReleaseOne(Owner[r])
  /\ requests' = requests \ {r}
  /\ requestQue' = IF requestQue = <<>> THEN <<>> ELSE Tail(requestQue)
  /\ holders' = (holders \ {r}) \cup
       (IF requestQue = <<>> THEN {} ELSE {Head(requestQue)})

(* Mutant of release(): whether the worker has a slot is not tested.          *)
ReleaseUnchecked(r) ==
  /\ r \notin Waiting
  /\ requestQue = <<>>
  /\ requests' = requests \ {r}
  /\ lockHash' = [lockHash EXCEPT ![Owner[r]] = @ - 1]
  /\ lockLength' = lockLength - 1
  /\ holders' = holders \ {r}
  /\ UNCHANGED requestQue

(* release() of any other request, when its worker has a slot: the slot that *)
(* is given back passes to the first of the queue.                           *)
ReleaseSlot(r) ==
  /\ r \notin Waiting
  /\ lockHash[Owner[r]] > 0
  /\ requests' = requests \ {r}
  /\ \/ /\ requestQue = <<>>
        /\ poolLock!ReleaseOne(Owner[r])
        /\ holders' = holders \ {r}
        /\ UNCHANGED requestQue
     \/ /\ requestQue # <<>>
        /\ lockHash' = [[lockHash EXCEPT ![Owner[r]] = @ - 1]
                         EXCEPT ![Owner[Head(requestQue)]] = @ + 1]
        /\ UNCHANGED lockLength
        /\ holders' = (holders \ {r}) \cup {Head(requestQue)}
        /\ requestQue' = Tail(requestQue)

(* clean(), for one worker or for all: slots and waiting requests go, and    *)
(* nobody is called from the queue.                                          *)
Clean ==
  /\ \/ \E w \in Worker : /\ poolLock!Clean(w)
                          /\ requestQue' = Without(requestQue, OfWorker(w))
                          /\ holders' = holders \ OfWorker(w)
     \/ /\ poolLock!CleanAll
        /\ requestQue' = <<>>
        /\ holders' = {}
  /\ UNCHANGED requests

-----------------------------------------------------------------------------
(* A user of the pool releases a slot it was given, once, or gives up        *)
(* waiting.                                                                  *)
UserNext == \E r \in Request :
  \/ Acquire(r)
  \/ ReleaseWaiting(r)
  \/ r \in holders /\ ReleaseSlot(r)

(* What the interface allows besides: a release by somebody who holds no     *)
(* slot, and clean(), which nobody calls.                                    *)
Next ==
  \/ \E r \in Request : Acquire(r) \/ ReleaseWaiting(r) \/ ReleaseSlot(r)
  \/ Clean

Spec     == Init /\ [][Next]_vars
UserSpec == Init /\ [][UserNext]_vars

(* FSStoreFile releases the permission of an operation when it is done.      *)
Fairness == \A r \in Request : WF_vars(r \in holders /\ ReleaseSlot(r))

FairUserSpec == UserSpec /\ Fairness

-----------------------------------------------------------------------------
(* The pool is never overdrawn, however acquires, releases and withdrawals   *)
(* interleave: at most MaxLockCount requests hold a slot.                    *)
AtMostMaxLockCount == MaxLockCount # 0 => Cardinality(holders) <= MaxLockCount

(* The counters are the holders, per worker and in total: no slot leaks and  *)
(* none is given back twice.                                                 *)
SlotsCounted ==
  /\ lockLength = Cardinality(holders)
  /\ \A w \in Worker : lockHash[w] = Cardinality(holders \cap OfWorker(w))

(* No lost wake-up: a request waits only while the pool is full.             *)
WaitsOnlyWhenFull == requestQue # <<>> => poolLock!Full

(* The counter stays within the limit even when requests that hold no slot    *)
(* release one and workers are cleaned.                                      *)
CounterInLimit == MaxLockCount # 0 => lockLength <= MaxLockCount

(* A request that waits gets its slot or withdraws.                          *)
WaiterServed == \A r \in Request : r \in Waiting ~> r \notin Waiting

=============================================================================
