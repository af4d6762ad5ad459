------------------------------- MODULE FSStore -------------------------------
(***************************************************************************)
(* core/fs-store/src: FSStoreServer with its FSStoreClients.               *)
(*                                                                         *)
(* A request locks, accesses or unlinks a file.  The server asks the       *)
(* file's FilePermissionResolver and, for an access or an unlink, then the *)
(* LockPool that all files share; it answers, the client works on the file *)
(* and asks for the release.  Every step is what runs between two awaits   *)
(* of RequestAction and ReleaseAction.  All requests reach the server with *)
(* the worker id DW_ID, because FSStoreClient broadcasts them.             *)
(*                                                                         *)
(* One file is shared; a request of Private is for a file nobody else      *)
(* asks for, which is granted at once and competes only for the pool.      *)
(***************************************************************************)
EXTENDS Integers, Sequences, FiniteSets

CONSTANTS
  DW_ID,         \* the worker id of every request
  Request,       \* request ids
  Private,       \* the requests for a file of their own
  Actions,       \* the members of fsReqType the clients use
  MaxLockCount   \* threadCount: the size of the pool

ASSUME FSStoreAssumption ==
  /\ Private \subseteq Request /\ IsFiniteSet(Request)
  /\ MaxLockCount \in Nat
  /\ Actions \subseteq {"lock", "access", "unlink"}

VARIABLES
  pc,      \* how far each request is
  action,  \* its action
  denied,  \* history: the requests that were refused an access
  state, lockHash, lockLength, access, accessing, del,   \* the shared file's
  lockHeld, accessHeld, unlinkHeld, cleaned, refused,    \*   resolver
  slotHash, slotLength, requestQue, requests, holders    \* the pool

requestVars == <<pc, action, denied>>
fileVars == <<state, lockHash, lockLength, access, accessing, del,
              lockHeld, accessHeld, unlinkHeld, cleaned, refused>>
poolVars == <<slotHash, slotLength, requestQue, requests, holders>>
vars     == <<requestVars, fileVars, poolVars>>

Owner == [r \in Request |-> DW_ID]
FPR   == INSTANCE FilePermissionResolver WITH Worker <- {DW_ID}
Pool  == INSTANCE LockPool WITH
           Worker <- {DW_ID}, lockHash <- slotHash, lockLength <- slotLength

(* idle: not asked yet; path: the file name is being resolved; queued: with  *)
(* the resolver; hook: permitted by it, the pool is being looked up; pool:   *)
(* with the pool; working: answered OK; denied: answered otherwise;          *)
(* relPath, relPool: the release before and after pool.release; done.        *)
Steps == {"idle", "path", "queued", "hook", "pool", "working", "denied",
          "relPath", "relPool", "done"}

TypeOK ==
  /\ pc \in [Request -> Steps]
  /\ action \in [Request -> Actions \cup {"none"}]
  /\ denied \subseteq Request
  /\ FPR!TypeOK
  /\ Pool!TypeOK

Init ==
  /\ pc = [r \in Request |-> "idle"]
  /\ action = [r \in Request |-> "none"]
  /\ denied = {}
  /\ FPR!Init
  /\ Pool!Init

(* The requests whose callback the resolver calls in this step. *)
Called == (accessHeld' \cup unlinkHeld') \ (accessHeld \cup unlinkHeld)

(* Mutant: r is put to s after the resolver has called it.                   *)
GoOnOverwritten(r, s) ==
  /\ pc' = [q \in Request |-> IF q = r THEN s
                              ELSE IF q \in Called THEN "hook" ELSE pc[q]]
  /\ UNCHANGED action
  /\ denied' = denied \cup {q \in {r} : s = "denied" /\ action[q] # "lock"}

(* r goes on to step s; the requests the resolver calls ask for the pool.    *)
GoOn(r, s) ==
  /\ pc' = [q \in Request |-> IF q \in Called THEN "hook"
                              ELSE IF q = r THEN s ELSE pc[q]]
  /\ UNCHANGED action
  /\ denied' = denied \cup {q \in {r} : s = "denied" /\ action[q] # "lock"}

-----------------------------------------------------------------------------
(* RequestAction. *)

(* getLock, getAccess and getUnlink of the client.                           *)
Ask(r) ==
  /\ pc[r] = "idle"
  /\ pc' = [pc EXCEPT ![r] = "path"]
  /\ \E a \in Actions : action' = [action EXCEPT ![r] = a]
  /\ UNCHANGED <<denied, fileVars, poolVars>>

(* A lock is answered at once, OK or not. *)
RequestLock(r) ==
  /\ pc[r] = "path" /\ action[r] = "lock"
  /\ UNCHANGED poolVars
  /\ \/ r \in Private /\ UNCHANGED fileVars /\ GoOn(r, "working")
     \/ /\ r \notin Private
        /\ FPR!Lock(r)
        /\ GoOn(r, IF FPR!IsDeleted THEN "denied" ELSE "working")

(* Mutant of the server: a refused access goes on to the pool all the same.  *)
RequestAccessRefused(r) ==
  /\ pc[r] = "path" /\ action[r] = "access"
  /\ UNCHANGED poolVars
  /\ \/ (r \in Private \/ FPR!IsDeleted) /\ UNCHANGED fileVars /\ GoOn(r, "hook")
     \/ r \notin Private /\ FPR!HookAccess(r) /\ GoOn(r, "queued")

(* An access waits for the accesses before it, or is refused. *)
RequestAccess(r) ==
  /\ pc[r] = "path" /\ action[r] = "access"
  /\ UNCHANGED poolVars
  /\ \/ r \in Private /\ UNCHANGED fileVars /\ GoOn(r, "hook")
     \/ r \notin Private /\ FPR!HookAccess(r) /\ GoOn(r, "queued")
     \/ /\ r \notin Private /\ FPR!IsDeleted
        /\ UNCHANGED fileVars
        /\ GoOn(r, "denied")

(* An unlink waits for the locks. *)
RequestUnlink(r) ==
  /\ pc[r] = "path" /\ action[r] = "unlink"
  /\ UNCHANGED poolVars
  /\ \/ r \in Private /\ UNCHANGED fileVars /\ GoOn(r, "hook")
     \/ r \notin Private /\ FPR!HookUnlink(r) /\ GoOn(r, "queued")

(* getPermissionQueue has answered with the pool: acquire. *)
AcquirePermission(r) ==
  /\ pc[r] = "hook"
  /\ Pool!Acquire(r)
  /\ pc' = [pc EXCEPT ![r] = "pool"]
  /\ UNCHANGED <<action, denied, fileVars>>

(* The pool has given a slot: the client is answered and works. *)
Answer(r) ==
  /\ pc[r] = "pool" /\ r \in holders
  /\ pc' = [pc EXCEPT ![r] = "working"]
  /\ UNCHANGED <<action, denied, fileVars, poolVars>>

-----------------------------------------------------------------------------
(* ReleaseAction. *)

(* The client releases: FSStoreFile does so whatever the answer was, because *)
(* FSStoreClient calls its callback for every answer.                        *)
Release(r) ==
  /\ pc[r] \in {"working", "denied"}
  /\ pc' = [pc EXCEPT ![r] = "relPath"]
  /\ UNCHANGED <<action, denied, fileVars, poolVars>>

(* The release of a lock: by its callback, or by unlock() when it has none.  *)
ReleaseLock(r) ==
  /\ pc[r] = "relPath" /\ action[r] = "lock"
  /\ UNCHANGED poolVars
  /\ \/ r \in Private /\ UNCHANGED fileVars
     \/ FPR!Unlock(r)
     \/ FPR!UnlockRefused(r)
  /\ GoOn(r, "done")

(* The release of an access or an unlink: inWorkRequests has it, so the pool *)
(* is asked to release whether or not it has given a slot.                   *)
ReleasePermission(r) ==
  /\ pc[r] = "relPath" /\ action[r] # "lock"
  /\ \/ Pool!ReleaseSlot(r)
     \/ slotHash[DW_ID] = 0 /\ UNCHANGED poolVars
  /\ pc' = [pc EXCEPT ![r] = "relPool"]
  /\ UNCHANGED <<action, denied, fileVars>>

(* The client is told, and the resolver through the request's cleanUpCB.     *)
ReleaseFile(r) ==
  /\ pc[r] = "relPool"
  /\ UNCHANGED poolVars
  /\ \/ FPR!ReleaseAccess(r)
     \/ FPR!ReleaseUnlink(r)
     \/ r \notin accessHeld \cup unlinkHeld /\ UNCHANGED fileVars
  /\ GoOn(r, "done")

-----------------------------------------------------------------------------
(* ClearAction.  A request it takes out of a queue is never answered.        *)

(* With an action: the requests of that action go, which are all of DW_ID.    *)
ClearAccess ==
  /\ access' = <<>>
  /\ UNCHANGED <<state, lockHash, lockLength, accessing, del>>
  /\ UNCHANGED <<lockHeld, accessHeld, unlinkHeld, cleaned, refused>>

ClearUnlink ==
  /\ del' = <<>>
  /\ UNCHANGED <<state, lockHash, lockLength, access, accessing>>
  /\ UNCHANGED <<lockHeld, accessHeld, unlinkHeld, cleaned, refused>>

ClearOne == ClearAccess \/ FPR!CleanLock \/ ClearUnlink

(* Without one: cleanAccess, cleanLock, whose chkEmpty may still let the      *)
(* first unlink in, and cleanUnlink.                                         *)
ClearAll ==
  /\ access' = <<>> /\ del' = <<>>
  /\ FPR!multiLock!Clean(DW_ID)
  /\ lockHeld' = {} /\ cleaned' = cleaned \cup lockHeld
  /\ UNCHANGED <<accessing, accessHeld, refused>>
  /\ \/ accessing /\ state' = FPR!Access /\ UNCHANGED unlinkHeld
     \/ ~accessing /\ del = <<>> /\ state' = FPR!Free /\ UNCHANGED unlinkHeld
     \/ /\ ~accessing /\ del # <<>> /\ state' = FPR!Deleting
        /\ unlinkHeld' = unlinkHeld \cup {Head(del)}

Clear ==
  /\ ClearOne \/ ClearAll
  /\ pc' = [q \in Request |-> IF q \in Called THEN "hook" ELSE pc[q]]
  /\ UNCHANGED <<action, denied, poolVars>>

RequestNext(r) ==
  \/ Ask(r) \/ RequestLock(r) \/ RequestAccess(r) \/ RequestUnlink(r)
  \/ AcquirePermission(r) \/ Answer(r)
  \/ Release(r) \/ ReleaseLock(r) \/ ReleasePermission(r) \/ ReleaseFile(r)

Next == Clear \/ \E r \in Request : RequestNext(r)

Spec == Init /\ [][Next]_vars

(* The server's coroutines go on, and an operation that accesses or unlinks  *)
(* a file comes to its end.  A lock may be kept for ever.                    *)
Fairness == \A r \in Request :
  /\ WF_vars(RequestLock(r)) /\ WF_vars(RequestAccess(r)) /\ WF_vars(RequestUnlink(r))
  /\ WF_vars(AcquirePermission(r)) /\ WF_vars(Answer(r))
  /\ WF_vars(action[r] # "lock" /\ Release(r))
  /\ WF_vars(ReleaseLock(r)) /\ WF_vars(ReleasePermission(r)) /\ WF_vars(ReleaseFile(r))

FairSpec == Spec /\ Fairness

-----------------------------------------------------------------------------
(* Who has been answered OK and has not begun to release. *)
Working(a) == {r \in Request : pc[r] = "working" /\ action[r] = a}

(* A client that was told it may write has the shared file and a slot, and   *)
(* no other client has: the file is not given back before the slot, nor to   *)
(* two requests, in any interleaving of the server's coroutines.             *)
OneWriter ==
  /\ \A r \in Working("access") : r \in holders /\ r \in accessHeld \cup Private
  /\ \A r, s \in Working("access") \ Private : r = s

(* At most MaxLockCount accesses and unlinks are under way at a time, until a *)
(* request that was refused and has no slot gives one back (threadCount).    *)
OperationsLimited == denied = {} => Pool!AtMostMaxLockCount

(* No slot is lost and none is given twice, by the count the limit is         *)
(* compared with, not even when requests without one release.                *)
NoSlotLost == slotLength \in 0..Cardinality(holders) /\ Pool!CounterInLimit

(* The file permission is taken before the slot and both are given back, so  *)
(* no two requests wait for each other: every lock and every access is       *)
(* answered, unless the file is deleted or clear() withdraws the request.    *)
Withdrawn(r) ==
  pc[r] = "queued" /\ r \notin accessHeld /\ \A i \in DOMAIN access : access[i] # r

EveryRequestAnswered ==
  \A r \in Request :
    pc[r] = "path" /\ action[r] # "unlink"
      ~> pc[r] \in {"working", "denied"} \/ FPR!IsDeleted \/ Withdrawn(r)

=============================================================================
