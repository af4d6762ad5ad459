----------------------- MODULE FilePermissionResolver -----------------------
(***************************************************************************)
(* core/fs-store/src/utils/FilePermissionResolver.ts: who may lock, write  *)
(* and delete one file.                                                    *)
(*                                                                         *)
(* The resolver is called synchronously and answers through callbacks: a   *)
(* grant hands the requester a release callback, which the requester calls *)
(* in a later turn of the event loop.  Each public method and each release *)
(* callback is one action, with the calls to chkEmpty, tryAccess and       *)
(* tryDelete it makes.  lockHeld, accessHeld and unlinkHeld are the        *)
(* requests whose release callback is still to be called: they are kept by *)
(* the requesters (FSStoreServer's cleanUpCBRecord) and not by the class.  *)
(***************************************************************************)
EXTENDS Integers, Sequences, FiniteSets

CONSTANTS
  Worker,     \* worker ids
  Request,    \* request ids: an id is used again only when it is idle
  Owner       \* the worker each request comes from

ASSUME ResolverAssumption ==
  /\ IsFiniteSet(Worker)
  /\ IsFiniteSet(Request)
  /\ Owner \in [Request -> Worker]

VARIABLES
  state,       \* an actionState
  lockHash,    \* multiLock: the locks per worker
  lockLength,  \* multiLock: their number
  access,      \* the queue of requests waiting for access
  accessing,   \* whether an access has been granted and not released
  del,         \* the queue of requests waiting to unlink
  lockHeld,    \* requests holding a lock's release callback
  accessHeld,  \* requests holding an access's release callback
  unlinkHeld,  \* requests holding an unlink's release callback
  cleaned,     \* requests holding the callback of a lock cleanLock took away
  refused      \* requests that were refused a lock

heldVars == <<lockHeld, accessHeld, unlinkHeld, cleaned, refused>>
vars == <<state, lockHash, lockLength, access, accessing, del, heldVars>>

multiLock == INSTANCE MultiLock WITH Id <- Worker, LockLimit <- 0

(* enum actionState: the code compares the numbers. *)
Locked   == 0
Access   == 1
Free     == 2
Deleting == 3
Deleted  == 4

IsDeleted     == state > Free
InQueue(q)    == {q[i] : i \in DOMAIN q}
Outstanding   == lockHeld \cup accessHeld \cup unlinkHeld \cup cleaned
Idle(r)       == r \notin Outstanding \cup refused \cup InQueue(access) \cup InQueue(del)
OfWorker(w)   == {r \in Request : Owner[r] = w}
Without(q, S) == SelectSeq(q, LAMBDA r : r \notin S)

TypeOK ==
  /\ state \in Locked..Deleted
  /\ multiLock!LockTypeOK
  /\ access \in Seq(Request)
  /\ accessing \in BOOLEAN
  /\ del \in Seq(Request)
  /\ lockHeld \subseteq Request
  /\ accessHeld \subseteq Request
  /\ unlinkHeld \subseteq Request
  /\ cleaned \subseteq Request
  /\ refused \subseteq Request

Init ==
  /\ state = Free
  /\ multiLock!LockInit
  /\ access = <<>>
  /\ accessing = FALSE
  /\ del = <<>>
  /\ lockHeld = {}
  /\ accessHeld = {}
  /\ unlinkHeld = {}
  /\ cleaned = {}
  /\ refused = {}

-----------------------------------------------------------------------------
(* The private methods.  Each states the next values of the variables it   *)
(* owns, reading as primed the ones its caller has already assigned.       *)

(* Mutant of tryDelete: the state is not tested.                             *)
TryDeleteAnyState(st, q, u) ==
  \/ /\ q # <<>>
     /\ state' = IF st > Free THEN st ELSE Deleting
     /\ del' = Tail(q)
     /\ unlinkHeld' = u \cup {Head(q)}
  \/ q = <<>> /\ state' = st /\ del' = q /\ unlinkHeld' = u

(* tryDelete, called in state st with the unlink queue q and the requests  *)
(* u that still hold an unlink: the first of the queue may delete.         *)
TryDelete(st, q, u) ==
  \/ /\ st >= Free /\ q # <<>>
     /\ state' = IF st > Free THEN st ELSE Deleting
     /\ del' = Tail(q)
     /\ unlinkHeld' = u \cup {Head(q)}
  \/ /\ st < Free \/ q = <<>>
     /\ state' = st
     /\ del' = q
     /\ unlinkHeld' = u

(* chkEmpty, with the unlink queue d: derive the state from the locks and   *)
(* the accesses that are left.                                             *)
ChkEmpty(d) ==
  \/ /\ lockLength' = 0 /\ access' = <<>> /\ ~accessing'
     /\ TryDelete(Free, d, unlinkHeld)
  \/ /\ lockLength' = 0 /\ access' = <<>> /\ accessing'
     /\ state' = Access /\ del' = d
     /\ UNCHANGED unlinkHeld
  \/ /\ lockLength' # 0
     /\ state' = Locked /\ del' = d
     /\ UNCHANGED unlinkHeld
  \/ /\ lockLength' = 0 /\ access' # <<>>
     /\ del' = d
     /\ UNCHANGED <<state, unlinkHeld>>

(* Mutant of tryAccess: the flag is not tested.                               *)
TryAccessBusy(q, busy, a, d) ==
  /\ UNCHANGED <<lockHash, lockLength, state, unlinkHeld>>
  /\ del' = d
  /\ IF IsDeleted \/ q = <<>>
     THEN access' = q /\ accessing' = busy /\ accessHeld' = a
     ELSE access' = Tail(q) /\ accessing' = TRUE /\ accessHeld' = a \cup {Head(q)}

(* tryAccess, with the access queue q, the flag busy, the requests a that   *)
(* still hold an access and the unlink queue d: the first of q may access. *)
TryAccess(q, busy, a, d) ==
  /\ UNCHANGED <<lockHash, lockLength>>
  /\ \/ /\ IsDeleted \/ busy
        /\ access' = q /\ accessing' = busy /\ accessHeld' = a /\ del' = d
        /\ UNCHANGED <<state, unlinkHeld>>
     \/ /\ ~IsDeleted /\ ~busy /\ q # <<>>
        /\ access' = Tail(q) /\ accessing' = TRUE
        /\ accessHeld' = a \cup {Head(q)} /\ del' = d
        /\ UNCHANGED <<state, unlinkHeld>>
     \/ /\ ~IsDeleted /\ ~busy /\ q = <<>>
        /\ access' = q /\ accessing' = busy /\ accessHeld' = a
        /\ ChkEmpty(d)

-----------------------------------------------------------------------------
(* The operations FSStoreServer uses. *)

(* Mutant of lock(): isDeleted is not tested.                                 *)
LockDeleted(r) ==
  /\ Idle(r)
  /\ multiLock!Acquire(Owner[r])
  /\ state' = Locked
  /\ lockHeld' = lockHeld \cup {r}
  /\ UNCHANGED <<access, accessing, del, accessHeld, unlinkHeld, cleaned, refused>>

(* lock(): refused once the file is being deleted. *)
Lock(r) ==
  /\ Idle(r)
  /\ UNCHANGED <<access, accessing, del, accessHeld, unlinkHeld, cleaned>>
  /\ \/ /\ ~IsDeleted
        /\ multiLock!Acquire(Owner[r])
        /\ state' = Locked
        /\ lockHeld' = lockHeld \cup {r}
        /\ UNCHANGED refused
     \/ /\ IsDeleted
        /\ refused' = refused \cup {r}
        /\ UNCHANGED <<state, lockHash, lockLength, lockHeld>>

(* A requester that was refused and does not come back. *)
GiveUp(r) ==
  /\ r \in refused
  /\ refused' = refused \ {r}
  /\ UNCHANGED <<state, lockHash, lockLength, access, accessing, del>>
  /\ UNCHANGED <<lockHeld, accessHeld, unlinkHeld, cleaned>>

(* unlock(), the release callback of lock(): it takes off a lock of the      *)
(* worker, the request's own or, if that was cleaned, another one.         *)
Unlock(r) ==
  /\ r \in lockHeld \cup cleaned
  /\ lockHeld' = lockHeld \ {r}
  /\ cleaned' = cleaned \ {r}
  /\ multiLock!Release(Owner[r])
  /\ UNCHANGED <<access, accessing, accessHeld, refused>>
  /\ ChkEmpty(del)

(* hookAccess(): refused once the file is being deleted. *)
HookAccess(r) ==
  /\ Idle(r)
  /\ ~IsDeleted
  /\ TryAccess(Append(access, r), accessing, accessHeld, del)
  /\ UNCHANGED <<lockHeld, cleaned, refused>>

(* Mutant of the callback: the next in the queue is not tried.                *)
ReleaseAccessOnly(r) ==
  /\ r \in accessHeld
  /\ accessing' = FALSE /\ accessHeld' = accessHeld \ {r}
  /\ UNCHANGED <<state, lockHash, lockLength, access, del, lockHeld, unlinkHeld, cleaned, refused>>

(* The callback tryAccess hands out with an access. *)
ReleaseAccess(r) ==
  /\ r \in accessHeld
  /\ TryAccess(access, FALSE, accessHeld \ {r}, del)
  /\ UNCHANGED <<lockHeld, cleaned, refused>>

(* hookUnlink(): always queued. *)
HookUnlink(r) ==
  /\ Idle(r)
  /\ TryDelete(state, Append(del, r), unlinkHeld)
  /\ UNCHANGED <<lockHash, lockLength, access, accessing>>
  /\ UNCHANGED <<lockHeld, accessHeld, cleaned, refused>>

(* Mutant of the callback: the next in the queue is not tried.                *)
ReleaseUnlinkOnly(r) ==
  /\ r \in unlinkHeld
  /\ state' = Deleted /\ unlinkHeld' = unlinkHeld \ {r}
  /\ UNCHANGED <<lockHash, lockLength, access, accessing, del, lockHeld, accessHeld, cleaned, refused>>

(* The callback tryDelete hands out with an unlink. *)
ReleaseUnlink(r) ==
  /\ r \in unlinkHeld
  /\ TryDelete(Deleted, del, unlinkHeld \ {r})
  /\ UNCHANGED <<lockHash, lockLength, access, accessing>>
  /\ UNCHANGED <<lockHeld, accessHeld, cleaned, refused>>

-----------------------------------------------------------------------------
(* The operations of FSStoreServer's ClearAction, for one worker's requests *)
(* or (the second disjunct) for all, and the unhook methods nobody calls.   *)

CleanLock ==
  /\ \/ \E w \in Worker : /\ multiLock!Clean(w)
                          /\ lockHeld' = lockHeld \ OfWorker(w)
     \/ multiLock!CleanAll /\ lockHeld' = {}
  /\ cleaned' = cleaned \cup (lockHeld \ lockHeld')
  /\ UNCHANGED <<access, accessing, accessHeld, refused>>
  /\ ChkEmpty(del)

(* unlock() for a request that was refused: ReleaseAction has no callback of  *)
(* it and calls unlock() directly, which takes off a lock of the worker, if *)
(* there is one, and derives the state anew.                               *)
UnlockRefused(r) ==
  /\ r \in refused
  /\ refused' = refused \ {r}
  /\ multiLock!Release(Owner[r])
  /\ UNCHANGED <<access, accessing, lockHeld, accessHeld, cleaned>>
  /\ ChkEmpty(del)

CleanAccess ==
  /\ \/ \E w \in Worker : access' = Without(access, OfWorker(w))
     \/ access' = <<>>
  /\ UNCHANGED <<state, lockHash, lockLength, accessing, del, heldVars>>

CleanUnlink ==
  /\ \/ \E w \in Worker : del' = Without(del, OfWorker(w))
     \/ del' = <<>>
  /\ UNCHANGED <<state, lockHash, lockLength, access, accessing, heldVars>>

(* The requests whose worker and whose id both differ from those of r: the *)
(* ones the predicate of the two unhook methods removes.                   *)
Others(r) == {o \in Request : o # r /\ Owner[o] # Owner[r]}

UnhookAccess(r) ==
  /\ ~IsDeleted
  /\ TryAccess(Without(access, Others(r)), accessing, accessHeld, del)
  /\ UNCHANGED <<lockHeld, cleaned, refused>>

UnhookUnlink(r) ==
  /\ TryAccess(access, accessing, accessHeld, Without(del, Others(r)))
  /\ UNCHANGED <<lockHeld, cleaned, refused>>

-----------------------------------------------------------------------------
(* What the clients of FSStoreServer do. *)
UserNext == \E r \in Request :
  \/ Lock(r) \/ Unlock(r) \/ GiveUp(r)
  \/ HookAccess(r) \/ ReleaseAccess(r)
  \/ HookUnlink(r) \/ ReleaseUnlink(r)

(* What only the public interface of the class allows besides. *)
AdminNext ==
  \/ CleanLock \/ CleanAccess \/ CleanUnlink
  \/ \E r \in Request : UnlockRefused(r) \/ UnhookAccess(r) \/ UnhookUnlink(r)

Next == UserNext \/ AdminNext

(* FSStoreFile: a file whose lock was refused still releases it, because     *)
(* FSStoreClient calls the requester back whatever the answer is.          *)
FileNext == UserNext \/ \E r \in Request : UnlockRefused(r)

Spec     == Init /\ [][Next]_vars
UserSpec == Init /\ [][UserNext]_vars
FileSpec == Init /\ [][FileNext]_vars

(* FSStoreFile releases every access it is granted before its operation     *)
(* returns, and every unlink once the file is gone.                        *)
Fairness == \A r \in Request : WF_vars(ReleaseAccess(r)) /\ WF_vars(ReleaseUnlink(r))

FairUserSpec == UserSpec /\ Fairness

-----------------------------------------------------------------------------
(* Properties. *)

(* A file is accessed by one request at a time, and the flag tryAccess       *)
(* tests is exactly that somebody accesses it.                             *)
AccessExclusive ==
  /\ accessing <=> accessHeld # {}
  /\ \A r, s \in accessHeld : r = s

(* The lock counter, which is kept per worker and not per request, is the   *)
(* number of requests that hold a lock: every release takes off one's own. *)
LocksCounted ==
  /\ lockLength = Cardinality(lockHeld)
  /\ \A w \in Worker : lockHash[w] = Cardinality(lockHeld \cap OfWorker(w))

(* Nobody may delete a file somebody has locked: tryDelete grants a deletion *)
(* only when the last lock is gone, and lock() none once it has.           *)
LocksProtect == lockHeld = {} \/ unlinkHeld = {}

(* Once the file may be deleted it stays so: chkEmpty never makes a file    *)
(* free again that somebody is deleting or has deleted.                    *)
DeletionFinal == [][IsDeleted => IsDeleted']_vars

(* No lost wake-up: when nobody holds anything, no request to unlink is     *)
(* left in the queue.                                                      *)
NoLostUnlink == Outstanding = {} => del = <<>>

(* A request in the access queue is granted access, or the file is deleted  *)
(* before its turn.                                                        *)
AccessGrantedOrDeleted ==
  \A r \in Request :
    r \in InQueue(access) ~> (r \in accessHeld \/ IsDeleted)

(* The promise of FilePermission. *)
permission == INSTANCE FilePermission WITH
  lockers <- lockHeld, accessors <- accessHeld, deleters <- unlinkHeld,
  doomed <- IsDeleted
KeepsPermission == permission!PermSpec

=============================================================================
