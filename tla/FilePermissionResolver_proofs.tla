-------------------- MODULE FilePermissionResolver_proofs --------------------
(***************************************************************************)
(* What FilePermissionResolver guarantees for any number of workers and    *)
(* requests.                                                               *)
(***************************************************************************)
EXTENDS FilePermissionResolver, FiniteSetTheorems, TLAPS

-----------------------------------------------------------------------------
(* How the size of a finite set, and of its part in another set, changes when *)
(* an element comes or goes: what the per-file counters are compared with.  *)

(* The part of a finite set is finite, and its size is a number. *)
LEMMA PartFinite ==
  ASSUME NEW S, NEW P, IsFiniteSet(S)
  PROVE  /\ IsFiniteSet(S \cap P)
         /\ Cardinality(S \cap P) \in Nat
         /\ Cardinality(S) \in Nat
         /\ Cardinality(S \cap P) <= Cardinality(S)
<1>1. S \cap P \in SUBSET S
  OBVIOUS
<1> QED
  BY <1>1, FS_Subset, FS_CardinalityType

(* A new element adds one to the parts it lies in and nothing to the others. *)
LEMMA CountAdd ==
  ASSUME NEW S, NEW P, NEW x, IsFiniteSet(S), x \notin S
  PROVE  /\ IsFiniteSet(S \cup {x})
         /\ Cardinality(S \cup {x}) = Cardinality(S) + 1
         /\ x \in P => Cardinality((S \cup {x}) \cap P) = Cardinality(S \cap P) + 1
         /\ x \notin P => Cardinality((S \cup {x}) \cap P) = Cardinality(S \cap P)
<1>1. IsFiniteSet(S \cap P)
  BY PartFinite
<1>2. /\ IsFiniteSet(S \cup {x})
      /\ Cardinality(S \cup {x}) = Cardinality(S) + 1
  BY FS_AddElement
<1>3. ASSUME x \in P
      PROVE  Cardinality((S \cup {x}) \cap P) = Cardinality(S \cap P) + 1
  <2>1. (S \cup {x}) \cap P = (S \cap P) \cup {x}
    BY <1>3
  <2>2. Cardinality((S \cap P) \cup {x}) = Cardinality(S \cap P) + 1
    BY <1>1, FS_AddElement
  <2> QED
    BY <2>1, <2>2
<1>4. ASSUME x \notin P
      PROVE  Cardinality((S \cup {x}) \cap P) = Cardinality(S \cap P)
  <2>1. (S \cup {x}) \cap P = S \cap P
    BY <1>4
  <2> QED
    BY <2>1
<1> QED
  BY <1>2, <1>3, <1>4

(* An element that leaves takes one off the parts it lay in. *)
LEMMA CountRemove ==
  ASSUME NEW S, NEW P, NEW x, IsFiniteSet(S), x \in S
  PROVE  /\ IsFiniteSet(S \ {x})
         /\ Cardinality(S \ {x}) = Cardinality(S) - 1
         /\ x \in P => /\ Cardinality((S \ {x}) \cap P) = Cardinality(S \cap P) - 1
                       /\ Cardinality(S \cap P) > 0
         /\ x \notin P => Cardinality((S \ {x}) \cap P) = Cardinality(S \cap P)
<1>1. IsFiniteSet(S \cap P) /\ Cardinality(S \cap P) \in Nat
  BY PartFinite
<1>2. /\ IsFiniteSet(S \ {x})
      /\ Cardinality(S \ {x}) = Cardinality(S) - 1
  BY FS_RemoveElement
<1>3. ASSUME x \in P
      PROVE  /\ Cardinality((S \ {x}) \cap P) = Cardinality(S \cap P) - 1
             /\ Cardinality(S \cap P) > 0
  <2>1. (S \ {x}) \cap P = (S \cap P) \ {x} /\ x \in S \cap P
    BY <1>3
  <2>2. Cardinality((S \cap P) \ {x}) = Cardinality(S \cap P) - 1
    BY <1>1, <2>1, FS_RemoveElement
  <2>3. Cardinality(S \cap P) # 0
    BY <1>1, <2>1, FS_EmptySet
  <2> QED
    BY <1>1, <2>1, <2>2, <2>3
<1>4. ASSUME x \notin P
      PROVE  Cardinality((S \ {x}) \cap P) = Cardinality(S \cap P)
  <2>1. (S \ {x}) \cap P = S \cap P
    BY <1>4
  <2> QED
    BY <2>1
<1> QED
  BY <1>2, <1>3, <1>4


USE DEF Locked, Access, Free, Deleting, Deleted

-----------------------------------------------------------------------------
(* The private methods keep the types of what they assign. *)

LEMMA TryDeleteType ==
  ASSUME NEW st \in 0..4, NEW q \in Seq(Request), NEW u \in SUBSET Request,
         TryDelete(st, q, u)
  PROVE  state' \in 0..4 /\ del' \in Seq(Request) /\ unlinkHeld' \in SUBSET Request
BY DEF TryDelete

LEMMA ChkEmptyType ==
  ASSUME TypeOK, ChkEmpty(del)
  PROVE  state' \in 0..4 /\ del' \in Seq(Request) /\ unlinkHeld' \in SUBSET Request
BY TryDeleteType DEF TypeOK, ChkEmpty

LEMMA TryAccessType ==
  ASSUME TypeOK, NEW q \in Seq(Request), NEW busy \in BOOLEAN,
         NEW a \in SUBSET Request, TryAccess(q, busy, a, del)
  PROVE  /\ access' \in Seq(Request) /\ accessing' \in BOOLEAN
         /\ accessHeld' \in SUBSET Request
         /\ state' \in 0..4 /\ del' \in Seq(Request) /\ unlinkHeld' \in SUBSET Request
         /\ UNCHANGED <<lockHash, lockLength>>
<1>1. CASE IsDeleted \/ busy
  BY <1>1 DEF TryAccess, TypeOK
<1>3. CASE ~(IsDeleted \/ busy) /\ q # <<>>
  <2>1. Head(q) \in Request /\ Tail(q) \in Seq(Request)
    BY <1>3
  <2> QED
    BY <1>3, <2>1 DEF TryAccess, TypeOK
<1>2. CASE ~(IsDeleted \/ busy \/ q # <<>>)
  <2>1. ChkEmpty(del)
    BY <1>2 DEF TryAccess
  <2> QED
    BY <1>2, <2>1, ChkEmptyType DEF TryAccess
<1> QED
  BY <1>1, <1>2, <1>3

(* release() keeps the types of the lock counters. *)
LEMMA ReleaseType ==
  ASSUME multiLock!LockTypeOK, NEW r \in Request, multiLock!Release(Owner[r])
  PROVE  multiLock!LockTypeOK'
<1>1. Owner[r] \in Worker
  BY ResolverAssumption
<1> QED
  BY <1>1 DEF multiLock!Release, multiLock!ReleaseOne, multiLock!LockTypeOK,
     multiLock!lockVars

LEMMA TypeInit == Init => TypeOK
<1> SUFFICES ASSUME Init
             PROVE  TypeOK
  OBVIOUS
<1>1. multiLock!LockTypeOK
  BY DEF Init, multiLock!LockInit, multiLock!LockTypeOK
<1>2. access \in Seq(Request) /\ del \in Seq(Request)
  BY DEF Init
<1>3. state \in 0..4
  BY DEF Init
<1>5. accessing \in BOOLEAN
  BY DEF Init
<1>4. /\ lockHeld \subseteq Request /\ accessHeld \subseteq Request
      /\ unlinkHeld \subseteq Request /\ cleaned \subseteq Request
      /\ refused \subseteq Request
  BY DEF Init
<1> QED
  BY <1>1, <1>2, <1>3, <1>4, <1>5 DEF TypeOK

LEMMA TypeStep == TypeOK /\ [FileNext]_vars => TypeOK'
<1> SUFFICES ASSUME TypeOK, [FileNext]_vars
             PROVE  TypeOK'
  OBVIOUS
<1> USE ResolverAssumption
<1>1. ASSUME NEW r \in Request, Lock(r)
      PROVE  TypeOK'
  BY <1>1 DEF Lock, TypeOK, multiLock!Acquire, multiLock!LockTypeOK
<1>2. ASSUME NEW r \in Request, Unlock(r)
      PROVE  TypeOK'
  <2>1. ChkEmpty(del) /\ multiLock!Release(Owner[r])
    BY <1>2 DEF Unlock
  <2>2. multiLock!LockTypeOK'
    BY <2>1, ReleaseType DEF TypeOK
  <2> QED
    BY <1>2, <2>1, <2>2, ChkEmptyType DEF Unlock, TypeOK
<1>3. ASSUME NEW r \in Request, GiveUp(r)
      PROVE  TypeOK'
  BY <1>3 DEF GiveUp, TypeOK, multiLock!LockTypeOK
<1>4. ASSUME NEW r \in Request, HookAccess(r)
      PROVE  TypeOK'
  <2>1. Append(access, r) \in Seq(Request)
    BY DEF TypeOK
  <2> QED
    BY <1>4, <2>1, TryAccessType DEF HookAccess, TypeOK, multiLock!LockTypeOK
<1>5. ASSUME NEW r \in Request, ReleaseAccess(r)
      PROVE  TypeOK'
  <2>1. TryAccess(access, FALSE, accessHeld \ {r}, del)
    BY <1>5 DEF ReleaseAccess
  <2>2. access \in Seq(Request) /\ accessHeld \ {r} \in SUBSET Request
    BY DEF TypeOK
  <2>3. /\ access' \in Seq(Request) /\ accessing' \in BOOLEAN
        /\ accessHeld' \in SUBSET Request
        /\ state' \in 0..4 /\ del' \in Seq(Request) /\ unlinkHeld' \in SUBSET Request
        /\ UNCHANGED <<lockHash, lockLength>>
    BY <2>1, <2>2, TryAccessType
  <2> QED
    BY <1>5, <2>3 DEF ReleaseAccess, TypeOK, multiLock!LockTypeOK
<1>6. ASSUME NEW r \in Request, HookUnlink(r)
      PROVE  TypeOK'
  <2>1. Append(del, r) \in Seq(Request)
    BY DEF TypeOK
  <2> QED
    BY <1>6, <2>1, TryDeleteType DEF HookUnlink, TypeOK, multiLock!LockTypeOK
<1>7. ASSUME NEW r \in Request, ReleaseUnlink(r)
      PROVE  TypeOK'
  BY <1>7, TryDeleteType DEF ReleaseUnlink, TypeOK, multiLock!LockTypeOK
<1>8. ASSUME NEW r \in Request, UnlockRefused(r)
      PROVE  TypeOK'
  <2>1. ChkEmpty(del) /\ multiLock!Release(Owner[r])
    BY <1>8 DEF UnlockRefused
  <2>2. multiLock!LockTypeOK'
    BY <2>1, ReleaseType DEF TypeOK
  <2> QED
    BY <1>8, <2>1, <2>2, ChkEmptyType DEF UnlockRefused, TypeOK
<1>9. CASE UNCHANGED vars
  BY <1>9 DEF vars, heldVars, TypeOK, multiLock!LockTypeOK
<1> QED
  BY <1>1, <1>2, <1>3, <1>4, <1>5, <1>6, <1>7, <1>8, <1>9 DEF FileNext, UserNext

(* Every variable keeps its type, in whatever order clients lock, access and *)
(* unlink the file.                                                        *)
THEOREM TypeCorrect == FileSpec => []TypeOK
BY TypeInit, TypeStep, PTL DEF FileSpec

-----------------------------------------------------------------------------
(* AccessExclusive holds whatever is called, the clean and unhook methods    *)
(* included: the flag and the holder change together.                      *)

LEMMA TryAccessExclusive ==
  ASSUME NEW q, NEW busy, NEW a, NEW d, TryAccess(q, busy, a, d),
         busy <=> a # {}, \A r, s \in a : r = s
  PROVE  AccessExclusive'
BY DEF TryAccess, AccessExclusive

LEMMA AccessExclusiveStep == AccessExclusive /\ [Next]_vars => AccessExclusive'
<1> SUFFICES ASSUME AccessExclusive, [Next]_vars
             PROVE  AccessExclusive'
  OBVIOUS
<1>1. ASSUME UNCHANGED <<accessing, accessHeld>>
      PROVE  AccessExclusive'
  BY <1>1 DEF AccessExclusive
<1>2. ASSUME NEW r \in Request, HookAccess(r)
      PROVE  AccessExclusive'
  BY <1>2, TryAccessExclusive DEF HookAccess, AccessExclusive
<1>3. ASSUME NEW r \in Request, ReleaseAccess(r)
      PROVE  AccessExclusive'
  <2>1. accessHeld \ {r} = {}
    BY <1>3 DEF ReleaseAccess, AccessExclusive
  <2> QED
    BY <1>3, <2>1, TryAccessExclusive DEF ReleaseAccess
<1>4. ASSUME NEW r \in Request, UnhookAccess(r) \/ UnhookUnlink(r)
      PROVE  AccessExclusive'
  BY <1>4, TryAccessExclusive DEF UnhookAccess, UnhookUnlink, AccessExclusive
<1>5. ASSUME NEW r \in Request,
             \/ Lock(r) \/ Unlock(r) \/ GiveUp(r) \/ UnlockRefused(r)
             \/ HookUnlink(r) \/ ReleaseUnlink(r)
      PROVE  UNCHANGED <<accessing, accessHeld>>
  BY <1>5 DEF Lock, Unlock, GiveUp, UnlockRefused, HookUnlink, ReleaseUnlink
<1>6. ASSUME CleanLock \/ CleanAccess \/ CleanUnlink
      PROVE  UNCHANGED <<accessing, accessHeld>>
  BY <1>6 DEF CleanLock, CleanAccess, CleanUnlink, heldVars
<1>7. CASE UNCHANGED vars
  BY <1>1, <1>7 DEF vars, heldVars
<1> QED
  BY <1>1, <1>2, <1>3, <1>4, <1>5, <1>6, <1>7 DEF Next, UserNext, AdminNext

(* A file has one accessor at most, and accessing says whether it has one.   *)
THEOREM AccessIsExclusive == Spec => []AccessExclusive
<1>1. Init => AccessExclusive
  BY DEF Init, AccessExclusive
<1> QED
  BY <1>1, AccessExclusiveStep, PTL DEF Spec

-----------------------------------------------------------------------------
(* Locks.  LocksCounted is not inductive by itself: a lock may only be given *)
(* back to a worker that has one, and nobody holds a lock of a file that is  *)
(* being deleted, so that deriving the state anew on a release cannot bring  *)
(* such a file back.                                                         *)

LockedState   == lockHeld # {} => state = Locked
DeletersState == unlinkHeld # {} => IsDeleted
NoneCleaned   == cleaned = {}

LockInv == TypeOK /\ LocksCounted /\ LockedState /\ DeletersState /\ NoneCleaned

LEMMA LockHeldFinite ==
  ASSUME TypeOK
  PROVE  IsFiniteSet(lockHeld)
BY ResolverAssumption, FS_Subset DEF TypeOK

(* A request that is idle and locks adds one to the total and to its worker. *)
LEMMA AcquireCounts ==
  ASSUME TypeOK, LocksCounted, NEW r \in Request \ lockHeld,
         multiLock!Acquire(Owner[r]), lockHeld' = lockHeld \cup {r}
  PROVE  LocksCounted'
<1>1. IsFiniteSet(lockHeld)
  BY LockHeldFinite
<1>2. lockLength' = Cardinality(lockHeld')
  BY <1>1, FS_AddElement DEF LocksCounted, multiLock!Acquire
<1>3. ASSUME NEW w \in Worker
      PROVE  lockHash'[w] = Cardinality(lockHeld' \cap OfWorker(w))
  <2>1. lockHash'[w] = IF w = Owner[r] THEN lockHash[w] + 1 ELSE lockHash[w]
    BY DEF multiLock!Acquire, TypeOK, multiLock!LockTypeOK
  <2>2. r \in OfWorker(w) <=> w = Owner[r]
    BY DEF OfWorker
  <2>3. /\ r \in OfWorker(w) => Cardinality((lockHeld \cup {r}) \cap OfWorker(w))
                                  = Cardinality(lockHeld \cap OfWorker(w)) + 1
        /\ r \notin OfWorker(w) => Cardinality((lockHeld \cup {r}) \cap OfWorker(w))
                                  = Cardinality(lockHeld \cap OfWorker(w))
    BY <1>1, CountAdd
  <2> QED
    BY <2>1, <2>2, <2>3 DEF LocksCounted
<1> QED
  BY <1>2, <1>3 DEF LocksCounted, OfWorker

(* A request that holds a lock and releases it takes off its own.            *)
LEMMA ReleaseCounts ==
  ASSUME TypeOK, LocksCounted, NEW r \in lockHeld,
         multiLock!Release(Owner[r]), lockHeld' = lockHeld \ {r}
  PROVE  /\ LocksCounted'
         /\ lockLength' = 0 <=> lockHeld' = {}
<1>1. IsFiniteSet(lockHeld) /\ r \in Request /\ Owner[r] \in Worker
  BY LockHeldFinite, ResolverAssumption DEF TypeOK
<1>2. r \in OfWorker(Owner[r])
  BY <1>1 DEF OfWorker
<1>3. lockHash[Owner[r]] > 0
  <2>1. Cardinality(lockHeld \cap OfWorker(Owner[r])) > 0
    BY <1>1, <1>2, CountRemove
  <2> QED
    BY <1>1, <2>1 DEF LocksCounted
<1>4. multiLock!ReleaseOne(Owner[r])
  BY <1>3 DEF multiLock!Release
<1>5. lockLength' = Cardinality(lockHeld') /\ IsFiniteSet(lockHeld')
  BY <1>1, <1>4, FS_RemoveElement DEF LocksCounted, multiLock!ReleaseOne
<1>6. ASSUME NEW w \in Worker
      PROVE  lockHash'[w] = Cardinality(lockHeld' \cap OfWorker(w))
  <2>1. lockHash'[w] = IF w = Owner[r] THEN lockHash[w] - 1 ELSE lockHash[w]
    BY <1>4 DEF multiLock!ReleaseOne, TypeOK, multiLock!LockTypeOK
  <2>2. r \in OfWorker(w) <=> w = Owner[r]
    BY <1>1 DEF OfWorker
  <2>3. /\ r \in OfWorker(w) => Cardinality((lockHeld \ {r}) \cap OfWorker(w))
                                  = Cardinality(lockHeld \cap OfWorker(w)) - 1
        /\ r \notin OfWorker(w) => Cardinality((lockHeld \ {r}) \cap OfWorker(w))
                                  = Cardinality(lockHeld \cap OfWorker(w))
    BY <1>1, CountRemove
  <2> QED
    BY <2>1, <2>2, <2>3 DEF LocksCounted
<1> QED
  BY <1>5, <1>6, FS_EmptySet DEF LocksCounted, OfWorker

(* chkEmpty, when the counter tells whether a lock is left: a file with a    *)
(* lock is Locked and nobody is granted its deletion.                        *)
LEMMA ChkEmptyLocks ==
  ASSUME ChkEmpty(del), lockLength' = 0 <=> lockHeld' = {}, DeletersState
  PROVE  /\ lockHeld' # {} => state' = Locked /\ UNCHANGED unlinkHeld
         /\ unlinkHeld' # {} => (state' > Free \/ UNCHANGED unlinkHeld)
BY DEF ChkEmpty, TryDelete

LEMMA LockInvInit == Init => LockInv
<1> SUFFICES ASSUME Init
             PROVE  LockInv
  OBVIOUS
<1>1. TypeOK
  BY TypeInit
<1>2. LocksCounted
  <2>1. lockHeld = {} /\ Cardinality({}) = 0
    BY FS_EmptySet DEF Init
  <2>2. \A w \in Worker : {} \cap OfWorker(w) = {} /\ lockHash[w] = 0
    BY DEF Init, multiLock!LockInit
  <2> QED
    BY <2>1, <2>2 DEF Init, multiLock!LockInit, LocksCounted
<1>3. LockedState /\ DeletersState /\ NoneCleaned
  BY DEF Init, LockedState, DeletersState, NoneCleaned
<1> QED
  BY <1>1, <1>2, <1>3 DEF LockInv

(* A step of a client keeps the invariant, and never brings back a file that *)
(* is being deleted: only the release of a lock could, and there is none.    *)
LEMMA LockInvStep ==
  ASSUME LockInv, [UserNext]_vars
  PROVE  LockInv' /\ (IsDeleted => IsDeleted')
<1>1. TypeOK /\ TypeOK'
  BY TypeStep DEF LockInv, FileNext
<1> USE DEF LockInv, LockedState, DeletersState, NoneCleaned, IsDeleted
<1>2. ASSUME UNCHANGED <<lockHash, lockLength, lockHeld>>
      PROVE  LocksCounted'
  BY <1>2 DEF LocksCounted, OfWorker
<1>3. ASSUME NEW r \in Request, Lock(r)
      PROVE  LockInv' /\ (IsDeleted => IsDeleted')
  <2>1. CASE ~IsDeleted
    <3>1. r \in Request \ lockHeld
      BY <1>3 DEF Lock, Idle, Outstanding
    <3> QED
      BY <1>1, <1>3, <2>1, <3>1, AcquireCounts DEF Lock
  <2>2. CASE IsDeleted
    BY <1>1, <1>2, <1>3, <2>2 DEF Lock
  <2> QED
    BY <2>1, <2>2
<1>4. ASSUME NEW r \in Request, Unlock(r)
      PROVE  LockInv' /\ (IsDeleted => IsDeleted')
  <2>1. r \in lockHeld /\ cleaned' = {} /\ ~IsDeleted
    BY <1>4 DEF Unlock
  <2>2. LocksCounted' /\ (lockLength' = 0 <=> lockHeld' = {})
    BY <1>4, <2>1, ReleaseCounts DEF Unlock
  <2>3. /\ lockHeld' # {} => state' = Locked /\ UNCHANGED unlinkHeld
        /\ unlinkHeld' # {} => (state' > Free \/ UNCHANGED unlinkHeld)
    BY <1>4, <2>2, ChkEmptyLocks DEF Unlock
  <2> QED
    BY <1>1, <2>1, <2>2, <2>3
<1>5. ASSUME NEW r \in Request, GiveUp(r)
      PROVE  LockInv' /\ (IsDeleted => IsDeleted')
  BY <1>1, <1>2, <1>5 DEF GiveUp
<1>6. ASSUME NEW q, NEW busy, NEW a, TryAccess(q, busy, a, del),
             UNCHANGED <<lockHeld, cleaned, refused>>
      PROVE  LockInv' /\ (IsDeleted => IsDeleted')
  <2>1. LocksCounted'
    BY <1>2, <1>6 DEF TryAccess
  <2>2. CASE UNCHANGED <<state, unlinkHeld>>
    BY <1>1, <1>6, <2>1, <2>2
  <2>3. CASE ~IsDeleted /\ ChkEmpty(del)
    <3>1. lockLength' = 0 <=> lockHeld' = {}
      BY <1>1, <1>6, LockHeldFinite, FS_EmptySet DEF LocksCounted, TryAccess
    <3> QED
      BY <1>1, <1>6, <2>1, <2>3, <3>1, ChkEmptyLocks
  <2> QED
    BY <1>6, <2>2, <2>3 DEF TryAccess
<1>7. ASSUME NEW r \in Request, HookAccess(r) \/ ReleaseAccess(r)
      PROVE  LockInv' /\ (IsDeleted => IsDeleted')
  BY <1>6, <1>7 DEF HookAccess, ReleaseAccess
<1>8. ASSUME NEW r \in Request, HookUnlink(r)
      PROVE  LockInv' /\ (IsDeleted => IsDeleted')
  BY <1>1, <1>2, <1>8 DEF HookUnlink, TryDelete
<1>9. ASSUME NEW r \in Request, ReleaseUnlink(r)
      PROVE  LockInv' /\ (IsDeleted => IsDeleted')
  BY <1>1, <1>2, <1>9 DEF ReleaseUnlink, TryDelete
<1>10. CASE UNCHANGED vars
  BY <1>1, <1>2, <1>10 DEF vars, heldVars
<1> QED
  BY <1>3, <1>4, <1>5, <1>7, <1>8, <1>9, <1>10 DEF UserNext

(* While requesters are called back for what they were granted only, the     *)
(* lock counters are the locks held, per worker and in total.                *)
THEOREM LocksAreCounted == UserSpec => []LocksCounted
<1>1. UserSpec => []LockInv
  BY LockInvInit, LockInvStep, PTL DEF UserSpec
<1> QED
  BY <1>1, PTL DEF LockInv

(* ... no file is deleted under a lock ...                                   *)
THEOREM LocksAreProtected == UserSpec => []LocksProtect
<1>1. UserSpec => []LockInv
  BY LockInvInit, LockInvStep, PTL DEF UserSpec
<1>2. LockInv => LocksProtect
  BY DEF LockInv, LockedState, DeletersState, LocksProtect, IsDeleted
<1> QED
  BY <1>1, <1>2, PTL

(* ... and a deletion is never undone.                                       *)
THEOREM DeletionIsFinal == UserSpec => DeletionFinal
<1>1. UserSpec => []LockInv /\ [][UserNext]_vars
  BY LockInvInit, LockInvStep, PTL DEF UserSpec
<1>2. LockInv /\ [UserNext]_vars => [IsDeleted => IsDeleted']_vars
  BY LockInvStep
<1> QED
  BY <1>1, <1>2, PTL DEF DeletionFinal

-----------------------------------------------------------------------------
(* The resolver implements FilePermission: each step of a client is one of   *)
(* the abstract steps, or changes nothing a requester can see.               *)

USE DEF permission!GrantUnlink, permission!NoGrant, permission!permVars

LEMMA AppendHead ==
  ASSUME NEW q \in Seq(Request), NEW r \in Request
  PROVE  Append(q, r) # <<>> /\ Head(Append(q, r)) \in Request
<1>1. /\ Append(q, r) \in Seq(Request)
      /\ Len(Append(q, r)) = Len(q) + 1
      /\ Len(q) \in Nat
  OBVIOUS
<1>2. Append(q, r) # <<>>
  BY <1>1
<1> QED
  BY <1>1, <1>2

LEMMA StepKeepsPermission ==
  ASSUME LockInv, AccessExclusive, [UserNext]_vars
  PROVE  [permission!PermNext]_permission!permVars
<1>0. /\ state \in 0..4 /\ state' \in 0..4
      /\ IsDeleted <=> state > 2
      /\ IsDeleted' <=> state' > 2
      /\ IsDeleted \in BOOLEAN /\ IsDeleted' \in BOOLEAN
      /\ state' = state => IsDeleted' = IsDeleted
      /\ IsDeleted /\ IsDeleted' => IsDeleted' = IsDeleted
      /\ ~IsDeleted /\ ~IsDeleted' => IsDeleted' = IsDeleted
      /\ IsDeleted' => IsDeleted' = TRUE
  <2>1. state \in 0..4 /\ state' \in 0..4
    BY TypeStep DEF LockInv, TypeOK, FileNext
  <2>2. (IsDeleted <=> state > 2) /\ (IsDeleted' <=> state' > 2)
    BY DEF IsDeleted
  <2>3. IsDeleted \in BOOLEAN /\ IsDeleted' \in BOOLEAN
    BY DEF IsDeleted
  <2>4. state' = state => IsDeleted' = IsDeleted
    BY DEF IsDeleted
  <2> QED
    BY <2>1, <2>2, <2>3, <2>4, Zenon
<1>1. TypeOK /\ (lockHeld # {} => state = Locked) /\ (unlinkHeld # {} => IsDeleted)
  BY DEF LockInv, LockedState, DeletersState, IsDeleted
<1>2. lockLength = 0 => lockHeld = {}
  <2>1. IsFiniteSet(lockHeld) /\ lockLength = Cardinality(lockHeld)
    BY <1>1, LockHeldFinite DEF LockInv, LocksCounted
  <2> QED
    BY <2>1, FS_EmptySet
(* chkEmpty grants the first of the queue, or nobody. *)
<1>3. ASSUME ChkEmpty(del), ~IsDeleted, lockLength' = 0 => lockHeld' = {}
      PROVE  permission!NoGrant \/ permission!GrantUnlink
  <2>1. CASE unlinkHeld' = unlinkHeld /\ state' <= Free
    <3>1. ~IsDeleted'
      BY <1>0, <2>1
    <3> QED
      BY <1>0, <1>3, <2>1, <3>1
  <2>2. CASE lockLength' = 0 /\ del # <<>> /\ TryDelete(Free, del, unlinkHeld)
    <3>1. Head(del) \in Request
      BY <1>1, <2>2 DEF TypeOK
    <3>2. IsDeleted'
      BY <1>0, <2>2 DEF TryDelete
    <3>3. unlinkHeld' = unlinkHeld \cup {Head(del)}
      BY <2>2 DEF TryDelete
    <3>4. lockHeld' = {}
      BY <1>3, <2>2
    <3> QED
      BY <1>0, <3>1, <3>2, <3>3, <3>4
  <2>3. CASE TryDelete(Free, del, unlinkHeld) /\ lockLength' = 0 /\ del = <<>>
    <3>1. unlinkHeld' = unlinkHeld /\ state' <= Free
      BY <2>3 DEF TryDelete
    <3> QED
      BY <2>1, <3>1
  <2>4. CASE unlinkHeld' = unlinkHeld /\ state' \in {Access, Locked, state}
    BY <1>0, <1>3, <2>1, <2>4
  <2> QED
    BY <1>3, <2>2, <2>3, <2>4 DEF ChkEmpty
<1>4. ASSUME NEW r \in Request, Lock(r)
      PROVE  [permission!PermNext]_permission!permVars
  <2>1. CASE ~IsDeleted
    <3>1. permission!GrantLock(r)
      BY <1>0, <1>4, <2>1 DEF Lock, permission!GrantLock
    <3> QED
      BY <3>1 DEF permission!PermNext
  <2>2. CASE IsDeleted
    BY <1>0, <1>4, <2>2 DEF Lock
  <2> QED
    BY <2>1, <2>2
<1>5. ASSUME NEW r \in Request, Unlock(r)
      PROVE  permission!PermNext
  <2>1. r \in lockHeld /\ ~IsDeleted
    BY <1>0, <1>1, <1>5 DEF Unlock, LockInv, NoneCleaned
  <2>2. lockLength' = 0 <=> lockHeld' = {}
    BY <1>1, <1>5, <2>1, ReleaseCounts DEF Unlock, LockInv
  <2>3. permission!NoGrant \/ permission!GrantUnlink
    BY <1>3, <1>5, <2>1, <2>2 DEF Unlock
  <2>4. permission!ReleaseLock(r)
    BY <1>5, <2>3 DEF Unlock, permission!ReleaseLock
  <2> QED
    BY <2>4 DEF permission!PermNext
<1>6. ASSUME NEW r \in Request, GiveUp(r)
      PROVE  UNCHANGED permission!permVars
  BY <1>0, <1>6 DEF GiveUp
<1>7. ASSUME NEW r \in Request, HookAccess(r)
      PROVE  [permission!PermNext]_permission!permVars
  <2> DEFINE q == Append(access, r)
  <2>1. q # <<>> /\ Head(q) \in Request
    BY <1>1, AppendHead DEF TypeOK
  <2>2. TryAccess(q, accessing, accessHeld, del) /\ UNCHANGED lockHeld
    BY <1>7 DEF HookAccess
  <2> HIDE DEF q
  <2>3. CASE UNCHANGED <<accessHeld, state, unlinkHeld>>
    BY <1>0, <2>2, <2>3
  <2>4. CASE /\ ~IsDeleted /\ ~accessing /\ accessHeld' = accessHeld \cup {Head(q)}
             /\ UNCHANGED <<state, unlinkHeld>>
    <3>1. accessHeld = {}
      BY <2>4 DEF AccessExclusive
    <3>2. permission!GrantAccess(Head(q))
      BY <1>0, <2>2, <2>4, <3>1 DEF permission!GrantAccess
    <3> QED
      BY <2>1, <3>2 DEF permission!PermNext
  <2> QED
    BY <2>1, <2>2, <2>3, <2>4 DEF TryAccess
<1>8. ASSUME NEW r \in Request, ReleaseAccess(r)
      PROVE  permission!PermNext
  <2>1. accessHeld = {r} /\ accessHeld \ {r} = {}
    BY <1>8 DEF ReleaseAccess, AccessExclusive
  <2>2. TryAccess(access, FALSE, {}, del) /\ UNCHANGED lockHeld
    BY <1>8, <2>1 DEF ReleaseAccess
  <2>3. permission!ReleaseAccess(r)
    <3>1. CASE accessHeld' = {} /\ UNCHANGED <<state, unlinkHeld>>
      BY <1>0, <2>1, <2>2, <3>1 DEF permission!ReleaseAccess
    <3>2. CASE /\ ~IsDeleted /\ access # <<>> /\ accessHeld' = {Head(access)}
               /\ UNCHANGED <<state, unlinkHeld>>
      <4>1. Head(access) \in Request
        BY <1>1, <3>2 DEF TypeOK
      <4> QED
        BY <1>0, <2>1, <2>2, <3>2, <4>1 DEF permission!ReleaseAccess
    <3>3. CASE ~IsDeleted /\ accessHeld' = {} /\ ChkEmpty(del)
      <4>1. lockLength' = 0 => lockHeld' = {}
        BY <1>2, <2>2 DEF TryAccess
      <4>2. permission!NoGrant \/ permission!GrantUnlink
        BY <1>3, <3>3, <4>1
      <4> QED
        BY <2>1, <2>2, <3>3, <4>2 DEF permission!ReleaseAccess
    <3> QED
      BY <2>2, <3>1, <3>2, <3>3 DEF TryAccess
  <2> QED
    BY <2>3 DEF permission!PermNext
<1>9. ASSUME NEW r \in Request, HookUnlink(r)
      PROVE  [permission!PermNext]_permission!permVars
  <2> DEFINE q == Append(del, r)
  <2>1. q # <<>> /\ Head(q) \in Request
    BY <1>1, AppendHead DEF TypeOK
  <2>2. TryDelete(state, q, unlinkHeld) /\ UNCHANGED <<lockHeld, accessHeld>>
    BY <1>9 DEF HookUnlink
  <2> HIDE DEF q
  <2>3. CASE state < Free
    BY <1>0, <2>1, <2>2, <2>3 DEF TryDelete
  <2>4. CASE state >= Free
    <3>1. permission!Unlink
      BY <1>0, <1>1, <2>1, <2>2, <2>4 DEF TryDelete, permission!Unlink
    <3> QED
      BY <3>1 DEF permission!PermNext
  <2> QED
    BY <1>1, <2>3, <2>4 DEF TypeOK
<1>10. ASSUME NEW r \in Request, ReleaseUnlink(r)
       PROVE  permission!PermNext
  <2>1. r \in unlinkHeld /\ IsDeleted /\ lockHeld = {}
    BY <1>0, <1>1, <1>10 DEF ReleaseUnlink
  <2>2. del # <<>> => Head(del) \in Request
    BY <1>1 DEF TypeOK
  <2>3. TryDelete(Deleted, del, unlinkHeld \ {r}) /\ UNCHANGED <<lockHeld, accessHeld>>
    BY <1>10 DEF ReleaseUnlink
  <2>4. permission!ReleaseUnlink(r)
    <3>1. state' = Deleted
      BY <2>3 DEF TryDelete
    <3>2. IsDeleted' = IsDeleted
      BY <1>0, <2>1, <3>1
    <3>3. CASE del = <<>>
      BY <2>1, <2>3, <3>2, <3>3 DEF TryDelete, permission!ReleaseUnlink
    <3>4. CASE del # <<>>
      BY <2>1, <2>2, <2>3, <3>2, <3>4 DEF TryDelete, permission!ReleaseUnlink
    <3> QED
      BY <3>3, <3>4
  <2> QED
    BY <2>4 DEF permission!PermNext
<1>11. CASE UNCHANGED vars
  BY <1>0, <1>11 DEF vars, heldVars
<1> QED
  BY <1>4, <1>5, <1>6, <1>7, <1>8, <1>9, <1>10, <1>11 DEF UserNext

(* Requesters that release what they were granted see a FilePermission.      *)
THEOREM ResolverKeepsPermission == UserSpec => KeepsPermission
<1>1. UserSpec => [](LockInv /\ AccessExclusive) /\ [][UserNext]_vars /\ Init
  <2>1. UserSpec => []LockInv
    BY LockInvInit, LockInvStep, PTL DEF UserSpec
  <2>2. [UserNext]_vars => [Next]_vars
    BY DEF Next
  <2>3. UserSpec => Spec
    BY <2>2, PTL DEF UserSpec, Spec
  <2> QED
    BY <2>1, <2>3, AccessIsExclusive, PTL DEF UserSpec
<1>2. Init => permission!PermInit
  BY DEF Init, permission!PermInit, IsDeleted
<1>3. LockInv /\ AccessExclusive /\ [UserNext]_vars
        => [permission!PermNext]_permission!permVars
  BY StepKeepsPermission
<1> QED
  BY <1>1, <1>2, <1>3, PTL DEF KeepsPermission, permission!PermSpec

-----------------------------------------------------------------------------
(* No lost wake-up.  A request is left in the unlink queue only as long as   *)
(* somebody whose release will come back to the queue holds something.       *)

Busy       == state < Free => lockHeld # {} \/ accessHeld # {}
AccessWait == access # <<>> /\ state <= Free => accessHeld # {}
UnlinkWait == del # <<>> => (state < Free \/ unlinkHeld # {})

WakeInv == LockInv /\ AccessExclusive /\ Busy /\ AccessWait /\ UnlinkWait

LEMMA ChkEmptyWakes ==
  ASSUME LockInv, AccessWait, ChkEmpty(del), state <= Free,
         lockLength' = 0 <=> lockHeld' = {},
         accessing' <=> accessHeld' # {}, UNCHANGED access,
         access # <<>> => state = Locked /\ UNCHANGED accessHeld
  PROVE  Busy' /\ AccessWait' /\ UnlinkWait'
<1>1. CASE lockLength' = 0 /\ access' = <<>> /\ ~accessing' /\ TryDelete(Free, del, unlinkHeld)
  <2>1. \/ state' = Deleting /\ unlinkHeld' # {}
        \/ state' = Free /\ del' = <<>>
    BY <1>1 DEF TryDelete
  <2> QED
    BY <1>1, <2>1 DEF Busy, AccessWait, UnlinkWait
<1>2. CASE access' = <<>> /\ accessing' /\ state' = Access
  <2>1. accessHeld' # {}
    BY <1>2
  <2> QED
    BY <1>2, <2>1 DEF Busy, AccessWait, UnlinkWait
<1>3. CASE lockLength' # 0 /\ state' = Locked
  <2>1. access' # <<>> => accessHeld' # {}
    BY <1>3 DEF AccessWait
  <2> QED
    BY <1>3, <2>1 DEF Busy, AccessWait, UnlinkWait
<1>4. CASE access' # <<>> /\ UNCHANGED <<state, unlinkHeld>>
  <2>1. accessHeld' # {} /\ state' = Locked
    BY <1>4 DEF AccessWait
  <2> QED
    BY <1>4, <2>1 DEF Busy, AccessWait, UnlinkWait
<1> QED
  BY <1>1, <1>2, <1>3, <1>4 DEF ChkEmpty

LEMMA WakeInvStep ==
  ASSUME WakeInv, [UserNext]_vars
  PROVE  Busy' /\ AccessWait' /\ UnlinkWait'
<1>1. TypeOK /\ TypeOK' /\ AccessExclusive'
  <2>1. [Next]_vars
    BY DEF Next
  <2> QED
    BY <2>1, TypeStep, AccessExclusiveStep DEF WakeInv, LockInv, FileNext
<1>2. ASSUME UNCHANGED <<state, access, del>>,
             lockHeld # {} => lockHeld' # {}, accessHeld # {} => accessHeld' # {},
             unlinkHeld # {} => unlinkHeld' # {}
      PROVE  Busy' /\ AccessWait' /\ UnlinkWait'
  BY <1>2 DEF WakeInv, Busy, AccessWait, UnlinkWait
<1>3. ASSUME NEW r \in Request, Lock(r)
      PROVE  Busy' /\ AccessWait' /\ UnlinkWait'
  <2>1. CASE ~IsDeleted
    <3>1. /\ UNCHANGED <<access, del, accessHeld, unlinkHeld>>
          /\ state' = Locked /\ lockHeld' # {}
      BY <1>3, <2>1 DEF Lock
    <3>2. state <= Free
      BY <1>1, <2>1 DEF IsDeleted, TypeOK
    <3> QED
      BY <3>1, <3>2 DEF WakeInv, Busy, AccessWait, UnlinkWait
  <2>2. CASE IsDeleted
    BY <1>2, <1>3, <2>2 DEF Lock
  <2> QED
    BY <2>1, <2>2
<1>4. ASSUME NEW r \in Request, Unlock(r)
      PROVE  Busy' /\ AccessWait' /\ UnlinkWait'
  <2>1. r \in lockHeld /\ state = Locked
    BY <1>4 DEF Unlock, WakeInv, LockInv, NoneCleaned, LockedState
  <2>2. lockLength' = 0 <=> lockHeld' = {}
    BY <1>1, <1>4, <2>1, ReleaseCounts DEF Unlock, WakeInv, LockInv
  <2>3. accessing' <=> accessHeld' # {}
    BY <1>1 DEF AccessExclusive
  <2> QED
    BY <1>4, <2>1, <2>2, <2>3, ChkEmptyWakes DEF Unlock, WakeInv
<1>5. ASSUME NEW r \in Request, GiveUp(r)
      PROVE  Busy' /\ AccessWait' /\ UnlinkWait'
  BY <1>2, <1>5 DEF GiveUp
<1>6. ASSUME NEW r \in Request, HookAccess(r)
      PROVE  Busy' /\ AccessWait' /\ UnlinkWait'
  <2> DEFINE q == Append(access, r)
  <2>1. q # <<>>
    BY <1>1, AppendHead DEF TypeOK
  <2>2. ~IsDeleted /\ TryAccess(q, accessing, accessHeld, del) /\ UNCHANGED lockHeld
    BY <1>6 DEF HookAccess
  <2> HIDE DEF q
  <2>3. accessHeld' # {} /\ UNCHANGED <<state, del, unlinkHeld>>
    <3>1. accessing => accessHeld # {}
      BY DEF WakeInv, AccessExclusive
    <3> QED
      BY <2>1, <2>2, <3>1 DEF TryAccess
  <2> QED
    BY <2>2, <2>3 DEF WakeInv, Busy, AccessWait, UnlinkWait
<1>7. ASSUME NEW r \in Request, ReleaseAccess(r)
      PROVE  Busy' /\ AccessWait' /\ UnlinkWait'
  <2>1. accessHeld \ {r} = {}
    BY <1>7 DEF ReleaseAccess, WakeInv, AccessExclusive
  <2>2. TryAccess(access, FALSE, {}, del) /\ UNCHANGED lockHeld
    BY <1>7, <2>1 DEF ReleaseAccess
  <2>3. CASE IsDeleted
    BY <1>1, <2>2, <2>3 DEF TryAccess, IsDeleted, TypeOK, WakeInv, Busy, AccessWait, UnlinkWait
  <2>4. CASE ~IsDeleted /\ accessHeld' # {} /\ UNCHANGED <<state, del, unlinkHeld>>
    BY <2>4 DEF WakeInv, Busy, AccessWait, UnlinkWait
  <2>5. CASE ~IsDeleted /\ access = <<>> /\ access' = <<>> /\ ChkEmpty(del)
    <3>1. lockLength' = 0 <=> lockHeld' = {}
      BY <1>1, <2>2, LockHeldFinite, FS_EmptySet
         DEF WakeInv, LockInv, LocksCounted, TryAccess
    <3>2. accessing' <=> accessHeld' # {}
      BY <1>1 DEF AccessExclusive
    <3>3. state <= Free
      BY <1>1, <2>5 DEF IsDeleted, TypeOK
    <3> QED
      BY <2>5, <3>1, <3>2, <3>3, ChkEmptyWakes DEF WakeInv
  <2> QED
    BY <2>2, <2>3, <2>4, <2>5 DEF TryAccess
<1>8. ASSUME NEW r \in Request, HookUnlink(r)
      PROVE  Busy' /\ AccessWait' /\ UnlinkWait'
  <2> DEFINE q == Append(del, r)
  <2>1. q # <<>>
    BY <1>1, AppendHead DEF TypeOK
  <2>2. TryDelete(state, q, unlinkHeld) /\ UNCHANGED <<access, lockHeld, accessHeld>>
    BY <1>8 DEF HookUnlink
  <2> HIDE DEF q
  <2>3. \/ state' > Free /\ unlinkHeld' # {}
        \/ state < Free /\ state' = state /\ unlinkHeld' = unlinkHeld
    <3>1. state \in 0..4
      BY <1>1 DEF TypeOK
    <3>2. CASE state < Free
      BY <2>1, <2>2, <3>1, <3>2 DEF TryDelete
    <3>3. CASE state >= Free
      <4>1. /\ state' = IF state > Free THEN state ELSE Deleting
            /\ unlinkHeld' = unlinkHeld \cup {Head(q)}
        BY <2>1, <2>2, <3>1, <3>3 DEF TryDelete
      <4> QED
        BY <3>1, <4>1
    <3> QED
      BY <3>1, <3>2, <3>3
  <2> QED
    BY <1>1, <2>2, <2>3 DEF WakeInv, Busy, AccessWait, UnlinkWait, TypeOK
<1>9. ASSUME NEW r \in Request, ReleaseUnlink(r)
      PROVE  Busy' /\ AccessWait' /\ UnlinkWait'
  <2>1. TryDelete(Deleted, del, unlinkHeld \ {r})
    BY <1>9 DEF ReleaseUnlink
  <2>2. state' = Deleted /\ (del' = <<>> \/ unlinkHeld' # {})
    <3>1. CASE del = <<>>
      BY <2>1, <3>1 DEF TryDelete
    <3>2. CASE del # <<>>
      BY <2>1, <3>2 DEF TryDelete
    <3> QED
      BY <3>1, <3>2
  <2> QED
    BY <2>2 DEF Busy, AccessWait, UnlinkWait
<1>10. CASE UNCHANGED vars
  BY <1>2, <1>10 DEF vars, heldVars
<1> QED
  BY <1>3, <1>4, <1>5, <1>6, <1>7, <1>8, <1>9, <1>10 DEF UserNext

(* When every grant has been released, nobody is left waiting to unlink.     *)
THEOREM NoUnlinkIsLost == UserSpec => []NoLostUnlink
<1>1. Init => WakeInv
  <2>1. Init => AccessExclusive /\ Busy /\ AccessWait /\ UnlinkWait
    BY DEF Init, AccessExclusive, Busy, AccessWait, UnlinkWait
  <2> QED
    BY <2>1, LockInvInit DEF WakeInv
<1>2. WakeInv /\ [UserNext]_vars => WakeInv'
  <2>1. [UserNext]_vars => [Next]_vars
    BY DEF Next
  <2> QED
    BY <2>1, LockInvStep, AccessExclusiveStep, WakeInvStep DEF WakeInv
<1>3. WakeInv => NoLostUnlink
  BY DEF WakeInv, LockInv, TypeOK, Busy, UnlinkWait, NoLostUnlink, Outstanding
<1> QED
  BY <1>1, <1>2, <1>3, PTL DEF UserSpec

=============================================================================
