---------------------------- MODULE FSStore_proofs ----------------------------
(***************************************************************************)
(* What a client was told by the file server holds while it works, for any *)
(* number of requests, any mix of shared and private files, any clear()    *)
(* and any size of the pool: a writer has the file and a slot and is alone, *)
(* no more than MaxLockCount operations are under way, and the count of    *)
(* slots is not above the slots in use.                                    *)
(*                                                                         *)
(* The server does not keep this together anywhere: the resolver knows who *)
(* has the file, the pool who has a slot, and the coroutine of a request   *)
(* what it was answered.  The invariant says how the three agree: a request *)
(* that has been permitted is not taken out of the resolver before its     *)
(* release, the pool gives a slot to requests it does not know, and a slot *)
(* is given back by its holder or by a request that was denied.            *)
(***************************************************************************)
EXTENDS FSStore, FiniteSetTheorems, TLAPS

USE DEF FPR!Locked, FPR!Access, FPR!Free, FPR!Deleting, FPR!Deleted

(* Who waits has asked, for what it waits for. *)
InQueue(q) == {q[i] : i \in DOMAIN q}
Asked(q, what) == \A r \in InQueue(q) : pc[r] \notin {"idle", "path"} /\ action[r] = what
QueuesAsked == Asked(access, "access") /\ Asked(del, "unlink")

(* A permitted access of the shared file has it. *)
HasAccess == \A r \in Request :
  pc[r] \in {"hook", "pool", "working"} /\ action[r] = "access" => r \in accessHeld \cup Private

(* Who was answered OK has a slot until it gives one back; who gives one back *)
(* without having it was denied.                                            *)
HasSlot == \A r \in Request : action[r] # "lock" =>
  /\ pc[r] = "working" => r \in holders
  /\ pc[r] = "relPath" => r \in holders \cup denied
  /\ pc[r] = "denied" => r \in denied

(* The pool: requests is whom it knows, and who waits has no slot yet.        *)
Known   == Pool!Waiting \cup holders \subseteq requests
Apart   == Pool!Waiting \cap holders = {}
NoTwice == \A i, j \in DOMAIN requestQue : requestQue[i] = requestQue[j] => i = j
Counted ==
  /\ slotHash[DW_ID] = slotLength
  /\ slotLength \in 0..Cardinality(holders)
  /\ denied = {} => slotLength = Cardinality(holders)

FileInv   == QueuesAsked /\ HasAccess /\ FPR!AccessExclusive
PoolInv   == Known /\ Apart /\ NoTwice /\ Counted /\ Pool!CounterInLimit
ServerInv == TypeOK /\ FileInv /\ PoolInv /\ HasSlot

LEMMA OwnerIsDw == \A r \in Request : Owner[r] = DW_ID
BY DEF Owner

-----------------------------------------------------------------------------
(* Queues. *)

LEMMA HeadTail ==
  ASSUME NEW q \in Seq(Request), q # <<>>
  PROVE  /\ Head(q) \in Request /\ Tail(q) \in Seq(Request)
         /\ Head(q) \in InQueue(q) /\ InQueue(Tail(q)) \subseteq InQueue(q)
<1>1. Head(q) \in Request /\ Tail(q) \in Seq(Request)
  OBVIOUS
<1>2. 1 \in DOMAIN q /\ Head(q) = q[1]
  OBVIOUS
<1>3. \A i \in DOMAIN Tail(q) : i + 1 \in DOMAIN q /\ Tail(q)[i] = q[i + 1]
  OBVIOUS
<1> QED
  BY <1>1, <1>2, <1>3 DEF InQueue

LEMMA Appended ==
  ASSUME NEW q \in Seq(Request), NEW r \in Request
  PROVE  /\ Append(q, r) \in Seq(Request)
         /\ InQueue(Append(q, r)) \subseteq InQueue(q) \cup {r}
<1>1. Append(q, r) \in Seq(Request)
  OBVIOUS
<1>2. \A i \in DOMAIN Append(q, r) :
        (i \in DOMAIN q /\ Append(q, r)[i] = q[i]) \/ Append(q, r)[i] = r
  OBVIOUS
<1> QED
  BY <1>1, <1>2 DEF InQueue

LEMMA EmptyQueue == InQueue(<<>>) = {} /\ <<>> \in Seq(Request)
BY DEF InQueue

-----------------------------------------------------------------------------
(* What a step does to the shared file: ra and rd are the requests it queues, *)
(* gone the one that gives the file back.                                   *)

FileChange(ra, rd, gone) ==
  /\ InQueue(access') \subseteq InQueue(access) \cup ra
  /\ InQueue(del') \subseteq InQueue(del) \cup rd
  /\ accessHeld' \subseteq accessHeld \cup InQueue(access) \cup ra
  /\ unlinkHeld' \subseteq unlinkHeld \cup InQueue(del) \cup rd
  /\ accessHeld \ gone \subseteq accessHeld'

FileType ==
  /\ state \in 0..4
  /\ access \in Seq(Request) /\ accessing \in BOOLEAN /\ del \in Seq(Request)
  /\ accessHeld \subseteq Request /\ unlinkHeld \subseteq Request

LockType ==
  /\ FPR!multiLock!LockTypeOK
  /\ lockHeld \subseteq Request /\ cleaned \subseteq Request /\ refused \subseteq Request

LEMMA FileTypes == FPR!TypeOK <=> FileType /\ LockType
BY DEF FPR!TypeOK, FileType, LockType

LEMMA TryDeleteChange ==
  ASSUME NEW st \in 0..4, NEW q \in Seq(Request), NEW u \in SUBSET Request,
         FPR!TryDelete(st, q, u)
  PROVE  /\ state' \in 0..4 /\ del' \in Seq(Request) /\ unlinkHeld' \subseteq Request
         /\ InQueue(del') \subseteq InQueue(q) /\ unlinkHeld' \subseteq u \cup InQueue(q)
<1>1. CASE UNCHANGED <<>> /\ del' = q /\ unlinkHeld' = u /\ state' = st
  BY <1>1
<1>2. CASE /\ q # <<>> /\ st >= 2 /\ state' = (IF st > 2 THEN st ELSE 3)
           /\ del' = Tail(q) /\ unlinkHeld' = u \cup {Head(q)}
  BY <1>2, HeadTail
<1> QED
  BY <1>1, <1>2 DEF FPR!TryDelete

LEMMA ChkEmptyChange ==
  ASSUME FileType, NEW d \in Seq(Request), FPR!ChkEmpty(d)
  PROVE  /\ state' \in 0..4 /\ del' \in Seq(Request) /\ unlinkHeld' \subseteq Request
         /\ InQueue(del') \subseteq InQueue(d) /\ unlinkHeld' \subseteq unlinkHeld \cup InQueue(d)
<1>1. CASE FPR!TryDelete(2, d, unlinkHeld)
  BY <1>1, TryDeleteChange DEF FileType
<1>2. CASE del' = d /\ unlinkHeld' = unlinkHeld /\ (state' = state \/ state' \in {0, 1})
  BY <1>2 DEF FileType
<1> QED
  BY <1>1, <1>2 DEF FPR!ChkEmpty

LEMMA TryAccessChange ==
  ASSUME FileType, NEW q \in Seq(Request), NEW busy \in BOOLEAN, NEW a \in SUBSET Request,
         FPR!TryAccess(q, busy, a, del)
  PROVE  /\ FileType'
         /\ InQueue(access') \subseteq InQueue(q) /\ InQueue(del') \subseteq InQueue(del)
         /\ accessHeld' \subseteq a \cup InQueue(q) /\ a \subseteq accessHeld'
         /\ unlinkHeld' \subseteq unlinkHeld \cup InQueue(del)
         /\ UNCHANGED <<lockHash, lockLength>>
         /\ \/ accessing' = busy /\ accessHeld' = a
            \/ ~busy /\ accessing' /\ \E r \in Request : accessHeld' = a \cup {r}
<1>1. CASE /\ access' = q /\ accessing' = busy /\ accessHeld' = a /\ del' = del
           /\ UNCHANGED <<state, unlinkHeld, lockHash, lockLength>>
  BY <1>1 DEF FileType
<1>2. CASE /\ ~busy /\ q # <<>> /\ access' = Tail(q) /\ accessing' = TRUE
           /\ accessHeld' = a \cup {Head(q)} /\ del' = del
           /\ UNCHANGED <<state, unlinkHeld, lockHash, lockLength>>
  <2>1. /\ Head(q) \in Request /\ Tail(q) \in Seq(Request)
        /\ Head(q) \in InQueue(q) /\ InQueue(Tail(q)) \subseteq InQueue(q)
    BY <1>2, HeadTail
  <2>2. FileType'
    BY <1>2, <2>1 DEF FileType
  <2> QED
    BY <1>2, <2>1, <2>2
<1>3. CASE /\ access' = q /\ accessing' = busy /\ accessHeld' = a /\ FPR!ChkEmpty(del)
           /\ UNCHANGED <<lockHash, lockLength>>
  <2>1. /\ state' \in 0..4 /\ del' \in Seq(Request) /\ unlinkHeld' \subseteq Request
        /\ InQueue(del') \subseteq InQueue(del) /\ unlinkHeld' \subseteq unlinkHeld \cup InQueue(del)
    BY <1>3, ChkEmptyChange DEF FileType
  <2> QED
    BY <1>3, <2>1 DEF FileType
<1> QED
  BY <1>1, <1>2, <1>3 DEF FPR!TryAccess

LEMMA HookAccessChange ==
  ASSUME FPR!TypeOK, FPR!AccessExclusive, NEW r \in Request, FPR!HookAccess(r)
  PROVE  FPR!TypeOK' /\ FPR!AccessExclusive' /\ FileChange({r}, {}, {})
<1> DEFINE q == Append(access, r)
<1>1. FileType /\ LockType /\ q \in Seq(Request) /\ InQueue(q) \subseteq InQueue(access) \cup {r}
  BY FileTypes, Appended DEF FileType
<1>2. FPR!TryAccess(q, accessing, accessHeld, del) /\ UNCHANGED <<lockHeld, cleaned, refused>>
  BY DEF FPR!HookAccess
<1> HIDE DEF q
<1>3. /\ FileType'
      /\ InQueue(access') \subseteq InQueue(q) /\ InQueue(del') \subseteq InQueue(del)
      /\ accessHeld' \subseteq accessHeld \cup InQueue(q) /\ accessHeld \subseteq accessHeld'
      /\ unlinkHeld' \subseteq unlinkHeld \cup InQueue(del)
      /\ UNCHANGED <<lockHash, lockLength>>
      /\ \/ accessing' = accessing /\ accessHeld' = accessHeld
         \/ ~accessing /\ accessing' /\ \E s \in Request : accessHeld' = accessHeld \cup {s}
  BY <1>1, <1>2, TryAccessChange DEF FileType
<1>4. LockType'
  BY <1>1, <1>2, <1>3 DEF LockType, FPR!multiLock!LockTypeOK
<1>5. FPR!AccessExclusive'
  BY <1>3 DEF FPR!AccessExclusive
<1>6. FPR!TypeOK'
  BY <1>3, <1>4 DEF FPR!TypeOK, FileType, LockType
<1> QED
  BY <1>1, <1>3, <1>5, <1>6 DEF FileChange

LEMMA ReleaseAccessChange ==
  ASSUME FPR!TypeOK, FPR!AccessExclusive, NEW r \in Request, FPR!ReleaseAccess(r)
  PROVE  FPR!TypeOK' /\ FPR!AccessExclusive' /\ FileChange({}, {}, {r})
<1>1. FileType /\ LockType
  BY FileTypes
<1>2. /\ FPR!TryAccess(access, FALSE, accessHeld \ {r}, del)
      /\ UNCHANGED <<lockHeld, cleaned, refused>>
      /\ accessHeld \ {r} = {}
  BY DEF FPR!ReleaseAccess, FPR!AccessExclusive
<1>3. /\ FileType'
      /\ InQueue(access') \subseteq InQueue(access) /\ InQueue(del') \subseteq InQueue(del)
      /\ accessHeld' \subseteq (accessHeld \ {r}) \cup InQueue(access)
      /\ accessHeld \ {r} \subseteq accessHeld'
      /\ unlinkHeld' \subseteq unlinkHeld \cup InQueue(del)
      /\ UNCHANGED <<lockHash, lockLength>>
      /\ \/ accessing' = FALSE /\ accessHeld' = accessHeld \ {r}
         \/ accessing' /\ \E s \in Request : accessHeld' = (accessHeld \ {r}) \cup {s}
  BY <1>1, <1>2, TryAccessChange DEF FileType
<1>4. LockType'
  BY <1>1, <1>2, <1>3 DEF LockType, FPR!multiLock!LockTypeOK
<1>5. FPR!AccessExclusive'
  BY <1>2, <1>3 DEF FPR!AccessExclusive
<1>6. FPR!TypeOK'
  BY <1>3, <1>4 DEF FPR!TypeOK, FileType, LockType
<1> QED
  BY <1>3, <1>5, <1>6 DEF FileChange

LEMMA HookUnlinkChange ==
  ASSUME FPR!TypeOK, FPR!AccessExclusive, NEW r \in Request, FPR!HookUnlink(r)
  PROVE  FPR!TypeOK' /\ FPR!AccessExclusive' /\ FileChange({}, {r}, {})
<1> DEFINE q == Append(del, r)
<1>1. FileType /\ LockType /\ q \in Seq(Request) /\ InQueue(q) \subseteq InQueue(del) \cup {r}
  BY FileTypes, Appended DEF FileType
<1>2. FPR!TryDelete(state, q, unlinkHeld)
  BY DEF FPR!HookUnlink
<1> HIDE DEF q
<1>3. /\ state' \in 0..4 /\ del' \in Seq(Request) /\ unlinkHeld' \subseteq Request
      /\ InQueue(del') \subseteq InQueue(q) /\ unlinkHeld' \subseteq unlinkHeld \cup InQueue(q)
  BY <1>1, <1>2, TryDeleteChange DEF FileType
<1>4. UNCHANGED <<lockHash, lockLength, access, accessing, lockHeld, accessHeld, cleaned, refused>>
  BY DEF FPR!HookUnlink
<1>5. FPR!AccessExclusive'
  BY <1>4 DEF FPR!AccessExclusive
<1>6. FPR!TypeOK'
  BY <1>1, <1>3, <1>4 DEF FPR!TypeOK, FileType, LockType, FPR!multiLock!LockTypeOK
<1> QED
  BY <1>1, <1>3, <1>4, <1>5, <1>6 DEF FileChange

(* The other operations queue nobody and give no access back. *)
LEMMA LocksChange ==
  ASSUME FPR!TypeOK, FPR!AccessExclusive, FPR!ChkEmpty(del), FPR!multiLock!LockTypeOK',
         UNCHANGED <<access, accessing, accessHeld>>,
         lockHeld' \subseteq Request, cleaned' \subseteq Request, refused' \subseteq Request
  PROVE  FPR!TypeOK' /\ FPR!AccessExclusive' /\ FileChange({}, {}, {})
<1>1. FileType /\ LockType
  BY FileTypes
<1>2. /\ state' \in 0..4 /\ del' \in Seq(Request) /\ unlinkHeld' \subseteq Request
      /\ InQueue(del') \subseteq InQueue(del) /\ unlinkHeld' \subseteq unlinkHeld \cup InQueue(del)
  BY <1>1, ChkEmptyChange DEF FileType
<1>3. FPR!AccessExclusive'
  BY DEF FPR!AccessExclusive
<1>4. FPR!TypeOK'
  BY <1>1, <1>2 DEF FPR!TypeOK, FileType
<1> QED
  BY <1>2, <1>3, <1>4 DEF FileChange

LEMMA ReleaseType ==
  ASSUME FPR!multiLock!LockTypeOK, FPR!multiLock!Release(DW_ID)
  PROVE  FPR!multiLock!LockTypeOK'
BY DEF FPR!multiLock!Release, FPR!multiLock!ReleaseOne, FPR!multiLock!LockTypeOK,
       FPR!multiLock!lockVars

LEMMA LockChange ==
  ASSUME FPR!TypeOK, FPR!AccessExclusive, NEW r \in Request,
         FPR!Lock(r) \/ FPR!Unlock(r) \/ FPR!UnlockRefused(r)
  PROVE  FPR!TypeOK' /\ FPR!AccessExclusive' /\ FileChange({}, {}, {})
<1>1. FileType /\ LockType /\ Owner[r] = DW_ID
  BY FileTypes, OwnerIsDw
<1>2. CASE FPR!Lock(r)
  <2>1. UNCHANGED <<access, accessing, del, accessHeld, unlinkHeld, cleaned>>
    BY <1>2 DEF FPR!Lock
  <2>2. FPR!AccessExclusive' /\ FileChange({}, {}, {})
    BY <2>1 DEF FPR!AccessExclusive, FileChange
  <2>3. state' \in 0..4 /\ lockHeld' \subseteq Request /\ refused' \subseteq Request
    BY <1>1, <1>2 DEF FPR!Lock, FileType, LockType
  <2>4. FPR!multiLock!LockTypeOK'
    BY <1>1, <1>2 DEF FPR!Lock, LockType, FPR!multiLock!LockTypeOK, FPR!multiLock!Acquire
  <2> QED
    BY <1>1, <2>1, <2>2, <2>3, <2>4 DEF FPR!TypeOK, FileType, LockType
<1>3. CASE FPR!Unlock(r) \/ FPR!UnlockRefused(r)
  <2>1. /\ FPR!ChkEmpty(del) /\ FPR!multiLock!Release(DW_ID)
        /\ UNCHANGED <<access, accessing, accessHeld>>
    BY <1>1, <1>3 DEF FPR!Unlock, FPR!UnlockRefused
  <2>2. lockHeld' \subseteq Request /\ cleaned' \subseteq Request /\ refused' \subseteq Request
    BY <1>1, <1>3 DEF FPR!Unlock, FPR!UnlockRefused, LockType
  <2>3. FPR!multiLock!LockTypeOK'
    BY <1>1, <2>1, ReleaseType DEF LockType
  <2> QED
    BY <2>1, <2>2, <2>3, LocksChange
<1> QED
  BY <1>2, <1>3

LEMMA ReleaseUnlinkChange ==
  ASSUME FPR!TypeOK, FPR!AccessExclusive, NEW r \in Request, FPR!ReleaseUnlink(r)
  PROVE  FPR!TypeOK' /\ FPR!AccessExclusive' /\ FileChange({}, {}, {})
<1>1. FileType /\ LockType
  BY FileTypes
<1>2. FPR!TryDelete(4, del, unlinkHeld \ {r})
  BY DEF FPR!ReleaseUnlink
<1>3. /\ state' \in 0..4 /\ del' \in Seq(Request) /\ unlinkHeld' \subseteq Request
      /\ InQueue(del') \subseteq InQueue(del)
      /\ unlinkHeld' \subseteq (unlinkHeld \ {r}) \cup InQueue(del)
  BY <1>1, <1>2, TryDeleteChange DEF FileType
<1>4. UNCHANGED <<lockHash, lockLength, access, accessing, lockHeld, accessHeld, cleaned, refused>>
  BY DEF FPR!ReleaseUnlink
<1>5. FPR!AccessExclusive'
  BY <1>4 DEF FPR!AccessExclusive
<1>6. FPR!TypeOK'
  BY <1>1, <1>3, <1>4 DEF FPR!TypeOK, FileType, LockType, FPR!multiLock!LockTypeOK
<1> QED
  BY <1>3, <1>4, <1>5, <1>6 DEF FileChange

LEMMA CleanType ==
  ASSUME FPR!multiLock!LockTypeOK, FPR!multiLock!Clean(DW_ID)
  PROVE  FPR!multiLock!LockTypeOK'
<1>1. lockHash[DW_ID] \in Nat
  BY DEF FPR!multiLock!LockTypeOK
<1> QED
  BY <1>1 DEF FPR!multiLock!LockTypeOK, FPR!multiLock!Clean

LEMMA ClearChange ==
  ASSUME FPR!TypeOK, FPR!AccessExclusive, ClearOne \/ ClearAll
  PROVE  FPR!TypeOK' /\ FPR!AccessExclusive' /\ FileChange({}, {}, {})
<1>1. FileType /\ LockType
  BY FileTypes
<1>2. CASE ClearAccess \/ ClearUnlink
  <2>1. /\ UNCHANGED <<state, lockHash, lockLength, accessing, lockHeld, accessHeld, unlinkHeld,
                       cleaned, refused>>
        /\ access' = access \/ access' = <<>>
        /\ del' = del \/ del' = <<>>
    BY <1>2 DEF ClearAccess, ClearUnlink
  <2>2. FPR!AccessExclusive'
    BY <2>1 DEF FPR!AccessExclusive
  <2>3. /\ access' \in Seq(Request) /\ InQueue(access') \subseteq InQueue(access)
        /\ del' \in Seq(Request) /\ InQueue(del') \subseteq InQueue(del)
    BY <1>1, <2>1, EmptyQueue DEF FileType
  <2>4. FPR!TypeOK'
    BY <1>1, <2>1, <2>3 DEF FPR!TypeOK, FileType, LockType, FPR!multiLock!LockTypeOK
  <2> QED
    BY <2>1, <2>2, <2>3, <2>4 DEF FileChange
<1>3. CASE FPR!CleanLock
  <2>1. /\ FPR!ChkEmpty(del) /\ UNCHANGED <<access, accessing, accessHeld, refused>>
        /\ lockHeld' \subseteq lockHeld
        /\ cleaned' = cleaned \cup (lockHeld \ lockHeld')
        /\ FPR!multiLock!Clean(DW_ID) \/ FPR!multiLock!CleanAll
    BY <1>3 DEF FPR!CleanLock
  <2>2. FPR!multiLock!LockTypeOK'
    <3>1. CASE FPR!multiLock!Clean(DW_ID)
      BY <1>1, <3>1, CleanType DEF LockType
    <3>2. CASE FPR!multiLock!CleanAll
      BY <3>2 DEF FPR!multiLock!LockTypeOK, FPR!multiLock!CleanAll
    <3> QED
      BY <2>1, <3>1, <3>2
  <2>3. lockHeld' \subseteq Request /\ cleaned' \subseteq Request /\ refused' \subseteq Request
    BY <1>1, <2>1 DEF LockType
  <2> QED
    BY <2>1, <2>2, <2>3, LocksChange
<1>4. CASE ClearAll
  <2>1. /\ access' = <<>> /\ del' = <<>>
        /\ FPR!multiLock!Clean(DW_ID)
        /\ lockHeld' = {} /\ cleaned' = cleaned \cup lockHeld
        /\ UNCHANGED <<accessing, accessHeld, refused>>
    BY <1>4 DEF ClearAll
  <2>2. \/ state' \in 0..4 /\ unlinkHeld' = unlinkHeld
        \/ state' \in 0..4 /\ del # <<>> /\ unlinkHeld' = unlinkHeld \cup {Head(del)}
    BY <1>4 DEF ClearAll
  <2>3. /\ state' \in 0..4
        /\ unlinkHeld' \subseteq Request /\ unlinkHeld' \subseteq unlinkHeld \cup InQueue(del)
    BY <1>1, <2>2, HeadTail DEF FileType
  <2>4. FPR!AccessExclusive'
    BY <2>1 DEF FPR!AccessExclusive
  <2>5. FPR!multiLock!LockTypeOK'
    BY <1>1, <2>1, CleanType DEF LockType
  <2>6. InQueue(access') = {} /\ InQueue(del') = {} /\ access' \in Seq(Request) /\ del' \in Seq(Request)
    BY <2>1, EmptyQueue
  <2>7. FPR!TypeOK'
    BY <1>1, <2>1, <2>3, <2>5, <2>6 DEF FPR!TypeOK, FileType, LockType
  <2> QED
    BY <2>1, <2>3, <2>4, <2>6, <2>7 DEF FileChange
<1> QED
  BY <1>2, <1>3, <1>4 DEF ClearOne

LEMMA SameFileChange ==
  ASSUME FPR!TypeOK, FPR!AccessExclusive, UNCHANGED fileVars
  PROVE  FPR!TypeOK' /\ FPR!AccessExclusive' /\ FileChange({}, {}, {})
<1>1. UNCHANGED <<state, lockHash, lockLength, access, accessing, del,
                  lockHeld, accessHeld, unlinkHeld, cleaned, refused>>
  BY DEF fileVars
<1> QED
  BY <1>1 DEF FPR!TypeOK, FPR!AccessExclusive, FileChange, FPR!multiLock!LockTypeOK

-----------------------------------------------------------------------------
(* What a step does to the requests: those of movers go on to step s, those   *)
(* the resolver has called ask for the pool.                                 *)
Moves(movers, s) ==
  /\ pc' = [q \in Request |-> IF q \in Called THEN "hook"
                              ELSE IF q \in movers THEN s ELSE pc[q]]
  /\ UNCHANGED action

LEMMA GoOnMoves ==
  ASSUME NEW r \in Request, NEW s, GoOn(r, s)
  PROVE  Moves({r}, s)
BY DEF GoOn, Moves

LEMMA FileMoves ==
  ASSUME TypeOK, QueuesAsked, HasAccess,
         NEW movers \in SUBSET Request, NEW s \in Steps, Moves(movers, s),
         NEW ra \in SUBSET Request, NEW rd \in SUBSET Request, NEW gone \in SUBSET Request,
         FileChange(ra, rd, gone),
         s \notin {"idle", "path"},
         \A q \in ra : q \in movers /\ action[q] = "access",
         \A q \in rd : q \in movers /\ action[q] = "unlink",
         \A q \in gone : q \in movers,
         s \in {"hook", "pool", "working"} =>
           gone = {} /\ \A q \in movers : action[q] = "access" => q \in accessHeld \cup Private
  PROVE  QueuesAsked' /\ HasAccess'
<1>1. pc \in [Request -> Steps] /\ access \in Seq(Request) /\ del \in Seq(Request)
  BY DEF TypeOK, FPR!TypeOK
<1>2. \A q \in Request : pc'[q] = IF q \in Called THEN "hook" ELSE IF q \in movers THEN s ELSE pc[q]
  BY DEF Moves
<1>3. action' = action
  BY DEF Moves
<1>4. InQueue(access) \subseteq Request /\ InQueue(del) \subseteq Request
  BY <1>1 DEF InQueue
<1>5. ASSUME NEW q \in InQueue(access')
      PROVE  q \in Request /\ action[q] = "access" /\ pc'[q] \notin {"idle", "path"}
  BY <1>2, <1>4, <1>5 DEF FileChange, QueuesAsked, Asked
<1>6. ASSUME NEW q \in InQueue(del')
      PROVE  q \in Request /\ action[q] = "unlink" /\ pc'[q] \notin {"idle", "path"}
  BY <1>2, <1>4, <1>6 DEF FileChange, QueuesAsked, Asked
<1>7. QueuesAsked'
  BY <1>3, <1>5, <1>6 DEF QueuesAsked, Asked
<1>8. ASSUME NEW q \in Request, pc'[q] \in {"hook", "pool", "working"}, action[q] = "access"
      PROVE  q \in accessHeld' \cup Private
  <2>1. CASE q \in Called
    <3>1. q \in accessHeld' \/ q \in InQueue(del) \cup rd
      BY <2>1 DEF Called, FileChange
    <3>2. q \notin InQueue(del) \cup rd
      BY <1>8 DEF QueuesAsked, Asked
    <3> QED
      BY <3>1, <3>2
  <2>2. CASE q \notin Called /\ q \in movers
    BY <1>2, <1>8, <2>2 DEF FileChange
  <2>3. CASE q \notin Called /\ q \notin movers
    <3>1. q \in accessHeld \cup Private /\ q \notin gone
      BY <1>2, <1>8, <2>3 DEF HasAccess
    <3> QED
      BY <3>1 DEF FileChange
  <2> QED
    BY <2>1, <2>2, <2>3
<1>9. HasAccess'
  BY <1>3, <1>8 DEF HasAccess
<1> QED
  BY <1>7, <1>9

-----------------------------------------------------------------------------
(* What a step does to the pool. *)

LEMMA HoldersFinite ==
  ASSUME Pool!TypeOK
  PROVE  IsFiniteSet(holders) /\ Cardinality(holders) \in Nat
BY FSStoreAssumption, FS_Subset, FS_CardinalityType DEF Pool!TypeOK

(* A request the pool does not know takes a slot or waits. *)
LEMMA AcquireKeeps ==
  ASSUME Pool!TypeOK, PoolInv, NEW r \in Request, Pool!Acquire(r), UNCHANGED denied
  PROVE  Pool!TypeOK' /\ PoolInv' /\ holders \subseteq holders'
<1>1. /\ IsFiniteSet(holders) /\ Cardinality(holders) \in Nat /\ Owner[r] = DW_ID
      /\ requestQue \in Seq(Request) /\ slotLength \in Int /\ slotHash \in [{DW_ID} -> Nat]
  BY HoldersFinite, OwnerIsDw DEF Pool!TypeOK, Pool!poolLock!LockTypeOK
<1>2. r \notin requests /\ requests' = requests \cup {r} /\ r \notin Pool!Waiting \cup holders
  BY DEF Pool!Acquire, PoolInv, Known
<1>3. CASE Pool!poolLock!Acquire(DW_ID) /\ holders' = holders \cup {r} /\ UNCHANGED requestQue
  <2>1. Cardinality(holders') = Cardinality(holders) + 1
    BY <1>1, <1>2, <1>3, FS_AddElement
  <2>2. /\ slotLength' = slotLength + 1 /\ slotHash'[DW_ID] = slotHash[DW_ID] + 1
        /\ slotHash' \in [{DW_ID} -> Nat]
        /\ MaxLockCount # 0 => slotLength' <= MaxLockCount
    BY <1>1, <1>3, FSStoreAssumption DEF Pool!poolLock!Acquire, Pool!poolLock!Full
  <2>3. Counted' /\ Pool!CounterInLimit'
    BY <1>1, <2>1, <2>2 DEF PoolInv, Counted, Pool!CounterInLimit
  <2>4. Known' /\ Apart' /\ NoTwice'
    BY <1>2, <1>3 DEF PoolInv, Known, Apart, NoTwice, Pool!Waiting
  <2>5. Pool!TypeOK'
    BY <1>1, <1>2, <1>3, <2>2 DEF Pool!TypeOK, Pool!poolLock!LockTypeOK
  <2> QED
    BY <1>3, <2>3, <2>4, <2>5 DEF PoolInv
<1>4. CASE requestQue' = Append(requestQue, r) /\ UNCHANGED <<slotHash, slotLength, holders>>
  <2>1. /\ requestQue' \in Seq(Request)
        /\ {requestQue'[i] : i \in DOMAIN requestQue'} = Pool!Waiting \cup {r}
        /\ \A i, j \in DOMAIN requestQue' : requestQue'[i] = requestQue'[j] => i = j
    <3>1. /\ \A i \in DOMAIN requestQue : requestQue[i] # r
          /\ \A i, j \in DOMAIN requestQue : requestQue[i] = requestQue[j] => i = j
      BY <1>2 DEF PoolInv, NoTwice, Pool!Waiting
    <3> QED
      BY <1>1, <1>4, <3>1 DEF Pool!Waiting
  <2>2. Counted' /\ Pool!CounterInLimit'
    BY <1>4 DEF PoolInv, Counted, Pool!CounterInLimit
  <2>3. Known' /\ Apart' /\ NoTwice'
    BY <1>2, <1>4, <2>1 DEF PoolInv, Known, Apart, NoTwice, Pool!Waiting
  <2>4. Pool!TypeOK'
    BY <1>1, <1>2, <1>4, <2>1 DEF Pool!TypeOK, Pool!poolLock!LockTypeOK
  <2> QED
    BY <1>4, <2>2, <2>3, <2>4 DEF PoolInv
<1> QED
  BY <1>1, <1>3, <1>4 DEF Pool!Acquire

(* What the queue loses when its head is taken out, if it holds nobody twice. *)
LEMMA TailWaiting ==
  ASSUME NEW R, NEW q \in Seq(R), q # <<>>,
         \A i, j \in DOMAIN q : q[i] = q[j] => i = j
  PROVE  /\ Head(q) \in R /\ Tail(q) \in Seq(R)
         /\ Head(q) \in {q[i] : i \in DOMAIN q}
         /\ {Tail(q)[i] : i \in DOMAIN Tail(q)} = {q[i] : i \in DOMAIN q} \ {Head(q)}
         /\ \A i, j \in DOMAIN Tail(q) : Tail(q)[i] = Tail(q)[j] => i = j
<1>1. 1 \in DOMAIN q /\ Head(q) = q[1]
  OBVIOUS
<1>2. ASSUME NEW x
      PROVE  x \in {Tail(q)[i] : i \in DOMAIN Tail(q)} <=> x \in {q[i] : i \in DOMAIN q} /\ x # q[1]
  <2>1. \A i \in DOMAIN Tail(q) : i + 1 \in DOMAIN q /\ Tail(q)[i] = q[i + 1] /\ i + 1 # 1
    OBVIOUS
  <2>2. \A i \in DOMAIN q : i # 1 => i - 1 \in DOMAIN Tail(q) /\ Tail(q)[i - 1] = q[i]
    OBVIOUS
  <2>3. ASSUME NEW i \in DOMAIN q, q[i] # q[1]
        PROVE  \E k \in DOMAIN Tail(q) : Tail(q)[k] = q[i]
    BY <2>2, <2>3
  <2>4. \A i \in DOMAIN Tail(q) : Tail(q)[i] # q[1]
    BY <1>1, <2>1
  <2> QED
    BY <2>1, <2>3, <2>4
<1>3. \A i, j \in DOMAIN Tail(q) : Tail(q)[i] = Tail(q)[j] => i = j
  OBVIOUS
<1> QED
  BY <1>1, <1>2, <1>3

(* A request that has a slot, or was denied one, gives one back: it goes to   *)
(* the first that waits.                                                     *)
LEMMA ReleaseKeeps ==
  ASSUME Pool!TypeOK, PoolInv, NEW r \in Request, Pool!ReleaseSlot(r), UNCHANGED denied,
         r \in holders \cup denied
  PROVE  Pool!TypeOK' /\ PoolInv' /\ holders \ {r} \subseteq holders'
<1>1. /\ IsFiniteSet(holders) /\ Cardinality(holders) \in Nat /\ Owner[r] = DW_ID
      /\ requestQue \in Seq(Request) /\ slotLength \in Int /\ slotHash \in [{DW_ID} -> Nat]
  BY HoldersFinite, OwnerIsDw DEF Pool!TypeOK, Pool!poolLock!LockTypeOK
<1>2. r \notin Pool!Waiting /\ slotHash[DW_ID] > 0 /\ requests' = requests \ {r}
  BY <1>1 DEF Pool!ReleaseSlot
<1>3. /\ IsFiniteSet(holders \ {r})
      /\ Cardinality(holders \ {r}) = (IF r \in holders THEN Cardinality(holders) - 1
                                       ELSE Cardinality(holders))
  <2>1. CASE r \in holders
    BY <1>1, <2>1, FS_RemoveElement
  <2>2. CASE r \notin holders
    <3>1. holders \ {r} = holders
      BY <2>2
    <3> QED
      BY <1>1, <2>2, <3>1
  <2> QED
    BY <2>1, <2>2
<1>4. /\ slotHash[DW_ID] = slotLength /\ slotLength \in 0..Cardinality(holders)
      /\ denied = {} => slotLength = Cardinality(holders) /\ r \in holders
  BY DEF PoolInv, Counted
<1>5. CASE /\ Pool!poolLock!ReleaseOne(DW_ID) /\ holders' = holders \ {r}
           /\ UNCHANGED requestQue
  <2>1. /\ slotLength' = slotLength - 1 /\ slotHash'[DW_ID] = slotHash[DW_ID] - 1
        /\ slotHash' \in [{DW_ID} -> Nat]
    BY <1>1, <1>2, <1>5 DEF Pool!poolLock!ReleaseOne
  <2>2. Cardinality(holders') = (IF r \in holders THEN Cardinality(holders) - 1
                                 ELSE Cardinality(holders))
    BY <1>3, <1>5
  <2>3. Counted'
    BY <1>1, <1>2, <1>4, <2>1, <2>2 DEF Counted
  <2>4. Pool!CounterInLimit'
    BY <1>1, <2>1, FSStoreAssumption DEF PoolInv, Pool!CounterInLimit
  <2>5. Known' /\ Apart' /\ NoTwice'
    BY <1>2, <1>5 DEF PoolInv, Known, Apart, NoTwice, Pool!Waiting
  <2>6. Pool!TypeOK'
    BY <1>1, <1>2, <1>5, <2>1 DEF Pool!TypeOK, Pool!poolLock!LockTypeOK
  <2> QED
    BY <1>5, <2>3, <2>4, <2>5, <2>6 DEF PoolInv
<1>6. CASE /\ requestQue # <<>>
           /\ slotHash' = [[slotHash EXCEPT ![Owner[r]] = @ - 1]
                            EXCEPT ![Owner[Head(requestQue)]] = @ + 1]
           /\ UNCHANGED slotLength
           /\ holders' = (holders \ {r}) \cup {Head(requestQue)}
           /\ requestQue' = Tail(requestQue)
  <2> DEFINE h == Head(requestQue)
  <2>1. /\ h \in Request /\ requestQue' \in Seq(Request) /\ h \in Pool!Waiting
        /\ {requestQue'[i] : i \in DOMAIN requestQue'} = Pool!Waiting \ {h}
        /\ \A i, j \in DOMAIN requestQue' : requestQue'[i] = requestQue'[j] => i = j
    <3>1. \A i, j \in DOMAIN requestQue : requestQue[i] = requestQue[j] => i = j
      BY DEF PoolInv, NoTwice
    <3>2. requestQue # <<>> /\ requestQue' = Tail(requestQue)
      BY <1>6
    <3>3. /\ h \in Request /\ Tail(requestQue) \in Seq(Request) /\ h \in Pool!Waiting
          /\ {Tail(requestQue)[i] : i \in DOMAIN Tail(requestQue)} = Pool!Waiting \ {h}
          /\ \A i, j \in DOMAIN Tail(requestQue) :
               Tail(requestQue)[i] = Tail(requestQue)[j] => i = j
      BY <1>1, <3>1, <3>2, TailWaiting DEF Pool!Waiting
    <3> QED
      BY <3>2, <3>3
  <2>2. h \notin holders /\ h # r /\ Owner[h] = DW_ID /\ h \in requests
    BY <1>2, <2>1, OwnerIsDw DEF PoolInv, Apart, Known
  <2>3. slotHash' \in [{DW_ID} -> Nat] /\ slotHash'[DW_ID] = slotHash[DW_ID]
    BY <1>1, <1>2, <1>6, <2>2
  <2> HIDE DEF h
  <2>4. holders' = (holders \ {r}) \cup {h} /\ slotLength' = slotLength
    BY <1>6 DEF h
  <2>5. Cardinality(holders') = Cardinality(holders \ {r}) + 1
    BY <1>3, <2>2, <2>4, FS_AddElement
  <2>6. Counted'
    BY <1>1, <1>3, <1>4, <2>3, <2>4, <2>5 DEF Counted
  <2>7. Pool!CounterInLimit'
    BY <2>4 DEF PoolInv, Pool!CounterInLimit
  <2>8. Known' /\ Apart' /\ NoTwice'
    BY <1>2, <2>1, <2>2, <2>4 DEF PoolInv, Known, Apart, NoTwice, Pool!Waiting
  <2>9. Pool!TypeOK'
    BY <1>1, <1>2, <2>1, <2>3, <2>4 DEF Pool!TypeOK, Pool!poolLock!LockTypeOK
  <2> QED
    BY <2>4, <2>6, <2>7, <2>8, <2>9 DEF PoolInv
<1> QED
  BY <1>1, <1>5, <1>6 DEF Pool!ReleaseSlot

LEMMA SamePool ==
  ASSUME Pool!TypeOK, PoolInv, UNCHANGED poolVars, denied' = {} => denied = {}
  PROVE  Pool!TypeOK' /\ PoolInv' /\ UNCHANGED holders
<1>1. UNCHANGED <<slotHash, slotLength, requestQue, requests, holders>>
  BY DEF poolVars
<1> QED
  BY <1>1 DEF Pool!TypeOK, Pool!poolLock!LockTypeOK, PoolInv, Known, Apart, NoTwice, Counted,
              Pool!CounterInLimit, Pool!Waiting

-----------------------------------------------------------------------------
(* The steps keep the invariant: movers go on to step s. *)

LEMMA StepKeeps ==
  ASSUME ServerInv,
         NEW movers \in SUBSET Request, NEW s \in Steps \ {"idle", "path"}, Moves(movers, s),
         NEW ra \in SUBSET movers, NEW rd \in SUBSET movers, NEW gone \in SUBSET movers,
         FPR!TypeOK' /\ FPR!AccessExclusive' /\ FileChange(ra, rd, gone),
         \A q \in ra : action[q] = "access",
         \A q \in rd : action[q] = "unlink",
         s \in {"hook", "pool", "working"} =>
           gone = {} /\ \A q \in movers : action[q] = "access" => q \in accessHeld \cup Private,
         Pool!TypeOK' /\ PoolInv' /\ holders \ movers \subseteq holders',
         denied \subseteq denied' /\ denied' \subseteq Request,
         \A q \in movers : action[q] # "lock" =>
           /\ s = "working" => q \in holders'
           /\ s = "relPath" => q \in holders' \cup denied'
           /\ s = "denied" => q \in denied'
  PROVE  ServerInv'
<1>1. TypeOK /\ QueuesAsked /\ HasAccess /\ HasSlot
  BY DEF ServerInv, FileInv
<1>2. ra \in SUBSET Request /\ rd \in SUBSET Request /\ gone \in SUBSET Request
  OBVIOUS
<1>3. QueuesAsked' /\ HasAccess'
  BY <1>1, <1>2, FileMoves
<1>4. pc \in [Request -> Steps] /\ action \in [Request -> Actions \cup {"none"}]
  BY <1>1 DEF TypeOK
<1>5. /\ pc' \in [Request -> Steps]
      /\ \A q \in Request : pc'[q] = IF q \in Called THEN "hook" ELSE IF q \in movers THEN s ELSE pc[q]
  BY <1>4 DEF Moves, Steps
<1>6. action' = action
  BY DEF Moves
<1>7. ASSUME NEW q \in Request, action[q] # "lock"
      PROVE  /\ pc'[q] = "working" => q \in holders'
             /\ pc'[q] = "relPath" => q \in holders' \cup denied'
             /\ pc'[q] = "denied" => q \in denied'
  <2>1. CASE q \in Called
    BY <1>5, <2>1
  <2>2. CASE q \notin Called /\ q \in movers
    BY <1>5, <1>7, <2>2
  <2>3. CASE q \notin Called /\ q \notin movers
    BY <1>1, <1>5, <1>7, <2>3 DEF HasSlot
  <2> QED
    BY <2>1, <2>2, <2>3
<1>8. HasSlot'
  BY <1>6, <1>7 DEF HasSlot
<1>9. TypeOK'
  BY <1>4, <1>5, <1>6 DEF TypeOK
<1> QED
  BY <1>3, <1>8, <1>9 DEF ServerInv, FileInv

(* A step of one request at the resolver. *)
LEMMA GoOnKeeps ==
  ASSUME ServerInv,
         NEW r \in Request, NEW s \in {"queued", "hook", "working", "denied", "done"}, GoOn(r, s),
         NEW ra \in SUBSET {r}, NEW rd \in SUBSET {r}, NEW gone \in SUBSET {r},
         FPR!TypeOK' /\ FPR!AccessExclusive' /\ FileChange(ra, rd, gone),
         ra = {} \/ action[r] = "access",
         rd = {} \/ action[r] = "unlink",
         s \in {"hook", "working"} => gone = {} /\ (action[r] = "access" => r \in Private),
         s = "working" => action[r] = "lock",
         UNCHANGED poolVars
  PROVE  ServerInv'
<1>1. /\ {r} \in SUBSET Request /\ s \in Steps \ {"idle", "path"} /\ Moves({r}, s)
  BY GoOnMoves DEF Steps
<1>2. denied' = denied \cup {q \in {r} : s = "denied" /\ action[q] # "lock"}
  BY DEF GoOn
<1>3. denied \subseteq Request /\ Pool!TypeOK /\ PoolInv
  BY DEF ServerInv, TypeOK
<1>4. Pool!TypeOK' /\ PoolInv' /\ holders \ {r} \subseteq holders'
  BY <1>2, <1>3, SamePool
<1>5. \A q \in {r} : action[q] # "lock" =>
           /\ s = "working" => q \in holders'
           /\ s = "relPath" => q \in holders' \cup denied'
           /\ s = "denied" => q \in denied'
  BY <1>2
<1>6. s \in {"hook", "pool", "working"} =>
        gone = {} /\ \A q \in {r} : action[q] = "access" => q \in accessHeld \cup Private
  OBVIOUS
<1>7. (\A q \in ra : action[q] = "access") /\ (\A q \in rd : action[q] = "unlink")
  OBVIOUS
<1>8. denied \subseteq denied' /\ denied' \subseteq Request
  BY <1>2, <1>3
<1> QED
  BY <1>1, <1>4, <1>5, <1>6, <1>7, <1>8, StepKeeps

(* A step of one request that leaves the file alone. *)
LEMMA MoveKeeps ==
  ASSUME ServerInv,
         NEW r \in Request, NEW s \in {"pool", "working", "relPath", "relPool"},
         pc' = [pc EXCEPT ![r] = s], UNCHANGED <<action, denied, fileVars>>,
         s \in {"pool", "working"} => pc[r] \in {"hook", "pool", "working"},
         s = "working" => r \in holders',
         s = "relPath" => action[r] = "lock" \/ r \in holders' \cup denied,
         Pool!TypeOK' /\ PoolInv' /\ holders \ {r} \subseteq holders'
  PROVE  ServerInv'
<1>1. TypeOK /\ FPR!TypeOK /\ FPR!AccessExclusive /\ HasAccess
  BY DEF ServerInv, FileInv, TypeOK
<1>2. FPR!TypeOK' /\ FPR!AccessExclusive' /\ FileChange({}, {}, {})
  BY <1>1, SameFileChange
<1>3. Called = {}
  BY DEF Called, fileVars
<1>4. Moves({r}, s)
  BY <1>1, <1>3 DEF Moves, TypeOK
<1>5. {r} \in SUBSET Request /\ s \in Steps \ {"idle", "path"}
  BY DEF Steps
<1>6. denied \subseteq denied' /\ denied' \subseteq Request /\ denied' = denied
  BY <1>1 DEF TypeOK
<1>7. s \in {"hook", "pool", "working"} =>
        \A q \in {r} : action[q] = "access" => q \in accessHeld \cup Private
  BY <1>1 DEF HasAccess
<1>8. \A q \in {r} : action[q] # "lock" =>
           /\ s = "working" => q \in holders'
           /\ s = "relPath" => q \in holders' \cup denied'
           /\ s = "denied" => q \in denied'
  BY <1>6
<1> QED
  BY <1>2, <1>4, <1>5, <1>6, <1>7, <1>8, StepKeeps

LEMMA AskKeeps ==
  ASSUME ServerInv, NEW r \in Request, Ask(r)
  PROVE  ServerInv'
<1>1. /\ TypeOK /\ FPR!TypeOK /\ FPR!AccessExclusive /\ QueuesAsked /\ HasAccess /\ HasSlot
      /\ Pool!TypeOK /\ PoolInv
  BY DEF ServerInv, FileInv, TypeOK
<1>2. PICK a \in Actions : action' = [action EXCEPT ![r] = a]
  BY DEF Ask
<1>3. /\ pc[r] = "idle" /\ pc' = [pc EXCEPT ![r] = "path"]
      /\ UNCHANGED <<denied, fileVars, poolVars>>
  BY DEF Ask
<1>4. FPR!TypeOK' /\ FPR!AccessExclusive'
  BY <1>1, <1>3, SameFileChange
<1>5. Pool!TypeOK' /\ PoolInv' /\ UNCHANGED holders
  BY <1>1, <1>3, SamePool
<1>6. pc' \in [Request -> Steps] /\ pc'[r] = "path" /\ \A q \in Request \ {r} : pc'[q] = pc[q] /\ action'[q] = action[q]
  BY <1>1, <1>2, <1>3 DEF TypeOK, Steps
<1>7. action' \in [Request -> Actions \cup {"none"}]
  BY <1>1, <1>2 DEF TypeOK
<1>8. TypeOK'
  BY <1>1, <1>3, <1>4, <1>5, <1>6, <1>7 DEF TypeOK
<1>9. QueuesAsked'
  <2>1. access' = access /\ del' = del
    BY <1>3 DEF fileVars
  <2>2. InQueue(access) \subseteq Request \ {r} /\ InQueue(del) \subseteq Request \ {r}
    BY <1>1, <1>3 DEF InQueue, QueuesAsked, Asked, FPR!TypeOK
  <2> QED
    BY <1>1, <1>6, <2>1, <2>2 DEF QueuesAsked, Asked
<1>10. HasAccess'
  <2>1. accessHeld' = accessHeld
    BY <1>3 DEF fileVars
  <2> QED
    BY <1>1, <1>6, <2>1 DEF HasAccess
<1>11. HasSlot'
  BY <1>1, <1>3, <1>5, <1>6 DEF HasSlot
<1> QED
  BY <1>4, <1>5, <1>8, <1>9, <1>10, <1>11 DEF ServerInv, FileInv

-----------------------------------------------------------------------------
(* The actions. *)

LEMMA LockKeeps ==
  ASSUME ServerInv, NEW r \in Request, RequestLock(r) \/ ReleaseLock(r)
  PROVE  ServerInv'
<1>1. FPR!TypeOK /\ FPR!AccessExclusive
  BY DEF ServerInv, FileInv, TypeOK
<1>2. CASE RequestLock(r)
  <2>1. /\ FPR!TypeOK' /\ FPR!AccessExclusive' /\ FileChange({}, {}, {})
        /\ GoOn(r, "working") \/ GoOn(r, "denied")
        /\ action[r] = "lock" /\ UNCHANGED poolVars
    BY <1>1, <1>2, SameFileChange, LockChange DEF RequestLock
  <2> QED
    BY <2>1, GoOnKeeps
<1>3. CASE ReleaseLock(r)
  <2>1. /\ FPR!TypeOK' /\ FPR!AccessExclusive' /\ FileChange({}, {}, {})
        /\ GoOn(r, "done") /\ UNCHANGED poolVars
    BY <1>1, <1>3, SameFileChange, LockChange DEF ReleaseLock
  <2> QED
    BY <2>1, GoOnKeeps
<1> QED
  BY <1>2, <1>3

LEMMA AccessKeeps ==
  ASSUME ServerInv, NEW r \in Request, RequestAccess(r)
  PROVE  ServerInv'
<1>1. FPR!TypeOK /\ FPR!AccessExclusive /\ action[r] = "access" /\ UNCHANGED poolVars
  BY DEF ServerInv, FileInv, TypeOK, RequestAccess
<1>2. CASE r \in Private /\ UNCHANGED fileVars /\ GoOn(r, "hook")
  <2>1. FPR!TypeOK' /\ FPR!AccessExclusive' /\ FileChange({}, {}, {})
    BY <1>1, <1>2, SameFileChange
  <2> QED
    BY <1>1, <1>2, <2>1, GoOnKeeps
<1>3. CASE FPR!HookAccess(r) /\ GoOn(r, "queued")
  <2>1. FPR!TypeOK' /\ FPR!AccessExclusive' /\ FileChange({r}, {}, {})
    BY <1>1, <1>3, HookAccessChange
  <2> QED
    BY <1>1, <1>3, <2>1, GoOnKeeps
<1>4. CASE UNCHANGED fileVars /\ GoOn(r, "denied")
  <2>1. FPR!TypeOK' /\ FPR!AccessExclusive' /\ FileChange({}, {}, {})
    BY <1>1, <1>4, SameFileChange
  <2> QED
    BY <1>1, <1>4, <2>1, GoOnKeeps
<1> QED
  BY <1>2, <1>3, <1>4 DEF RequestAccess

LEMMA UnlinkKeeps ==
  ASSUME ServerInv, NEW r \in Request, RequestUnlink(r)
  PROVE  ServerInv'
<1>1. FPR!TypeOK /\ FPR!AccessExclusive /\ action[r] = "unlink" /\ UNCHANGED poolVars
  BY DEF ServerInv, FileInv, TypeOK, RequestUnlink
<1>2. CASE r \in Private /\ UNCHANGED fileVars /\ GoOn(r, "hook")
  <2>1. FPR!TypeOK' /\ FPR!AccessExclusive' /\ FileChange({}, {}, {})
    BY <1>1, <1>2, SameFileChange
  <2> QED
    BY <1>1, <1>2, <2>1, GoOnKeeps
<1>3. CASE FPR!HookUnlink(r) /\ GoOn(r, "queued")
  <2>1. FPR!TypeOK' /\ FPR!AccessExclusive' /\ FileChange({}, {r}, {})
    BY <1>1, <1>3, HookUnlinkChange
  <2> QED
    BY <1>1, <1>3, <2>1, GoOnKeeps
<1> QED
  BY <1>2, <1>3 DEF RequestUnlink

LEMMA ReleaseFileKeeps ==
  ASSUME ServerInv, NEW r \in Request, ReleaseFile(r)
  PROVE  ServerInv'
<1>1. FPR!TypeOK /\ FPR!AccessExclusive /\ GoOn(r, "done") /\ UNCHANGED poolVars
  BY DEF ServerInv, FileInv, TypeOK, ReleaseFile
<1>2. CASE FPR!ReleaseAccess(r)
  <2>1. FPR!TypeOK' /\ FPR!AccessExclusive' /\ FileChange({}, {}, {r})
    BY <1>1, <1>2, ReleaseAccessChange
  <2> QED
    BY <1>1, <2>1, GoOnKeeps
<1>3. CASE FPR!ReleaseUnlink(r) \/ UNCHANGED fileVars
  <2>1. FPR!TypeOK' /\ FPR!AccessExclusive' /\ FileChange({}, {}, {})
    BY <1>1, <1>3, SameFileChange, ReleaseUnlinkChange
  <2> QED
    BY <1>1, <2>1, GoOnKeeps
<1> QED
  BY <1>2, <1>3 DEF ReleaseFile

LEMMA SlotsKeep ==
  ASSUME ServerInv, NEW r \in Request,
         AcquirePermission(r) \/ Answer(r) \/ Release(r) \/ ReleasePermission(r)
  PROVE  ServerInv'
<1>1. Pool!TypeOK /\ PoolInv /\ HasSlot
  BY DEF ServerInv, TypeOK
<1>2. CASE AcquirePermission(r)
  <2>1. Pool!TypeOK' /\ PoolInv' /\ holders \subseteq holders'
    BY <1>1, <1>2, AcquireKeeps DEF AcquirePermission
  <2>2. pc[r] = "hook" /\ pc' = [pc EXCEPT ![r] = "pool"] /\ UNCHANGED <<action, denied, fileVars>>
    BY <1>2 DEF AcquirePermission
  <2> QED
    BY <2>1, <2>2, MoveKeeps
<1>3. CASE Answer(r)
  <2>1. /\ pc[r] = "pool" /\ r \in holders /\ pc' = [pc EXCEPT ![r] = "working"]
        /\ UNCHANGED <<action, denied, fileVars>> /\ UNCHANGED poolVars
    BY <1>3 DEF Answer
  <2>2. Pool!TypeOK' /\ PoolInv' /\ holders' = holders
    BY <1>1, <2>1, SamePool
  <2> QED
    BY <2>1, <2>2, MoveKeeps
<1>4. CASE Release(r)
  <2>1. /\ pc[r] \in {"working", "denied"} /\ pc' = [pc EXCEPT ![r] = "relPath"]
        /\ UNCHANGED <<action, denied, fileVars>> /\ UNCHANGED poolVars
    BY <1>4 DEF Release
  <2>2. Pool!TypeOK' /\ PoolInv' /\ holders' = holders
    BY <1>1, <2>1, SamePool
  <2>3. action[r] = "lock" \/ r \in holders \cup denied
    BY <1>1, <2>1 DEF HasSlot
  <2> QED
    BY <2>1, <2>2, <2>3, MoveKeeps
<1>5. CASE ReleasePermission(r)
  <2>1. /\ pc[r] = "relPath" /\ action[r] # "lock" /\ pc' = [pc EXCEPT ![r] = "relPool"]
        /\ UNCHANGED <<action, denied, fileVars>>
        /\ Pool!ReleaseSlot(r) \/ UNCHANGED poolVars
    BY <1>5 DEF ReleasePermission
  <2>2. r \in holders \cup denied
    BY <1>1, <2>1 DEF HasSlot
  <2>3. Pool!TypeOK' /\ PoolInv' /\ holders \ {r} \subseteq holders'
    BY <1>1, <2>1, <2>2, ReleaseKeeps, SamePool
  <2> QED
    BY <2>1, <2>3, MoveKeeps
<1> QED
  BY <1>2, <1>3, <1>4, <1>5

LEMMA ClearKeeps ==
  ASSUME ServerInv, Clear
  PROVE  ServerInv'
<1>1. /\ FPR!TypeOK /\ FPR!AccessExclusive /\ Pool!TypeOK /\ PoolInv /\ denied \subseteq Request
  BY DEF ServerInv, FileInv, TypeOK
<1>2. FPR!TypeOK' /\ FPR!AccessExclusive' /\ FileChange({}, {}, {})
  BY <1>1, ClearChange DEF Clear
<1>3. UNCHANGED <<action, denied, poolVars>>
  BY DEF Clear
<1>4. Pool!TypeOK' /\ PoolInv' /\ holders \ {} \subseteq holders'
  BY <1>1, <1>3, SamePool
<1>5. Moves({}, "done") /\ "done" \in Steps \ {"idle", "path"}
  BY DEF Clear, Moves, Steps
<1> QED
  BY <1>1, <1>2, <1>3, <1>4, <1>5, StepKeeps

-----------------------------------------------------------------------------
LEMMA InitInv == Init => ServerInv
<1> SUFFICES ASSUME Init PROVE ServerInv
  OBVIOUS
<1>1. /\ pc = [r \in Request |-> "idle"] /\ action = [r \in Request |-> "none"] /\ denied = {}
      /\ state = 2 /\ lockHash = [id \in {DW_ID} |-> 0] /\ lockLength = 0
      /\ access = <<>> /\ accessing = FALSE /\ del = <<>>
      /\ lockHeld = {} /\ accessHeld = {} /\ unlinkHeld = {} /\ cleaned = {} /\ refused = {}
      /\ slotHash = [id \in {DW_ID} |-> 0] /\ slotLength = 0
      /\ requestQue = <<>> /\ requests = {} /\ holders = {}
  BY DEF Init, FPR!Init, Pool!Init, FPR!multiLock!LockInit, Pool!poolLock!LockInit
<1>2. <<>> \in Seq(Request) /\ DOMAIN <<>> = {}
  OBVIOUS
<1>3. TypeOK
  <2>1. [id \in {DW_ID} |-> 0] \in [{DW_ID} -> Nat] /\ 0 \in Int /\ 2 \in 0..4
    OBVIOUS
  <2>2. FPR!TypeOK
    BY <1>1, <1>2, <2>1 DEF FPR!TypeOK, FPR!multiLock!LockTypeOK
  <2>3. Pool!TypeOK
    BY <1>1, <1>2, <2>1 DEF Pool!TypeOK, Pool!poolLock!LockTypeOK
  <2> QED
    BY <1>1, <2>2, <2>3 DEF TypeOK, Steps
<1>4. FileInv
  BY <1>1, EmptyQueue DEF FileInv, QueuesAsked, Asked, HasAccess, FPR!AccessExclusive
<1>5. PoolInv
  BY <1>1, <1>2, FSStoreAssumption, FS_EmptySet
     DEF PoolInv, Known, Apart, NoTwice, Counted, Pool!CounterInLimit, Pool!Waiting
<1>6. HasSlot
  BY <1>1 DEF HasSlot
<1> QED
  BY <1>3, <1>4, <1>5, <1>6 DEF ServerInv

LEMMA NextInv == ServerInv /\ [Next]_vars => ServerInv'
<1> SUFFICES ASSUME ServerInv, [Next]_vars PROVE ServerInv'
  OBVIOUS
<1>1. CASE Clear
  BY <1>1, ClearKeeps
<1>2. ASSUME NEW r \in Request, RequestNext(r)
      PROVE  ServerInv'
  BY <1>2, AskKeeps, LockKeeps, AccessKeeps, UnlinkKeeps, SlotsKeep, ReleaseFileKeeps
     DEF RequestNext
<1>3. CASE UNCHANGED vars
  <2>1. /\ UNCHANGED <<pc, action, denied, fileVars>> /\ UNCHANGED poolVars
    BY <1>3 DEF vars, requestVars
  <2>2. FPR!TypeOK /\ FPR!AccessExclusive /\ Pool!TypeOK /\ PoolInv /\ denied \subseteq Request
    BY DEF ServerInv, FileInv, TypeOK
  <2>3. FPR!TypeOK' /\ FPR!AccessExclusive' /\ FileChange({}, {}, {})
    BY <2>1, <2>2, SameFileChange
  <2>4. Pool!TypeOK' /\ PoolInv' /\ holders \ {} \subseteq holders'
    BY <2>1, <2>2, SamePool
  <2>5. Called = {}
    BY <2>1 DEF Called, fileVars
  <2>6. pc \in [Request -> Steps]
    BY DEF ServerInv, TypeOK
  <2>7. Moves({}, "done") /\ "done" \in Steps \ {"idle", "path"}
    BY <2>1, <2>5, <2>6 DEF Moves, Steps
  <2> QED
    BY <2>1, <2>2, <2>3, <2>4, <2>7, StepKeeps
<1> QED
  BY <1>1, <1>2, <1>3 DEF Next

LEMMA ServerKeepsInv == Spec => []ServerInv
<1>1. Init => ServerInv
  BY InitInv
<1>2. ServerInv /\ [Next]_vars => ServerInv'
  BY NextInv
<1> QED
  BY <1>1, <1>2, PTL DEF Spec

(* Every variable of the server, its resolver and its pool keeps its type.   *)
THEOREM TypeCorrect == Spec => []TypeOK
<1>1. ServerInv => TypeOK
  BY DEF ServerInv
<1> QED
  BY <1>1, ServerKeepsInv, PTL

(* A client that was answered OK to an access has the file and a slot, and   *)
(* no other client has the shared file (RequestAction, ReleaseAction).       *)
THEOREM WritersAreAlone == Spec => []OneWriter
<1>1. ServerInv => OneWriter
  <2> SUFFICES ASSUME ServerInv PROVE OneWriter
    OBVIOUS
  <2>1. /\ HasSlot /\ HasAccess /\ \A r, s \in accessHeld : r = s
    BY DEF ServerInv, FileInv, FPR!AccessExclusive
  <2>2. ASSUME NEW r \in Working("access")
        PROVE  r \in holders /\ r \in accessHeld \cup Private
    BY <2>1, <2>2 DEF Working, HasSlot, HasAccess
  <2> QED
    BY <2>1, <2>2 DEF OneWriter
<1> QED
  BY <1>1, ServerKeepsInv, PTL

(* While no access was denied, the slots in use are counted exactly, and no  *)
(* more than threadCount operations have one.                                *)
THEOREM OperationsAreLimited == Spec => []OperationsLimited
<1>1. ServerInv => OperationsLimited
  <2> SUFFICES ASSUME ServerInv, denied = {} PROVE Pool!AtMostMaxLockCount
    BY DEF OperationsLimited
  <2>1. slotLength = Cardinality(holders) /\ Pool!CounterInLimit
    BY DEF ServerInv, PoolInv, Counted
  <2>2. Pool!Cardinality(holders) = Cardinality(holders)
    BY Zenon DEF Cardinality, Pool!Cardinality
  <2> QED
    BY <2>1, <2>2 DEF Pool!CounterInLimit, Pool!AtMostMaxLockCount
<1> QED
  BY <1>1, ServerKeepsInv, PTL

(* Whoever releases and whatever clear() does, the count is never above the  *)
(* slots in use nor the limit: a slot is not lost.                           *)
THEOREM SlotsAreNotLost == Spec => []NoSlotLost
<1>1. ServerInv => NoSlotLost
  BY DEF ServerInv, PoolInv, Counted, NoSlotLost
<1> QED
  BY <1>1, ServerKeepsInv, PTL

=============================================================================
