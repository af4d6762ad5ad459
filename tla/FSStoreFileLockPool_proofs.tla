---------------------- MODULE FSStoreFileLockPool_proofs -----------------------
(***************************************************************************)
(* Two components of core/fs-store that share nothing but this module:     *)
(* first FSStoreFile, then LockPool.                                       *)
(*                                                                         *)
(* FSStoreFile: whoever works on a file through it has the file, and       *)
(* nothing of it is kept when no method is under way: for any number of    *)
(* callers and requests, until the file is deleted or one of the things    *)
(* happens that past names.  The fields of the object are shared by its    *)
(* callers, so what has to be shown is whose each is: accessId is the id   *)
(* of the one caller between the answer to his getAccess and the answer to *)
(* his release, lockQueue has as many ids as there are callers who hold a  *)
(* lock, though not each his own, and enterTransaction is set by the one   *)
(* caller who is within a transaction or about to enter it.                *)
(*                                                                         *)
(* LockPool: the pool is not overdrawn and nobody waits at a free slot,    *)
(* for any number of workers and requests and any size of the pool.  The   *)
(* slots are counted per worker, so what has to be shown is that a slot    *)
(* given back is the releaser's own: a request that holds a slot does not  *)
(* also wait, and waits at one place of the queue only.  requests, the set *)
(* of ids acquire() refuses to see again, is what ensures it.              *)
(***************************************************************************)
EXTENDS FSStoreFile, LockPool, FiniteSetTheorems, TLAPS

Calm == ~doomed /\ past = {}

(* The steps at which a caller has the access, and those at which he gives it  *)
(* back; at which he has a lock; at which a transaction is his; and at which   *)
(* he awaits the answer to a question.                                       *)
Giving   == {"releases", "tReleases"}
Accesses == {"ensureAccess", "works", "tEnsureAccess", "tLock", "tEnsureLock", "cb", "tWorks"}
Locks    == {"ensureLock", "locked", "tEnsureLock", "cb", "tWorks", "tReleases"}
Within   == {"tAccess", "tEnsureAccess", "tLock", "tEnsureLock", "cb", "tWorks", "tReleases",
             "tUnlocks"}
Asks(action) == CASE action = "lock"   -> {"naming", "lock", "tLock"}
                  [] action = "access" -> {"access", "tAccess"}
                  [] OTHER             -> {"unlink", "waitForUnlock"}

Asked(i)   == request[i].at \in {"asked", "queued", "granted"}
Back(i)    == request[i].at \in {"releasing", "freed"}
Has(i, action) == request[i].action = action /\ request[i].at \in {"granted", "given", "releasing"}
LockHolders == {c \in Caller : pc[c] \in Locks}

(* He has the access until his release has been answered. *)
HasAccess(c) == pc[c] \in Accesses \/ (pc[c] \in Giving /\ awaits[c] # {})

(* Nothing is refused, and no unlink granted.                                *)
Kinds == \A i \in Id :
  /\ request[i].at # "refused"
  /\ request[i].at # "none" => request[i].action # "none"
  /\ request[i].action = "unlink" => request[i].at \in {"asked", "queued"}

Stations ==
  /\ pc[Maker] \in {"naming", "named", "idle"}
  /\ \A c \in Caller : pc[c] \notin {"naming", "named", "unlinks", "stuck"}

(* Each caller awaits the answer to one question.                            *)
AskersWait == \A i \in Id :
  Asked(i) => reqHash[i] \in Flow /\ pc[reqHash[i]] \in Asks(request[i].action)
OneQuestion == \A i, j \in Id : Asked(i) /\ Asked(j) /\ reqHash[i] = reqHash[j] => i = j

(* What was given is known to the object. *)
GivenKept == \A i \in Id : request[i].at = "given" =>
  IF request[i].action = "access" THEN i = accessId ELSE i \in Range(lockQueue)

(* What is given back is awaited, by him who gives it back. *)
BackAwaited == \A i \in Id : Back(i) => reqHash[i] \in Flow /\ i \in awaits[reqHash[i]]
AwaitsBack == \A c \in Flow : \A i \in awaits[c] :
  /\ Back(i) /\ reqHash[i] = c
  /\ pc[c] \in Giving => i = accessId
  /\ pc[c] \in Giving \cup {"named", "unlocks", "tUnlocks"}
  /\ pc[c] \in Giving <=> request[i].action = "access"

(* What the server has granted. *)
LocksGranted  == \A i \in Id : i \in lockers <=> Has(i, "lock")
AccessGranted ==
  /\ \A i \in Id : i \in accessors <=> Has(i, "access")
  /\ \A i, j \in accessors : i = j

(* accessId is the access of one caller; after his release it may be an old id. *)
OneAccesses == \A c, d \in Caller : HasAccess(c) /\ HasAccess(d) => c = d
AccessIsHis == \A c \in Caller : HasAccess(c) =>
  /\ accessId \in Id /\ request[accessId].action = "access"
  /\ request[accessId].at \in (IF pc[c] \in Giving THEN {"releasing", "freed"} ELSE {"given"})
  /\ pc[c] \in Giving => accessId \in awaits[c]
IdIsSomebodys == accessId # 0 => \E c \in Caller : pc[c] \in Accesses \cup Giving

(* A transaction is under way, or begins, for one caller. *)
Transacts == inTransaction => \E c \in Caller : pc[c] \in {"cb", "tWorks"}
Entered   == enterTransaction <=> \E c \in Caller : pc[c] \in Within
OneEnters == \A c, d \in Caller :
  pc[c] \in Within \cup {"enter"} /\ pc[d] \in Within \cup {"enter"} => c = d
Queued ==
  /\ \A k \in DOMAIN transactionQueue : pc[transactionQueue[k]] = "queue"
  /\ \A j, k \in DOMAIN transactionQueue : transactionQueue[j] = transactionQueue[k] => j = k

(* As many locks are queued as callers have one. *)
LocksQueued ==
  /\ \A k \in DOMAIN lockQueue :
       request[lockQueue[k]].action = "lock" /\ request[lockQueue[k]].at = "given"
  /\ \A j, k \in DOMAIN lockQueue : lockQueue[j] = lockQueue[k] => j = k
LocksCounted == Len(lockQueue) = Cardinality(LockHolders)

CalmInv ==
  /\ Kinds /\ Stations /\ AskersWait /\ OneQuestion /\ GivenKept /\ BackAwaited /\ AwaitsBack
  /\ LocksGranted /\ AccessGranted /\ OneAccesses /\ AccessIsHis /\ IdIsSomebodys
  /\ Transacts /\ Entered /\ OneEnters /\ Queued /\ LocksQueued /\ LocksCounted

-----------------------------------------------------------------------------
(* How the requests change. *)

LEMMA StageStep ==
  ASSUME FileTypeOK, NEW i \in Id, NEW s \in Stages, request' = [request EXCEPT ![i].at = s]
  PROVE  /\ request' \in [Id -> [action : Actions, at : Stages]]
         /\ \A j \in Id : /\ request'[j].action = request[j].action
                          /\ request'[j].at = IF j = i THEN s ELSE request[j].at
BY DEF FileTypeOK

LEMMA AskStep ==
  ASSUME FileTypeOK, NEW c \in Flow, NEW action \in Actions, NEW s \in Waits, Ask(c, action, s)
  PROVE  /\ request' \in [Id -> [action : Actions, at : Stages]]
         /\ reqHash' \in [Id -> Flow \cup {NoCaller}] /\ pc' \in [Flow -> Waits]
         /\ \A d \in Flow : pc'[d] = IF d = c THEN s ELSE pc[d]
         /\ \E i \in Id :
              /\ request[i].at = "none"
              /\ \A j \in Id :
                   /\ request'[j].action = IF j = i THEN action ELSE request[j].action
                   /\ request'[j].at = IF j = i THEN "asked" ELSE request[j].at
                   /\ reqHash'[j] = IF j = i THEN c ELSE reqHash[j]
<1>1. PICK i \in Id :
        /\ request[i].at = "none"
        /\ request' = [request EXCEPT ![i] = [action |-> action, at |-> "asked"]]
        /\ reqHash' = [reqHash EXCEPT ![i] = c]
  BY DEF Ask
<1>2. request' \in [Id -> [action : Actions, at : Stages]]
  BY <1>1 DEF FileTypeOK, Stages
<1>3. /\ reqHash' \in [Id -> Flow \cup {NoCaller}] /\ pc' \in [Flow -> Waits]
      /\ \A d \in Flow : pc'[d] = IF d = c THEN s ELSE pc[d]
  BY <1>1 DEF FileTypeOK, Ask
<1>4. \A j \in Id : /\ request'[j].action = IF j = i THEN action ELSE request[j].action
                    /\ request'[j].at = IF j = i THEN "asked" ELSE request[j].at
                    /\ reqHash'[j] = IF j = i THEN c ELSE reqHash[j]
  BY <1>1 DEF FileTypeOK
<1> QED
  BY <1>1, <1>2, <1>3, <1>4

(* The requests that a release really gives back. *)
Unreleased(i) == request[i].at \notin {"releasing", "freed", "released"}

(* What a release of the requests ids by c, who goes to step s, does to the requests and to those *)
(* who ask.                                                                                      *)
Releases(c, ids, s) ==
  /\ \A d \in Flow : /\ pc'[d] = IF d = c THEN s ELSE pc[d]
                     /\ awaits'[d] = IF d = c THEN ids ELSE awaits[d]
  /\ \A j \in Id :
       /\ request'[j].action = request[j].action
       /\ request'[j].at = IF j \in ids /\ Unreleased(j) THEN "releasing" ELSE request[j].at
       /\ reqHash'[j] = IF j \in ids /\ request[j].at # "released" THEN c ELSE reqHash[j]

LEMMA ReleaseStep ==
  ASSUME FileTypeOK, NEW c \in Flow \cup {NoCaller}, NEW ids \in SUBSET Id, NEW s \in Waits,
         Release(c, ids, s)
  PROVE  /\ request' \in [Id -> [action : Actions, at : Stages]]
         /\ reqHash' \in [Id -> Flow \cup {NoCaller}] /\ pc' \in [Flow -> Waits]
         /\ awaits' \in [Flow -> SUBSET Id]
         /\ Releases(c, ids, s)
<1> DEFINE known == {i \in ids : request[i].at # "released"}
           now   == {i \in known : request[i].at \notin {"releasing", "freed"}}
<1>1. /\ awaits' = [awaits EXCEPT ![c] = ids] /\ pc' = [pc EXCEPT ![c] = s]
      /\ reqHash' = [i \in Id |-> IF i \in known THEN c ELSE reqHash[i]]
      /\ request' = [i \in Id |-> IF i \in now THEN [request[i] EXCEPT !.at = "releasing"]
                                  ELSE request[i]]
  BY DEF Release
<1>2. \A i \in Id : /\ request[i] \in [action : Actions, at : Stages]
                    /\ [request[i] EXCEPT !.at = "releasing"] \in [action : Actions, at : Stages]
  BY DEF FileTypeOK, Stages
<1>3. request' \in [Id -> [action : Actions, at : Stages]]
  BY <1>1, <1>2
<1>4. /\ reqHash' \in [Id -> Flow \cup {NoCaller}] /\ pc' \in [Flow -> Waits]
      /\ awaits' \in [Flow -> SUBSET Id]
      /\ \A d \in Flow : /\ pc'[d] = IF d = c THEN s ELSE pc[d]
                         /\ awaits'[d] = IF d = c THEN ids ELSE awaits[d]
  BY <1>1 DEF FileTypeOK
<1>5. ASSUME NEW j \in Id
      PROVE  /\ request'[j].action = request[j].action
             /\ request'[j].at = IF j \in ids /\ Unreleased(j) THEN "releasing"
                                 ELSE request[j].at
             /\ reqHash'[j] = IF j \in ids /\ request[j].at # "released" THEN c ELSE reqHash[j]
  BY <1>1, <1>2 DEF Unreleased
<1> QED
  BY <1>3, <1>4, <1>5 DEF Releases

LEMMA GotoStep ==
  ASSUME FileTypeOK, NEW c \in Flow \cup {NoCaller}, NEW s \in Waits, Goto(c, s)
  PROVE  /\ pc' \in [Flow -> Waits]
         /\ \A d \in Flow : pc'[d] = IF d = c THEN s ELSE pc[d]
         /\ UNCHANGED <<awaits, reqHash, request>>
BY DEF FileTypeOK, Goto

(* The last of a queue is taken. *)
LEMMA FrontOf ==
  ASSUME NEW S, NEW q \in Seq(S), q # <<>>
  PROVE  /\ Front(q) \in Seq(S) /\ Last(q) \in S /\ Last(q) = q[Len(q)]
         /\ Len(q) \in Nat \ {0} /\ DOMAIN q = 1..Len(q)
         /\ Len(Front(q)) = Len(q) - 1 /\ DOMAIN Front(q) = 1..(Len(q) - 1)
         /\ \A k \in DOMAIN Front(q) : Front(q)[k] = q[k]
<1>1. Len(q) \in Nat \ {0} /\ DOMAIN q = 1..Len(q)
  OBVIOUS
<1>2. Front(q) = SubSeq(q, 1, Len(q) - 1)
  BY DEF Front
<1>3. \A k \in 1..(Len(q) - 1) : q[k] \in S
  BY <1>1
<1>4. Front(q) \in Seq(S) /\ Len(Front(q)) = Len(q) - 1 /\ DOMAIN Front(q) = 1..(Len(q) - 1)
  BY <1>1, <1>2, <1>3
<1>5. \A k \in 1..(Len(q) - 1) : Front(q)[k] = q[k]
  BY <1>1, <1>2
<1>6. Last(q) = q[Len(q)] /\ Last(q) \in S
  BY <1>1 DEF Last
<1> QED
  BY <1>1, <1>4, <1>5, <1>6

-----------------------------------------------------------------------------
(* Types. *)

LEMMA FileTypeInit == FileInit => FileTypeOK
<1> SUFFICES ASSUME FileInit
             PROVE  FileTypeOK
  OBVIOUS
<1>1. 1 \in Id /\ 0 \in 0..MaxRequests /\ Maker \in Flow
  BY FileAssumption DEF Id, Flow
<1>2. request \in [Id -> [action : Actions, at : Stages]]
  BY DEF FileInit, Nothing, Actions, Stages
<1>3. lockQueue \in Seq(Id) /\ transactionQueue \in Seq(Caller)
  BY DEF FileInit
<1>4. pc \in [Flow -> Waits] /\ awaits \in [Flow -> SUBSET Id]
  BY DEF FileInit, Waits
<1>5. reqHash \in [Id -> Flow \cup {NoCaller}]
  BY <1>1 DEF FileInit
<1>6. lockers \subseteq Id /\ deleters \subseteq Id /\ accessors \subseteq Id \cup {Other} /\ doomed \in BOOLEAN
  BY DEF FileInit, Server!PermInit
<1> QED
  BY <1>1, <1>2, <1>3, <1>4, <1>5, <1>6 DEF FileInit, FileTypeOK

(* The steps of the server and of the other process. *)
LEMMA ServerType ==
  ASSUME FileTypeOK,
         \/ \E i \in Id : ServerNext(i)
         \/ OtherProcess
  PROVE  FileTypeOK'
<1>1. ASSUME NEW i \in Id, NEW s \in Stages, Handles(i, s),
             lockers' \subseteq Id, deleters' \subseteq Id, accessors' \subseteq Id \cup {Other},
             doomed' \in BOOLEAN
      PROVE  FileTypeOK'
  <2>1. request' \in [Id -> [action : Actions, at : Stages]]
    BY <1>1, StageStep DEF Handles
  <2> QED
    BY <1>1, <2>1 DEF Handles, FileTypeOK, fileVars
<1>2. ASSUME NEW i \in Id, Arrive(i)
      PROVE  FileTypeOK'
  <2>1. {"granted", "refused", "queued"} \subseteq Stages
    BY DEF Stages
  <2>2. CASE Server!GrantLock(i) /\ Handles(i, "granted")
    BY <1>1, <2>1, <2>2 DEF Server!GrantLock, Server!NoGrant, FileTypeOK
  <2>3. CASE UNCHANGED serverVars /\ (Handles(i, "refused") \/ Handles(i, "queued"))
    BY <1>1, <2>1, <2>3 DEF serverVars, FileTypeOK
  <2> QED
    BY <1>2, <2>2, <2>3 DEF Arrive
<1>3. ASSUME NEW i \in Id, Grant(i)
      PROVE  FileTypeOK'
  <2>1. "granted" \in Stages /\ Handles(i, "granted")
    BY <1>3 DEF Stages, Grant
  <2>2. CASE Server!GrantAccess(i)
    BY <1>1, <2>1, <2>2 DEF Server!GrantAccess, Server!NoGrant, FileTypeOK
  <2>3. CASE deleters' = deleters \cup {i} /\ Server!Unlink
    BY <1>1, <2>1, <2>3 DEF Server!Unlink, Server!GrantUnlink, FileTypeOK
  <2> QED
    BY <1>3, <2>2, <2>3 DEF Grant
<1>4. ASSUME NEW i \in Id, HandleRelease(i)
      PROVE  FileTypeOK'
  <2>1. "freed" \in Stages
    BY DEF Stages
  <2> QED
    BY <1>1, <1>4, <2>1 DEF HandleRelease, FileTypeOK
<1>5. CASE OtherProcess
  BY <1>5 DEF OtherProcess, Server!GrantAccess, Server!NoGrant, Server!ReleaseAccess,
       Server!GrantUnlink, FileTypeOK, fileVars, Other
<1> QED
  BY <1>2, <1>3, <1>4, <1>5 DEF ServerNext

LEMMA MessageType ==
  ASSUME FileTypeOK, NEW i \in Id, Messages(i)
  PROVE  FileTypeOK'
<1>1. i \in 0..MaxRequests /\ reqHash[i] \in Flow \cup {NoCaller} /\ "given" \in Stages
      /\ "released" \in Stages /\ "releasing" \in Stages
  BY DEF FileTypeOK, Id, Stages
<1> DEFINE c == reqHash[i]
<1>2. CASE Released(i)
  <2>1. request' \in [Id -> [action : Actions, at : Stages]]
    BY <1>1, <1>2, StageStep DEF Released
  <2>2. awaits' \in [Flow -> SUBSET Id]
    BY <1>2 DEF Released, FileTypeOK
  <2> QED
    BY <1>2, <2>1, <2>2 DEF Released, FileTypeOK, fileVars, serverVars
<1>3. ASSUME Given(i)
      PROVE  request' \in [Id -> [action : Actions, at : Stages]] /\ UNCHANGED <<awaits, reqHash>>
  BY <1>1, <1>3, StageStep DEF Given
<1>4. ASSUME GiveBack(i)
      PROVE  request' \in [Id -> [action : Actions, at : Stages]]
             /\ reqHash' \in [Id -> Flow \cup {NoCaller}]
  BY <1>1, <1>4, StageStep DEF GiveBack, FileTypeOK
<1>5. CASE Answer(i)
  <2>1. UNCHANGED serverVars
    BY <1>5 DEF Answer
  <2>2. ASSUME Named(i, c)
        PROVE  FileTypeOK'
    <3>1. Release(c, {i}, "named") /\ UNCHANGED <<fileVars, past>> /\ "named" \in Waits
      BY <2>2 DEF Named, Waits
    <3>2. /\ request' \in [Id -> [action : Actions, at : Stages]]
          /\ reqHash' \in [Id -> Flow \cup {NoCaller}] /\ pc' \in [Flow -> Waits]
          /\ awaits' \in [Flow -> SUBSET Id]
      BY <1>1, <3>1, ReleaseStep
    <3> QED
      BY <2>1, <3>1, <3>2 DEF FileTypeOK, fileVars, serverVars
  <2>3. ASSUME NEW s \in Waits, Accessed(i, c, s)
        PROVE  FileTypeOK'
    BY <1>1, <1>3, <2>1, <2>3 DEF Accessed, FileTypeOK, serverVars
  <2>4. ASSUME NEW s \in Waits, Locked(i, c, s)
        PROVE  FileTypeOK'
    <3>1. lockQueue \in Seq(Id) /\ pc \in [Flow -> Waits]
      BY DEF FileTypeOK
    <3>2. lockQueue' = Append(lockQueue, i) /\ pc' = [pc EXCEPT ![c] = s]
      BY <2>4 DEF Locked
    <3>3. lockQueue' \in Seq(Id)
      <4> HIDE DEF c
      <4> QED
        BY <3>1, <3>2
    <3>4. pc' \in [Flow -> Waits]
      BY <2>4, <3>1, <3>2
    <3> QED
      BY <1>3, <2>1, <2>4, <3>3, <3>4 DEF Locked, FileTypeOK, serverVars
  <2>5. ASSUME Permitted(i, c)
        PROVE  FileTypeOK'
    <3>1. pc' \in [Flow -> Waits]
      BY <2>5 DEF Permitted, FileTypeOK, Waits
    <3> QED
      BY <1>3, <1>4, <2>1, <2>5, <3>1 DEF Permitted, FileTypeOK, serverVars, fileVars
  <2>6. {"ensureAccess", "tEnsureAccess", "ensureLock", "tEnsureLock"} \subseteq Waits
    BY DEF Waits
  <2> QED
    BY <1>5, <2>2, <2>3, <2>4, <2>5, <2>6 DEF Answer
<1> QED
  BY <1>2, <1>5 DEF Messages

Pasts == {"failed", "unlockedAll", "foreign", "overtaken", "reset"}

LEMMA UnlockType ==
  ASSUME FileTypeOK, NEW c \in Flow, NEW to \in Waits, Unlock(c, to),
         accessId' \in 0..MaxRequests, past' \subseteq Pasts
  PROVE  FileTypeOK'
<1>1. /\ lockQueue \in Seq(Id) /\ lockQueue # <<>> /\ lockQueue' = Front(lockQueue)
      /\ Release(c, {Last(lockQueue)}, to)
      /\ UNCHANGED <<inTransaction, enterTransaction, valid, transactionQueue, serverVars>>
  BY DEF Unlock, FileTypeOK
<1>2. lockQueue' \in Seq(Id) /\ {Last(lockQueue)} \in SUBSET Id
  BY <1>1, FrontOf
<1>3. /\ request' \in [Id -> [action : Actions, at : Stages]]
      /\ reqHash' \in [Id -> Flow \cup {NoCaller}] /\ pc' \in [Flow -> Waits]
      /\ awaits' \in [Flow -> SUBSET Id]
  BY <1>1, <1>2, ReleaseStep
<1> QED
  BY <1>1, <1>2, <1>3 DEF FileTypeOK, serverVars, Pasts

LEMMA EnterType ==
  ASSUME FileTypeOK, NEW c \in Flow, Enter(c), UNCHANGED transactionQueue, past' \subseteq Pasts
  PROVE  FileTypeOK'
<1>1. {"tAccess", "cb"} \subseteq Waits /\ "access" \in Actions
  BY DEF Waits, Actions
<1>2. CASE Ask(c, "access", "tAccess")
  <2>1. UNCHANGED <<awaits, serverVars>>
    BY <1>2 DEF Ask
  <2> QED
    BY <1>1, <1>2, <2>1, AskStep DEF Enter, FileTypeOK, serverVars, Pasts
<1>3. CASE Goto(c, "cb") /\ UNCHANGED serverVars
  BY <1>1, <1>3, GotoStep DEF Enter, FileTypeOK, serverVars, Pasts
<1> QED
  BY <1>2, <1>3 DEF Enter

LEMMA ResumeType ==
  ASSUME FileTypeOK, NEW c \in Flow, Resume(c)
  PROVE  FileTypeOK'
<1>1. {"idle", "tUnlocks", "tReleases", "tAccess"} \subseteq Waits /\ "access" \in Actions
      /\ 0 \in 0..MaxRequests /\ past \subseteq Pasts
  BY FileAssumption DEF Waits, Actions, FileTypeOK, Pasts
<1>2. ResetAccess => accessId' \in 0..MaxRequests /\ past' \subseteq Pasts
  BY <1>1 DEF ResetAccess, Pasts
<1>3. CASE Goto(c, "idle") /\ UNCHANGED <<fileVars, serverVars, past>>
  BY <1>1, <1>3, GotoStep DEF FileTypeOK, fileVars, serverVars
<1>4. CASE /\ Goto(c, "idle") /\ ResetAccess
           /\ UNCHANGED <<inTransaction, enterTransaction, valid, lockQueue, transactionQueue, serverVars>>
  BY <1>1, <1>2, <1>4, GotoStep DEF FileTypeOK, serverVars, Pasts
<1>5. CASE Unlock(c, "tUnlocks") /\ ResetAccess
  BY <1>1, <1>2, <1>5, UnlockType
<1>6. CASE Leave(c) /\ accessId' \in 0..MaxRequests /\ past' \subseteq Pasts
  <2>1. transactionQueue \in Seq(Caller) /\ pc \in [Flow -> Waits]
    BY DEF FileTypeOK
  <2>2. CASE transactionQueue = <<>>
    BY <1>1, <1>6, <2>1, <2>2, GotoStep DEF Leave, FileTypeOK, serverVars, Pasts
  <2>3. CASE transactionQueue # <<>>
    <3>1. Tail(transactionQueue) \in Seq(Caller) /\ "idle" \in Waits /\ "enter" \in Waits
      BY <2>1, <2>3 DEF Waits
    <3>2. pc' = [pc EXCEPT ![c] = "idle", ![Head(transactionQueue)] = "enter"]
          /\ transactionQueue' = Tail(transactionQueue) /\ UNCHANGED <<awaits, reqHash, request>>
      BY <1>6, <2>3 DEF Leave
    <3>3. pc' \in [Flow -> Waits]
      BY <2>1, <3>1, <3>2
    <3> QED
      BY <1>6, <3>1, <3>2, <3>3 DEF Leave, FileTypeOK, serverVars, Pasts
  <2> QED
    BY <2>2, <2>3
<1>7. CASE Leave(c) /\ (ResetAccess \/ UNCHANGED <<accessId, past>>)
  BY <1>1, <1>2, <1>6, <1>7 DEF FileTypeOK
<1>8. CASE Enter(c) /\ UNCHANGED <<transactionQueue, past>>
  BY <1>1, <1>8, EnterType
<1> QED
  BY <1>3, <1>4, <1>5, <1>7, <1>8 DEF Resume

LEMMA CallerType ==
  ASSUME FileTypeOK, NEW c \in Caller,
         CallerStep(c) \/ Call(c) \/ Throws(c) \/ UnlockAll(c) \/ Unlinked(c)
  PROVE  FileTypeOK'
<1>0. c \in Flow /\ Waits \ {} = Waits
  BY DEF Flow
<1>1. /\ {"lock", "access", "unlink"} \subseteq Actions
      /\ {"works", "locked", "cb", "tLock", "access", "tWorks", "lock", "queue", "tAccess", "unlink",
          "waitForUnlock", "idle", "unlocks", "stuck", "releases", "tReleases", "beside",
          "lockless"} \subseteq Waits
  BY DEF Actions, Waits
<1>2. ASSUME NEW action \in Actions, NEW s \in Waits, Ask(c, action, s),
             UNCHANGED <<accessId, valid, lockQueue, past>>,
             inTransaction' \in BOOLEAN, enterTransaction' \in BOOLEAN,
             transactionQueue' \in Seq(Caller)
      PROVE  FileTypeOK'
  <2>1. UNCHANGED <<awaits, serverVars>>
    BY <1>2 DEF Ask
  <2> QED
    BY <1>0, <1>2, <2>1, AskStep DEF FileTypeOK, serverVars
<1>3. ASSUME NEW s \in Waits, Goto(c, s), UNCHANGED <<accessId, valid, lockQueue, serverVars>>,
             inTransaction' \in BOOLEAN, enterTransaction' \in BOOLEAN,
             transactionQueue' \in Seq(Caller), past' \subseteq Pasts
      PROVE  FileTypeOK'
  BY <1>0, <1>3, GotoStep DEF FileTypeOK, serverVars, Pasts
<1>4. ASSUME NEW ids \in SUBSET Id, NEW s \in Waits, Release(c, ids, s),
             UNCHANGED <<enterTransaction, accessId, valid, lockQueue, transactionQueue, serverVars>>,
             inTransaction' \in BOOLEAN, past' \subseteq Pasts
      PROVE  FileTypeOK'
  BY <1>0, <1>4, ReleaseStep DEF FileTypeOK, serverVars, Pasts
<1>5. /\ {inTransaction, enterTransaction} \subseteq BOOLEAN /\ transactionQueue \in Seq(Caller)
      /\ lockQueue \in Seq(Id) /\ past \subseteq Pasts
      /\ {"failed", "unlockedAll", "foreign", "overtaken"} \subseteq Pasts
      /\ accessId # 0 => {accessId} \in SUBSET Id
      /\ {accessId} \ {0} \in SUBSET Id /\ Range(lockQueue) \in SUBSET Id
  <2>1. lockQueue \in Seq(Id)
    BY DEF FileTypeOK
  <2>2. Range(lockQueue) \in SUBSET Id
    BY <2>1 DEF Range
  <2> QED
    BY <2>1, <2>2 DEF FileTypeOK, Id, Pasts
<1>6. CASE Ensured(c)
  BY <1>1, <1>2, <1>3, <1>5, <1>6 DEF Ensured
<1>7. CASE Operated(c)
  BY <1>1, <1>3, <1>4, <1>5, <1>7 DEF Operated, GivesAccess, fileVars
<1>8. CASE UnlockOne(c)
  <2>1. accessId' \in 0..MaxRequests
    BY <1>8 DEF UnlockOne, FileTypeOK
  <2>2. CASE Unlock(c, "unlocks") /\ past' \subseteq Pasts
    BY <1>0, <1>1, <2>1, <2>2, UnlockType
  <2>3. CASE Goto(c, "idle") /\ UNCHANGED <<fileVars, serverVars, past>>
    BY <1>1, <1>3, <1>5, <2>3 DEF fileVars
  <2> QED
    BY <1>5, <1>8, <2>2, <2>3 DEF UnlockOne
<1>9. CASE EndTransaction(c)
  BY <1>1, <1>4, <1>5, <1>9 DEF EndTransaction
<1>10. CASE Operate(c)
  BY <1>1, <1>2, <1>3, <1>5, <1>10 DEF Operate, fileVars
<1>11. CASE Lock(c)
  BY <1>1, <1>2, <1>3, <1>5, <1>11 DEF Lock, fileVars
<1>12. CASE StartTransaction(c)
  <2>1. CASE Enter(c) /\ UNCHANGED transactionQueue /\ past' \subseteq Pasts
    BY <1>0, <2>1, EnterType
  <2>2. CASE /\ transactionQueue' = Append(transactionQueue, c) /\ Goto(c, "queue")
             /\ UNCHANGED <<inTransaction, enterTransaction, accessId, valid, lockQueue, serverVars, past>>
    BY <1>1, <1>3, <1>5, <2>2
  <2> QED
    BY <1>5, <1>12, <2>1, <2>2 DEF StartTransaction
<1>13. CASE Unlink(c)
  BY <1>1, <1>2, <1>5, <1>13 DEF Unlink, fileVars
<1>14. CASE Throws(c)
  BY <1>1, <1>3, <1>5, <1>14 DEF Throws, fileVars
<1>15. CASE UnlockAll(c)
  BY <1>1, <1>4, <1>5, <1>15 DEF UnlockAll, fileVars
<1>16. CASE Unlinked(c)
  <2>1. CASE /\ \E i \in Id : GiveBack(i)
             /\ pc' = [pc EXCEPT ![c] = "idle"] /\ valid' = FALSE /\ UNCHANGED <<awaits, past>>
    <3>1. PICK i \in Id : GiveBack(i)
      BY <2>1
    <3>2. /\ request' \in [Id -> [action : Actions, at : Stages]]
          /\ reqHash' \in [Id -> Flow \cup {NoCaller}]
      BY <3>1, StageStep DEF GiveBack, FileTypeOK, Stages
    <3>3. pc' \in [Flow -> Waits]
      BY <1>1, <2>1 DEF FileTypeOK
    <3> QED
      BY <1>16, <2>1, <3>2, <3>3 DEF Unlinked, FileTypeOK, serverVars
  <2>2. CASE Goto(c, "stuck") /\ past' = past \cup {"failed"} /\ UNCHANGED valid
    BY <1>1, <1>3, <1>5, <1>16, <2>2 DEF Unlinked
  <2> QED
    BY <1>16, <2>1, <2>2 DEF Unlinked
<1> QED
  BY <1>6, <1>7, <1>8, <1>9, <1>10, <1>11, <1>12, <1>13, <1>14, <1>15, <1>16 DEF CallerStep, Call

LEMMA FileTypeStep ==
  ASSUME FileTypeOK, [FileNext]_objectVars
  PROVE  FileTypeOK'
<1>1. CASE UNCHANGED objectVars
  BY <1>1 DEF objectVars, fileVars, serverVars, FileTypeOK
<1> QED
  BY <1>1, ServerType, MessageType, ResumeType, CallerType DEF FileNext

(* The object, its client and the server keep their types, whatever throws and *)
(* whenever the file is deleted.                                             *)
THEOREM FileTypeCorrect == FileSpec => []FileTypeOK
BY FileTypeInit, FileTypeStep, PTL DEF FileSpec

-----------------------------------------------------------------------------
(* The invariant of a calm object. *)

LEMMA CalmInit == FileInit => CalmInv
<1> SUFFICES ASSUME FileInit
             PROVE  CalmInv
  OBVIOUS
<1>1. /\ Maker \in Flow /\ Maker \notin Caller /\ 1 \in Id /\ Id \subseteq Nat \ {0}
      /\ Caller \subseteq Flow
  BY FileAssumption DEF Id, Flow
<1>2. /\ \A c \in Flow : pc[c] = (IF c = Maker THEN "naming" ELSE "idle") /\ awaits[c] = {}
      /\ \A c \in Caller : pc[c] = "idle"
  BY <1>1 DEF FileInit
<1>3. \A i \in Id : /\ reqHash[i] = (IF i = 1 THEN Maker ELSE NoCaller)
                    /\ request[i].action = (IF i = 1 THEN "lock" ELSE "none")
                    /\ request[i].at = (IF i = 1 THEN "asked" ELSE "none")
  BY DEF FileInit, Nothing
<1>4. /\ accessId = 0 /\ ~inTransaction /\ ~enterTransaction /\ lockQueue = <<>>
      /\ transactionQueue = <<>> /\ lockers = {} /\ accessors = {}
  BY DEF FileInit, Server!PermInit
<1>5. Kinds /\ Stations
  BY <1>1, <1>2, <1>3 DEF Kinds, Stations
<1>6. AskersWait /\ OneQuestion /\ GivenKept
  BY <1>1, <1>2, <1>3 DEF AskersWait, OneQuestion, GivenKept, Asked, Asks
<1>7. BackAwaited /\ AwaitsBack
  BY <1>2, <1>3 DEF BackAwaited, AwaitsBack, Back
<1>8. LocksGranted /\ AccessGranted
  BY <1>3, <1>4 DEF LocksGranted, AccessGranted, Has
<1>9. OneAccesses /\ AccessIsHis /\ IdIsSomebodys
  BY <1>2, <1>4 DEF OneAccesses, AccessIsHis, IdIsSomebodys, HasAccess, Accesses, Giving
<1>10. Transacts /\ Entered /\ OneEnters /\ Queued /\ LocksQueued
  BY <1>2, <1>4 DEF Transacts, Entered, OneEnters, Within, Queued, LocksQueued
<1>11. LocksCounted
  <2>1. LockHolders = {}
    BY <1>2 DEF LockHolders, Locks
  <2> QED
    BY <1>4, <2>1, FS_EmptySet DEF LocksCounted
<1> QED
  BY <1>5, <1>6, <1>7, <1>8, <1>9, <1>10, <1>11 DEF CalmInv

LEMMA Basics ==
  ASSUME FileTypeOK
  PROVE  /\ Caller \subseteq Flow /\ Maker \in Flow /\ Maker \notin Caller /\ NoCaller \notin Flow
         /\ Id \subseteq Nat /\ 0 \notin Id /\ (accessId # 0 => accessId \in Id)
         /\ \A k \in DOMAIN lockQueue : lockQueue[k] \in Id
         /\ \A k \in DOMAIN transactionQueue : transactionQueue[k] \in Caller
         /\ \A c \in Flow : awaits[c] \subseteq Id
         /\ \A i \in Id : reqHash[i] \in Flow \cup {NoCaller}
<1>1. /\ Caller \subseteq Flow /\ Maker \in Flow /\ Maker \notin Caller /\ NoCaller \notin Flow
      /\ Id \subseteq Nat /\ 0 \notin Id /\ (accessId # 0 => accessId \in Id)
  BY FileAssumption DEF FileTypeOK, Flow, Id
<1>2. /\ lockQueue \in Seq(Id) /\ transactionQueue \in Seq(Caller) /\ awaits \in [Flow -> SUBSET Id]
      /\ reqHash \in [Id -> Flow \cup {NoCaller}]
  BY DEF FileTypeOK
<1> QED
  BY <1>1, <1>2

(* The server or a message moves request i on, before or after it is given.    *)
Advances(i, s) ==
  \/ request[i].at = "asked" /\ s = "queued"
  \/ request[i].at = "asked" /\ s = "granted" /\ request[i].action = "lock"
  \/ request[i].at = "queued" /\ s = "granted" /\ request[i].action = "access"
  \/ request[i].at = "releasing" /\ s = "freed"
  \/ request[i].at = "freed" /\ s = "released"

LEMMA AdvanceKeeps ==
  ASSUME FileTypeOK, CalmInv, NEW i \in Id, NEW s \in Stages, Advances(i, s),
         request' = [request EXCEPT ![i].at = s], UNCHANGED <<pc, fileVars, reqHash>>,
         awaits' = IF s = "released" THEN [awaits EXCEPT ![reqHash[i]] = @ \ {i}] ELSE awaits,
         LocksGranted', AccessGranted'
  PROVE  CalmInv'
<1>1. /\ Caller \subseteq Flow /\ \A k \in DOMAIN lockQueue : lockQueue[k] \in Id
      /\ \A c \in Flow : awaits[c] \subseteq Id
  BY Basics
<1>2. \A j \in Id : /\ request'[j].action = request[j].action
                    /\ request'[j].at = IF j = i THEN s ELSE request[j].at
  BY StageStep
<1>3. /\ \A c \in Flow : /\ awaits'[c] \subseteq awaits[c]
                         /\ \A j \in awaits[c] : j \in awaits'[c] \/ (j = i /\ s = "released")
      /\ s = "released" /\ reqHash[i] \in Flow => i \notin awaits'[reqHash[i]]
  BY DEF FileTypeOK
<1>4. UNCHANGED <<pc, reqHash, inTransaction, enterTransaction, accessId, lockQueue, transactionQueue>>
  BY DEF fileVars
<1>5. Kinds' /\ Stations'
  BY <1>2, <1>4 DEF CalmInv, Kinds, Stations, Advances
<1>6. AskersWait' /\ OneQuestion'
  BY <1>2, <1>4 DEF CalmInv, AskersWait, OneQuestion, Asked, Advances, Kinds
<1>7. GivenKept'
  BY <1>2, <1>4 DEF CalmInv, GivenKept, Advances, Range
<1>8. BackAwaited'
  BY <1>2, <1>3, <1>4 DEF CalmInv, BackAwaited, Back, Advances
<1>9. AwaitsBack'
  BY <1>1, <1>2, <1>3, <1>4 DEF CalmInv, AwaitsBack, Back, Advances
<1>10. IdIsSomebodys' /\ Transacts' /\ Entered' /\ OneEnters' /\ Queued'
  BY <1>4 DEF CalmInv, IdIsSomebodys, Transacts, Entered, OneEnters, Queued
<1>11. OneAccesses' /\ AccessIsHis'
  <2>1. \A c \in Caller : c \in Flow /\ (HasAccess(c)' => HasAccess(c))
    BY <1>1, <1>3, <1>4 DEF HasAccess
  <2>2. OneAccesses'
    BY <2>1 DEF CalmInv, OneAccesses
  <2>3. ASSUME NEW c \in Caller, HasAccess(c)'
        PROVE  /\ accessId \in Id /\ request[accessId].action = "access"
               /\ request'[accessId].at \in (IF pc[c] \in Giving THEN {"releasing", "freed"}
                                             ELSE {"given"})
               /\ pc[c] \in Giving => accessId \in awaits'[c]
    <3>1. HasAccess(c) /\ c \in Flow
      BY <2>1, <2>3
    <3>2. /\ accessId \in Id /\ request[accessId].action = "access"
          /\ request[accessId].at \in (IF pc[c] \in Giving THEN {"releasing", "freed"}
                                       ELSE {"given"})
          /\ pc[c] \in Giving => accessId \in awaits[c]
      BY <3>1 DEF CalmInv, AccessIsHis
    <3>3. CASE pc[c] \notin Giving
      BY <1>2, <3>2, <3>3 DEF Advances
    <3>4. CASE pc[c] \in Giving
      <4>1. awaits'[c] # {}
        BY <1>4, <2>3, <3>4 DEF HasAccess, Accesses, Giving
      <4>2. \A j \in awaits[c] : j = accessId
        BY <3>1, <3>4 DEF CalmInv, AwaitsBack
      <4>3. accessId \in awaits'[c] /\ awaits'[c] \subseteq awaits[c]
        BY <1>3, <3>1, <4>1, <4>2
      <4>4. reqHash[accessId] = c /\ reqHash[accessId] \in Flow
        BY <3>1, <3>2, <3>4 DEF CalmInv, AwaitsBack
      <4>5. ~(accessId = i /\ s = "released")
        BY <1>3, <4>3, <4>4
      <4> QED
        BY <1>2, <3>2, <3>4, <4>3, <4>5 DEF Advances
    <3> QED
      BY <3>3, <3>4
  <2> QED
    BY <1>2, <1>4, <2>2, <2>3 DEF AccessIsHis
<1>12. LocksQueued'
  BY <1>1, <1>2, <1>4 DEF CalmInv, LocksQueued, Advances
<1>13. LocksCounted'
  BY <1>4 DEF CalmInv, LocksCounted, LockHolders
<1> QED
  BY <1>5, <1>6, <1>7, <1>8, <1>9, <1>10, <1>11, <1>12, <1>13 DEF CalmInv

LEMMA ServerCalm ==
  ASSUME FileTypeOK, CalmInv, Calm', NEW i \in Id, ServerNext(i)
  PROVE  CalmInv'
<1>1. \A s \in Stages : Handles(i, s) =>
        /\ request' = [request EXCEPT ![i].at = s]
        /\ UNCHANGED <<pc, awaits, fileVars, reqHash, accessId>>
        /\ \A j \in Id : /\ request'[j].action = request[j].action
                         /\ request'[j].at = IF j = i THEN s ELSE request[j].at
  BY StageStep DEF Handles, fileVars
<1>2. {"granted", "refused", "queued", "freed", "released"} \subseteq Stages /\ Other \notin Id
  BY DEF Stages, Id, Other
<1>3. CASE Arrive(i)
  <2>1. CASE request[i].action = "lock" /\ Server!GrantLock(i) /\ Handles(i, "granted")
    <3>1. lockers' = lockers \cup {i} /\ UNCHANGED accessors
      BY <2>1 DEF Server!GrantLock
    <3>2. LocksGranted' /\ AccessGranted'
      BY <1>1, <1>2, <1>3, <2>1, <3>1 DEF CalmInv, LocksGranted, AccessGranted, Has, Arrive
    <3> QED
      BY <1>1, <1>2, <1>3, <2>1, <3>2, AdvanceKeeps DEF Advances, Arrive
  <2>2. CASE UNCHANGED serverVars /\ Handles(i, "queued")
    <3>1. LocksGranted' /\ AccessGranted'
      BY <1>1, <1>2, <1>3, <2>2
         DEF CalmInv, LocksGranted, AccessGranted, Has, Arrive, serverVars
    <3> QED
      BY <1>1, <1>2, <1>3, <2>2, <3>1, AdvanceKeeps DEF Advances, Arrive
  <2>3. ~(doomed /\ UNCHANGED serverVars)
    BY DEF Calm, serverVars
  <2> QED
    BY <1>3, <2>1, <2>2, <2>3 DEF Arrive
<1>4. CASE Grant(i)
  <2>1. Handles(i, "granted") /\ request[i].action = "access" /\ Server!GrantAccess(i)
    BY <1>4 DEF Grant, Calm, Server!Unlink, Server!GrantUnlink
  <2>2. accessors = {} /\ accessors' = {i} /\ UNCHANGED lockers
    BY <2>1 DEF Server!GrantAccess
  <2>3. LocksGranted' /\ AccessGranted'
    BY <1>1, <1>2, <1>4, <2>1, <2>2 DEF CalmInv, LocksGranted, AccessGranted, Has, Grant
  <2> QED
    BY <1>1, <1>2, <1>4, <2>1, <2>3, AdvanceKeeps DEF Advances, Grant
<1>5. CASE HandleRelease(i)
  <2>1. LocksGranted' /\ AccessGranted'
    BY <1>1, <1>2, <1>5 DEF CalmInv, LocksGranted, AccessGranted, Has, HandleRelease
  <2> QED
    BY <1>1, <1>2, <1>5, <2>1, AdvanceKeeps DEF Advances, HandleRelease
<1> QED
  BY <1>3, <1>4, <1>5 DEF ServerNext

LEMMA ReleasedCalm ==
  ASSUME FileTypeOK, CalmInv, NEW i \in Id, Released(i)
  PROVE  CalmInv'
<1>1. reqHash[i] \in Flow /\ request[i].at = "freed" /\ "released" \in Stages
  BY DEF CalmInv, BackAwaited, Back, Released, Stages
<1>2. /\ request' = [request EXCEPT ![i].at = "released"]
      /\ awaits' = [awaits EXCEPT ![reqHash[i]] = @ \ {i}]
      /\ UNCHANGED <<pc, fileVars, reqHash, lockers, accessors>>
  BY <1>1, Basics DEF Released, serverVars
<1>3. LocksGranted' /\ AccessGranted'
  BY <1>1, <1>2, StageStep DEF CalmInv, LocksGranted, AccessGranted, Has
<1> QED
  BY <1>1, <1>2, <1>3, AdvanceKeeps DEF Advances

LEMMA OtherCalm ==
  ASSUME FileTypeOK, CalmInv, OtherProcess
  PROVE  CalmInv'
<1>1. UNCHANGED <<pc, awaits, fileVars, reqHash, request, lockers, inTransaction, enterTransaction,
                  accessId, lockQueue, transactionQueue>>
  BY DEF OtherProcess, Server!GrantAccess, Server!ReleaseAccess, fileVars
<1>2. AccessGranted'
  <2>1. Other \notin Id
    BY DEF Other, Id
  <2> QED
    BY <1>1, <2>1 DEF CalmInv, AccessGranted, Has, OtherProcess, Server!GrantAccess, Server!ReleaseAccess
<1> QED
  BY <1>1, <1>2 DEF CalmInv, Kinds, Stations, AskersWait, OneQuestion, GivenKept, BackAwaited,
     AwaitsBack, LocksGranted, OneAccesses, AccessIsHis, IdIsSomebodys, Transacts, Entered, OneEnters,
     Queued, LocksQueued, LocksCounted, LockHolders, Asked, Back, Has, HasAccess

-----------------------------------------------------------------------------
(* Answers. *)

(* Who is answered, and why the access is nobody's by then: an access that has *)
(* been released before is not even on its way any more.  Its id may still be  *)
(* there, if its caller has not gone on yet.                                  *)
LEMMA Answered ==
  ASSUME FileTypeOK, CalmInv, NEW i \in Id, Answer(i)
  PROVE  /\ request[i].at = "granted" /\ reqHash[i] \in Flow
         /\ pc[reqHash[i]] \in Asks(request[i].action)
         /\ request[i].action \in {"lock", "access"}
         /\ pc[reqHash[i]] # "naming" => reqHash[i] \in Caller
         /\ pc[reqHash[i]] = "naming" => reqHash[i] = Maker
<1>1. request[i].at = "granted" /\ request[i].action # "unlink" /\ request[i].action # "none"
  BY DEF CalmInv, Kinds, Answer
<1>2. request[i].action \in {"lock", "access"}
  BY <1>1 DEF FileTypeOK, Actions
<1>3. reqHash[i] \in Flow /\ pc[reqHash[i]] \in Asks(request[i].action)
  BY <1>1 DEF CalmInv, AskersWait, Asked
<1>4. /\ pc[reqHash[i]] # "naming" => reqHash[i] \in Caller
      /\ pc[reqHash[i]] = "naming" => reqHash[i] = Maker
  BY <1>2, <1>3 DEF CalmInv, Stations, Flow, Asks
<1> QED
  BY <1>1, <1>2, <1>3, <1>4

LEMMA AccessFree ==
  ASSUME FileTypeOK, CalmInv, NEW i \in Id, Answer(i), request[i].action = "access"
  PROVE  /\ \A d \in Caller : ~HasAccess(d)
         /\ \A j \in Id : request[j].action = "access" => request[j].at # "given"
<1>1. i \in accessors /\ request[i].at = "granted"
  BY Answered DEF CalmInv, AccessGranted, Has
<1>2. \A j \in Id : request[j].action = "access" => request[j].at \notin {"given", "releasing", "freed"}
  BY <1>1 DEF CalmInv, AccessGranted, Has, Answer
<1>3. ASSUME NEW d \in Caller, HasAccess(d)
      PROVE  FALSE
  BY <1>2, <1>3 DEF CalmInv, AccessIsHis
<1> QED
  BY <1>2, <1>3

LEMMA NamedCalm ==
  ASSUME FileTypeOK, CalmInv, NEW i \in Id, Answer(i), Named(i, reqHash[i]), pc[reqHash[i]] = "naming"
  PROVE  CalmInv'
<1>1. /\ request[i].at = "granted" /\ request[i].action = "lock" /\ reqHash[i] = Maker
      /\ Maker \in Flow /\ Maker \notin Caller /\ pc[Maker] = "naming"
  BY Answered, Basics DEF Asks
<1>2. /\ \A d \in Flow : /\ pc'[d] = IF d = Maker THEN "named" ELSE pc[d]
                         /\ awaits'[d] = IF d = Maker THEN {i} ELSE awaits[d]
      /\ \A j \in Id : /\ request'[j].action = request[j].action
                       /\ request'[j].at = IF j = i THEN "releasing" ELSE request[j].at
                       /\ reqHash'[j] = reqHash[j]
  <2>1. Release(Maker, {i}, "named") /\ "named" \in Waits /\ {i} \in SUBSET Id
        /\ Maker \in Flow \cup {NoCaller}
    BY <1>1 DEF Named, Waits
  <2>2. Releases(Maker, {i}, "named")
    BY <2>1, ReleaseStep
  <2> QED
    BY <1>1, <2>2 DEF Releases, Unreleased
<1>3. UNCHANGED <<inTransaction, enterTransaction, accessId, lockQueue, transactionQueue, lockers,
                  accessors>>
  BY DEF Named, Answer, fileVars, serverVars
<1>4. \A d \in Caller : d \in Flow /\ pc'[d] = pc[d] /\ awaits'[d] = awaits[d]
  BY <1>1, <1>2, Basics
<1>5. Kinds' /\ Stations'
  BY <1>1, <1>2, <1>4 DEF CalmInv, Kinds, Stations
<1>6. AskersWait' /\ OneQuestion'
  BY <1>1, <1>2 DEF CalmInv, AskersWait, OneQuestion, Asked, Asks
<1>7. GivenKept'
  BY <1>2, <1>3 DEF CalmInv, GivenKept, Range
<1>8. BackAwaited' /\ AwaitsBack'
  BY <1>1, <1>2, <1>3, Basics DEF CalmInv, BackAwaited, AwaitsBack, Back, Giving
<1>9. LocksGranted' /\ AccessGranted'
  BY <1>1, <1>2, <1>3 DEF CalmInv, LocksGranted, AccessGranted, Has
<1>10. OneAccesses' /\ IdIsSomebodys' /\ Transacts' /\ Entered' /\ OneEnters'
  BY <1>3, <1>4 DEF CalmInv, OneAccesses, HasAccess, IdIsSomebodys, Transacts, Entered, OneEnters
<1>11. AccessIsHis'
  BY <1>1, <1>2, <1>3, <1>4 DEF CalmInv, AccessIsHis, HasAccess, Back
<1>12. Queued'
  BY <1>3, <1>4, Basics DEF CalmInv, Queued
<1>13. LocksQueued'
  BY <1>1, <1>2, <1>3, Basics DEF CalmInv, LocksQueued
<1>14. LocksCounted'
  <2>1. LockHolders' = LockHolders
    BY <1>4 DEF LockHolders
  <2> QED
    BY <1>3, <2>1 DEF CalmInv, LocksCounted
<1> QED
  BY <1>5, <1>6, <1>7, <1>8, <1>9, <1>10, <1>11, <1>12, <1>13, <1>14 DEF CalmInv

LEMMA AccessedCalm ==
  ASSUME FileTypeOK, CalmInv, NEW i \in Id, Answer(i), NEW s, Accessed(i, reqHash[i], s),
         \/ pc[reqHash[i]] = "access" /\ s = "ensureAccess"
         \/ pc[reqHash[i]] = "tAccess" /\ s = "tEnsureAccess"
  PROVE  CalmInv'
<1> DEFINE c == reqHash[i]
<1>1. /\ request[i].at = "granted" /\ request[i].action = "access" /\ c \in Caller /\ c \in Flow
      /\ Caller \subseteq Flow /\ Maker \in Flow /\ c # Maker /\ s \in Waits /\ i # 0
      /\ \/ pc[c] = "access" /\ s = "ensureAccess"
         \/ pc[c] = "tAccess" /\ s = "tEnsureAccess"
  <2>1. /\ request[i].at = "granted" /\ c \in Caller /\ pc[c] \in Asks(request[i].action)
        /\ request[i].action \in {"lock", "access"}
    BY Answered
  <2>2. request[i].action = "access"
    BY <2>1 DEF Asks
  <2> QED
    BY <2>1, <2>2, Basics DEF Waits
<1>2. /\ \A d \in Caller : ~HasAccess(d)
      /\ \A j \in Id : request[j].action = "access" => request[j].at # "given"
  BY <1>1, AccessFree
<1> HIDE DEF c
<1>3. /\ \A d \in Flow : pc'[d] = IF d = c THEN s ELSE pc[d]
      /\ \A j \in Id : /\ request'[j].action = request[j].action
                       /\ request'[j].at = IF j = i THEN "given" ELSE request[j].at
      /\ UNCHANGED <<awaits, reqHash, inTransaction, enterTransaction, lockQueue, transactionQueue,
                     lockers, accessors>>
      /\ accessId' = i
  <2>1. request' = [request EXCEPT ![i].at = "given"] /\ pc' = [pc EXCEPT ![c] = s] /\ "given" \in Stages
    BY DEF c, Accessed, Given, Stages
  <2> QED
    BY <1>1, <2>1, StageStep DEF c, Accessed, Given, Answer, serverVars, FileTypeOK
<1>4. reqHash[i] = c
  BY DEF c
<1>5. Kinds' /\ Stations'
  BY <1>1, <1>3 DEF CalmInv, Kinds, Stations
<1>6. AskersWait' /\ OneQuestion'
  BY <1>1, <1>3, <1>4 DEF CalmInv, AskersWait, OneQuestion, Asked, Asks
<1>7. GivenKept'
  BY <1>1, <1>2, <1>3 DEF CalmInv, GivenKept, Range
<1>8. BackAwaited'
  BY <1>1, <1>3, Basics DEF CalmInv, BackAwaited, Back
<1>9. AwaitsBack'
  <2>1. \A d \in Flow : d \in Caller \/ d = Maker
    BY DEF Flow
  <2>2. ASSUME NEW d \in Flow, NEW j \in awaits[d]
        PROVE  j \in Id /\ d # c /\ pc[d] \notin Giving
    BY <1>1, <1>2, <2>1, <2>2, Basics DEF CalmInv, AwaitsBack, HasAccess, Stations, Giving
  <2> QED
    BY <1>1, <1>3, <2>2 DEF CalmInv, AwaitsBack, Back
<1>10. LocksGranted' /\ AccessGranted'
  BY <1>1, <1>3 DEF CalmInv, LocksGranted, AccessGranted, Has
<1>11. OneAccesses' /\ IdIsSomebodys' /\ AccessIsHis'
  <2>1. \A d \in Caller : d # c => ~HasAccess(d)'
    BY <1>1, <1>2, <1>3 DEF HasAccess
  <2>2. pc'[c] \in Accesses /\ pc'[c] \notin Giving
    BY <1>1, <1>3 DEF Accesses, Giving
  <2> QED
    BY <1>1, <1>3, <2>1, <2>2 DEF OneAccesses, IdIsSomebodys, AccessIsHis
<1>12. Transacts' /\ Entered' /\ OneEnters' /\ Queued'
  BY <1>1, <1>3, Basics DEF CalmInv, Transacts, Entered, OneEnters, Within, Queued
<1>13. LocksQueued'
  BY <1>1, <1>3, Basics DEF CalmInv, LocksQueued
<1>14. LocksCounted'
  <2>1. LockHolders' = LockHolders
    BY <1>1, <1>3 DEF LockHolders, Locks
  <2> QED
    BY <1>3, <2>1 DEF CalmInv, LocksCounted
<1> QED
  BY <1>5, <1>6, <1>7, <1>8, <1>9, <1>10, <1>11, <1>12, <1>13, <1>14 DEF CalmInv

LEMMA HoldersAreFinite == IsFiniteSet(LockHolders) /\ IsFiniteSet(LockHolders')
<1>1. LockHolders \subseteq Caller /\ LockHolders' \subseteq Caller
  BY DEF LockHolders
<1> QED
  BY <1>1, FileAssumption, FS_Subset

LEMMA LockedCalm ==
  ASSUME FileTypeOK, CalmInv, NEW i \in Id, Answer(i), NEW s, Locked(i, reqHash[i], s),
         \/ pc[reqHash[i]] = "lock" /\ s = "ensureLock"
         \/ pc[reqHash[i]] = "tLock" /\ s = "tEnsureLock"
  PROVE  CalmInv'
<1> DEFINE c == reqHash[i]
<1>1. /\ request[i].at = "granted" /\ request[i].action = "lock" /\ c \in Caller /\ c \in Flow
      /\ Caller \subseteq Flow /\ Maker \in Flow /\ c # Maker /\ s \in Waits /\ i # 0
      /\ \/ pc[c] = "lock" /\ s = "ensureLock"
         \/ pc[c] = "tLock" /\ s = "tEnsureLock"
  <2>1. /\ request[i].at = "granted" /\ c \in Caller /\ pc[c] \in Asks(request[i].action)
        /\ request[i].action \in {"lock", "access"}
    BY Answered
  <2>2. request[i].action = "lock"
    BY <2>1 DEF Asks
  <2> QED
    BY <2>1, <2>2, Basics DEF Waits
<1> HIDE DEF c
<1>3. /\ \A d \in Flow : pc'[d] = IF d = c THEN s ELSE pc[d]
      /\ \A j \in Id : /\ request'[j].action = request[j].action
                       /\ request'[j].at = IF j = i THEN "given" ELSE request[j].at
      /\ UNCHANGED <<awaits, reqHash, inTransaction, enterTransaction, accessId, transactionQueue,
                     lockers, accessors>>
  <2>1. request' = [request EXCEPT ![i].at = "given"] /\ pc' = [pc EXCEPT ![c] = s] /\ "given" \in Stages
    BY DEF c, Locked, Given, Stages
  <2> QED
    BY <1>1, <2>1, StageStep DEF c, Locked, Given, Answer, serverVars, FileTypeOK
<1>4. reqHash[i] = c
  BY DEF c
<1>5. /\ DOMAIN lockQueue = 1..Len(lockQueue) /\ Len(lockQueue) \in Nat
      /\ DOMAIN lockQueue' = 1..(Len(lockQueue) + 1) /\ Len(lockQueue') = Len(lockQueue) + 1
      /\ lockQueue'[Len(lockQueue) + 1] = i
      /\ \A k \in DOMAIN lockQueue : lockQueue'[k] = lockQueue[k] /\ lockQueue[k] # i
  <2>1. lockQueue \in Seq(Id) /\ lockQueue' = Append(lockQueue, i)
    BY DEF FileTypeOK, Locked
  <2>2. \A k \in DOMAIN lockQueue : lockQueue[k] # i
    BY <1>1 DEF CalmInv, LocksQueued
  <2> QED
    BY <2>1, <2>2
<1>6. Kinds' /\ Stations'
  BY <1>1, <1>3 DEF CalmInv, Kinds, Stations
<1>7. AskersWait' /\ OneQuestion'
  BY <1>1, <1>3, <1>4 DEF CalmInv, AskersWait, OneQuestion, Asked, Asks
<1>8. GivenKept'
  <2>1. i \in Range(lockQueue') /\ Range(lockQueue) \subseteq Range(lockQueue')
    BY <1>5 DEF Range
  <2> QED
    BY <1>1, <1>3, <2>1 DEF CalmInv, GivenKept
<1>9. BackAwaited' /\ AwaitsBack'
  BY <1>1, <1>3, Basics DEF CalmInv, BackAwaited, AwaitsBack, Back, Giving
<1>10. LocksGranted' /\ AccessGranted'
  BY <1>1, <1>3 DEF CalmInv, LocksGranted, AccessGranted, Has
<1>11. OneAccesses'
  BY <1>1, <1>3 DEF CalmInv, OneAccesses, HasAccess, Accesses, Giving
<1>12. IdIsSomebodys'
  BY <1>1, <1>3 DEF CalmInv, IdIsSomebodys, Accesses, Giving
<1>13. AccessIsHis'
  BY <1>1, <1>3 DEF CalmInv, AccessIsHis, HasAccess, Accesses, Giving, Back
<1>14. Transacts' /\ Entered' /\ OneEnters'
  BY <1>1, <1>3 DEF CalmInv, Transacts, Entered, OneEnters, Within
<1>15. Queued'
  BY <1>1, <1>3, Basics DEF CalmInv, Queued
<1>16. LocksQueued'
  BY <1>1, <1>3, <1>5, Basics DEF CalmInv, LocksQueued
<1>17. LocksCounted'
  <2>1. c \notin LockHolders /\ LockHolders' = LockHolders \cup {c}
    BY <1>1, <1>3 DEF LockHolders, Locks
  <2>2. Cardinality(LockHolders') = Cardinality(LockHolders) + 1
    BY <2>1, HoldersAreFinite, FS_AddElement
  <2> QED
    BY <1>5, <2>2 DEF CalmInv, LocksCounted
<1> QED
  BY <1>6, <1>7, <1>8, <1>9, <1>10, <1>11, <1>12, <1>13, <1>14, <1>15, <1>16, <1>17 DEF CalmInv

LEMMA AnswerCalm ==
  ASSUME FileTypeOK, CalmInv, NEW i \in Id, Answer(i)
  PROVE  CalmInv'
<1> DEFINE c == reqHash[i]
<1>1. pc[c] \in {"naming", "lock", "tLock", "access", "tAccess"}
  BY Answered DEF Asks
<1>2. CASE pc[c] = "naming"
  BY <1>2, NamedCalm DEF Answer
<1>3. CASE pc[c] = "access"
  BY <1>3, AccessedCalm DEF Answer
<1>4. CASE pc[c] = "tAccess"
  BY <1>4, AccessedCalm DEF Answer
<1>5. CASE pc[c] = "lock"
  BY <1>5, LockedCalm DEF Answer
<1>6. CASE pc[c] = "tLock"
  BY <1>6, LockedCalm DEF Answer
<1> QED
  BY <1>1, <1>2, <1>3, <1>4, <1>5, <1>6

-----------------------------------------------------------------------------
(* Callers. *)

(* Who starts to await an answer awaits no other. *)
LEMMA AskCalm ==
  ASSUME FileTypeOK, CalmInv, Entered', OneEnters', NEW c \in Caller,
         NEW action \in {"lock", "access", "unlink"}, NEW s \in Asks(action) \ {"naming"},
         Ask(c, action, s),
         \/ pc[c] \in {"idle", "enter"} /\ s # "tLock"
         \/ pc[c] = "tEnsureAccess" /\ s = "tLock",
         UNCHANGED <<inTransaction, accessId, lockQueue, transactionQueue>>
  PROVE  CalmInv'
<1>1. /\ c \in Flow /\ Caller \subseteq Flow /\ Maker \in Flow /\ c # Maker
      /\ s \in {"lock", "tLock", "access", "tAccess", "unlink", "waitForUnlock"}
  BY Basics DEF Asks
<1>2. PICK i \in Id :
        /\ request[i].at = "none"
        /\ \A j \in Id :
             /\ request'[j].action = IF j = i THEN action ELSE request[j].action
             /\ request'[j].at = IF j = i THEN "asked" ELSE request[j].at
             /\ reqHash'[j] = IF j = i THEN c ELSE reqHash[j]
  <2>1. action \in Actions /\ s \in Waits
    BY <1>1 DEF Actions, Waits
  <2> QED
    BY <1>1, <2>1, AskStep
<1>3. /\ \A d \in Flow : pc'[d] = IF d = c THEN s ELSE pc[d]
      /\ UNCHANGED <<awaits, lockers, accessors>>
  BY <1>1 DEF FileTypeOK, Ask, serverVars
<1>4. /\ \A j \in Id : Asked(j) => reqHash[j] # c
      /\ awaits[c] = {}
  BY <1>1 DEF CalmInv, AskersWait, AwaitsBack, Giving, Asks
<1>5. Kinds' /\ Stations'
  BY <1>1, <1>2, <1>3 DEF CalmInv, Kinds, Stations
<1>6. AskersWait' /\ OneQuestion'
  BY <1>1, <1>2, <1>3, <1>4 DEF CalmInv, AskersWait, OneQuestion, Asked
<1>7. GivenKept'
  BY <1>2, <1>3 DEF CalmInv, GivenKept, Range
<1>8. BackAwaited' /\ AwaitsBack'
  BY <1>1, <1>2, <1>3, <1>4, Basics DEF CalmInv, BackAwaited, AwaitsBack, Back
<1>9. LocksGranted' /\ AccessGranted'
  BY <1>2, <1>3 DEF CalmInv, LocksGranted, AccessGranted, Has
<1>10. OneAccesses'
  BY <1>1, <1>3 DEF CalmInv, OneAccesses, HasAccess, Accesses, Giving
<1>11. IdIsSomebodys'
  BY <1>1, <1>3 DEF CalmInv, IdIsSomebodys, Accesses, Giving
<1>12. AccessIsHis'
  BY <1>1, <1>2, <1>3 DEF CalmInv, AccessIsHis, HasAccess, Accesses, Giving, Back
<1>13. Transacts'
  BY <1>1, <1>3 DEF CalmInv, Transacts
<1>14. Queued'
  BY <1>1, <1>3, Basics DEF CalmInv, Queued
<1>15. LocksQueued'
  BY <1>2, <1>3, Basics DEF CalmInv, LocksQueued
<1>16. LocksCounted'
  <2>1. LockHolders' = LockHolders
    BY <1>1, <1>3 DEF LockHolders, Locks
  <2> QED
    BY <2>1 DEF CalmInv, LocksCounted
<1> QED
  BY <1>5, <1>6, <1>7, <1>8, <1>9, <1>10, <1>11, <1>12, <1>13, <1>14, <1>15, <1>16 DEF CalmInv

(* The steps that ask for nothing and give nothing back. *)
Moves == {<<"named", "idle">>, <<"unlocks", "idle">>, <<"ensureAccess", "works">>,
          <<"ensureLock", "locked">>, <<"tEnsureLock", "cb">>, <<"cb", "tWorks">>,
          <<"tWorks", "cb">>, <<"idle", "queue">>, <<"idle", "beside">>, <<"beside", "idle">>,
          <<"idle", "lockless">>, <<"lockless", "idle">>}

LEMMA MoveCalm ==
  ASSUME FileTypeOK, CalmInv, Transacts', Entered', OneEnters', Queued', NEW c \in Flow, NEW s,
         <<pc[c], s>> \in Moves, c = Maker => s = "idle", awaits[c] = {}, Goto(c, s),
         UNCHANGED <<accessId, lockQueue, lockers, accessors>>
  PROVE  CalmInv'
<1>1. /\ Caller \subseteq Flow /\ Maker \in Flow /\ Maker \notin Caller
      /\ <<pc[c], s>> \in Moves /\ s \in Waits
  BY Basics DEF Moves, Waits
<1>2. /\ \A d \in Flow : pc'[d] = IF d = c THEN s ELSE pc[d]
      /\ UNCHANGED <<awaits, reqHash, request>>
  BY <1>1, GotoStep
<1>4. Kinds' /\ GivenKept' /\ LocksGranted' /\ AccessGranted' /\ LocksQueued'
  BY <1>2 DEF CalmInv, Kinds, GivenKept, LocksGranted, AccessGranted, LocksQueued, Has
<1>5. AskersWait' /\ OneQuestion'
  BY <1>1, <1>2 DEF CalmInv, AskersWait, OneQuestion, Asked, Asks, Moves
<1>6. BackAwaited' /\ AwaitsBack'
  BY <1>1, <1>2 DEF CalmInv, BackAwaited, AwaitsBack, Back
<1>7. OneAccesses'
  BY <1>1, <1>2 DEF CalmInv, OneAccesses, HasAccess, Accesses, Giving, Moves
<1>8. IdIsSomebodys'
  BY <1>1, <1>2 DEF CalmInv, IdIsSomebodys, Accesses, Giving, Moves
<1>9. AccessIsHis'
  BY <1>1, <1>2 DEF CalmInv, AccessIsHis, HasAccess, Accesses, Giving, Back, Moves
<1>10. LocksCounted'
  <2>1. LockHolders' = LockHolders
    BY <1>1, <1>2 DEF LockHolders, Locks, Moves
  <2> QED
    BY <2>1 DEF CalmInv, LocksCounted
<1>11. Stations'
  BY <1>1, <1>2 DEF CalmInv, Stations, Moves
<1> QED
  BY <1>4, <1>5, <1>6, <1>7, <1>8, <1>9, <1>10, <1>11 DEF CalmInv

(* The access is given back. *)
LEMMA GiveAccessCalm ==
  ASSUME FileTypeOK, CalmInv, ~inTransaction', NEW c \in Caller, NEW s,
         \/ pc[c] = "works" /\ s = "releases"
         \/ pc[c] = "cb" /\ s = "tReleases",
         Release(c, {accessId}, s),
         UNCHANGED <<enterTransaction, accessId, lockQueue, transactionQueue, lockers, accessors>>
  PROVE  CalmInv'
<1>1. /\ c \in Flow /\ Caller \subseteq Flow /\ Maker \in Flow /\ c # Maker /\ s \in Waits
      /\ \/ pc[c] = "works" /\ s = "releases"
         \/ pc[c] = "cb" /\ s = "tReleases"
  BY Basics DEF Waits
<1>2. /\ accessId \in Id /\ request[accessId].action = "access"
      /\ request[accessId].at = "given"
  BY <1>1 DEF CalmInv, AccessIsHis, HasAccess, Accesses, Giving
<1>3. /\ \A d \in Flow : /\ pc'[d] = IF d = c THEN s ELSE pc[d]
                         /\ awaits'[d] = IF d = c THEN {accessId} ELSE awaits[d]
      /\ \A j \in Id : /\ request'[j].action = request[j].action
                       /\ request'[j].at = IF j = accessId THEN "releasing" ELSE request[j].at
                       /\ reqHash'[j] = IF j = accessId THEN c ELSE reqHash[j]
  <2>1. {accessId} \in SUBSET Id /\ c \in Flow \cup {NoCaller}
    BY <1>1, <1>2
  <2>2. Releases(c, {accessId}, s)
    BY <1>1, <2>1, ReleaseStep
  <2> QED
    BY <1>2, <2>2 DEF Releases, Unreleased
<1>4. \A j \in Id : Back(j) => reqHash[j] # c
  BY <1>1 DEF CalmInv, BackAwaited, AwaitsBack, Giving
<1>5. Kinds' /\ Stations'
  BY <1>1, <1>2, <1>3 DEF CalmInv, Kinds, Stations
<1>6. AskersWait' /\ OneQuestion'
  BY <1>1, <1>2, <1>3 DEF CalmInv, AskersWait, OneQuestion, Asked, Asks
<1>7. GivenKept'
  BY <1>2, <1>3 DEF CalmInv, GivenKept, Range
<1>8. BackAwaited' /\ AwaitsBack'
  BY <1>1, <1>2, <1>3, <1>4, Basics DEF CalmInv, BackAwaited, AwaitsBack, Back, Giving
<1>9. LocksGranted' /\ AccessGranted'
  BY <1>2, <1>3 DEF CalmInv, LocksGranted, AccessGranted, Has
<1>10. OneAccesses'
  BY <1>1, <1>3 DEF CalmInv, OneAccesses, HasAccess, Accesses, Giving
<1>11. AccessIsHis'
  BY <1>1, <1>2, <1>3, <1>10 DEF AccessIsHis, OneAccesses, HasAccess, Accesses, Giving, Back
<1>12. IdIsSomebodys' /\ Transacts'
  BY <1>1, <1>3 DEF CalmInv, IdIsSomebodys, Transacts, Accesses, Giving
<1>13. Entered' /\ OneEnters'
  BY <1>1, <1>3 DEF CalmInv, Entered, OneEnters, Within
<1>14. Queued'
  BY <1>1, <1>3, Basics DEF CalmInv, Queued
<1>15. LocksQueued'
  BY <1>2, <1>3, Basics DEF CalmInv, LocksQueued
<1>16. LocksCounted'
  <2>1. LockHolders' = LockHolders
    BY <1>1, <1>3 DEF LockHolders, Locks
  <2> QED
    BY <2>1 DEF CalmInv, LocksCounted
<1> QED
  BY <1>5, <1>6, <1>7, <1>8, <1>9, <1>10, <1>11, <1>12, <1>13, <1>14, <1>15, <1>16 DEF CalmInv

(* When the id is an old one nobody has the access. *)
OldId == accessId = 0 \/ request[accessId].at = "released"

LEMMA NobodyHasAccess ==
  ASSUME FileTypeOK, CalmInv, OldId
  PROVE  /\ \A d \in Caller : ~HasAccess(d)
         /\ \A j \in Id : request[j].action = "access" => request[j].at # "given"
         /\ \A d \in Flow : pc[d] \in Giving => awaits[d] = {}
<1>1. 0 \notin Id
  BY Basics
<1>2. \A d \in Caller : ~HasAccess(d)
  BY <1>1 DEF CalmInv, AccessIsHis, OldId
<1>3. \A j \in Id : request[j].action = "access" => request[j].at # "given"
  BY <1>1 DEF CalmInv, GivenKept, OldId
<1>4. \A d \in Flow : pc[d] \in Giving => d \in Caller
  BY DEF CalmInv, Stations, Flow, Giving
<1> QED
  BY <1>2, <1>3, <1>4 DEF HasAccess

(* A lock is given back: with that a transaction has none, and no access. *)
LEMMA UnlockCalm ==
  ASSUME FileTypeOK, CalmInv, NEW c \in Caller, awaits[c] = {},
         \/ pc[c] = "locked" /\ Unlock(c, "unlocks") /\ UNCHANGED accessId
         \/ pc[c] = "tReleases" /\ Unlock(c, "tUnlocks") /\ accessId' = 0 /\ OldId
  PROVE  CalmInv'
<1>1. PICK from \in {"locked", "tReleases"}, to \in {"unlocks", "tUnlocks"} :
        /\ Unlock(c, to) /\ pc[c] = from
        /\ \/ from = "locked" /\ to = "unlocks" /\ UNCHANGED accessId
           \/ from = "tReleases" /\ to = "tUnlocks" /\ accessId' = 0 /\ OldId
  OBVIOUS
<1>2. /\ c \in Flow /\ Caller \subseteq Flow /\ Maker \in Flow /\ c # Maker /\ to \in Waits
      /\ pc[c] = from /\ \/ from = "locked" /\ to = "unlocks" /\ UNCHANGED accessId
                         \/ from = "tReleases" /\ to = "tUnlocks" /\ accessId' = 0
  BY <1>1, Basics DEF Waits
<1> DEFINE n == Len(lockQueue)
           l == lockQueue[n]
<1>3. /\ n \in Nat \ {0} /\ DOMAIN lockQueue = 1..n /\ l \in Id /\ Last(lockQueue) = l
      /\ Len(lockQueue') = n - 1 /\ DOMAIN lockQueue' = 1..(n - 1)
      /\ \A k \in 1..(n - 1) : lockQueue'[k] = lockQueue[k]
  <2>1. lockQueue \in Seq(Id) /\ lockQueue # <<>> /\ lockQueue' = Front(lockQueue)
    BY <1>1 DEF FileTypeOK, Unlock
  <2> QED
    BY <2>1, FrontOf
<1> HIDE DEF n, l
<1>4. /\ request[l].action = "lock" /\ request[l].at = "given"
      /\ \A k \in 1..(n - 1) : lockQueue[k] # l
  <2>1. n \in DOMAIN lockQueue /\ l = lockQueue[n]
    BY <1>3 DEF l
  <2> QED
    BY <1>3, <2>1 DEF CalmInv, LocksQueued
<1>5. /\ \A d \in Flow : /\ pc'[d] = IF d = c THEN to ELSE pc[d]
                         /\ awaits'[d] = IF d = c THEN {l} ELSE awaits[d]
      /\ \A j \in Id : /\ request'[j].action = request[j].action
                       /\ request'[j].at = IF j = l THEN "releasing" ELSE request[j].at
                       /\ reqHash'[j] = IF j = l THEN c ELSE reqHash[j]
  <2>1. {l} \in SUBSET Id /\ c \in Flow \cup {NoCaller} /\ Release(c, {l}, to)
    BY <1>1, <1>2, <1>3 DEF Unlock
  <2>2. Releases(c, {l}, to)
    BY <1>2, <2>1, ReleaseStep
  <2> QED
    BY <1>3, <1>4, <2>2 DEF Releases, Unreleased
<1>6. /\ ~inTransaction
      /\ UNCHANGED <<inTransaction, enterTransaction, transactionQueue, lockers, accessors>>
  BY <1>1 DEF Unlock, serverVars
<1>7. \A j \in Id : Back(j) => reqHash[j] # c
  BY DEF CalmInv, BackAwaited
<1>8. from = "tReleases" =>
        /\ \A d \in Caller : ~HasAccess(d)
        /\ \A j \in Id : request[j].action = "access" => request[j].at # "given"
        /\ \A d \in Flow : pc[d] \in Giving => awaits[d] = {}
  BY <1>1, NobodyHasAccess
<1>9. Kinds' /\ Stations'
  BY <1>2, <1>4, <1>5 DEF CalmInv, Kinds, Stations
<1>10. AskersWait' /\ OneQuestion'
  BY <1>2, <1>4, <1>5 DEF CalmInv, AskersWait, OneQuestion, Asked, Asks
<1>11. GivenKept'
  <2>1. ASSUME NEW j \in Id, j # l, j \in Range(lockQueue)
        PROVE  j \in Range(lockQueue')
    <3>1. PICK k \in 1..n : j = lockQueue[k]
      BY <1>3, <2>1 DEF Range
    <3>2. k \in 1..(n - 1)
      BY <1>3, <2>1, <3>1 DEF l
    <3> QED
      BY <1>3, <3>1, <3>2 DEF Range
  <2> QED
    BY <1>2, <1>3, <1>4, <1>5, <1>8, <2>1 DEF CalmInv, GivenKept
<1>12. BackAwaited'
  BY <1>2, <1>3, <1>5, <1>7, Basics DEF CalmInv, BackAwaited, Back
<1>13. AwaitsBack'
  <2>1. \A d \in Flow : pc[d] \in Giving /\ d # c => UNCHANGED accessId \/ awaits[d] = {}
    BY <1>2, <1>8
  <2> QED
    BY <1>2, <1>3, <1>4, <1>5, <1>7, <2>1, Basics DEF CalmInv, AwaitsBack, Back, Giving
<1>14. LocksGranted' /\ AccessGranted'
  BY <1>3, <1>4, <1>5, <1>6 DEF CalmInv, LocksGranted, AccessGranted, Has
<1>15. \A d \in Caller : HasAccess(d)' => /\ d # c /\ HasAccess(d) /\ UNCHANGED accessId
                                           /\ pc'[d] = pc[d] /\ awaits'[d] = awaits[d]
  BY <1>2, <1>5, <1>8 DEF HasAccess, Accesses, Giving
<1>16. OneAccesses' /\ AccessIsHis'
  <2>1. OneAccesses'
    BY <1>15 DEF CalmInv, OneAccesses
  <2> QED
    BY <1>4, <1>5, <1>15, <2>1 DEF CalmInv, AccessIsHis
<1>17. IdIsSomebodys' /\ Transacts' /\ Entered' /\ OneEnters'
  BY <1>2, <1>5, <1>6
     DEF CalmInv, IdIsSomebodys, Transacts, Entered, OneEnters, Accesses, Giving, Within
<1>18. Queued'
  BY <1>2, <1>5, <1>6, Basics DEF CalmInv, Queued
<1>19. LocksQueued'
  BY <1>3, <1>4, <1>5, Basics DEF CalmInv, LocksQueued
<1>20. LocksCounted'
  <2>1. c \in LockHolders /\ LockHolders' = LockHolders \ {c}
    BY <1>2, <1>5 DEF LockHolders, Locks
  <2>2. Cardinality(LockHolders') = Cardinality(LockHolders) - 1
    BY <2>1, HoldersAreFinite, FS_RemoveElement
  <2> QED
    BY <1>3, <2>2 DEF CalmInv, LocksCounted, n
<1> QED
  BY <1>9, <1>10, <1>11, <1>12, <1>13, <1>14, <1>15, <1>16, <1>17, <1>18, <1>19, <1>20 DEF CalmInv

(* An access has come back. *)
LEMMA BackCalm ==
  ASSUME FileTypeOK, CalmInv, NEW c \in Caller, pc[c] = "releases", awaits[c] = {}, Goto(c, "idle"),
         accessId' = 0, OldId,
         UNCHANGED <<inTransaction, enterTransaction, lockQueue, transactionQueue, lockers,
                     accessors>>
  PROVE  CalmInv'
<1>1. /\ c \in Flow /\ Caller \subseteq Flow /\ Maker \in Flow /\ c # Maker /\ "idle" \in Waits
  BY Basics DEF Waits
<1>2. /\ \A d \in Flow : pc'[d] = IF d = c THEN "idle" ELSE pc[d]
      /\ UNCHANGED <<awaits, reqHash, request>>
  BY <1>1, GotoStep
<1>3. /\ \A d \in Caller : ~HasAccess(d)
      /\ \A j \in Id : request[j].action = "access" => request[j].at # "given"
      /\ \A d \in Flow : pc[d] \in Giving => awaits[d] = {}
  BY NobodyHasAccess
<1>4. \A d \in Flow : pc'[d] \in Giving => awaits'[d] = {}
  BY <1>2, <1>3 DEF Giving
<1>5. \A d \in Caller : ~HasAccess(d)'
  BY <1>1, <1>2, <1>3 DEF HasAccess, Accesses, Giving
<1>6. Kinds' /\ LocksGranted' /\ AccessGranted' /\ LocksQueued'
  BY <1>2 DEF CalmInv, Kinds, LocksGranted, AccessGranted, LocksQueued, Has
<1>7. Stations' /\ AskersWait' /\ OneQuestion'
  BY <1>1, <1>2 DEF CalmInv, Stations, AskersWait, OneQuestion, Asked, Asks
<1>8. GivenKept'
  BY <1>2, <1>3 DEF CalmInv, GivenKept
<1>9. BackAwaited'
  BY <1>2 DEF CalmInv, BackAwaited, Back
<1>10. AwaitsBack'
  BY <1>1, <1>2, <1>4 DEF CalmInv, AwaitsBack, Back, Giving
<1>11. OneAccesses' /\ AccessIsHis' /\ IdIsSomebodys'
  BY <1>5 DEF OneAccesses, AccessIsHis, IdIsSomebodys
<1>12. Transacts' /\ Entered' /\ OneEnters'
  BY <1>1, <1>2 DEF CalmInv, Transacts, Entered, OneEnters, Within
<1>13. Queued'
  BY <1>1, <1>2, Basics DEF CalmInv, Queued
<1>14. LocksCounted'
  <2>1. LockHolders' = LockHolders
    BY <1>1, <1>2 DEF LockHolders, Locks
  <2> QED
    BY <2>1 DEF CalmInv, LocksCounted
<1> QED
  BY <1>6, <1>7, <1>8, <1>9, <1>10, <1>11, <1>12, <1>13, <1>14 DEF CalmInv

(* A transaction is over, and the next one that waits goes on. *)
LEMMA LeaveCalm ==
  ASSUME FileTypeOK, CalmInv, NEW c \in Caller, pc[c] = "tUnlocks", awaits[c] = {}, Leave(c),
         UNCHANGED accessId
  PROVE  CalmInv'
<1>1. /\ c \in Flow /\ Caller \subseteq Flow /\ Maker \in Flow /\ c # Maker
      /\ UNCHANGED <<awaits, reqHash, request, inTransaction, accessId, lockQueue, lockers, accessors>>
      /\ enterTransaction' = FALSE
  BY Basics DEF Leave, Goto, serverVars
<1>2. PICK next \in Caller \cup {NoCaller} :
        /\ next \in Caller => pc[next] = "queue"
        /\ pc' = [d \in Flow |-> IF d = c THEN "idle" ELSE IF d = next THEN "enter" ELSE pc[d]]
        /\ Queued'
  <2>1. CASE transactionQueue = <<>>
    <3>1. pc' = [pc EXCEPT ![c] = "idle"] /\ UNCHANGED transactionQueue
      BY <2>1 DEF Leave, Goto
    <3>2. pc' = [d \in Flow |-> IF d = c THEN "idle" ELSE IF d = NoCaller THEN "enter" ELSE pc[d]]
      BY <3>1, Basics DEF FileTypeOK
    <3>3. Queued'
      BY <2>1, <3>1 DEF Queued
    <3> QED
      BY <3>2, <3>3, Basics
  <2>2. CASE transactionQueue # <<>>
    <3> DEFINE h == Head(transactionQueue)
    <3>1. /\ pc' = [pc EXCEPT ![c] = "idle", ![h] = "enter"]
          /\ transactionQueue' = Tail(transactionQueue)
      BY <2>2 DEF Leave
    <3>2. /\ h = transactionQueue[1] /\ 1 \in DOMAIN transactionQueue
          /\ DOMAIN transactionQueue = 1..Len(transactionQueue) /\ Len(transactionQueue) \in Nat
          /\ DOMAIN transactionQueue' = 1..(Len(transactionQueue) - 1)
          /\ \A k \in DOMAIN transactionQueue' : transactionQueue'[k] = transactionQueue[k + 1]
      BY <2>2, <3>1 DEF FileTypeOK
    <3>3. h \in Caller /\ pc[h] = "queue" /\ h # c
      BY <3>2, Basics DEF CalmInv, Queued
    <3>4. pc' = [d \in Flow |-> IF d = c THEN "idle" ELSE IF d = h THEN "enter" ELSE pc[d]]
      <4> HIDE DEF h
      <4> QED
        BY <1>1, <3>1, <3>3 DEF FileTypeOK
    <3>5. \A k \in DOMAIN transactionQueue' :
            k + 1 \in DOMAIN transactionQueue /\ transactionQueue'[k] # h
      <4>1. \A k \in DOMAIN transactionQueue' : k + 1 \in DOMAIN transactionQueue /\ k + 1 # 1
        BY <3>2
      <4> QED
        BY <3>2, <4>1 DEF CalmInv, Queued
    <3>6. Queued'
      <4>1. \A k \in DOMAIN transactionQueue' :
              transactionQueue'[k] \in Caller /\ pc[transactionQueue'[k]] = "queue"
        BY <3>2, <3>5, Basics DEF CalmInv, Queued
      <4>2. \A k \in DOMAIN transactionQueue' : pc'[transactionQueue'[k]] = "queue"
        <5> HIDE DEF h
        <5> QED
          BY <1>1, <3>4, <3>5, <4>1
      <4>3. \A j, k \in DOMAIN transactionQueue' :
              transactionQueue'[j] = transactionQueue'[k] => j = k
        <5> SUFFICES ASSUME NEW j \in DOMAIN transactionQueue', NEW k \in DOMAIN transactionQueue',
                            transactionQueue'[j] = transactionQueue'[k]
                     PROVE  j = k
          OBVIOUS
        <5>1. j + 1 = k + 1
          BY <3>2, <3>5 DEF CalmInv, Queued
        <5> QED
          BY <3>2, <5>1
      <4> QED
        BY <4>2, <4>3 DEF Queued
    <3> QED
      BY <3>3, <3>4, <3>6
  <2> QED
    BY <2>1, <2>2
<1>3. \A d \in Flow : \/ d = c /\ pc[d] = "tUnlocks" /\ pc'[d] = "idle"
                      \/ d \in Caller /\ pc[d] = "queue" /\ pc'[d] = "enter"
                      \/ pc'[d] = pc[d]
  <2> SUFFICES ASSUME NEW d \in Flow
               PROVE  \/ d = c /\ pc[d] = "tUnlocks" /\ pc'[d] = "idle"
                      \/ d \in Caller /\ pc[d] = "queue" /\ pc'[d] = "enter"
                      \/ pc'[d] = pc[d]
    OBVIOUS
  <2>1. pc'[d] = IF d = c THEN "idle" ELSE IF d = next THEN "enter" ELSE pc[d]
    BY <1>2
  <2>2. d = next => d \in Caller /\ pc[d] = "queue"
    BY <1>2, Basics
  <2> QED
    BY <2>1, <2>2
<1>4. Kinds' /\ GivenKept' /\ LocksGranted' /\ AccessGranted' /\ LocksQueued'
  BY <1>1 DEF CalmInv, Kinds, GivenKept, LocksGranted, AccessGranted, LocksQueued, Has
<1>5. Stations'
  BY <1>1, <1>3, Basics DEF CalmInv, Stations
<1>6. AskersWait' /\ OneQuestion'
  BY <1>1, <1>3 DEF CalmInv, AskersWait, OneQuestion, Asked, Asks
<1>7. BackAwaited' /\ AwaitsBack'
  BY <1>1, <1>3 DEF CalmInv, BackAwaited, AwaitsBack, Back, Giving
<1>8. \A d \in Caller : /\ pc'[d] \in Accesses \cup Giving <=> pc[d] \in Accesses \cup Giving
                        /\ pc'[d] \in Accesses \cup Giving => pc'[d] = pc[d]
                        /\ pc'[d] \in Locks <=> pc[d] \in Locks
                        /\ pc'[d] \in {"cb", "tWorks"} <=> pc[d] \in {"cb", "tWorks"}
  BY <1>1, <1>3 DEF Accesses, Giving, Locks
<1>9. OneAccesses' /\ AccessIsHis'
  <2>1. \A d \in Caller : HasAccess(d)' => HasAccess(d) /\ pc'[d] = pc[d]
    BY <1>1, <1>8 DEF HasAccess
  <2> QED
    BY <1>1, <2>1 DEF CalmInv, OneAccesses, AccessIsHis
<1>10. IdIsSomebodys' /\ Transacts' /\ Entered' /\ OneEnters'
  <2>1. IdIsSomebodys' /\ Transacts'
    BY <1>1, <1>8 DEF CalmInv, IdIsSomebodys, Transacts
  <2>2. ASSUME NEW d \in Caller, pc'[d] \in Within \cup {"enter"}
        PROVE  d = next /\ pc'[d] = "enter"
    <3>1. pc[d] \in Within \cup {"enter"} => d = c
      BY <1>1 DEF CalmInv, OneEnters, Within
    <3> QED
      BY <1>1, <1>2, <2>2, <3>1 DEF Within
  <2>3. Entered' /\ OneEnters'
    BY <1>1, <2>2 DEF Entered, OneEnters, Within
  <2> QED
    BY <2>1, <2>3
<1>11. LocksCounted'
  <2>1. LockHolders' = LockHolders
    BY <1>8 DEF LockHolders
  <2> QED
    BY <1>1, <2>1 DEF CalmInv, LocksCounted
<1> QED
  BY <1>2, <1>4, <1>5, <1>6, <1>7, <1>9, <1>10, <1>11 DEF CalmInv

(* Who is within a transaction has it to himself. *)
LEMMA Undisturbed ==
  ASSUME FileTypeOK, CalmInv, NEW c \in Caller, pc[c] \in Within \cup {"enter"},
         pc[c] \notin {"cb", "tWorks"}
  PROVE  ~inTransaction
BY DEF CalmInv, Transacts, OneEnters, Within

LEMMA ResumeCalm ==
  ASSUME FileTypeOK, CalmInv, Calm', NEW c \in Flow, Resume(c)
  PROVE  CalmInv'
<1>1. awaits[c] = {} /\ Caller \subseteq Flow /\ Maker \in Flow /\ Maker \notin Caller
  BY Basics DEF Resume, Resumable
<1>2. c = Maker => pc[c] = "named"
  BY DEF CalmInv, Stations, Resume, Resumable
<1>3. c \in Caller \/ c = Maker
  BY DEF Flow
<1>4. ResetAccess => OldId /\ accessId' = 0
  BY DEF ResetAccess, OldId, Calm
<1>5. CASE pc[c] \in {"named", "unlocks"} /\ Goto(c, "idle") /\ UNCHANGED <<fileVars, serverVars, past>>
  <2>1. Transacts' /\ Entered' /\ OneEnters' /\ Queued'
    BY <1>1, <1>5, GotoStep, Basics
       DEF CalmInv, Transacts, Entered, OneEnters, Queued, Within, Waits, fileVars
  <2> QED
    BY <1>1, <1>5, <2>1, MoveCalm DEF Moves, fileVars, serverVars
<1>6. CASE /\ pc[c] = "releases" /\ Goto(c, "idle") /\ ResetAccess
           /\ UNCHANGED <<inTransaction, enterTransaction, valid, lockQueue, transactionQueue, serverVars>>
  BY <1>1, <1>2, <1>3, <1>4, <1>6, BackCalm DEF serverVars
<1>7. CASE pc[c] = "tReleases" /\ Unlock(c, "tUnlocks") /\ ResetAccess
  BY <1>1, <1>2, <1>3, <1>4, <1>7, UnlockCalm
<1>8. ~(pc[c] = "tReleases" /\ (inTransaction \/ lockQueue = <<>>))
  <2> SUFFICES ASSUME pc[c] = "tReleases"
               PROVE  ~inTransaction /\ lockQueue # <<>>
    OBVIOUS
  <2>1. c \in Caller /\ ~inTransaction
    BY <1>2, <1>3, Undisturbed DEF Within
  <2>2. c \in LockHolders
    BY <2>1 DEF LockHolders, Locks
  <2>3. Cardinality(LockHolders) # 0
    BY <2>2, HoldersAreFinite, FS_EmptySet
  <2> QED
    BY <2>1, <2>3 DEF CalmInv, LocksCounted
<1>9. CASE pc[c] = "tUnlocks" /\ Leave(c) /\ UNCHANGED <<accessId, past>>
  BY <1>1, <1>2, <1>3, <1>9, LeaveCalm
<1>10. CASE pc[c] = "enter" /\ Enter(c) /\ UNCHANGED <<transactionQueue, past>>
  <2>1. c \in Caller /\ ~inTransaction
    BY <1>2, <1>3, <1>10, Undisturbed
  <2>2. /\ Ask(c, "access", "tAccess") /\ "tAccess" \in Asks("access") \ {"naming"}
        /\ enterTransaction' = TRUE
        /\ UNCHANGED <<inTransaction, accessId, lockQueue, transactionQueue>>
    BY <1>10, <2>1 DEF Enter, Asks
  <2>3. \A d \in Flow : pc'[d] = IF d = c THEN "tAccess" ELSE pc[d]
    BY <2>2 DEF Ask, FileTypeOK
  <2>4. Entered' /\ OneEnters'
    BY <1>1, <1>10, <2>1, <2>2, <2>3 DEF CalmInv, Entered, OneEnters, Within
  <2> QED
    BY <1>10, <2>1, <2>2, <2>4, AskCalm
<1> QED
  BY <1>5, <1>6, <1>7, <1>8, <1>9, <1>10 DEF Resume

LEMMA CallerCalm ==
  ASSUME FileTypeOK, CalmInv, Calm', NEW c \in Caller,
         CallerStep(c) \/ Call(c) \/ Throws(c) \/ UnlockAll(c) \/ Unlinked(c)
  PROVE  CalmInv'
<1>1. c \in Flow /\ Caller \subseteq Flow /\ Maker \in Flow /\ c # Maker
  BY Basics
<1>2. pc[c] \in {"idle", "ensureAccess", "ensureLock", "tEnsureAccess", "tEnsureLock", "works",
                 "tWorks", "cb", "locked", "beside", "lockless"} => awaits[c] = {}
  BY <1>1 DEF CalmInv, AwaitsBack, Giving
<1>3. ASSUME NEW action \in {"lock", "access", "unlink"}, NEW s \in Asks(action) \ {"naming"},
             Ask(c, action, s), s # "tAccess",
             \/ pc[c] = "idle" /\ s # "tLock"
             \/ pc[c] = "tEnsureAccess" /\ s = "tLock",
             UNCHANGED <<fileVars, past>>
      PROVE  CalmInv'
  <2>1. UNCHANGED <<inTransaction, enterTransaction, accessId, lockQueue, transactionQueue>>
    BY <1>3 DEF fileVars
  <2>2. \A d \in Flow : pc'[d] = IF d = c THEN s ELSE pc[d]
    BY <1>3 DEF Ask, FileTypeOK
  <2>3. Entered' /\ OneEnters'
    BY <1>1, <1>3, <2>1, <2>2 DEF CalmInv, Entered, OneEnters, Within, Asks
  <2> QED
    BY <1>3, <2>1, <2>3, AskCalm
<1>4. ASSUME NEW s \in Waits, <<pc[c], s>> \in Moves, pc[c] \notin {"named", "unlocks"}, s # "queue",
             Goto(c, s),
             Transacts', UNCHANGED <<enterTransaction, accessId, lockQueue, transactionQueue, serverVars>>
      PROVE  CalmInv'
  <2>1. \A d \in Flow : pc'[d] = IF d = c THEN s ELSE pc[d]
    BY <1>1, <1>4, GotoStep
  <2>2. awaits[c] = {}
    BY <1>2, <1>4 DEF Moves
  <2>3. Entered' /\ OneEnters'
    BY <1>1, <1>4, <2>1 DEF CalmInv, Entered, OneEnters, Within, Moves
  <2>4. Queued'
    BY <1>1, <1>4, <2>1, Basics DEF CalmInv, Queued, Moves
  <2> QED
    BY <1>1, <1>4, <2>2, <2>3, <2>4, MoveCalm DEF serverVars
<1>5. ASSUME NEW s \in Waits, <<pc[c], s>> \in Moves, pc[c] \notin {"named", "unlocks"}, s # "queue",
             s \notin {"cb", "tWorks"}, Goto(c, s), UNCHANGED <<fileVars, serverVars>>
      PROVE  CalmInv'
  <2>1. \A d \in Flow : pc'[d] = IF d = c THEN s ELSE pc[d]
    BY <1>1, <1>5, GotoStep
  <2>2. Transacts'
    BY <1>1, <1>5, <2>1 DEF CalmInv, Transacts, Moves, fileVars
  <2> QED
    BY <1>4, <1>5, <2>2 DEF fileVars
<1>6. CASE Throws(c) \/ UnlockAll(c) \/ Unlinked(c)
  <2>1. pc[c] = "beside" /\ Goto(c, "idle") /\ UNCHANGED <<fileVars, serverVars>>
    BY <1>6 DEF Throws, UnlockAll, Unlinked, Calm, CalmInv, Stations
  <2> QED
    BY <1>5, <2>1 DEF Moves, Waits
<1>7. CASE Ensured(c)
  <2>1. CASE /\ \/ pc[c] = "ensureAccess" /\ Goto(c, "works")
                \/ pc[c] = "ensureLock" /\ Goto(c, "locked")
             /\ UNCHANGED inTransaction
    BY <1>5, <1>7, <2>1 DEF Ensured, Moves, Waits, fileVars
  <2>2. CASE pc[c] = "tEnsureAccess" /\ Ask(c, "lock", "tLock") /\ UNCHANGED inTransaction
    BY <1>3, <1>7, <2>2 DEF Ensured, Asks, fileVars
  <2>3. CASE pc[c] = "tEnsureLock" /\ Goto(c, "cb") /\ inTransaction' = TRUE
    <3>1. Transacts'
      BY <1>1, <2>3, GotoStep DEF Transacts, Waits
    <3> QED
      BY <1>4, <1>7, <2>3, <3>1 DEF Ensured, Moves, Waits
  <2>4. pc[c] = "tEnsureAccess" => ~inTransaction
    BY Undisturbed DEF Within
  <2> QED
    BY <1>7, <2>1, <2>2, <2>3, <2>4 DEF Ensured
<1>8. CASE Operated(c)
  <2>1. CASE pc[c] = "works"
    <3>1. HasAccess(c)
      BY <2>1 DEF HasAccess, Accesses
    <3>2. accessId \in Id /\ accessId # 0
      BY <3>1, Basics DEF CalmInv, AccessIsHis
    <3>3. ~inTransaction
      BY <2>1, <3>1 DEF CalmInv, Transacts, OneAccesses, HasAccess, Accesses
    <3> QED
      BY <1>8, <2>1, <3>2, <3>3, GiveAccessCalm DEF Operated, GivesAccess, fileVars, serverVars
  <2>2. CASE pc[c] = "beside"
    <3>1. Goto(c, "idle") /\ UNCHANGED <<fileVars, serverVars>>
      BY <1>8, <2>2 DEF Operated, GivesAccess, Calm
    <3> QED
      BY <1>5, <2>2, <3>1 DEF Moves, Waits
  <2>3. CASE pc[c] = "tWorks" /\ Goto(c, "cb")
    <3>1. Transacts'
      BY <1>1, <2>3, GotoStep DEF Transacts, Waits
    <3> QED
      BY <1>4, <1>8, <2>3, <3>1 DEF Operated, Moves, Waits, fileVars
  <2> QED
    BY <1>8, <2>1, <2>2, <2>3 DEF Operated
<1>9. CASE UnlockOne(c)
  <2>1. CASE pc[c] = "locked"
    <3>1. c \in LockHolders
      BY <2>1 DEF LockHolders, Locks
    <3>2. Cardinality(LockHolders) # 0
      BY <3>1, HoldersAreFinite, FS_EmptySet
    <3>3. lockQueue # <<>>
      BY <3>2 DEF CalmInv, LocksCounted
    <3> QED
      BY <1>2, <1>9, <2>1, <3>3, UnlockCalm DEF UnlockOne
  <2>2. CASE pc[c] = "lockless"
    <3>1. Goto(c, "idle") /\ UNCHANGED <<fileVars, serverVars>>
      BY <1>9, <2>2 DEF UnlockOne, Calm
    <3> QED
      BY <1>5, <2>2, <3>1 DEF Moves, Waits
  <2> QED
    BY <1>9, <2>1, <2>2 DEF UnlockOne
<1>10. CASE EndTransaction(c)
  <2>1. HasAccess(c)
    BY <1>10 DEF EndTransaction, HasAccess, Accesses
  <2>2. accessId \in Id /\ {accessId} \ {0} = {accessId}
    BY <2>1, Basics DEF CalmInv, AccessIsHis
  <2> QED
    BY <1>10, <2>2, GiveAccessCalm DEF EndTransaction, serverVars
<1>11. CASE Operate(c)
  <2>1. CASE pc[c] = "idle" /\ Ask(c, "access", "access")
    BY <1>3, <1>11, <2>1 DEF Operate, Asks
  <2>2. CASE pc[c] = "idle" /\ Goto(c, "beside") /\ UNCHANGED serverVars
    BY <1>5, <1>11, <2>2 DEF Operate, Moves, Waits
  <2>3. CASE pc[c] = "cb" /\ inTransaction /\ Goto(c, "tWorks") /\ UNCHANGED serverVars
    <3>1. Transacts'
      BY <1>1, <2>3, GotoStep DEF Transacts, Waits
    <3> QED
      BY <1>4, <1>11, <2>3, <3>1 DEF Operate, Moves, Waits, fileVars
  <2> QED
    BY <1>11, <2>1, <2>2, <2>3 DEF Operate
<1>15. CASE Lock(c)
  <2>1. CASE Ask(c, "lock", "lock")
    BY <1>3, <1>15, <2>1 DEF Lock, Asks
  <2>2. CASE Goto(c, "lockless") /\ UNCHANGED serverVars
    BY <1>5, <1>15, <2>2 DEF Lock, Moves, Waits
  <2> QED
    BY <1>15, <2>1, <2>2 DEF Lock
<1>12. CASE StartTransaction(c)
  <2>1. CASE /\ ~enterTransaction /\ Enter(c) /\ UNCHANGED <<transactionQueue, past>>
             /\ \A d \in Caller : pc[d] # "enter"
    <3>1. \A d \in Caller : pc[d] \notin Within \cup {"enter"}
      BY <2>1 DEF CalmInv, Entered
    <3>2. ~inTransaction
      BY <3>1 DEF CalmInv, Transacts, Within
    <3>3. /\ Ask(c, "access", "tAccess") /\ "tAccess" \in Asks("access") \ {"naming"}
          /\ enterTransaction' = TRUE
          /\ UNCHANGED <<inTransaction, accessId, lockQueue, transactionQueue>>
      BY <2>1, <3>2 DEF Enter, Asks
    <3>4. \A d \in Flow : pc'[d] = IF d = c THEN "tAccess" ELSE pc[d]
      BY <3>3 DEF Ask, FileTypeOK
    <3>5. Entered' /\ OneEnters'
      BY <1>1, <3>1, <3>3, <3>4 DEF Entered, OneEnters, Within
    <3> QED
      BY <1>12, <3>3, <3>5, AskCalm DEF StartTransaction
  <2>2. CASE /\ enterTransaction /\ transactionQueue' = Append(transactionQueue, c)
             /\ Goto(c, "queue")
             /\ UNCHANGED <<inTransaction, enterTransaction, accessId, valid, lockQueue, serverVars, past>>
    <3>1. \A d \in Flow : pc'[d] = IF d = c THEN "queue" ELSE pc[d]
      BY <1>1, <2>2, GotoStep DEF Waits
    <3>2. pc[c] = "idle" /\ UNCHANGED <<inTransaction, accessId, lockQueue>>
      BY <1>12, <2>2 DEF StartTransaction
    <3>3. Transacts' /\ Entered' /\ OneEnters'
      BY <1>1, <2>2, <3>1, <3>2 DEF CalmInv, Transacts, Entered, OneEnters, Within
    <3>4. /\ DOMAIN transactionQueue = 1..Len(transactionQueue) /\ Len(transactionQueue) \in Nat
          /\ DOMAIN transactionQueue' = 1..(Len(transactionQueue) + 1)
          /\ transactionQueue'[Len(transactionQueue) + 1] = c
          /\ \A k \in DOMAIN transactionQueue : transactionQueue'[k] = transactionQueue[k]
      BY <2>2 DEF FileTypeOK
    <3>5. \A k \in DOMAIN transactionQueue : transactionQueue[k] # c
      BY <3>2 DEF CalmInv, Queued
    <3>6. Queued'
      BY <1>1, <3>1, <3>4, <3>5, Basics DEF CalmInv, Queued
    <3> QED
      BY <1>1, <1>2, <2>2, <3>2, <3>3, <3>6, MoveCalm DEF Moves, serverVars
  <2>3. past = {} /\ past' = {}
    <3>1. past \subseteq past'
      BY <1>12 DEF StartTransaction
    <3> QED
      BY <3>1 DEF Calm
  <2> QED
    BY <1>12, <2>1, <2>2, <2>3 DEF StartTransaction
<1>13. CASE Unlink(c)
  BY <1>3, <1>13 DEF Unlink, Asks
<1> QED
  BY <1>6, <1>7, <1>8, <1>9, <1>10, <1>11, <1>12, <1>13, <1>15 DEF CallerStep, Call

-----------------------------------------------------------------------------
(* The theorems. *)

(* What has happened to the file has happened: an object that is calm was so.  *)
LEMMA CalmBefore ==
  ASSUME FileTypeOK, [FileNext]_objectVars, Calm'
  PROVE  Calm
<1>1. CASE \/ \E i \in Id : ServerNext(i)
           \/ OtherProcess
  BY <1>1 DEF ServerNext, Arrive, Grant, HandleRelease, Handles, OtherProcess, Server!GrantLock,
     Server!GrantAccess, Server!ReleaseAccess, Server!NoGrant, Server!GrantUnlink, Server!Unlink,
     serverVars, Calm, FileTypeOK
<1>2. CASE \E i \in Id : Released(i)
  BY <1>2 DEF Released, serverVars, Calm
<1>3. CASE \E i \in Id : Answer(i)
  BY <1>3 DEF Answer, Named, Accessed, Locked, Permitted, serverVars, Calm
<1>4. CASE \E c \in Flow : Resume(c)
  BY <1>4 DEF Resume, ResetAccess, Unlock, Leave, Enter, Ask, serverVars, Calm
<1>5. CASE \E c \in Caller : CallerStep(c) \/ Call(c)
  BY <1>5 DEF CallerStep, Call, Ensured, Operated, GivesAccess, UnlockOne, EndTransaction, Operate, Lock,
     StartTransaction, Unlink, Unlock, Enter, Ask, serverVars, Calm
<1>6. CASE \E c \in Caller : Throws(c) \/ UnlockAll(c) \/ Unlinked(c)
  BY <1>6 DEF Throws, UnlockAll, Unlinked, serverVars, Calm
<1>7. CASE UNCHANGED objectVars
  BY <1>7 DEF objectVars, serverVars, Calm
<1> QED
  BY <1>1, <1>2, <1>3, <1>4, <1>5, <1>6, <1>7 DEF FileNext, Messages

FileInv == FileTypeOK /\ (Calm => CalmInv)

LEMMA FileStep ==
  ASSUME FileInv, [FileNext]_objectVars
  PROVE  FileInv'
<1>1. FileTypeOK'
  BY FileTypeStep DEF FileInv
<1> SUFFICES ASSUME Calm'
             PROVE  CalmInv'
  BY <1>1 DEF FileInv
<1>2. FileTypeOK /\ CalmInv
  BY CalmBefore DEF FileInv
<1>3. CASE \E i \in Id : ServerNext(i)
  BY <1>2, <1>3, ServerCalm
<1>4. CASE \E i \in Id : Messages(i)
  BY <1>2, <1>4, AnswerCalm, ReleasedCalm DEF Messages
<1>5. CASE OtherProcess
  BY <1>2, <1>5, OtherCalm
<1>6. CASE \E c \in Flow : Resume(c)
  BY <1>2, <1>6, ResumeCalm
<1>7. CASE \E c \in Caller : CallerStep(c) \/ Call(c) \/ Throws(c) \/ UnlockAll(c) \/ Unlinked(c)
  BY <1>2, <1>7, CallerCalm
<1>8. CASE UNCHANGED objectVars
  BY <1>2, <1>8 DEF objectVars, fileVars, serverVars, CalmInv, Kinds, Stations, AskersWait, OneQuestion,
     GivenKept, BackAwaited, AwaitsBack, LocksGranted, AccessGranted, OneAccesses, AccessIsHis,
     IdIsSomebodys, Transacts, Entered, OneEnters, Queued, LocksQueued, LocksCounted, LockHolders,
     HasAccess, Asked, Back, Has
<1> QED
  BY <1>3, <1>4, <1>5, <1>6, <1>7, <1>8 DEF FileNext

LEMMA FileInvariant == FileSpec => []FileInv
<1>1. FileInit => FileInv
  BY FileTypeInit, CalmInit DEF FileInv
<1>2. FileInv /\ [FileNext]_objectVars => FileInv'
  BY FileStep
<1> QED
  BY <1>1, <1>2, PTL DEF FileSpec

(* Whoever works on the file by read, write, append, stat or in a transaction  *)
(* is the only caller of the object to do so, the only one in any process to   *)
(* have the access, and has it by the id that releaseAccess will give back; in *)
(* a transaction one of the ids in lockQueue keeps the file from being deleted. *)
THEOREM WorkersHaveTheFile == FileSpec => []HasFile
<1>1. FileInv => HasFile
  <2> SUFFICES ASSUME FileInv, Calm, NEW c \in Caller, Working(c)
               PROVE  /\ accessors = {accessId}
                      /\ \A d \in Caller : Working(d) => d = c
                      /\ pc[c] # "works" => lockers \cap Range(lockQueue) # {}
    BY DEF HasFile, Calm
  <2>1. FileTypeOK /\ CalmInv /\ HasAccess(c) /\ pc[c] \notin Giving
    BY DEF FileInv, HasAccess, Working, Accesses, Giving
  <2>2. \A d \in Caller : Working(d) => d = c
    BY <2>1 DEF CalmInv, OneAccesses, HasAccess, Working, Accesses
  <2>3. accessId \in accessors /\ accessors = {accessId}
    BY <2>1 DEF CalmInv, AccessIsHis, AccessGranted, Has
  <2>4. ASSUME pc[c] # "works"
        PROVE  lockers \cap Range(lockQueue) # {}
    <3>1. c \in LockHolders
      BY <2>4 DEF LockHolders, Working, Locks
    <3>2. Cardinality(LockHolders) \in Nat \ {0}
      BY <3>1, HoldersAreFinite, FS_EmptySet, FS_CardinalityType
    <3>3. lockQueue \in Seq(Id) /\ Len(lockQueue) \in Nat \ {0}
      BY <2>1, <3>2 DEF CalmInv, LocksCounted, FileTypeOK
    <3>4. 1 \in DOMAIN lockQueue /\ lockQueue[1] \in Id /\ lockQueue[1] \in Range(lockQueue)
      BY <3>3 DEF Range
    <3>5. lockQueue[1] \in lockers
      BY <2>1, <3>4 DEF CalmInv, LocksQueued, LocksGranted, Has
    <3> QED
      BY <3>4, <3>5
  <2> QED
    BY <2>2, <2>3, <2>4
<1> QED
  BY <1>1, FileInvariant, PTL

(* When every method has come to an end, the server holds neither an access nor *)
(* a lock for this object, and the object's own fields are as they were: no      *)
(* caller waits for a transaction that is over.                              *)
THEOREM NothingIsKept == FileSpec => []NothingKept
<1>1. FileInv => NothingKept
  <2> SUFFICES ASSUME FileInv, Calm, \A c \in Flow : pc[c] = "idle"
               PROVE  /\ accessors \subseteq {Other} /\ lockers = {} /\ accessId = 0
                      /\ ~enterTransaction /\ transactionQueue = <<>>
    BY DEF NothingKept, Calm
  <2>1. FileTypeOK /\ CalmInv /\ Caller \subseteq Flow
    BY Basics DEF FileInv
  <2>2. accessId = 0 /\ ~enterTransaction
    BY <2>1 DEF CalmInv, IdIsSomebodys, Entered, Accesses, Giving, Within
  <2>3. transactionQueue = <<>>
    <3>1. transactionQueue \in Seq(Caller) /\ 1 \notin DOMAIN transactionQueue
      BY <2>1, Basics DEF CalmInv, Queued, FileTypeOK
    <3> QED
      BY <3>1
  <2>4. lockQueue = <<>>
    <3>1. LockHolders = {}
      BY <2>1 DEF LockHolders, Locks
    <3>2. lockQueue \in Seq(Id) /\ Len(lockQueue) = 0
      BY <2>1, <3>1, FS_EmptySet DEF CalmInv, LocksCounted, FileTypeOK
    <3> QED
      BY <3>2
  <2>5. \A i \in Id : ~Asked(i) /\ ~Back(i) /\ request[i].at # "given"
    <3>1. \A i \in Id : ~Asked(i)
      BY <2>1 DEF CalmInv, AskersWait, Asks
    <3>2. \A i \in Id : ~Back(i)
      BY <2>1 DEF CalmInv, BackAwaited, AwaitsBack, Giving
    <3>3. \A i \in Id : request[i].at # "given"
      BY <2>1, <2>2, <2>4, Basics DEF CalmInv, GivenKept, Range
    <3> QED
      BY <3>1, <3>2, <3>3
  <2>6. \A i \in Id : i \notin lockers /\ i \notin accessors
    BY <2>1, <2>5 DEF CalmInv, LocksGranted, AccessGranted, Has, Asked, Back
  <2> QED
    BY <2>1, <2>2, <2>3, <2>6 DEF FileTypeOK
<1> QED
  BY <1>1, FileInvariant, PTL

-----------------------------------------------------------------------------
(* LockPool. *)

-----------------------------------------------------------------------------
(* How the size of a finite set, and of its part in another set, changes when *)
(* an element comes or goes: what the per-worker counters are compared with. *)

(* The part of a finite set is finite, and its size is a number. *)
LEMMA PartFinite ==
  ASSUME NEW S, NEW P, IsFiniteSet(S)
  PROVE  /\ IsFiniteSet(S \cap P)
         /\ Cardinality(S \cap P) \in Nat
         /\ Cardinality(S) \in Nat
         /\ Cardinality(S \cap P) <= Cardinality(S)
<1>1. S \cap P \in SUBSET S
  OBVIOUS
<1> QED
  BY <1>1, FS_Subset, FS_CardinalityType

(* A new element adds one to the parts it lies in and nothing to the others. *)
LEMMA CountAdd ==
  ASSUME NEW S, NEW P, NEW x, IsFiniteSet(S), x \notin S
  PROVE  /\ IsFiniteSet(S \cup {x})
         /\ Cardinality(S \cup {x}) = Cardinality(S) + 1
         /\ x \in P => Cardinality((S \cup {x}) \cap P) = Cardinality(S \cap P) + 1
         /\ x \notin P => Cardinality((S \cup {x}) \cap P) = Cardinality(S \cap P)
<1>1. IsFiniteSet(S \cap P)
  BY PartFinite
<1>2. /\ IsFiniteSet(S \cup {x})
      /\ Cardinality(S \cup {x}) = Cardinality(S) + 1
  BY FS_AddElement
<1>3. ASSUME x \in P
      PROVE  Cardinality((S \cup {x}) \cap P) = Cardinality(S \cap P) + 1
  <2>1. (S \cup {x}) \cap P = (S \cap P) \cup {x}
    BY <1>3
  <2>2. Cardinality((S \cap P) \cup {x}) = Cardinality(S \cap P) + 1
    BY <1>1, FS_AddElement
  <2> QED
    BY <2>1, <2>2
<1>4. ASSUME x \notin P
      PROVE  Cardinality((S \cup {x}) \cap P) = Cardinality(S \cap P)
  <2>1. (S \cup {x}) \cap P = S \cap P
    BY <1>4
  <2> QED
    BY <2>1
<1> QED
  BY <1>2, <1>3, <1>4

(* An element that leaves takes one off the parts it lay in. *)
LEMMA CountRemove ==
  ASSUME NEW S, NEW P, NEW x, IsFiniteSet(S), x \in S
  PROVE  /\ IsFiniteSet(S \ {x})
         /\ Cardinality(S \ {x}) = Cardinality(S) - 1
         /\ x \in P => /\ Cardinality((S \ {x}) \cap P) = Cardinality(S \cap P) - 1
                       /\ Cardinality(S \cap P) > 0
         /\ x \notin P => Cardinality((S \ {x}) \cap P) = Cardinality(S \cap P)
<1>1. IsFiniteSet(S \cap P) /\ Cardinality(S \cap P) \in Nat
  BY PartFinite
<1>2. /\ IsFiniteSet(S \ {x})
      /\ Cardinality(S \ {x}) = Cardinality(S) - 1
  BY FS_RemoveElement
<1>3. ASSUME x \in P
      PROVE  /\ Cardinality((S \ {x}) \cap P) = Cardinality(S \cap P) - 1
             /\ Cardinality(S \cap P) > 0
  <2>1. (S \ {x}) \cap P = (S \cap P) \ {x} /\ x \in S \cap P
    BY <1>3
  <2>2. Cardinality((S \cap P) \ {x}) = Cardinality(S \cap P) - 1
    BY <1>1, <2>1, FS_RemoveElement
  <2>3. Cardinality(S \cap P) # 0
    BY <1>1, <2>1, FS_EmptySet
  <2> QED
    BY <1>1, <2>1, <2>2, <2>3
<1>4. ASSUME x \notin P
      PROVE  Cardinality((S \ {x}) \cap P) = Cardinality(S \cap P)
  <2>1. (S \ {x}) \cap P = S \cap P
    BY <1>4
  <2> QED
    BY <2>1
<1> QED
  BY <1>2, <1>3, <1>4

(* What the queue loses when its head is taken out, if it holds nobody twice. *)
LEMMA TailWaiting ==
  ASSUME NEW R, NEW q \in Seq(R), q # <<>>,
         \A i, j \in DOMAIN q : q[i] = q[j] => i = j
  PROVE  /\ Head(q) \in R /\ Tail(q) \in Seq(R)
         /\ Head(q) \in {q[i] : i \in DOMAIN q}
         /\ {Tail(q)[i] : i \in DOMAIN Tail(q)} = {q[i] : i \in DOMAIN q} \ {Head(q)}
         /\ \A i, j \in DOMAIN Tail(q) : Tail(q)[i] = Tail(q)[j] => i = j
<1>1. 1 \in DOMAIN q /\ Head(q) = q[1]
  OBVIOUS
<1>2. ASSUME NEW x
      PROVE  x \in {Tail(q)[i] : i \in DOMAIN Tail(q)} <=> x \in {q[i] : i \in DOMAIN q} /\ x # q[1]
  <2>1. \A i \in DOMAIN Tail(q) : i + 1 \in DOMAIN q /\ Tail(q)[i] = q[i + 1] /\ i + 1 # 1
    OBVIOUS
  <2>2. \A i \in DOMAIN q : i # 1 => i - 1 \in DOMAIN Tail(q) /\ Tail(q)[i - 1] = q[i]
    OBVIOUS
  <2>3. ASSUME NEW i \in DOMAIN q, q[i] # q[1]
        PROVE  \E k \in DOMAIN Tail(q) : Tail(q)[k] = q[i]
    BY <2>2, <2>3
  <2>4. \A i \in DOMAIN Tail(q) : Tail(q)[i] # q[1]
    BY <1>1, <2>1
  <2> QED
    BY <2>1, <2>3, <2>4
<1>3. \A i, j \in DOMAIN Tail(q) : Tail(q)[i] = Tail(q)[j] => i = j
  OBVIOUS
<1> QED
  BY <1>1, <1>2, <1>3

-----------------------------------------------------------------------------
Known    == Waiting \cup holders \subseteq requests
Apart    == Waiting \cap holders = {}
NoTwice  == \A i, j \in DOMAIN requestQue : requestQue[i] = requestQue[j] => i = j

PoolInv ==
  /\ TypeOK /\ SlotsCounted /\ CounterInLimit /\ WaitsOnlyWhenFull
  /\ Known /\ Apart /\ NoTwice

LEMMA HoldersFinite ==
  ASSUME TypeOK
  PROVE  IsFiniteSet(holders)
BY LockPoolAssumption, FS_Subset DEF TypeOK

-----------------------------------------------------------------------------
(* What a withdrawal does to the set of those who wait. *)

LEMMA RemovedWaiting ==
  ASSUME NEW q \in Seq(Request), NEW k \in DOMAIN q,
         \A i, j \in DOMAIN q : q[i] = q[j] => i = j
  PROVE  LET d == Removed(q, k)
         IN  /\ d \in Seq(Request)
             /\ {d[i] : i \in DOMAIN d} \subseteq {q[i] : i \in DOMAIN q}
             /\ \A i, j \in DOMAIN d : d[i] = d[j] => i = j
<1> DEFINE d == Removed(q, k)
<1>1. Len(q) \in Nat \ {0} /\ DOMAIN q = 1..Len(q) /\ k \in 1..Len(q)
  OBVIOUS
<1>2. DOMAIN d = 1..Len(q) - 1
  BY DEF Removed
<1>3. \A i \in DOMAIN d : d[i] = q[IF i < k THEN i ELSE i + 1]
  BY DEF Removed
<1>4. \A i \in DOMAIN d : d[i] \in Request
  BY <1>1, <1>2, <1>3
<1>5. d \in Seq(Request)
  BY <1>1, <1>4 DEF Removed
<1> HIDE DEF d
<1>6. ASSUME NEW i \in DOMAIN d
      PROVE  d[i] \in {q[j] : j \in DOMAIN q}
  BY <1>1, <1>2, <1>3
<1>7. ASSUME NEW i \in DOMAIN d, NEW j \in DOMAIN d, d[i] = d[j]
      PROVE  i = j
  <2> DEFINE at(n) == IF n < k THEN n ELSE n + 1
  <2>1. at(i) \in DOMAIN q /\ at(j) \in DOMAIN q
    BY <1>1, <1>2
  <2>2. q[at(i)] = q[at(j)]
    BY <1>3, <1>7
  <2>3. at(i) = at(j)
    BY <2>1, <2>2
  <2> QED
    BY <1>1, <1>2, <2>3
<1> QED
  BY <1>5, <1>6, <1>7 DEF d

-----------------------------------------------------------------------------
(* What the steps do to the slots. *)

(* A request that was given no slot and takes one. *)
LEMMA TakeCounts ==
  ASSUME TypeOK, SlotsCounted, CounterInLimit, NEW r \in Request \ holders,
         poolLock!Acquire(Owner[r]), holders' = holders \cup {r}
  PROVE  SlotsCounted' /\ CounterInLimit' /\ poolLock!LockTypeOK'
<1>1. IsFiniteSet(holders) /\ Owner[r] \in Worker
  BY HoldersFinite, LockPoolAssumption
<1>2. lockLength' = Cardinality(holders')
  BY <1>1, FS_AddElement DEF SlotsCounted, poolLock!Acquire
<1>3. ASSUME NEW w \in Worker
      PROVE  lockHash'[w] = Cardinality(holders' \cap OfWorker(w))
  <2>1. lockHash'[w] = IF w = Owner[r] THEN lockHash[w] + 1 ELSE lockHash[w]
    BY DEF poolLock!Acquire, TypeOK, poolLock!LockTypeOK
  <2>2. r \in OfWorker(w) <=> w = Owner[r]
    BY DEF OfWorker
  <2>3. /\ r \in OfWorker(w) => Cardinality((holders \cup {r}) \cap OfWorker(w))
                                  = Cardinality(holders \cap OfWorker(w)) + 1
        /\ r \notin OfWorker(w) => Cardinality((holders \cup {r}) \cap OfWorker(w))
                                  = Cardinality(holders \cap OfWorker(w))
    BY <1>1, CountAdd
  <2> QED
    BY <2>1, <2>2, <2>3 DEF SlotsCounted
<1>4. CounterInLimit' /\ poolLock!LockTypeOK'
  BY <1>1, LockPoolAssumption
     DEF TypeOK, CounterInLimit, poolLock!LockTypeOK, poolLock!Acquire, poolLock!Full
<1> QED
  BY <1>2, <1>3, <1>4 DEF SlotsCounted, OfWorker

(* A request that holds a slot gives back one of its worker. *)
LEMMA GiveBackCounts ==
  ASSUME TypeOK, SlotsCounted, NEW r \in holders
  PROVE  /\ r \in Request /\ Owner[r] \in Worker
         /\ lockHash[Owner[r]] > 0
         /\ lockLength - 1 = Cardinality(holders \ {r})
         /\ IsFiniteSet(holders \ {r})
         /\ \A w \in Worker :
              Cardinality((holders \ {r}) \cap OfWorker(w)) =
                IF w = Owner[r] THEN lockHash[w] - 1 ELSE lockHash[w]
<1>1. IsFiniteSet(holders) /\ r \in Request /\ Owner[r] \in Worker
  BY HoldersFinite, LockPoolAssumption DEF TypeOK
<1>2. lockLength - 1 = Cardinality(holders \ {r}) /\ IsFiniteSet(holders \ {r})
  BY <1>1, CountRemove DEF SlotsCounted
<1>3. ASSUME NEW w \in Worker
      PROVE  Cardinality((holders \ {r}) \cap OfWorker(w)) =
                IF w = Owner[r] THEN lockHash[w] - 1 ELSE lockHash[w]
  <2>1. r \in OfWorker(w) <=> w = Owner[r]
    BY <1>1 DEF OfWorker
  <2>2. /\ r \in OfWorker(w) => Cardinality((holders \ {r}) \cap OfWorker(w))
                                  = Cardinality(holders \cap OfWorker(w)) - 1
        /\ r \notin OfWorker(w) => Cardinality((holders \ {r}) \cap OfWorker(w))
                                  = Cardinality(holders \cap OfWorker(w))
    BY <1>1, CountRemove
  <2> QED
    BY <2>1, <2>2 DEF SlotsCounted
<1>4. lockHash[Owner[r]] > 0
  <2>1. r \in OfWorker(Owner[r])
    BY <1>1 DEF OfWorker
  <2>2. Cardinality(holders \cap OfWorker(Owner[r])) > 0
    BY <1>1, <2>1, CountRemove
  <2> QED
    BY <1>1, <2>2 DEF SlotsCounted
<1> QED
  BY <1>1, <1>2, <1>3, <1>4

(* The slot passes from one holder to a request that has none. *)
LEMMA PassCounts ==
  ASSUME TypeOK, SlotsCounted, NEW r \in holders, NEW h \in Request \ holders,
         lockHash' = [[lockHash EXCEPT ![Owner[r]] = @ - 1] EXCEPT ![Owner[h]] = @ + 1],
         lockLength' = lockLength,
         holders' = (holders \ {r}) \cup {h}
  PROVE  SlotsCounted' /\ poolLock!LockTypeOK'
<1> DEFINE S == holders \ {r}
<1>1. /\ r \in Request /\ Owner[r] \in Worker /\ Owner[h] \in Worker
      /\ lockHash[Owner[r]] > 0 /\ lockLength - 1 = Cardinality(S) /\ IsFiniteSet(S)
      /\ \A w \in Worker : Cardinality(S \cap OfWorker(w)) =
            IF w = Owner[r] THEN lockHash[w] - 1 ELSE lockHash[w]
  BY GiveBackCounts, LockPoolAssumption
<1>2. h \notin S
  OBVIOUS
<1> HIDE DEF S
<1>3. Cardinality(S \cup {h}) = lockLength
  <2>1. Cardinality(S \cup {h}) = Cardinality(S) + 1
    BY <1>1, <1>2, FS_AddElement
  <2>2. lockLength \in Int
    BY DEF TypeOK, poolLock!LockTypeOK
  <2>3. lockLength - 1 = Cardinality(S)
    BY <1>1
  <2> QED
    BY <2>1, <2>2, <2>3
<1>4. ASSUME NEW w \in Worker
      PROVE  lockHash'[w] = Cardinality((S \cup {h}) \cap OfWorker(w))
  <2>1. lockHash'[w] = (IF w = Owner[r] THEN lockHash[w] - 1 ELSE lockHash[w])
                        + (IF w = Owner[h] THEN 1 ELSE 0)
    BY <1>1 DEF TypeOK, poolLock!LockTypeOK
  <2>2. h \in OfWorker(w) <=> w = Owner[h]
    BY DEF OfWorker
  <2>3. /\ h \in OfWorker(w) => Cardinality((S \cup {h}) \cap OfWorker(w))
                                  = Cardinality(S \cap OfWorker(w)) + 1
        /\ h \notin OfWorker(w) => Cardinality((S \cup {h}) \cap OfWorker(w))
                                  = Cardinality(S \cap OfWorker(w))
    BY <1>1, <1>2, CountAdd
  <2>4. lockHash[w] \in Nat
    BY DEF TypeOK, poolLock!LockTypeOK
  <2> QED
    BY <1>1, <2>1, <2>2, <2>3, <2>4
<1>5. SlotsCounted'
  BY <1>3, <1>4 DEF SlotsCounted, OfWorker, S
<1>6. poolLock!LockTypeOK'
  <2> DEFINE given == [lockHash EXCEPT ![Owner[r]] = @ - 1]
  <2>1. lockHash \in [Worker -> Nat] /\ lockLength \in Int
    BY DEF TypeOK, poolLock!LockTypeOK
  <2>2. lockHash[Owner[r]] - 1 \in Nat
    BY <1>1, <2>1
  <2>3. given \in [Worker -> Nat]
    BY <1>1, <2>1, <2>2
  <2>4. lockHash' = [given EXCEPT ![Owner[h]] = @ + 1]
    OBVIOUS
  <2> HIDE DEF given
  <2>5. lockHash' \in [Worker -> Nat]
    BY <1>1, <2>3, <2>4
  <2> QED
    BY <2>1, <2>5 DEF poolLock!LockTypeOK
<1> QED
  BY <1>5, <1>6

-----------------------------------------------------------------------------
LEMMA PoolInit == Init => PoolInv
<1> SUFFICES ASSUME Init
             PROVE  PoolInv
  OBVIOUS
<1>1. Cardinality({}) = 0 /\ \A w : {} \cap OfWorker(w) = {}
  BY FS_EmptySet
<1>2. TypeOK
  BY DEF Init, TypeOK, poolLock!LockInit, poolLock!LockTypeOK
<1>3. SlotsCounted
  BY <1>1 DEF Init, SlotsCounted, poolLock!LockInit
<1>4. CounterInLimit /\ WaitsOnlyWhenFull
  BY LockPoolAssumption DEF Init, CounterInLimit, WaitsOnlyWhenFull, poolLock!LockInit
<1>5. Known /\ Apart /\ NoTwice
  BY DEF Init, Known, Apart, NoTwice, Waiting
<1> QED
  BY <1>2, <1>3, <1>4, <1>5 DEF PoolInv

LEMMA PoolStep == PoolInv /\ [UserNext]_vars => PoolInv'
<1> SUFFICES ASSUME PoolInv, [UserNext]_vars
             PROVE  PoolInv'
  OBVIOUS
<1>1. ASSUME NEW r \in Request, Acquire(r)
      PROVE  PoolInv'
  <2>1. r \notin holders /\ r \notin Waiting /\ requests' = requests \cup {r}
    BY <1>1 DEF PoolInv, Known, Acquire
  <2>2. requestQue \in Seq(Request) /\ requests \subseteq Request /\ holders \subseteq Request
    BY DEF PoolInv, TypeOK
  <2>3. CASE /\ poolLock!Acquire(Owner[r])
             /\ holders' = holders \cup {r} /\ UNCHANGED requestQue
    <3>1. SlotsCounted' /\ CounterInLimit' /\ poolLock!LockTypeOK'
      BY <2>1, <2>3, TakeCounts DEF PoolInv
    <3>2. requestQue = <<>>
      BY <2>3 DEF PoolInv, WaitsOnlyWhenFull, poolLock!Acquire
    <3>3. TypeOK'
      BY <2>1, <2>2, <2>3, <3>1 DEF TypeOK
    <3>4. WaitsOnlyWhenFull' /\ Known' /\ Apart' /\ NoTwice'
      BY <2>1, <2>3, <3>2
         DEF PoolInv, WaitsOnlyWhenFull, Known, Apart, NoTwice, Waiting
    <3> QED
      BY <3>1, <3>3, <3>4 DEF PoolInv
  <2>4. CASE /\ poolLock!Full /\ requestQue' = Append(requestQue, r)
             /\ UNCHANGED <<lockHash, lockLength, holders>>
    <3>1. /\ requestQue' \in Seq(Request)
          /\ Waiting' = Waiting \cup {r}
          /\ NoTwice'
      BY <2>1, <2>2, <2>4 DEF PoolInv, NoTwice, Waiting
    <3>2. TypeOK'
      BY <2>1, <2>2, <2>4, <3>1 DEF PoolInv, TypeOK, poolLock!LockTypeOK
    <3>3. SlotsCounted' /\ CounterInLimit'
      BY <2>4 DEF PoolInv, SlotsCounted, CounterInLimit, OfWorker
    <3>4. Known' /\ Apart'
      BY <2>1, <2>4, <3>1 DEF PoolInv, Known, Apart
    <3>5. WaitsOnlyWhenFull'
      BY <2>4 DEF WaitsOnlyWhenFull, poolLock!Full
    <3> QED
      BY <3>1, <3>2, <3>3, <3>4, <3>5 DEF PoolInv
  <2> QED
    BY <1>1, <2>3, <2>4 DEF Acquire
<1>2. ASSUME NEW r \in Request, ReleaseWaiting(r)
      PROVE  PoolInv'
  <2>1. PICK k \in DOMAIN requestQue : requestQue' = Removed(requestQue, k)
    BY <1>2 DEF ReleaseWaiting
  <2>2. /\ requestQue' \in Seq(Request) /\ Waiting' \subseteq Waiting /\ NoTwice'
    <3> DEFINE d == Removed(requestQue, k)
    <3>1. /\ requestQue \in Seq(Request)
          /\ \A i, j \in DOMAIN requestQue : requestQue[i] = requestQue[j] => i = j
      BY DEF PoolInv, TypeOK, NoTwice
    <3>2. /\ d \in Seq(Request)
          /\ {d[i] : i \in DOMAIN d} \subseteq {requestQue[i] : i \in DOMAIN requestQue}
          /\ \A i, j \in DOMAIN d : d[i] = d[j] => i = j
      BY <3>1, RemovedWaiting
    <3> HIDE DEF d
    <3> QED
      BY <2>1, <3>2 DEF d, NoTwice, Waiting
  <2>3. UNCHANGED <<lockHash, lockLength, requests, holders>>
    BY <1>2 DEF ReleaseWaiting
  <2>4. TypeOK'
    BY <2>2, <2>3 DEF PoolInv, TypeOK, poolLock!LockTypeOK
  <2>5. SlotsCounted' /\ CounterInLimit'
    BY <2>3 DEF PoolInv, SlotsCounted, CounterInLimit, OfWorker
  <2>6. Known' /\ Apart'
    BY <2>2, <2>3 DEF PoolInv, Known, Apart
  <2>7. requestQue # <<>>
    BY <2>1
  <2>8. WaitsOnlyWhenFull'
    BY <2>3, <2>7 DEF PoolInv, WaitsOnlyWhenFull, poolLock!Full
  <2> QED
    BY <2>2, <2>4, <2>5, <2>6, <2>8 DEF PoolInv
<1>3. ASSUME NEW r \in Request, r \in holders, ReleaseSlot(r)
      PROVE  PoolInv'
  <2>1. /\ r \notin Waiting /\ requests' = requests \ {r}
    BY <1>3 DEF ReleaseSlot
  <2>2. requestQue \in Seq(Request) /\ requests \subseteq Request /\ holders \subseteq Request
    BY DEF PoolInv, TypeOK
  <2>3. /\ Owner[r] \in Worker /\ lockLength - 1 = Cardinality(holders \ {r})
        /\ \A w \in Worker : Cardinality((holders \ {r}) \cap OfWorker(w)) =
                IF w = Owner[r] THEN lockHash[w] - 1 ELSE lockHash[w]
    BY <1>3, GiveBackCounts DEF PoolInv
  <2>4. CASE /\ requestQue = <<>> /\ poolLock!ReleaseOne(Owner[r])
             /\ holders' = holders \ {r} /\ UNCHANGED requestQue
    <3>1. poolLock!LockTypeOK'
      BY <2>3, <2>4 DEF PoolInv, TypeOK, poolLock!LockTypeOK, poolLock!ReleaseOne
    <3>2. SlotsCounted'
      BY <2>3, <2>4 DEF SlotsCounted, OfWorker, poolLock!ReleaseOne,
           PoolInv, TypeOK, poolLock!LockTypeOK
    <3>3. TypeOK'
      BY <2>1, <2>2, <2>4, <3>1 DEF TypeOK
    <3>4. CounterInLimit'
      BY <2>4, LockPoolAssumption
         DEF PoolInv, CounterInLimit, TypeOK, poolLock!LockTypeOK, poolLock!ReleaseOne
    <3>5. WaitsOnlyWhenFull' /\ Known' /\ Apart' /\ NoTwice'
      BY <2>1, <2>4 DEF PoolInv, WaitsOnlyWhenFull, Known, Apart, NoTwice, Waiting
    <3> QED
      BY <3>2, <3>3, <3>4, <3>5 DEF PoolInv
  <2>5. CASE /\ requestQue # <<>>
             /\ lockHash' = [[lockHash EXCEPT ![Owner[r]] = @ - 1]
                               EXCEPT ![Owner[Head(requestQue)]] = @ + 1]
             /\ UNCHANGED lockLength
             /\ holders' = (holders \ {r}) \cup {Head(requestQue)}
             /\ requestQue' = Tail(requestQue)
    <3>1. /\ Head(requestQue) \in Request /\ requestQue' \in Seq(Request)
          /\ Head(requestQue) \in Waiting
          /\ Waiting' = Waiting \ {Head(requestQue)}
          /\ NoTwice'
      <4> DEFINE t == Tail(requestQue)
      <4>1. \A i, j \in DOMAIN requestQue : requestQue[i] = requestQue[j] => i = j
        BY DEF PoolInv, NoTwice
      <4>2. /\ Head(requestQue) \in Request /\ t \in Seq(Request)
            /\ Head(requestQue) \in Waiting
            /\ {t[i] : i \in DOMAIN t} = Waiting \ {Head(requestQue)}
            /\ \A i, j \in DOMAIN t : t[i] = t[j] => i = j
        BY <2>2, <2>5, <4>1, TailWaiting DEF Waiting
      <4>3. requestQue' = t
        BY <2>5
      <4> HIDE DEF t
      <4> QED
        BY <4>2, <4>3 DEF NoTwice, Waiting
    <3>2. Head(requestQue) \in Request \ holders
      BY <3>1 DEF PoolInv, Apart
    <3>3. SlotsCounted' /\ poolLock!LockTypeOK'
      BY <1>3, <2>5, <3>2, PassCounts DEF PoolInv
    <3>4. TypeOK'
      BY <2>1, <2>2, <2>5, <3>1, <3>3 DEF TypeOK
    <3>5. CounterInLimit' /\ WaitsOnlyWhenFull'
      BY <2>5 DEF PoolInv, CounterInLimit, WaitsOnlyWhenFull, poolLock!Full
    <3>6. Known' /\ Apart'
      BY <1>3, <2>1, <2>5, <3>1, <3>2 DEF PoolInv, Known, Apart
    <3> QED
      BY <3>1, <3>3, <3>4, <3>5, <3>6 DEF PoolInv
  <2> QED
    BY <1>3, <2>4, <2>5 DEF ReleaseSlot
<1>4. CASE UNCHANGED vars
  BY <1>4 DEF vars, PoolInv, TypeOK, SlotsCounted, CounterInLimit, WaitsOnlyWhenFull, Known,
       Apart, NoTwice, Waiting, OfWorker, poolLock!LockTypeOK, poolLock!Full
<1> QED
  BY <1>1, <1>2, <1>3, <1>4 DEF UserNext

LEMMA PoolInvariant == UserSpec => []PoolInv
BY PoolInit, PoolStep, PTL DEF UserSpec

(* The counters are the slots in use, per worker and in total.               *)
THEOREM SlotsAreCounted == UserSpec => []SlotsCounted
<1>1. PoolInv => SlotsCounted
  BY DEF PoolInv
<1> QED
  BY <1>1, PoolInvariant, PTL

(* However acquires, releases and withdrawals interleave, MaxLockCount       *)
(* requests hold a slot at most.                                           *)
THEOREM PoolNotOverdrawn == UserSpec => []AtMostMaxLockCount
<1>1. PoolInv => AtMostMaxLockCount
  BY DEF PoolInv, CounterInLimit, SlotsCounted, AtMostMaxLockCount
<1> QED
  BY <1>1, PoolInvariant, PTL

(* A release always passes its slot on: nobody waits while one is free.      *)
THEOREM NobodyWaitsForFreeSlot == UserSpec => []WaitsOnlyWhenFull
<1>1. PoolInv => WaitsOnlyWhenFull
  BY DEF PoolInv
<1> QED
  BY <1>1, PoolInvariant, PTL

-----------------------------------------------------------------------------
(* The counter itself needs none of this: whatever is released and cleaned,  *)
(* it only grows by a slot that acquire() finds free.                        *)
Counter ==
  lockHash \in [Worker -> Nat] /\ lockLength \in Int /\ CounterInLimit

LEMMA CounterAcquire ==
  ASSUME Counter, NEW r \in Request, poolLock!Acquire(Owner[r])
  PROVE  Counter'
BY LockPoolAssumption
   DEF Counter, CounterInLimit, poolLock!Acquire, poolLock!Full

LEMMA CounterRelease ==
  ASSUME Counter, NEW r \in Request, ReleaseSlot(r)
  PROVE  Counter'
<1> DEFINE h == [lockHash EXCEPT ![Owner[r]] = @ - 1]
           w == Owner[Head(requestQue)]
<1>1. h \in [Worker -> Nat]
  BY LockPoolAssumption DEF Counter, ReleaseSlot
<1>2. CASE requestQue = <<>> /\ poolLock!ReleaseOne(Owner[r])
  <2>1. lockHash' = h /\ lockLength' = lockLength - 1
    BY <1>2 DEF poolLock!ReleaseOne
  <2> HIDE DEF h
  <2> QED
    BY <1>1, <2>1, LockPoolAssumption DEF Counter, CounterInLimit
<1>3. CASE UNCHANGED lockLength /\ lockHash' = [h EXCEPT ![w] = @ + 1]
  <2> HIDE DEF h, w
  <2>1. lockHash' \in [Worker -> Nat]
    <3>1. CASE w \in Worker
      <4>1. lockHash' = [h EXCEPT ![w] = h[w] + 1] /\ h[w] \in Nat
        BY <1>1, <1>3, <3>1
      <4> QED
        BY <1>1, <3>1, <4>1
    <3>2. CASE w \notin Worker
      BY <1>1, <1>3, <3>2
    <3> QED
      BY <3>1, <3>2
  <2> QED
    BY <1>3, <2>1 DEF Counter, CounterInLimit
<1>4. [[lockHash EXCEPT ![Owner[r]] = @ - 1]
          EXCEPT ![Owner[Head(requestQue)]] = @ + 1] = [h EXCEPT ![w] = @ + 1]
  OBVIOUS
<1> HIDE DEF h, w
<1> QED
  BY <1>2, <1>3, <1>4 DEF ReleaseSlot

LEMMA CounterStep ==
  ASSUME Counter, [Next]_vars
  PROVE  Counter'
<1>1. ASSUME NEW r \in Request, Acquire(r)
      PROVE  Counter'
  BY <1>1, CounterAcquire DEF Acquire, Counter, CounterInLimit
<1>2. ASSUME NEW r \in Request, ReleaseWaiting(r)
      PROVE  Counter'
  BY <1>2 DEF ReleaseWaiting, Counter, CounterInLimit
<1>3. ASSUME NEW r \in Request, ReleaseSlot(r)
      PROVE  Counter'
  BY <1>3, CounterRelease
<1>4. ASSUME NEW w \in Worker, poolLock!Clean(w)
      PROVE  Counter'
  <2>1. lockHash[w] \in Nat
    BY <1>4 DEF Counter
  <2> QED
    BY <1>4, <2>1, LockPoolAssumption DEF Counter, CounterInLimit, poolLock!Clean
<1>5. CASE poolLock!CleanAll
  BY <1>5, LockPoolAssumption DEF Counter, CounterInLimit, poolLock!CleanAll
<1>6. CASE UNCHANGED vars
  BY <1>6 DEF vars, Counter, CounterInLimit
<1> QED
  BY <1>1, <1>2, <1>3, <1>4, <1>5, <1>6 DEF Next, Clean

(* The limit the pool compares is kept even when requests that hold no slot   *)
(* release one and workers are cleaned.                                      *)
THEOREM CounterWithinLimit == Spec => []CounterInLimit
<1>1. Init => Counter
  BY LockPoolAssumption DEF Init, Counter, CounterInLimit, poolLock!LockInit
<1>2. Counter /\ [Next]_vars => Counter'
  BY CounterStep
<1>3. Counter => CounterInLimit
  BY DEF Counter
<1> QED
  BY <1>1, <1>2, <1>3, PTL DEF Spec

================================================================================
