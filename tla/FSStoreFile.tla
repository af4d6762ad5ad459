------------------------------ MODULE FSStoreFile ------------------------------
(***************************************************************************)
(* One FSStoreFile (core/fs-store/src/fs-store-file.ts) that several       *)
(* callers of a process use at once, with its FSStoreClient, over a server *)
(* that keeps FilePermission's promise to it and to the other processes.   *)
(*                                                                         *)
(* A step is what runs until the next await.  Between the moment a promise *)
(* is resolved and the one at which its awaiter goes on, others may call,  *)
(* and messages may arrive that the server has sent by then.  A caller     *)
(* calls one method after the other, and calls unlock() for each lock()    *)
(* until it is not refused.                                                *)
(***************************************************************************)
EXTENDS Naturals, Sequences, FiniteSets, SequencesExt

CONSTANTS
  Caller,       \* those who use the file object
  Maker,        \* its constructor, which has called init()
  NoCaller,
  MaxRequests,  \* bound: requests to the server; also the ids of requests
  Spare         \* bound: the last requests, which only transactions make

ASSUME FileAssumption ==
  /\ IsFiniteSet(Caller)
  /\ MaxRequests \in Nat \ {0} /\ Spare \in Nat
  /\ Maker \notin Caller /\ NoCaller \notin Caller \cup {Maker}

Flow     == Caller \cup {Maker}

Id    == 1..MaxRequests
Other == 0                  \* the access of another process

VARIABLES
  pc,                 \* what each caller awaits
  awaits,             \* the requests whose release it awaits
  inTransaction, enterTransaction, accessId, valid,   \* fields of state;
                      \*   accessId is 0 for null
  lockQueue, transactionQueue,
  reqHash,            \* the client's: the callback that is waiting for an answer
  request,            \* history: what each request is for and how far it is
  lockers, accessors, deleters, doomed,               \* the server's file
  past                \* history: "failed": a file operation has thrown;
                      \*   "unlockedAll": unlockAll was called;
                      \*   "foreign": an outsider's call that began in a transaction has,
                      \*   after it, given back what was not its own;
                      \*   "overtaken": a transaction was entered while another went on;
                      \*   "reset": accessId was cleared after it was somebody else's

fileVars   == <<inTransaction, enterTransaction, accessId, valid, lockQueue, transactionQueue>>
serverVars == <<lockers, accessors, deleters, doomed>>
objectVars == <<pc, awaits, fileVars, reqHash, request, serverVars, past>>

Server == INSTANCE FilePermission WITH Request <- Id \cup {Other}

Actions == {"none", "lock", "access", "unlink"}

(* asked: on its way; queued: with the resolver; granted or refused: answered; *)
(* given: the answer has come; releasing: so is its release; freed: answered;  *)
(* released: the answer has come.                                            *)
Stages == {"none", "asked", "queued", "granted", "refused", "given", "releasing",
           "freed", "released"}

Waits == {"idle", "naming", "named",
          "access", "ensureAccess", "works", "beside", "releases",
          "queue", "enter", "tAccess", "tEnsureAccess", "tLock", "tEnsureLock", "cb", "tWorks",
          "tReleases", "tUnlocks",
          "lock", "ensureLock", "locked", "lockless", "unlocks",
          "unlink", "unlinks", "waitForUnlock", "stuck"}

FileTypeOK ==
  /\ pc \in [Flow -> Waits] /\ awaits \in [Flow -> SUBSET Id]
  /\ {inTransaction, enterTransaction, valid, doomed} \subseteq BOOLEAN
  /\ accessId \in 0..MaxRequests
  /\ lockQueue \in Seq(Id) /\ transactionQueue \in Seq(Caller)
  /\ reqHash \in [Id -> Flow \cup {NoCaller}]
  /\ request \in [Id -> [action : Actions, at : Stages]]
  /\ lockers \subseteq Id /\ deleters \subseteq Id /\ accessors \subseteq Id \cup {Other}
  /\ past \subseteq {"failed", "unlockedAll", "foreign", "overtaken", "reset"}

Nothing == [action |-> "none", at |-> "none"]

(* The constructor has called init(), which asks for the name by a lock. *)
FileInit ==
  /\ pc = [c \in Flow |-> IF c = Maker THEN "naming" ELSE "idle"]
  /\ awaits = [c \in Flow |-> {}]
  /\ inTransaction = FALSE /\ enterTransaction = FALSE /\ accessId = 0 /\ valid = TRUE
  /\ lockQueue = <<>> /\ transactionQueue = <<>>
  /\ reqHash = [i \in Id |-> IF i = 1 THEN Maker ELSE NoCaller]
  /\ request = [i \in Id |-> IF i = 1 THEN [action |-> "lock", at |-> "asked"] ELSE Nothing]
  /\ Server!PermInit
  /\ past = {}

-----------------------------------------------------------------------------
(* FSStoreClient. *)

(* getLock, getAccess, getUnlink: c waits at step s for the answer. *)
Ask(c, action, s) ==
  /\ \E i \in Id :
       /\ request[i].at = "none" /\ \A j \in 1..(i - 1) : request[j].at # "none"
       /\ request' = [request EXCEPT ![i] = [action |-> action, at |-> "asked"]]
       /\ reqHash' = [reqHash EXCEPT ![i] = c]
  /\ pc' = [pc EXCEPT ![c] = s]
  /\ UNCHANGED <<awaits, serverVars>>

(* Bound: n more requests, besides those that transactions will still make; and *)
(* no new calls when the file may be deleted or after most of what is in past.  *)
Room(n) ==
  /\ ~doomed /\ past \subseteq {"overtaken"}
  /\ Cardinality({i \in Id : request[i].at = "none"}) >=
       n + 2 * Cardinality({c \in Caller : pc[c] \in {"queue", "enter"}})
         + Cardinality({c \in Caller : pc[c] \in {"tAccess", "tEnsureAccess"}})

(* release of the requests ids, whose answers c awaits at step s.  A request    *)
(* under release is not released again, but the new callback replaces the old *)
(* one, which is never called; nor is that for a request released before.     *)
Release(c, ids, s) ==
  LET known == {i \in ids : request[i].at # "released"}
      now   == {i \in known : request[i].at \notin {"releasing", "freed"}}
  IN /\ awaits' = [awaits EXCEPT ![c] = ids]
     /\ pc' = [pc EXCEPT ![c] = s]
     /\ reqHash' = [i \in Id |-> IF i \in known THEN c ELSE reqHash[i]]
     /\ request' = [i \in Id |-> IF i \in now THEN [request[i] EXCEPT !.at = "releasing"]
                                 ELSE request[i]]

(* release without a callback. *)
GiveBack(i) ==
  /\ request' = [request EXCEPT ![i].at = "releasing"]
  /\ reqHash' = [reqHash EXCEPT ![i] = NoCaller]

(* Promises resolved by an answer to a release. *)
Resumable(c) == pc[c] \in {"named", "releases", "tReleases", "tUnlocks", "unlocks", "enter"}
                /\ awaits[c] = {}

(* All of them have gone on: before a request that is sent reaches the server,   *)
(* and before a file operation ends.                                         *)
Settled == \A c \in Flow : ~Resumable(c)

Goto(c, s) == pc' = [pc EXCEPT ![c] = s] /\ UNCHANGED <<awaits, reqHash, request>>

-----------------------------------------------------------------------------
(* The server, see FilePermission. *)

Handles(i, s) ==
  /\ request' = [request EXCEPT ![i].at = s]
  /\ UNCHANGED <<pc, awaits, fileVars, reqHash, past>>

(* A lock is granted or refused at once, an access or an unlink is queued.     *)
Arrive(i) ==
  /\ request[i].at = "asked" /\ Settled
  /\ \/ /\ request[i].action = "lock" /\ Server!GrantLock(i)
        /\ Handles(i, "granted")
     \/ /\ doomed /\ request[i].action # "unlink"
        /\ UNCHANGED serverVars /\ Handles(i, "refused")
     \/ /\ request[i].action = "unlink" \/ (request[i].action = "access" /\ ~doomed)
        /\ UNCHANGED serverVars /\ Handles(i, "queued")

Grant(i) ==
  /\ request[i].at = "queued"
  /\ \/ request[i].action = "access" /\ Server!GrantAccess(i)
     \/ /\ request[i].action = "unlink" /\ deleters' = deleters \cup {i}
        /\ Server!Unlink
  /\ Handles(i, "granted")

(* The release is answered before the file passes on. *)
HandleRelease(i) ==
  /\ request[i].at = "releasing"
  /\ lockers' = lockers \ {i} /\ accessors' = accessors \ {i} /\ deleters' = deleters \ {i}
  /\ UNCHANGED doomed
  /\ Handles(i, "freed")

(* Another process accesses the file. *)
OtherProcess ==
  /\ \/ Server!GrantAccess(Other)
     \/ accessors' = {} /\ Server!NoGrant /\ Server!ReleaseAccess(Other)
  /\ UNCHANGED <<pc, awaits, fileVars, reqHash, request, past>>

-----------------------------------------------------------------------------
(* getAccess and what follows it: read, write, append and stat.               *)

(* The constructor has ended; the methods wait for that. *)
Ready == pc[Maker] = "idle"

(* While a transaction is under way getAccess answers at once, to the          *)
(* transaction and to anybody else, who then operates beside it.              *)
Operate(c) ==
  /\ \/ /\ pc[c] = "idle" /\ Ready /\ ~inTransaction /\ Room(1 + Spare)
        /\ Ask(c, "access", "access")
     \/ /\ pc[c] = "idle" /\ Ready /\ inTransaction /\ Room(0)
        /\ Goto(c, "beside") /\ UNCHANGED serverVars
     \/ pc[c] = "cb" /\ inTransaction /\ Goto(c, "tWorks") /\ UNCHANGED serverVars
  /\ UNCHANGED <<fileVars, past>>

(* What getAccess and lock do with an answer, whatever it is: then they see to *)
(* it that the file is there.                                                *)
Given(i) == request' = [request EXCEPT ![i].at = "given"] /\ UNCHANGED <<awaits, reqHash>>

Accessed(i, c, s) ==
  /\ accessId' = i
  /\ Given(i) /\ pc' = [pc EXCEPT ![c] = s]
  /\ UNCHANGED <<inTransaction, enterTransaction, valid, lockQueue, transactionQueue, past>>

Locked(i, c, s) ==
  /\ lockQueue' = Append(lockQueue, i)
  /\ Given(i) /\ pc' = [pc EXCEPT ![c] = s]
  /\ UNCHANGED <<inTransaction, enterTransaction, accessId, valid, transactionQueue, past>>

(* ensureName gives the lock back; getUnlink's callback deletes the file, or    *)
(* gives the permission back.  When the file object has been unlinked before,  *)
(* the caller is told, and the deletion may fail without a word.              *)
Named(i, c) ==
  /\ request[i].at \in {"granted", "refused"}
  /\ Release(c, {i}, "named") /\ UNCHANGED <<fileVars, past>>

Permitted(i, c) ==
  /\ UNCHANGED <<awaits, fileVars, past>>
  /\ \/ pc[c] = "unlink" /\ valid /\ pc' = [pc EXCEPT ![c] = "unlinks"] /\ Given(i)
     \/ /\ pc[c] = "unlink" /\ ~valid /\ pc' = [pc EXCEPT ![c] = "idle"]
        /\ Given(i) \/ GiveBack(i)
     \/ pc[c] = "waitForUnlock" /\ pc' = [pc EXCEPT ![c] = "idle"] /\ GiveBack(i)

(* A message: the answer to request i.  They come in the order they are sent.   *)
Answer(i) ==
  /\ request[i].at \in {"granted", "refused"} /\ \A j \in Id : request[j].at # "freed"
  /\ LET c == reqHash[i]
     IN CASE pc[c] = "naming"  -> Named(i, c)
          [] pc[c] = "access"  -> Accessed(i, c, "ensureAccess")
          [] pc[c] = "tAccess" -> Accessed(i, c, "tEnsureAccess")
          [] pc[c] = "lock"    -> Locked(i, c, "ensureLock")
          [] pc[c] = "tLock"   -> Locked(i, c, "tEnsureLock")
          [] OTHER             -> Permitted(i, c)
  /\ UNCHANGED serverVars

(* ensureFile has answered.  When another transaction is under way, lock does   *)
(* nothing.                                                                  *)
Ensured(c) ==
  /\ UNCHANGED <<enterTransaction, accessId, valid, lockQueue, transactionQueue,
                 serverVars, past>>
  /\ \/ pc[c] = "ensureAccess" /\ Goto(c, "works") /\ UNCHANGED inTransaction
     \/ pc[c] = "ensureLock" /\ Goto(c, "locked") /\ UNCHANGED inTransaction
     \/ /\ pc[c] = "tEnsureAccess" /\ ~inTransaction
        /\ Ask(c, "lock", "tLock") /\ UNCHANGED inTransaction
     \/ /\ pc[c] = "tEnsureLock" \/ (pc[c] = "tEnsureAccess" /\ inTransaction)
        /\ Goto(c, "cb") /\ inTransaction' = TRUE

(* releaseAccess after an operation, whose caller has had the access or not.    *)
GivesAccess(c) ==
  /\ Release(c, {accessId}, "releases")
  /\ past' = IF pc[c] = "beside" THEN past \cup {"foreign"} ELSE past

(* Mutant: it does not ask for the transaction. *)
OperatedReleasing(c) ==
  /\ Settled /\ UNCHANGED <<fileVars, serverVars>>
  /\ \/ pc[c] \in {"works", "beside"} /\ accessId # 0
        /\ Release(c, {accessId}, "releases") /\ UNCHANGED past
     \/ pc[c] \in {"works", "beside"} /\ accessId = 0 /\ Goto(c, "idle") /\ UNCHANGED past
     \/ pc[c] = "tWorks" /\ Goto(c, "cb") /\ UNCHANGED past

(* The operation on the file has answered, and releaseAccess is called, which   *)
(* does nothing in a transaction.                                            *)
Operated(c) ==
  /\ Settled /\ UNCHANGED <<fileVars, serverVars>>
  /\ \/ pc[c] \in {"works", "beside"} /\ ~inTransaction /\ accessId # 0 /\ GivesAccess(c)
     \/ /\ pc[c] \in {"works", "beside"} /\ (inTransaction \/ accessId = 0)
        /\ Goto(c, "idle") /\ UNCHANGED past
     \/ pc[c] = "tWorks" /\ Goto(c, "cb") /\ UNCHANGED past

(* The operation throws: a transaction catches it, otherwise what access there  *)
(* is is kept.                                                               *)
Throws(c) ==
  /\ Settled /\ Goto(c, "idle") /\ UNCHANGED <<fileVars, serverVars>>
  /\ \/ pc[c] = "works" /\ past' = past \cup {"failed"}
     \/ pc[c] = "beside" /\ UNCHANGED past

-----------------------------------------------------------------------------
(* lock, unlock and unlockAll, which do nothing in a transaction.              *)

Lock(c) ==
  /\ pc[c] = "idle" /\ Ready /\ UNCHANGED <<fileVars, past>>
  /\ \/ ~inTransaction /\ Room(1 + Spare) /\ Ask(c, "lock", "lock")
     \/ inTransaction /\ Room(0) /\ Goto(c, "lockless") /\ UNCHANGED serverVars

(* The last id of the queue is released, whoever has put it there. *)
Unlock(c, to) ==
  /\ ~inTransaction /\ lockQueue # <<>>
  /\ lockQueue' = Front(lockQueue)
  /\ Release(c, {Last(lockQueue)}, to)
  /\ UNCHANGED <<inTransaction, enterTransaction, valid, transactionQueue, serverVars>>

UnlockOne(c) ==
  /\ pc[c] \in {"locked", "lockless"} /\ UNCHANGED accessId
  /\ \/ /\ Unlock(c, "unlocks")
        /\ past' = IF pc[c] = "lockless" THEN past \cup {"foreign"} ELSE past
     \/ /\ lockQueue = <<>> \/ (inTransaction /\ pc[c] = "lockless")
        /\ Goto(c, "idle") /\ UNCHANGED <<fileVars, serverVars, past>>

(* The ids stay in the queue. *)
UnlockAll(c) ==
  /\ pc[c] = "locked" /\ ~inTransaction
  /\ Release(c, Range(lockQueue), "unlocks")
  /\ past' = past \cup {"unlockedAll"}
  /\ UNCHANGED <<fileVars, serverVars>>

-----------------------------------------------------------------------------
(* Transactions. *)

(* startTransaction once enterTransaction is set: getAccess and lock answer at  *)
(* once when another transaction is under way.                               *)
Enter(c) ==
  /\ enterTransaction' = TRUE
  /\ \/ ~inTransaction /\ Ask(c, "access", "tAccess")
     \/ inTransaction /\ Goto(c, "cb") /\ UNCHANGED serverVars
  /\ UNCHANGED <<inTransaction, accessId, valid, lockQueue>>

(* startTransaction waits for the transaction under way, or enters; between the *)
(* end of that one and the resumption of the next it enters before the next.  *)
StartTransaction(c) ==
  /\ pc[c] = "idle" /\ Ready /\ Room(IF inTransaction /\ ~enterTransaction THEN 0 ELSE 2)
  /\ \/ /\ ~enterTransaction /\ Enter(c) /\ UNCHANGED transactionQueue
        /\ past' = IF \E d \in Caller : pc[d] = "enter" THEN past \cup {"overtaken"} ELSE past
     \/ /\ enterTransaction /\ transactionQueue' = Append(transactionQueue, c)
        /\ Goto(c, "queue")
        /\ UNCHANGED <<inTransaction, enterTransaction, accessId, valid, lockQueue, serverVars, past>>

(* The callback has answered, or thrown: endTransaction. *)
EndTransaction(c) ==
  /\ pc[c] = "cb" /\ inTransaction' = FALSE
  /\ Release(c, {accessId} \ {0}, "tReleases")
  /\ UNCHANGED <<enterTransaction, accessId, valid, lockQueue, transactionQueue,
                 serverVars, past>>

(* Mutant: only the flag is reset. *)
LeaveAlone(c) ==
  /\ enterTransaction' = FALSE /\ Goto(c, "idle")
  /\ UNCHANGED <<transactionQueue, inTransaction, valid, lockQueue, serverVars>>

(* The end of endTransaction: the promise of the next one is resolved.         *)
Leave(c) ==
  /\ enterTransaction' = FALSE
  /\ IF transactionQueue = <<>>
     THEN Goto(c, "idle") /\ UNCHANGED transactionQueue
     ELSE /\ pc' = [pc EXCEPT ![c] = "idle", ![Head(transactionQueue)] = "enter"]
          /\ transactionQueue' = Tail(transactionQueue)
          /\ UNCHANGED <<awaits, reqHash, request>>
  /\ UNCHANGED <<inTransaction, valid, lockQueue, serverVars>>

(* A message: the answer to the release of i. *)
Released(i) ==
  /\ request[i].at = "freed"
  /\ request' = [request EXCEPT ![i].at = "released"]
  /\ awaits' = IF reqHash[i] = NoCaller THEN awaits
               ELSE [awaits EXCEPT ![reqHash[i]] = @ \ {i}]
  /\ UNCHANGED <<pc, fileVars, reqHash, serverVars, past>>

(* releaseAccess after its release, though the id may be a new one by then.     *)
ResetAccess ==
  /\ accessId' = 0
  /\ past' = IF accessId # 0 /\ request[accessId].at # "released" THEN past \cup {"reset"}
             ELSE past

(* Mutant: endTransaction does not unlock. *)
ResumeLocked(c) ==
  /\ Resumable(c)
  /\ \/ pc[c] \in {"named", "unlocks"} /\ Goto(c, "idle") /\ UNCHANGED <<fileVars, serverVars, past>>
     \/ /\ pc[c] = "releases" /\ Goto(c, "idle") /\ ResetAccess
        /\ UNCHANGED <<inTransaction, enterTransaction, valid, lockQueue, transactionQueue, serverVars>>
     \/ pc[c] = "tReleases" /\ ResetAccess /\ Leave(c)
     \/ pc[c] = "enter" /\ Enter(c) /\ UNCHANGED <<transactionQueue, past>>

(* Those who awaited it go on: after releaseAccess, endTransaction unlocks,      *)
(* unless there is nothing to unlock or another transaction is under way.      *)
Resume(c) ==
  /\ Resumable(c)
  /\ \/ pc[c] \in {"named", "unlocks"} /\ Goto(c, "idle") /\ UNCHANGED <<fileVars, serverVars, past>>
     \/ /\ pc[c] = "releases" /\ Goto(c, "idle") /\ ResetAccess
        /\ UNCHANGED <<inTransaction, enterTransaction, valid, lockQueue, transactionQueue, serverVars>>
     \/ pc[c] = "tReleases" /\ Unlock(c, "tUnlocks") /\ ResetAccess
     \/ /\ pc[c] = "tReleases" /\ (inTransaction \/ lockQueue = <<>>)
        /\ Leave(c) /\ ResetAccess
     \/ pc[c] = "tUnlocks" /\ Leave(c) /\ UNCHANGED <<accessId, past>>
     \/ pc[c] = "enter" /\ Enter(c) /\ UNCHANGED <<transactionQueue, past>>

-----------------------------------------------------------------------------
(* unlink, which throws in a transaction, and waitForUnlock. *)

Unlink(c) ==
  /\ pc[c] = "idle" /\ Ready /\ Room(1 + Spare)
  /\ \/ ~enterTransaction /\ Ask(c, "unlink", "unlink")
     \/ Ask(c, "unlink", "waitForUnlock")
  /\ UNCHANGED <<fileVars, past>>

(* The file is deleted; when that throws, neither the server nor the caller is  *)
(* told.                                                                     *)
Unlinked(c) ==
  /\ Settled /\ pc[c] = "unlinks"
  /\ \/ /\ \E i \in Id : reqHash[i] = c /\ request[i] = [action |-> "unlink", at |-> "given"]
                         /\ GiveBack(i)
        /\ pc' = [pc EXCEPT ![c] = "idle"] /\ valid' = FALSE
        /\ UNCHANGED <<awaits, past>>
     \/ Goto(c, "stuck") /\ past' = past \cup {"failed"} /\ UNCHANGED valid
  /\ UNCHANGED <<inTransaction, enterTransaction, accessId, lockQueue, transactionQueue, serverVars>>

-----------------------------------------------------------------------------
ServerNext(i) == Arrive(i) \/ Grant(i) \/ HandleRelease(i)
Messages(i)   == Answer(i) \/ Released(i)
CallerStep(c) == Ensured(c) \/ Operated(c) \/ UnlockOne(c) \/ EndTransaction(c)
Call(c)       == Operate(c) \/ Lock(c) \/ StartTransaction(c) \/ Unlink(c)

FileNext ==
  \/ \E i \in Id : ServerNext(i) \/ Messages(i)
  \/ OtherProcess
  \/ \E c \in Flow : Resume(c)
  \/ \E c \in Caller : CallerStep(c) \/ Call(c) \/ Throws(c) \/ UnlockAll(c) \/ Unlinked(c)

FileSpec == FileInit /\ [][FileNext]_objectVars

(* Messages arrive, promises settle, file operations come to an end and locks    *)
(* are given back: since each of these uses up a request or a call, it is enough *)
(* that one of them goes on, but while a transaction is under way, when calls   *)
(* of outsiders use up nothing: each file operation ends, and so does the       *)
(* callback.  The resolver's queue serves whoever waits in turn, and the other  *)
(* process ends its accesses.                                                *)
Progress ==
  \/ \E i \in Id : Arrive(i) \/ HandleRelease(i) \/ Messages(i)
  \/ \E c \in Flow : Resume(c)
  \/ \E c \in Caller : Ensured(c) \/ Operated(c) \/ UnlockOne(c) \/ Unlinked(c)

FileFairness ==
  /\ WF_objectVars(Progress)
  /\ \A c \in Caller : WF_objectVars(Operated(c))
  /\ SF_objectVars(\E c \in Caller : EndTransaction(c))
  /\ SF_objectVars(\E i \in Id : Grant(i))
  /\ WF_objectVars(OtherProcess /\ accessors = {Other})

FairSpec == FileSpec /\ FileFairness

-----------------------------------------------------------------------------
(* Properties. *)

Working(c) == pc[c] \in {"works", "cb", "tWorks"}

(* Of those who have been given the file one works on it at a time, and he has *)
(* the access by the id that he will release, in a transaction a lock besides:  *)
(* whatever outsiders do meanwhile who operate beside a transaction, until one *)
(* of them gives back what is another's.                                      *)
HasFile ==
  ~doomed /\ past = {} => \A c \in Caller : Working(c) =>
    /\ accessors = {accessId}
    /\ \A d \in Caller : Working(d) => d = c
    /\ pc[c] # "works" => lockers \cap Range(lockQueue) # {}

(* When no method is under way the server keeps nothing for this file object.   *)
NothingKept ==
  ~doomed /\ past = {} /\ (\A c \in Flow : pc[c] = "idle") =>
    /\ accessors \subseteq {Other} /\ lockers = {} /\ accessId = 0
    /\ ~enterTransaction /\ transactionQueue = <<>>

(* Every method comes to an end, unless the file is deleted meanwhile or one of *)
(* the things in past has happened: releases of one id by two callers leave the *)
(* first of them waiting for ever, and cleared or forgotten ids are kept.      *)
CallsEnd ==
  \A c \in Caller : pc[c] # "idle" ~> pc[c] = "idle" \/ doomed \/ past # {}

=============================================================================
