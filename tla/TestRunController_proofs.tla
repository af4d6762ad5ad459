----------------------- MODULE TestRunController_proofs -----------------------
(***************************************************************************)
(* No test is in two places, none is executed more than RetryCount + 1     *)
(* times, and a run that an error has left does not answer that all is     *)
(* well: for any number of workers, tests and retries, whatever hooks      *)
(* throw and whenever the run is killed.                                   *)
(*                                                                         *)
(* The first two follow from what is true of each place a test can be in: a *)
(* queued test was executed retryCount times at most, a handled one once   *)
(* more when its turn has begun, and a loop gives its test up in the step  *)
(* that queues the retry.                                                  *)
(*                                                                         *)
(* A run whose loops no error leaves does more: it ends when all is done,  *)
(* answers with the tests that failed and implements TestOutcomes.  What a  *)
(* test has been through is told by the place it is in, so that each is    *)
(* accounted for when no place holds it any more.                          *)
(***************************************************************************)
EXTENDS TestRunController, FiniteSetTheorems, TLAPS

(* The steps of a loop before and after its test is given to the worker.     *)
Early == {"shouldNotStart", "beforeTest"}
Late  == {"executing", "killing", "shouldNotRetry", "delay", "afterTest",
          "bailing", "failedAfterTest"}

(* Nothing has begun before the workers are spawned. *)
Prelude ==
  /\ phase \in {"beforeRun", "shouldNotExecute"} => \A w \in Worker : pc[w] = "unspawned"
  /\ phase = "beforeRun" => \A t \in Test : attempts[t] = 0

(* A test is in one place: in one place of the queue or in one loop.          *)
QueueApart == \A i, j \in DOMAIN queue : queue[i].test = queue[j].test => i = j
LoopsApart == \A w, v \in Worker :
  pc[w] \in Early \cup Late /\ pc[v] \in Early \cup Late /\ item[w].test = item[v].test => w = v
BothApart  == \A w \in Worker : \A i \in DOMAIN queue :
  pc[w] \in Early \cup Late => item[w].test # queue[i].test

(* How often a test was executed, by the place it is in.                      *)
QueueTries == \A i \in DOMAIN queue : attempts[queue[i].test] <= queue[i].retryCount
EarlyTries == \A w \in Worker :
  pc[w] \in Early => attempts[item[w].test] <= item[w].retryCount
LateTries  == \A w \in Worker :
  pc[w] \in Late => attempts[item[w].test] <= item[w].retryCount + 1

(* A retry is awaited only while one is left.                                 *)
RetryLeft == \A w \in Worker : pc[w] = "delay" => item[w].retryCount < RetryCount

Places == QueueApart /\ LoopsApart /\ BothApart
Tries  == QueueTries /\ EarlyTries /\ LateTries /\ AttemptsBounded

RunInv == TypeOK /\ RetryLeft /\ Prelude /\ Places /\ Tries

-----------------------------------------------------------------------------
(* The two operations on the queue. *)

LEMMA HeadTail ==
  ASSUME NEW q \in Seq(Item), q # <<>>
  PROVE  /\ Head(q) \in Item /\ Tail(q) \in Seq(Item)
         /\ 1 \in DOMAIN q /\ Head(q) = q[1]
         /\ \A i \in DOMAIN Tail(q) :
              i + 1 \in DOMAIN q /\ Tail(q)[i] = q[i + 1] /\ i \in Nat /\ i + 1 # 1
OBVIOUS

LEMMA Appended ==
  ASSUME NEW q \in Seq(Item), NEW it \in Item
  PROVE  /\ Append(q, it) \in Seq(Item)
         /\ \A i \in DOMAIN Append(q, it) :
              \/ i \in DOMAIN q /\ Append(q, it)[i] = q[i]
              \/ i = Len(q) + 1 /\ Append(q, it)[i] = it
OBVIOUS

LEMMA ItemFields ==
  ASSUME NEW it \in Item
  PROVE  it.test \in Test /\ it.retryCount \in Nat /\ it.retryCount <= RetryCount
BY ControllerAssumption DEF Item

LEMMA QueueItems ==
  ASSUME NEW q \in Seq(Item), NEW i \in DOMAIN q
  PROVE  q[i] \in Item
OBVIOUS

(* A loop that has a test has an item of the queue.                           *)
LEMMA HeldItem ==
  ASSUME TypeOK, NEW w \in Worker, pc[w] \notin Resting
  PROVE  item[w] \in Item
BY DEF TypeOK

-----------------------------------------------------------------------------
(* What the actions of a loop that do not touch the queue have in common.     *)

Moves(w) ==
  /\ UNCHANGED <<runVars, queue, killing>>
  /\ pc[w] \notin Resting
  /\ \/ /\ pc' = [pc EXCEPT ![w] = "loop"]
        /\ item' = [item EXCEPT ![w] = None]
     \/ /\ UNCHANGED item
        /\ \E at \in Busy \cup Broken :
             /\ pc' = [pc EXCEPT ![w] = at]
             /\ at \in Early => pc[w] \in Early
             /\ at \in Late => pc[w] \in Early \cup Late
             /\ at = "delay" => item[w].retryCount < RetryCount

LEMMA CaughtMoves ==
  ASSUME NEW w \in Worker, pc[w] \in Early \cup Late, Caught(w),
         UNCHANGED <<runVars, queue, errors, killing>>
  PROVE  Moves(w) /\ UNCHANGED attempts
<1>1. \E at \in {"bailing", "shouldNotRetry"} : pc' = [pc EXCEPT ![w] = at]
  BY DEF Caught, Goto
<1>2. pc[w] \notin Resting
  BY DEF Early, Late, Resting
<1>3. UNCHANGED <<item, attempts>>
  BY DEF Caught
<1> QED
  BY <1>1, <1>2, <1>3 DEF Moves, Early, Late, Busy, Trying

LEMMA WorkerMoves ==
  ASSUME NEW w \in Worker,
         \/ ShouldNotStart(w) \/ Execute(w) \/ WorkerKilled(w) \/ AfterTest(w)
         \/ BailAfterTest(w) \/ ShouldNotRetry(w) \/ FailureReported(w)
  PROVE  Moves(w) /\ UNCHANGED attempts
<1>1. CASE ShouldNotStart(w)
  <2>1. pc[w] \in Early /\ pc[w] \notin Resting
    BY <1>1 DEF ShouldNotStart, Early, Resting
  <2>2. UNCHANGED <<runVars, queue, errors, killing>>
    BY <1>1 DEF ShouldNotStart
  <2>3. CASE Caught(w)
    BY <2>1, <2>2, <2>3, CaughtMoves
  <2>4. CASE Return(w) /\ UNCHANGED <<attempts, reports>>
    BY <2>1, <2>2, <2>4 DEF Return, Goto, Moves
  <2>5. CASE Goto(w, "beforeTest") /\ UNCHANGED <<item, history>>
    BY <2>1, <2>2, <2>5 DEF Goto, Moves, history, Early, Late, Busy
  <2> QED
    BY <1>1, <2>3, <2>4, <2>5 DEF ShouldNotStart
<1>2. CASE Execute(w)
  <2>1. pc[w] \in Late /\ pc[w] \notin Resting
    BY <1>2 DEF Execute, Late, Resting
  <2>2. UNCHANGED <<runVars, queue, errors, killing>>
    BY <1>2 DEF Execute
  <2>3. CASE Caught(w)
    BY <2>1, <2>2, <2>3, CaughtMoves
  <2>4. CASE (Goto(w, "afterTest") \/ Goto(w, "killing")) /\ UNCHANGED <<item, attempts>>
    BY <2>1, <2>2, <2>4 DEF Goto, Moves, Early, Late, Busy, Trying
  <2> QED
    BY <1>2, <2>3, <2>4 DEF Execute, history
<1>3. CASE WorkerKilled(w)
  BY <1>3, CaughtMoves DEF WorkerKilled, Late
<1>4. CASE AfterTest(w)
  <2>1. pc[w] \in Late /\ pc[w] \notin Resting
    BY <1>4 DEF AfterTest, Late, Resting
  <2>2. UNCHANGED <<runVars, queue, errors, killing>>
    BY <1>4 DEF AfterTest
  <2>3. CASE Caught(w)
    BY <2>1, <2>2, <2>3, CaughtMoves
  <2>4. CASE Return(w) /\ UNCHANGED history
    BY <2>1, <2>2, <2>4 DEF Return, Goto, Moves, history
  <2> QED
    BY <1>4, <2>3, <2>4 DEF AfterTest
<1>5. CASE BailAfterTest(w)
  BY <1>5 DEF BailAfterTest, Goto, Moves, history, Resting, Early, Late, Busy, Broken
<1>6. CASE ShouldNotRetry(w)
  <2>1. pc[w] = "shouldNotRetry" /\ pc[w] \in Late /\ pc[w] \notin Resting
    BY <1>6 DEF ShouldNotRetry, Late, Resting
  <2>2. UNCHANGED <<runVars, queue, item, killing, attempts>>
    BY <1>6 DEF ShouldNotRetry
  <2>3. \/ Goto(w, "rejected") \/ Goto(w, "failedAfterTest")
        \/ item[w].retryCount < RetryCount /\ Goto(w, "delay")
    BY <1>6 DEF ShouldNotRetry
  <2> QED
    BY <2>1, <2>2, <2>3 DEF Goto, Moves, Early, Late, Busy, Broken, Trying
<1>7. CASE FailureReported(w)
  <2>1. pc[w] \in {"beforeTestRetry", "failedAfterTest"} /\ pc[w] \notin Resting
    BY <1>7 DEF FailureReported, Resting
  <2>2. UNCHANGED <<runVars, queue, killing, attempts>>
    BY <1>7 DEF FailureReported, history
  <2>3. Return(w) \/ (Goto(w, "rejected") /\ UNCHANGED item)
    BY <1>7 DEF FailureReported
  <2> QED
    BY <2>1, <2>2, <2>3 DEF Return, Goto, Moves, Early, Late, Broken
<1> QED
  BY <1>1, <1>2, <1>3, <1>4, <1>5, <1>6, <1>7

(* A move leaves every test in its place and every bound valid. *)
LEMMA MovesKeep ==
  ASSUME RunInv, NEW w \in Worker, Moves(w), UNCHANGED attempts
  PROVE  RetryLeft' /\ Prelude' /\ Places' /\ Tries'
<1> DEFINE held(v) == pc[v] \in Early \cup Late
<1>1. /\ UNCHANGED <<phase, queue, attempts>>
      /\ pc[w] # "unspawned"
      /\ pc \in [Worker -> Resting \cup Busy \cup Broken]
      /\ item \in [Worker -> Item \cup {None}]
  BY DEF Moves, runVars, RunInv, TypeOK, Resting
<1>2. ASSUME NEW v \in Worker, v # w
      PROVE  pc'[v] = pc[v] /\ item'[v] = item[v]
  BY <1>1, <1>2 DEF Moves
<1>3. \/ pc'[w] = "loop"
      \/ /\ item'[w] = item[w]
         /\ pc'[w] \in Early => pc[w] \in Early
         /\ pc'[w] \in Late => pc[w] \in Early \cup Late
         /\ pc'[w] = "delay" => item[w].retryCount < RetryCount
  BY <1>1 DEF Moves
<1>4. "loop" \notin Early \cup Late /\ "loop" # "delay"
  BY DEF Early, Late
<1>5. ASSUME NEW v \in Worker, pc'[v] \in Early \cup Late
      PROVE  pc[v] \in Early \cup Late /\ item'[v] = item[v]
  BY <1>2, <1>3, <1>4, <1>5
<1>6. RetryLeft'
  BY <1>2, <1>3, <1>4 DEF RunInv, RetryLeft
<1>7. Prelude'
  BY <1>1 DEF RunInv, Prelude
<1>8. Places'
  BY <1>1, <1>5 DEF RunInv, Places, QueueApart, LoopsApart, BothApart
<1>9. EarlyTries'
  BY <1>1, <1>2, <1>3, <1>4 DEF RunInv, Tries, EarlyTries
<1>10. LateTries'
  <2> SUFFICES ASSUME NEW v \in Worker, pc'[v] \in Late
               PROVE  attempts[item[v].test] <= item[v].retryCount + 1
    BY <1>1, <1>5 DEF LateTries
  <2>1. CASE pc[v] \in Late
    BY <2>1 DEF RunInv, Tries, LateTries
  <2>2. CASE pc[v] \in Early
    <3>1. item[v] \in Item
      BY <2>2, HeldItem DEF RunInv, Early, Resting
    <3>2. attempts[item[v].test] \in Nat /\ item[v].retryCount \in Nat
      BY <3>1, ItemFields DEF RunInv, TypeOK
    <3> QED
      BY <2>2, <3>2 DEF RunInv, Tries, EarlyTries
  <2> QED
    BY <1>5, <2>1, <2>2
<1>11. QueueTries' /\ AttemptsBounded'
  BY <1>1 DEF RunInv, Tries, QueueTries, AttemptsBounded
<1> QED
  BY <1>6, <1>7, <1>8, <1>9, <1>10, <1>11 DEF Tries

-----------------------------------------------------------------------------
(* The steps that move a test or count an execution. *)

LEMMA TakeTestKeeps ==
  ASSUME RunInv, NEW w \in Worker, TakeTest(w)
  PROVE  RetryLeft' /\ Prelude' /\ Places' /\ Tries'
<1>1. /\ UNCHANGED <<phase, attempts>>
      /\ pc[w] = "loop"
      /\ pc \in [Worker -> Resting \cup Busy \cup Broken]
      /\ item \in [Worker -> Item \cup {None}]
      /\ queue \in Seq(Item)
  BY DEF TakeTest, runVars, history, RunInv, TypeOK
<1>2. AttemptsBounded'
  BY <1>1 DEF RunInv, Tries, AttemptsBounded
<1>3. Prelude'
  BY <1>1 DEF RunInv, Prelude
<1>4. CASE queue = <<>> /\ Goto(w, "finished") /\ UNCHANGED <<queue, item>>
  <2>1. ASSUME NEW v \in Worker, pc'[v] \in Early \cup Late
        PROVE  pc'[v] = pc[v]
    BY <1>1, <1>4, <2>1 DEF Goto, Early, Late
  <2>2. RetryLeft'
    BY <1>1, <1>4 DEF RunInv, RetryLeft, Goto
  <2>3. Places'
    BY <1>4, <2>1 DEF RunInv, Places, QueueApart, LoopsApart, BothApart
  <2>4. Tries'
    BY <1>1, <1>2, <1>4, <2>1 DEF RunInv, Tries, QueueTries, EarlyTries, LateTries
  <2> QED
    BY <1>3, <2>2, <2>3, <2>4
<1>5. CASE queue # <<>> /\ Goto(w, "shouldNotStart")
           /\ item' = [item EXCEPT ![w] = Head(queue)] /\ queue' = Tail(queue)
  <2>1. /\ 1 \in DOMAIN queue
        /\ item'[w] = queue[1] /\ pc'[w] = "shouldNotStart"
        /\ \A v \in Worker \ {w} : item'[v] = item[v] /\ pc'[v] = pc[v]
    BY <1>1, <1>5, HeadTail DEF Goto
  <2>2. \A i \in DOMAIN queue' :
          i + 1 \in DOMAIN queue /\ queue'[i] = queue[i + 1] /\ i \in Nat /\ i + 1 # 1
    BY <1>1, <1>5, HeadTail
  <2>3. RetryLeft'
    BY <2>1 DEF RunInv, RetryLeft
  <2>4. QueueApart'
    BY <2>2 DEF RunInv, Places, QueueApart
  <2>5. BothApart'
    <3> SUFFICES ASSUME NEW v \in Worker, NEW i \in DOMAIN queue', pc'[v] \in Early \cup Late
                 PROVE  item'[v].test # queue'[i].test
      BY DEF BothApart
    <3>1. CASE v = w
      BY <2>1, <2>2, <3>1 DEF RunInv, Places, QueueApart
    <3>2. CASE v # w
      BY <2>1, <2>2, <3>2 DEF RunInv, Places, BothApart
    <3> QED
      BY <3>1, <3>2
  <2>6. LoopsApart'
    BY <2>1 DEF RunInv, Places, LoopsApart, BothApart
  <2>7. QueueTries'
    BY <1>1, <2>2 DEF RunInv, Tries, QueueTries
  <2>8. EarlyTries' /\ LateTries'
    BY <1>1, <2>1 DEF RunInv, Tries, QueueTries, EarlyTries, LateTries, Late
  <2> QED
    BY <1>2, <1>3, <2>3, <2>4, <2>5, <2>6, <2>7, <2>8 DEF Places, Tries
<1> QED
  BY <1>4, <1>5 DEF TakeTest

LEMMA BeforeTestKeeps ==
  ASSUME RunInv, NEW w \in Worker, BeforeTest(w)
  PROVE  RetryLeft' /\ Prelude' /\ Places' /\ Tries'
<1>1. /\ UNCHANGED <<runVars, queue, errors, killing>>
      /\ pc[w] = "beforeTest" /\ pc[w] \in Early \cup Late /\ pc[w] \notin Resting
  BY DEF BeforeTest, Early, Resting
<1>2. CASE Caught(w)
  BY <1>1, <1>2, CaughtMoves, MovesKeep
<1>3. CASE Goto(w, "executing") /\ UNCHANGED item
           /\ attempts' = [attempts EXCEPT ![item[w].test] = @ + 1]
  <2> DEFINE t == item[w].test
  <2>1. item[w] \in Item
    BY <1>1, HeldItem DEF RunInv
  <2>2. /\ t \in Test /\ item[w].retryCount \in Nat /\ item[w].retryCount <= RetryCount
        /\ attempts \in [Test -> Nat] /\ attempts[t] \in Nat
        /\ pc \in [Worker -> Resting \cup Busy \cup Broken]
    BY <2>1, ItemFields DEF RunInv, TypeOK
  <2>3. attempts[t] <= item[w].retryCount
    BY <1>1 DEF RunInv, Tries, EarlyTries, Early
  <2>4. /\ attempts'[t] = attempts[t] + 1
        /\ \A u : u # t => attempts'[u] = attempts[u]
    BY <1>3, <2>2
  <2>5. /\ pc'[w] = "executing" /\ item' = item /\ queue' = queue
        /\ \A v \in Worker \ {w} : pc'[v] = pc[v]
    BY <1>1, <1>3, <2>2 DEF Goto
  <2>6. /\ \A v \in Worker : pc'[v] \in Early \cup Late => pc[v] \in Early \cup Late
        /\ \A v \in Worker \ {w} : pc'[v] \in Early \cup Late => item[v].test # t
    BY <1>1, <2>5 DEF RunInv, Places, LoopsApart
  <2>7. \A i \in DOMAIN queue : queue[i].test # t
    BY <1>1 DEF RunInv, Places, BothApart
  <2> HIDE DEF t
  <2>8. RetryLeft'
    BY <2>5 DEF RunInv, RetryLeft
  <2>9. Prelude'
    BY <1>1 DEF RunInv, Prelude, runVars
  <2>10. Places'
    BY <2>5, <2>6 DEF RunInv, Places, QueueApart, LoopsApart, BothApart
  <2>11. QueueTries'
    BY <2>4, <2>5, <2>7 DEF RunInv, Tries, QueueTries
  <2>12. EarlyTries'
    BY <2>4, <2>5, <2>6 DEF RunInv, Tries, EarlyTries, Early, Late
  <2>13. LateTries'
    BY <2>2, <2>3, <2>4, <2>5, <2>6 DEF RunInv, Tries, LateTries, t
  <2>14. AttemptsBounded'
    <3> SUFFICES ASSUME NEW u \in Test PROVE attempts'[u] <= RetryCount + 1
      BY DEF AttemptsBounded
    <3>1. CASE u = t
      BY <2>2, <2>3, <2>4, <3>1, ControllerAssumption
    <3>2. CASE u # t
      BY <2>4, <3>2 DEF RunInv, Tries, AttemptsBounded
    <3> QED
      BY <3>1, <3>2
  <2> QED
    BY <2>8, <2>9, <2>10, <2>11, <2>12, <2>13, <2>14 DEF Tries
<1> QED
  BY <1>2, <1>3 DEF BeforeTest

LEMMA RetryDelayKeeps ==
  ASSUME RunInv, NEW w \in Worker, RetryDelay(w)
  PROVE  RetryLeft' /\ Prelude' /\ Places' /\ Tries'
<1> DEFINE again == [item[w] EXCEPT !.retryCount = @ + 1]
<1>1. /\ UNCHANGED <<phase, item, attempts>>
      /\ pc[w] = "delay" /\ pc[w] \in Late /\ pc[w] \notin Resting
      /\ pc' = [pc EXCEPT ![w] = "beforeTestRetry"]
      /\ queue' = Append(queue, again)
  BY DEF RetryDelay, Goto, runVars, history, Late, Resting
<1>2. item[w] \in Item /\ item[w].retryCount < RetryCount
  BY <1>1, HeldItem DEF RunInv, RetryLeft
<1>3. /\ again \in Item /\ again.test = item[w].test
      /\ again.retryCount = item[w].retryCount + 1
  BY <1>2, ControllerAssumption DEF Item
<1> HIDE DEF again
<1>4. /\ queue \in Seq(Item)
      /\ pc \in [Worker -> Resting \cup Busy \cup Broken]
  BY DEF RunInv, TypeOK
<1>5. \A i \in DOMAIN queue' :
        \/ i \in DOMAIN queue /\ queue'[i] = queue[i]
        \/ i = Len(queue) + 1 /\ queue'[i] = again
  BY <1>1, <1>3, <1>4, Appended
<1>6. \A v \in Worker : pc'[v] \in Early \cup Late => v # w /\ pc'[v] = pc[v]
  BY <1>1, <1>4 DEF Early, Late
<1>7. RetryLeft'
  BY <1>1, <1>4 DEF RunInv, RetryLeft
<1>8. Prelude'
  BY <1>1, <1>4 DEF RunInv, Prelude
<1>9. QueueApart'
  BY <1>1, <1>3, <1>5 DEF RunInv, Places, QueueApart, BothApart
<1>10. BothApart'
  BY <1>1, <1>3, <1>5, <1>6 DEF RunInv, Places, LoopsApart, BothApart
<1>11. LoopsApart'
  BY <1>1, <1>6 DEF RunInv, Places, LoopsApart
<1>12. QueueTries'
  BY <1>1, <1>3, <1>5 DEF RunInv, Tries, QueueTries, LateTries
<1>13. EarlyTries' /\ LateTries' /\ AttemptsBounded'
  BY <1>1, <1>6 DEF RunInv, Tries, EarlyTries, LateTries, AttemptsBounded
<1> QED
  BY <1>7, <1>8, <1>9, <1>10, <1>11, <1>12, <1>13 DEF Places, Tries

LEMMA BeforeRunKeeps ==
  ASSUME RunInv, BeforeRun
  PROVE  RetryLeft' /\ Prelude' /\ Places' /\ Tries'
<1>1. /\ UNCHANGED <<pc, item, attempts>>
      /\ \A w \in Worker : pc[w] = "unspawned"
      /\ \A t \in Test : attempts[t] = 0
  BY DEF BeforeRun, history, RunInv, Prelude
<1>2. \A w \in Worker : pc'[w] \notin Early \cup Late /\ pc'[w] # "delay"
  BY <1>1 DEF Early, Late
<1>3. RetryLeft'
  BY <1>2 DEF RetryLeft
<1>4. Prelude'
  BY <1>1 DEF BeforeRun, Prelude
<1>5. LoopsApart' /\ BothApart' /\ EarlyTries' /\ LateTries'
  BY <1>2 DEF LoopsApart, BothApart, EarlyTries, LateTries
<1>6. AttemptsBounded'
  BY <1>1 DEF RunInv, Tries, AttemptsBounded
<1>7. QueueApart' /\ QueueTries'
  <2>1. CASE UNCHANGED queue
    BY <1>1, <2>1 DEF RunInv, Places, Tries, QueueApart, QueueTries
  <2>2. CASE \E n \in 0..Cardinality(Test) : \E order \in [1..n -> Test] :
               /\ \A i, j \in 1..n : order[i] = order[j] => i = j
               /\ queue' = [i \in 1..n |-> [test |-> order[i], retryCount |-> 0]]
    <3>1. PICK n \in 0..Cardinality(Test) : \E order \in [1..n -> Test] :
               /\ \A i, j \in 1..n : order[i] = order[j] => i = j
               /\ queue' = [i \in 1..n |-> [test |-> order[i], retryCount |-> 0]]
      BY <2>2
    <3>2. PICK order \in [1..n -> Test] :
               /\ \A i, j \in 1..n : order[i] = order[j] => i = j
               /\ queue' = [i \in 1..n |-> [test |-> order[i], retryCount |-> 0]]
      BY <3>1
    <3>3. /\ DOMAIN queue' = 1..n
          /\ \A i \in 1..n : /\ queue'[i].test = order[i] /\ order[i] \in Test
                             /\ queue'[i].retryCount = 0
      BY <3>2
    <3>4. QueueApart'
      BY <3>2, <3>3 DEF QueueApart
    <3>5. QueueTries'
      BY <1>1, <3>3 DEF QueueTries
    <3> QED
      BY <3>4, <3>5
  <2> QED
    BY <2>1, <2>2 DEF BeforeRun
<1> QED
  BY <1>3, <1>4, <1>5, <1>6, <1>7 DEF Places, Tries

(* The other steps of the run and of kill() at most empty the queue or spawn  *)
(* loops without a test.                                                    *)
LEMMA OthersKeep ==
  ASSUME RunInv, UNCHANGED <<item, attempts>>,
         \/ UNCHANGED queue
         \/ queue' = <<>>,
         \/ UNCHANGED pc /\ (phase' = phase \/ phase' \notin {"beforeRun", "shouldNotExecute"})
         \/ /\ \A w \in Worker : pc'[w] = pc[w] \/ pc'[w] = "loop"
            /\ phase' = "running"
  PROVE  RetryLeft' /\ Prelude' /\ Places' /\ Tries'
<1>1. \A w \in Worker : pc'[w] \in Early \cup Late => pc'[w] = pc[w]
  BY DEF Early, Late
<1>2. \A i \in DOMAIN queue' : i \in DOMAIN queue /\ queue'[i] = queue[i]
  BY DEF RunInv, TypeOK
<1>3. RetryLeft'
  BY DEF RunInv, RetryLeft
<1>4. Prelude'
  BY DEF RunInv, Prelude
<1>5. Places'
  BY <1>1, <1>2 DEF RunInv, Places, QueueApart, LoopsApart, BothApart
<1>6. Tries'
  BY <1>1, <1>2 DEF RunInv, Tries, QueueTries, EarlyTries, LateTries, AttemptsBounded
<1> QED
  BY <1>3, <1>4, <1>5, <1>6

-----------------------------------------------------------------------------
(* Types. *)

LoopType ==
  /\ queue \in Seq(Item)
  /\ pc \in [Worker -> Resting \cup Busy \cup Broken]
  /\ item \in [Worker -> Item \cup {None}]
  /\ \A w \in Worker : item[w] = None <=> pc[w] \in Resting

HistoryType ==
  /\ errors \subseteq Test \cup {NoTest}
  /\ attempts \in [Test -> Nat]
  /\ reports \in [Test -> Seq({"passed", "failed"})]
  /\ skipped \subseteq Test

RunType ==
  /\ config \in Configs
  /\ phase \in {"beforeRun", "shouldNotExecute", "running", "afterRun", "afterRunError"} \cup Over
  /\ workers \subseteq Worker
  /\ runError \subseteq Test \cup {NoTest}
  /\ killing \in {"alive", "killing", "killed"}

LEMMA NoneIsNoItem == None \notin Item
BY ControllerAssumption DEF None, Item

LEMMA MovesLoopType ==
  ASSUME TypeOK, NEW w \in Worker, Moves(w)
  PROVE  LoopType'
<1>1. LoopType /\ UNCHANGED queue /\ item[w] \in Item
  BY HeldItem DEF TypeOK, LoopType, Moves
<1>2. CASE /\ pc' = [pc EXCEPT ![w] = "loop"]
           /\ item' = [item EXCEPT ![w] = None]
  <2>1. "loop" \in Resting
    BY DEF Resting
  <2> QED
    BY <1>1, <1>2, <2>1 DEF LoopType
<1>3. CASE UNCHANGED item /\ \E at \in Busy \cup Broken : pc' = [pc EXCEPT ![w] = at]
  <2>1. PICK at \in Busy \cup Broken : pc' = [pc EXCEPT ![w] = at]
    BY <1>3
  <2>2. at \notin Resting
    BY DEF Resting, Busy, Broken, Trying
  <2> QED
    BY <1>1, <1>3, <2>1, <2>2, NoneIsNoItem DEF LoopType
<1> QED
  BY <1>2, <1>3 DEF Moves

LEMMA ReportType ==
  ASSUME TypeOK, NEW w \in Worker, pc[w] \notin Resting,
         NEW what \in {"passed", "failed"}, Report(w, what)
  PROVE  reports' \in [Test -> Seq({"passed", "failed"})]
<1>1. item[w].test \in Test
  BY HeldItem, ItemFields
<1>2. reports \in [Test -> Seq({"passed", "failed"})]
  BY DEF TypeOK
<1>3. Append(reports[item[w].test], what) \in Seq({"passed", "failed"})
  BY <1>1, <1>2
<1> QED
  BY <1>1, <1>2, <1>3 DEF Report

LEMMA CaughtHistory ==
  ASSUME TypeOK, NEW w \in Worker, pc[w] \notin Resting, Caught(w), UNCHANGED errors
  PROVE  HistoryType'
<1>1. UNCHANGED <<errors, attempts, skipped>>
  BY DEF Caught
<1>2. UNCHANGED reports \/ Report(w, "failed")
  BY DEF Caught
<1>3. reports' \in [Test -> Seq({"passed", "failed"})]
  BY <1>2, ReportType DEF TypeOK
<1> QED
  BY <1>1, <1>3 DEF HistoryType, TypeOK

LEMMA WorkerHistoryType ==
  ASSUME TypeOK, NEW w \in Worker, WorkerNext(w)
  PROVE  HistoryType'
<1> DEFINE Reports == [Test -> Seq({"passed", "failed"})]
<1> DEFINE Quiet == errors' = errors /\ attempts' = attempts /\ reports' = reports /\ skipped' = skipped
<1>1. Quiet => HistoryType'
  BY DEF HistoryType, TypeOK
<1>2. CASE TakeTest(w) \/ BailAfterTest(w) \/ RetryDelay(w) \/ FailureReported(w)
  <2>1. Quiet
    BY <1>2 DEF TakeTest, BailAfterTest, RetryDelay, FailureReported, history
  <2> QED
    BY <1>1, <2>1
<1>3. CASE ShouldNotStart(w)
  <2>1. CASE Caught(w)
    BY <1>3, <2>1, CaughtHistory DEF ShouldNotStart, Resting
  <2>2. CASE skipped' = skipped \cup {item[w].test} /\ UNCHANGED <<attempts, reports>>
    <3>1. item[w].test \in Test
      BY <1>3, HeldItem, ItemFields DEF ShouldNotStart, Resting
    <3>2. errors' = errors
      BY <1>3 DEF ShouldNotStart
    <3> QED
      BY <2>2, <3>1, <3>2 DEF HistoryType, TypeOK
  <2>3. CASE UNCHANGED history
    <3>1. Quiet
      BY <1>3, <2>3 DEF ShouldNotStart, history
    <3> QED
      BY <1>1, <3>1
  <2> QED
    BY <1>3, <2>1, <2>2, <2>3 DEF ShouldNotStart
<1>4. CASE BeforeTest(w)
  <2>1. CASE Caught(w)
    BY <1>4, <2>1, CaughtHistory DEF BeforeTest, Resting
  <2>2. CASE attempts' = [attempts EXCEPT ![item[w].test] = @ + 1] /\ UNCHANGED <<reports, skipped>>
    <3>1. errors' = errors
      BY <1>4 DEF BeforeTest
    <3>2. item[w].test \in Test /\ attempts \in [Test -> Nat]
      BY <1>4, HeldItem, ItemFields DEF BeforeTest, Resting, TypeOK
    <3>3. attempts' \in [Test -> Nat]
      BY <2>2, <3>2
    <3> QED
      BY <2>2, <3>1, <3>3 DEF HistoryType, TypeOK
  <2> QED
    BY <1>4, <2>1, <2>2 DEF BeforeTest
<1>5. CASE Execute(w)
  <2>1. CASE Caught(w)
    BY <1>5, <2>1, CaughtHistory DEF Execute, Resting
  <2>2. CASE Report(w, "passed") /\ UNCHANGED <<attempts, skipped>>
    <3>1. reports' \in Reports
      BY <1>5, <2>2, ReportType DEF Execute, Resting
    <3>2. errors' = errors
      BY <1>5 DEF Execute
    <3> QED
      BY <2>2, <3>1, <3>2 DEF HistoryType, TypeOK
  <2>3. CASE UNCHANGED history
    <3>1. Quiet
      BY <1>5, <2>3 DEF Execute, history
    <3> QED
      BY <1>1, <3>1
  <2> QED
    BY <1>5, <2>1, <2>2, <2>3 DEF Execute
<1>6. CASE WorkerKilled(w)
  BY <1>6, CaughtHistory DEF WorkerKilled, Resting
<1>7. CASE AfterTest(w)
  <2>1. CASE Caught(w)
    BY <1>7, <2>1, CaughtHistory DEF AfterTest, Resting
  <2>2. CASE UNCHANGED history
    <3>1. Quiet
      BY <1>7, <2>2 DEF AfterTest, history
    <3> QED
      BY <1>1, <3>1
  <2> QED
    BY <1>7, <2>1, <2>2 DEF AfterTest
<1>8. CASE ShouldNotRetry(w)
  <2>1. pc[w] \notin Resting /\ UNCHANGED <<attempts, skipped>>
    BY <1>8 DEF ShouldNotRetry, Resting
  <2>2. CASE UNCHANGED <<errors, reports>>
    BY <1>1, <2>1, <2>2
  <2>3. CASE errors' = errors \cup {item[w].test} /\ Report(w, "failed")
    <3>1. reports' \in Reports /\ item[w].test \in Test
      BY <2>1, <2>3, ReportType, HeldItem, ItemFields
    <3> QED
      BY <2>1, <2>3, <3>1 DEF HistoryType, TypeOK
  <2> QED
    BY <1>8, <2>2, <2>3 DEF ShouldNotRetry
<1> QED
  BY <1>2, <1>3, <1>4, <1>5, <1>6, <1>7, <1>8 DEF WorkerNext

LEMMA WorkerLoopType ==
  ASSUME TypeOK, RetryLeft, NEW w \in Worker, WorkerNext(w)
  PROVE  LoopType'
<1>1. LoopType
  BY DEF TypeOK, LoopType
<1>2. CASE TakeTest(w)
  <2>1. CASE queue = <<>> /\ Goto(w, "finished") /\ UNCHANGED <<queue, item>>
    BY <1>1, <1>2, <2>1 DEF TakeTest, Goto, LoopType, Resting
  <2>2. CASE queue # <<>> /\ Goto(w, "shouldNotStart")
             /\ item' = [item EXCEPT ![w] = Head(queue)] /\ queue' = Tail(queue)
    <3>1. Head(queue) \in Item /\ queue' \in Seq(Item)
      BY <1>1, <2>2, HeadTail DEF LoopType
    <3>2. pc' \in [Worker -> Resting \cup Busy \cup Broken]
      BY <1>1, <2>2 DEF Goto, LoopType, Busy
    <3>3. item' \in [Worker -> Item \cup {None}]
      BY <1>1, <2>2, <3>1 DEF LoopType
    <3>4. ASSUME NEW v \in Worker
          PROVE  item'[v] = None <=> pc'[v] \in Resting
      <4>1. CASE v = w
        <5>1. item'[v] = Head(queue) /\ pc'[v] = "shouldNotStart"
          BY <1>1, <2>2, <4>1 DEF Goto, LoopType
        <5> QED
          BY <3>1, <5>1, NoneIsNoItem DEF Resting
      <4>2. CASE v # w
        BY <1>1, <2>2, <4>2 DEF Goto, LoopType
      <4> QED
        BY <4>1, <4>2
    <3> QED
      BY <3>1, <3>2, <3>3, <3>4 DEF LoopType
  <2> QED
    BY <1>2, <2>1, <2>2 DEF TakeTest
<1>3. CASE BeforeTest(w)
  <2>1. /\ pc[w] \in Early \cup Late /\ pc[w] \notin Resting
        /\ UNCHANGED <<runVars, queue, errors, killing>>
    BY <1>3 DEF BeforeTest, Early, Resting
  <2>2. CASE Caught(w)
    BY <2>1, <2>2, CaughtMoves, MovesLoopType
  <2>3. CASE Goto(w, "executing") /\ UNCHANGED item
    <3>1. pc' = [pc EXCEPT ![w] = "executing"] /\ UNCHANGED item
      BY <2>3 DEF Goto
    <3>2. "executing" \in Busy /\ "executing" \notin Early /\ "executing" # "delay"
      BY DEF Busy, Trying, Early
    <3>3. Moves(w)
      BY <2>1, <3>1, <3>2 DEF Moves
    <3> QED
      BY <3>3, MovesLoopType
  <2> QED
    BY <1>3, <2>2, <2>3 DEF BeforeTest
<1>4. CASE RetryDelay(w)
  <2> DEFINE again == [item[w] EXCEPT !.retryCount = @ + 1]
  <2>1. /\ pc[w] = "delay" /\ pc[w] \notin Resting /\ UNCHANGED item
        /\ pc' = [pc EXCEPT ![w] = "beforeTestRetry"]
        /\ queue' = Append(queue, again)
    BY <1>4 DEF RetryDelay, Goto, Resting
  <2>2. item[w] \in Item /\ item[w].retryCount < RetryCount
    BY <2>1, HeldItem DEF RetryLeft
  <2>3. again \in Item
    BY <2>2, ControllerAssumption DEF Item
  <2> HIDE DEF again
  <2>4. queue' \in Seq(Item)
    BY <1>1, <2>1, <2>3, Appended DEF LoopType
  <2>5. "beforeTestRetry" \in Busy /\ "beforeTestRetry" \notin Resting
    BY DEF Busy, Resting
  <2> QED
    BY <1>1, <2>1, <2>2, <2>4, <2>5, NoneIsNoItem DEF LoopType
<1>5. CASE \/ ShouldNotStart(w) \/ Execute(w) \/ WorkerKilled(w) \/ AfterTest(w)
           \/ BailAfterTest(w) \/ ShouldNotRetry(w) \/ FailureReported(w)
  BY <1>5, WorkerMoves, MovesLoopType
<1> QED
  BY <1>2, <1>3, <1>4, <1>5 DEF WorkerNext

LEMMA WorkerRunVars ==
  ASSUME NEW w \in Worker, WorkerNext(w)
  PROVE  UNCHANGED <<config, phase, workers, runError, killing>>
<1>1. CASE TakeTest(w) \/ BeforeTest(w) \/ RetryDelay(w)
  BY <1>1 DEF TakeTest, BeforeTest, RetryDelay, runVars
<1>2. CASE \/ ShouldNotStart(w) \/ Execute(w) \/ WorkerKilled(w) \/ AfterTest(w)
           \/ BailAfterTest(w) \/ ShouldNotRetry(w) \/ FailureReported(w)
  BY <1>2, WorkerMoves DEF Moves, runVars
<1> QED
  BY <1>1, <1>2 DEF WorkerNext

LEMMA RunStepType ==
  ASSUME TypeOK, Prelude, RunNext \/ Kill \/ Killed
  PROVE  TypeOK'
<1>1. LoopType'
  <2>1. CASE BeforeRun
    <3>1. CASE UNCHANGED queue
      BY <2>1, <3>1 DEF BeforeRun, TypeOK, LoopType
    <3>2. CASE \E n \in 0..Cardinality(Test) : \E order \in [1..n -> Test] :
                 queue' = [i \in 1..n |-> [test |-> order[i], retryCount |-> 0]]
      <4>1. IsFiniteSet(Test) /\ Cardinality(Test) \in Nat
        BY ControllerAssumption, FS_CardinalityType
      <4>2. PICK n \in 0..Cardinality(Test) : \E order \in [1..n -> Test] :
                 queue' = [i \in 1..n |-> [test |-> order[i], retryCount |-> 0]]
        BY <3>2
      <4>3. PICK order \in [1..n -> Test] :
                 queue' = [i \in 1..n |-> [test |-> order[i], retryCount |-> 0]]
        BY <4>2
      <4>4. \A i \in 1..n : [test |-> order[i], retryCount |-> 0] \in Item
        BY <4>3, ControllerAssumption DEF Item
      <4>5. n \in Nat
        BY <4>1
      <4>6. queue' \in Seq(Item)
        BY <4>3, <4>4, <4>5
      <4> QED
        BY <2>1, <4>6 DEF BeforeRun, TypeOK, LoopType
    <3> QED
      BY <2>1, <3>1, <3>2 DEF BeforeRun
  <2>2. CASE ShouldNotExecute
    <3>1. UNCHANGED <<queue, item>>
      BY <2>2 DEF ShouldNotExecute
    <3>2. CASE UNCHANGED pc
      BY <3>1, <3>2 DEF TypeOK, LoopType
    <3>3. CASE \E spawned \in SUBSET Worker :
                 pc' = [w \in Worker |-> IF w \in spawned THEN "loop" ELSE pc[w]]
      <4>1. PICK spawned \in SUBSET Worker :
                 pc' = [w \in Worker |-> IF w \in spawned THEN "loop" ELSE pc[w]]
        BY <3>3
      <4>2. \A w \in Worker : pc[w] \in Resting
        BY <2>2 DEF ShouldNotExecute, Prelude, Resting
      <4>3. \A w \in Worker : pc'[w] \in Resting
        BY <4>1, <4>2 DEF Resting
      <4>4. pc' \in [Worker -> Resting \cup Busy \cup Broken]
        BY <4>1, <4>3
      <4> QED
        BY <3>1, <4>2, <4>3, <4>4 DEF TypeOK, LoopType
    <3> QED
      BY <2>2, <3>2, <3>3 DEF ShouldNotExecute
  <2>3. CASE AllFinished \/ OneBroken \/ AfterRun \/ AfterRunError \/ Kill
    <3>1. UNCHANGED loopVars
      BY <2>3 DEF AllFinished, OneBroken, AfterRun, AfterRunError, Kill
    <3> QED
      BY <3>1 DEF loopVars, TypeOK, LoopType
  <2>4. CASE Killed
    BY <2>4 DEF Killed, TypeOK, LoopType
  <2> QED
    BY <2>1, <2>2, <2>3, <2>4 DEF RunNext
<1>2. HistoryType'
  <2>1. CASE AfterRunError
    <3>1. errors' \subseteq Test \cup {NoTest}
      BY <2>1 DEF AfterRunError, TypeOK
    <3>2. UNCHANGED history
      BY <2>1 DEF AfterRunError
    <3> QED
      BY <3>1, <3>2 DEF history, TypeOK, HistoryType
  <2>2. CASE ~AfterRunError
    <3>1. UNCHANGED <<errors, history>>
      BY <2>2 DEF RunNext, BeforeRun, ShouldNotExecute, AllFinished, OneBroken, AfterRun, Kill, Killed
    <3> QED
      BY <3>1 DEF history, TypeOK, HistoryType
  <2> QED
    BY <2>1, <2>2
<1>3. RunType'
  <2>1. CASE BeforeRun
    BY <2>1 DEF BeforeRun, TypeOK, RunType, Over
  <2>2. CASE ShouldNotExecute
    <3>1. /\ UNCHANGED <<config, killing>>
          /\ phase' \in {"stopped", "rejected", "afterRunError", "running"}
          /\ runError' = runError \/ runError' = {NoTest}
          /\ workers' = workers \/ workers' \in SUBSET Worker
      BY <2>2 DEF ShouldNotExecute
    <3> QED
      BY <3>1 DEF TypeOK, RunType, Over
  <2>3. CASE OneBroken
    <3>1. PICK w \in Worker : /\ pc[w] \in Broken
                              /\ runError' = {IF pc[w] = "bailed" THEN item[w].test ELSE NoTest}
      BY <2>3 DEF OneBroken
    <3>2. item[w].test \in Test
      BY <3>1, HeldItem, ItemFields DEF Broken, Resting
    <3> QED
      BY <2>3, <3>1, <3>2 DEF OneBroken, TypeOK, RunType
  <2>4. CASE AllFinished
    BY <2>4 DEF AllFinished, TypeOK, RunType
  <2>5. CASE AfterRun
    BY <2>5 DEF AfterRun, TypeOK, RunType, Over
  <2>6. CASE AfterRunError
    BY <2>6 DEF AfterRunError, TypeOK, RunType, Over
  <2>7. CASE Kill
    BY <2>7 DEF Kill, runVars, TypeOK, RunType
  <2>8. CASE Killed
    BY <2>8 DEF Killed, TypeOK, RunType
  <2> QED
    BY <2>1, <2>2, <2>3, <2>4, <2>5, <2>6, <2>7, <2>8 DEF RunNext
<1> QED
  BY <1>1, <1>2, <1>3 DEF TypeOK, LoopType, HistoryType, RunType

-----------------------------------------------------------------------------
(* The invariant. *)

LEMMA RunInvInit == Init => RunInv
<1> SUFFICES ASSUME Init PROVE RunInv
  OBVIOUS
<1>1. /\ queue = <<>> /\ DOMAIN queue = {} /\ queue \in Seq(Item)
      /\ \A w \in Worker : pc[w] = "unspawned" /\ item[w] = None
      /\ \A t \in Test : attempts[t] = 0
  BY DEF Init
<1>2. TypeOK
  <2>1. LoopType
    BY <1>1 DEF Init, LoopType, Resting
  <2>2. HistoryType
    BY DEF Init, HistoryType
  <2>3. RunType
    BY DEF Init, RunType
  <2> QED
    BY <2>1, <2>2, <2>3 DEF TypeOK, LoopType, HistoryType, RunType
<1>3. RetryLeft /\ Prelude
  BY <1>1 DEF RetryLeft, Prelude
<1>4. Places
  BY <1>1 DEF Places, QueueApart, LoopsApart, BothApart, Early, Late
<1>5. QueueTries /\ EarlyTries /\ LateTries
  BY <1>1 DEF QueueTries, EarlyTries, LateTries, Early, Late
<1>6. AttemptsBounded
  BY <1>1, ControllerAssumption DEF AttemptsBounded
<1> QED
  BY <1>2, <1>3, <1>4, <1>5, <1>6 DEF RunInv, Tries

LEMMA RunInvStep == RunInv /\ [KillNext]_vars => RunInv'
<1> SUFFICES ASSUME RunInv, [KillNext]_vars PROVE RunInv'
  OBVIOUS
<1>1. ASSUME NEW w \in Worker, WorkerNext(w)
      PROVE  RunInv'
  <2>1. TypeOK'
    <3>1. RunType'
      BY <1>1, WorkerRunVars DEF RunInv, TypeOK, RunType
    <3>2. LoopType' /\ HistoryType'
      BY <1>1, WorkerLoopType, WorkerHistoryType DEF RunInv
    <3> QED
      BY <3>1, <3>2 DEF TypeOK, LoopType, HistoryType, RunType
  <2>2. RetryLeft' /\ Prelude' /\ Places' /\ Tries'
    <3>1. CASE TakeTest(w)
      BY <3>1, TakeTestKeeps
    <3>2. CASE BeforeTest(w)
      BY <3>2, BeforeTestKeeps
    <3>3. CASE RetryDelay(w)
      BY <3>3, RetryDelayKeeps
    <3>4. CASE \/ ShouldNotStart(w) \/ Execute(w) \/ WorkerKilled(w) \/ AfterTest(w)
               \/ BailAfterTest(w) \/ ShouldNotRetry(w) \/ FailureReported(w)
      BY <3>4, WorkerMoves, MovesKeep
    <3> QED
      BY <1>1, <3>1, <3>2, <3>3, <3>4 DEF WorkerNext
  <2> QED
    BY <2>1, <2>2 DEF RunInv
<1>2. CASE RunNext \/ Kill \/ Killed
  <2>1. TypeOK'
    BY <1>2, RunStepType DEF RunInv
  <2>2. RetryLeft' /\ Prelude' /\ Places' /\ Tries'
    <3>1. CASE BeforeRun
      BY <3>1, BeforeRunKeeps
    <3>2. CASE ShouldNotExecute
      <4>1. UNCHANGED <<item, attempts, queue>>
        BY <3>2 DEF ShouldNotExecute, history
      <4>2. \/ UNCHANGED pc /\ phase' \notin {"beforeRun", "shouldNotExecute"}
            \/ /\ \A w \in Worker : pc'[w] = pc[w] \/ pc'[w] = "loop"
               /\ phase' = "running"
        BY <3>2 DEF ShouldNotExecute
      <4> QED
        BY <4>1, <4>2, OthersKeep
    <3>3. CASE AllFinished \/ OneBroken \/ AfterRun \/ AfterRunError \/ Kill \/ Killed
      <4>1. UNCHANGED <<pc, item, attempts>> /\ (UNCHANGED queue \/ queue' = <<>>)
        BY <3>3 DEF AllFinished, OneBroken, AfterRun, AfterRunError, Kill, Killed, loopVars, history
      <4>2. phase' = phase \/ phase' \notin {"beforeRun", "shouldNotExecute"}
        BY <3>3 DEF AllFinished, OneBroken, AfterRun, AfterRunError, Kill, Killed, runVars
      <4> QED
        BY <4>1, <4>2, OthersKeep
    <3> QED
      BY <1>2, <3>1, <3>2, <3>3 DEF RunNext
  <2> QED
    BY <2>1, <2>2 DEF RunInv
<1>3. CASE UNCHANGED vars
  <2>1. TypeOK'
    BY <1>3 DEF vars, runVars, loopVars, history, RunInv, TypeOK
  <2>2. UNCHANGED <<pc, phase, item, attempts, queue>>
    BY <1>3 DEF vars, runVars, loopVars, history
  <2>3. RetryLeft' /\ Prelude' /\ Places' /\ Tries'
    BY <2>2, OthersKeep
  <2> QED
    BY <2>1, <2>3 DEF RunInv
<1> QED
  BY <1>1, <1>2, <1>3 DEF KillNext, Next

LEMMA RunInvariant == KillSpec => []RunInv
BY RunInvInit, RunInvStep, PTL DEF KillSpec

-----------------------------------------------------------------------------
(* The theorems. *)

(* Every variable keeps to its type, whatever hooks throw and whenever kill() *)
(* comes.                                                                   *)
THEOREM TypeCorrect == KillSpec => []TypeOK
<1>1. RunInv => TypeOK
  BY DEF RunInv
<1> QED
  BY <1>1, RunInvariant, PTL

(* A test is in one place at most: in the queue once, or with one worker.     *)
THEOREM TestsAreInOnePlace == KillSpec => []OnePlace
<1>1. ASSUME RunInv PROVE OnePlace
  <2>1. \A w \in Holding : pc[w] \in Early \cup Late
    BY DEF Holding, Busy, Trying, Early, Late
  <2> SUFFICES ASSUME NEW t \in Test
               PROVE  /\ \A w, v \in Handled(t) : w = v
                      /\ \A i, j \in Queued(t) : i = j
                      /\ \A w \in Handled(t) : \A i \in Queued(t) : FALSE
    BY DEF OnePlace
  <2>2. \A w \in Handled(t) : w \in Worker /\ pc[w] \in Early \cup Late /\ item[w].test = t
    BY <2>1 DEF Handled, Holding
  <2>3. \A i \in Queued(t) : i \in DOMAIN queue /\ queue[i].test = t
    BY DEF Queued
  <2>4. \A w, v \in Handled(t) : w = v
    BY <1>1, <2>2 DEF RunInv, Places, LoopsApart
  <2>5. \A i, j \in Queued(t) : i = j
    BY <1>1, <2>3 DEF RunInv, Places, QueueApart
  <2>6. \A w \in Handled(t) : \A i \in Queued(t) : FALSE
    BY <1>1, <2>2, <2>3 DEF RunInv, Places, BothApart
  <2> QED
    BY <2>4, <2>5, <2>6
<1> QED
  BY <1>1, RunInvariant, PTL

(* A test is executed once and at most RetryCount times again, whatever the   *)
(* hooks, the timeouts and kill() do.                                        *)
THEOREM RetriesAreBounded == KillSpec => []AttemptsBounded
<1>1. RunInv => AttemptsBounded
  BY DEF RunInv, Tries
<1> QED
  BY <1>1, RunInvariant, PTL

-----------------------------------------------------------------------------
(* A run that breaks is reported. *)

(* An error makes the run end with errors; without one it ends after every    *)
(* loop that was started.                                                   *)
Ending ==
  /\ phase \in {"running", "afterRun"} => config.workerLimit # 0
  /\ phase = "afterRunError" => runError # {}
  /\ phase = "afterRun" \/ (phase = "returned" /\ errors = {}) =>
       /\ config.workerLimit # 0
       /\ \A w \in Worker : pc[w] \in {"unspawned", "finished"}

(* A loop that takes a step has begun and has not ended.                      *)
LEMMA LoopsAlive ==
  ASSUME NEW w \in Worker, WorkerNext(w)
  PROVE  pc[w] \notin {"unspawned", "finished"}
<1>1. CASE TakeTest(w) \/ BeforeTest(w) \/ RetryDelay(w)
  BY <1>1 DEF TakeTest, BeforeTest, RetryDelay
<1>2. CASE \/ ShouldNotStart(w) \/ Execute(w) \/ WorkerKilled(w) \/ AfterTest(w)
           \/ BailAfterTest(w) \/ ShouldNotRetry(w) \/ FailureReported(w)
  BY <1>2, WorkerMoves DEF Moves, Resting
<1> QED
  BY <1>1, <1>2 DEF WorkerNext

LEMMA ErrorsGrow ==
  ASSUME KillNext
  PROVE  errors \subseteq errors'
<1>1. ASSUME NEW w \in Worker, WorkerNext(w)
      PROVE  errors \subseteq errors'
  BY <1>1 DEF WorkerNext, TakeTest, ShouldNotStart, BeforeTest, Execute, WorkerKilled, AfterTest,
              BailAfterTest, ShouldNotRetry, RetryDelay, FailureReported
<1>2. CASE RunNext \/ Kill \/ Killed
  BY <1>2 DEF RunNext, BeforeRun, ShouldNotExecute, AllFinished, OneBroken, AfterRun,
              AfterRunError, Kill, Killed
<1> QED
  BY <1>1, <1>2 DEF KillNext, Next

LEMMA EndingStep == Ending /\ [KillNext]_vars => Ending'
<1> SUFFICES ASSUME Ending, [KillNext]_vars PROVE Ending'
  OBVIOUS
<1>1. ASSUME NEW w \in Worker, WorkerNext(w)
      PROVE  Ending'
  <2>1. UNCHANGED <<config, phase, runError>>
    BY <1>1, WorkerRunVars
  <2>2. phase # "afterRun" /\ (phase = "returned" => errors # {})
    BY <1>1, LoopsAlive DEF Ending
  <2>3. errors \subseteq errors'
    BY <1>1, ErrorsGrow DEF KillNext, Next
  <2> QED
    BY <2>1, <2>2, <2>3 DEF Ending
<1>2. CASE BeforeRun
  BY <1>2 DEF BeforeRun, Ending
<1>3. CASE ShouldNotExecute
  BY <1>3 DEF ShouldNotExecute, Ending
<1>4. CASE AllFinished
  BY <1>4 DEF AllFinished, loopVars, Ending
<1>5. CASE OneBroken
  BY <1>5 DEF OneBroken, Ending
<1>6. CASE AfterRun
  BY <1>6 DEF AfterRun, loopVars, Ending
<1>7. CASE AfterRunError
  BY <1>7 DEF AfterRunError, Ending
<1>8. CASE Kill \/ Killed
  BY <1>8 DEF Kill, Killed, runVars, loopVars, Ending
<1>9. CASE UNCHANGED vars
  BY <1>9 DEF vars, runVars, loopVars, Ending
<1> QED
  BY <1>1, <1>2, <1>3, <1>4, <1>5, <1>6, <1>7, <1>8, <1>9 DEF KillNext, Next, RunNext

(* A run that an error has left never returns an empty list of errors,        *)
(* whatever hooks throw, whichever worker bails and whenever kill() comes.   *)
THEOREM BrokenRunsAreReported == KillSpec => []BrokenIsReported
<1>1. Init => Ending
  BY DEF Init, Ending
<1>2. Ending => BrokenIsReported
  BY DEF Ending, BrokenIsReported, Broken
<1> QED
  BY <1>1, <1>2, EndingStep, PTL DEF KillSpec

-----------------------------------------------------------------------------
(* A run in which nothing throws once its workers are there, without bail and *)
(* with a valid limit.  Each of the three is needed: an error or a bailing    *)
(* test ends the run while other workers have tests.                        *)

CalmRun ==
  /\ FailingHooks \subseteq {"beforeRun", "shouldNotExecute"}
  /\ \A c \in Configs : ~c.bail /\ c.workerLimit # 0

(* No loop is left by an error.                                               *)
Unbroken ==
  /\ phase # "afterRunError"
  /\ \A w \in Worker : pc[w] \notin Broken \cup {"bailing"}

(* The run ends with the last loop, and the last loop with the last test.     *)
Drained ==
  /\ phase \in {"afterRun", "returned"} =>
       queue = <<>> /\ \A w \in Worker : pc[w] \in {"unspawned", "finished"}
  /\ phase = "running" /\ queue # <<>> =>
       \E w \in Worker : pc[w] \notin {"unspawned", "finished"}

(* A test that may still be tried has no outcome yet.                         *)
Unsettled == Early \cup Trying
Unreported ==
  /\ phase = "beforeRun" => \A t \in Test : reports[t] = <<>>
  /\ \A i \in DOMAIN queue : reports[queue[i].test] = <<>>
  /\ \A w \in Worker : pc[w] \in Unsettled => reports[item[w].test] = <<>>

Recorded == errors = Failed

(* A test that was tried is settled, or still on its way.                     *)
Accounted == \A t \in Test \ skipped : attempts[t] > 0 =>
  \/ t \in Passed \cup Failed
  \/ \E i \in DOMAIN queue : queue[i].test = t
  \/ \E w \in Worker : pc[w] \in Unsettled /\ item[w].test = t

CalmInv == RunInv /\ Unbroken /\ Drained /\ Unreported /\ Recorded

(* The steps a loop takes in such a run: besides taking a test from the queue *)
(* and returning one, it begins a try, settles the test, or does neither.    *)
Begins(w) ==
  /\ pc[w] = "beforeTest" /\ pc' = [pc EXCEPT ![w] = "executing"]
  /\ attempts' = [attempts EXCEPT ![item[w].test] = @ + 1]
  /\ UNCHANGED <<queue, item, errors, reports, skipped>>

Settles(w, what, at) ==
  /\ pc[w] \in Trying /\ pc' = [pc EXCEPT ![w] = at]
  /\ Report(w, what)
  /\ errors' = IF what = "failed" THEN errors \cup {item[w].test} ELSE errors
  /\ UNCHANGED <<queue, item, attempts, skipped>>

LeavesTest(w) ==
  /\ pc[w] \in Busy \ Trying
  /\ Return(w)
  /\ \/ pc[w] \notin Early /\ UNCHANGED skipped
     \/ skipped' = skipped \cup {item[w].test}
  /\ UNCHANGED <<queue, errors, attempts, reports>>

GoesOn(w, at) ==
  /\ \/ pc[w] = "shouldNotStart" /\ at = "beforeTest"
     \/ pc[w] \in Trying /\ at \in Trying
  /\ pc' = [pc EXCEPT ![w] = at]
  /\ UNCHANGED <<queue, item, errors, attempts, reports, skipped>>

LEMMA CalmCaught ==
  ASSUME CalmRun, TypeOK, NEW w \in Worker, pc[w] \in Trying, Caught(w), UNCHANGED <<queue, errors>>
  PROVE  \E at \in Trying : GoesOn(w, at)
<1>1. ~config.bail
  BY DEF CalmRun, TypeOK
<1>2. "shouldNotRetry" \in Trying /\ GoesOn(w, "shouldNotRetry")
  BY <1>1 DEF Caught, Goto, GoesOn, Trying
<1> QED
  BY <1>2

LEMMA CalmSteps ==
  ASSUME CalmRun, TypeOK, Unbroken, NEW w \in Worker, WorkerNext(w)
  PROVE  \/ TakeTest(w) \/ RetryDelay(w) \/ Begins(w) \/ LeavesTest(w)
         \/ Settles(w, "passed", "afterTest") \/ Settles(w, "failed", "failedAfterTest")
         \/ \E at \in Trying \cup {"beforeTest"} : GoesOn(w, at)
<1>1. \A hook \in {"shouldNotStart", "beforeTest", "afterTest", "shouldNotRetry", "beforeTestRetry"} :
        ~Throws(hook)
  BY DEF CalmRun, Throws
<1>2. CASE ShouldNotStart(w)
  <2>1. pc[w] \in Busy \ Trying /\ pc[w] = "shouldNotStart" /\ UNCHANGED <<queue, errors>>
    BY <1>2 DEF ShouldNotStart, Busy, Trying
  <2> QED
    BY <1>1, <1>2, <2>1 DEF ShouldNotStart, history, Goto, LeavesTest, GoesOn
<1>3. CASE BeforeTest(w)
  BY <1>1, <1>3 DEF BeforeTest, Goto, Begins
<1>4. CASE Execute(w)
  <2>1. pc[w] \in Trying /\ UNCHANGED <<queue, errors>>
    BY <1>4 DEF Execute, Trying
  <2>2. CASE Caught(w)
    BY <2>1, <2>2, CalmCaught
  <2>3. CASE Goto(w, "afterTest") /\ Report(w, "passed") /\ UNCHANGED <<item, attempts, skipped>>
    BY <2>1, <2>3 DEF Goto, Settles
  <2>4. CASE Goto(w, "killing") /\ UNCHANGED <<item, history>>
    BY <2>1, <2>4 DEF Goto, GoesOn, history, Trying
  <2> QED
    BY <1>4, <2>2, <2>3, <2>4 DEF Execute
<1>5. CASE WorkerKilled(w)
  BY <1>5, CalmCaught DEF WorkerKilled, Trying
<1>6. CASE AfterTest(w)
  BY <1>1, <1>6 DEF AfterTest, history, LeavesTest, Busy, Trying, Early
<1>7. CASE BailAfterTest(w)
  BY <1>7 DEF BailAfterTest, Unbroken
<1>8. CASE ShouldNotRetry(w)
  <2>1. pc[w] \in Trying /\ UNCHANGED <<queue, item, attempts, skipped>>
    BY <1>8 DEF ShouldNotRetry, Trying
  <2>2. CASE Goto(w, "delay") /\ UNCHANGED <<errors, reports>>
    BY <2>1, <2>2 DEF Goto, GoesOn, Trying
  <2>3. CASE /\ Goto(w, "failedAfterTest")
             /\ errors' = errors \cup {item[w].test}
             /\ Report(w, "failed")
    BY <2>1, <2>3 DEF Goto, Settles
  <2> QED
    BY <1>1, <1>8, <2>2, <2>3 DEF ShouldNotRetry
<1>9. CASE FailureReported(w)
  <2>1. pc[w] \in {"beforeTestRetry", "failedAfterTest"} /\ Return(w)
    BY <1>1, <1>9 DEF FailureReported
  <2>2. pc[w] \in Busy \ Trying /\ pc[w] \notin Early
    BY <2>1 DEF Busy, Trying, Early
  <2> QED
    BY <1>9, <2>1, <2>2 DEF FailureReported, history, LeavesTest
<1> QED
  BY <1>2, <1>3, <1>4, <1>5, <1>6, <1>7, <1>8, <1>9 DEF WorkerNext

(* What a report adds to the outcomes.                                        *)
LEMMA Reported ==
  ASSUME TypeOK, NEW w \in Worker, pc[w] \notin Resting,
         NEW what \in {"passed", "failed"}, Report(w, what)
  PROVE  /\ Passed' = IF what = "passed" THEN Passed \cup {item[w].test} ELSE Passed
         /\ Failed' = IF what = "failed" THEN Failed \cup {item[w].test} ELSE Failed
         /\ \A t \in Test \ {item[w].test} : reports'[t] = reports[t]
<1> DEFINE t == item[w].test
<1>1. t \in Test
  BY HeldItem, ItemFields
<1>2. reports \in [Test -> Seq({"passed", "failed"})]
  BY DEF TypeOK
<1>3. reports[t] \in Seq({"passed", "failed"})
  BY <1>1, <1>2
<1>4. reports'[t] = Append(reports[t], what) /\ \A u \in Test \ {t} : reports'[u] = reports[u]
  BY <1>1, <1>2 DEF Report
<1>5. /\ \A i \in DOMAIN reports'[t] :
           (i \in DOMAIN reports[t] /\ reports'[t][i] = reports[t][i]) \/ reports'[t][i] = what
      /\ \A i \in DOMAIN reports[t] : i \in DOMAIN reports'[t] /\ reports'[t][i] = reports[t][i]
      /\ \E i \in DOMAIN reports'[t] : reports'[t][i] = what
  <2>1. Len(reports[t]) + 1 \in DOMAIN reports'[t] /\ reports'[t][Len(reports[t]) + 1] = what
    BY <1>3, <1>4
  <2>2. /\ \A i \in DOMAIN reports'[t] :
             (i \in DOMAIN reports[t] /\ reports'[t][i] = reports[t][i]) \/ reports'[t][i] = what
        /\ \A i \in DOMAIN reports[t] : i \in DOMAIN reports'[t] /\ reports'[t][i] = reports[t][i]
    BY <1>3, <1>4
  <2> QED
    BY <2>1, <2>2
<1> HIDE DEF t
<1>6. ASSUME NEW x \in {"passed", "failed"}, NEW u \in Test
      PROVE  (\E i \in DOMAIN reports'[u] : reports'[u][i] = x) <=>
             (\E i \in DOMAIN reports[u] : reports[u][i] = x) \/ (u = t /\ x = what)
  <2>1. CASE u = t
    BY <1>5, <2>1
  <2>2. CASE u # t
    BY <1>4, <2>2
  <2> QED
    BY <2>1, <2>2
<1>7. Passed' = IF what = "passed" THEN Passed \cup {t} ELSE Passed
  BY <1>1, <1>6 DEF Passed
<1>8. Failed' = IF what = "failed" THEN Failed \cup {t} ELSE Failed
  BY <1>1, <1>6 DEF Failed
<1> QED
  BY <1>4, <1>7, <1>8 DEF t

(* A run without kill() does not lose a test it has tried. *)

LEMMA CalmWorkerKeeps ==
  ASSUME CalmRun, CalmInv, NEW w \in Worker, WorkerNext(w)
  PROVE  Unbroken' /\ Drained' /\ Unreported' /\ Recorded'
<1> DEFINE Kept == /\ \A v \in Worker \ {w} : pc'[v] = pc[v] /\ item'[v] = item[v]
                   /\ pc'[w] \notin Broken \cup {"bailing", "unspawned"}
                   /\ pc'[w] = "finished" => queue' = <<>>
<1>1. /\ UNCHANGED phase /\ phase # "beforeRun"
      /\ phase \notin {"afterRun", "returned"}
      /\ pc[w] \notin {"unspawned", "finished"}
  BY WorkerRunVars, LoopsAlive DEF CalmInv, RunInv, Prelude, Drained
<1>2. /\ pc \in [Worker -> Resting \cup Busy \cup Broken]
      /\ item \in [Worker -> Item \cup {None}]
      /\ queue \in Seq(Item)
      /\ TypeOK
  BY DEF CalmInv, RunInv, TypeOK
<1>3. ASSUME Kept, \A v \in Worker : pc'[v] \in Unsettled => reports'[item'[v].test] = <<>>,
             \A i \in DOMAIN queue' : reports'[queue'[i].test] = <<>>, Recorded'
      PROVE  Unbroken' /\ Drained' /\ Unreported' /\ Recorded'
  <2>1. Unbroken'
    BY <1>1, <1>3 DEF CalmInv, Unbroken
  <2>2. Drained'
    BY <1>1, <1>3 DEF Drained
  <2>3. Unreported'
    BY <1>1, <1>3 DEF Unreported
  <2> QED
    BY <1>3, <2>1, <2>2, <2>3
<1>4. /\ \A v \in Worker : pc[v] \in Unsettled => reports[item[v].test] = <<>>
      /\ \A i \in DOMAIN queue : reports[queue[i].test] = <<>>
      /\ errors = Failed
  BY DEF CalmInv, Unreported, Recorded
<1>5. ASSUME UNCHANGED <<errors, reports>>
      PROVE  Recorded'
  BY <1>4, <1>5 DEF Recorded, Failed
<1>6. CASE TakeTest(w)
  <2>1. UNCHANGED <<errors, reports>>
    BY <1>6 DEF TakeTest, history
  <2>2. CASE queue = <<>> /\ Goto(w, "finished") /\ UNCHANGED <<queue, item>>
    <3>1. Kept /\ pc'[w] \notin Unsettled
      BY <1>2, <2>2 DEF Goto, Broken, Unsettled, Early, Trying
    <3> QED
      BY <1>3, <1>4, <1>5, <2>1, <2>2, <3>1
  <2>3. CASE queue # <<>> /\ Goto(w, "shouldNotStart")
             /\ item' = [item EXCEPT ![w] = Head(queue)] /\ queue' = Tail(queue)
    <3>1. Kept /\ item'[w] = queue[1] /\ 1 \in DOMAIN queue
      BY <1>2, <2>3, HeadTail DEF Goto, Broken
    <3>2. \A i \in DOMAIN queue' : i + 1 \in DOMAIN queue /\ queue'[i] = queue[i + 1]
      BY <1>2, <2>3, HeadTail
    <3> QED
      BY <1>3, <1>4, <1>5, <2>1, <3>1, <3>2
  <2> QED
    BY <1>6, <2>2, <2>3 DEF TakeTest
<1>7. CASE RetryDelay(w)
  <2> DEFINE again == [item[w] EXCEPT !.retryCount = @ + 1]
  <2>1. /\ UNCHANGED <<errors, reports, item>> /\ pc[w] = "delay"
        /\ pc' = [pc EXCEPT ![w] = "beforeTestRetry"] /\ queue' = Append(queue, again)
    BY <1>7 DEF RetryDelay, Goto, history
  <2>2. item[w] \in Item /\ item[w].retryCount < RetryCount
    BY <2>1, HeldItem DEF CalmInv, RunInv, RetryLeft, Resting
  <2>3. again \in Item /\ again.test = item[w].test
    BY <2>2, ControllerAssumption DEF Item
  <2>4. reports[item[w].test] = <<>>
    BY <1>4, <2>1 DEF Unsettled, Trying
  <2> HIDE DEF again
  <2>5. \A i \in DOMAIN queue' : reports'[queue'[i].test] = <<>>
    BY <1>2, <1>4, <2>1, <2>3, <2>4, Appended
  <2>6. Kept /\ pc'[w] \notin Unsettled
    BY <1>2, <2>1 DEF Broken, Unsettled, Early, Trying
  <2> QED
    BY <1>3, <1>4, <1>5, <2>1, <2>5, <2>6
<1>8. CASE Begins(w) \/ (\E at \in Trying \cup {"beforeTest"} : GoesOn(w, at))
  <2>1. UNCHANGED <<queue, item, errors, reports>> /\ pc[w] \in Unsettled
    BY <1>8 DEF Begins, GoesOn, Unsettled, Early
  <2>2. \E at \in Trying \cup {"beforeTest"} : pc' = [pc EXCEPT ![w] = at]
    BY <1>8 DEF Begins, GoesOn, Trying
  <2>3. Kept
    BY <1>2, <2>1, <2>2 DEF Broken, Trying
  <2>4. \A v \in Worker : pc'[v] \in Unsettled => pc[v] \in Unsettled
    BY <2>1, <2>3
  <2> QED
    BY <1>3, <1>4, <1>5, <2>1, <2>3, <2>4
<1>9. CASE LeavesTest(w)
  <2>1. /\ UNCHANGED <<queue, errors, reports>>
        /\ pc' = [pc EXCEPT ![w] = "loop"] /\ item' = [item EXCEPT ![w] = None]
    BY <1>9 DEF LeavesTest, Return, Goto
  <2>2. Kept /\ pc'[w] \notin Unsettled
    BY <1>2, <2>1 DEF Broken, Unsettled, Early, Trying
  <2> QED
    BY <1>3, <1>4, <1>5, <2>1, <2>2
<1>10. ASSUME NEW what \in {"passed", "failed"}, NEW at \in {"afterTest", "failedAfterTest"},
              Settles(w, what, at)
       PROVE  Unbroken' /\ Drained' /\ Unreported' /\ Recorded'
  <2>1. /\ pc[w] \in Trying /\ pc[w] \in Early \cup Late /\ pc[w] \notin Resting
        /\ UNCHANGED <<queue, item>> /\ Report(w, what)
        /\ pc' = [pc EXCEPT ![w] = at]
        /\ errors' = IF what = "failed" THEN errors \cup {item[w].test} ELSE errors
    BY <1>10 DEF Settles, Trying, Early, Late, Resting
  <2>2. /\ Failed' = IF what = "failed" THEN Failed \cup {item[w].test} ELSE Failed
        /\ \A t \in Test \ {item[w].test} : reports'[t] = reports[t]
    BY <1>2, <2>1, Reported
  <2>3. Recorded'
    BY <1>4, <2>1, <2>2 DEF Recorded
  <2>4. Kept /\ pc'[w] \notin Unsettled
    BY <1>2, <2>1 DEF Broken, Unsettled, Early, Trying
  <2>5. \A v \in Worker \ {w} : pc[v] \in Unsettled => item[v].test \in Test \ {item[w].test}
    <3> SUFFICES ASSUME NEW v \in Worker \ {w}, pc[v] \in Unsettled
                 PROVE  item[v].test \in Test \ {item[w].test}
      OBVIOUS
    <3>1. pc[v] \in Early \cup Late /\ pc[v] \notin Resting
      BY DEF Unsettled, Early, Late, Trying, Resting
    <3>2. item[v].test # item[w].test
      BY <2>1, <3>1 DEF CalmInv, RunInv, Places, LoopsApart
    <3> QED
      BY <1>2, <3>1, <3>2, HeldItem, ItemFields
  <2>6. \A i \in DOMAIN queue : queue[i].test \in Test \ {item[w].test}
    BY <1>2, <2>1, QueueItems, ItemFields DEF CalmInv, RunInv, Places, BothApart
  <2> QED
    BY <1>3, <1>4, <2>1, <2>2, <2>3, <2>4, <2>5, <2>6
<1> QED
  BY <1>2, <1>6, <1>7, <1>8, <1>9, <1>10, CalmSteps DEF CalmInv

LEMMA SomeSpawned ==
  ASSUME CalmRun, TypeOK, queue # <<>>, NEW spawned \in SUBSET Worker,
         Cardinality(spawned) = WorkerCount
  PROVE  spawned # {}
<1>1. config.workerLimit \in Nat /\ config.workerLimit # 0
  <2>1. Cardinality(Worker) \in Nat
    BY ControllerAssumption, FS_CardinalityType
  <2> QED
    BY <2>1, ControllerAssumption DEF TypeOK, CalmRun
<1>2. Len(queue) \in Nat /\ Len(queue) # 0
  BY DEF TypeOK
<1>3. WorkerCount # 0
  BY <1>1, <1>2 DEF WorkerCount
<1>4. Cardinality({}) = 0
  BY FS_EmptySet
<1> QED
  BY <1>3, <1>4

LEMMA CalmOthersKeep ==
  ASSUME CalmRun, CalmInv, RunNext \/ Kill \/ Killed \/ UNCHANGED vars
  PROVE  /\ Unbroken' /\ Drained' /\ Unreported' /\ Recorded'
         /\ UNCHANGED <<item, errors, history>>
<1>1. /\ ~OneBroken /\ ~AfterRunError /\ ~Throws("afterRun")
      /\ config.workerLimit # 0
  BY DEF CalmInv, Unbroken, OneBroken, AfterRunError, Throws, CalmRun, RunInv, TypeOK
<1>2. UNCHANGED <<item, errors, history>>
  BY <1>1 DEF RunNext, BeforeRun, ShouldNotExecute, AllFinished, AfterRun, Kill, Killed,
              vars, loopVars
<1>3. Recorded'
  BY <1>2 DEF CalmInv, Recorded, Failed, history
<1>4. /\ phase = "beforeRun" => \A t \in Test : reports[t] = <<>>
      /\ \A w \in Worker : pc[w] \in Unsettled => reports[item[w].test] = <<>>
      /\ \A i \in DOMAIN queue : reports[queue[i].test] = <<>>
  BY DEF CalmInv, Unreported
<1>5. CASE BeforeRun
  <2>1. UNCHANGED pc /\ phase' \in {"shouldNotExecute", "rejected"}
    BY <1>5 DEF BeforeRun
  <2>2. \A i \in DOMAIN queue' : queue'[i].test \in Test
    <3>1. TypeOK'
      BY <1>5, RunStepType DEF RunNext, CalmInv, RunInv
    <3> QED
      BY <3>1, QueueItems, ItemFields DEF TypeOK
  <2>3. Unbroken' /\ Drained'
    BY <2>1 DEF CalmInv, Unbroken, Drained
  <2>4. Unreported'
    BY <1>2, <1>4, <1>5, <2>1, <2>2 DEF BeforeRun, Unreported, history
  <2> QED
    BY <1>2, <1>3, <2>3, <2>4
<1>6. CASE ShouldNotExecute
  <2>1. UNCHANGED queue
    BY <1>6 DEF ShouldNotExecute
  <2>2. CASE UNCHANGED pc /\ phase' \in {"stopped", "rejected"}
    <3>1. Unbroken' /\ Drained'
      BY <2>1, <2>2 DEF CalmInv, Unbroken, Drained
    <3>2. Unreported'
      BY <1>2, <1>4, <2>1, <2>2 DEF Unreported, history
    <3> QED
      BY <1>2, <1>3, <3>1, <3>2
  <2>3. CASE /\ phase' = "running"
             /\ \E spawned \in SUBSET Worker :
                  /\ Cardinality(spawned) = WorkerCount
                  /\ pc' = [w \in Worker |-> IF w \in spawned THEN "loop" ELSE pc[w]]
    <3>1. PICK spawned \in SUBSET Worker :
                  /\ Cardinality(spawned) = WorkerCount
                  /\ pc' = [w \in Worker |-> IF w \in spawned THEN "loop" ELSE pc[w]]
      BY <2>3
    <3>2. queue # <<>> => \E w \in Worker : pc'[w] = "loop"
      BY <3>1, SomeSpawned DEF CalmInv, RunInv
    <3>3. \A w \in Worker : pc'[w] = pc[w] \/ pc'[w] = "loop"
      BY <3>1
    <3>4. Unbroken'
      BY <2>3, <3>3 DEF CalmInv, Unbroken, Broken
    <3>5. Drained'
      BY <2>1, <2>3, <3>2 DEF Drained
    <3>6. Unreported'
      BY <1>2, <1>4, <2>1, <2>3, <3>3 DEF Unreported, Unsettled, Early, Trying, history
    <3> QED
      BY <1>2, <1>3, <3>4, <3>5, <3>6
  <2> QED
    BY <1>1, <1>6, <2>2, <2>3 DEF ShouldNotExecute
<1>7. CASE AllFinished \/ AfterRun \/ Kill \/ Killed \/ UNCHANGED vars
  <2>1. UNCHANGED pc /\ (UNCHANGED queue \/ queue' = <<>>)
    BY <1>7 DEF AllFinished, AfterRun, Kill, Killed, vars, loopVars
  <2>2. \/ UNCHANGED phase
        \/ AllFinished /\ phase' = "afterRun" /\ UNCHANGED queue
        \/ phase = "afterRun" /\ phase' = "returned" /\ UNCHANGED queue
    BY <1>1, <1>7 DEF AllFinished, AfterRun, Kill, Killed, vars, loopVars, runVars
  <2>3. Unbroken'
    BY <2>1, <2>2 DEF CalmInv, Unbroken
  <2>4. Drained'
    <3>1. CASE UNCHANGED phase
      BY <2>1, <3>1 DEF CalmInv, Drained
    <3>2. CASE AllFinished /\ phase' = "afterRun" /\ UNCHANGED queue
      BY <2>1, <3>2 DEF CalmInv, Drained, AllFinished
    <3>3. CASE phase = "afterRun" /\ phase' = "returned" /\ UNCHANGED queue
      BY <2>1, <3>3 DEF CalmInv, Drained
    <3> QED
      BY <2>2, <3>1, <3>2, <3>3
  <2>5. Unreported'
    <3>1. \A i \in DOMAIN queue' : i \in DOMAIN queue /\ queue'[i] = queue[i]
      BY <2>1
    <3>2. phase' = "beforeRun" => phase = "beforeRun"
      BY <2>2
    <3> QED
      BY <1>2, <1>4, <2>1, <3>1, <3>2 DEF Unreported, history
  <2> QED
    BY <1>2, <1>3, <2>3, <2>4, <2>5
<1> QED
  BY <1>1, <1>5, <1>6, <1>7 DEF RunNext

LEMMA CalmInvInit == Init => CalmInv
<1> SUFFICES ASSUME Init PROVE CalmInv
  OBVIOUS
<1>1. RunInv
  BY RunInvInit
<1>2. Unbroken /\ Drained
  BY DEF Init, Unbroken, Drained, Broken
<1>3. Unreported
  BY DEF Init, Unreported, Unsettled, Early, Trying
<1>4. Recorded
  BY DEF Init, Recorded, Failed
<1> QED
  BY <1>1, <1>2, <1>3, <1>4 DEF CalmInv

LEMMA CalmInvStep ==
  ASSUME CalmRun
  PROVE  CalmInv /\ [KillNext]_vars => CalmInv'
<1> SUFFICES ASSUME CalmInv, [KillNext]_vars PROVE CalmInv'
  OBVIOUS
<1>1. RunInv'
  BY RunInvStep DEF CalmInv
<1>2. Unbroken' /\ Drained' /\ Unreported' /\ Recorded'
  BY CalmWorkerKeeps, CalmOthersKeep DEF KillNext, Next
<1> QED
  BY <1>1, <1>2 DEF CalmInv

(* In such a run afterRun comes last: no worker has a test any more, and none *)
(* is queued, also when kill() empties the queue meanwhile.                  *)
THEOREM AfterRunComesLast ==
  ASSUME CalmRun
  PROVE  KillSpec => []AfterRunLast
<1>1. CalmInv => AfterRunLast
  BY DEF CalmInv, Unbroken, Drained, AfterRunLast, Resting
<1> QED
  BY <1>1, CalmInvInit, CalmInvStep, PTL DEF KillSpec

(* Where a test is that has no outcome. *)
OnItsWay(t) == \/ \E i \in DOMAIN queue : queue[i].test = t
               \/ \E w \in Worker : pc[w] \in Unsettled /\ item[w].test = t

LEMMA AccountedWorker ==
  ASSUME CalmRun, CalmInv, Accounted, NEW w \in Worker, WorkerNext(w)
  PROVE  Accounted'
<1> SUFFICES ASSUME NEW t \in Test, t \notin skipped', attempts'[t] > 0
             PROVE  t \in Passed' \cup Failed' \/ OnItsWay(t)'
  BY DEF Accounted, OnItsWay
<1>1. /\ pc \in [Worker -> Resting \cup Busy \cup Broken]
      /\ item \in [Worker -> Item \cup {None}]
      /\ queue \in Seq(Item)
      /\ attempts \in [Test -> Nat]
      /\ TypeOK
  BY DEF CalmInv, RunInv, TypeOK
<1>2. t \notin skipped /\ attempts[t] > 0 => t \in Passed \cup Failed \/ OnItsWay(t)
  BY DEF Accounted, OnItsWay
<1>3. ASSUME UNCHANGED reports
      PROVE  Passed' = Passed /\ Failed' = Failed
  BY <1>3 DEF Passed, Failed
<1>4. CASE TakeTest(w)
  <2>1. UNCHANGED <<attempts, reports, skipped>>
    BY <1>4 DEF TakeTest, history
  <2>2. CASE queue = <<>> /\ Goto(w, "finished") /\ UNCHANGED <<queue, item>>
    <3>1. pc[w] \notin Unsettled /\ \A v \in Worker \ {w} : pc'[v] = pc[v]
      BY <1>1, <1>4, <2>2 DEF TakeTest, Goto, Unsettled, Early, Trying
    <3> QED
      BY <1>2, <1>3, <2>1, <2>2, <3>1 DEF OnItsWay
  <2>3. CASE queue # <<>> /\ Goto(w, "shouldNotStart")
             /\ item' = [item EXCEPT ![w] = Head(queue)] /\ queue' = Tail(queue)
    <3>1. /\ pc[w] \notin Unsettled /\ pc'[w] \in Unsettled /\ item'[w] = queue[1]
          /\ \A v \in Worker \ {w} : pc'[v] = pc[v] /\ item'[v] = item[v]
      BY <1>1, <1>4, <2>3, HeadTail DEF TakeTest, Goto, Unsettled, Early, Trying
    <3>2. \A i \in DOMAIN queue : i # 1 => i - 1 \in DOMAIN queue' /\ queue'[i - 1] = queue[i]
      BY <1>1, <2>3
    <3>3. ASSUME NEW i \in DOMAIN queue, queue[i].test = t
          PROVE  OnItsWay(t)'
      <4>1. CASE i = 1
        BY <3>1, <3>3, <4>1 DEF OnItsWay
      <4>2. CASE i # 1
        BY <3>2, <3>3, <4>2 DEF OnItsWay
      <4> QED
        BY <4>1, <4>2
    <3>4. ASSUME NEW v \in Worker, pc[v] \in Unsettled, item[v].test = t
          PROVE  OnItsWay(t)'
      BY <3>1, <3>4 DEF OnItsWay
    <3> QED
      BY <1>2, <1>3, <2>1, <3>3, <3>4 DEF OnItsWay
  <2> QED
    BY <1>4, <2>2, <2>3 DEF TakeTest
<1>5. CASE RetryDelay(w)
  <2> DEFINE again == [item[w] EXCEPT !.retryCount = @ + 1]
  <2>1. /\ UNCHANGED <<attempts, reports, skipped, item>> /\ pc[w] = "delay"
        /\ pc' = [pc EXCEPT ![w] = "beforeTestRetry"] /\ queue' = Append(queue, again)
    BY <1>5 DEF RetryDelay, Goto, history
  <2>2. item[w] \in Item /\ item[w].retryCount < RetryCount
    BY <2>1, HeldItem DEF CalmInv, RunInv, RetryLeft, Resting
  <2>3. again \in Item /\ again.test = item[w].test
    BY <2>2, ControllerAssumption DEF Item
  <2> HIDE DEF again
  <2>4. Len(queue) + 1 \in DOMAIN queue' /\ queue'[Len(queue) + 1] = again
    BY <1>1, <2>1, <2>3
  <2>5. \A i \in DOMAIN queue : i \in DOMAIN queue' /\ queue'[i] = queue[i]
    BY <1>1, <2>1, <2>3
  <2>6. \A v \in Worker \ {w} : pc'[v] = pc[v]
    BY <1>1, <2>1
  <2> QED
    BY <1>2, <1>3, <2>1, <2>3, <2>4, <2>5, <2>6 DEF OnItsWay
<1>6. CASE Begins(w)
  <2>1. /\ UNCHANGED <<queue, item, reports, skipped>>
        /\ pc[w] \in Unsettled /\ pc'[w] \in Unsettled
        /\ \A v \in Worker \ {w} : pc'[v] = pc[v]
        /\ t # item[w].test => attempts'[t] = attempts[t]
    BY <1>1, <1>6 DEF Begins, Unsettled, Early, Trying
  <2>2. CASE t = item[w].test
    BY <2>1, <2>2 DEF OnItsWay
  <2>3. CASE t # item[w].test
    BY <1>2, <1>3, <2>1, <2>3 DEF OnItsWay
  <2> QED
    BY <2>2, <2>3
<1>7. CASE LeavesTest(w)
  <2>1. /\ UNCHANGED <<queue, attempts, reports>> /\ skipped \subseteq skipped'
        /\ pc[w] \in Early => item[w].test \in skipped'
        /\ pc[w] \notin Trying
        /\ \A v \in Worker \ {w} : pc'[v] = pc[v] /\ item'[v] = item[v]
    BY <1>1, <1>7 DEF LeavesTest, Return, Goto
  <2>2. pc[w] \in Unsettled => item[w].test # t
    BY <2>1 DEF Unsettled
  <2> QED
    BY <1>2, <1>3, <2>1, <2>2 DEF OnItsWay
<1>8. ASSUME NEW what \in {"passed", "failed"}, NEW at \in {"afterTest", "failedAfterTest"},
             Settles(w, what, at)
      PROVE  t \in Passed' \cup Failed' \/ OnItsWay(t)'
  <2>1. /\ pc[w] \notin Resting /\ Report(w, what) /\ UNCHANGED <<queue, item, attempts, skipped>>
        /\ \A v \in Worker \ {w} : pc'[v] = pc[v]
    BY <1>1, <1>8 DEF Settles, Trying, Resting
  <2>2. Passed' \cup Failed' = Passed \cup Failed \cup {item[w].test}
    BY <1>1, <2>1, Reported
  <2> QED
    BY <1>2, <2>1, <2>2 DEF OnItsWay
<1>9. CASE \E at \in Trying \cup {"beforeTest"} : GoesOn(w, at)
  <2>1. UNCHANGED <<queue, item, attempts, reports, skipped>>
    BY <1>9 DEF GoesOn
  <2>2. \A v \in Worker : pc[v] \in Unsettled => pc'[v] \in Unsettled
    BY <1>1, <1>9 DEF GoesOn, Unsettled, Early
  <2> QED
    BY <1>2, <1>3, <2>1, <2>2 DEF OnItsWay
<1> QED
  BY <1>1, <1>4, <1>5, <1>6, <1>7, <1>8, <1>9, CalmSteps DEF CalmInv

LEMMA AccountedStep ==
  ASSUME CalmRun
  PROVE  CalmInv /\ Accounted /\ [Next]_vars => Accounted'
<1> SUFFICES ASSUME CalmInv, Accounted, [Next]_vars PROVE Accounted'
  OBVIOUS
<1>1. CASE RunNext \/ UNCHANGED vars
  <2>1. UNCHANGED <<item, attempts, reports, skipped>>
    BY <1>1, CalmOthersKeep DEF history
  <2>2. Passed' = Passed /\ Failed' = Failed
    BY <2>1 DEF Passed, Failed
  <2>3. CASE phase = "beforeRun"
    <3>1. (\A t \in Test : attempts[t] = 0) \/ UNCHANGED vars
      BY <2>3 DEF CalmInv, RunInv, Prelude
    <3> QED
      BY <2>1, <2>2, <3>1 DEF Accounted, vars, loopVars
  <2>4. CASE phase # "beforeRun"
    <3>1. UNCHANGED queue
      BY <1>1, <2>4 DEF RunNext, BeforeRun, ShouldNotExecute, AllFinished, OneBroken, AfterRun,
                        AfterRunError, vars, loopVars
    <3>2. UNCHANGED pc \/ phase = "shouldNotExecute"
      BY <1>1, <2>4 DEF RunNext, BeforeRun, ShouldNotExecute, AllFinished, OneBroken, AfterRun,
                        AfterRunError, vars, loopVars
    <3>3. \A w \in Worker : pc[w] \in Unsettled => pc'[w] \in Unsettled
      BY <3>2 DEF CalmInv, RunInv, Prelude, Unsettled, Early, Trying
    <3> QED
      BY <2>1, <2>2, <3>1, <3>3 DEF Accounted
  <2> QED
    BY <2>3, <2>4
<1> QED
  BY <1>1, AccountedWorker DEF Next

(* In such a run that nobody kills, runQueue answers with exactly the tests   *)
(* that failed, and every test it has tried and not skipped has an outcome.  *)
THEOREM FailuresAreReturned ==
  ASSUME CalmRun
  PROVE  Spec => []ErrorsAreFailures
<1>1. CalmInv /\ Accounted => ErrorsAreFailures
  <2> SUFFICES ASSUME CalmInv, Accounted, phase = "returned"
               PROVE  /\ errors = Failed
                      /\ \A t \in Test \ skipped : attempts[t] > 0 => t \in Passed \cup Failed
    BY DEF ErrorsAreFailures
  <2>1. queue = <<>> /\ \A w \in Worker : pc[w] \notin Unsettled
    BY DEF CalmInv, Drained, Unsettled, Early, Trying
  <2> QED
    BY <2>1 DEF CalmInv, Recorded, Accounted
<1>2. Init => CalmInv /\ Accounted
  BY CalmInvInit DEF Init, Accounted
<1>3. CalmInv /\ Accounted /\ [Next]_vars => CalmInv' /\ Accounted'
  BY CalmInvStep, AccountedStep DEF KillNext
<1> QED
  BY <1>1, <1>2, <1>3, PTL DEF Spec

-----------------------------------------------------------------------------
(* The run keeps the promise of TestOutcomes. *)

Tried   == {t \in Test : \E w \in Worker : pc[w] \in Trying /\ item[w].test = t}
Verdict == IF phase = "returned" THEN {errors} ELSE {}

OutcomesKept == UNCHANGED <<Tried, attempts, Passed, Failed, Verdict>>

LEMMA KeptStutters ==
  ASSUME OutcomesKept
  PROVE  UNCHANGED outcomes!outcomeVars
BY DEF OutcomesKept, Tried, Verdict, outcomes!outcomeVars

(* What one loop does to the set of tried tests.                              *)
LEMMA TriedAfter ==
  ASSUME CalmInv, NEW w \in Worker,
         \A v \in Worker \ {w} : pc'[v] = pc[v] /\ item'[v] = item[v]
  PROVE  /\ (pc[w] \in Trying <=> pc'[w] \in Trying)
              /\ (pc'[w] \in Trying => item'[w] = item[w]) => Tried' = Tried
         /\ pc[w] \notin Trying \cup Resting /\ pc'[w] \in Trying /\ item'[w] = item[w] =>
              Tried' = Tried \cup {item[w].test} /\ item[w].test \in Test
         /\ pc[w] \in Trying /\ pc'[w] \notin Trying =>
              Tried' = Tried \ {item[w].test} /\ item[w].test \in Tried /\ item[w].test \in Test
<1>1. ASSUME NEW v \in Worker, pc[v] \notin Resting
      PROVE  item[v].test \in Test
  BY <1>1, HeldItem, ItemFields DEF CalmInv, RunInv
<1>2. \A v \in Worker : pc[v] \in Trying => pc[v] \in Early \cup Late /\ pc[v] \notin Resting
  BY DEF Trying, Early, Late, Resting
<1>3. CASE (pc[w] \in Trying <=> pc'[w] \in Trying) /\ (pc'[w] \in Trying => item'[w] = item[w])
  BY <1>3 DEF Tried
<1>4. CASE pc[w] \notin Trying \cup Resting /\ pc'[w] \in Trying /\ item'[w] = item[w]
  <2>1. item[w].test \in Test
    BY <1>1, <1>4
  <2> QED
    BY <1>4, <2>1 DEF Tried
<1>5. CASE pc[w] \in Trying /\ pc'[w] \notin Trying
  <2>1. item[w].test \in Tried /\ item[w].test \in Test
    BY <1>1, <1>2, <1>5 DEF Tried
  <2>2. \A v \in Worker \ {w} : pc[v] \in Trying => item[v].test # item[w].test
    BY <1>2, <1>5 DEF CalmInv, RunInv, Places, LoopsApart
  <2> QED
    BY <1>5, <2>1, <2>2 DEF Tried
<1> QED
  BY <1>3, <1>4, <1>5

LEMMA WorkerKeepsOutcomes ==
  ASSUME CalmRun, CalmInv, NEW w \in Worker, WorkerNext(w)
  PROVE  OutcomesKept \/ outcomes!OutcomeNext
<1>1. /\ pc \in [Worker -> Resting \cup Busy \cup Broken]
      /\ item \in [Worker -> Item \cup {None}]
      /\ TypeOK
  BY DEF CalmInv, RunInv, TypeOK
<1>2. phase # "returned" /\ UNCHANGED phase
  BY WorkerRunVars, LoopsAlive DEF CalmInv, Drained
<1>3. Verdict = {} /\ Verdict' = {}
  BY <1>2 DEF Verdict
<1>4. ASSUME UNCHANGED reports
      PROVE  Passed' = Passed /\ Failed' = Failed
  BY <1>4 DEF Passed, Failed
<1>0. pc[w] \notin Resting => \E t \in Test : t = item[w].test
  BY <1>1, HeldItem, ItemFields
<1>5. CASE TakeTest(w)
  <2>1. UNCHANGED <<attempts, reports>>
    BY <1>5 DEF TakeTest, history
  <2>2. /\ pc[w] \notin Trying /\ pc'[w] \notin Trying
        /\ \A v \in Worker \ {w} : pc'[v] = pc[v] /\ item'[v] = item[v]
    BY <1>1, <1>5 DEF TakeTest, Goto, Trying
  <2>3. Tried' = Tried
    BY <2>2, TriedAfter
  <2> QED
    BY <1>3, <1>4, <2>1, <2>3 DEF OutcomesKept
<1>6. CASE RetryDelay(w)
  <2>0. PICK held \in Test : held = item[w].test
    BY <1>0, <1>6 DEF RetryDelay, Resting
  <2>1. /\ UNCHANGED <<attempts, reports, item>> /\ pc[w] = "delay"
        /\ pc' = [pc EXCEPT ![w] = "beforeTestRetry"]
    BY <1>6 DEF RetryDelay, Goto, history
  <2>2. /\ pc[w] \in Trying /\ pc'[w] \notin Trying
        /\ \A v \in Worker \ {w} : pc'[v] = pc[v] /\ item'[v] = item[v]
    BY <1>1, <2>1 DEF Trying
  <2>3. Tried' = Tried \ {held} /\ held \in Tried /\ held \in Test
    BY <2>0, <2>2, TriedAfter
  <2>4. attempts[held] <= RetryCount
    <3>1. pc[w] \in Late /\ pc[w] \notin Resting
      BY <2>1 DEF Late, Resting
    <3>2. attempts[held] <= item[w].retryCount + 1 /\ item[w].retryCount < RetryCount
      BY <2>0, <2>1, <3>1 DEF CalmInv, RunInv, Tries, LateTries, RetryLeft
    <3>3. item[w].retryCount \in Nat /\ attempts[held] \in Nat
      BY <1>1, <2>3, <3>1, HeldItem, ItemFields DEF TypeOK
    <3> QED
      BY <3>2, <3>3, ControllerAssumption
  <2>5. UNCHANGED <<attempts, Passed, Failed, Verdict>>
    BY <1>3, <1>4, <2>1
  <2>6. outcomes!TryAgain(held)
    BY <2>3, <2>4, <2>5 DEF outcomes!TryAgain, Tried, Verdict
  <2> QED
    BY <2>3, <2>6 DEF outcomes!OutcomeNext
<1>7. CASE Begins(w)
  <2>0. PICK held \in Test : held = item[w].test
    BY <1>0, <1>7 DEF Begins, Resting
  <2>1. /\ UNCHANGED <<reports, item>> /\ pc[w] = "beforeTest"
        /\ pc' = [pc EXCEPT ![w] = "executing"]
        /\ attempts' = [attempts EXCEPT ![held] = @ + 1]
    BY <1>7, <2>0 DEF Begins
  <2>2. /\ pc[w] \notin Trying \cup Resting /\ pc'[w] \in Trying
        /\ \A v \in Worker \ {w} : pc'[v] = pc[v] /\ item'[v] = item[v]
    BY <1>1, <2>1 DEF Trying, Resting
  <2>3. Tried' = Tried \cup {held} /\ held \in Test
    BY <2>0, <2>1, <2>2, TriedAfter
  <2>4. pc[w] \in Early /\ pc[w] \in Unsettled
    BY <2>1 DEF Early, Unsettled
  <2>5. held \notin Tried
    <3>1. \A v \in Worker : pc[v] \in Trying => v # w /\ pc[v] \in Late
      BY <2>2 DEF Trying, Late
    <3> QED
      BY <2>0, <2>4, <3>1 DEF CalmInv, RunInv, Places, LoopsApart, Tried
  <2>6. held \notin Passed \cup Failed
    BY <2>0, <2>4 DEF CalmInv, Unreported, Passed, Failed
  <2>7. attempts[held] <= RetryCount
    <3>1. attempts[held] <= item[w].retryCount
      BY <2>0, <2>4 DEF CalmInv, RunInv, Tries, EarlyTries
    <3>2. /\ item[w].retryCount \in Nat /\ item[w].retryCount <= RetryCount
          /\ attempts[held] \in Nat
      BY <1>1, <2>2, <2>3, HeldItem, ItemFields DEF TypeOK
    <3> QED
      BY <3>1, <3>2, ControllerAssumption
  <2>8. UNCHANGED <<Passed, Failed, Verdict>>
    BY <1>3, <1>4, <2>1
  <2>9. outcomes!Try(held)
    BY <1>3, <2>1, <2>3, <2>5, <2>6, <2>7, <2>8 DEF outcomes!Try, Tried, Verdict
  <2> QED
    BY <2>3, <2>9 DEF outcomes!OutcomeNext
<1>8. CASE LeavesTest(w) \/ (\E at \in Trying \cup {"beforeTest"} : GoesOn(w, at))
  <2>1. UNCHANGED <<attempts, reports>>
    BY <1>8 DEF LeavesTest, GoesOn
  <2>2. /\ pc[w] \in Trying <=> pc'[w] \in Trying
        /\ pc'[w] \in Trying => item'[w] = item[w]
        /\ \A v \in Worker \ {w} : pc'[v] = pc[v] /\ item'[v] = item[v]
    <3>1. CASE LeavesTest(w)
      BY <1>1, <3>1 DEF LeavesTest, Return, Goto, Trying
    <3>2. CASE \E at \in Trying \cup {"beforeTest"} : GoesOn(w, at)
      BY <1>1, <3>2 DEF GoesOn, Trying
    <3> QED
      BY <1>8, <3>1, <3>2
  <2>3. Tried' = Tried
    BY <2>2, TriedAfter
  <2> QED
    BY <1>3, <1>4, <2>1, <2>3 DEF OutcomesKept
<1>9. ASSUME NEW what \in {"passed", "failed"}, NEW at \in {"afterTest", "failedAfterTest"},
             Settles(w, what, at)
      PROVE  outcomes!OutcomeNext
  <2>0. PICK held \in Test : held = item[w].test
    BY <1>0, <1>9 DEF Settles, Trying, Resting
  <2>1. /\ pc[w] \in Trying /\ pc[w] \notin Resting /\ pc'[w] \notin Trying
        /\ Report(w, what) /\ UNCHANGED attempts
        /\ \A v \in Worker \ {w} : pc'[v] = pc[v] /\ item'[v] = item[v]
    BY <1>1, <1>9 DEF Settles, Trying, Resting
  <2>2. Tried' = Tried \ {held} /\ held \in Tried /\ held \in Test
    BY <2>0, <2>1, TriedAfter
  <2>3. /\ Passed' = IF what = "passed" THEN Passed \cup {held} ELSE Passed
        /\ Failed' = IF what = "failed" THEN Failed \cup {held} ELSE Failed
    BY <1>1, <2>0, <2>1, Reported
  <2>4. CASE what = "passed"
    <3>1. outcomes!Pass(held)
      BY <1>3, <2>1, <2>2, <2>3, <2>4 DEF outcomes!Pass, Tried, Verdict
    <3> QED
      BY <2>2, <3>1 DEF outcomes!OutcomeNext
  <2>5. CASE what = "failed"
    <3>1. outcomes!Fail(held)
      BY <1>3, <2>1, <2>2, <2>3, <2>5 DEF outcomes!Fail, Tried, Verdict
    <3> QED
      BY <2>2, <3>1 DEF outcomes!OutcomeNext
  <2> QED
    BY <2>4, <2>5
<1> QED
  BY <1>1, <1>5, <1>6, <1>7, <1>8, <1>9, CalmSteps DEF CalmInv

LEMMA OthersKeepOutcomes ==
  ASSUME CalmRun, CalmInv, RunNext \/ Kill \/ Killed \/ UNCHANGED vars
  PROVE  OutcomesKept \/ outcomes!OutcomeNext
<1>1. UNCHANGED <<item, errors, attempts, reports>>
  BY CalmOthersKeep DEF history
<1>2. Passed' = Passed /\ Failed' = Failed
  BY <1>1 DEF Passed, Failed
<1>3. Tried' = Tried
  <2>1. CASE ShouldNotExecute
    <3>1. \A w \in Worker : pc[w] = "unspawned"
      BY <2>1 DEF ShouldNotExecute, CalmInv, RunInv, Prelude
    <3>2. \A w \in Worker : pc'[w] = pc[w] \/ pc'[w] = "loop"
      BY <2>1 DEF ShouldNotExecute
    <3> QED
      BY <3>1, <3>2 DEF Tried, Trying
  <2>2. CASE ~ShouldNotExecute
    <3>1. UNCHANGED pc
      BY <2>2 DEF RunNext, BeforeRun, AllFinished, OneBroken, AfterRun, AfterRunError, Kill, Killed,
                  vars, loopVars
    <3> QED
      BY <1>1, <3>1 DEF Tried
  <2> QED
    BY <2>1, <2>2
<1>4. CASE AfterRun
  <2>1. phase = "afterRun" /\ phase' = "returned"
    BY <1>4 DEF AfterRun, CalmRun, Throws
  <2>2. Verdict = {} /\ Verdict' = {Failed}
    BY <1>1, <2>1 DEF Verdict, CalmInv, Recorded
  <2>3. Tried = {}
    BY <2>1 DEF Tried, Trying, CalmInv, Drained
  <2>4. outcomes!End
    BY <1>1, <1>2, <1>3, <2>2, <2>3 DEF outcomes!End, Tried, Verdict
  <2> QED
    BY <2>4 DEF outcomes!OutcomeNext
<1>5. CASE ~AfterRun
  <2>1. phase' = "returned" <=> phase = "returned"
    BY <1>5 DEF RunNext, BeforeRun, ShouldNotExecute, AllFinished, OneBroken, AfterRunError,
                CalmInv, Unbroken, Kill, Killed, vars, runVars
  <2> QED
    BY <1>1, <1>2, <1>3, <2>1 DEF OutcomesKept, Verdict
<1> QED
  BY <1>4, <1>5

LEMMA CalmStepKeepsOutcomes ==
  ASSUME CalmRun
  PROVE  CalmInv /\ [KillNext]_vars => [outcomes!OutcomeNext]_(outcomes!outcomeVars)
BY WorkerKeepsOutcomes, OthersKeepOutcomes, KeptStutters DEF KillNext, Next

(* A run without hook errors keeps the promise of TestOutcomes: every step is *)
(* a step of it or changes nothing it speaks of, kill() or not.             *)
THEOREM RunKeepsOutcomes ==
  ASSUME CalmRun
  PROVE  KillSpec => KeepsOutcomes
<1>1. Init => outcomes!OutcomeInit
  BY DEF Init, outcomes!OutcomeInit, Passed, Failed, Trying
<1> QED
  BY <1>1, CalmInvInit, CalmInvStep, CalmStepKeepsOutcomes, PTL
     DEF KillSpec, KeepsOutcomes, outcomes!OutcomeSpec

=============================================================================
