-------------------------- MODULE TestRunController --------------------------
(***************************************************************************)
(* core/test-run-controller/src/test-run-controller.ts: workers take tests *)
(* from a shared queue and push the failed ones back until their retries   *)
(* are used up.                                                            *)
(*                                                                         *)
(* Everything runs in one thread that changes hands at every await, so an  *)
(* action is what happens from one await to the next.  pc[w] names what    *)
(* the loop of worker w in runWorkers awaits (the hook it has called, the  *)
(* test it executes, a delay), phase what executeQueue awaits.  The test   *)
(* worker is here only the outcome of execute(): TestWorkerInstance is a   *)
(* module of its own.                                                      *)
(***************************************************************************)
EXTENDS Integers, Sequences, FiniteSets

CONSTANTS
  Worker,        \* test workers that can be spawned
  Test,          \* test files
  NoTest,        \* stands for a test where there is none
  Configs,       \* the configurations a run may have: config.bail and
                 \* config.workerLimit, where 1 is also 'local', 0 an invalid value
  RetryCount,    \* config.retryCount
  FailingHooks   \* the hooks with a plugin that may throw

ASSUME ControllerAssumption ==
  /\ IsFiniteSet(Test) /\ NoTest \notin Test
  /\ RetryCount \in Nat
  /\ IsFiniteSet(Worker)
  /\ Configs \subseteq [bail : BOOLEAN, workerLimit : 0..Cardinality(Worker)]

VARIABLES
  config,     \* the configuration, which no step changes
  phase,      \* what runQueue and executeQueue await
  queue,      \* currentQueue
  workers,    \* this.workers
  pc,         \* what each worker's loop awaits
  item,       \* the queued test each worker's loop handles
  errors,     \* this.errors: the tests they come from, NoTest for a hook's
  runError,   \* what afterRun is called with: {} for null
  killing,    \* how far kill() is
  attempts,   \* how often each test was given to worker.execute
  reports,    \* what afterTest was called with for each test
  skipped     \* the tests shouldNotStart has stopped

runVars  == <<config, phase, workers, runError>>
loopVars == <<queue, pc, item>>
history  == <<attempts, reports, skipped>>
vars == <<runVars, loopVars, errors, killing, history>>

Item == [test : Test, retryCount : 0..RetryCount]
None == [test |-> NoTest, retryCount |-> 0]

(* Where a loop has no test, and where it has one that is being tried.      *)
Resting == {"unspawned", "loop", "finished"}
Trying  == {"executing", "killing", "shouldNotRetry", "delay"}
Broken  == {"bailed", "rejected"}
Busy    == {"shouldNotStart", "beforeTest", "afterTest", "bailing",
            "beforeTestRetry", "failedAfterTest"} \cup Trying
Over    == {"stopped", "returned", "rejected"}

TypeOK ==
  /\ config \in Configs
  /\ phase \in {"beforeRun", "shouldNotExecute", "running", "afterRun", "afterRunError"} \cup Over
  /\ queue \in Seq(Item)
  /\ workers \subseteq Worker
  /\ pc \in [Worker -> Resting \cup Busy \cup Broken]
  /\ item \in [Worker -> Item \cup {None}]
  /\ \A w \in Worker : item[w] = None <=> pc[w] \in Resting
  /\ errors \subseteq Test \cup {NoTest}
  /\ runError \subseteq Test \cup {NoTest}
  /\ killing \in {"alive", "killing", "killed"}
  /\ attempts \in [Test -> Nat]
  /\ reports \in [Test -> Seq({"passed", "failed"})]
  /\ skipped \subseteq Test

Init ==
  /\ config \in Configs
  /\ phase = "beforeRun"
  /\ queue = <<>>
  /\ workers = {}
  /\ pc = [w \in Worker |-> "unspawned"]
  /\ item = [w \in Worker |-> None]
  /\ errors = {}
  /\ runError = {}
  /\ killing = "alive"
  /\ attempts = [t \in Test |-> 0]
  /\ reports = [t \in Test |-> <<>>]
  /\ skipped = {}

Throws(hook) == hook \in FailingHooks

-----------------------------------------------------------------------------
(* runQueue and executeQueue. *)

(* The beforeRun hook answers with a selection of the tests in some order    *)
(* (a plugin could also repeat one: the model does not let it).            *)
BeforeRun ==
  /\ phase = "beforeRun"
  /\ \/ /\ \E n \in 0..Cardinality(Test) : \E order \in [1..n -> Test] :
             /\ \A i, j \in 1..n : order[i] = order[j] => i = j
             /\ queue' = [i \in 1..n |-> [test |-> order[i], retryCount |-> 0]]
        /\ phase' = "shouldNotExecute"
     \/ Throws("beforeRun") /\ phase' = "rejected" /\ UNCHANGED queue
  /\ UNCHANGED <<config, workers, runError, pc, item, errors, killing, history>>

WorkerCount ==
  IF config.workerLimit = 1 \/ config.workerLimit <= Len(queue)
  THEN config.workerLimit ELSE Len(queue)

(* shouldNotExecute has answered: stop, fail on an invalid limit or spawn the *)
(* workers, whose loops all start.                                         *)
ShouldNotExecute ==
  /\ phase = "shouldNotExecute"
  /\ \/ phase' = "stopped" /\ UNCHANGED <<workers, pc, runError>>
     \/ Throws("shouldNotExecute") /\ phase' = "rejected" /\ UNCHANGED <<workers, pc, runError>>
     \/ /\ config.workerLimit = 0
        /\ phase' = "afterRunError" /\ runError' = {NoTest}
        /\ UNCHANGED <<workers, pc>>
     \/ /\ config.workerLimit # 0
        /\ phase' = "running"
        /\ \E spawned \in SUBSET Worker :
             /\ Cardinality(spawned) = WorkerCount
             /\ workers' = spawned
             /\ pc' = [w \in Worker |-> IF w \in spawned THEN "loop" ELSE pc[w]]
        /\ UNCHANGED runError
  /\ UNCHANGED <<config, queue, item, errors, killing, history>>

(* Mutant of the promise of runWorkers: one finished loop is enough.          *)
FirstFinished ==
  /\ phase = "running"
  /\ \E w \in Worker : pc[w] = "finished"
  /\ phase' = "afterRun"
  /\ UNCHANGED <<config, workers, runError, loopVars, errors, killing, history>>

(* Promise.all in runWorkers: every loop has finished, or one has thrown.     *)
AllFinished ==
  /\ phase = "running"
  /\ \A w \in Worker : pc[w] \in {"unspawned", "finished"}
  /\ phase' = "afterRun"
  /\ UNCHANGED <<config, workers, runError, loopVars, errors, killing, history>>

OneBroken ==
  /\ phase = "running"
  /\ \E w \in Worker :
       /\ pc[w] \in Broken
       /\ runError' = {IF pc[w] = "bailed" THEN item[w].test ELSE NoTest}
  /\ phase' = "afterRunError"
  /\ UNCHANGED <<config, workers, loopVars, errors, killing, history>>

(* afterRun(null) has answered; if it threw it is called again with the error. *)
AfterRun ==
  /\ phase = "afterRun"
  /\ \/ phase' = "returned" /\ UNCHANGED runError
     \/ Throws("afterRun") /\ phase' = "afterRunError" /\ runError' = {NoTest}
  /\ UNCHANGED <<config, workers, loopVars, errors, killing, history>>

(* Mutant of the catch of executeQueue: the error is not pushed.              *)
AfterRunErrorDropped ==
  /\ phase = "afterRunError"
  /\ \/ phase' = "returned"
     \/ Throws("afterRun") /\ phase' = "rejected"
  /\ UNCHANGED <<config, workers, runError, errors, loopVars, killing, history>>

AfterRunError ==
  /\ phase = "afterRunError"
  /\ \/ phase' = "returned" /\ errors' = errors \cup runError
     \/ Throws("afterRun") /\ phase' = "rejected" /\ UNCHANGED errors
  /\ UNCHANGED <<config, workers, runError, loopVars, killing, history>>

RunNext == BeforeRun \/ ShouldNotExecute \/ AllFinished \/ OneBroken \/ AfterRun \/ AfterRunError

-----------------------------------------------------------------------------
(* executeWorker, from one await to the next. *)

Goto(w, at)     == pc' = [pc EXCEPT ![w] = at]
Report(w, what) == reports' = [reports EXCEPT ![item[w].test] = Append(@, what)]

(* executeWorker returns to the loop. *)
Return(w) == Goto(w, "loop") /\ item' = [item EXCEPT ![w] = None]

(* The catch of executeWorker up to the first await of onTestFailed.          *)
Caught(w) ==
  /\ UNCHANGED <<item, attempts, skipped>>
  /\ \/ config.bail /\ Goto(w, "bailing") /\ Report(w, "failed")
     \/ ~config.bail /\ Goto(w, "shouldNotRetry") /\ UNCHANGED reports

(* Mutant of the loop: the test is read and stays in the queue.               *)
PeekTest(w) ==
  /\ pc[w] = "loop"
  /\ UNCHANGED <<runVars, errors, killing, history, queue>>
  /\ \/ /\ queue # <<>>
        /\ Goto(w, "shouldNotStart")
        /\ item' = [item EXCEPT ![w] = Head(queue)]
     \/ queue = <<>> /\ Goto(w, "finished") /\ UNCHANGED item

(* The loop takes the first test of the queue, or ends.                       *)
TakeTest(w) ==
  /\ pc[w] = "loop"
  /\ UNCHANGED <<runVars, errors, killing, history>>
  /\ \/ /\ queue # <<>>
        /\ Goto(w, "shouldNotStart")
        /\ item' = [item EXCEPT ![w] = Head(queue)]
        /\ queue' = Tail(queue)
     \/ queue = <<>> /\ Goto(w, "finished") /\ UNCHANGED <<queue, item>>

(* shouldNotStart answers: skip the test without a word, or call beforeTest. *)
ShouldNotStart(w) ==
  /\ pc[w] = "shouldNotStart"
  /\ UNCHANGED <<runVars, queue, errors, killing>>
  /\ \/ /\ Return(w)
        /\ skipped' = skipped \cup {item[w].test}
        /\ UNCHANGED <<attempts, reports>>
     \/ Goto(w, "beforeTest") /\ UNCHANGED <<item, history>>
     \/ Throws("shouldNotStart") /\ Caught(w)

(* beforeTest has answered: the test is given to the worker.                  *)
BeforeTest(w) ==
  /\ pc[w] = "beforeTest"
  /\ UNCHANGED <<runVars, queue, errors, killing>>
  /\ \/ /\ Goto(w, "executing")
        /\ attempts' = [attempts EXCEPT ![item[w].test] = @ + 1]
        /\ UNCHANGED <<item, reports, skipped>>
     \/ Throws("beforeTest") /\ Caught(w)

(* Promise.race: the test passes, fails, or the timeout comes first and the   *)
(* worker is killed.                                                        *)
Execute(w) ==
  /\ pc[w] = "executing"
  /\ UNCHANGED <<runVars, queue, errors, killing>>
  /\ \/ Goto(w, "afterTest") /\ Report(w, "passed") /\ UNCHANGED <<item, attempts, skipped>>
     \/ Caught(w)
     \/ Goto(w, "killing") /\ UNCHANGED <<item, history>>

WorkerKilled(w) ==
  /\ pc[w] = "killing"
  /\ Caught(w)
  /\ UNCHANGED <<runVars, queue, errors, killing>>

(* afterTest(null) has answered.  It is called inside the try: a test that    *)
(* passed counts as failed when the hook throws.                            *)
AfterTest(w) ==
  /\ pc[w] = "afterTest"
  /\ UNCHANGED <<runVars, queue, errors, killing>>
  /\ \/ Return(w) /\ UNCHANGED history
     \/ Throws("afterTest") /\ Caught(w)

(* onTestFailed with bail: the loop is left with the test's error, or with    *)
(* the one afterTest throws.                                                *)
BailAfterTest(w) ==
  /\ pc[w] = "bailing"
  /\ \/ Goto(w, "bailed")
     \/ Throws("afterTest") /\ Goto(w, "rejected")
  /\ UNCHANGED <<runVars, queue, item, errors, killing, history>>

(* Mutants of the decision to retry: one retry too many; a failure that is    *)
(* reported but not kept.                                                    *)
RetryOnceMore(w) ==
  /\ pc[w] = "shouldNotRetry"
  /\ UNCHANGED <<runVars, queue, item, killing, attempts, skipped>>
  /\ \/ Throws("shouldNotRetry") /\ Goto(w, "rejected") /\ UNCHANGED <<errors, reports>>
     \/ /\ item[w].retryCount <= RetryCount
        /\ Goto(w, "delay") /\ UNCHANGED <<errors, reports>>
     \/ /\ Goto(w, "failedAfterTest")
        /\ errors' = errors \cup {item[w].test}
        /\ Report(w, "failed")

FailUnrecorded(w) ==
  /\ pc[w] = "shouldNotRetry"
  /\ UNCHANGED <<runVars, queue, item, killing, attempts, skipped, errors>>
  /\ \/ Throws("shouldNotRetry") /\ Goto(w, "rejected") /\ UNCHANGED reports
     \/ item[w].retryCount < RetryCount /\ Goto(w, "delay") /\ UNCHANGED reports
     \/ Goto(w, "failedAfterTest") /\ Report(w, "failed")

(* shouldNotRetry answers: wait for a retry if there is one left, or record   *)
(* the failure (the hook may forbid a retry that is left).                  *)
ShouldNotRetry(w) ==
  /\ pc[w] = "shouldNotRetry"
  /\ UNCHANGED <<runVars, queue, item, killing, attempts, skipped>>
  /\ \/ Throws("shouldNotRetry") /\ Goto(w, "rejected") /\ UNCHANGED <<errors, reports>>
     \/ /\ item[w].retryCount < RetryCount
        /\ Goto(w, "delay") /\ UNCHANGED <<errors, reports>>
     \/ /\ Goto(w, "failedAfterTest")
        /\ errors' = errors \cup {item[w].test}
        /\ Report(w, "failed")

(* Mutant of the retry: the copy keeps its count.                             *)
RetryUncounted(w) ==
  /\ pc[w] = "delay"
  /\ queue' = Append(queue, item[w])
  /\ Goto(w, "beforeTestRetry")
  /\ UNCHANGED <<runVars, item, errors, killing, history>>

(* The retryDelay is over: the test is queued again, then the hook called.    *)
RetryDelay(w) ==
  /\ pc[w] = "delay"
  /\ queue' = Append(queue, [item[w] EXCEPT !.retryCount = @ + 1])
  /\ Goto(w, "beforeTestRetry")
  /\ UNCHANGED <<runVars, item, errors, killing, history>>

(* The last hook of a failure: beforeTestRetry, or afterTest with the error.  *)
FailureReported(w) ==
  /\ \/ pc[w] \in {"beforeTestRetry", "failedAfterTest"} /\ Return(w)
     \/ /\ \/ pc[w] = "beforeTestRetry" /\ Throws("beforeTestRetry")
           \/ pc[w] = "failedAfterTest" /\ Throws("afterTest")
        /\ Goto(w, "rejected") /\ UNCHANGED item
  /\ UNCHANGED <<runVars, queue, errors, killing, history>>

WorkerNext(w) ==
  \/ TakeTest(w) \/ ShouldNotStart(w) \/ BeforeTest(w) \/ Execute(w)
  \/ WorkerKilled(w) \/ AfterTest(w) \/ BailAfterTest(w)
  \/ ShouldNotRetry(w) \/ RetryDelay(w) \/ FailureReported(w)

-----------------------------------------------------------------------------
(* kill(): the workers are told first (a test they execute may fail then as at *)
(* any time), the queue is emptied when they have answered.                 *)
Kill ==
  /\ killing = "alive"
  /\ killing' = "killing"
  /\ UNCHANGED <<runVars, loopVars, errors, history>>

Killed ==
  /\ killing = "killing"
  /\ killing' = "killed"
  /\ workers' = {}
  /\ queue' = <<>>
  /\ UNCHANGED <<config, phase, runError, pc, item, errors, history>>

Next     == RunNext \/ \E w \in Worker : WorkerNext(w)
KillNext == Next \/ Kill \/ Killed

Spec     == Init /\ [][Next]_vars
KillSpec == Init /\ [][KillNext]_vars

(* Hooks answer, delays end, and a test settles or times out (testTimeout,    *)
(* 15 minutes by default, is not 0).  Nobody has to call kill().            *)
Fairness == WF_vars(RunNext) /\ \A w \in Worker : WF_vars(WorkerNext(w))

FairKillSpec == KillSpec /\ Fairness

-----------------------------------------------------------------------------
(* Properties. *)

Holding == {w \in Worker : pc[w] \in Busy \ {"beforeTestRetry"}}

(* Where a test is: the places of the queue and the loops that have it.       *)
Queued(t)  == {i \in DOMAIN queue : queue[i].test = t}
Handled(t) == {w \in Holding : item[w].test = t}

(* Every test is in one place at most, however workers take, fail and requeue *)
(* it: no two workers handle it at once, none handles it while it is queued. *)
OnePlace == \A t \in Test :
  /\ \A w, v \in Handled(t) : w = v
  /\ \A i, j \in Queued(t) : i = j
  /\ Handled(t) = {} \/ Queued(t) = {}

(* No test is executed more often than once and RetryCount times again,       *)
(* whatever hook throws and whoever kills the run.                          *)
AttemptsBounded == \A t \in Test : attempts[t] <= RetryCount + 1

(* afterRun is called when no worker has a test any more.                     *)
AfterRunLast ==
  phase \in {"afterRun", "afterRunError", "returned"} =>
    queue = <<>> /\ \A w \in Worker : pc[w] \in Resting

Failed == {t \in Test : \E i \in DOMAIN reports[t] : reports[t][i] = "failed"}
Passed == {t \in Test : \E i \in DOMAIN reports[t] : reports[t][i] = "passed"}

(* runQueue answers with the tests that failed, and a test that was executed  *)
(* is missing from the reports only if its retry was not started.           *)
ErrorsAreFailures ==
  phase = "returned" =>
    /\ errors = Failed
    /\ \A t \in Test \ skipped : attempts[t] > 0 => t \in Passed \cup Failed

(* A run that a hook, a bailing test or an invalid limit broke never answers  *)
(* null, also when another loop has finished or kill() comes first.         *)
BrokenIsReported ==
  phase = "returned" /\ errors = {} =>
    /\ config.workerLimit # 0
    /\ \A w \in Worker : pc[w] \notin Broken

(* The run comes to an end, whatever throws.                                  *)
RunEnds == <>(phase \in Over)

(* The promise of TestOutcomes. *)
outcomes == INSTANCE TestOutcomes WITH
  trying <- {t \in Test : \E w \in Worker : pc[w] \in Trying /\ item[w].test = t},
  tries <- attempts, passed <- Passed, failed <- Failed,
  verdict <- IF phase = "returned" THEN {errors} ELSE {}
KeepsOutcomes == outcomes!OutcomeSpec

=============================================================================
