----------------------------- MODULE TestWorker -----------------------------
(***************************************************************************)
(* core/test-worker/src/test-worker-instance.ts: one TestWorkerInstance,   *)
(* the test files it executes and the loop of TestRunController that gives *)
(* them to it one after the other.                                         *)
(*                                                                         *)
(* A test file calls run() any number of times; each call is a coroutine   *)
(* of its own that the instance hears of through the bus.  An execution    *)
(* that was given up goes on by itself: nothing but its AbortSignal tells  *)
(* it to stop, and the instance keeps the AbortController of one execution *)
(* only.  BreakStackError is left out, because nobody calls breakStack().  *)
(***************************************************************************)
EXTENDS Integers

CONSTANTS
  Files,      \* how many test files are executed, one after the other
  Run,        \* the calls of run() a test file may make
  Functions   \* how many test functions each call is given

ASSUME WorkerAssumption == Files \in Nat /\ Functions \in Nat \ {0}

VARIABLES
  current,          \* the last execution that was started, 0 for none
  awaiting,         \* whether TestRunController still awaits it
  at,               \* what each execute() awaits
  body,             \* how far each run() is
  fn,               \* the test function each run() has come to
  abortController,  \* the execution kill() aborts, 0 for null
  aborted,          \* the executions whose signal is aborted
  killed            \* the executions that had started when kill() was called

callerVars == <<current, awaiting>>
bodyVars   == <<body, fn>>
abortVars  == <<abortController, aborted, killed>>
vars       == <<callerVars, at, bodyVars, abortVars>>

Exec     == 1..Files
InWork   == {"running", "flushPassed", "flushFailed"}
Settled  == {"resolved", "rejected"}
Failed   == {"flushFailed", "rejected"}
Decided  == {"flushPassed", "resolved"} \cup Failed
Started  == 1..current

(* compiling: the hooks; running: the promise of runTest; flushPassed and    *)
(* flushFailed: flushAfterRunCallbacks, after which execute() settles.      *)
TypeOK ==
  /\ current \in 0..Files
  /\ awaiting \in BOOLEAN
  /\ at \in [Exec -> {"new", "compiling"} \cup InWork \cup Settled]
  /\ body \in [Exec \X Run -> {"none", "starting", "testing", "passed", "failed"}]
  /\ fn \in [Exec \X Run -> 0..Functions]
  /\ abortController \in 0..Files
  /\ aborted \subseteq Exec
  /\ killed \subseteq Exec

Init ==
  /\ current = 0
  /\ awaiting = FALSE
  /\ at = [e \in Exec |-> "new"]
  /\ body = [b \in Exec \X Run |-> "none"]
  /\ fn = [b \in Exec \X Run |-> 0]
  /\ abortController = 0
  /\ aborted = {}
  /\ killed = {}

-----------------------------------------------------------------------------
(* execute(). *)

(* TestRunController gives the worker its next test: a new one, or one that  *)
(* is tried again.                                                         *)
Start ==
  /\ ~awaiting
  /\ current < Files
  /\ current' = current + 1
  /\ awaiting' = TRUE
  /\ at' = [at EXCEPT ![current + 1] = "compiling"]
  /\ UNCHANGED <<bodyVars, abortVars>>

Settle(e, outcome) ==
  /\ at' = [at EXCEPT ![e] = outcome]
  /\ awaiting' = (awaiting /\ e # current)
  /\ UNCHANGED current

(* A hook has thrown: nothing is executed. *)
CompileFailed(e) ==
  /\ at[e] = "compiling"
  /\ Settle(e, "rejected")
  /\ UNCHANGED <<bodyVars, abortVars>>

(* The file is compiled and its script runs, synchronously: it calls run()   *)
(* for some bodies, and may throw in the end.  Without a run() it is over.  *)
Execute(e) ==
  /\ at[e] = "compiling"
  /\ abortController' = e
  /\ \E called \in SUBSET Run, throws \in BOOLEAN :
       /\ body' = [b \in Exec \X Run |->
                     IF b[1] = e /\ b[2] \in called THEN "starting" ELSE body[b]]
       /\ at' = [at EXCEPT ![e] = IF throws THEN "flushFailed"
                                  ELSE IF called = {} THEN "flushPassed" ELSE "running"]
  /\ UNCHANGED <<callerVars, fn, aborted, killed>>

(* Mutant of the finally block: the AbortController stays.                    *)
FlushedKeepsController(e) ==
  /\ \/ at[e] = "flushPassed" /\ Settle(e, "resolved")
     \/ at[e] = "flushFailed" /\ Settle(e, "rejected")
  /\ UNCHANGED <<bodyVars, abortVars>>

(* The afterRun callbacks have answered: the finally block takes the          *)
(* AbortController away, whoever it is for by now, and execute() settles.   *)
Flushed(e) ==
  /\ \/ at[e] = "flushPassed" /\ Settle(e, "resolved")
     \/ at[e] = "flushFailed" /\ Settle(e, "rejected")
  /\ abortController' = 0
  /\ UNCHANGED <<bodyVars, aborted, killed>>

-----------------------------------------------------------------------------
(* run(). *)

(* Mutant of the listeners: a failure finishes the execution like a success. *)
FinishPassed(b, outcome) ==
  /\ body' = [body EXCEPT ![b] = outcome]
  /\ at' = [at EXCEPT ![b[1]] = IF @ = "running" THEN "flushPassed" ELSE @]
  /\ UNCHANGED <<callerVars, fn, abortVars>>

(* Mutant of the listeners: they are not removed and decide once more.        *)
FinishLate(b, outcome) ==
  /\ body' = [body EXCEPT ![b] = outcome]
  /\ at' = [at EXCEPT ![b[1]] = IF outcome = "passed" THEN "flushPassed" ELSE "flushFailed"]
  /\ UNCHANGED <<callerVars, fn, abortVars>>

(* The bus tells how run() has ended.  The first to tell ends the execution; *)
(* nobody listens any more when another has, or kill().                     *)
Finish(b, outcome) ==
  /\ body' = [body EXCEPT ![b] = outcome]
  /\ at' = [at EXCEPT ![b[1]] =
              IF @ # "running" THEN @
              ELSE IF outcome = "passed" THEN "flushPassed" ELSE "flushFailed"]
  /\ UNCHANGED <<callerVars, fn, abortVars>>

InRun(b) == body[b] \in {"starting", "testing"}

(* The beforeRun callbacks or a test function have answered, and the next    *)
(* test function is called.                                                 *)
NextTest(b) ==
  /\ InRun(b)
  /\ fn[b] < Functions
  /\ b[1] \notin aborted
  /\ body' = [body EXCEPT ![b] = "testing"]
  /\ fn' = [fn EXCEPT ![b] = @ + 1]
  /\ UNCHANGED <<callerVars, at, abortVars>>

(* They have answered after the signal was aborted, or thrown.                *)
RunFailed(b) == InRun(b) /\ Finish(b, "failed")

(* The last one has answered: the signal is not tested again.                 *)
RunPassed(b) == InRun(b) /\ fn[b] = Functions /\ Finish(b, "passed")

-----------------------------------------------------------------------------
(* kill(). *)

(* Mutant of kill(): the execution is not told.                               *)
AbortUnheard ==
  /\ abortController' = 0
  /\ aborted' = IF abortController = 0 THEN aborted ELSE aborted \cup {abortController}
  /\ killed' = killed \cup Started
  /\ UNCHANGED at

(* kill() aborts the execution whose AbortController is at hand, if any: its *)
(* promise is rejected at once, whatever the test function does.            *)
Abort ==
  /\ abortController' = 0
  /\ aborted' = IF abortController = 0 THEN aborted ELSE aborted \cup {abortController}
  /\ killed' = killed \cup Started
  /\ at' = [e \in Exec |-> IF e = abortController /\ at[e] = "running"
                           THEN "flushFailed" ELSE at[e]]

(* Mutant of the timeout: the loop goes on waiting for the execution.         *)
TimeoutWaits ==
  /\ awaiting
  /\ Abort
  /\ UNCHANGED <<callerVars, bodyVars>>

(* testTimeout: TestRunController kills the worker and awaits no longer.      *)
Timeout ==
  /\ awaiting
  /\ awaiting' = FALSE
  /\ Abort
  /\ UNCHANGED <<current, bodyVars>>

(* TestRunController.kill. *)
Kill == Abort /\ UNCHANGED <<callerVars, bodyVars>>

Next ==
  \/ Start \/ Timeout \/ Kill
  \/ \E e \in Exec : CompileFailed(e) \/ Execute(e) \/ Flushed(e)
  \/ \E b \in Exec \X Run : NextTest(b) \/ RunFailed(b) \/ RunPassed(b)

Spec == Init /\ [][Next]_vars

(* The loop goes on, timers fire and afterRun callbacks answer.  Neither a    *)
(* compiler hook nor a test function has to.                                *)
Fairness == WF_vars(Start) /\ WF_vars(Timeout) /\ \A e \in Exec : WF_vars(Flushed(e))

FairSpec == Spec /\ Fairness

-----------------------------------------------------------------------------
(* Properties. *)

(* kill() never hits an execution that is over: the AbortController is taken *)
(* away when its execution ends, though an execution that was given up      *)
(* takes away that of the next one, too.                                    *)
ControllerInWork == abortController # 0 => at[abortController] \in InWork

(* kill() is final for the execution it hits: it is decided at once, none of  *)
(* its run() calls another function, and what these answer later does not    *)
(* turn its failure into a success.                                          *)
AbortIsFinal ==
  [][\A e \in aborted :
       /\ at[e] \in Decided
       /\ \A k \in Run : fn'[<<e, k>>] = fn[<<e, k>>]
       /\ at[e] \in Failed => at'[e] \in Failed]_vars

(* The outcome is that of the test: an execution resolves when a run() has    *)
(* passed or the file called none, and neither kill() nor a late answer of   *)
(* an earlier execution makes it so.                                        *)
OutcomeOfTest ==
  \A e \in Exec : at[e] \in {"flushPassed", "resolved"} =>
    \/ \E k \in Run : body[<<e, k>>] = "passed"
    \/ \A k \in Run : body[<<e, k>>] = "none"

(* A test that does not answer does not keep an aborted execution from ending. *)
AbortedSettles == \A e \in Exec : e \in aborted ~> at[e] \in Settled

(* Every test gets its turn, whatever those before it do.                     *)
EveryTestStarts == <>(current = Files)

(* "Terminates the worker process" (docs/core-modules/test-worker.md:142):     *)
(* after kill() nothing of the tests that were started is called any more.   *)
KillTerminates ==
  [][\A b \in Exec \X Run : b[1] \in killed => fn'[b] = fn[b]]_vars

=============================================================================
