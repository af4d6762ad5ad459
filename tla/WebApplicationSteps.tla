------------------------- MODULE WebApplicationSteps -------------------------
(***************************************************************************)
(* The instructions of a test's applications and the log steps they are    *)
(* executed in: the stepLog decorator of                                   *)
(* packages/web-application/src/web-application.ts, the stack of steps of  *)
(* core/logger (one for all loggers of a process) and the breakpoints of   *)
(* core/async-breakpoints.                                                 *)
(*                                                                         *)
(* The test calls one instruction after the other, and may go on when one  *)
(* has thrown.  An instruction's body asks the browser and calls other     *)
(* instructions of its application; an instruction that finds the log of   *)
(* its application open has no step of its own.  What a body is made of    *)
(* comes from the tables of WebApplicationMethods.  Screenshots are        *)
(* enabled: without them an error handler is over before the test can go   *)
(* on.                                                                     *)
(***************************************************************************)
EXTENDS Naturals, Sequences, FiniteSets, FiniteSetsExt, WebApplicationMethods

CONSTANTS
  App,               \* the applications of the test
  Message,           \* what steps are called
  MaxInstructions,   \* bound: instructions called
  Faults             \* what may fail: "screenshot"; what may happen: "break"

ASSUME StepsAssumption ==
  /\ MaxInstructions \in Nat /\ App # {} /\ IsFiniteSet(App)
  /\ "test" \notin Message /\ Message # {}

Instruction == 1..MaxInstructions

VARIABLES
  ins,           \* the instructions, see InsType
  isLogOpened,   \* field of each WebApplication
  stepStack,     \* the steps that are open: application and message
  before, after, \* breakpoints: "none", "set" or "broken"
  past           \* history: "left": an instruction was left running;
                 \*   "unclosed": an error handler did not come to its end,
                 \*   "closed": one closed a log that others still ran in

logVars == <<isLogOpened, stepStack>>
vars    == <<ins, logVars, before, after, past>>

-----------------------------------------------------------------------------
TestStep == [app |-> "test", message |-> "test"]
OpenStep == {TestStep} \cup [app : App, message : Message]

Answers == {"none", "value", "error"}

InsType ==
  [at : {"idle", "called", "breakpoint", "opens", "stuck", "runs", "fails", "over"},
   app : App, row : Effects,      \* its application, what its body is like
   message : Message,             \* what its step is called
   caller : 0..MaxInstructions,   \* who waits for it; 0 is the test or nobody
   waits : 0..MaxInstructions,    \* what it waits for, 0 for nothing
   top : BOOLEAN,                 \* it has a step
   followed : BOOLEAN,            \* its promise follows its body's
   answer : Answers]              \* what its promise has settled with

(* An instruction that is not under way. *)
Still(s, answer) ==
  [at |-> s, app |-> CHOOSE a \in App : TRUE, row |-> CHOOSE r \in Effects : TRUE,
   message |-> CHOOSE m \in Message : TRUE, caller |-> 0, waits |-> 0,
   top |-> FALSE, followed |-> FALSE, answer |-> answer]

UnderWay(i) == ins[i].at \in {"called", "breakpoint", "opens", "runs", "fails"}

TypeOK ==
  /\ ins \in [Instruction -> InsType]
  /\ isLogOpened \in [App -> BOOLEAN]
  /\ stepStack \in Seq(OpenStep)
  /\ {before, after} \subseteq {"none", "set", "broken"} /\ past \subseteq {"left", "unclosed", "closed"}

(* run() has started the step of the test. *)
Init ==
  /\ ins = [i \in Instruction |-> Still("idle", "none")]
  /\ isLogOpened = [a \in App |-> FALSE]
  /\ stepStack = <<TestStep>>
  /\ before = "none" /\ after = "none"
  /\ past = {}

-----------------------------------------------------------------------------
(* AbstractLoggerClient: startStep, and endStep, which pops until it has      *)
(* popped a step of that message, or all of them.                            *)
StartStep(s, a, m) == Append(s, [app |-> a, message |-> m])

(* Mutant: only a step that is on top is popped.                             *)
EndStepOnTop(s, m) ==
  IF s # <<>> /\ s[Len(s)].message = m THEN SubSeq(s, 1, Len(s) - 1) ELSE s

EndStep(s, m) ==
  LET same == {k \in DOMAIN s : s[k].message = m}
  IN IF same = {} THEN <<>> ELSE SubSeq(s, 1, Max(same) - 1)

-----------------------------------------------------------------------------
(* The next instruction is called for application a: by the test (c is 0) or  *)
(* in the body of c, which waits for w then.                                 *)
Called(i, a, c, w) ==
  /\ ins[i].at = "idle" /\ \A j \in 1..(i - 1) : ins[j].at # "idle"
  /\ \E r \in Effects :
       ins' = [j \in Instruction |->
                 IF j = i THEN [Still("called", "none") EXCEPT
                                  !.app = a, !.row = r, !.caller = c]
                 ELSE IF j = c THEN [ins[j] EXCEPT !.waits = w]
                 ELSE ins[j]]
  /\ UNCHANGED <<logVars, before, after>>

(* The test has the answer to what it called: it calls something else. *)
CallByTest(i, a) ==
  /\ \A j \in Instruction :
       ins[j].at # "idle" /\ ins[j].caller = 0 => ins[j].answer # "none"
  /\ Called(i, a, 0, 0)
  /\ UNCHANGED past

(* A body calls an instruction and awaits it. *)
CallByBody(i, c) ==
  /\ ins[c].at = "runs" /\ ins[c].waits = 0 /\ ins[c].row.awaits
  /\ Called(i, ins[c].app, c, i)
  /\ UNCHANGED past

(* A body calls an instruction that it does not wait for, or no longer. *)
Leave(i, c) ==
  /\ ins[c].at = "runs" /\ ins[c].waits = 0 /\ ins[c].row.leaves
  /\ Called(i, ins[c].app, c, 0)
  /\ past' = past \cup {"left"}

(* Mutant: every instruction opens the log.                                  *)
InitialisedAlone(i) ==
  /\ ins[i].at = "called" /\ before # "broken"
  /\ ins' = [ins EXCEPT ![i].at = IF before = "none" THEN "opens" ELSE "breakpoint"]
  /\ UNCHANGED <<logVars, before, after, past>>

(* initPromise has answered.  When the log is open the body runs in it;       *)
(* otherwise the instruction waits at the breakpoint, if there is one.  One   *)
(* that was broken rejects, which the executor of the promise does not pass   *)
(* on.                                                                       *)
Initialised(i) ==
  /\ ins[i].at = "called"
  /\ ins' = [ins EXCEPT ![i].at = IF isLogOpened[ins[i].app] THEN "runs"
                                  ELSE CASE before = "none" -> "opens"
                                         [] before = "set" -> "breakpoint"
                                         [] before = "broken" -> "stuck"]
  /\ UNCHANGED <<logVars, before, after, past>>

(* The step is started and the body runs.  What is awaited next is the        *)
(* breakpoint after the instruction, while the body runs; without one the     *)
(* promise follows the body's.                                               *)
Begin(i) ==
  /\ ins[i].at = "opens"
  /\ \E m \in Message :
       /\ ins' = [ins EXCEPT ![i].at = "runs", ![i].top = TRUE, ![i].message = m,
                              ![i].followed = (after = "none")]
       /\ stepStack' = StartStep(stepStack, ins[i].app, m)
  /\ isLogOpened' = [isLogOpened EXCEPT ![ins[i].app] = TRUE]
  /\ UNCHANGED <<before, after, past>>

(* The promise of i settles, unless it has. *)
Settle(i, value) == IF ins[i].answer = "none" THEN value ELSE ins[i].answer

(* What the body of i waited for has answered, and the body goes on. *)
Answered(i) == ins[i].waits # 0 => ins[ins[i].waits].answer # "none"

Resume(i) ==
  /\ ins[i].at = "runs" /\ ins[i].waits # 0 /\ Answered(i)
  /\ ins' = [ins EXCEPT ![i].waits = 0]
  /\ UNCHANGED <<logVars, before, after, past>>

(* The step of i is ended and the log of its application closed. *)
Close(i, stack) ==
  /\ stepStack' = stack
  /\ isLogOpened' = [isLogOpened EXCEPT ![ins[i].app] = FALSE]

(* The body of i resolves. *)
Succeed(i) ==
  /\ ins[i].at = "runs" /\ Answered(i)
  /\ ins' = [ins EXCEPT ![i] = Still("over", "value")]
  /\ IF ins[i].top THEN Close(i, EndStep(stepStack, ins[i].message))
     ELSE UNCHANGED logVars
  /\ UNCHANGED <<before, after, past>>

(* The body of i rejects.  Without a step its promise rejects; with one the   *)
(* error handler is called, and the promise rejects now if it follows the     *)
(* body's.                                                                   *)
Fail(i) ==
  /\ ins[i].at = "runs" /\ Answered(i) /\ ~ins[i].row.caught
  /\ ins' = [ins EXCEPT ![i] =
       IF ~@.top THEN Still("over", "error")
       ELSE [@ EXCEPT !.at = "fails", !.waits = 0,
                      !.answer = IF ins[i].followed THEN "error" ELSE "none"]]
  /\ UNCHANGED <<logVars, before, after, past>>

(* Another instruction runs in the log that is open because of i: the test    *)
(* has called it after i was answered.                                       *)
LogInUse(i) == \E j \in Instruction \ {i} : ins[j].at = "runs" /\ ins[j].app = ins[i].app

Closed(i) == past' = IF LogInUse(i) THEN past \cup {"closed"} ELSE past

(* Mutant: the error handler closes the step and does not reject.            *)
HandledSilently(i) ==
  /\ ins[i].at = "fails"
  /\ ins' = [ins EXCEPT ![i] = Still("over", @.answer)]
  /\ Close(i, EndStep(stepStack, ins[i].message)) /\ Closed(i)
  /\ UNCHANGED <<before, after>>

(* The error handler is over: endStep is called, and called again by the      *)
(* handler of success that follows it.                                       *)
Handled(i) ==
  /\ ins[i].at = "fails"
  /\ ins' = [ins EXCEPT ![i] = Still("over", "error")]
  /\ Close(i, EndStep(EndStep(stepStack, ins[i].message), ins[i].message)) /\ Closed(i)
  /\ UNCHANGED <<before, after>>

(* The screenshot of the error handler fails: nothing is closed, and only     *)
(* the breakpoint after the instruction can settle the promise.              *)
HandlerFails(i) ==
  /\ "screenshot" \in Faults /\ ins[i].at = "fails"
  /\ ins' = [ins EXCEPT ![i] = [Still("over", @.answer) EXCEPT
                                   !.top = TRUE, !.followed = ins[i].followed]]
  /\ past' = past \cup {"unclosed"}
  /\ UNCHANGED <<logVars, before, after>>

-----------------------------------------------------------------------------
(* AsyncBreakpoints, as a debugger uses it. *)

AddBreakpoint ==
  /\ \/ before = "none" /\ before' = "set" /\ UNCHANGED after
     \/ after = "none" /\ after' = "set" /\ UNCHANGED before
  /\ UNCHANGED <<ins, logVars, past>>

(* Instructions that wait at the breakpoint before them go to step s. *)
Release(s) ==
  ins' = [i \in Instruction |->
            IF ins[i].at = "breakpoint" THEN [ins[i] EXCEPT !.at = s] ELSE ins[i]]

ResolveBefore ==
  /\ before = "set" /\ before' = "none"
  /\ Release("opens")
  /\ UNCHANGED <<logVars, after, past>>

(* Promises that waited follow their bodies', which may have rejected. *)
ResolveAfter ==
  /\ after = "set" /\ after' = "none"
  /\ ins' = [i \in Instruction |->
                IF ~ins[i].top THEN ins[i]
                ELSE [ins[i] EXCEPT !.followed = TRUE,
                        !.answer = IF ins[i].at = "runs" THEN @ ELSE "error"]]
  /\ UNCHANGED <<logVars, before, past>>

(* breakStack rejects the breakpoints that are set, and leaves them where     *)
(* they are.                                                                 *)
BreakStack ==
  /\ "break" \in Faults /\ "set" \in {before, after}
  /\ before' = IF before = "set" THEN "broken" ELSE before
  /\ after' = IF after = "set" THEN "broken" ELSE after
  /\ Release("stuck")
  /\ UNCHANGED <<logVars, past>>

Debugger == AddBreakpoint \/ ResolveBefore \/ ResolveAfter \/ BreakStack

Step(i) == Initialised(i) \/ Begin(i) \/ Resume(i) \/ Succeed(i) \/ Fail(i)
           \/ Handled(i) \/ HandlerFails(i)

Next ==
  \/ \E i \in Instruction :
       \/ Step(i)
       \/ \E a \in App : CallByTest(i, a)
       \/ \E c \in Instruction : CallByBody(i, c) \/ Leave(i, c)
  \/ Debugger

Spec == Init /\ [][Next]_vars

(* The browser answers what it is asked and initPromise is kept. *)
Fairness == \A i \in Instruction : WF_vars(Step(i))

FairSpec == Spec /\ Fairness

-----------------------------------------------------------------------------
(* Properties. *)

Quiet(a) == \A i \in Instruction : ins[i].app = a => ~UnderWay(i)

(* When nothing of an application is under way its log is closed, and when    *)
(* nothing of the test is, no step of an instruction is open: whatever was    *)
(* left running, whichever failed while the test went on, and whosever steps  *)
(* they popped; unless an error handler has failed.                          *)
QuietMeansClosed == "unclosed" \notin past =>
  /\ \A a \in App : Quiet(a) => ~isLogOpened[a]
  /\ (\A a \in App : Quiet(a)) => \A k \in DOMAIN stepStack : stepStack[k] = TestStep

(* The step of i has been started, and i has not ended it.                    *)
HasStep(i) == ins[i].top /\ ins[i].at \in {"runs", "fails"}

(* Of the instructions of an application one at a time has a step, also when  *)
(* the test goes on while the error handler of one that failed is at work;    *)
(* unless some have been left running, or an error handler has failed.  And   *)
(* one that another waits for has none, unless, besides, an error handler     *)
(* has closed the log that a later instruction ran in: what that one calls    *)
(* then does begin a step of its own.                                        *)
OneStepPerApp ==
  /\ past \subseteq {"closed"} => \A i, j \in Instruction :
       HasStep(i) /\ HasStep(j) /\ ins[i].app = ins[j].app => i = j
  /\ past = {} => \A i, c \in Instruction : ins[c].waits = i => ~HasStep(i)

(* Every instruction is answered, whatever fails and however error handlers   *)
(* and the breakpoints come in between, unless the breakpoint before          *)
(* instructions is never resolved, or it or one it waits for stops at the one *)
(* after when its error handler has failed.                                  *)
InstructionsAnswered ==
  \A i \in Instruction :
    ins[i].at = "called" ~> \/ ins[i].answer # "none" \/ [](before # "none")
                            \/ "unclosed" \in past /\ after # "none"

=============================================================================
