---------------------------- MODULE TestOutcomes ----------------------------
(***************************************************************************)
(* What a run promises about its tests: each is tried a bounded number of  *)
(* times, never twice at once, gets one outcome after its last try, and    *)
(* the run ends, with the failed tests as its errors, when none is tried   *)
(* any more.                                                               *)
(***************************************************************************)
EXTENDS Naturals

CONSTANTS
  Test,       \* the tests that may run
  RetryCount  \* how often a failed test is tried again

VARIABLES
  trying,   \* the tests that are being tried
  tries,    \* how often each test has been tried
  passed,   \* the tests with the outcome passed
  failed,   \* the tests with the outcome failed
  verdict   \* {} before the end, then the set whose element is the set of errors

outcomeVars == <<trying, tries, passed, failed, verdict>>

OutcomeInit ==
  /\ trying = {} /\ passed = {} /\ failed = {} /\ verdict = {}
  /\ tries = [t \in Test |-> 0]

Try(t) ==
  /\ t \notin trying \cup passed \cup failed
  /\ verdict = {}
  /\ tries[t] <= RetryCount
  /\ trying' = trying \cup {t}
  /\ tries' = [tries EXCEPT ![t] = @ + 1]
  /\ UNCHANGED <<passed, failed, verdict>>

(* A try that ends without an outcome leaves a try. *)
TryAgain(t) ==
  /\ t \in trying
  /\ tries[t] <= RetryCount
  /\ trying' = trying \ {t}
  /\ UNCHANGED <<tries, passed, failed, verdict>>

Pass(t) ==
  /\ t \in trying
  /\ trying' = trying \ {t}
  /\ passed' = passed \cup {t}
  /\ UNCHANGED <<tries, failed, verdict>>

Fail(t) ==
  /\ t \in trying
  /\ trying' = trying \ {t}
  /\ failed' = failed \cup {t}
  /\ UNCHANGED <<tries, passed, verdict>>

End ==
  /\ trying = {} /\ verdict = {}
  /\ verdict' = {failed}
  /\ UNCHANGED <<trying, tries, passed, failed>>

OutcomeNext == End \/ \E t \in Test : Try(t) \/ TryAgain(t) \/ Pass(t) \/ Fail(t)

OutcomeSpec == OutcomeInit /\ [][OutcomeNext]_outcomeVars
=============================================================================
