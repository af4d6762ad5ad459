-------------------------- MODULE TestWorker_proofs --------------------------
(***************************************************************************)
(* What kill() reaches and what the outcome of an execution means, for any *)
(* number of executions, calls of run() and test functions.                *)
(***************************************************************************)
EXTENDS TestWorker, TLAPS

LEMMA TypeInit == Init => TypeOK
<1> SUFFICES ASSUME Init
             PROVE  TypeOK
  OBVIOUS
<1>1. 0 \in 0..Files /\ 0 \in 0..Functions
  BY WorkerAssumption
<1> QED
  BY <1>1 DEF Init, TypeOK

LEMMA TypeStep == TypeOK /\ [Next]_vars => TypeOK'
<1> SUFFICES ASSUME TypeOK, [Next]_vars
             PROVE  TypeOK'
  OBVIOUS
<1> USE WorkerAssumption
<1>1. CASE Start
  BY <1>1 DEF Start, TypeOK, Exec, bodyVars, abortVars
<1>2. ASSUME NEW e \in Exec, NEW o \in Settled, Settle(e, o)
      PROVE  /\ current' \in 0..Files /\ awaiting' \in BOOLEAN
             /\ at' \in [Exec -> {"new", "compiling"} \cup InWork \cup Settled]
  BY <1>2 DEF Settle, TypeOK
<1>3. ASSUME NEW e \in Exec, CompileFailed(e)
      PROVE  TypeOK'
  BY <1>2, <1>3 DEF CompileFailed, TypeOK, bodyVars, abortVars, Settled
<1>4. ASSUME NEW e \in Exec, Execute(e)
      PROVE  TypeOK'
  BY <1>4 DEF Execute, TypeOK, Exec, InWork, callerVars
<1>5. ASSUME NEW e \in Exec, Flushed(e)
      PROVE  TypeOK'
  BY <1>2, <1>5 DEF Flushed, TypeOK, bodyVars, Settled
<1>6. ASSUME NEW b \in Exec \X Run, NextTest(b)
      PROVE  TypeOK'
  <2>1. fn[b] \in 0..Functions /\ fn[b] < Functions
    BY <1>6 DEF NextTest, TypeOK
  <2>2. fn[b] + 1 \in 0..Functions
    BY <2>1
  <2> QED
    BY <1>6, <2>2 DEF NextTest, TypeOK, callerVars, abortVars
<1>7. ASSUME NEW b \in Exec \X Run, NEW o \in {"passed", "failed"}, Finish(b, o)
      PROVE  TypeOK'
  BY <1>7 DEF Finish, TypeOK, InWork, callerVars, abortVars
<1>8. ASSUME Abort, UNCHANGED <<current, bodyVars>>, awaiting' \in BOOLEAN
      PROVE  TypeOK'
  <2>1. abortController # 0 => abortController \in Exec
    BY DEF TypeOK, Exec
  <2>2. Started \subseteq Exec
    BY DEF Started, TypeOK, Exec
  <2>3. (aborted \subseteq Exec /\ killed \subseteq Exec)'
    BY <1>8, <2>1, <2>2 DEF Abort, TypeOK, Started, Exec
  <2>4. at' \in [Exec -> {"new", "compiling"} \cup InWork \cup Settled]
    BY <1>8 DEF Abort, TypeOK, InWork
  <2> QED
    BY <1>8, <2>3, <2>4 DEF Abort, TypeOK, bodyVars
<1>9. CASE UNCHANGED vars
  BY <1>9 DEF vars, callerVars, bodyVars, abortVars, TypeOK
<1> QED
  BY <1>1, <1>3, <1>4, <1>5, <1>6, <1>7, <1>8, <1>9
     DEF Next, Timeout, Kill, RunFailed, RunPassed, TypeOK, callerVars

(* The variables have their types whatever the tests and the loop do.         *)
THEOREM TypeCorrect == Spec => []TypeOK
BY TypeInit, TypeStep, PTL DEF Spec

-----------------------------------------------------------------------------
(* An execution that was not started is new, one whose script did not run    *)
(* has called no run().                                                      *)
Fresh  == \A e \in Exec : e > current => at[e] = "new"
Silent == \A e \in Exec :
            at[e] \in {"new", "compiling"} => \A k \in Run : body[<<e, k>>] = "none"

(* An aborted execution no longer waits for its test. *)
AbortedDecided == \A e \in aborted : at[e] \in Decided

WorkerInv ==
  TypeOK /\ Fresh /\ Silent /\ ControllerInWork /\ OutcomeOfTest /\ AbortedDecided

(* How an execution proceeds.  Only Flushed takes it out of InWork, and with  *)
(* it any AbortController there is.                                          *)
Move(e) ==
  \/ at'[e] = at[e]
  \/ e = current + 1 /\ current' = e /\ at'[e] = "compiling" /\ UNCHANGED abortController
  \/ at[e] = "compiling" /\ at'[e] \in InWork \cup {"rejected"}
  \/ at[e] = "running" /\ at'[e] \in {"flushPassed", "flushFailed"}
  \/ at[e] \in InWork /\ at'[e] \in Settled /\ abortController' = 0

LEMMA Moves ==
  ASSUME TypeOK, [Next]_vars, NEW e \in Exec
  PROVE  Move(e)
<1>1. CASE Start
  BY <1>1 DEF Start, TypeOK, Move, abortVars
<1>2. ASSUME NEW x \in Exec, CompileFailed(x)
      PROVE  Move(e)
  BY <1>2 DEF CompileFailed, Settle, TypeOK, Move
<1>3. ASSUME NEW x \in Exec, Execute(x)
      PROVE  Move(e)
  BY <1>3 DEF Execute, TypeOK, Move, InWork
<1>4. ASSUME NEW x \in Exec, Flushed(x)
      PROVE  Move(e)
  BY <1>4 DEF Flushed, Settle, TypeOK, Move, InWork, Settled
<1>5. ASSUME NEW b \in Exec \X Run, NextTest(b)
      PROVE  Move(e)
  BY <1>5 DEF NextTest, Move
<1>6. ASSUME NEW b \in Exec \X Run, NEW o \in {"passed", "failed"}, Finish(b, o)
      PROVE  Move(e)
  BY <1>6 DEF Finish, TypeOK, Move
<1>7. CASE Abort
  BY <1>7 DEF Abort, Move
<1>8. CASE UNCHANGED vars
  BY <1>8 DEF vars, Move
<1> QED
  BY <1>1, <1>2, <1>3, <1>4, <1>5, <1>6, <1>7, <1>8 DEF Next, Timeout, Kill, RunFailed, RunPassed

LEMMA CurrentStep ==
  ASSUME TypeOK, [Next]_vars
  PROVE  current' \in Int /\ current \in Int /\ current' >= current
BY DEF Next, vars, callerVars, TypeOK, Start, CompileFailed, Settle, Execute, Flushed,
       NextTest, RunFailed, RunPassed, Finish, Timeout, Kill

LEMMA FreshStep ==
  ASSUME TypeOK, Fresh, [Next]_vars
  PROVE  Fresh'
<1> SUFFICES ASSUME NEW e \in Exec, e > current'
             PROVE  at'[e] = "new"
  BY DEF Fresh, Exec
<1>1. e > current /\ e # current'
  BY CurrentStep DEF Exec
<1>2. at[e] = "new"
  BY <1>1 DEF Fresh
<1> QED
  BY <1>1, <1>2, Moves DEF Move, InWork

LEMMA ControllerStep ==
  ASSUME TypeOK, Fresh, ControllerInWork, [Next]_vars
  PROVE  ControllerInWork'
<1>1. \/ abortController' \in {0, abortController}
      \/ \E e \in Exec : Execute(e)
  BY DEF Next, vars, abortVars, Start, CompileFailed, Flushed, NextTest, RunFailed,
         RunPassed, Finish, Timeout, Kill, Abort
<1>2. ASSUME NEW e \in Exec, Execute(e)
      PROVE  ControllerInWork'
  BY <1>2 DEF Execute, ControllerInWork, TypeOK, InWork
<1>3. CASE abortController' = abortController /\ abortController # 0
  <2>1. abortController \in Exec
    BY <1>3 DEF TypeOK, Exec
  <2>2. at[abortController] \in InWork
    BY <1>3 DEF ControllerInWork
  <2>3. abortController # current + 1
    <3>1. abortController = current + 1 => at[abortController] = "new"
      BY <2>1, CurrentStep DEF Fresh, Exec
    <3> QED
      BY <2>2, <3>1 DEF InWork
  <2>4. Move(abortController)
    BY <2>1, Moves
  <2> QED
    BY <1>3, <2>2, <2>3, <2>4 DEF Move, InWork, ControllerInWork
<1>4. CASE abortController' = 0
  BY <1>4 DEF ControllerInWork
<1> QED
  BY <1>1, <1>2, <1>3, <1>4

-----------------------------------------------------------------------------
(* How a run() proceeds: the script starts it, then only its own steps change *)
(* it.                                                                       *)
LEMMA BodyMoves ==
  ASSUME TypeOK, [Next]_vars, NEW e \in Exec, NEW k \in Run
  PROVE  \/ body'[<<e, k>>] = body[<<e, k>>]
         \/ body[<<e, k>>] \in {"starting", "testing"}
         \/ at[e] = "compiling" /\ at'[e] \in InWork
<1>1. ASSUME Execute(e)
      PROVE  at[e] = "compiling" /\ at'[e] \in InWork
  BY <1>1 DEF Execute, TypeOK, InWork
<1>2. ASSUME NEW x \in Exec, x # e, Execute(x)
      PROVE  body'[<<e, k>>] = body[<<e, k>>]
  BY <1>2 DEF Execute
<1>3. ASSUME NEW b \in Exec \X Run, InRun(b),
             \E o : body' = [body EXCEPT ![b] = o]
      PROVE  \/ body'[<<e, k>>] = body[<<e, k>>]
             \/ body[<<e, k>>] \in {"starting", "testing"}
  BY <1>3 DEF InRun, TypeOK
<1>4. \/ UNCHANGED body
      \/ \E x \in Exec : Execute(x)
      \/ \E b \in Exec \X Run : InRun(b) /\ \E o : body' = [body EXCEPT ![b] = o]
  <2>1. ASSUME NEW b \in Exec \X Run, NextTest(b)
        PROVE  InRun(b) /\ \E o : body' = [body EXCEPT ![b] = o]
    BY <2>1 DEF NextTest
  <2>2. ASSUME NEW b \in Exec \X Run, RunFailed(b) \/ RunPassed(b)
        PROVE  InRun(b) /\ \E o : body' = [body EXCEPT ![b] = o]
    BY <2>2 DEF RunFailed, RunPassed, Finish
  <2> QED
    BY <2>1, <2>2 DEF Next, vars, bodyVars, Start, CompileFailed, Flushed, Timeout, Kill
<1> QED
  BY <1>1, <1>2, <1>3, <1>4

LEMMA SilentStep ==
  ASSUME TypeOK, Fresh, Silent, [Next]_vars
  PROVE  Silent'
<1> SUFFICES ASSUME NEW e \in Exec, at'[e] \in {"new", "compiling"}, NEW k \in Run
             PROVE  body'[<<e, k>>] = "none"
  BY DEF Silent, Exec
<1>1. at'[e] \notin InWork
  BY DEF InWork
<1>2. at[e] \in {"new", "compiling"}
  <2>1. e = current + 1 /\ current' = e => at[e] = "new"
    BY CurrentStep DEF Fresh, Exec
  <2> QED
    BY <1>1, <2>1, Moves DEF Move, InWork, Settled
<1>3. body[<<e, k>>] = "none"
  BY <1>2 DEF Silent
<1> QED
  BY <1>1, <1>3, BodyMoves

LEMMA PassedStays ==
  ASSUME TypeOK, [Next]_vars, NEW e \in Exec, NEW k \in Run,
         body[<<e, k>>] \in {"passed", "none"},
         at[e] # "compiling" \/ at'[e] \notin InWork
  PROVE  body'[<<e, k>>] = body[<<e, k>>]
BY BodyMoves

(* An execution is about to resolve only when a run() has just passed, or the *)
(* script has ended without one.                                             *)
LEMMA OutcomeStep ==
  ASSUME TypeOK, Silent, OutcomeOfTest, [Next]_vars
  PROVE  OutcomeOfTest'
<1> SUFFICES ASSUME NEW e \in Exec, at'[e] \in {"flushPassed", "resolved"}
             PROVE  \/ \E k \in Run : body'[<<e, k>>] = "passed"
                    \/ \A k \in Run : body'[<<e, k>>] = "none"
  BY DEF OutcomeOfTest, Exec
<1>1. CASE at[e] \in {"flushPassed", "resolved"}
  <2>1. \/ \E k \in Run : body[<<e, k>>] = "passed"
        \/ \A k \in Run : body[<<e, k>>] = "none"
    BY <1>1 DEF OutcomeOfTest
  <2> QED
    BY <1>1, <2>1, PassedStays
<1>2. CASE at[e] \notin {"flushPassed", "resolved"}
  <2>1. ASSUME NEW x \in Exec, Execute(x)
        PROVE  \A k \in Run : body'[<<e, k>>] = "none"
    <3>1. at[e] = "compiling" /\ x = e
      BY <1>2, <2>1 DEF Execute, TypeOK
    <3>2. \A k \in Run : body'[<<e, k>>] = body[<<e, k>>]
      <4>1. PICK called \in SUBSET Run, throws \in BOOLEAN :
              /\ body' = [b \in Exec \X Run |->
                           IF b[1] = x /\ b[2] \in called THEN "starting" ELSE body[b]]
              /\ at' = [at EXCEPT ![x] = IF throws THEN "flushFailed"
                         ELSE IF called = {} THEN "flushPassed" ELSE "running"]
        BY <2>1 DEF Execute
      <4>2. called = {}
        BY <3>1, <4>1 DEF TypeOK
      <4> QED
        BY <4>1, <4>2
    <3> QED
      BY <3>1, <3>2 DEF Silent
  <2>2. ASSUME NEW b \in Exec \X Run, NEW o \in {"passed", "failed"}, Finish(b, o)
        PROVE  \E k \in Run : body'[<<e, k>>] = "passed"
    <3>1. b[1] = e /\ o = "passed"
      BY <1>2, <2>2 DEF Finish, TypeOK
    <3>2. b = <<e, b[2]>> /\ b[2] \in Run
      BY <3>1
    <3>3. body'[b] = "passed"
      BY <2>2, <3>1 DEF Finish, TypeOK
    <3> QED
      BY <3>2, <3>3
  <2>3. ASSUME UNCHANGED at \/ Start \/ Abort \/ \E x \in Exec : CompileFailed(x) \/ Flushed(x)
        PROVE  FALSE
    BY <1>2, <2>3 DEF Start, Abort, CompileFailed, Flushed, Settle, TypeOK
  <2> QED
    BY <2>1, <2>2, <2>3 DEF Next, vars, NextTest, Timeout, Kill, RunFailed, RunPassed
<1> QED
  BY <1>1, <1>2

LEMMA AbortedStep ==
  ASSUME TypeOK, Fresh, ControllerInWork, AbortedDecided, [Next]_vars
  PROVE  AbortedDecided'
<1> SUFFICES ASSUME NEW e \in aborted'
             PROVE  at'[e] \in Decided
  BY DEF AbortedDecided, Decided, Failed
<1>1. CASE e \in aborted
  <2>1. e \in Exec /\ at[e] \in Decided
    BY <1>1 DEF AbortedDecided, TypeOK
  <2>2. ~(e = current + 1 /\ current' = e)
    <3>1. e = current + 1 /\ current' = e => at[e] = "new"
      BY <2>1, CurrentStep DEF Fresh, Exec
    <3> QED
      BY <2>1, <3>1 DEF Decided, Failed
  <2> QED
    BY <2>1, <2>2, Moves DEF Move, Decided, Failed, Settled
<1>2. CASE e \notin aborted
  <2>1. Abort /\ e = abortController /\ abortController # 0
    BY <1>2 DEF Next, vars, abortVars, Start, CompileFailed, Execute, Flushed, NextTest,
       RunFailed, RunPassed, Finish, Timeout, Kill, Abort
  <2>2. e \in Exec /\ at[e] \in InWork
    BY <2>1 DEF ControllerInWork, TypeOK, Exec
  <2> QED
    BY <2>1, <2>2 DEF Abort, InWork, Decided, Failed
<1> QED
  BY <1>1, <1>2

LEMMA WorkerInvariant == Spec => []WorkerInv
<1>1. Init => WorkerInv
  <2>1. Init => Fresh /\ Silent /\ ControllerInWork /\ OutcomeOfTest /\ AbortedDecided
    BY DEF Init, Fresh, Silent, ControllerInWork, OutcomeOfTest, AbortedDecided
  <2> QED
    BY <2>1, TypeInit DEF WorkerInv
<1>2. WorkerInv /\ [Next]_vars => WorkerInv'
  BY TypeStep, FreshStep, SilentStep, ControllerStep, OutcomeStep, AbortedStep
     DEF WorkerInv
<1> QED
  BY <1>1, <1>2, PTL DEF Spec

(* kill() aborts an execution in work or nothing: an AbortController does not *)
(* outlive its execution, in whatever order executions overlap.              *)
THEOREM KillAbortsWork == Spec => []ControllerInWork
<1>1. WorkerInv => ControllerInWork
  BY DEF WorkerInv
<1> QED
  BY <1>1, WorkerInvariant, PTL

(* An execution resolves only if a run() of its file has passed, or the file  *)
(* has called none.                                                          *)
THEOREM ResolvesForPassed == Spec => []OutcomeOfTest
<1>1. WorkerInv => OutcomeOfTest
  BY DEF WorkerInv
<1> QED
  BY <1>1, WorkerInvariant, PTL

(* An aborted execution is decided, calls no further test function, and none  *)
(* of its run() turns its failure into a success.                            *)
THEOREM AbortedIsFinal == Spec => AbortIsFinal
<1>1. WorkerInv /\ [Next]_vars =>
        [\A e \in aborted :
           /\ at[e] \in Decided
           /\ \A k \in Run : fn'[<<e, k>>] = fn[<<e, k>>]
           /\ at[e] \in Failed => at'[e] \in Failed]_vars
  <2> SUFFICES ASSUME WorkerInv, Next, NEW e \in aborted
               PROVE  /\ at[e] \in Decided
                      /\ \A k \in Run : fn'[<<e, k>>] = fn[<<e, k>>]
                      /\ at[e] \in Failed => at'[e] \in Failed
    OBVIOUS
  <2>1. TypeOK /\ at[e] \in Decided /\ e \in Exec
    BY DEF WorkerInv, AbortedDecided, TypeOK
  <2>2. ASSUME NEW k \in Run
        PROVE  fn'[<<e, k>>] = fn[<<e, k>>]
    <3>1. ASSUME NEW c \in Exec \X Run, NextTest(c)
          PROVE  fn'[<<e, k>>] = fn[<<e, k>>]
      BY <2>1, <3>1 DEF NextTest, TypeOK
    <3> QED
      BY <3>1 DEF Next, Start, Timeout, Kill, CompileFailed, Execute, Flushed, RunFailed,
           RunPassed, Finish, bodyVars
  <2>3. ASSUME at[e] \in Failed
        PROVE  at'[e] \in Failed
    <3>1. ASSUME NEW x \in Exec, Flushed(x)
          PROVE  at'[e] \in Failed
      BY <2>1, <2>3, <3>1 DEF Flushed, Settle, TypeOK, Failed
    <3>2. ASSUME Start
          PROVE  at'[e] \in Failed
      <4>1. current + 1 \in Exec /\ current + 1 > current
        BY <2>1, <3>2, WorkerAssumption DEF Start, TypeOK, Exec
      <4>2. at[current + 1] = "new"
        BY <4>1 DEF WorkerInv, Fresh
      <4> QED
        BY <2>1, <2>3, <3>2, <4>2 DEF Start, TypeOK, Failed
    <3>3. ASSUME NEW x \in Exec, CompileFailed(x) \/ Execute(x)
          PROVE  at'[e] \in Failed
      BY <2>1, <2>3, <3>3 DEF CompileFailed, Execute, Settle, TypeOK, Failed
    <3>4. ASSUME NEW c \in Exec \X Run, NEW o \in {"passed", "failed"}, Finish(c, o)
          PROVE  at'[e] \in Failed
      BY <2>1, <2>3, <3>4 DEF Finish, TypeOK, Failed
    <3>5. ASSUME Abort \/ UNCHANGED at
          PROVE  at'[e] \in Failed
      BY <2>1, <2>3, <3>5 DEF Abort, Failed
    <3> QED
      BY <3>1, <3>2, <3>3, <3>4, <3>5 DEF Next, NextTest, Timeout, Kill, RunFailed, RunPassed
  <2> QED
    BY <2>1, <2>2, <2>3
<1> QED
  BY <1>1, WorkerInvariant, PTL DEF Spec, AbortIsFinal

=============================================================================
