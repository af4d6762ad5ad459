------------------------ MODULE WebApplication_proofs -------------------------
(***************************************************************************)
(* Two components of packages/web-application that share nothing but this  *)
(* module: first WebApplicationSteps, then WebApplicationTabs.             *)
(*                                                                         *)
(* WebApplicationSteps: what a test's instructions open is closed again,   *)
(* and an instruction inside another has no step of its own, for any       *)
(* number of applications, names of steps and instructions.  The steps of  *)
(* all applications are on one stack, and endStep pops by the name of a    *)
(* step whatever lies above it: who has a step cannot tell where it is.    *)
(* What is kept is a count: of each name, no more steps are open than      *)
(* there are instructions that have not ended theirs.                      *)
(*                                                                         *)
(* WebApplicationTabs: the main tab is open, closeAllOtherTabs leaves no   *)
(* other, and a method that closes tabs ends at a tab it has not closed,   *)
(* for any number of pages, tabs and calls.  Which tab is the main one is  *)
(* known to the application, whether it is open to the browser.  What is   *)
(* kept is that it is open wherever a method stands, but while another is  *)
(* elected; that no step that is still to do closes it; and that what      *)
(* closeAllOtherTabs has not closed it has still to close.                 *)
(***************************************************************************)
EXTENDS WebApplicationSteps, WebApplicationTabs, FiniteSetTheorems, WellFoundedInduction, TLAPS

-----------------------------------------------------------------------------
(* Sets of numbers. *)

LEMMA Least ==
  ASSUME NEW T \in SUBSET Nat, T # {}
  PROVE  \E n \in T : \A k \in T : n <= k
<1> DEFINE R == OpToRel(<, Nat)
<1>1. \A p \in Nat \X Nat : p \in R <=> p[1] < p[2]
  BY DEF OpToRel
<1>2. IsWellFoundedOn(R, Nat)
  BY NatLessThanWellFounded
<1> HIDE DEF R
<1>3. PICK n \in T : \A k \in T : ~ (<<k, n>> \in R)
  BY <1>2, WFMin
<1>4. ASSUME NEW k \in T
      PROVE  n <= k
  <2>1. <<k, n>> \in Nat \X Nat /\ ~ (<<k, n>> \in R)
    BY <1>3
  <2>2. ~ (k < n)
    BY <1>1, <2>1
  <2> QED
    BY <2>2
<1> QED
  BY <1>3, <1>4

LEMMA MaxOf ==
  ASSUME NEW n \in Nat, NEW S \in SUBSET (1..n), S # {}
  PROVE  Max(S) \in S /\ \A k \in S : k <= Max(S)
<1> DEFINE T == {n - k : k \in S}
<1>1. T \in SUBSET Nat /\ T # {}
  <2>1. \A k \in S : k \in 1..n /\ n - k \in Nat
    OBVIOUS
  <2> QED
    BY <2>1
<1>2. PICK t \in T : \A u \in T : t <= u
  BY <1>1, Least
<1>3. PICK x \in S : t = n - x
  BY <1>2
<1>4. ASSUME NEW k \in S
      PROVE  x >= k
  <2>1. n - k \in T
    OBVIOUS
  <2>2. n - x <= n - k
    BY <1>2, <1>3, <2>1
  <2> QED
    BY <2>2
<1>5. \E y \in S : \A k \in S : y >= k
  BY <1>4
<1>6. Max(S) \in S /\ \A k \in S : Max(S) >= k
  BY <1>5, Zenon DEF Max
<1> QED
  BY <1>6

-----------------------------------------------------------------------------
(* The stack. *)

OfMessage(s, m) == {k \in DOMAIN s : s[k].message = m}

LEMMA EndStepPops ==
  ASSUME NEW s \in Seq(OpenStep), NEW m
  PROVE  LET e == EndStep(s, m)
         IN  /\ e \in Seq(OpenStep)
             /\ DOMAIN e \subseteq DOMAIN s /\ \A k \in DOMAIN e : e[k] = s[k]
             /\ OfMessage(s, m) = {} => e = <<>>
             /\ OfMessage(s, m) # {} =>
                  \E x \in OfMessage(s, m) : x \notin DOMAIN e
<1> DEFINE same == {k \in DOMAIN s : s[k].message = m}
           n == Max(same) - 1
<1>1. CASE same = {}
  <2>1. EndStep(s, m) = <<>>
    BY <1>1 DEF EndStep
  <2>2. <<>> \in Seq(OpenStep) /\ DOMAIN <<>> = {}
    OBVIOUS
  <2> QED
    BY <1>1, <2>1, <2>2 DEF OfMessage
<1>2. CASE same # {}
  <2>1. Len(s) \in Nat /\ DOMAIN s = 1..Len(s) /\ same \in SUBSET (1..Len(s))
    OBVIOUS
  <2>2. Max(same) \in same
    BY <1>2, <2>1, MaxOf
  <2>3. n \in 0..Len(s) /\ n < Len(s) /\ n + 1 \in same
    BY <2>1, <2>2
  <2>4. EndStep(s, m) = SubSeq(s, 1, n)
    BY <1>2 DEF EndStep
  <2> HIDE DEF n, same
  <2>5. /\ SubSeq(s, 1, n) \in Seq(OpenStep) /\ DOMAIN SubSeq(s, 1, n) = 1..n
        /\ \A k \in 1..n : SubSeq(s, 1, n)[k] = s[k]
    BY <2>1, <2>3
  <2> QED
    BY <1>2, <2>1, <2>3, <2>4, <2>5 DEF OfMessage, same
<1> QED
  BY <1>1, <1>2

LEMMA OfMessageFinite ==
  ASSUME NEW s \in Seq(OpenStep), NEW m
  PROVE  IsFiniteSet(OfMessage(s, m)) /\ Cardinality(OfMessage(s, m)) \in Nat
<1>1. OfMessage(s, m) \in SUBSET (1..Len(s)) /\ Len(s) \in Nat
  BY DEF OfMessage
<1>2. IsFiniteSet(1..Len(s))
  BY <1>1, FS_Interval
<1>3. IsFiniteSet(OfMessage(s, m))
  BY <1>1, <1>2, FS_Subset
<1> QED
  BY <1>3, FS_CardinalityType

(* Of no name there are more steps than before, and of the one that is ended  *)
(* there is one less, if there was any.                                      *)
LEMMA EndStepCounts ==
  ASSUME NEW s \in Seq(OpenStep), NEW m, NEW other
  PROVE  LET e == EndStep(s, m)
         IN  /\ Cardinality(OfMessage(e, other)) <= Cardinality(OfMessage(s, other))
             /\ \/ Cardinality(OfMessage(e, m)) = 0
                \/ Cardinality(OfMessage(e, m)) <= Cardinality(OfMessage(s, m)) - 1
<1> DEFINE e == EndStep(s, m)
<1>1. /\ e \in Seq(OpenStep)
      /\ DOMAIN e \subseteq DOMAIN s /\ \A k \in DOMAIN e : e[k] = s[k]
      /\ OfMessage(s, m) = {} => e = <<>>
      /\ OfMessage(s, m) # {} => \E x \in OfMessage(s, m) : x \notin DOMAIN e
  BY EndStepPops
<1> HIDE DEF e
<1>2. OfMessage(e, other) \subseteq OfMessage(s, other) /\ OfMessage(e, m) \subseteq OfMessage(s, m)
  BY <1>1 DEF OfMessage
<1>3. /\ IsFiniteSet(OfMessage(s, other)) /\ Cardinality(OfMessage(s, other)) \in Nat
      /\ IsFiniteSet(OfMessage(s, m)) /\ Cardinality(OfMessage(s, m)) \in Nat
  BY OfMessageFinite
<1>4. Cardinality(OfMessage(e, other)) <= Cardinality(OfMessage(s, other))
  BY <1>2, <1>3, FS_Subset
<1>5. CASE OfMessage(s, m) = {}
  BY <1>2, <1>4, <1>5, FS_EmptySet DEF e
<1>6. CASE OfMessage(s, m) # {}
  <2>1. PICK x \in OfMessage(s, m) : x \notin DOMAIN e
    BY <1>1, <1>6
  <2>2. OfMessage(e, m) \in SUBSET (OfMessage(s, m) \ {x})
    BY <1>2, <2>1 DEF OfMessage
  <2>3. /\ IsFiniteSet(OfMessage(s, m) \ {x})
        /\ Cardinality(OfMessage(s, m) \ {x}) = Cardinality(OfMessage(s, m)) - 1
    BY <1>3, FS_RemoveElement
  <2>4. Cardinality(OfMessage(e, m)) <= Cardinality(OfMessage(s, m)) - 1
    BY <2>2, <2>3, FS_Subset
  <2> QED
    BY <1>4, <2>4 DEF e
<1> QED
  BY <1>5, <1>6

-----------------------------------------------------------------------------
(* Types. *)

LEMMA StillType ==
  ASSUME NEW s \in {"idle", "over"}, NEW answer \in Answers
  PROVE  /\ Still(s, answer) \in InsType
         /\ Still(s, answer).at = s /\ Still(s, answer).answer = answer
         /\ Still(s, answer).caller = 0 /\ Still(s, answer).waits = 0
         /\ ~Still(s, answer).top
<1>1. (CHOOSE a \in App : TRUE) \in App /\ (CHOOSE m \in Message : TRUE) \in Message
  BY StepsAssumption
<1>2. (CHOOSE r \in Effects : TRUE) \in Effects
  BY DEF Effects
<1>3. 0 \in 0..MaxInstructions
  BY StepsAssumption
<1> QED
  BY <1>1, <1>2, <1>3 DEF Still, InsType

LEMMA InitType == Init => TypeOK
<1> SUFFICES ASSUME Init PROVE TypeOK
  OBVIOUS
<1>1. ins \in [Instruction -> InsType]
  BY StillType DEF Init, Answers
<1>2. stepStack \in Seq(OpenStep)
  BY DEF Init, OpenStep
<1> QED
  BY <1>1, <1>2 DEF Init, TypeOK

LEMMA CalledType ==
  ASSUME TypeOK, NEW i \in Instruction, NEW a \in App, NEW c \in 0..MaxInstructions,
         NEW w \in {0, i}, Called(i, a, c, w)
  PROVE  ins' \in [Instruction -> InsType]
<1>1. PICK r \in Effects :
        ins' = [j \in Instruction |->
                 IF j = i THEN [Still("called", "none") EXCEPT
                                  !.app = a, !.row = r, !.caller = c]
                 ELSE IF j = c THEN [ins[j] EXCEPT !.waits = w]
                 ELSE ins[j]]
  BY DEF Called
<1>2. i \in 0..MaxInstructions /\ 0 \in 0..MaxInstructions
  BY StepsAssumption DEF Instruction
<1>3. (CHOOSE b \in App : TRUE) \in App /\ (CHOOSE m \in Message : TRUE) \in Message
  BY StepsAssumption
<1>4. [Still("called", "none") EXCEPT !.app = a, !.row = r, !.caller = c] \in InsType
  BY <1>2, <1>3 DEF Still, InsType, Answers
<1>5. ASSUME NEW j \in Instruction
      PROVE  [ins[j] EXCEPT !.waits = w] \in InsType /\ ins[j] \in InsType
  BY <1>2 DEF TypeOK, InsType
<1> QED
  BY <1>1, <1>4, <1>5

(* What a step of i makes of it. *)
LEMMA StepType ==
  ASSUME TypeOK, NEW i \in Instruction, Step(i)
  PROVE  /\ ins'[i] \in InsType
         /\ ins' = [ins EXCEPT ![i] = ins'[i]]
<1>1. ins \in [Instruction -> InsType] /\ ins[i] \in InsType
  BY DEF TypeOK
<1>2. CASE Initialised(i)
  <2>1. before \in {"none", "set", "broken"}
    BY DEF TypeOK
  <2>2. PICK s \in {"runs", "opens", "breakpoint", "stuck"} : ins' = [ins EXCEPT ![i].at = s]
    BY <1>2, <2>1 DEF Initialised
  <2>3. [ins[i] EXCEPT !.at = s] \in InsType
    BY <1>1 DEF InsType
  <2> QED
    BY <1>1, <2>2, <2>3
<1>3. CASE Begin(i)
  <2>1. PICK m \in Message, f \in BOOLEAN :
          ins' = [ins EXCEPT ![i].at = "runs", ![i].top = TRUE, ![i].message = m, ![i].followed = f]
    BY <1>3 DEF Begin
  <2>2. [ins[i] EXCEPT !.at = "runs", !.top = TRUE, !.message = m, !.followed = f] \in InsType
    BY <1>1 DEF InsType
  <2> QED
    BY <1>1, <2>1, <2>2
<1>4. CASE Resume(i)
  <2>1. 0 \in 0..MaxInstructions
    BY StepsAssumption
  <2> QED
    BY <1>1, <1>4, <2>1 DEF Resume, InsType
<1>5. CASE Succeed(i)
  BY <1>1, <1>5, StillType DEF Succeed, Answers
<1>6. CASE Fail(i)
  <2>1. 0 \in 0..MaxInstructions
    BY StepsAssumption
  <2>2. [ins[i] EXCEPT !.at = "fails", !.waits = 0,
                       !.answer = IF ins[i].followed THEN "error" ELSE "none"] \in InsType
    BY <1>1, <2>1 DEF InsType, Answers
  <2> QED
    BY <1>1, <1>6, <2>2, StillType DEF Fail, Answers
<1>7. CASE Handled(i)
  BY <1>1, <1>7, StillType DEF Handled, Answers
<1>8. CASE HandlerFails(i)
  <2>1. Still("over", ins[i].answer) \in InsType
    BY <1>1, StillType DEF InsType
  <2>2. [Still("over", ins[i].answer) EXCEPT !.top = TRUE, !.followed = ins[i].followed] \in InsType
    BY <1>1, <2>1 DEF InsType
  <2> QED
    BY <1>1, <1>8, <2>2 DEF HandlerFails
<1> QED
  BY <1>2, <1>3, <1>4, <1>5, <1>6, <1>7, <1>8 DEF Step

(* What a step makes of the log: a step is begun, or the last of a name ended *)
(* once or twice.                                                            *)
LEMMA LogType ==
  ASSUME TypeOK, NEW i \in Instruction, Step(i)
  PROVE  isLogOpened' \in [App -> BOOLEAN] /\ stepStack' \in Seq(OpenStep)
<1>1. /\ ins[i].app \in App /\ ins[i].message \in Message
      /\ isLogOpened \in [App -> BOOLEAN] /\ stepStack \in Seq(OpenStep)
  BY DEF TypeOK, InsType
<1>2. CASE UNCHANGED logVars
  BY <1>1, <1>2 DEF logVars
<1>3. CASE Begin(i)
  <2>1. PICK m \in Message : stepStack' = Append(stepStack, [app |-> ins[i].app, message |-> m])
    BY <1>3 DEF Begin, StartStep
  <2>2. [app |-> ins[i].app, message |-> m] \in OpenStep
    BY <1>1 DEF OpenStep
  <2> QED
    BY <1>1, <1>3, <2>1, <2>2 DEF Begin
<1>4. CASE Close(i, EndStep(stepStack, ins[i].message))
  BY <1>1, <1>4, EndStepPops DEF Close
<1>5. CASE Close(i, EndStep(EndStep(stepStack, ins[i].message), ins[i].message))
  <2>1. EndStep(stepStack, ins[i].message) \in Seq(OpenStep)
    BY <1>1, EndStepPops
  <2>2. EndStep(EndStep(stepStack, ins[i].message), ins[i].message) \in Seq(OpenStep)
    BY <2>1, EndStepPops
  <2> QED
    BY <1>1, <1>5, <2>2 DEF Close
<1> QED
  BY <1>2, <1>3, <1>4, <1>5
     DEF Step, Initialised, Resume, Succeed, Fail, Handled, HandlerFails, logVars

LEMMA NextType == TypeOK /\ [Next]_vars => TypeOK'
<1> SUFFICES ASSUME TypeOK, [Next]_vars PROVE TypeOK'
  OBVIOUS
<1> USE DEF logVars
<1>1. ASSUME NEW i \in Instruction, Step(i)
      PROVE  TypeOK'
  <2>1. ins' \in [Instruction -> InsType]
    BY <1>1, StepType DEF TypeOK
  <2>2. isLogOpened' \in [App -> BOOLEAN] /\ stepStack' \in Seq(OpenStep)
    BY <1>1, LogType
  <2>3. UNCHANGED <<before, after>> /\ past' \subseteq {"left", "unclosed", "closed"}
    BY <1>1 DEF Step, Initialised, Begin, Resume, Succeed, Fail, Handled, HandlerFails, Closed, TypeOK
  <2> QED
    BY <2>1, <2>2, <2>3 DEF TypeOK
<1>2. ASSUME NEW i \in Instruction,
             \/ \E a \in App : CallByTest(i, a)
             \/ \E c \in Instruction : CallByBody(i, c) \/ Leave(i, c)
      PROVE  TypeOK'
  <2>1. PICK a \in App, c \in 0..MaxInstructions, w \in {0, i} : Called(i, a, c, w)
    <3>1. 0 \in 0..MaxInstructions /\ \A c \in Instruction : c \in 0..MaxInstructions
      BY StepsAssumption DEF Instruction
    <3>2. \A c \in Instruction : ins[c].app \in App
      BY DEF TypeOK, InsType
    <3> QED
      BY <1>2, <3>1, <3>2 DEF CallByTest, CallByBody, Leave
  <2>2. ins' \in [Instruction -> InsType] /\ UNCHANGED <<isLogOpened, stepStack, before, after>>
    <3>1. ins' \in [Instruction -> InsType]
      BY <2>1, CalledType
    <3> QED
      BY <2>1, <3>1 DEF Called
  <2>3. past' \subseteq {"left", "unclosed", "closed"}
    BY <1>2 DEF CallByTest, CallByBody, Leave, TypeOK
  <2> QED
    BY <2>2, <2>3 DEF TypeOK
<1>3. CASE Debugger
  <2>1. ASSUME NEW j \in Instruction, NEW s \in {"opens", "stuck"}
        PROVE  [ins[j] EXCEPT !.at = s] \in InsType /\ ins[j] \in InsType
    BY DEF TypeOK, InsType
  <2>2. ASSUME NEW j \in Instruction, NEW b \in Answers
        PROVE  [ins[j] EXCEPT !.followed = TRUE, !.answer = b] \in InsType
    BY DEF TypeOK, InsType
  <2>3. ins' \in [Instruction -> InsType]
    <3>1. CASE AddBreakpoint
      BY <3>1 DEF AddBreakpoint, TypeOK
    <3>2. CASE ResolveBefore \/ BreakStack
      BY <3>2, <2>1 DEF ResolveBefore, BreakStack, Release
    <3>3. CASE ResolveAfter
      <4>1. \A j \in Instruction : (IF ins[j].at = "runs" THEN ins[j].answer ELSE "error") \in Answers
        BY DEF TypeOK, InsType, Answers
      <4>2. \A j \in Instruction : ins'[j] = IF ~ins[j].top THEN ins[j]
                ELSE [ins[j] EXCEPT !.followed = TRUE,
                        !.answer = IF ins[j].at = "runs" THEN ins[j].answer ELSE "error"]
        BY <3>3 DEF ResolveAfter, TypeOK, InsType
      <4>3. ASSUME NEW j \in Instruction
            PROVE  ins'[j] \in InsType
        <5>1. PICK b \in Answers :
                ins'[j] = IF ~ins[j].top THEN ins[j]
                          ELSE [ins[j] EXCEPT !.followed = TRUE, !.answer = b]
          BY <4>1, <4>2
        <5> QED
          BY <2>1, <2>2, <5>1
      <4> QED
        BY <3>3, <4>3 DEF ResolveAfter
    <3> QED
      BY <1>3, <3>1, <3>2, <3>3 DEF Debugger
  <2>4. UNCHANGED <<isLogOpened, stepStack, past>>
    BY <1>3 DEF Debugger, AddBreakpoint, ResolveBefore, ResolveAfter, BreakStack
  <2>5. {before', after'} \subseteq {"none", "set", "broken"}
    BY <1>3 DEF Debugger, AddBreakpoint, ResolveBefore, ResolveAfter, BreakStack, TypeOK
  <2> QED
    BY <2>3, <2>4, <2>5 DEF TypeOK
<1>4. CASE UNCHANGED vars
  BY <1>4 DEF vars, TypeOK
<1> QED
  BY <1>1, <1>2, <1>3, <1>4 DEF Next

-----------------------------------------------------------------------------
(* What is opened and what is still to be closed. *)

(* The log of an application is open only while an instruction has a step.   *)
Opened == \A a \in App : isLogOpened[a] => \E i \in Instruction : HasStep(i) /\ ins[i].app = a

(* Of no name more steps are open than instructions have. *)
HaveStep(m) == {i \in Instruction : HasStep(i) /\ ins[i].message = m}
Counted == \A m \in Message : Cardinality(OfMessage(stepStack, m)) <= Cardinality(HaveStep(m))

OpenInv == "unclosed" \notin past => Opened /\ Counted

LEMMA InstructionFinite ==
  ASSUME NEW S \in SUBSET Instruction
  PROVE  IsFiniteSet(S) /\ Cardinality(S) \in Nat
<1>1. IsFiniteSet(Instruction)
  BY StepsAssumption, FS_Interval DEF Instruction
<1> QED
  BY <1>1, FS_Subset, FS_CardinalityType

LEMMA InitOpen == Init => OpenInv
<1> SUFFICES ASSUME Init PROVE Opened /\ Counted
  BY DEF OpenInv
<1>1. Opened
  BY DEF Init, Opened
<1>2. ASSUME NEW m \in Message
      PROVE  Cardinality(OfMessage(stepStack, m)) <= Cardinality(HaveStep(m))
  <2>1. OfMessage(stepStack, m) = {}
    BY StepsAssumption DEF Init, OfMessage, TestStep
  <2>2. HaveStep(m) \in SUBSET Instruction
    BY DEF HaveStep
  <2> QED
    BY <2>1, <2>2, InstructionFinite, FS_EmptySet
<1> QED
  BY <1>1, <1>2 DEF Counted

(* Steps of the code that neither open nor close. *)
LEMMA KeptOpen ==
  ASSUME TypeOK, OpenInv, UNCHANGED logVars, past \subseteq past',
         \A j \in Instruction : HasStep(j) =>
           HasStep(j)' /\ ins'[j].app = ins[j].app /\ ins'[j].message = ins[j].message
  PROVE  OpenInv'
<1> SUFFICES ASSUME "unclosed" \notin past' PROVE Opened' /\ Counted'
  BY DEF OpenInv
<1>1. Opened /\ Counted /\ isLogOpened' = isLogOpened /\ stepStack' = stepStack
  BY DEF OpenInv, logVars
<1>2. Opened'
  BY <1>1 DEF Opened
<1>3. ASSUME NEW m \in Message
      PROVE  Cardinality(OfMessage(stepStack', m)) <= Cardinality(HaveStep(m)')
  <2>1. HaveStep(m) \subseteq HaveStep(m)' /\ HaveStep(m)' \in SUBSET Instruction
    BY DEF HaveStep
  <2>2. Cardinality(HaveStep(m)) <= Cardinality(HaveStep(m)')
    BY <2>1, InstructionFinite, FS_Subset
  <2>3. /\ Cardinality(HaveStep(m)) \in Nat /\ Cardinality(HaveStep(m)') \in Nat
    BY <2>1, InstructionFinite
  <2>4. Cardinality(OfMessage(stepStack, m)) <= Cardinality(HaveStep(m))
    BY <1>1 DEF Counted
  <2>5. Cardinality(OfMessage(stepStack, m)) \in Nat
    BY OfMessageFinite DEF TypeOK
  <2> QED
    BY <1>1, <2>2, <2>3, <2>4, <2>5
<1> QED
  BY <1>2, <1>3 DEF Counted

LEMMA BeginOpen ==
  ASSUME TypeOK, OpenInv, NEW i \in Instruction, Begin(i)
  PROVE  OpenInv'
<1> SUFFICES ASSUME "unclosed" \notin past' PROVE Opened' /\ Counted'
  BY DEF OpenInv
<1>1. /\ Opened /\ Counted /\ ins[i].app \in App /\ ins[i].at = "opens"
      /\ ins \in [Instruction -> InsType] /\ stepStack \in Seq(OpenStep)
      /\ isLogOpened \in [App -> BOOLEAN]
  BY DEF OpenInv, TypeOK, InsType, Begin
<1>2. PICK m \in Message :
        /\ ins' = [ins EXCEPT ![i].at = "runs", ![i].top = TRUE, ![i].message = m,
                              ![i].followed = (after = "none")]
        /\ stepStack' = Append(stepStack, [app |-> ins[i].app, message |-> m])
  BY DEF Begin, StartStep
<1>3. isLogOpened' = [isLogOpened EXCEPT ![ins[i].app] = TRUE]
  BY DEF Begin
<1>4. /\ ins'[i].at = "runs" /\ ins'[i].top = TRUE /\ ins'[i].message = m
      /\ ins'[i].app = ins[i].app
      /\ \A j \in Instruction \ {i} : ins'[j] = ins[j]
  BY <1>1, <1>2 DEF InsType
<1>5. /\ HasStep(i)' /\ ~HasStep(i)
      /\ \A j \in Instruction \ {i} : HasStep(j)' <=> HasStep(j)
  BY <1>1, <1>4 DEF HasStep
<1>6. Opened'
  BY <1>1, <1>3, <1>4, <1>5 DEF Opened
<1>7. ASSUME NEW n \in Message
      PROVE  Cardinality(OfMessage(stepStack', n)) <= Cardinality(HaveStep(n)')
  <2>1. /\ IsFiniteSet(HaveStep(n)) /\ Cardinality(HaveStep(n)) \in Nat
        /\ IsFiniteSet(OfMessage(stepStack, n)) /\ Cardinality(OfMessage(stepStack, n)) \in Nat
        /\ Cardinality(OfMessage(stepStack, n)) <= Cardinality(HaveStep(n))
    <3>1. HaveStep(n) \in SUBSET Instruction
      BY DEF HaveStep
    <3> QED
      BY <1>1, <3>1, InstructionFinite, OfMessageFinite DEF Counted
  <2>2. /\ DOMAIN stepStack = 1..Len(stepStack) /\ Len(stepStack) \in Nat
        /\ DOMAIN stepStack' = 1..(Len(stepStack) + 1)
        /\ \A k \in 1..Len(stepStack) : stepStack'[k] = stepStack[k]
        /\ stepStack'[Len(stepStack) + 1].message = m
    BY <1>1, <1>2
  <2>3. CASE n # m
    <3>1. OfMessage(stepStack', n) = OfMessage(stepStack, n)
      BY <2>2, <2>3 DEF OfMessage
    <3>2. HaveStep(n)' = HaveStep(n)
      BY <1>4, <1>5, <2>3 DEF HaveStep
    <3> QED
      BY <2>1, <3>1, <3>2
  <2>4. CASE n = m
    <3>1. OfMessage(stepStack', n) = OfMessage(stepStack, n) \cup {Len(stepStack) + 1}
      BY <2>2, <2>4 DEF OfMessage
    <3>2. Len(stepStack) + 1 \notin OfMessage(stepStack, n)
      BY <2>2 DEF OfMessage
    <3>3. Cardinality(OfMessage(stepStack', n)) = Cardinality(OfMessage(stepStack, n)) + 1
      BY <2>1, <3>1, <3>2, FS_AddElement
    <3>4. HaveStep(n)' = HaveStep(n) \cup {i} /\ i \notin HaveStep(n)
      BY <1>4, <1>5, <2>4 DEF HaveStep
    <3>5. Cardinality(HaveStep(n)') = Cardinality(HaveStep(n)) + 1
      BY <2>1, <3>4, FS_AddElement
    <3> QED
      BY <2>1, <3>3, <3>5
  <2> QED
    BY <2>3, <2>4
<1> QED
  BY <1>6, <1>7 DEF Counted

(* i ends its step; stack is what is left of the stack. *)
LEMMA CloseOpen ==
  ASSUME TypeOK, OpenInv, NEW i \in Instruction, NEW stack \in Seq(OpenStep), Close(i, stack),
         \A j \in Instruction \ {i} : ins'[j] = ins[j],
         ~HasStep(i)', past \subseteq past',
         \A m \in Message :
           Cardinality(OfMessage(stack, m)) <= Cardinality(OfMessage(stepStack, m)),
         \/ Cardinality(OfMessage(stack, ins[i].message)) = 0
         \/ Cardinality(OfMessage(stack, ins[i].message)) <=
              Cardinality(OfMessage(stepStack, ins[i].message)) - 1
  PROVE  OpenInv'
<1> SUFFICES ASSUME "unclosed" \notin past' PROVE Opened' /\ Counted'
  BY DEF OpenInv
<1>1. /\ Opened /\ Counted /\ ins[i].app \in App /\ ins[i].message \in Message
      /\ stepStack \in Seq(OpenStep) /\ isLogOpened \in [App -> BOOLEAN]
  BY DEF OpenInv, TypeOK, InsType
<1>2. stepStack' = stack /\ isLogOpened' = [isLogOpened EXCEPT ![ins[i].app] = FALSE]
  BY DEF Close
<1>3. \A j \in Instruction \ {i} : HasStep(j)' <=> HasStep(j)
  BY DEF HasStep
<1>4. Opened'
  BY <1>1, <1>2, <1>3 DEF Opened
<1>5. ASSUME NEW m \in Message
      PROVE  Cardinality(OfMessage(stack, m)) <= Cardinality(HaveStep(m)')
  <2>1. HaveStep(m)' = HaveStep(m) \ {i} /\ HaveStep(m) \in SUBSET Instruction
    BY <1>3 DEF HaveStep
  <2>2. IsFiniteSet(HaveStep(m)) /\ Cardinality(HaveStep(m)) \in Nat
    BY <2>1, InstructionFinite
  <2>3. /\ Cardinality(OfMessage(stack, m)) \in Nat
        /\ Cardinality(OfMessage(stepStack, m)) \in Nat
        /\ Cardinality(OfMessage(stepStack, m)) <= Cardinality(HaveStep(m))
    BY <1>1, OfMessageFinite DEF Counted
  <2>4. CASE i \in HaveStep(m)
    <3>1. Cardinality(HaveStep(m)') = Cardinality(HaveStep(m)) - 1
      BY <2>1, <2>2, <2>4, FS_RemoveElement
    <3>2. Cardinality(HaveStep(m)') \in Nat
      BY <2>1, InstructionFinite
    <3>3. ins[i].message = m
      BY <2>4 DEF HaveStep
    <3> QED
      BY <2>2, <2>3, <3>1, <3>2, <3>3
  <2>5. CASE i \notin HaveStep(m)
    <3>1. HaveStep(m)' = HaveStep(m)
      BY <2>1, <2>5
    <3> QED
      BY <2>2, <2>3, <3>1
  <2> QED
    BY <2>4, <2>5
<1> QED
  BY <1>2, <1>4, <1>5 DEF Counted

(* endStep once, and twice, as the error handler does. *)
LEMMA PopsCount ==
  ASSUME TypeOK, NEW m \in Message, NEW stack,
         \/ stack = EndStep(stepStack, m)
         \/ stack = EndStep(EndStep(stepStack, m), m)
  PROVE  /\ stack \in Seq(OpenStep)
         /\ \A n \in Message :
              Cardinality(OfMessage(stack, n)) <= Cardinality(OfMessage(stepStack, n))
         /\ \/ Cardinality(OfMessage(stack, m)) = 0
            \/ Cardinality(OfMessage(stack, m)) <= Cardinality(OfMessage(stepStack, m)) - 1
<1> DEFINE once == EndStep(stepStack, m)
<1>1. stepStack \in Seq(OpenStep)
  BY DEF TypeOK
<1>2. once \in Seq(OpenStep)
  BY <1>1, EndStepPops
<1>3. /\ \A n \in Message :
           Cardinality(OfMessage(once, n)) <= Cardinality(OfMessage(stepStack, n))
      /\ \/ Cardinality(OfMessage(once, m)) = 0
         \/ Cardinality(OfMessage(once, m)) <= Cardinality(OfMessage(stepStack, m)) - 1
  BY <1>1, EndStepCounts
<1> HIDE DEF once
<1>4. CASE stack = once
  BY <1>2, <1>3, <1>4
<1>5. CASE stack = EndStep(once, m)
  <2>1. stack \in Seq(OpenStep)
    BY <1>2, <1>5, EndStepPops
  <2>2. /\ \A n \in Message :
             Cardinality(OfMessage(stack, n)) <= Cardinality(OfMessage(once, n))
        /\ \/ Cardinality(OfMessage(stack, m)) = 0
           \/ Cardinality(OfMessage(stack, m)) <= Cardinality(OfMessage(once, m)) - 1
    BY <1>2, <1>5, EndStepCounts
  <2>3. \A n \in Message : /\ Cardinality(OfMessage(stack, n)) \in Nat
                           /\ Cardinality(OfMessage(once, n)) \in Nat
                           /\ Cardinality(OfMessage(stepStack, n)) \in Nat
    BY <1>1, <1>2, <2>1, OfMessageFinite
  <2>4. ASSUME NEW n \in Message
        PROVE  Cardinality(OfMessage(stack, n)) <= Cardinality(OfMessage(stepStack, n))
    BY <1>3, <2>2, <2>3
  <2>5. \/ Cardinality(OfMessage(stack, m)) = 0
        \/ Cardinality(OfMessage(stack, m)) <= Cardinality(OfMessage(stepStack, m)) - 1
    BY <1>3, <2>2, <2>3
  <2> QED
    BY <2>1, <2>4, <2>5
<1> QED
  BY <1>4, <1>5 DEF once

LEMMA NextOpen == TypeOK /\ OpenInv /\ [Next]_vars => OpenInv'
<1> SUFFICES ASSUME TypeOK, OpenInv, [Next]_vars PROVE OpenInv'
  OBVIOUS
<1>1. ins \in [Instruction -> InsType]
  BY DEF TypeOK
<1>2. ASSUME NEW i \in Instruction, Step(i)
      PROVE  OpenInv'
  <2>1. \A j \in Instruction \ {i} : ins'[j] = ins[j]
    BY <1>1, <1>2, StepType
  <2>2. ins[i] \in InsType /\ ins[i].message \in Message
    BY <1>1 DEF InsType
  <2>3. CASE Initialised(i) \/ Resume(i)
    <3>1. \/ ins[i].at = "called"
          \/ ins' = [ins EXCEPT ![i].waits = 0]
      BY <2>3 DEF Initialised, Resume
    <3>2. HasStep(i) => /\ HasStep(i)' /\ ins'[i].app = ins[i].app
                        /\ ins'[i].message = ins[i].message
      BY <1>1, <2>2, <3>1 DEF HasStep, InsType
    <3>3. UNCHANGED logVars /\ past' = past
      BY <2>3 DEF Initialised, Resume
    <3> QED
      BY <2>1, <3>2, <3>3, KeptOpen DEF HasStep
  <2>4. CASE Begin(i)
    BY <2>4, BeginOpen
  <2>5. CASE Succeed(i)
    <3>1. ~HasStep(i)' /\ past' = past
      BY <1>1, <2>5, StillType DEF Succeed, HasStep, Answers
    <3>2. CASE ins[i].top
      <4>1. Close(i, EndStep(stepStack, ins[i].message))
        BY <2>5, <3>2 DEF Succeed
      <4> QED
        BY <2>1, <2>2, <3>1, <4>1, CloseOpen, PopsCount
    <3>3. CASE ~ins[i].top
      <4>1. UNCHANGED logVars /\ ~HasStep(i)
        BY <2>5, <3>3 DEF Succeed, HasStep
      <4> QED
        BY <2>1, <3>1, <4>1, KeptOpen DEF HasStep
    <3> QED
      BY <3>2, <3>3
  <2>6. CASE Fail(i)
    <3>1. UNCHANGED logVars /\ past' = past
      BY <2>6 DEF Fail
    <3>2. CASE ins[i].top
      <4>1. ins'[i] = [ins[i] EXCEPT !.at = "fails", !.waits = 0,
                         !.answer = IF ins[i].followed THEN "error" ELSE "none"]
        BY <1>1, <2>6, <3>2 DEF Fail
      <4>2. HasStep(i)' /\ ins'[i].app = ins[i].app /\ ins'[i].message = ins[i].message
        BY <2>2, <3>2, <4>1 DEF HasStep, InsType
      <4> QED
        BY <2>1, <3>1, <4>2, KeptOpen DEF HasStep
    <3>3. CASE ~ins[i].top
      BY <2>1, <3>1, <3>3, KeptOpen DEF HasStep
    <3> QED
      BY <3>2, <3>3
  <2>7. CASE Handled(i)
    <3>1. ~HasStep(i)' /\ past \subseteq past'
      BY <1>1, <2>7, StillType DEF Handled, Closed, HasStep, Answers
    <3>2. Close(i, EndStep(EndStep(stepStack, ins[i].message), ins[i].message))
      BY <2>7 DEF Handled
    <3> QED
      BY <2>1, <2>2, <3>1, <3>2, CloseOpen, PopsCount
  <2>8. CASE HandlerFails(i)
    BY <2>8 DEF HandlerFails, OpenInv
  <2> QED
    BY <1>2, <2>3, <2>4, <2>5, <2>6, <2>7, <2>8 DEF Step
<1>3. ASSUME NEW i \in Instruction,
             \/ \E a \in App : CallByTest(i, a)
             \/ \E c \in Instruction : CallByBody(i, c) \/ Leave(i, c)
      PROVE  OpenInv'
  <2>1. PICK a, c, w : Called(i, a, c, w)
    BY <1>3 DEF CallByTest, CallByBody, Leave
  <2>2. UNCHANGED logVars /\ past \subseteq past'
    BY <1>3, <2>1 DEF CallByTest, CallByBody, Leave, Called
  <2>3. ASSUME NEW j \in Instruction, HasStep(j)
        PROVE  HasStep(j)' /\ ins'[j].app = ins[j].app /\ ins'[j].message = ins[j].message
    <3>1. ins[i].at = "idle" /\ j # i /\ ins[j] \in InsType
      BY <1>1, <2>1, <2>3 DEF Called, HasStep
    <3>2. ins'[j] = IF j = c THEN [ins[j] EXCEPT !.waits = w] ELSE ins[j]
      BY <2>1, <3>1 DEF Called
    <3> QED
      BY <2>3, <3>1, <3>2 DEF HasStep, InsType
  <2> QED
    BY <2>2, <2>3, KeptOpen
<1>4. CASE Debugger
  <2>1. UNCHANGED logVars /\ past' = past
    BY <1>4 DEF Debugger, AddBreakpoint, ResolveBefore, ResolveAfter, BreakStack
  <2>2. ASSUME NEW j \in Instruction, HasStep(j)
        PROVE  HasStep(j)' /\ ins'[j].app = ins[j].app /\ ins'[j].message = ins[j].message
    <3>1. ins[j] \in InsType
      BY <1>1
    <3>2. CASE ins'[j] = ins[j]
      BY <2>2, <3>2 DEF HasStep
    <3>3. CASE ResolveAfter
      <4>1. PICK b : ins'[j] = IF ~ins[j].top THEN ins[j]
                               ELSE [ins[j] EXCEPT !.followed = TRUE, !.answer = b]
        BY <3>3 DEF ResolveAfter
      <4> QED
        BY <2>2, <3>1, <4>1 DEF HasStep, InsType
    <3> QED
      BY <1>4, <2>2, <3>2, <3>3
         DEF Debugger, AddBreakpoint, ResolveBefore, BreakStack, Release, HasStep
  <2> QED
    BY <2>1, <2>2, KeptOpen
<1>5. CASE UNCHANGED vars
  <2>1. UNCHANGED logVars /\ ins' = ins /\ past' = past
    BY <1>5 DEF vars
  <2> QED
    BY <2>1, KeptOpen DEF HasStep
<1> QED
  BY <1>2, <1>3, <1>4, <1>5 DEF Next

-----------------------------------------------------------------------------
(* Every variable keeps its type. *)
THEOREM TypeCorrect == Spec => []TypeOK
<1>1. Init => TypeOK
  BY InitType
<1>2. TypeOK /\ [Next]_vars => TypeOK'
  BY NextType
<1> QED
  BY <1>1, <1>2, PTL DEF Spec

(* When nothing of an application is under way its log is closed, and when    *)
(* nothing is, no step of an instruction is on the stack (stepLog, endStep).  *)
THEOREM OpenedIsClosed == Spec => []QuietMeansClosed
<1>1. Init => TypeOK /\ OpenInv
  BY InitType, InitOpen
<1>2. TypeOK /\ OpenInv /\ [Next]_vars => TypeOK' /\ OpenInv'
  BY NextType, NextOpen
<1>3. TypeOK /\ OpenInv => QuietMeansClosed
  <2> SUFFICES ASSUME TypeOK, OpenInv, "unclosed" \notin past
               PROVE  /\ \A a \in App : Quiet(a) => ~isLogOpened[a]
                      /\ (\A a \in App : Quiet(a)) =>
                           \A k \in DOMAIN stepStack : stepStack[k] = TestStep
    BY DEF QuietMeansClosed
  <2>1. Opened /\ Counted /\ stepStack \in Seq(OpenStep)
    BY DEF OpenInv, TypeOK
  <2>2. \A a \in App : Quiet(a) => ~isLogOpened[a]
    BY <2>1 DEF Opened, Quiet, UnderWay, HasStep
  <2>3. ASSUME \A a \in App : Quiet(a), NEW k \in DOMAIN stepStack, stepStack[k] # TestStep
        PROVE  FALSE
    <3>1. PICK m \in Message : stepStack[k].message = m
      BY <2>1, <2>3 DEF OpenStep
    <3>2. HaveStep(m) = {}
      BY <2>3 DEF HaveStep, HasStep, Quiet, UnderWay, TypeOK, InsType
    <3>3. Cardinality(OfMessage(stepStack, m)) <= 0
      BY <2>1, <3>2, FS_EmptySet DEF Counted
    <3>4. OfMessage(stepStack, m) = {}
      BY <2>1, <3>3, OfMessageFinite, FS_EmptySet
    <3> QED
      BY <3>1, <3>4 DEF OfMessage
  <2> QED
    BY <2>2, <2>3
<1> QED
  BY <1>1, <1>2, <1>3, PTL DEF Spec

-----------------------------------------------------------------------------
(* The instructions that have not been answered wait for one another, from    *)
(* the one the test called to the one that is executed.                      *)

Unanswered(i) == ins[i].at # "idle" /\ ins[i].answer = "none"

(* They are called in order, and who has a step is in it. *)
InOrder == \A i, j \in Instruction : i < j /\ ins[i].at = "idle" => ins[j].at = "idle"
Live == \A i \in Instruction :
  /\ ins[i].at \in {"called", "breakpoint", "opens", "stuck", "runs"} => ins[i].answer = "none"
  /\ ins[i].top => ins[i].at \in {"runs", "fails", "over"}
  /\ ins[i].at = "fails" => ins[i].top

(* The caller of an unanswered instruction was called before it and has no    *)
(* answer either, and every unanswered one but the last runs and waits for    *)
(* another.                                                                  *)
Callers == \A i, c \in Instruction :
  Unanswered(i) /\ ins[i].caller = c => c < i /\ Unanswered(c)
Chain == \A i, j \in Instruction : i < j /\ Unanswered(i) /\ Unanswered(j) =>
  /\ ins[i].at = "runs"
  /\ \E w \in Instruction : ins[i].waits = w /\ w <= j /\ Unanswered(w)

(* The log of an application is open while an instruction has a step, which   *)
(* is one at most, and closed while one is about to begin.                   *)
OneOpens ==
  /\ \A i \in Instruction : HasStep(i) => isLogOpened[ins[i].app]
  /\ \A i, j \in Instruction : HasStep(i) /\ HasStep(j) /\ ins[i].app = ins[j].app => i = j
  /\ \A i \in Instruction : ins[i].at \in {"breakpoint", "opens"} => ~isLogOpened[ins[i].app]

ChainInv == InOrder /\ Live /\ (past \subseteq {"closed"} => Callers /\ Chain /\ OneOpens)

(* No unanswered instruction was called after i. *)
LastOne(i) == \A k \in Instruction : i < k => ~Unanswered(k)

LEMMA WhoIsLast ==
  ASSUME TypeOK, Chain, NEW i \in Instruction, Unanswered(i),
         ins[i].at # "runs" \/ Answered(i)
  PROVE  LastOne(i)
BY DEF Chain, LastOne, Answered, Unanswered, Instruction

(* Steps that call nothing: who gets an answer or goes on is the last. *)
LEMMA ChainStep ==
  ASSUME TypeOK, Callers, Chain,
         \A i \in Instruction : Unanswered(i)' =>
           /\ Unanswered(i) /\ ins'[i].caller = ins[i].caller
           /\ LastOne(i) \/ (ins'[i].at = ins[i].at /\ ins'[i].waits = ins[i].waits),
         \A i \in Instruction : Unanswered(i) => Unanswered(i)' \/ LastOne(i)
  PROVE  Callers' /\ Chain'
<1>1. ASSUME NEW i \in Instruction, NEW c \in Instruction, Unanswered(i)', ins'[i].caller = c
      PROVE  c < i /\ Unanswered(c)'
  <2>1. c < i /\ Unanswered(c)
    BY <1>1 DEF Callers
  <2> QED
    BY <1>1, <2>1 DEF LastOne
<1>2. ASSUME NEW i \in Instruction, NEW j \in Instruction, i < j,
             Unanswered(i)', Unanswered(j)'
      PROVE  /\ ins'[i].at = "runs"
             /\ \E w \in Instruction : ins'[i].waits = w /\ w <= j /\ Unanswered(w)'
  <2>1. Unanswered(i) /\ Unanswered(j) /\ ~LastOne(i)
    BY <1>2 DEF LastOne
  <2>2. PICK w \in Instruction : /\ w = ins[i].waits /\ w <= j /\ Unanswered(w)
                                 /\ ins[i].at = "runs"
    BY <1>2, <2>1 DEF Chain
  <2>3. ins'[i].at = "runs" /\ ins'[i].waits = w
    BY <1>2, <2>1, <2>2
  <2>4. Unanswered(w)'
    <3>1. CASE w = j
      BY <1>2, <3>1
    <3>2. CASE w < j
      BY <2>1, <2>2, <3>2 DEF LastOne
    <3> QED
      BY <2>2, <3>1, <3>2 DEF Instruction
  <2> QED
    BY <2>2, <2>3, <2>4
<1>3. Callers'
  BY <1>1 DEF Callers
<1>4. Chain'
  BY <1>2 DEF Chain
<1> QED
  BY <1>3, <1>4

(* Steps that neither open nor close a log, and let nobody wait to open one.  *)
LEMMA SameOpens ==
  ASSUME OneOpens, UNCHANGED isLogOpened,
         \A i \in Instruction : HasStep(i)' => HasStep(i),
         \A i \in Instruction : HasStep(i)' => ins'[i].app = ins[i].app,
         \A i \in Instruction : ins'[i].at \in {"breakpoint", "opens"} =>
           ~isLogOpened[ins'[i].app]
  PROVE  OneOpens'
<1>1. \A i \in Instruction : HasStep(i)' => isLogOpened'[ins'[i].app]
  BY DEF OneOpens
<1>2. \A i, j \in Instruction :
        HasStep(i)' /\ HasStep(j)' /\ ins'[i].app = ins'[j].app => i = j
  BY DEF OneOpens
<1> QED
  BY <1>1, <1>2 DEF OneOpens

(* i ends its step, which is the only one of its application. *)
LEMMA CloseOpens ==
  ASSUME TypeOK, OneOpens, NEW i \in Instruction, NEW stack, Close(i, stack),
         HasStep(i), ~HasStep(i)', ins'[i].at \notin {"breakpoint", "opens"},
         \A j \in Instruction \ {i} : ins'[j] = ins[j]
  PROVE  OneOpens'
<1>1. /\ isLogOpened' = [isLogOpened EXCEPT ![ins[i].app] = FALSE]
      /\ isLogOpened \in [App -> BOOLEAN]
      /\ \A j \in Instruction : ins[j].app \in App
  BY DEF Close, TypeOK, InsType
<1>2. \A j \in Instruction : HasStep(j)' => j # i /\ HasStep(j) /\ ins'[j] = ins[j]
  BY DEF HasStep
<1>3. \A j \in Instruction : HasStep(j)' => ins[j].app # ins[i].app
  BY <1>2 DEF OneOpens
<1>4. \A j \in Instruction : HasStep(j)' => isLogOpened'[ins'[j].app]
  BY <1>1, <1>2, <1>3 DEF OneOpens
<1>5. \A j, k \in Instruction :
        HasStep(j)' /\ HasStep(k)' /\ ins'[j].app = ins'[k].app => j = k
  BY <1>2 DEF OneOpens
<1>6. \A j \in Instruction : ins'[j].at \in {"breakpoint", "opens"} => ~isLogOpened'[ins'[j].app]
  BY <1>1 DEF OneOpens
<1> QED
  BY <1>4, <1>5, <1>6 DEF OneOpens

(* What a step of i makes of i. *)
LEMMA StepEffect ==
  ASSUME TypeOK, Live, NEW i \in Instruction, Step(i)
  PROVE  /\ ins[i].at # "idle" /\ ins'[i].at # "idle"
         /\ ins[i].at # "runs" \/ Answered(i)
         /\ Unanswered(i)' => Unanswered(i)
         /\ past \subseteq past'
         /\ past' \subseteq {"closed"} => (Unanswered(i)' => ins'[i].caller = ins[i].caller)
         /\ ins'[i].at \in {"called", "breakpoint", "opens", "stuck", "runs"} =>
              ins'[i].answer = "none"
         /\ ins'[i].top => ins'[i].at \in {"runs", "fails", "over"}
         /\ ins'[i].at = "fails" => ins'[i].top
<1>1. ins \in [Instruction -> InsType] /\ ins[i] \in InsType
  BY DEF TypeOK
<1>2. CASE Initialised(i)
  <2>1. before \in {"none", "set", "broken"}
    BY DEF TypeOK
  <2>2. PICK s \in {"runs", "opens", "breakpoint", "stuck"} : ins' = [ins EXCEPT ![i].at = s]
    BY <1>2, <2>1 DEF Initialised
  <2>3. ins'[i] = [ins[i] EXCEPT !.at = s]
    BY <1>1, <2>2
  <2>4. ins[i].at = "called" /\ past' = past
    BY <1>2 DEF Initialised
  <2> QED
    BY <1>1, <2>3, <2>4 DEF InsType, Live, Unanswered
<1>3. CASE Begin(i)
  <2>1. PICK m \in Message, f \in BOOLEAN :
          ins' = [ins EXCEPT ![i].at = "runs", ![i].top = TRUE, ![i].message = m, ![i].followed = f]
    BY <1>3 DEF Begin
  <2>2. ins'[i] = [ins[i] EXCEPT !.at = "runs", !.top = TRUE, !.message = m, !.followed = f]
    BY <1>1, <2>1
  <2>3. ins[i].at = "opens" /\ past' = past
    BY <1>3 DEF Begin
  <2> QED
    BY <1>1, <2>2, <2>3 DEF InsType, Live, Unanswered
<1>4. CASE Resume(i)
  <2>1. ins'[i] = [ins[i] EXCEPT !.waits = 0] /\ ins[i].at = "runs" /\ Answered(i) /\ past' = past
    BY <1>1, <1>4 DEF Resume
  <2> QED
    BY <1>1, <2>1 DEF InsType, Live, Unanswered
<1>5. CASE Succeed(i)
  <2>1. /\ ins'[i] = Still("over", "value")
        /\ ins[i].at = "runs" /\ Answered(i) /\ past' = past
    BY <1>1, <1>5 DEF Succeed
  <2> QED
    BY <2>1, StillType DEF Unanswered, Answers
<1>6. CASE Fail(i)
  <2>1. ins[i].at = "runs" /\ Answered(i) /\ past' = past /\ ins[i].answer = "none"
    BY <1>6 DEF Fail, Live
  <2>2. CASE ~ins[i].top
    BY <1>1, <1>6, <2>1, <2>2, StillType DEF Fail, Unanswered, Answers
  <2>3. CASE ins[i].top
    <3>1. ins'[i] = [ins[i] EXCEPT !.at = "fails", !.waits = 0,
                       !.answer = IF ins[i].followed THEN "error" ELSE "none"]
      BY <1>1, <1>6, <2>3 DEF Fail
    <3> QED
      BY <1>1, <2>1, <2>3, <3>1 DEF InsType, Unanswered
  <2> QED
    BY <2>2, <2>3
<1>7. CASE Handled(i)
  BY <1>1, <1>7, StillType DEF Handled, Closed, Unanswered, Answers
<1>8. CASE HandlerFails(i)
  <2>1. /\ Still("over", ins[i].answer).at = "over"
        /\ Still("over", ins[i].answer).answer = ins[i].answer
        /\ Still("over", ins[i].answer) \in InsType
    BY <1>1, StillType DEF InsType
  <2>2. /\ ins'[i] = [Still("over", ins[i].answer) EXCEPT !.top = TRUE, !.followed = ins[i].followed]
        /\ ins[i].at = "fails" /\ past' = past \cup {"unclosed"}
    BY <1>1, <1>8 DEF HandlerFails
  <2>3. ins'[i].at = "over" /\ ins'[i].answer = ins[i].answer
    BY <2>1, <2>2 DEF InsType
  <2> QED
    BY <2>2, <2>3 DEF Unanswered
<1> QED
  BY <1>2, <1>3, <1>4, <1>5, <1>6, <1>7, <1>8 DEF Step

(* What calling i makes of the instructions. *)
LEMMA CalledEffect ==
  ASSUME TypeOK, NEW i \in Instruction, NEW a, NEW c, NEW w, Called(i, a, c, w)
  PROVE  /\ ins[i].at = "idle" /\ \A j \in Instruction : j < i => ins[j].at # "idle"
         /\ ins'[i].at = "called" /\ ins'[i].answer = "none" /\ ~ins'[i].top
         /\ ins'[i].caller = c
         /\ \A j \in Instruction \ {i} :
              /\ ins'[j].at = ins[j].at /\ ins'[j].answer = ins[j].answer
              /\ ins'[j].top = ins[j].top /\ ins'[j].caller = ins[j].caller
              /\ ins'[j].app = ins[j].app
              /\ ins'[j].waits = IF j = c THEN w ELSE ins[j].waits
<1>1. PICK r \in Effects :
        ins' = [j \in Instruction |->
                 IF j = i THEN [Still("called", "none") EXCEPT
                                  !.app = a, !.row = r, !.caller = c]
                 ELSE IF j = c THEN [ins[j] EXCEPT !.waits = w]
                 ELSE ins[j]]
  BY DEF Called
<1>2. ins'[i] = [Still("called", "none") EXCEPT !.app = a, !.row = r, !.caller = c]
  BY <1>1
<1>3. ASSUME NEW j \in Instruction \ {i}
      PROVE  ins'[j] = (IF j = c THEN [ins[j] EXCEPT !.waits = w] ELSE ins[j]) /\ ins[j] \in InsType
  BY <1>1 DEF TypeOK
<1>4. \A j \in Instruction : j < i => ins[j].at # "idle"
  BY DEF Called, Instruction
<1>5. ins[i].at = "idle"
  BY DEF Called
<1>6. /\ ins'[i].at = "called" /\ ins'[i].answer = "none" /\ ~ins'[i].top
      /\ ins'[i].caller = c
  BY <1>2 DEF Still
<1>7. ASSUME NEW j \in Instruction \ {i}
      PROVE  /\ ins'[j].at = ins[j].at /\ ins'[j].answer = ins[j].answer
             /\ ins'[j].top = ins[j].top /\ ins'[j].caller = ins[j].caller
             /\ ins'[j].app = ins[j].app
             /\ ins'[j].waits = IF j = c THEN w ELSE ins[j].waits
  BY <1>3 DEF InsType
<1> QED
  BY <1>4, <1>5, <1>6, <1>7

(* What the debugger makes of an instruction. *)
LEMMA DebuggerEffect ==
  ASSUME TypeOK, Live, Debugger, NEW j \in Instruction
  PROVE  /\ ins'[j].top = ins[j].top /\ ins'[j].caller = ins[j].caller
         /\ ins'[j].app = ins[j].app /\ ins'[j].waits = ins[j].waits
         /\ ins'[j].at = ins[j].at \/ (ins[j].at = "breakpoint" /\ ins'[j].at \in {"opens", "stuck"})
         /\ \/ ins'[j].answer = ins[j].answer
            \/ ins[j].at \in {"fails", "over"} /\ ins'[j].answer = "error"
<1>1. ins[j] \in InsType
  BY DEF TypeOK
<1>2. CASE ins'[j] = ins[j]
  BY <1>2
<1>3. CASE ResolveBefore \/ BreakStack
  <2>1. PICK s \in {"opens", "stuck"} : Release(s)
    BY <1>3 DEF ResolveBefore, BreakStack
  <2>2. ins'[j] = IF ins[j].at = "breakpoint" THEN [ins[j] EXCEPT !.at = s] ELSE ins[j]
    BY <2>1 DEF Release
  <2> QED
    BY <1>1, <2>2 DEF InsType
<1>4. CASE ResolveAfter
  <2>1. ins'[j] = IF ~ins[j].top THEN ins[j]
                  ELSE [ins[j] EXCEPT !.followed = TRUE,
                          !.answer = IF ins[j].at = "runs" THEN ins[j].answer ELSE "error"]
    BY <1>4 DEF ResolveAfter
  <2>2. ins[j].top => ins[j].at \in {"runs", "fails", "over"}
    BY DEF Live
  <2> QED
    BY <1>1, <2>1, <2>2 DEF InsType
<1> QED
  BY <1>2, <1>3, <1>4 DEF Debugger, AddBreakpoint

LEMMA NextLive == TypeOK /\ InOrder /\ Live /\ [Next]_vars => InOrder' /\ Live'
<1> SUFFICES ASSUME TypeOK, InOrder, Live, [Next]_vars PROVE InOrder' /\ Live'
  OBVIOUS
<1>1. ASSUME NEW i \in Instruction, Step(i)
      PROVE  InOrder' /\ Live'
  <2>1. \A j \in Instruction \ {i} : ins'[j] = ins[j]
    BY <1>1, StepType DEF TypeOK
  <2>2. ins[i].at # "idle" /\ ins'[i].at # "idle"
    BY <1>1, StepEffect
  <2>3. InOrder'
    BY <2>1, <2>2 DEF InOrder
  <2>4. Live'
    BY <1>1, <2>1, StepEffect DEF Live
  <2> QED
    BY <2>3, <2>4
<1>2. ASSUME NEW i \in Instruction,
             \/ \E a \in App : CallByTest(i, a)
             \/ \E c \in Instruction : CallByBody(i, c) \/ Leave(i, c)
      PROVE  InOrder' /\ Live'
  <2>1. PICK a, c, w : Called(i, a, c, w)
    BY <1>2 DEF CallByTest, CallByBody, Leave
  <2>2. InOrder'
    BY <2>1, CalledEffect DEF InOrder, Instruction
  <2>3. Live'
    BY <2>1, CalledEffect DEF Live
  <2> QED
    BY <2>2, <2>3
<1>3. CASE Debugger
  <2>1. InOrder'
    BY <1>3, DebuggerEffect DEF InOrder
  <2>2. Live'
    BY <1>3, DebuggerEffect DEF Live
  <2> QED
    BY <2>1, <2>2
<1>4. CASE UNCHANGED vars
  <2>1. ins' = ins
    BY <1>4 DEF vars
  <2> QED
    BY <2>1 DEF InOrder, Live
<1> QED
  BY <1>1, <1>2, <1>3, <1>4 DEF Next

(* A step of i. *)
LEMMA StepChain ==
  ASSUME TypeOK, ChainInv, NEW i \in Instruction, Step(i), past' \subseteq {"closed"}
  PROVE  Callers' /\ Chain' /\ OneOpens'
<1>1. /\ past \subseteq {"closed"} /\ Live /\ Callers /\ Chain /\ OneOpens
      /\ \A j \in Instruction \ {i} : ins'[j] = ins[j]
      /\ ins[i] \in InsType /\ ins[i].app \in App /\ isLogOpened \in [App -> BOOLEAN]
  BY StepType, StepEffect DEF ChainInv, TypeOK, InsType
<1>2. Unanswered(i) => LastOne(i)
  BY <1>1, StepEffect, WhoIsLast
<1>3. Callers' /\ Chain'
  <2>1. ASSUME NEW j \in Instruction, Unanswered(j)'
        PROVE  /\ Unanswered(j) /\ ins'[j].caller = ins[j].caller
               /\ LastOne(j) \/ (ins'[j].at = ins[j].at /\ ins'[j].waits = ins[j].waits)
    <3>1. CASE j = i
      BY <1>1, <1>2, <2>1, <3>1, StepEffect
    <3>2. CASE j # i
      BY <1>1, <2>1, <3>2 DEF Unanswered
    <3> QED
      BY <3>1, <3>2
  <2>2. ASSUME NEW j \in Instruction, Unanswered(j)
        PROVE  Unanswered(j)' \/ LastOne(j)
    BY <1>1, <1>2, <2>2 DEF Unanswered
  <2> QED
    BY <1>1, <2>1, <2>2, ChainStep
<1>4. OneOpens'
  <2>1. CASE Initialised(i)
    <3>1. UNCHANGED isLogOpened /\ ins[i].at = "called"
      BY <2>1 DEF Initialised, logVars
    <3>2. ins' = [ins EXCEPT ![i].at = ins'[i].at]
      BY <2>1 DEF Initialised, TypeOK
    <3>3. ins'[i] = [ins[i] EXCEPT !.at = ins'[i].at]
      BY <3>2 DEF TypeOK
    <3>4. ins'[i].app = ins[i].app /\ ins'[i].top = ins[i].top /\ ~ins[i].top
      BY <1>1, <3>1, <3>3 DEF InsType, Live
    <3>5. ins'[i].at \in {"breakpoint", "opens"} => ~isLogOpened[ins[i].app]
      BY <2>1 DEF Initialised, TypeOK
    <3>6. ~HasStep(i)'
      BY <3>4 DEF HasStep
    <3>7. \A j \in Instruction : HasStep(j)' => HasStep(j) /\ ins'[j].app = ins[j].app
      BY <1>1, <3>6 DEF HasStep
    <3>8. \A j \in Instruction : ins'[j].at \in {"breakpoint", "opens"} =>
            ~isLogOpened[ins'[j].app]
      BY <1>1, <3>4, <3>5 DEF OneOpens
    <3> QED
      BY <1>1, <3>1, <3>7, <3>8, SameOpens
  <2>2. CASE Begin(i)
    <3>1. PICK m \in Message, f \in BOOLEAN :
            ins' = [ins EXCEPT ![i].at = "runs", ![i].top = TRUE, ![i].message = m, ![i].followed = f]
      BY <2>2 DEF Begin
    <3>2. ins'[i] = [ins[i] EXCEPT !.at = "runs", !.top = TRUE, !.message = m, !.followed = f]
      BY <3>1 DEF TypeOK
    <3>3. ins'[i].app = ins[i].app /\ ins'[i].at = "runs"
      BY <1>1, <3>2 DEF InsType
    <3>4. ins[i].at = "opens" /\ isLogOpened' = [isLogOpened EXCEPT ![ins[i].app] = TRUE]
      BY <2>2 DEF Begin
    <3>5. \A j \in Instruction \ {i} : HasStep(j)' => HasStep(j) /\ ins[j].app # ins[i].app
      BY <1>1, <3>4 DEF HasStep, OneOpens
    <3>6. \A j \in Instruction : HasStep(j)' => isLogOpened'[ins'[j].app]
      <4>1. isLogOpened'[ins[i].app]
        BY <1>1, <3>4
      <4>2. \A j \in Instruction \ {i} : HasStep(j)' => isLogOpened'[ins[j].app]
        BY <1>1, <3>4, <3>5 DEF OneOpens, TypeOK, InsType
      <4> QED
        BY <1>1, <3>3, <4>1, <4>2
    <3>7. \A j, k \in Instruction :
            HasStep(j)' /\ HasStep(k)' /\ ins'[j].app = ins'[k].app => j = k
      BY <1>1, <3>3, <3>5 DEF OneOpens
    <3>8. \A j \in Instruction : ins'[j].at \notin {"breakpoint", "opens"}
      <4>1. ASSUME NEW j \in Instruction \ {i}, ins[j].at \in {"breakpoint", "opens"}
            PROVE  FALSE
        <5>1. Unanswered(i) /\ Unanswered(j)
          BY <1>1, <3>4, <4>1 DEF Live, Unanswered
        <5>2. i < j \/ j < i
          BY <4>1 DEF Instruction
        <5> QED
          BY <1>1, <3>4, <4>1, <5>1, <5>2 DEF Chain
      <4> QED
        BY <1>1, <3>3, <4>1
    <3> QED
      BY <3>6, <3>7, <3>8 DEF OneOpens
  <2>3. CASE Resume(i)
    <3>1. /\ UNCHANGED isLogOpened /\ ins'[i] = [ins[i] EXCEPT !.waits = 0]
      BY <2>3 DEF Resume, logVars, TypeOK
    <3>2. ins'[i].app = ins[i].app /\ ins'[i].top = ins[i].top /\ ins'[i].at = ins[i].at
      BY <1>1, <3>1 DEF InsType
    <3>3. \A j \in Instruction : HasStep(j)' => HasStep(j) /\ ins'[j].app = ins[j].app
      BY <1>1, <3>2 DEF HasStep
    <3>4. \A j \in Instruction : ins'[j].at \in {"breakpoint", "opens"} =>
            ~isLogOpened[ins'[j].app]
      BY <1>1, <3>2 DEF OneOpens
    <3> QED
      BY <1>1, <3>1, <3>3, <3>4, SameOpens
  <2>4. CASE Succeed(i)
    <3>1. /\ ~HasStep(i)' /\ ins'[i].at = "over" /\ ins[i].at = "runs"
      BY <2>4, StillType DEF Succeed, HasStep, Answers, TypeOK
    <3>2. CASE ins[i].top
      <4>1. Close(i, EndStep(stepStack, ins[i].message)) /\ HasStep(i)
        BY <2>4, <3>1, <3>2 DEF Succeed, HasStep
      <4> QED
        BY <1>1, <3>1, <4>1, CloseOpens
    <3>3. CASE ~ins[i].top
      <4>1. UNCHANGED isLogOpened
        BY <2>4, <3>3 DEF Succeed, logVars
      <4>2. \A j \in Instruction : HasStep(j)' => HasStep(j) /\ ins'[j].app = ins[j].app
        BY <1>1, <3>1 DEF HasStep
      <4>3. \A j \in Instruction : ins'[j].at \in {"breakpoint", "opens"} =>
              ~isLogOpened[ins'[j].app]
        BY <1>1, <3>1 DEF OneOpens
      <4> QED
        BY <1>1, <4>1, <4>2, <4>3, SameOpens
    <3> QED
      BY <3>2, <3>3
  <2>5. CASE Fail(i)
    <3>1. UNCHANGED isLogOpened /\ ins[i].at = "runs"
      BY <2>5 DEF Fail, logVars
    <3>2. /\ ins'[i].at \in {"fails", "over"}
          /\ HasStep(i)' => HasStep(i) /\ ins'[i].app = ins[i].app
      <4>1. CASE ins[i].top
        <5>1. ins'[i] = [ins[i] EXCEPT !.at = "fails", !.waits = 0,
                           !.answer = IF ins[i].followed THEN "error" ELSE "none"]
          BY <2>5, <4>1 DEF Fail, TypeOK
        <5> QED
          BY <1>1, <3>1, <4>1, <5>1 DEF InsType, HasStep
      <4>2. CASE ~ins[i].top
        BY <2>5, <4>2, StillType DEF Fail, TypeOK, HasStep, Answers
      <4> QED
        BY <4>1, <4>2
    <3>3. \A j \in Instruction : HasStep(j)' => HasStep(j) /\ ins'[j].app = ins[j].app
      BY <1>1, <3>2 DEF HasStep
    <3>4. \A j \in Instruction : ins'[j].at \in {"breakpoint", "opens"} =>
            ~isLogOpened[ins'[j].app]
      BY <1>1, <3>2 DEF OneOpens
    <3> QED
      BY <1>1, <3>1, <3>3, <3>4, SameOpens
  <2>6. CASE Handled(i)
    <3>1. /\ ~HasStep(i)' /\ ins'[i].at = "over" /\ HasStep(i)
      BY <1>1, <2>6, StillType DEF Handled, HasStep, Answers, TypeOK, Live
    <3>2. Close(i, EndStep(EndStep(stepStack, ins[i].message), ins[i].message))
      BY <2>6 DEF Handled
    <3> QED
      BY <1>1, <3>1, <3>2, CloseOpens
  <2>7. CASE HandlerFails(i)
    BY <2>7 DEF HandlerFails
  <2> QED
    BY <2>1, <2>2, <2>3, <2>4, <2>5, <2>6, <2>7 DEF Step
<1> QED
  BY <1>3, <1>4

(* When the test calls, nobody waits. *)
LEMMA NobodyWaits ==
  ASSUME TypeOK, Callers,
         \A j \in Instruction :
           ins[j].at # "idle" /\ ins[j].caller = 0 => ins[j].answer # "none"
  PROVE  \A j \in Instruction : ~Unanswered(j)
<1> DEFINE T == {j \in Instruction : Unanswered(j)}
<1>1. ASSUME T # {} PROVE FALSE
  <2>1. T \in SUBSET Nat
    BY DEF Instruction
  <2>2. PICK n \in T : \A k \in T : n <= k
    BY <1>1, <2>1, Least
  <2>3. n \in Instruction /\ Unanswered(n)
    BY <2>2
  <2>4. ins[n].caller = 0 \/ ins[n].caller \in Instruction
    BY <2>3, StepsAssumption DEF TypeOK, InsType, Instruction
  <2>5. CASE ins[n].caller = 0
    BY <2>3, <2>5 DEF Unanswered
  <2>6. CASE ins[n].caller \in Instruction
    <3>1. PICK c \in Instruction : ins[n].caller = c
      BY <2>6
    <3>2. c < n /\ c \in T
      BY <2>3, <3>1 DEF Callers
    <3> QED
      BY <2>2, <3>2 DEF Instruction
  <2> QED
    BY <2>4, <2>5, <2>6
<1> QED
  BY <1>1

(* The log stays as it is, and who is called has no step yet. *)
LEMMA CalledOpens ==
  ASSUME TypeOK, OneOpens, NEW i \in Instruction, NEW a, NEW c, NEW w, Called(i, a, c, w)
  PROVE  OneOpens'
<1>1. UNCHANGED isLogOpened
  BY DEF Called, logVars
<1>2. \A j \in Instruction : HasStep(j)' => HasStep(j) /\ ins'[j].app = ins[j].app
  BY CalledEffect DEF HasStep
<1>3. \A j \in Instruction : ins'[j].at \in {"breakpoint", "opens"} => ~isLogOpened[ins'[j].app]
  BY CalledEffect DEF OneOpens
<1> QED
  BY <1>1, <1>2, <1>3, SameOpens

(* The last of those that wait calls another, and waits for it. *)
LEMMA BodyChain ==
  ASSUME TypeOK, InOrder, Live, Callers, Chain,
         NEW i \in Instruction, NEW c \in Instruction, CallByBody(i, c)
  PROVE  Callers' /\ Chain'
<1>1. /\ ins[c].at = "runs" /\ ins[c].waits = 0
      /\ Called(i, ins[c].app, c, i)
  BY DEF CallByBody
<1>2. Unanswered(c) /\ LastOne(c)
  BY <1>1, WhoIsLast DEF Live, Unanswered, Answered
<1>3. c < i /\ \A j \in Instruction : Unanswered(j) => j <= c
  <2>1. ins[i].at = "idle"
    BY <1>1, CalledEffect
  <2>2. ~(i < c) /\ i # c
    BY <1>1, <2>1 DEF InOrder
  <2> QED
    BY <1>2, <2>2 DEF LastOne, Instruction
<1>4. Unanswered(i)' /\ ~Unanswered(i) /\ ins'[i].caller = c /\ ins'[i].at = "called"
  BY <1>1, CalledEffect DEF Unanswered
<1>5. \A j \in Instruction \ {i} : (Unanswered(j)' <=> Unanswered(j)) /\ ins'[j].caller = ins[j].caller
  BY <1>1, CalledEffect DEF Unanswered
<1>6. \A j \in Instruction \ {i, c} : ins'[j].at = ins[j].at /\ ins'[j].waits = ins[j].waits
  BY <1>1, CalledEffect
<1>7. ins'[c].at = "runs" /\ ins'[c].waits = i
  BY <1>1, <1>3, CalledEffect DEF Instruction
<1>8. ASSUME NEW j \in Instruction, NEW d \in Instruction, Unanswered(j)', ins'[j].caller = d
      PROVE  d < j /\ Unanswered(d)'
  <2>1. CASE j = i
    BY <1>2, <1>3, <1>4, <1>5, <1>8, <2>1
  <2>2. CASE j # i
    <3>1. d < j /\ Unanswered(d)
      BY <1>5, <1>8, <2>2 DEF Callers
    <3> QED
      BY <1>4, <1>5, <3>1
  <2> QED
    BY <2>1, <2>2
<1>9. ASSUME NEW j \in Instruction, NEW k \in Instruction, j < k,
             Unanswered(j)', Unanswered(k)'
      PROVE  /\ ins'[j].at = "runs"
             /\ \E w \in Instruction : ins'[j].waits = w /\ w <= k /\ Unanswered(w)'
  <2>1. j # i /\ Unanswered(j) /\ j <= c
    <3>1. k <= i
      BY <1>3, <1>5, <1>9 DEF Instruction
    <3> QED
      BY <1>3, <1>5, <1>9, <3>1 DEF Instruction
  <2>2. CASE j = c
    <3>1. k = i
      BY <1>3, <1>5, <1>9, <2>2 DEF Instruction
    <3> QED
      BY <1>4, <1>7, <2>2, <3>1 DEF Instruction
  <2>3. CASE j # c
    <3>1. PICK d \in Instruction : Unanswered(d) /\ j < d /\ d <= k
      <4>1. CASE k = i
        BY <1>2, <1>3, <2>1, <2>3, <4>1 DEF Instruction
      <4>2. CASE k # i
        BY <1>5, <1>9, <4>2 DEF Instruction
      <4> QED
        BY <4>1, <4>2
    <3>2. PICK w \in Instruction : /\ ins[j].waits = w /\ w <= d /\ Unanswered(w)
                                   /\ ins[j].at = "runs"
      BY <2>1, <3>1 DEF Chain
    <3>3. ins'[j].at = "runs" /\ ins'[j].waits = w
      BY <1>6, <2>1, <2>3, <3>2
    <3>4. Unanswered(w)' /\ w <= k
      BY <1>4, <1>5, <3>1, <3>2 DEF Instruction
    <3> QED
      BY <3>3, <3>4
  <2> QED
    BY <2>2, <2>3
<1>10. Callers'
  BY <1>8 DEF Callers
<1>11. Chain'
  BY <1>9 DEF Chain
<1> QED
  BY <1>10, <1>11

LEMMA InitChain == Init => ChainInv
<1> SUFFICES ASSUME Init PROVE ChainInv
  OBVIOUS
<1>1. \A i \in Instruction : ins[i].at = "idle" /\ ~ins[i].top
  BY StillType DEF Init, Answers
<1>2. InOrder
  BY <1>1 DEF InOrder
<1>3. Live
  BY <1>1 DEF Live
<1>4. Callers
  BY <1>1 DEF Callers, Unanswered
<1>5. Chain
  BY <1>1 DEF Chain, Unanswered
<1>6. OneOpens
  BY <1>1 DEF OneOpens, HasStep
<1> QED
  BY <1>2, <1>3, <1>4, <1>5, <1>6 DEF ChainInv

LEMMA NextChain == TypeOK /\ ChainInv /\ [Next]_vars => ChainInv'
<1> SUFFICES ASSUME TypeOK, ChainInv, [Next]_vars, past' \subseteq {"closed"}
             PROVE  Callers' /\ Chain' /\ OneOpens'
  BY NextLive DEF ChainInv
<1>1. InOrder /\ Live
  BY DEF ChainInv
<1>2. ASSUME NEW i \in Instruction, Step(i)
      PROVE  Callers' /\ Chain' /\ OneOpens'
  BY <1>2, StepChain
<1>3. ASSUME NEW i \in Instruction, NEW a \in App, CallByTest(i, a)
      PROVE  Callers' /\ Chain' /\ OneOpens'
  <2>1. past \subseteq {"closed"} /\ Called(i, a, 0, 0)
    BY <1>3 DEF CallByTest
  <2>2. Callers /\ OneOpens
    BY <2>1 DEF ChainInv
  <2>3. OneOpens'
    BY <2>1, <2>2, CalledOpens
  <2>4. \A j \in Instruction : ~Unanswered(j)
    BY <1>3, <2>2, NobodyWaits DEF CallByTest
  <2>5. \A j \in Instruction \ {i} : ~Unanswered(j)'
    BY <2>1, <2>4, CalledEffect DEF Unanswered
  <2>6. ins'[i].caller \notin Instruction
    BY <2>1, CalledEffect DEF Instruction
  <2>7. Callers'
    BY <2>5, <2>6 DEF Callers
  <2>8. \A j, k \in Instruction : j < k => ~Unanswered(j)' \/ ~Unanswered(k)'
    BY <2>5 DEF Instruction
  <2>9. Chain'
    BY <2>8 DEF Chain
  <2> QED
    BY <2>3, <2>7, <2>9
<1>4. ASSUME NEW i \in Instruction, NEW c \in Instruction, CallByBody(i, c)
      PROVE  Callers' /\ Chain' /\ OneOpens'
  <2>1. past \subseteq {"closed"} /\ Called(i, ins[c].app, c, i)
    BY <1>4 DEF CallByBody
  <2>2. Callers /\ Chain /\ OneOpens
    BY <2>1 DEF ChainInv
  <2>3. OneOpens'
    BY <2>1, <2>2, CalledOpens
  <2> QED
    BY <1>1, <1>4, <2>2, <2>3, BodyChain
<1>5. ASSUME NEW i \in Instruction, NEW c \in Instruction, Leave(i, c)
      PROVE  FALSE
  BY <1>5 DEF Leave
<1>6. CASE Debugger
  <2>1. past \subseteq {"closed"} /\ UNCHANGED isLogOpened
    BY <1>6 DEF Debugger, AddBreakpoint, ResolveBefore, ResolveAfter, BreakStack, logVars
  <2>2. Callers /\ Chain /\ OneOpens
    BY <2>1 DEF ChainInv
  <2>3. ASSUME NEW j \in Instruction, Unanswered(j)'
        PROVE  /\ Unanswered(j) /\ ins'[j].caller = ins[j].caller
               /\ LastOne(j) \/ (ins'[j].at = ins[j].at /\ ins'[j].waits = ins[j].waits)
    <3>1. Unanswered(j)
      BY <1>1, <1>6, <2>3, DebuggerEffect DEF Unanswered
    <3>2. ins[j].at = "breakpoint" => LastOne(j)
      BY <2>2, <3>1, WhoIsLast
    <3> QED
      BY <1>1, <1>6, <3>1, <3>2, DebuggerEffect
  <2>4. ASSUME NEW j \in Instruction, Unanswered(j)
        PROVE  Unanswered(j)' \/ LastOne(j)
    <3>1. ins[j].at \in {"fails", "over"} => LastOne(j)
      BY <2>2, <2>4, WhoIsLast
    <3> QED
      BY <1>1, <1>6, <2>4, <3>1, DebuggerEffect DEF Unanswered
  <2>5. Callers' /\ Chain'
    BY <2>2, <2>3, <2>4, ChainStep
  <2>6. \A j \in Instruction : HasStep(j)' => HasStep(j) /\ ins'[j].app = ins[j].app
    BY <1>1, <1>6, DebuggerEffect DEF HasStep
  <2>7. \A j \in Instruction : ins'[j].at \in {"breakpoint", "opens"} =>
          ~isLogOpened[ins'[j].app]
    BY <1>1, <1>6, <2>2, DebuggerEffect DEF OneOpens
  <2> QED
    BY <2>1, <2>2, <2>5, <2>6, <2>7, SameOpens
<1>7. CASE UNCHANGED vars
  <2>1. past \subseteq {"closed"} /\ ins' = ins /\ isLogOpened' = isLogOpened
    BY <1>7 DEF vars, logVars
  <2>2. Callers /\ Chain /\ OneOpens
    BY <2>1 DEF ChainInv
  <2>3. OneOpens'
    BY <2>1, <2>2 DEF OneOpens, HasStep
  <2> QED
    BY <2>1, <2>2, <2>3 DEF Callers, Chain, Unanswered
<1> QED
  BY <1>2, <1>3, <1>4, <1>5, <1>6, <1>7 DEF Next

(* A waiting instruction runs, and has no answer; the one it waits for was    *)
(* called after it and has no step.                                          *)
Waiting == \A i, c \in Instruction :
  ins[c].waits = i => c < i /\ ins[c].at = "runs" /\ ~ins[i].top

(* Who is unanswered while an earlier one is belongs to the same application, *)
(* has no step and is not about to begin one.                                *)
Inside == \A i, j \in Instruction : i < j /\ Unanswered(i) /\ Unanswered(j) =>
  ins[j].app = ins[i].app /\ ~ins[j].top /\ ins[j].at \in {"called", "runs"}

(* Instructions run in the open log of their application. *)
RunsInLog == \A i \in Instruction : ins[i].at = "runs" => isLogOpened[ins[i].app]

InsideInv == past = {} => Waiting /\ Inside /\ RunsInLog

LEMMA InitInside == Init => InsideInv
<1> SUFFICES ASSUME Init PROVE InsideInv
  OBVIOUS
<1>1. \A i \in Instruction : ins[i].at = "idle" /\ ins[i].waits = 0
  BY DEF Init, Still
<1>2. Waiting
  BY <1>1 DEF Waiting, Instruction
<1>3. Inside
  BY <1>1 DEF Inside, Unanswered
<1>4. RunsInLog
  BY <1>1 DEF RunsInLog
<1> QED
  BY <1>2, <1>3, <1>4 DEF InsideInv

(* Who runs while i does, and has no answer, was called before i. *)
LEMMA RunsBefore ==
  ASSUME TypeOK, Live, Chain, NEW i \in Instruction, ins[i].at = "runs", Answered(i),
         NEW j \in Instruction, j # i, ins[j].at = "runs"
  PROVE  j < i /\ Unanswered(i) /\ Unanswered(j)
<1>1. Unanswered(i) /\ Unanswered(j)
  BY DEF Live, Unanswered
<1>2. LastOne(i)
  BY <1>1, WhoIsLast
<1> QED
  BY <1>1, <1>2 DEF LastOne, Instruction

(* A step of i: only a step that no unanswered instruction precedes is begun, *)
(* or ends with the log closed.                                              *)
LEMMA StepInside ==
  ASSUME TypeOK, ChainInv, InsideInv, NEW i \in Instruction, Step(i), past' = {}
  PROVE  Waiting' /\ Inside' /\ RunsInLog'
<1>1. past = {}
  BY StepEffect DEF ChainInv
<1>2. /\ Live /\ Callers /\ Chain /\ OneOpens /\ Waiting /\ Inside /\ RunsInLog
      /\ \A j \in Instruction \ {i} : ins'[j] = ins[j]
      /\ ins[i] \in InsType /\ ins[i].app \in App /\ isLogOpened \in [App -> BOOLEAN]
  BY <1>1, StepType DEF ChainInv, InsideInv, TypeOK, InsType
<1>3. Unanswered(i) => LastOne(i)
  BY <1>2, StepEffect, WhoIsLast
<1>4. ASSUME NEW j \in Instruction, j < i, Unanswered(j), Unanswered(i)
      PROVE  /\ ins[i].app = ins[j].app /\ ~ins[i].top /\ ins[i].at \in {"called", "runs"}
             /\ ins[j].at = "runs" /\ isLogOpened[ins[i].app]
  BY <1>2, <1>4 DEF Inside, Chain, RunsInLog
<1>5. ASSUME NEW c \in Instruction, ins[c].waits = i
      PROVE  c < i /\ Unanswered(c) /\ ~ins[i].top
  BY <1>2, <1>5 DEF Waiting, Live, Unanswered
<1>6. /\ (\E c \in Instruction : ins[c].waits = i) => ~ins'[i].top
      /\ ins'[i].waits \in {0, ins[i].waits}
      /\ ins'[i].waits # 0 => ins'[i].at = "runs"
      /\ Unanswered(i)' => ins'[i].app = ins[i].app
      /\ (\E j \in Instruction : j < i /\ Unanswered(j)) /\ Unanswered(i)' =>
           ~ins'[i].top /\ ins'[i].at \in {"called", "runs"}
      /\ ins'[i].at = "runs" => isLogOpened'[ins'[i].app]
      /\ \A j \in Instruction \ {i} : ins[j].at = "runs" => isLogOpened'[ins[j].app]
  <2>1. CASE Initialised(i)
    <3>1. /\ UNCHANGED isLogOpened /\ ins[i].at = "called"
          /\ ins' = [ins EXCEPT ![i].at = ins'[i].at]
      BY <2>1 DEF Initialised, logVars, TypeOK
    <3>2. ins'[i] = [ins[i] EXCEPT !.at = ins'[i].at]
      BY <3>1 DEF TypeOK
    <3>3. /\ ins'[i].app = ins[i].app /\ ins'[i].top = ins[i].top /\ ~ins[i].top
          /\ ins'[i].waits = ins[i].waits /\ ins[i].waits = 0 /\ Unanswered(i)
      <4>1. ins[i].waits \in Instruction => ins[i].at = "runs"
        BY <1>2 DEF Waiting
      <4>2. ins[i].waits = 0
        BY <1>2, <3>1, <4>1, StepsAssumption DEF InsType, Instruction
      <4> QED
        BY <1>2, <3>1, <3>2, <4>2 DEF InsType, Live, Unanswered
    <3>4. /\ isLogOpened[ins[i].app] => ins'[i].at = "runs"
          /\ ins'[i].at = "runs" => isLogOpened[ins[i].app]
      BY <2>1 DEF Initialised, TypeOK
    <3> QED
      BY <1>2, <1>4, <3>1, <3>3, <3>4 DEF RunsInLog
  <2>2. CASE Begin(i)
    <3>1. PICK m \in Message, f \in BOOLEAN :
            ins' = [ins EXCEPT ![i].at = "runs", ![i].top = TRUE, ![i].message = m, ![i].followed = f]
      BY <2>2 DEF Begin
    <3>2. ins'[i] = [ins[i] EXCEPT !.at = "runs", !.top = TRUE, !.message = m, !.followed = f]
      BY <3>1 DEF TypeOK
    <3>3. ins'[i].app = ins[i].app /\ ins'[i].at = "runs" /\ ins'[i].waits = ins[i].waits
      BY <1>2, <3>2 DEF InsType
    <3>4. /\ ins[i].at = "opens" /\ Unanswered(i)
          /\ isLogOpened' = [isLogOpened EXCEPT ![ins[i].app] = TRUE]
      BY <1>2, <2>2 DEF Begin, Live, Unanswered
    <3>5. \A j \in Instruction : j < i => ~Unanswered(j)
      BY <1>4, <3>4
    <3>6. \A c \in Instruction : ins[c].waits # i
      BY <1>5, <3>5
    <3>7. \A j \in Instruction : ins[j].at = "runs" => isLogOpened'[ins[j].app]
      BY <1>2, <3>4 DEF RunsInLog, TypeOK, InsType
    <3>8. isLogOpened'[ins'[i].app]
      BY <1>2, <3>3, <3>4
    <3> QED
      BY <3>3, <3>5, <3>6, <3>7, <3>8
  <2>3. CASE Resume(i)
    <3>1. /\ UNCHANGED isLogOpened /\ ins'[i] = [ins[i] EXCEPT !.waits = 0]
          /\ ins[i].at = "runs"
      BY <2>3 DEF Resume, logVars, TypeOK
    <3>2. /\ ins'[i].app = ins[i].app /\ ins'[i].top = ins[i].top /\ ins'[i].at = ins[i].at
          /\ ins'[i].waits = 0 /\ Unanswered(i)
      BY <1>2, <3>1 DEF InsType, Live, Unanswered
    <3> QED
      BY <1>2, <1>4, <1>5, <3>1, <3>2 DEF RunsInLog
  <2>4. CASE Succeed(i)
    <3>1. /\ ins'[i] = Still("over", "value") /\ ins[i].at = "runs" /\ Answered(i)
      BY <2>4 DEF Succeed, TypeOK
    <3>2. ins'[i].at = "over" /\ ~ins'[i].top /\ ins'[i].waits = 0 /\ ~Unanswered(i)'
      BY <3>1, StillType DEF Still, Answers, Unanswered
    <3>3. ASSUME NEW j \in Instruction \ {i}, ins[j].at = "runs"
          PROVE  isLogOpened'[ins[j].app]
      <4>1. j < i /\ Unanswered(i) /\ Unanswered(j)
        BY <1>2, <3>1, <3>3, RunsBefore
      <4>2. ~ins[i].top
        BY <1>4, <4>1
      <4>3. isLogOpened' = isLogOpened
        BY <2>4, <4>2 DEF Succeed, logVars
      <4> QED
        BY <1>2, <3>3, <4>3 DEF RunsInLog
    <3> QED
      BY <3>2, <3>3
  <2>5. CASE Fail(i)
    <3>1. UNCHANGED isLogOpened /\ ins[i].at = "runs" /\ Unanswered(i)
      BY <1>2, <2>5 DEF Fail, logVars, Live, Unanswered
    <3>2. CASE ins[i].top
      <4>1. ins'[i] = [ins[i] EXCEPT !.at = "fails", !.waits = 0,
                         !.answer = IF ins[i].followed THEN "error" ELSE "none"]
        BY <2>5, <3>2 DEF Fail, TypeOK
      <4>2. ins'[i].at = "fails" /\ ins'[i].waits = 0 /\ ins'[i].app = ins[i].app
        BY <1>2, <4>1 DEF InsType
      <4>3. \A j \in Instruction : j < i => ~Unanswered(j)
        BY <1>4, <3>1, <3>2
      <4> QED
        BY <1>2, <1>5, <3>1, <3>2, <4>2, <4>3 DEF RunsInLog
    <3>3. CASE ~ins[i].top
      <4>1. ins'[i] = Still("over", "error")
        BY <2>5, <3>3 DEF Fail, TypeOK
      <4>2. ins'[i].at = "over" /\ ~ins'[i].top /\ ins'[i].waits = 0 /\ ~Unanswered(i)'
        BY <4>1, StillType DEF Still, Answers, Unanswered
      <4> QED
        BY <1>2, <3>1, <4>2 DEF RunsInLog
    <3> QED
      BY <3>2, <3>3
  <2>6. CASE Handled(i)
    <3>1. ins'[i] = Still("over", "error") /\ ins[i].at = "fails"
      BY <2>6 DEF Handled, TypeOK
    <3>2. ins'[i].at = "over" /\ ~ins'[i].top /\ ins'[i].waits = 0 /\ ~Unanswered(i)'
      BY <3>1, StillType DEF Still, Answers, Unanswered
    <3>3. /\ ~LogInUse(i)
          /\ isLogOpened' = [isLogOpened EXCEPT ![ins[i].app] = FALSE]
      BY <2>6 DEF Handled, Closed, Close
    <3>4. \A j \in Instruction \ {i} : ins[j].at = "runs" => isLogOpened'[ins[j].app]
      BY <1>2, <3>3 DEF LogInUse, RunsInLog, TypeOK, InsType
    <3> QED
      BY <3>2, <3>4
  <2>7. CASE HandlerFails(i)
    BY <2>7 DEF HandlerFails
  <2> QED
    BY <2>1, <2>2, <2>3, <2>4, <2>5, <2>6, <2>7 DEF Step
<1>7. Waiting'
  <2>1. ASSUME NEW j \in Instruction, NEW c \in Instruction, ins'[c].waits = j
        PROVE  c < j /\ ins'[c].at = "runs" /\ ~ins'[j].top
    <3>1. ins[c].waits = j
      BY <1>2, <1>6, <2>1 DEF Instruction
    <3>2. c < j /\ ins[c].at = "runs" /\ ~ins[j].top
      BY <1>2, <3>1 DEF Waiting
    <3>3. ins'[c].at = "runs"
      BY <1>2, <1>6, <2>1, <3>2 DEF Instruction
    <3>4. ~ins'[j].top
      BY <1>2, <1>6, <3>1, <3>2
    <3> QED
      BY <3>2, <3>3, <3>4
  <2> QED
    BY <2>1 DEF Waiting
<1>8. Inside'
  <2>1. ASSUME NEW j \in Instruction, NEW k \in Instruction, j < k,
               Unanswered(j)', Unanswered(k)'
        PROVE  ins'[k].app = ins'[j].app /\ ~ins'[k].top /\ ins'[k].at \in {"called", "runs"}
    <3>1. Unanswered(j) /\ Unanswered(k)
      BY <1>2, <2>1, StepEffect DEF Unanswered
    <3>2. j # i
      BY <1>3, <2>1, <3>1 DEF LastOne
    <3>3. ins[k].app = ins[j].app /\ ~ins[k].top /\ ins[k].at \in {"called", "runs"}
      BY <1>2, <2>1, <3>1 DEF Inside
    <3>4. CASE k = i
      BY <1>2, <1>6, <2>1, <3>1, <3>2, <3>3, <3>4
    <3>5. CASE k # i
      BY <1>2, <3>2, <3>3, <3>5
    <3> QED
      BY <3>4, <3>5
  <2> QED
    BY <2>1 DEF Inside
<1>9. RunsInLog'
  BY <1>2, <1>6 DEF RunsInLog
<1> QED
  BY <1>7, <1>8, <1>9

LEMMA NextInside == TypeOK /\ ChainInv /\ InsideInv /\ [Next]_vars => InsideInv'
<1> SUFFICES ASSUME TypeOK, ChainInv, InsideInv, [Next]_vars, past' = {}
             PROVE  Waiting' /\ Inside' /\ RunsInLog'
  BY DEF InsideInv
<1>1. past = {} => Live /\ InOrder /\ Callers /\ Chain /\ Waiting /\ Inside /\ RunsInLog
  BY DEF ChainInv, InsideInv
<1>2. ASSUME NEW i \in Instruction, Step(i)
      PROVE  Waiting' /\ Inside' /\ RunsInLog'
  BY <1>2, StepInside
<1>3. ASSUME NEW i \in Instruction, NEW a \in App, CallByTest(i, a)
      PROVE  Waiting' /\ Inside' /\ RunsInLog'
  <2>1. past = {} /\ Called(i, a, 0, 0) /\ UNCHANGED isLogOpened
    BY <1>3 DEF CallByTest, Called, logVars
  <2>2. \A j \in Instruction : ~Unanswered(j)
    BY <1>1, <1>3, <2>1, NobodyWaits DEF CallByTest
  <2>3. \A j \in Instruction \ {i} : ~Unanswered(j)' /\ ins'[j].at = ins[j].at
    BY <2>1, <2>2, CalledEffect DEF Unanswered
  <2>4. Inside'
    BY <2>3 DEF Inside, Instruction
  <2>5. \A j \in Instruction : ins[j].at # "runs" /\ ins'[j].at # "runs"
    BY <1>1, <2>1, <2>2, CalledEffect DEF Live, Unanswered
  <2>6. RunsInLog'
    BY <2>5 DEF RunsInLog
  <2>7. ASSUME NEW j \in Instruction, NEW c \in Instruction, ins'[c].waits = j
        PROVE  FALSE
    <3>1. c # i => ins'[c].waits = ins[c].waits
      BY <2>1, CalledEffect DEF Instruction
    <3>2. ins'[i].waits = 0
      BY <2>1 DEF Called, Still, TypeOK
    <3> QED
      BY <1>1, <2>1, <2>5, <2>7, <3>1, <3>2 DEF Waiting, Instruction
  <2> QED
    BY <2>4, <2>6, <2>7 DEF Waiting
<1>4. ASSUME NEW i \in Instruction, NEW c \in Instruction, CallByBody(i, c)
      PROVE  Waiting' /\ Inside' /\ RunsInLog'
  <2>1. /\ past = {} /\ Called(i, ins[c].app, c, i) /\ UNCHANGED isLogOpened
        /\ ins[c].at = "runs" /\ ins[c].waits = 0
    BY <1>4 DEF CallByBody, Called, logVars
  <2>2. Unanswered(c) /\ LastOne(c)
    BY <1>1, <2>1, WhoIsLast DEF Live, Unanswered, Answered
  <2>3. ins[i].at = "idle" /\ ins'[i].at = "called" /\ ~ins'[i].top /\ c < i
    <3>1. ins[i].at = "idle" /\ ins'[i].at = "called" /\ ~ins'[i].top
      BY <2>1, CalledEffect
    <3>2. ~(i < c) /\ i # c
      BY <1>1, <2>1, <3>1 DEF InOrder
    <3> QED
      BY <3>1, <3>2 DEF Instruction
  <2>4. /\ ins'[i].app = ins[c].app /\ ins'[i].waits = 0
    <3>1. PICK r \in Effects : ins'[i] =
            [Still("called", "none") EXCEPT !.app = ins[c].app, !.row = r, !.caller = c]
      BY <2>1 DEF Called
    <3> QED
      BY <3>1 DEF Still
  <2>5. \A j \in Instruction \ {i} :
          /\ ins'[j].at = ins[j].at /\ ins'[j].top = ins[j].top /\ ins'[j].app = ins[j].app
          /\ Unanswered(j)' <=> Unanswered(j)
          /\ ins'[j].waits = IF j = c THEN i ELSE ins[j].waits
    BY <2>1, CalledEffect DEF Unanswered
  <2>6. ASSUME NEW j \in Instruction, NEW d \in Instruction, ins'[d].waits = j
        PROVE  d < j /\ ins'[d].at = "runs" /\ ~ins'[j].top
    <3>1. CASE d = c
      BY <2>1, <2>3, <2>5, <2>6, <3>1 DEF Instruction
    <3>2. CASE d # c
      <4>1. d # i /\ ins[d].waits = j
        BY <2>4, <2>5, <2>6, <3>2 DEF Instruction
      <4>2. d < j /\ ins[d].at = "runs" /\ ~ins[j].top
        BY <1>1, <2>1, <4>1 DEF Waiting
      <4> QED
        BY <2>3, <2>5, <4>1, <4>2
    <3> QED
      BY <3>1, <3>2
  <2>7. ASSUME NEW j \in Instruction, NEW k \in Instruction, j < k,
               Unanswered(j)', Unanswered(k)'
        PROVE  ins'[k].app = ins'[j].app /\ ~ins'[k].top /\ ins'[k].at \in {"called", "runs"}
    <3>1. j # i
      <4>1. j = i => c < k /\ k # i
        BY <2>3, <2>7 DEF Instruction
      <4> QED
        BY <2>2, <2>5, <2>7, <4>1 DEF LastOne
    <3>2. Unanswered(j)
      BY <2>5, <2>7, <3>1
    <3>3. CASE k = i
      <4>1. CASE j = c
        BY <2>3, <2>4, <2>5, <3>1, <3>3, <4>1
      <4>2. CASE j # c
        <5>1. j < c
          BY <2>2, <3>2, <4>2 DEF LastOne, Instruction
        <5>2. ins[c].app = ins[j].app
          BY <1>1, <2>1, <2>2, <3>2, <5>1 DEF Inside
        <5> QED
          BY <2>3, <2>4, <2>5, <3>1, <3>3, <5>2
      <4> QED
        BY <4>1, <4>2
    <3>4. CASE k # i
      BY <1>1, <2>1, <2>5, <2>7, <3>1, <3>2, <3>4 DEF Inside
    <3> QED
      BY <3>3, <3>4
  <2>8. RunsInLog'
    BY <1>1, <2>1, <2>3, <2>5 DEF RunsInLog
  <2> QED
    BY <2>6, <2>7, <2>8 DEF Waiting, Inside
<1>5. ASSUME NEW i \in Instruction, NEW c \in Instruction, Leave(i, c)
      PROVE  FALSE
  BY <1>5 DEF Leave
<1>6. CASE Debugger
  <2>1. past = {} /\ UNCHANGED isLogOpened
    BY <1>6 DEF Debugger, AddBreakpoint, ResolveBefore, ResolveAfter, BreakStack, logVars
  <2>2. \A j \in Instruction :
          /\ ins'[j].top = ins[j].top /\ ins'[j].app = ins[j].app /\ ins'[j].waits = ins[j].waits
          /\ ins[j].at # "breakpoint" => ins'[j].at = ins[j].at
          /\ ins'[j].at = "runs" => ins[j].at = "runs"
          /\ Unanswered(j)' => Unanswered(j)
    BY <1>1, <1>6, <2>1, DebuggerEffect DEF Unanswered
  <2>3. Waiting'
    BY <1>1, <2>1, <2>2 DEF Waiting
  <2>4. Inside'
    BY <1>1, <2>1, <2>2 DEF Inside
  <2>5. RunsInLog'
    BY <1>1, <2>1, <2>2 DEF RunsInLog
  <2> QED
    BY <2>3, <2>4, <2>5
<1>7. CASE UNCHANGED vars
  BY <1>1, <1>7 DEF vars, logVars, Waiting, Inside, RunsInLog, Unanswered
<1> QED
  BY <1>2, <1>3, <1>4, <1>5, <1>6, <1>7 DEF Next

(* Of the instructions of an application at most one has a step (isLogOpened  *)
(* in stepLog), unless one was left running or an error handler has failed;   *)
(* and one that another waits for has none, unless, besides, an error handler *)
(* has closed the log that a later instruction ran in.                       *)
THEOREM StepsAreAlone == Spec => []OneStepPerApp
<1>1. Init => TypeOK /\ ChainInv /\ InsideInv
  BY InitType, InitChain, InitInside
<1>2. TypeOK /\ ChainInv /\ InsideInv /\ [Next]_vars => TypeOK' /\ ChainInv' /\ InsideInv'
  BY NextType, NextChain, NextInside
<1>3. ChainInv /\ InsideInv => OneStepPerApp
  BY DEF ChainInv, OneOpens, InsideInv, Waiting, HasStep, OneStepPerApp
<1> QED
  BY <1>1, <1>2, <1>3, PTL DEF Spec

-----------------------------------------------------------------------------
(* WebApplicationTabs. *)

(* Ascending enumerates a set of numbers. *)

(* Of two numbers of a set the smaller one has fewer below it. *)
LEMMA RanksDiffer ==
  ASSUME NEW S \in SUBSET Nat, IsFiniteSet(S), NEW t \in S, NEW v \in S, t < v
  PROVE  Cardinality({u \in S : u <= t}) < Cardinality({u \in S : u <= v})
<1> DEFINE A == {u \in S : u <= t}
           B == {u \in S : u <= v}
<1>1. IsFiniteSet(B) /\ A \in SUBSET B
  <2>0. \A u \in S : u \in Nat /\ (u <= t => u <= v)
    OBVIOUS
  <2>1. B \in SUBSET S /\ A \in SUBSET B
    BY <2>0
  <2> QED
    BY <2>1, FS_Subset
<1>2. A # B
  <2>1. v \in B /\ v \notin A
    OBVIOUS
  <2> QED
    BY <2>1
<1>3. /\ Cardinality(A) <= Cardinality(B) /\ Cardinality(A) # Cardinality(B)
      /\ Cardinality(A) \in Nat /\ Cardinality(B) \in Nat
  <2> HIDE DEF A, B
  <2> QED
    BY <1>1, <1>2, FS_Subset, FS_CardinalityType
<1> QED
  BY <1>3

LEMMA SeqOfPart ==
  ASSUME NEW T, NEW S \in SUBSET T, NEW s \in Seq(S)
  PROVE  s \in Seq(T)
<1>1. Len(s) \in Nat /\ s \in [1..Len(s) -> S]
  OBVIOUS
<1>2. s \in [1..Len(s) -> T]
  BY <1>1
<1> QED
  BY <1>1, <1>2

LEMMA AscendingEnumerates ==
  ASSUME NEW S \in SUBSET Nat, IsFiniteSet(S)
  PROVE  /\ Ascending(S) \in Seq(S) /\ Len(Ascending(S)) = Cardinality(S)
         /\ Range(Ascending(S)) = S
<1> DEFINE n == Cardinality(S)
           rank == [t \in S |-> Cardinality({u \in S : u <= t})]
<1>1. n \in Nat /\ IsFiniteSet(1..n) /\ Cardinality(1..n) = n
  BY FS_CardinalityType, FS_Interval
<1>2. rank \in [S -> 1..n]
  <2> SUFFICES ASSUME NEW t \in S
               PROVE  Cardinality({u \in S : u <= t}) \in 1..n
    OBVIOUS
  <2> DEFINE A == {u \in S : u <= t}
  <2>1. A \in SUBSET S /\ t \in A
    OBVIOUS
  <2>2. IsFiniteSet(A) /\ Cardinality(A) \in Nat /\ Cardinality(A) <= n /\ Cardinality(A) # 0
    <3> HIDE DEF A
    <3> QED
      BY <2>1, FS_Subset, FS_CardinalityType, FS_EmptySet
  <2> QED
    BY <1>1, <2>2
<1>3. \A t, v \in S : rank[t] = rank[v] => t = v
  <2> SUFFICES ASSUME NEW t \in S, NEW v \in S, t # v
               PROVE  rank[t] # rank[v]
    OBVIOUS
  <2>1. rank[t] \in Nat /\ rank[v] \in Nat /\ (t < v \/ v < t)
    BY <1>1, <1>2
  <2> QED
    BY <2>1, RanksDiffer
<1>4. rank \in Surjection(S, 1..n)
  <2>1. rank \in Injection(S, 1..n)
    BY <1>2, <1>3 DEF Injection, IsInjective
  <2> HIDE DEF rank
  <2> QED
    BY <1>1, <2>1, FS_Injection
<1>5. \A k \in 1..n : \E t \in S : rank[t] = k
  BY <1>4 DEF Surjection
<1> DEFINE s == Ascending(S)
<1>6. /\ DOMAIN s = 1..n
      /\ \A k \in 1..n : s[k] \in S /\ rank[s[k]] = k
  <2>1. DOMAIN s = 1..n
        /\ \A k \in 1..n : s[k] = CHOOSE t \in S : Cardinality({u \in S : u <= t}) = k
    BY DEF Ascending
  <2>2. ASSUME NEW k \in 1..n
        PROVE  s[k] \in S /\ rank[s[k]] = k
    <3>1. \E t \in S : Cardinality({u \in S : u <= t}) = k
      BY <1>5
    <3>2. s[k] \in S /\ Cardinality({u \in S : u <= s[k]}) = k
      <4> HIDE DEF s
      <4> QED
        BY <2>1, <3>1
    <3> QED
      BY <3>2
  <2> QED
    BY <2>1, <2>2
<1>7. s \in Seq(S) /\ Len(s) = n
  <2>1. s = [k \in 1..n |-> s[k]]
    BY DEF Ascending
  <2> HIDE DEF s, n, rank
  <2>2. s \in [1..n -> S]
    BY <1>6, <2>1
  <2> QED
    BY <1>1, <2>2
<1>8. S \subseteq Range(s)
  <2> SUFFICES ASSUME NEW t \in S
               PROVE  t \in Range(s)
    OBVIOUS
  <2>1. rank[t] \in 1..n /\ s[rank[t]] = t
    <3> HIDE DEF s, rank
    <3> QED
      BY <1>2, <1>3, <1>6
  <2> QED
    BY <1>6, <2>1 DEF Range
<1> QED
  BY <1>6, <1>7, <1>8 DEF Range

-----------------------------------------------------------------------------
(* The driver's commands. *)

DriverKind ==
  [session : BOOLEAN, page : 0..MaxPages, state : [Page -> {"none", "open", "closed", "gone"}],
   tab : [Page -> Nat], made : Nat]

(* Without a session nothing is open; pages are numbered as they are opened.   *)
Sound(d) ==
  /\ d \in DriverKind
  /\ d.session => d.page \in Page
  /\ ~d.session => Open(d) = {}
  /\ \E n \in 0..MaxPages : Known(d) = 1..n

(* What commands that neither close nor end anything leave of d: pages are     *)
(* opened and tabs named, and the client's page is what it was or an open one. *)
Grows(d, e) ==
  /\ Sound(e)
  /\ \/ e.session = d.session /\ e.page = d.page
     \/ e.session /\ e.state[e.page] = "open"
  /\ \A p \in Page :
       /\ IF d.state[p] = "none" THEN e.state[p] \in {"none", "open"} ELSE e.state[p] = d.state[p]
       /\ d.tab[p] # 0 => e.tab[p] = d.tab[p]

LEMMA GrowsTrans ==
  ASSUME NEW d, NEW e, NEW f, Sound(d), Grows(d, e), Grows(e, f)
  PROVE  Grows(d, f)
<1>1. e.page \in Page \/ ~e.session
  BY DEF Grows, Sound
<1> QED
  BY <1>1 DEF Grows

LEMMA PagesAreFinite == IsFiniteSet(Page) /\ \A S \in SUBSET Page : IsFiniteSet(S) /\ Cardinality(S) \in Nat
<1>1. MaxPages \in Nat
  BY TabsAssumption
<1>2. IsFiniteSet(Page)
  BY <1>1, FS_Interval DEF Page
<1> QED
  BY <1>2, FS_Subset, FS_CardinalityType

(* What a command makes of the fields of the driver's record.                *)
WithTabs(d, tabs, made)       == [d EXCEPT !.tab = tabs, !.made = made]
WithPage(d, session, page)    == [d EXCEPT !.session = session, !.page = page]

LEMMA DriverTabs ==
  ASSUME NEW d \in DriverKind, NEW tabs \in [Page -> Nat], NEW made \in Nat
  PROVE  /\ WithTabs(d, tabs, made) \in DriverKind
         /\ WithTabs(d, tabs, made).session = d.session
         /\ WithTabs(d, tabs, made).page = d.page
         /\ WithTabs(d, tabs, made).state = d.state
         /\ WithTabs(d, tabs, made).tab = tabs
<1> DEFINE f == [d EXCEPT !.tab = tabs]
<1>1. f \in DriverKind /\ f.session = d.session /\ f.page = d.page /\ f.state = d.state /\ f.tab = tabs
  BY DEF DriverKind
<1>2. WithTabs(d, tabs, made) = [f EXCEPT !.made = made]
  BY DEF WithTabs
<1> HIDE DEF f
<1> QED
  BY <1>1, <1>2 DEF DriverKind

LEMMA DriverSession ==
  ASSUME NEW d \in DriverKind, NEW session \in BOOLEAN, NEW page \in 0..MaxPages
  PROVE  /\ WithPage(d, session, page) \in DriverKind
         /\ WithPage(d, session, page).session = session
         /\ WithPage(d, session, page).page = page
         /\ WithPage(d, session, page).state = d.state
         /\ WithPage(d, session, page).tab = d.tab
<1> DEFINE f == [d EXCEPT !.session = session]
<1>1. f \in DriverKind /\ f.session = session /\ f.state = d.state /\ f.tab = d.tab
  BY DEF DriverKind
<1>2. WithPage(d, session, page) = [f EXCEPT !.page = page]
  BY DEF WithPage
<1> HIDE DEF f
<1> QED
  BY <1>1, <1>2 DEF DriverKind

(* A new page follows those there are. *)
LEMMA NewPageStep ==
  ASSUME NEW d \in DriverKind, NEW m \in 0..MaxPages, Known(d) = 1..m, CanOpen(d)
  PROVE  /\ NewPage(d) = m + 1 /\ NewPage(d) \in Page /\ NewPage(d) \notin Known(d)
         /\ WithNewPage(d) \in DriverKind
         /\ \A p \in Page : WithNewPage(d).state[p] = IF p = NewPage(d) THEN "open" ELSE d.state[p]
         /\ WithNewPage(d).session = d.session /\ WithNewPage(d).page = d.page
         /\ WithNewPage(d).tab = d.tab /\ WithNewPage(d).made = d.made
         /\ Known(WithNewPage(d)) = 1..(m + 1) /\ m + 1 \in 0..MaxPages
<1>1. MaxPages \in Nat /\ m \in Nat /\ Cardinality(1..m) = m
  BY TabsAssumption, FS_Interval
<1>2. NewPage(d) = m + 1
  BY <1>1 DEF NewPage
<1>3. m < MaxPages
  BY <1>1 DEF CanOpen, Page
<1>4. m + 1 \in Page /\ m + 1 \notin Known(d) /\ m + 1 \in 0..MaxPages
  BY <1>1, <1>3 DEF Page
<1>5. /\ WithNewPage(d) \in DriverKind
      /\ \A p \in Page : WithNewPage(d).state[p] = IF p = m + 1 THEN "open" ELSE d.state[p]
      /\ WithNewPage(d).session = d.session /\ WithNewPage(d).page = d.page
      /\ WithNewPage(d).tab = d.tab /\ WithNewPage(d).made = d.made
  BY <1>2, <1>4 DEF WithNewPage, DriverKind
<1>6. Known(WithNewPage(d)) = Known(d) \cup {m + 1}
  BY <1>4, <1>5 DEF Known
<1>7. Known(WithNewPage(d)) = 1..(m + 1)
  BY <1>1, <1>6
<1> QED
  BY <1>2, <1>4, <1>5, <1>7

LEMMA NamedStep ==
  ASSUME NEW d \in DriverKind, NEW p \in Page
  PROVE  /\ Named(d, p) \in DriverKind
         /\ Named(d, p).session = d.session /\ Named(d, p).page = d.page
         /\ Named(d, p).state = d.state
         /\ Named(d, p).tab[p] # 0
         /\ \A q \in Page : d.tab[q] # 0 => Named(d, p).tab[q] = d.tab[q]
<1>1. d.made \in Nat /\ d.tab \in [Page -> Nat]
  BY DEF DriverKind
<1>2. CASE d.tab[p] # 0
  BY <1>2 DEF Named
<1>3. CASE d.tab[p] = 0
  <2> DEFINE made == d.made + 1
             tabs == [d.tab EXCEPT ![p] = made]
  <2>1. tabs \in [Page -> Nat] /\ tabs[p] # 0 /\ \A q \in Page : d.tab[q] # 0 => tabs[q] = d.tab[q]
    BY <1>1, <1>3
  <2>2. Named(d, p) = WithTabs(d, tabs, made)
    BY <1>3 DEF Named, WithTabs, DriverKind
  <2>3. made \in Nat
    BY <1>1
  <2> HIDE DEF tabs, made
  <2>4. /\ WithTabs(d, tabs, made) \in DriverKind
        /\ WithTabs(d, tabs, made).session = d.session
        /\ WithTabs(d, tabs, made).page = d.page
        /\ WithTabs(d, tabs, made).state = d.state
        /\ WithTabs(d, tabs, made).tab = tabs
    BY <2>1, <2>3, DriverTabs
  <2> QED
    BY <2>1, <2>2, <2>4
<1> QED
  BY <1>2, <1>3

LEMMA NamedGrows ==
  ASSUME NEW d, Sound(d), NEW p \in Page
  PROVE  Grows(d, Named(d, p)) /\ Named(d, p).session = d.session /\ Named(d, p).tab[p] # 0
         /\ Named(d, p).page = d.page
<1>1. d \in DriverKind
  BY DEF Sound
<1>2. /\ Named(d, p) \in DriverKind
      /\ Named(d, p).session = d.session /\ Named(d, p).page = d.page
      /\ Named(d, p).state = d.state
      /\ Named(d, p).tab[p] # 0
      /\ \A q \in Page : d.tab[q] # 0 => Named(d, p).tab[q] = d.tab[q]
  BY <1>1, NamedStep
<1>3. Open(Named(d, p)) = Open(d) /\ Known(Named(d, p)) = Known(d)
  BY <1>2 DEF Open, Known
<1>4. Sound(Named(d, p))
  BY <1>2, <1>3 DEF Sound
<1> QED
  BY <1>2, <1>4 DEF Grows, DriverKind

LEMMA CreateClientGrows ==
  ASSUME NEW d, Sound(d), d.session \/ CanOpen(d)
  PROVE  Grows(d, CreateClient(d)) /\ CreateClient(d).session
<1>1. PICK m \in 0..MaxPages : Known(d) = 1..m
  BY DEF Sound
<1>2. d \in DriverKind
  BY DEF Sound
<1>3. CASE d.session
  BY <1>2, <1>3 DEF CreateClient, Grows, DriverKind
<1>4. CASE ~d.session
  <2> DEFINE n == NewPage(d)
             w == WithNewPage(d)
             c == [w EXCEPT !.session = TRUE, !.page = n]
  <2>1. /\ n \in Page /\ n \notin Known(d) /\ w \in DriverKind
        /\ \A p \in Page : w.state[p] = IF p = n THEN "open" ELSE d.state[p]
        /\ w.tab = d.tab /\ Known(w) = 1..(m + 1) /\ m + 1 \in 0..MaxPages
    BY <1>1, <1>2, <1>4, NewPageStep
  <2> HIDE DEF n, w
  <2>2. /\ c \in DriverKind /\ c.session /\ c.page = n /\ c.state = w.state /\ c.tab = w.tab
    <3>1. n \in 0..MaxPages
      BY <2>1, TabsAssumption DEF Page
    <3>2. c = WithPage(w, TRUE, n)
      BY DEF WithPage
    <3> HIDE DEF c
    <3> QED
      BY <2>1, <3>1, <3>2, DriverSession
  <2> HIDE DEF c
  <2>3. Known(c) = Known(w)
    BY <2>2 DEF Known
  <2>4. Sound(c)
    BY <2>1, <2>2, <2>3 DEF Sound
  <2>5. Grows(d, c)
    BY <2>1, <2>2, <2>4 DEF Grows, Known
  <2>6. CreateClient(d) = Named(c, n)
    BY <1>4 DEF CreateClient, c, n, w
  <2>7. Grows(c, Named(c, n)) /\ Named(c, n).session
    BY <2>1, <2>2, <2>4, NamedGrows
  <2> QED
    BY <2>5, <2>6, <2>7, GrowsTrans
<1> QED
  BY <1>3, <1>4

LEMMA NameCurrentGrows ==
  ASSUME NEW d, Sound(d), d.session \/ CanOpen(d)
  PROVE  /\ Grows(d, NameCurrent(d)) /\ NameCurrent(d).session
         /\ Current(NameCurrent(d)) \in Nat \ {0}
<1> DEFINE c == CreateClient(d)
<1>1. Grows(d, c) /\ c.session /\ c.page \in Page /\ Sound(c)
  BY CreateClientGrows DEF Grows, Sound
<1> HIDE DEF c
<1>2. NameCurrent(d) = Named(c, c.page)
  BY DEF NameCurrent, c
<1>3. Grows(c, Named(c, c.page)) /\ Named(c, c.page).session /\ Named(c, c.page).tab[c.page] # 0
      /\ Named(c, c.page).page = c.page /\ Named(c, c.page) \in DriverKind
  <2>1. Grows(c, Named(c, c.page)) /\ Named(c, c.page).session = c.session
        /\ Named(c, c.page).tab[c.page] # 0 /\ Named(c, c.page).page = c.page
    BY <1>1, NamedGrows
  <2> QED
    BY <1>1, <2>1 DEF Grows, Sound
<1>4. Named(c, c.page).tab[c.page] \in Nat
  BY <1>1, <1>3 DEF DriverKind
<1> QED
  BY <1>1, <1>2, <1>3, <1>4, GrowsTrans DEF Current

LEMMA NameAllGrows ==
  ASSUME NEW d, Sound(d), d.session \/ CanOpen(d)
  PROVE  /\ Grows(d, NameAll(d)) /\ NameAll(d).session
         /\ \A p \in Open(NameAll(d)) : NameAll(d).tab[p] # 0
<1> DEFINE c  == CreateClient(d)
           un == {p \in Open(c) : c.tab[p] = 0}
           e  == NameAll(d)
<1>1. Grows(d, c) /\ c.session /\ Sound(c) /\ c \in DriverKind
  BY CreateClientGrows DEF Grows, Sound
<1>2. un \in SUBSET Page
  BY DEF Open
<1>3. \A p \in un : Cardinality({q \in un : q <= p}) \in Nat \ {0}
  <2> SUFFICES ASSUME NEW p \in un
               PROVE  Cardinality({q \in un : q <= p}) \in Nat \ {0}
    OBVIOUS
  <2> DEFINE A == {q \in un : q <= p}
  <2>1. A \in SUBSET Page /\ p \in A
    BY <1>2 DEF Page
  <2>2. IsFiniteSet(A) /\ Cardinality(A) \in Nat /\ Cardinality(A) # 0
    <3> HIDE DEF A
    <3> QED
      BY <2>1, PagesAreFinite, FS_EmptySet
  <2> QED
    BY <2>2
<1>4. Cardinality(un) \in Nat
  BY <1>2, PagesAreFinite
<1>5. e = [c EXCEPT !.tab  = [p \in Page |-> IF p \in un
                                             THEN c.made + Cardinality({q \in un : q <= p})
                                             ELSE c.tab[p]],
                    !.made = @ + Cardinality(un)]
  BY DEF NameAll
<1> HIDE DEF c, un, e
<1>6. \A p \in Page : c.tab[p] \in Nat
  BY <1>1 DEF DriverKind
<1>7. /\ e \in DriverKind /\ e.session = c.session /\ e.page = c.page /\ e.state = c.state
      /\ \A p \in Page : e.tab[p] = IF p \in un THEN c.made + Cardinality({q \in un : q <= p})
                                    ELSE c.tab[p]
  <2> DEFINE tabs == [p \in Page |-> IF p \in un THEN c.made + Cardinality({q \in un : q <= p})
                                     ELSE c.tab[p]]
  <2>1. c.made \in Nat
    BY <1>1 DEF DriverKind
  <2>2. tabs \in [Page -> Nat]
    BY <1>3, <1>6, <2>1
  <2>3. \A p \in Page : tabs[p] = IF p \in un THEN c.made + Cardinality({q \in un : q <= p})
                                  ELSE c.tab[p]
    OBVIOUS
  <2>4. e = [c EXCEPT !.tab = tabs, !.made = @ + Cardinality(un)]
    BY <1>5
  <2> HIDE DEF tabs
  <2>5. e \in DriverKind /\ e.session = c.session /\ e.page = c.page /\ e.state = c.state /\ e.tab = tabs
    <3>1. c.made + Cardinality(un) \in Nat
      BY <1>4, <2>1
    <3>2. e = WithTabs(c, tabs, c.made + Cardinality(un))
      BY <1>1, <2>4 DEF WithTabs, DriverKind
    <3> QED
      BY <1>1, <2>2, <3>1, <3>2, DriverTabs
  <2> QED
    BY <2>3, <2>5
<1>8. Open(e) = Open(c) /\ Known(e) = Known(c)
  BY <1>7 DEF Open, Known
<1>9. Sound(e)
  BY <1>1, <1>7, <1>8 DEF Sound
<1>10. \A p \in un : c.tab[p] = 0
  BY DEF un
<1>11. Grows(c, e)
  BY <1>1, <1>7, <1>9, <1>10 DEF Grows, DriverKind
<1>12. \A p \in Open(e) : e.tab[p] # 0
  <2> SUFFICES ASSUME NEW p \in Open(e)
               PROVE  e.tab[p] # 0
    OBVIOUS
  <2>1. p \in Page /\ p \in Open(c) /\ c.made \in Nat
    BY <1>1, <1>8 DEF Open, DriverKind
  <2>2. CASE p \in un
    <3>1. e.tab[p] = c.made + Cardinality({q \in un : q <= p})
      BY <1>7, <2>1, <2>2
    <3>2. Cardinality({q \in un : q <= p}) \in Nat \ {0}
      BY <1>3, <2>2
    <3> QED
      BY <2>1, <3>1, <3>2
  <2>3. CASE p \notin un
    BY <1>7, <2>1, <2>3 DEF un
  <2> QED
    BY <2>2, <2>3
<1>13. Grows(d, e)
  BY <1>1, <1>11, GrowsTrans
<1> QED
  BY <1>1, <1>7, <1>12, <1>13 DEF e

LEMMA TabIdsOfOpen ==
  ASSUME NEW d, Sound(d)
  PROVE  TabIds(d) \in Seq(Nat) /\ Range(TabIds(d)) = {d.tab[p] : p \in Open(d)}
         /\ (TabIds(d) = <<>> <=> Open(d) = {})
<1> DEFINE ids == {d.tab[p] : p \in Open(d)}
<1>1. Open(d) \in SUBSET Page /\ ids \in SUBSET Nat
  BY DEF Sound, Open, DriverKind
<1>2. IsFiniteSet(ids)
  <2> DEFINE f == [p \in Open(d) |-> d.tab[p]]
  <2>1. f \in Surjection(Open(d), ids)
    BY DEF Surjection
  <2> HIDE DEF f, ids
  <2> QED
    BY <1>1, <2>1, PagesAreFinite, FS_Surjection
<1>3. TabIds(d) = Ascending(ids)
  BY DEF TabIds
<1> HIDE DEF ids
<1>4. /\ Ascending(ids) \in Seq(ids) /\ Len(Ascending(ids)) = Cardinality(ids)
      /\ Range(Ascending(ids)) = ids /\ Cardinality(ids) \in Nat /\ (Cardinality(ids) = 0 <=> ids = {})
  BY <1>1, <1>2, AscendingEnumerates, FS_CardinalityType, FS_EmptySet
<1>5. Ascending(ids) = <<>> <=> ids = {}
  BY <1>4
<1>6. ids = {} <=> Open(d) = {}
  BY DEF ids
<1>7. Ascending(ids) \in Seq(Nat)
  BY <1>1, <1>4, SeqOfPart
<1> QED
  BY <1>3, <1>4, <1>5, <1>6, <1>7 DEF ids

-----------------------------------------------------------------------------
(* The steps of a method. *)

(* What is to do after the next step. *)
Rest(q) == {q[k] : k \in 2..Len(q)}

LEMMA IndexedRange ==
  ASSUME NEW T, NEW q \in Seq(T)
  PROVE  Range(q) = {q[k] : k \in 1..Len(q)}
<1>1. DOMAIN q = 1..Len(q)
  OBVIOUS
<1>2. Range(q) = {q[k] : k \in DOMAIN q}
  BY DEF Range
<1> QED
  BY <1>1, <1>2

(* The next step is replaced by others. *)
LEMMA Replaced ==
  ASSUME NEW T, NEW q \in Seq(T), q # <<>>, NEW s \in Seq(T)
  PROVE  /\ s \o Tail(q) \in Seq(T)
         /\ Head(q) = q[1] /\ Head(q) \in T
         /\ Range(q) = {Head(q)} \cup Rest(q)
         /\ Range(s \o Tail(q)) = Range(s) \cup Rest(q)
         /\ Rest(s \o Tail(q)) \subseteq Rest(s) \cup Rest(q)
         /\ Len(s \o Tail(q)) = Len(s) + Len(q) - 1
         /\ Len(q) = 1 => s \o Tail(q) = s
         /\ Len(q) >= 2 => /\ s \o Tail(q) # <<>>
                           /\ (s \o Tail(q))[Len(s \o Tail(q))] = q[Len(q)]
         /\ s # <<>> => (s \o Tail(q))[1] = s[1]
<1> DEFINE r == s \o Tail(q)
           m == Len(s)
           n == Len(q)
<1>1. m \in Nat /\ n \in Nat /\ n >= 1 /\ Tail(q) \in Seq(T) /\ Len(Tail(q)) = n - 1
      /\ \A k \in 1..(n - 1) : Tail(q)[k] = q[k + 1]
  OBVIOUS
<1>2. /\ r \in Seq(T) /\ Len(r) = m + n - 1
      /\ \A k \in 1..m : r[k] = s[k]
      /\ \A k \in (m + 1)..(m + n - 1) : r[k] = q[k - m + 1]
  <2>1. r \in Seq(T) /\ Len(r) = m + n - 1
    BY <1>1
  <2>2. \A k \in 1..m : r[k] = s[k]
    BY <1>1
  <2>3. ASSUME NEW k \in (m + 1)..(m + n - 1)
        PROVE  r[k] = q[k - m + 1]
    <3>1. r[k] = Tail(q)[k - m]
      BY <1>1
    <3>2. k - m \in 1..(n - 1) /\ (k - m) + 1 = k - m + 1
      BY <1>1
    <3> QED
      BY <1>1, <3>1, <3>2
  <2> QED
    BY <2>1, <2>2, <2>3
<1>3. Head(q) = q[1] /\ Head(q) \in T
  OBVIOUS
<1> HIDE DEF r, m, n
<1>4. Range(q) = {q[k] : k \in 1..n} /\ Range(r) = {r[k] : k \in 1..Len(r)}
      /\ Range(s) = {s[k] : k \in 1..m}
  <2>1. Range(q) = {q[k] : k \in 1..n}
    BY IndexedRange DEF n
  <2>2. Range(r) = {r[k] : k \in 1..Len(r)}
    BY <1>2, IndexedRange
  <2>3. Range(s) = {s[k] : k \in 1..m}
    BY IndexedRange DEF m
  <2> QED
    BY <2>1, <2>2, <2>3
<1>5. Range(q) = {Head(q)} \cup Rest(q)
  <2>1. Rest(q) = {q[k] : k \in 2..n}
    BY DEF Rest, n
  <2>2. \A k \in 1..n : k = 1 \/ k \in 2..n
    BY <1>1
  <2>3. 1 \in 1..n /\ \A k \in 2..n : k \in 1..n
    BY <1>1
  <2> QED
    BY <1>3, <1>4, <2>1, <2>2, <2>3
<1>6. Range(r) = Range(s) \cup Rest(q)
  <2>1. Rest(q) = {q[k] : k \in 2..n}
    BY DEF Rest, n
  <2>2. Range(r) \subseteq Range(s) \cup Rest(q)
    <3> SUFFICES ASSUME NEW k \in 1..Len(r)
                 PROVE  r[k] \in Range(s) \cup Rest(q)
      BY <1>4
    <3>1. CASE k \in 1..m
      BY <1>2, <1>4, <3>1
    <3>2. CASE k \notin 1..m
      <4>1. k \in (m + 1)..(m + n - 1) /\ k - m + 1 \in 2..n
        BY <1>1, <1>2, <3>2
      <4> QED
        BY <1>2, <2>1, <4>1
    <3> QED
      BY <3>1, <3>2
  <2>3. Range(s) \subseteq Range(r)
    <3>1. \A k \in 1..m : k \in 1..Len(r) /\ r[k] = s[k]
      BY <1>1, <1>2
    <3> QED
      BY <1>4, <3>1
  <2>4. Rest(q) \subseteq Range(r)
    <3> SUFFICES ASSUME NEW k \in 2..n
                 PROVE  q[k] \in Range(r)
      BY <2>1
    <3>1. k + m - 1 \in (m + 1)..(m + n - 1) /\ k + m - 1 \in 1..Len(r) /\ (k + m - 1) - m + 1 = k
      BY <1>1, <1>2
    <3>2. r[k + m - 1] = q[k]
      BY <1>2, <3>1
    <3> QED
      BY <1>4, <3>1, <3>2
  <2> QED
    BY <2>2, <2>3, <2>4
<1>7. Rest(r) \subseteq Rest(s) \cup Rest(q)
  <2>1. Rest(q) = {q[k] : k \in 2..n} /\ Rest(s) = {s[k] : k \in 2..m} /\ Rest(r) = {r[k] : k \in 2..Len(r)}
    BY DEF Rest, n, m
  <2> SUFFICES ASSUME NEW k \in 2..Len(r)
               PROVE  r[k] \in Rest(s) \cup Rest(q)
    BY <2>1
  <2>2. CASE k \in 2..m
    <3>1. k \in 1..m
      BY <1>1, <2>2
    <3> QED
      BY <1>2, <2>1, <2>2, <3>1
  <2>3. CASE k \notin 2..m
    <3>1. k \in (m + 1)..(m + n - 1) /\ k - m + 1 \in 2..n
      BY <1>1, <1>2, <2>3
    <3> QED
      BY <1>2, <2>1, <3>1
  <2> QED
    BY <2>2, <2>3
<1>8. n = 1 => r = s
  <2> SUFFICES ASSUME n = 1
               PROVE  r = s
    OBVIOUS
  <2>1. Len(r) = Len(s) /\ \A k \in 1..Len(s) : r[k] = s[k]
    BY <1>1, <1>2 DEF m
  <2> QED
    BY <1>2, <2>1
<1>9. n >= 2 => r # <<>> /\ r[Len(r)] = q[n]
  <2> SUFFICES ASSUME n >= 2
               PROVE  r # <<>> /\ r[Len(r)] = q[n]
    OBVIOUS
  <2>1. Len(r) \in (m + 1)..(m + n - 1) /\ Len(r) - m + 1 = n /\ Len(r) > 0
    BY <1>1, <1>2
  <2>2. r # <<>>
    BY <2>1
  <2> QED
    BY <1>2, <2>1, <2>2
<1>10. s # <<>> => r[1] = s[1]
  <2>1. s # <<>> => 1 \in 1..m
    BY DEF m
  <2> QED
    BY <1>2, <2>1
<1> QED
  BY <1>2, <1>3, <1>5, <1>6, <1>7, <1>8, <1>9, <1>10 DEF r, m, n

-----------------------------------------------------------------------------
(* The commands that open pages and go to them. *)

LEMMA PopupGrows ==
  ASSUME NEW d, Sound(d), d.session, CanOpen(d)
  PROVE  Grows(d, WithNewPage(d)) /\ WithNewPage(d).session /\ NewPage(d) \in Page
<1> DEFINE n == NewPage(d)
           w == WithNewPage(d)
<1>1. PICK m \in 0..MaxPages : Known(d) = 1..m
  BY DEF Sound
<1>2. /\ n \in Page /\ n \notin Known(d) /\ w \in DriverKind
      /\ \A p \in Page : w.state[p] = IF p = n THEN "open" ELSE d.state[p]
      /\ w.session = d.session /\ w.page = d.page
      /\ w.tab = d.tab /\ Known(w) = 1..(m + 1) /\ m + 1 \in 0..MaxPages
  BY <1>1, NewPageStep DEF Sound
<1> HIDE DEF n, w
<1>3. Sound(w)
  BY <1>2 DEF Sound
<1>4. Grows(d, w) /\ w.session
  BY <1>2, <1>3 DEF Grows, Known
<1> QED
  BY <1>2, <1>4 DEF n, w

LEMMA GoToGrows ==
  ASSUME NEW d, Sound(d), d.session, NEW q \in Open(d)
  PROVE  LET e == [d EXCEPT !.page = q]
         IN Grows(d, e) /\ e.session /\ e.state[e.page] = "open"
<1> DEFINE e == [d EXCEPT !.page = q]
<1>1. q \in Page /\ d.state[q] = "open" /\ q \in 0..MaxPages /\ d \in DriverKind
  BY TabsAssumption DEF Open, Page, Sound
<1>2. e \in DriverKind /\ e.session = d.session /\ e.page = q /\ e.state = d.state /\ e.tab = d.tab
  BY <1>1 DEF DriverKind
<1> HIDE DEF e
<1>3. Open(e) = Open(d) /\ Known(e) = Known(d)
  BY <1>2 DEF Open, Known
<1>4. Sound(e)
  BY <1>1, <1>2, <1>3 DEF Sound
<1>5. Grows(d, e) /\ e.session /\ e.state[e.page] = "open"
  BY <1>1, <1>2, <1>4 DEF Grows
<1> QED
  BY <1>5 DEF e

-----------------------------------------------------------------------------
(* The commands that close, and the pages that go away. *)

(* What a driver is that has the pages of d, of which some are closed.        *)
LEMMA ClosedSound ==
  ASSUME NEW d, Sound(d), NEW e \in DriverKind,
         e.session = d.session, e.page = d.page,
         \A p \in Page : e.state[p] = d.state[p] \/ (d.state[p] = "open" /\ e.state[p] \in {"closed", "gone"})
  PROVE  Sound(e) /\ Open(e) \subseteq Open(d) /\ Known(e) = Known(d)
<1>1. Open(e) \subseteq Open(d) /\ Known(e) = Known(d)
  BY DEF Open, Known
<1> QED
  BY <1>1 DEF Sound

LEMMA ClosePageStep ==
  ASSUME NEW d, Sound(d), d.session \/ CanOpen(d), NEW t
  PROVE  LET c == CreateClient(d)
             e == ClosePage(d, t)
         IN /\ Sound(e) /\ e.session = c.session /\ e.page = c.page /\ Known(e) = Known(c)
            /\ \A p \in Page : /\ p \in Open(e) => p \in Open(c) /\ p \notin PageOf(c, t)
                               /\ p \notin PageOf(c, t) => e.state[p] = c.state[p] /\ e.tab[p] = c.tab[p]
<1> DEFINE c == CreateClient(d)
           e == ClosePage(d, t)
           S == PageOf(c, t)
           states == [p \in Page |-> IF p \in S /\ c.state[p] = "open" THEN "closed" ELSE c.state[p]]
           tabs   == [p \in Page |-> IF p \in S THEN 0 ELSE c.tab[p]]
<1>1. Sound(c) /\ c \in DriverKind
  BY CreateClientGrows DEF Grows, Sound
<1>2. e = [c EXCEPT !.state = [p \in Page |-> IF p \in S /\ @[p] = "open" THEN "closed" ELSE @[p]],
                    !.tab   = [p \in Page |-> IF p \in S THEN 0 ELSE @[p]]]
  BY DEF ClosePage
<1> HIDE DEF c, e, S
<1>3. c.state \in [Page -> {"none", "open", "closed", "gone"}] /\ c.tab \in [Page -> Nat]
  BY <1>1 DEF DriverKind
<1>4. states \in [Page -> {"none", "open", "closed", "gone"}] /\ tabs \in [Page -> Nat]
  BY <1>3
<1>5. e = [[c EXCEPT !.state = states] EXCEPT !.tab = tabs]
  BY <1>1, <1>2 DEF DriverKind
<1>6. /\ \A p \in Page : states[p] = IF p \in S /\ c.state[p] = "open" THEN "closed" ELSE c.state[p]
      /\ \A p \in Page : tabs[p] = IF p \in S THEN 0 ELSE c.tab[p]
  OBVIOUS
<1> HIDE DEF states, tabs
<1>7. e \in DriverKind /\ e.session = c.session /\ e.page = c.page /\ e.state = states /\ e.tab = tabs
  BY <1>1, <1>4, <1>5 DEF DriverKind
<1>8. Sound(e) /\ Open(e) \subseteq Open(c) /\ Known(e) = Known(c)
  <2>1. ASSUME NEW p \in Page
        PROVE  e.state[p] = c.state[p] \/ (c.state[p] = "open" /\ e.state[p] \in {"closed", "gone"})
    <3>1. e.state[p] = IF p \in S /\ c.state[p] = "open" THEN "closed" ELSE c.state[p]
      BY <1>6, <1>7
    <3> QED
      BY <3>1
  <2> QED
    BY <1>1, <1>7, <2>1, ClosedSound
<1>9. \A p \in Page : p \in S /\ p \in Open(e) => FALSE
  BY <1>6, <1>7 DEF Open
<1>10. \A p \in Page : p \notin S => e.state[p] = c.state[p] /\ e.tab[p] = c.tab[p]
  BY <1>6, <1>7
<1> QED
  BY <1>7, <1>8, <1>9, <1>10 DEF c, e, S

LEMMA EndSessionStep ==
  ASSUME NEW d, Sound(d)
  PROVE  LET e == EndSession(d)
         IN Sound(e) /\ ~e.session /\ Open(e) = {} /\ Known(e) = Known(d)
<1> DEFINE e == EndSession(d)
           states == [p \in Page |-> IF d.state[p] = "open" THEN "closed" ELSE d.state[p]]
<1>1. d \in DriverKind /\ d.state \in [Page -> {"none", "open", "closed", "gone"}]
  BY DEF Sound, DriverKind
<1>2. states \in [Page -> {"none", "open", "closed", "gone"}]
  BY <1>1
<1>3. e = [WithPage(d, FALSE, 0) EXCEPT !.state = states]
  BY <1>1 DEF EndSession, WithPage, DriverKind
<1>4. \A p \in Page : states[p] = IF d.state[p] = "open" THEN "closed" ELSE d.state[p]
  OBVIOUS
<1>5. WithPage(d, FALSE, 0) \in DriverKind /\ WithPage(d, FALSE, 0).session = FALSE
  <2>1. 0 \in 0..MaxPages
    BY TabsAssumption
  <2> QED
    BY <1>1, <2>1, DriverSession
<1> HIDE DEF e, states
<1>6. e \in DriverKind /\ e.session = FALSE /\ e.state = states
  BY <1>2, <1>3, <1>5 DEF DriverKind
<1>7. Open(e) = {} /\ Known(e) = Known(d)
  BY <1>4, <1>6 DEF Open, Known
<1>8. Sound(e)
  BY <1>6, <1>7 DEF Sound
<1> QED
  BY <1>6, <1>7, <1>8 DEF e

LEMMA GoneStep ==
  ASSUME NEW d, Sound(d), NEW p \in Open(d)
  PROVE  LET e == [d EXCEPT !.state[p] = "gone"]
         IN /\ Sound(e) /\ e.session = d.session /\ e.page = d.page /\ e.tab = d.tab
            /\ Known(e) = Known(d) /\ p \in Page /\ Open(e) \subseteq Open(d) /\ e.state[p] = "gone"
            /\ \A q \in Page \ {p} : e.state[q] = d.state[q]
<1> DEFINE e == [d EXCEPT !.state[p] = "gone"]
<1>1. d \in DriverKind /\ p \in Page /\ d.state[p] = "open"
  BY DEF Sound, Open
<1>2. /\ e \in DriverKind /\ e.session = d.session /\ e.page = d.page /\ e.tab = d.tab
      /\ e.state[p] = "gone" /\ \A q \in Page \ {p} : e.state[q] = d.state[q]
  BY <1>1 DEF DriverKind
<1> HIDE DEF e
<1>3. Sound(e) /\ Open(e) \subseteq Open(d) /\ Known(e) = Known(d)
  <2>1. ASSUME NEW q \in Page
        PROVE  e.state[q] = d.state[q] \/ (d.state[q] = "open" /\ e.state[q] \in {"closed", "gone"})
    <3>1. q = p => d.state[q] = "open" /\ e.state[q] = "gone"
      BY <1>1, <1>2
    <3>2. q # p => e.state[q] = d.state[q]
      BY <1>2
    <3> QED
      BY <3>1, <3>2
  <2> QED
    BY <1>2, <2>1, ClosedSound
<1> QED
  BY <1>1, <1>2, <1>3 DEF e

-----------------------------------------------------------------------------
(* The inductive invariant. *)

Closers  == {"closeBrowserWindow", "closeTab", "close"}
Electors == {"elect", "setMain", "end"}
Noisy    == Closers \cup Electors \cup {"closeAllOtherTabs", "closeOthers"}

(* The methods that close the current tab, which may be the main tab.         *)
OfCurrent == {"closeCurrentTab", "closeFirstSiblingTab"}

HasTab == Closers \cup {"closeOf", "window", "switchTab", "setMain", "toFront",
                       "switchToMain", "switchToSibling"}

StepKind == [do : Steps, tabs : Seq(Nat)]
TabOf(s) == Head(s.tabs)

(* Which steps method m has to do, *)
Lawful(s, m) ==
  /\ s.do \in HasTab => s.tabs # <<>>
  /\ s.do \in {"closeCurrentTab", "closeOf", "elect", "setMain"} => m \in OfCurrent
  /\ s.do = "closeFirstSiblingTab" => m = "closeFirstSiblingTab"
  /\ s.do = "end" => m \in OfCurrent \cup {"end"}
  /\ s.do \in {"closeAllOtherTabs", "closeOthers"} => m = "closeAllOtherTabs"
  /\ s.do \in Closers => m \in OfCurrent \cup {"closeBrowserWindow", "closeAllOtherTabs"}
  /\ s.do = "closeOf" => TabOf(s) # 0
  /\ s.do = "closeOthers" => 0 \notin Range(s.tabs)

(* and which of them not at once.                                            *)
LawfulLater(s, m) ==
  /\ s.do \notin {"closeAllOtherTabs", "closeOthers"}
  /\ s.do \in Closers => m = "closeAllOtherTabs"
  /\ s.do = "end" => m \in OfCurrent

Base ==
  /\ Sound(driver) /\ mainTabID \in Nat /\ atCall \subseteq Known(driver)
  /\ failed \in BOOLEAN /\ astray \in BOOLEAN
  /\ todo \in Seq(StepKind)
  /\ \A s \in Range(todo) : Lawful(s, method)
  /\ \A s \in Rest(todo) : LawfulLater(s, method)

(* The main tab is open, or would be found so if it were asked for.           *)
AtHome(d, m) ==
  IF m = 0 THEN d.session => d.state[d.page] = "open"
  ELSE d.session /\ \E p \in Page : d.tab[p] = m /\ d.state[p] = "open"

(* A method is about to elect a main tab, or to end the session.              *)
Electing == \E s \in Range(todo) : s.do \in Electors

Home == ~astray /\ ~Electing /\ ~(mainTabID = 0 /\ At("close")) => AtHome(driver, mainTabID)

(* Nothing but a test closes the main tab.                                   *)
ClosersApart ==
  ~astray /\ ~Electing /\ method # "closeBrowserWindow" =>
    \A s \in Range(todo) : s.do \in Closers => mainTabID # 0 /\ TabOf(s) \notin {0, mainTabID}

(* What closeAllOtherTabs has not yet closed it is going to close.            *)
Others ==
  method = "closeAllOtherTabs" /\ ~astray /\ ~failed /\ ~At("closeAllOtherTabs") =>
    IF At("closeOthers")
    THEN \A p \in Open(driver) \cap atCall : driver.tab[p] \in Range(Head(todo).tabs)
    ELSE /\ mainTabID # 0
         /\ \A p \in Open(driver) \cap atCall :
              \/ driver.tab[p] = mainTabID
              \/ \E s \in Range(todo) : s.do \in Closers /\ TabOf(s) = driver.tab[p]

TabsInv == Base /\ Home /\ ClosersApart /\ Others

(* A command that neither closes nor ends anything is answered.              *)
Kept ==
  /\ Grows(driver, driver')
  /\ mainTabID' \in Nat /\ (mainTabID # 0 => mainTabID' = mainTabID)
  /\ AtHome(driver, mainTabID) => AtHome(driver', mainTabID')
  /\ UNCHANGED <<method, atCall, failed, astray>>

LEMMA GrowsHome ==
  ASSUME NEW d, Sound(d), NEW e, Grows(d, e), NEW m, AtHome(d, m)
  PROVE  AtHome(e, m)
<1>1. \A p \in Page : d.state[p] = "open" => e.state[p] = "open"
  BY DEF Grows
<1>2. e.session => e.page \in Page
  BY DEF Grows, Sound
<1>3. CASE m = 0
  BY <1>1, <1>2, <1>3 DEF AtHome, Grows
<1>4. CASE m # 0
  BY <1>1, <1>4 DEF AtHome, Grows
<1> QED
  BY <1>3, <1>4

LEMMA GrowsKnown ==
  ASSUME NEW d, NEW e, Grows(d, e)
  PROVE  Known(d) \subseteq Known(e)
BY DEF Grows, Known

LEMMA CommandKept ==
  ASSUME Base, NEW d, Grows(driver, d), Command(d)
  PROVE  Kept /\ mainTabID' = mainTabID /\ driver' = d
<1>1. driver' = d /\ mainTabID' = mainTabID /\ UNCHANGED <<method, atCall, failed, astray>>
  BY DEF Command, Completes
<1>2. AtHome(driver, mainTabID) => AtHome(driver', mainTabID')
  BY <1>1, GrowsHome DEF Base
<1> QED
  BY <1>1, <1>2 DEF Kept, Base

(* The main tab is asked for when it is not known.                           *)
LEMMA InitMainKept ==
  ASSUME Base, InitMain
  PROVE  Kept /\ mainTabID' # 0
<1>1. (driver.session \/ CanOpen(driver)) /\ driver' = WithMain(driver)
      /\ mainTabID' = MainOf(driver') /\ UNCHANGED <<method, atCall, failed, astray>>
  BY DEF InitMain, Completes
<1>2. CASE mainTabID # 0
  <2>1. driver' = driver /\ mainTabID' = mainTabID
    BY <1>1, <1>2 DEF WithMain, MainOf
  <2>2. Grows(driver, driver')
    BY <2>1 DEF Grows, Base
  <2> QED
    BY <1>1, <1>2, <2>1, <2>2 DEF Kept, Base
<1>3. CASE mainTabID = 0
  <2> DEFINE e == NameCurrent(driver)
  <2>1. driver' = e /\ mainTabID' = Current(e)
    BY <1>1, <1>3 DEF WithMain, MainOf
  <2>2. Grows(driver, e) /\ e.session /\ Current(e) \in Nat \ {0}
    BY <1>1, NameCurrentGrows DEF Base
  <2> HIDE DEF e
  <2>3. AtHome(driver, mainTabID) => AtHome(e, Current(e))
    <3> SUFFICES ASSUME AtHome(driver, 0)
                 PROVE  AtHome(e, Current(e))
      BY <1>3
    <3>1. AtHome(e, 0)
      BY <2>2, GrowsHome DEF Base
    <3>2. e.page \in Page /\ e.state[e.page] = "open" /\ e.tab[e.page] = Current(e)
      BY <2>2, <3>1 DEF AtHome, Grows, Sound, Current
    <3> QED
      BY <2>2, <3>2 DEF AtHome
  <2> QED
    BY <1>1, <1>3, <2>1, <2>2, <2>3 DEF Kept
<1> QED
  BY <1>2, <1>3

(* The next step is replaced by steps the method may have.                   *)
LEMMA StepsFollow ==
  ASSUME Base, todo # <<>>, NEW steps \in Seq(StepKind), Then(steps)
  PROVE  /\ todo' \in Seq(StepKind)
         /\ Head(todo) \in Range(todo) /\ Head(todo) \in StepKind
         /\ Rest(todo) \subseteq Range(todo)
         /\ Range(todo) = {Head(todo)} \cup Rest(todo)
         /\ Range(todo') = Range(steps) \cup Rest(todo)
         /\ Rest(todo') \subseteq Rest(steps) \cup Rest(todo)
         /\ Lawful(Head(todo), method)
<1>1. todo \in Seq(StepKind) /\ todo' = steps \o Tail(todo)
  BY DEF Base, Then
<1>2. /\ steps \o Tail(todo) \in Seq(StepKind)
      /\ Head(todo) \in StepKind
      /\ Range(todo) = {Head(todo)} \cup Rest(todo)
      /\ Range(steps \o Tail(todo)) = Range(steps) \cup Rest(todo)
      /\ Rest(steps \o Tail(todo)) \subseteq Rest(steps) \cup Rest(todo)
  BY <1>1, Replaced
<1>3. Head(todo) \in Range(todo)
  BY <1>2
<1> QED
  BY <1>1, <1>2, <1>3 DEF Base

LEMMA BaseThen ==
  ASSUME Base, todo # <<>>, NEW steps \in Seq(StepKind), Then(steps),
         \A s \in Range(steps) : Lawful(s, method),
         \A s \in Rest(steps) : LawfulLater(s, method),
         Sound(driver'), Known(driver) \subseteq Known(driver'), mainTabID' \in Nat,
         UNCHANGED <<method, atCall>>, failed' \in BOOLEAN, astray' \in BOOLEAN
  PROVE  Base'
<1>1. /\ todo' \in Seq(StepKind)
      /\ Rest(todo) \subseteq Range(todo)
      /\ Range(todo') = Range(steps) \cup Rest(todo)
      /\ Rest(todo') \subseteq Rest(steps) \cup Rest(todo)
  BY StepsFollow
<1>2. \A s \in Range(todo') : Lawful(s, method)
  BY <1>1 DEF Base
<1>3. \A s \in Rest(todo') : LawfulLater(s, method)
  BY <1>1 DEF Base
<1>4. atCall' \subseteq Known(driver')
  BY DEF Base
<1>5. (\A s \in Range(todo') : Lawful(s, method')) /\ \A s \in Rest(todo') : LawfulLater(s, method')
  BY <1>2, <1>3
<1> QED
  BY <1>1, <1>4, <1>5 DEF Base

(* What the pages there were at the call have become.                        *)
LEMMA OthersKept ==
  ASSUME NEW d, Sound(d), NEW e, Grows(d, e), NEW p \in Open(e), p \in Known(d)
  PROVE  p \in Open(d) /\ (d.tab[p] # 0 => e.tab[p] = d.tab[p])
BY DEF Grows, Known, Open

(* The commands that do nothing about the closing of tabs.                   *)
LEMMA QuietStep ==
  ASSUME TabsInv, todo # <<>>, NEW steps \in Seq(StepKind), Then(steps), Kept,
         Head(todo).do \notin Noisy,
         \A s \in Range(steps) : s.do \notin Noisy /\ Lawful(s, method)
  PROVE  TabsInv'
<1>1. /\ todo' \in Seq(StepKind)
      /\ Head(todo) \in Range(todo) /\ Head(todo) \in StepKind
      /\ Rest(todo) \subseteq Range(todo)
      /\ Range(todo) = {Head(todo)} \cup Rest(todo)
      /\ Range(todo') = Range(steps) \cup Rest(todo)
      /\ Rest(todo') \subseteq Rest(steps) \cup Rest(todo)
  BY StepsFollow DEF TabsInv
<1>2. Base'
  <2>1. Rest(steps) \subseteq Range(steps)
    BY IndexedRange DEF Rest
  <2>2. \A s \in Rest(steps) : LawfulLater(s, method)
    BY <2>1 DEF LawfulLater, Noisy, Electors
  <2> QED
    BY <2>2, BaseThen, GrowsKnown DEF TabsInv, Kept, Grows, Base
<1>3. \A s : s.do \in Noisy => (s \in Range(todo') <=> s \in Range(todo))
  BY <1>1
<1>4. Electing' <=> Electing
  BY <1>3 DEF Electing, Noisy
<1>5. ~At("close") /\ ~At("closeAllOtherTabs") /\ ~At("closeOthers")
  BY DEF At, Noisy, Closers
<1>6. ~(At("closeAllOtherTabs"))' /\ ~(At("closeOthers"))'
  <2>1. \A s \in Range(todo') : s.do \notin {"closeAllOtherTabs", "closeOthers"}
    BY <1>1 DEF TabsInv, Base, LawfulLater, Noisy
  <2>2. todo' # <<>> => Head(todo') \in Range(todo')
    BY <1>1, Replaced DEF Base
  <2> QED
    BY <2>1, <2>2 DEF At
<1>7. Home'
  <2>1. Home => (~astray /\ ~Electing => AtHome(driver, mainTabID))
    BY <1>5 DEF Home
  <2> QED
    BY <1>4, <2>1 DEF Home, TabsInv, Kept
<1>8. ClosersApart'
  BY <1>3, <1>4 DEF ClosersApart, TabsInv, Kept, Noisy
<1>9. Others'
  <2> SUFFICES ASSUME method = "closeAllOtherTabs", ~astray, ~failed
               PROVE  /\ mainTabID' # 0
                      /\ \A p \in Open(driver') \cap atCall :
                           \/ driver'.tab[p] = mainTabID'
                           \/ \E s \in Range(todo') : s.do \in Closers /\ TabOf(s) = driver'.tab[p]
    BY <1>6 DEF Others, Kept
  <2>1. /\ mainTabID # 0
        /\ \A p \in Open(driver) \cap atCall :
             \/ driver.tab[p] = mainTabID
             \/ \E s \in Range(todo) : s.do \in Closers /\ TabOf(s) = driver.tab[p]
    BY <1>5 DEF Others, TabsInv
  <2>2. mainTabID' = mainTabID
    BY <2>1 DEF Kept
  <2>3. \A s \in Range(todo) : s.do \in Closers => TabOf(s) # 0
    <3>1. ~Electing
      BY DEF Electing, Electors, TabsInv, Base, Lawful, OfCurrent
    <3> QED
      BY <3>1 DEF ClosersApart, TabsInv
  <2>4. ASSUME NEW p \in Open(driver') \cap atCall
        PROVE  \/ driver'.tab[p] = mainTabID'
               \/ \E s \in Range(todo') : s.do \in Closers /\ TabOf(s) = driver'.tab[p]
    <3>1. p \in Open(driver) \cap atCall /\ (driver.tab[p] # 0 => driver'.tab[p] = driver.tab[p])
      BY OthersKept DEF TabsInv, Base, Kept
    <3>2. CASE driver.tab[p] = mainTabID
      BY <2>1, <2>2, <3>1, <3>2
    <3>3. CASE driver.tab[p] # mainTabID
      <4>1. PICK s \in Range(todo) : s.do \in Closers /\ TabOf(s) = driver.tab[p]
        BY <2>1, <3>1, <3>3
      <4>2. s \in Range(todo') /\ driver'.tab[p] = TabOf(s)
        BY <1>3, <2>3, <3>1, <4>1 DEF Noisy
      <4> QED
        BY <4>1, <4>2
    <3> QED
      BY <3>2, <3>3
  <2> QED
    BY <2>1, <2>2, <2>4
<1> QED
  BY <1>2, <1>7, <1>8, <1>9 DEF TabsInv

-----------------------------------------------------------------------------
(* The steps that actions put in front. *)

LEMMA StepMade ==
  ASSUME NEW s \in Steps, NEW t \in Nat
  PROVE  /\ Do(s, t) \in StepKind /\ Do(s, t).do = s /\ TabOf(Do(s, t)) = t /\ Do(s, t).tabs # <<>>
         /\ Just(s) \in StepKind /\ Just(s).do = s
BY DEF Do, Just, StepKind, TabOf

LEMMA NoSteps == <<>> \in Seq(StepKind) /\ Range(<<>>) = {} /\ Rest(<<>>) = {}
<1>1. <<>> \in Seq(StepKind) /\ Len(<<>>) = 0
  OBVIOUS
<1>2. Range(<<>>) = {<<>>[k] : k \in 1..0}
  BY <1>1, IndexedRange
<1>3. Rest(<<>>) = {<<>>[k] : k \in 2..0}
  BY <1>1 DEF Rest
<1> QED
  BY <1>1, <1>2, <1>3

LEMMA OneStep ==
  ASSUME NEW s \in StepKind
  PROVE  <<s>> \in Seq(StepKind) /\ Range(<<s>>) = {s} /\ Rest(<<s>>) = {}
<1>1. <<s>> \in Seq(StepKind) /\ Len(<<s>>) = 1 /\ <<s>>[1] = s
  OBVIOUS
<1>2. Range(<<s>>) = {<<s>>[k] : k \in 1..1}
  BY <1>1, IndexedRange
<1>3. Rest(<<s>>) = {<<s>>[k] : k \in 2..1}
  BY <1>1 DEF Rest
<1> QED
  BY <1>1, <1>2, <1>3

LEMMA TwoSteps ==
  ASSUME NEW s \in StepKind, NEW t \in StepKind
  PROVE  <<s, t>> \in Seq(StepKind) /\ Range(<<s, t>>) = {s, t} /\ Rest(<<s, t>>) = {t}
<1>1. <<s, t>> \in Seq(StepKind) /\ Len(<<s, t>>) = 2 /\ <<s, t>>[1] = s /\ <<s, t>>[2] = t
  OBVIOUS
<1>2. Range(<<s, t>>) = {<<s, t>>[k] : k \in 1..2}
  BY <1>1, IndexedRange
<1>3. Rest(<<s, t>>) = {<<s, t>>[k] : k \in 2..2}
  BY <1>1 DEF Rest
<1>4. 1..2 = {1, 2} /\ 2..2 = {2}
  OBVIOUS
<1> QED
  BY <1>1, <1>2, <1>3, <1>4

LEMMA ThreeSteps ==
  ASSUME NEW s \in StepKind, NEW t \in StepKind, NEW u \in StepKind
  PROVE  <<s, t, u>> \in Seq(StepKind) /\ Range(<<s, t, u>>) = {s, t, u}
<1>1. /\ <<s, t, u>> \in Seq(StepKind) /\ Len(<<s, t, u>>) = 3
      /\ <<s, t, u>>[1] = s /\ <<s, t, u>>[2] = t /\ <<s, t, u>>[3] = u
  OBVIOUS
<1>2. Range(<<s, t, u>>) = {<<s, t, u>>[k] : k \in 1..3}
  BY <1>1, IndexedRange
<1>3. 1..3 = {1, 2, 3}
  OBVIOUS
<1> QED
  BY <1>1, <1>2, <1>3

(* The step at hand.                                                         *)
LEMMA HeadStep ==
  ASSUME Base, NEW s, At(s)
  PROVE  /\ todo # <<>> /\ Head(todo) \in StepKind /\ Head(todo).do = s
         /\ Lawful(Head(todo), method) /\ Head(todo) \in Range(todo)
         /\ Arg = TabOf(Head(todo))
         /\ s \in HasTab => Arg \in Nat
<1>1. todo # <<>> /\ Head(todo).do = s /\ todo \in Seq(StepKind)
  BY DEF At, Base
<1>2. Head(todo) \in Range(todo) /\ Head(todo) \in StepKind
  BY <1>1, Replaced, NoSteps
<1>3. Lawful(Head(todo), method)
  BY <1>2 DEF Base
<1>4. s \in HasTab => Head(todo).tabs # <<>> /\ Head(todo).tabs \in Seq(Nat)
  BY <1>1, <1>2, <1>3 DEF Lawful, StepKind
<1> QED
  BY <1>1, <1>2, <1>3, <1>4 DEF Arg, TabOf

(* What the commands that answer a question leave.                           *)
LEMMA QuestionsAnswered ==
  ASSUME Base, driver.session \/ CanOpen(driver)
  PROVE  /\ Grows(driver, CreateClient(driver)) /\ CreateClient(driver).session
         /\ Grows(driver, NameCurrent(driver)) /\ Current(NameCurrent(driver)) \in Nat \ {0}
         /\ Grows(driver, NameAll(driver)) /\ NameAll(driver).session
         /\ \A p \in Open(NameAll(driver)) : NameAll(driver).tab[p] # 0
         /\ TabIds(NameAll(driver)) \in Seq(Nat)
         /\ Range(TabIds(NameAll(driver))) = {NameAll(driver).tab[p] : p \in Open(NameAll(driver))}
         /\ TabIds(NameAll(driver)) = <<>> <=> Open(NameAll(driver)) = {}
<1>1. Sound(driver)
  BY DEF Base
<1>2. Grows(driver, NameAll(driver)) /\ Sound(NameAll(driver))
  BY <1>1, NameAllGrows DEF Grows
<1> QED
  BY <1>1, <1>2, CreateClientGrows, NameCurrentGrows, NameAllGrows, TabIdsOfOpen

-----------------------------------------------------------------------------
(* The invariant is kept: the methods that close nothing. *)

LEMMA QuietReply ==
  ASSUME TabsInv, NEW s, At(s), s \notin Noisy, Kept, Then(<<>>)
  PROVE  TabsInv'
<1>1. todo # <<>> /\ Head(todo).do \notin Noisy
  BY DEF At
<1> QED
  BY <1>1, NoSteps, QuietStep

LEMMA QuietOne ==
  ASSUME TabsInv, NEW s, At(s), s \notin Noisy, Kept, NEW t \in StepKind, Then(<<t>>),
         t.do \notin Noisy, Lawful(t, method)
  PROVE  TabsInv'
<1>1. todo # <<>> /\ Head(todo).do \notin Noisy
  BY DEF At
<1>2. <<t>> \in Seq(StepKind) /\ Range(<<t>>) = {t}
  BY OneStep
<1> QED
  BY <1>1, <1>2, QuietStep

LEMMA QuietGo ==
  ASSUME TabsInv, NEW s, At(s), s \notin Noisy, Kept,
         NEW x \in {"switchTab", "toFront", "window", "switchToSibling", "switchToMain"},
         NEW t \in Nat, Then(<<Do(x, t)>>)
  PROVE  TabsInv'
<1>1. x \in Steps /\ x \notin Noisy
  BY DEF Steps, TabCalls, Noisy, Closers, Electors
<1>2. Do(x, t) \in StepKind /\ Do(x, t).do = x /\ Do(x, t).tabs # <<>>
  BY <1>1, StepMade
<1>3. Lawful(Do(x, t), method)
  BY <1>2 DEF Lawful, Closers
<1> QED
  BY <1>1, <1>2, <1>3, QuietOne

LEMMA QuietNames ==
  /\ {"getCurrentTabId", "getTabIds", "open", "window", "switchTab", "newWindow", "toFront",
      "closeCurrentTab", "closeOf", "closeFirstSiblingTab", "switchToFirstSiblingTab",
      "switchToSibling", "switchToMainSiblingTab", "switchToMain"} \cap Noisy = {}
  /\ {"switchTab", "window", "toFront", "switchToSibling", "switchToMain", "closeTab", "close",
      "closeOf", "closeBrowserWindow", "setMain"} \subseteq HasTab
BY DEF Noisy, Closers, Electors, HasTab

LEMMA CommandAnswered ==
  ASSUME NEW d, Completes(d)
  PROVE  (driver.session \/ CanOpen(driver)) /\ driver' = d
BY DEF Completes

LEMMA AskSteps ==
  ASSUME TabsInv, GetCurrentTabId \/ GetTabIds \/ OpenPage
  PROVE  TabsInv'
<1>1. CASE GetCurrentTabId
  <2>1. Kept
    BY <1>1, QuestionsAnswered, CommandKept, CommandAnswered DEF GetCurrentTabId, Command, TabsInv
  <2> QED
    BY <1>1, <2>1, QuietReply, QuietNames DEF GetCurrentTabId
<1>2. CASE GetTabIds
  <2>1. Kept
    BY <1>2, QuestionsAnswered, CommandKept, CommandAnswered DEF GetTabIds, Command, TabsInv
  <2> QED
    BY <1>2, <2>1, QuietReply, QuietNames DEF GetTabIds
<1>3. CASE OpenPage
  <2>1. Kept
    BY <1>3, QuestionsAnswered, CommandKept, CommandAnswered DEF OpenPage, Command, TabsInv
  <2> QED
    BY <1>3, <2>1, QuietReply, QuietNames DEF OpenPage
<1> QED
  BY <1>1, <1>2, <1>3

LEMMA WindowStep ==
  ASSUME TabsInv, Window
  PROVE  TabsInv'
<1>1. Base /\ At("window") /\ Then(<<Do("switchTab", Arg)>>)
  BY DEF Window, TabsInv
<1>2. Arg \in Nat /\ "window" \notin Noisy
  BY <1>1, HeadStep, QuietNames
<1>3. Kept
  BY <1>1, InitMainKept DEF Window
<1> QED
  BY <1>1, <1>2, <1>3, QuietGo

(* A page that is opened and named.                                          *)
LEMMA NewTabGrows ==
  ASSUME NEW c, Sound(c), c.session, CanOpen(c)
  PROVE  Grows(c, Named(WithNewPage(c), NewPage(c))) /\ NewPage(c) \in Page
<1> DEFINE w == WithNewPage(c)
           n == NewPage(c)
<1>1. Grows(c, w) /\ w.session /\ n \in Page
  BY PopupGrows
<1> HIDE DEF w, n
<1>2. Sound(w)
  BY <1>1 DEF Grows
<1>3. Grows(w, Named(w, n))
  BY <1>1, <1>2, NamedGrows
<1>4. Grows(c, Named(w, n)) /\ n \in Page
  BY <1>1, <1>3, GrowsTrans
<1> QED
  BY <1>4 DEF w, n

LEMMA NewWindowStep ==
  ASSUME TabsInv, NewWindow
  PROVE  TabsInv'
<1> DEFINE c == CreateClient(driver)
<1>0. Base /\ At("newWindow") /\ "newWindow" \notin Noisy /\ Page \subseteq Nat
  BY QuietNames DEF NewWindow, TabsInv, Page
<1>1. driver.session \/ CanOpen(driver)
  BY DEF NewWindow, Command, Completes
<1>2. Grows(driver, c) /\ Sound(c) /\ c.session
  BY <1>0, <1>1, QuestionsAnswered DEF Grows
<1>3. CASE \E p \in Open(c) : Command(c) /\ Then(<<Do("toFront", p)>>)
  <2>1. PICK p \in Open(c) : Command(c) /\ Then(<<Do("toFront", p)>>)
    BY <1>3
  <2>2. p \in Nat
    BY <1>0 DEF Open
  <2>3. Kept
    <3> HIDE DEF c
    <3> QED
      BY <1>0, <1>2, <2>1, CommandKept
  <2> QED
    BY <1>0, <2>1, <2>2, <2>3, QuietGo
<1>4. CASE /\ CanOpen(c)
           /\ Command(Named(WithNewPage(c), NewPage(c)))
           /\ Then(<<Do("toFront", NewPage(c))>>)
  <2> HIDE DEF c
  <2>1. Grows(c, Named(WithNewPage(c), NewPage(c))) /\ NewPage(c) \in Page
    BY <1>2, <1>4, NewTabGrows
  <2>2. Grows(driver, Named(WithNewPage(c), NewPage(c)))
    BY <1>0, <1>2, <2>1, GrowsTrans DEF Base
  <2>3. Kept
    BY <1>0, <1>4, <2>2, CommandKept
  <2> QED
    BY <1>0, <1>4, <2>1, <2>3, QuietGo
<1> QED
  BY <1>3, <1>4 DEF NewWindow

LEMMA GoToStep ==
  ASSUME TabsInv, NEW s \in {"switchTab", "toFront"}, At(s), NEW c, Grows(driver, c), c.session,
         NEW q \in Open(c), Command([c EXCEPT !.page = q]), Then(<<>>)
  PROVE  TabsInv'
<1> DEFINE e == [c EXCEPT !.page = q]
<1>1. Sound(c) /\ Base
  BY DEF Grows, TabsInv
<1>2. Grows(c, e)
  BY <1>1, GoToGrows
<1> HIDE DEF e
<1>3. Grows(driver, e)
  BY <1>1, <1>2, GrowsTrans DEF Base
<1>4. Command(e)
  BY DEF e
<1>5. Kept
  BY <1>1, <1>3, <1>4, CommandKept
<1> QED
  BY <1>5, QuietReply, QuietNames

LEMMA RefusedStep ==
  ASSUME TabsInv, NEW s \in {"switchTab", "toFront"}, At(s), Refused
  PROVE  TabsInv'
<1>1. /\ failed' = TRUE /\ todo' = <<>>
      /\ astray' = (astray \/ method \in OfCurrent)
      /\ UNCHANGED <<driver, mainTabID, method, calls, atCall>>
  BY DEF Refused, OfCurrent
<1>2. Base /\ todo # <<>> /\ Head(todo).do = s /\ Range(todo) = {Head(todo)} \cup Rest(todo)
  BY Replaced, NoSteps DEF TabsInv, Base, At
<1>3. Range(todo') = {} /\ Rest(todo') = {} /\ todo' \in Seq(StepKind)
  BY <1>1, NoSteps
<1>4. Base'
  <2>1. Sound(driver') /\ mainTabID' \in Nat /\ atCall' \subseteq Known(driver')
        /\ failed' \in BOOLEAN /\ astray' \in BOOLEAN
    BY <1>1, <1>2 DEF Base
  <2> QED
    BY <1>3, <2>1 DEF Base
<1>5. Home'
  <2> SUFFICES ASSUME ~astray'
               PROVE  AtHome(driver, mainTabID)
    BY <1>1 DEF Home
  <2>1. ~astray /\ method \notin OfCurrent
    BY <1>1, <1>2 DEF Base
  <2>2. ASSUME NEW t \in Range(todo), t.do \in Electors
        PROVE  FALSE
    <3>1. Lawful(t, method)
      BY <1>2 DEF Base
    <3>2. t.do = "end" /\ method = "end"
      BY <2>1, <2>2, <3>1 DEF Lawful, Electors, OfCurrent
    <3>3. t \in Rest(todo)
      BY <1>2, <3>2
    <3> QED
      BY <1>2, <2>1, <3>2, <3>3 DEF Base, LawfulLater
  <2>3. ~Electing /\ ~At("close")
    BY <1>2, <2>2 DEF Electing, At
  <2> QED
    BY <2>1, <2>3 DEF Home, TabsInv
<1>6. ClosersApart'
  BY <1>3 DEF ClosersApart
<1>7. Others'
  BY <1>1 DEF Others
<1> QED
  BY <1>4, <1>5, <1>6, <1>7 DEF TabsInv

LEMMA SwitchTabStep ==
  ASSUME TabsInv, SwitchTab
  PROVE  TabsInv'
<1> DEFINE c == CreateClient(driver)
           S == PageOf(c, Arg) \cap Open(c)
<1>1. Base /\ At("switchTab")
  BY DEF SwitchTab, TabsInv
<1>2. CASE Refused
  BY <1>1, <1>2, RefusedStep
<1>3. CASE (\E q \in S : Command([c EXCEPT !.page = q])) /\ Then(<<>>)
  <2>1. PICK q \in S : Command([c EXCEPT !.page = q])
    BY <1>3
  <2>2. driver.session \/ CanOpen(driver)
    BY <2>1 DEF Command, Completes
  <2>3. Grows(driver, c) /\ c.session
    BY <1>1, <2>2, QuestionsAnswered
  <2>4. q \in Open(c) /\ Then(<<>>)
    BY <1>3, <2>1
  <2> HIDE DEF c, S
  <2> QED
    BY <1>1, <2>1, <2>3, <2>4, GoToStep
<1> QED
  BY <1>2, <1>3 DEF SwitchTab

LEMMA ToFrontStep ==
  ASSUME TabsInv, ToFront
  PROVE  TabsInv'
<1>1. Base /\ At("toFront")
  BY DEF ToFront, TabsInv
<1>2. CASE Refused
  BY <1>1, <1>2, RefusedStep
<1>3. CASE Arg \in Open(driver) /\ Command([driver EXCEPT !.page = Arg]) /\ Then(<<>>)
  <2>1. Sound(driver) /\ driver.session
    BY <1>1, <1>3 DEF Base, Sound
  <2>2. Grows(driver, driver)
    BY <2>1 DEF Grows
  <2> QED
    BY <1>1, <1>3, <2>1, <2>2, GoToStep
<1> QED
  BY <1>2, <1>3 DEF ToFront

LEMMA CloseCurrentTabStep ==
  ASSUME TabsInv, CloseCurrentTab
  PROVE  TabsInv'
<1> DEFINE t == Current(driver')
           x == Do("closeOf", t)
<1>1. Base /\ At("closeCurrentTab") /\ Command(NameCurrent(driver)) /\ Then(<<x>>)
  BY DEF CloseCurrentTab, TabsInv
<1>2. driver.session \/ CanOpen(driver)
  BY <1>1 DEF Command, Completes
<1>3. Kept /\ driver' = NameCurrent(driver)
  BY <1>1, <1>2, QuestionsAnswered, CommandKept
<1>4. t \in Nat \ {0}
  BY <1>1, <1>2, <1>3, QuestionsAnswered
<1>5. method \in OfCurrent /\ "closeOf" \in Steps
  BY <1>1, HeadStep DEF Lawful, Steps
<1> HIDE DEF t
<1>6. x \in StepKind /\ x.do = "closeOf" /\ TabOf(x) = t /\ x.tabs # <<>>
  BY <1>4, <1>5, StepMade
<1> HIDE DEF x
<1>7. Lawful(x, method)
  BY <1>4, <1>5, <1>6 DEF Lawful, Closers
<1> QED
  BY <1>1, <1>3, <1>6, <1>7, QuietNames, QuietOne

LEMMA CloseFirstSiblingTabStep ==
  ASSUME TabsInv, CloseFirstSiblingTab
  PROVE  TabsInv'
<1> DEFINE x == Just("switchToFirstSiblingTab")
           y == Just("closeCurrentTab")
           z == Just("switchToMainSiblingTab")
<1>1. Base /\ At("closeFirstSiblingTab") /\ Then(<<x, y, z>>)
      /\ UNCHANGED <<driver, mainTabID, method, calls, atCall, failed, astray>>
  BY DEF CloseFirstSiblingTab, TabsInv
<1>2. Kept
  <2>1. Grows(driver, driver)
    BY <1>1 DEF Grows, Base
  <2> QED
    BY <1>1, <2>1 DEF Kept, Base
<1>3. {"switchToFirstSiblingTab", "closeCurrentTab", "switchToMainSiblingTab"} \subseteq Steps /\ 0 \in Nat
  BY DEF Steps, TabCalls
<1>4. /\ x \in StepKind /\ x.do = "switchToFirstSiblingTab"
      /\ y \in StepKind /\ y.do = "closeCurrentTab"
      /\ z \in StepKind /\ z.do = "switchToMainSiblingTab"
  BY <1>3, StepMade
<1>5. method = "closeFirstSiblingTab"
  BY <1>1, HeadStep DEF Lawful
<1> HIDE DEF x, y, z
<1>6. Lawful(x, method) /\ Lawful(y, method) /\ Lawful(z, method)
  BY <1>4, <1>5 DEF Lawful, OfCurrent, HasTab, Closers
<1>7. <<x, y, z>> \in Seq(StepKind) /\ Range(<<x, y, z>>) = {x, y, z}
  BY <1>4, ThreeSteps
<1>8. \A s \in Range(<<x, y, z>>) : s.do \notin Noisy /\ Lawful(s, method)
  BY <1>4, <1>6, <1>7, QuietNames
<1>9. todo # <<>> /\ Head(todo).do \notin Noisy
  BY <1>1, QuietNames DEF At
<1> QED
  BY <1>1, <1>2, <1>7, <1>8, <1>9, QuietStep

(* The numbers of a sequence but for one. *)
LEMMA AscendingOthers ==
  ASSUME NEW q \in Seq(Nat), NEW t
  PROVE  LET s == Ascending(Range(q) \ {t})
         IN s \in Seq(Nat) /\ Range(s) = Range(q) \ {t}
<1> DEFINE S == Range(q) \ {t}
<1>1. Range(q) = {q[k] : k \in 1..Len(q)} /\ Len(q) \in Nat /\ \A k \in 1..Len(q) : q[k] \in Nat
  BY IndexedRange
<1>2. Range(q) \in SUBSET Nat
  BY <1>1
<1>3. IsFiniteSet(Range(q))
  <2> DEFINE f == [k \in 1..Len(q) |-> q[k]]
  <2>1. f \in Surjection(1..Len(q), Range(q))
    BY <1>1 DEF Surjection
  <2>2. IsFiniteSet(1..Len(q))
    BY <1>1, FS_Interval
  <2> HIDE DEF f
  <2> QED
    BY <2>1, <2>2, FS_Surjection
<1>4. S \in SUBSET Nat /\ IsFiniteSet(S)
  BY <1>2, <1>3, FS_Subset
<1> HIDE DEF S
<1>5. Ascending(S) \in Seq(S) /\ Range(Ascending(S)) = S
  BY <1>4, AscendingEnumerates
<1>6. Ascending(S) \in Seq(Nat)
  BY <1>4, <1>5, SeqOfPart
<1> QED
  BY <1>5, <1>6 DEF S

LEMMA SwitchToFirstSiblingTabStep ==
  ASSUME TabsInv, SwitchToFirstSiblingTab
  PROVE  TabsInv'
<1>0. Base
  BY DEF TabsInv
<1>1. CASE At("switchToFirstSiblingTab") /\ InitMain /\ Then(<<Do("switchToSibling", mainTabID')>>)
  <2>1. Kept /\ mainTabID' \in Nat
    BY <1>0, <1>1, InitMainKept DEF Kept
  <2> QED
    BY <1>1, <2>1, QuietGo, QuietNames
<1>2. CASE /\ At("switchToSibling") /\ Command(NameAll(driver))
           /\ LET siblings == Ascending(Range(TabIds(driver')) \ {Arg})
              IN Then(IF siblings = <<>> THEN <<>> ELSE <<Do("window", siblings[1])>>)
  <2> DEFINE siblings == Ascending(Range(TabIds(driver')) \ {Arg})
  <2>1. driver.session \/ CanOpen(driver)
    BY <1>2 DEF Command, Completes
  <2>2. Kept /\ driver' = NameAll(driver)
    BY <1>0, <1>2, <2>1, QuestionsAnswered, CommandKept
  <2>3. TabIds(driver') \in Seq(Nat)
    BY <1>0, <2>1, <2>2, QuestionsAnswered
  <2>4. siblings \in Seq(Nat)
    BY <2>3, AscendingOthers
  <2>5. Then(IF siblings = <<>> THEN <<>> ELSE <<Do("window", siblings[1])>>)
    BY <1>2
  <2> HIDE DEF siblings
  <2>6. CASE siblings = <<>>
    BY <1>2, <2>2, <2>5, <2>6, QuietReply, QuietNames
  <2>7. CASE siblings # <<>>
    <3>1. siblings[1] \in Nat /\ Then(<<Do("window", siblings[1])>>)
      BY <2>4, <2>5, <2>7
    <3> QED
      BY <1>2, <2>2, <3>1, QuietGo, QuietNames
  <2> QED
    BY <2>6, <2>7
<1> QED
  BY <1>1, <1>2 DEF SwitchToFirstSiblingTab

LEMMA SwitchToMainSiblingTabStep ==
  ASSUME TabsInv, SwitchToMainSiblingTab
  PROVE  TabsInv'
<1>0. Base
  BY DEF TabsInv
<1>1. CASE At("switchToMainSiblingTab") /\ InitMain /\ Then(<<Do("switchToMain", mainTabID')>>)
  <2>1. Kept /\ mainTabID' \in Nat
    BY <1>0, <1>1, InitMainKept DEF Kept
  <2> QED
    BY <1>1, <2>1, QuietGo, QuietNames
<1>2. CASE /\ At("switchToMain") /\ Command(NameAll(driver))
           /\ LET ids == TabIds(driver')
              IN Then(IF ids = <<>> THEN <<>>
                      ELSE <<Do("window", IF Arg \in Range(ids) THEN Arg ELSE ids[1])>>)
  <2> DEFINE ids == TabIds(driver')
             t   == IF Arg \in Range(ids) THEN Arg ELSE ids[1]
  <2>1. driver.session \/ CanOpen(driver)
    BY <1>2 DEF Command, Completes
  <2>2. Kept /\ driver' = NameAll(driver)
    BY <1>0, <1>2, <2>1, QuestionsAnswered, CommandKept
  <2>3. ids \in Seq(Nat)
    BY <1>0, <2>1, <2>2, QuestionsAnswered
  <2>4. Arg \in Nat
    BY <1>0, <1>2, HeadStep, QuietNames
  <2>5. Then(IF ids = <<>> THEN <<>> ELSE <<Do("window", t)>>)
    BY <1>2
  <2>6. CASE ids = <<>>
    <3> HIDE DEF ids, t
    <3>1. Then(<<>>)
      BY <2>5, <2>6
    <3> QED
      BY <1>2, <2>2, <3>1, QuietReply, QuietNames
  <2>7. CASE ids # <<>>
    <3>1. t \in Nat
      <4> HIDE DEF ids
      <4> QED
        BY <2>3, <2>4, <2>7
    <3> HIDE DEF ids, t
    <3>2. Then(<<Do("window", t)>>)
      BY <2>5, <2>7
    <3> QED
      BY <1>2, <2>2, <3>1, <3>2, QuietGo, QuietNames
  <2> QED
    BY <2>6, <2>7
<1> QED
  BY <1>1, <1>2 DEF SwitchToMainSiblingTab

-----------------------------------------------------------------------------
(* The invariant is kept: the steps that close tabs. *)

LEMMA CloserNames ==
  /\ {"closeTab", "close", "closeBrowserWindow"} \subseteq Steps
  /\ {"elect", "setMain", "end", "window", "switchToMainSiblingTab", "closeOthers"} \subseteq Steps
  /\ \A s \in Closers : s \notin Electors /\ s \in HasTab
  /\ \A s \in Electors : s \notin Closers
BY DEF Steps, TabCalls, Closers, Electors, HasTab

(* closeAllOtherTabs elects no main tab and does not end the session.         *)
LEMMA NotElecting ==
  ASSUME Base, method = "closeAllOtherTabs"
  PROVE  ~Electing
BY DEF Base, Electing, Electors, Lawful, OfCurrent

(* A closing step becomes the next one, of the same tab.                      *)
LEMMA CloserGoesOn ==
  ASSUME TabsInv, NEW h \in {"closeBrowserWindow", "closeTab"}, At(h),
         NEW c \in {"closeTab", "close"}, NEW x \in Nat, Then(<<Do(c, x)>>),
         Grows(driver, driver'), mainTabID' \in Nat, UNCHANGED <<method, atCall, failed, astray>>,
         ~astray /\ ~Electing /\ method # "closeBrowserWindow" => x = Arg /\ mainTabID' = mainTabID,
         AtHome(driver, mainTabID) /\ ~(mainTabID' = 0 /\ c = "close") => AtHome(driver', mainTabID')
  PROVE  TabsInv'
<1> DEFINE y == Do(c, x)
<1>1. Base /\ todo # <<>> /\ Head(todo).do = h /\ Lawful(Head(todo), method) /\ Arg = TabOf(Head(todo))
      /\ h \in Closers
  BY HeadStep DEF TabsInv, Closers
<1>2. y \in StepKind /\ y.do = c /\ TabOf(y) = x /\ y.tabs # <<>> /\ c \in Closers /\ c \notin Electors
  BY CloserNames, StepMade DEF Closers
<1> HIDE DEF y
<1>3. <<y>> \in Seq(StepKind) /\ Range(<<y>>) = {y} /\ Rest(<<y>>) = {} /\ Then(<<y>>)
  BY <1>2, OneStep DEF y
<1>4. Lawful(y, method)
  BY <1>1, <1>2 DEF Lawful, Closers
<1>5. Base'
  BY <1>1, <1>3, <1>4, BaseThen, GrowsKnown DEF Grows, Base
<1>6. /\ todo' \in Seq(StepKind)
      /\ Range(todo) = {Head(todo)} \cup Rest(todo)
      /\ Range(todo') = {y} \cup Rest(todo)
  BY <1>1, <1>3, StepsFollow
<1>7. Electing' <=> Electing
  BY <1>1, <1>2, <1>6, CloserNames DEF Electing
<1>8. todo' # <<>> /\ Head(todo') = y
  <2>1. todo' = <<y>> \o Tail(todo) /\ todo \in Seq(StepKind)
    BY <1>1, <1>3 DEF Then, Base
  <2>2. (<<y>> \o Tail(todo))[1] = <<y>>[1]
    BY <1>1, <1>3, <2>1, Replaced
  <2>3. todo' # <<>>
    BY <1>6, NoSteps
  <2> QED
    BY <1>6, <2>1, <2>2, <2>3
<1>9. Home'
  BY <1>1, <1>2, <1>7, <1>8 DEF Home, TabsInv, At
<1>10. ClosersApart'
  <2> SUFFICES ASSUME ~astray, ~Electing, method # "closeBrowserWindow",
                      NEW s \in Range(todo'), s.do \in Closers
               PROVE  mainTabID' # 0 /\ TabOf(s) \notin {0, mainTabID'}
    BY <1>7 DEF ClosersApart
  <2>1. mainTabID # 0 /\ Arg \notin {0, mainTabID} /\ x = Arg /\ mainTabID' = mainTabID
    BY <1>1, <1>6 DEF ClosersApart, TabsInv
  <2>2. CASE s = y
    BY <1>2, <2>1, <2>2
  <2>3. CASE s # y
    BY <1>6, <2>1, <2>3 DEF ClosersApart, TabsInv
  <2> QED
    BY <2>2, <2>3
<1>11. Others'
  <2> SUFFICES ASSUME method = "closeAllOtherTabs", ~astray, ~failed
               PROVE  /\ mainTabID' # 0
                      /\ \A p \in Open(driver') \cap atCall :
                           \/ driver'.tab[p] = mainTabID'
                           \/ \E s \in Range(todo') : s.do \in Closers /\ TabOf(s) = driver'.tab[p]
    BY <1>2, <1>8 DEF Others, At, Closers
  <2>1. /\ mainTabID # 0
        /\ \A p \in Open(driver) \cap atCall :
             \/ driver.tab[p] = mainTabID
             \/ \E s \in Range(todo) : s.do \in Closers /\ TabOf(s) = driver.tab[p]
    BY <1>1 DEF Others, TabsInv, At, Closers
  <2>2. ~Electing
    BY <1>1, NotElecting
  <2>3. x = Arg /\ mainTabID' = mainTabID /\ \A s \in Range(todo) : s.do \in Closers => TabOf(s) # 0
    BY <2>2 DEF ClosersApart, TabsInv
  <2>4. ASSUME NEW p \in Open(driver') \cap atCall
        PROVE  \/ driver'.tab[p] = mainTabID'
               \/ \E s \in Range(todo') : s.do \in Closers /\ TabOf(s) = driver'.tab[p]
    <3>1. p \in Open(driver) \cap atCall /\ (driver.tab[p] # 0 => driver'.tab[p] = driver.tab[p])
      BY <1>1, OthersKept DEF Base
    <3>2. CASE driver.tab[p] = mainTabID
      BY <2>1, <2>3, <3>1, <3>2
    <3>3. CASE driver.tab[p] # mainTabID
      <4>1. PICK s \in Range(todo) : s.do \in Closers /\ TabOf(s) = driver.tab[p]
        BY <2>1, <3>1, <3>3
      <4>2. driver'.tab[p] = TabOf(s)
        BY <2>3, <3>1, <4>1
      <4>3. CASE s = Head(todo)
        BY <1>1, <1>2, <1>6, <2>3, <4>2, <4>3
      <4>4. CASE s # Head(todo)
        BY <1>6, <4>1, <4>2, <4>4
      <4> QED
        BY <4>3, <4>4
    <3> QED
      BY <3>2, <3>3
  <2> QED
    BY <2>1, <2>3, <2>4
<1> QED
  BY <1>5, <1>9, <1>10, <1>11 DEF TabsInv

LEMMA CloseBrowserWindowStep ==
  ASSUME TabsInv, CloseBrowserWindow
  PROVE  TabsInv'
<1> DEFINE x == IF Arg # 0 THEN Arg ELSE mainTabID'
<1>1. Base /\ At("closeBrowserWindow") /\ InitMain /\ Then(<<Do("closeTab", x)>>)
  BY DEF CloseBrowserWindow, TabsInv
<1>2. Kept
  BY <1>1, InitMainKept
<1>3. Arg \in Nat /\ Arg = TabOf(Head(todo)) /\ Head(todo) \in Range(todo)
      /\ Head(todo).do = "closeBrowserWindow"
  BY <1>1, HeadStep, QuietNames
<1>4. x \in Nat
  BY <1>2, <1>3 DEF Kept
<1>5. ~astray /\ ~Electing /\ method # "closeBrowserWindow" => x = Arg /\ mainTabID' = mainTabID
  BY <1>2, <1>3 DEF ClosersApart, TabsInv, Closers, Kept
<1> HIDE DEF x
<1> QED
  BY <1>1, <1>2, <1>4, <1>5, CloserGoesOn DEF Kept

LEMMA CloseTabStep ==
  ASSUME TabsInv, CloseTab
  PROVE  TabsInv'
<1>1. /\ Base /\ At("closeTab") /\ Completes(NameAll(driver)) /\ Then(<<Do("close", Arg)>>)
      /\ mainTabID' = IF TabIds(driver') = <<Arg>> THEN 0 ELSE mainTabID
  BY DEF CloseTab, TabsInv
<1>2. (driver.session \/ CanOpen(driver)) /\ driver' = NameAll(driver)
      /\ UNCHANGED <<method, atCall, failed, astray>>
  BY <1>1 DEF Completes
<1>3. /\ Grows(driver, driver')
      /\ Range(TabIds(driver')) = {driver'.tab[p] : p \in Open(driver')}
  BY <1>1, <1>2, QuestionsAnswered
<1>4. Arg \in Nat /\ Arg = TabOf(Head(todo)) /\ Head(todo) \in Range(todo) /\ Head(todo).do = "closeTab"
  BY <1>1, HeadStep, QuietNames
<1>5. mainTabID' \in Nat
  BY <1>1 DEF Base
<1>6. AtHome(driver, mainTabID) => AtHome(driver', mainTabID)
  BY <1>1, <1>3, GrowsHome DEF Base
<1>7. ASSUME ~astray, ~Electing, method # "closeBrowserWindow"
      PROVE  mainTabID' = mainTabID
  <2>1. mainTabID # 0 /\ Arg # mainTabID
    BY <1>4, <1>7 DEF ClosersApart, TabsInv, Closers
  <2>2. AtHome(driver', mainTabID)
    BY <1>6, <1>7, <2>1 DEF Home, TabsInv
  <2>3. mainTabID \in Range(TabIds(driver'))
    BY <1>3, <2>1, <2>2 DEF AtHome, Open
  <2>4. Range(<<Arg>>) = {Arg}
    <3>1. <<Arg>> \in Seq(Nat) /\ Len(<<Arg>>) = 1 /\ <<Arg>>[1] = Arg
      BY <1>4
    <3>2. Range(<<Arg>>) = {<<Arg>>[k] : k \in 1..1}
      BY <3>1, IndexedRange
    <3> QED
      BY <3>1, <3>2
  <2> QED
    BY <1>1, <2>1, <2>3, <2>4
<1>8. mainTabID' # 0 => mainTabID' = mainTabID
  BY <1>1
<1> QED
  BY <1>1, <1>2, <1>3, <1>4, <1>5, <1>6, <1>7, <1>8, CloserGoesOn

(* The next step is the last of its kind: nothing comes in front.             *)
LEMMA ReplyThen ==
  ASSUME Base, todo # <<>>, Then(<<>>)
  PROVE  /\ Range(todo) = {Head(todo)} \cup Rest(todo) /\ Range(todo') = Rest(todo)
         /\ todo' \in Seq(StepKind)
         /\ \A s \in Rest(todo) : LawfulLater(s, method) /\ Lawful(s, method)
         /\ ~(At("closeAllOtherTabs"))' /\ ~(At("closeOthers"))'
<1>1. /\ todo' \in Seq(StepKind) /\ Rest(todo) \subseteq Range(todo)
      /\ Range(todo) = {Head(todo)} \cup Rest(todo) /\ Range(todo') = Rest(todo)
  BY NoSteps, StepsFollow
<1>2. \A s \in Rest(todo) : LawfulLater(s, method) /\ Lawful(s, method)
  BY <1>1 DEF Base
<1>3. todo' # <<>> => Head(todo') \in Range(todo')
  BY <1>1, Replaced
<1> QED
  BY <1>1, <1>2, <1>3 DEF At, LawfulLater

LEMMA CloseCommandStep ==
  ASSUME TabsInv, CloseCommand
  PROVE  TabsInv'
<1> DEFINE c == CreateClient(driver)
<1>1. /\ Base /\ At("close") /\ Then(<<>>) /\ driver' = ClosePage(driver, Arg)
      /\ driver.session \/ CanOpen(driver)
      /\ astray' = (astray \/ (method = "closeBrowserWindow" /\ mainTabID \in {0, Arg}))
      /\ UNCHANGED <<mainTabID, method, calls, atCall, failed>>
  BY DEF CloseCommand, TabsInv
<1>2. /\ Sound(driver') /\ driver'.session = c.session /\ Known(driver') = Known(c)
      /\ \A p \in Page : /\ p \in Open(driver') => p \in Open(c) /\ p \notin PageOf(c, Arg)
                         /\ p \notin PageOf(c, Arg) => driver'.state[p] = c.state[p] /\ driver'.tab[p] = c.tab[p]
  BY <1>1, ClosePageStep DEF Base
<1>3. Grows(driver, c) /\ Known(driver) \subseteq Known(c)
  BY <1>1, QuestionsAnswered, GrowsKnown
<1>4. driver.session => c = driver
  BY DEF CreateClient
<1>5. /\ todo # <<>> /\ Head(todo).do = "close" /\ Head(todo) \in Range(todo) /\ Arg = TabOf(Head(todo))
      /\ Range(todo) = {Head(todo)} \cup Rest(todo) /\ Range(todo') = Rest(todo)
      /\ \A s \in Rest(todo) : LawfulLater(s, method)
      /\ ~(At("closeAllOtherTabs"))' /\ ~(At("closeOthers"))'
  BY <1>1, HeadStep, ReplyThen DEF At
<1> HIDE DEF c
<1>6. Base'
  BY <1>1, <1>2, <1>3, <1>5, BaseThen, NoSteps DEF Base
<1>7. Electing' <=> Electing
  BY <1>5 DEF Electing, Electors
<1>8. astray \in BOOLEAN
  BY <1>1 DEF Base
<1>9. ASSUME ~astray', ~Electing
      PROVE  mainTabID # 0 /\ Arg # mainTabID /\ (method # "closeBrowserWindow" => Arg # 0)
             /\ driver.session /\ AtHome(driver', mainTabID)
  <2>1. mainTabID # 0 /\ Arg # mainTabID /\ (method # "closeBrowserWindow" => Arg # 0)
    <3>1. CASE method = "closeBrowserWindow"
      BY <1>1, <1>8, <1>9, <3>1
    <3>2. CASE method # "closeBrowserWindow"
      BY <1>1, <1>5, <1>8, <1>9, <3>2 DEF ClosersApart, TabsInv, Closers
    <3> QED
      BY <3>1, <3>2
  <2>2. AtHome(driver, mainTabID)
    BY <1>1, <1>8, <1>9, <2>1 DEF Home, TabsInv
  <2>3. PICK p \in Page : driver.session /\ driver.tab[p] = mainTabID /\ driver.state[p] = "open"
    BY <2>1, <2>2 DEF AtHome
  <2>4. p \notin PageOf(c, Arg)
    BY <1>4, <2>1, <2>3 DEF PageOf
  <2>5. driver'.state[p] = "open" /\ driver'.tab[p] = mainTabID /\ driver'.session
    BY <1>2, <1>4, <2>3, <2>4
  <2> QED
    BY <2>1, <2>3, <2>5 DEF AtHome
<1>10. Home'
  BY <1>1, <1>7, <1>9 DEF Home
<1>11. ClosersApart'
  BY <1>1, <1>5, <1>7, <1>8 DEF ClosersApart, TabsInv
<1>12. Others'
  <2> SUFFICES ASSUME method = "closeAllOtherTabs", ~astray', ~failed
               PROVE  /\ mainTabID # 0
                      /\ \A p \in Open(driver') \cap atCall :
                           \/ driver'.tab[p] = mainTabID
                           \/ \E s \in Range(todo') : s.do \in Closers /\ TabOf(s) = driver'.tab[p]
    BY <1>1, <1>5 DEF Others
  <2>1. ~Electing
    BY <1>1, NotElecting
  <2>2. mainTabID # 0 /\ Arg # mainTabID /\ Arg # 0 /\ driver.session
    BY <1>9, <2>1
  <2>3. \A p \in Open(driver) \cap atCall :
             \/ driver.tab[p] = mainTabID
             \/ \E s \in Range(todo) : s.do \in Closers /\ TabOf(s) = driver.tab[p]
    BY <1>1, <1>5, <1>8 DEF Others, TabsInv, At
  <2>4. ASSUME NEW p \in Open(driver') \cap atCall
        PROVE  \/ driver'.tab[p] = mainTabID
               \/ \E s \in Range(todo') : s.do \in Closers /\ TabOf(s) = driver'.tab[p]
    <3>1. p \in Page
      BY DEF Open
    <3>2. p \in Open(driver) /\ p \notin PageOf(driver, Arg) /\ driver'.tab[p] = driver.tab[p]
      BY <1>2, <1>4, <2>2, <3>1
    <3>3. driver.tab[p] # Arg
      BY <2>2, <3>1, <3>2 DEF PageOf
    <3> QED
      BY <1>5, <2>3, <3>2, <3>3
  <2> QED
    BY <2>2, <2>4
<1> QED
  BY <1>6, <1>10, <1>11, <1>12 DEF TabsInv

LEMMA CloseOfStep ==
  ASSUME TabsInv, CloseOf
  PROVE  TabsInv'
<1> DEFINE x == Do("closeBrowserWindow", Arg)
           z == IF Arg = mainTabID' THEN "elect" ELSE "switchToMainSiblingTab"
           y == Just(z)
<1>1. Base /\ At("closeOf") /\ InitMain /\ Then(<<x, y>>)
  BY DEF CloseOf, TabsInv
<1>2. Kept /\ mainTabID' # 0
  BY <1>1, InitMainKept
<1>3. /\ todo # <<>> /\ Head(todo).do = "closeOf" /\ Arg \in Nat /\ Arg # 0 /\ method \in OfCurrent
  BY <1>1, HeadStep, QuietNames DEF Lawful
<1>4. z \in {"elect", "switchToMainSiblingTab"} /\ z \in Steps /\ (z # "elect" => Arg # mainTabID')
  BY CloserNames
<1> HIDE DEF z
<1>5. /\ x \in StepKind /\ x.do = "closeBrowserWindow" /\ TabOf(x) = Arg /\ x.tabs # <<>>
      /\ y \in StepKind /\ y.do = z
  BY <1>3, <1>4, CloserNames, StepMade
<1> HIDE DEF x, y
<1>6. <<x, y>> \in Seq(StepKind) /\ Range(<<x, y>>) = {x, y} /\ Rest(<<x, y>>) = {y}
  BY <1>5, TwoSteps
<1>7. Lawful(x, method) /\ Lawful(y, method) /\ LawfulLater(y, method)
  BY <1>3, <1>4, <1>5 DEF Lawful, LawfulLater, Closers, OfCurrent, HasTab
<1>8. Base'
  BY <1>1, <1>2, <1>3, <1>6, <1>7, BaseThen, GrowsKnown DEF Kept, Grows, Base
<1>9. /\ Range(todo) = {Head(todo)} \cup Rest(todo)
      /\ Range(todo') = {x, y} \cup Rest(todo)
      /\ \A s \in Rest(todo) : LawfulLater(s, method)
  BY <1>1, <1>3, <1>6, StepsFollow DEF Base
<1>10. ~Electing' => ~Electing /\ Arg # mainTabID'
  BY <1>3, <1>4, <1>5, <1>9 DEF Electing, Electors
<1>11. Home'
  BY <1>2, <1>3, <1>10 DEF Home, TabsInv, Kept, At
<1>12. ClosersApart'
  <2> SUFFICES ASSUME ~Electing', NEW s \in Range(todo'), s.do \in Closers
               PROVE  TabOf(s) \notin {0, mainTabID'}
    BY <1>2 DEF ClosersApart
  <2>1. s \notin Rest(todo)
    BY <1>3, <1>9 DEF LawfulLater, OfCurrent
  <2>2. s = x
    BY <1>4, <1>5, <1>9, <2>1 DEF Closers
  <2> QED
    BY <1>3, <1>5, <1>10, <2>2
<1>13. Others'
  BY <1>2, <1>3 DEF Others, Kept, OfCurrent
<1> QED
  BY <1>8, <1>11, <1>12, <1>13 DEF TabsInv

(* A method of closing the current tab is left electing.                     *)
LEMMA LeftElecting ==
  ASSUME Base', Electing', method' # "closeAllOtherTabs", Base
  PROVE  Home' /\ ClosersApart' /\ Others'
BY DEF Home, ClosersApart, Others

LEMMA ElectStep ==
  ASSUME TabsInv, Elect
  PROVE  TabsInv'
<1> DEFINE ids == TabIds(driver')
           e   == Just("end")
           x   == Do("window", ids[1])
           y   == Do("setMain", ids[1])
<1>1. Base /\ At("elect") /\ Command(NameAll(driver))
      /\ Then(IF ids = <<>> THEN <<e>> ELSE <<x, y>>)
  BY DEF Elect, TabsInv
<1>2. driver.session \/ CanOpen(driver)
  BY <1>1 DEF Command, Completes
<1>3. Kept /\ driver' = NameAll(driver)
  BY <1>1, <1>2, QuestionsAnswered, CommandKept
<1>4. ids \in Seq(Nat)
  BY <1>1, <1>2, <1>3, QuestionsAnswered
<1>5. todo # <<>> /\ method \in OfCurrent
  BY <1>1, HeadStep DEF Lawful
<1>6. method' # "closeAllOtherTabs"
  BY <1>3, <1>5 DEF Kept, OfCurrent
<1>7. Sound(driver') /\ Known(driver) \subseteq Known(driver') /\ mainTabID' \in Nat
      /\ UNCHANGED <<method, atCall>> /\ failed' \in BOOLEAN /\ astray' \in BOOLEAN
  BY <1>1, <1>3, GrowsKnown DEF Kept, Grows, Base
<1> HIDE DEF ids
<1>8. CASE ids = <<>>
  <2>1. Then(<<e>>) /\ 0 \in Nat
    BY <1>1, <1>8
  <2>2. e \in StepKind /\ e.do = "end"
    BY <2>1, CloserNames, StepMade
  <2> HIDE DEF e
  <2>3. <<e>> \in Seq(StepKind) /\ Range(<<e>>) = {e} /\ Rest(<<e>>) = {}
    BY <2>2, OneStep
  <2>4. Lawful(e, method)
    BY <1>5, <2>2 DEF Lawful, Closers, HasTab
  <2>5. Base'
    BY <1>1, <1>5, <1>7, <2>1, <2>3, <2>4, BaseThen
  <2>6. Electing'
    <3>1. e \in Range(todo')
      BY <1>1, <1>5, <2>1, <2>3, StepsFollow
    <3> QED
      BY <2>2, <3>1 DEF Electing, Electors
  <2> QED
    BY <1>1, <1>6, <2>5, <2>6, LeftElecting DEF TabsInv
<1>9. CASE ids # <<>>
  <2>1. Then(<<x, y>>) /\ ids[1] \in Nat
    BY <1>1, <1>4, <1>9
  <2>2. /\ x \in StepKind /\ x.do = "window" /\ x.tabs # <<>>
        /\ y \in StepKind /\ y.do = "setMain" /\ y.tabs # <<>>
    BY <2>1, CloserNames, StepMade
  <2> HIDE DEF x, y
  <2>3. <<x, y>> \in Seq(StepKind) /\ Range(<<x, y>>) = {x, y} /\ Rest(<<x, y>>) = {y}
    BY <2>2, TwoSteps
  <2>4. Lawful(x, method) /\ Lawful(y, method) /\ LawfulLater(y, method)
    BY <1>5, <2>2 DEF Lawful, LawfulLater, Closers
  <2>5. Base'
    BY <1>1, <1>5, <1>7, <2>1, <2>3, <2>4, BaseThen
  <2>6. Electing'
    <3>1. y \in Range(todo')
      BY <1>1, <1>5, <2>1, <2>3, StepsFollow
    <3> QED
      BY <2>2, <3>1 DEF Electing, Electors
  <2> QED
    BY <1>1, <1>6, <2>5, <2>6, LeftElecting DEF TabsInv
<1> QED
  BY <1>8, <1>9

(* When the main tab is set or forgotten nothing is left to close.            *)
LEMMA NothingToClose ==
  ASSUME Base, todo # <<>>, Then(<<>>), Base', method' # "closeAllOtherTabs", method' = method,
         ~astray' => AtHome(driver', mainTabID')
  PROVE  TabsInv'
<1>1. /\ Range(todo') = Rest(todo)
      /\ \A s \in Rest(todo) : LawfulLater(s, method)
  BY ReplyThen
<1>2. Home' /\ ClosersApart' /\ Others'
  BY <1>1 DEF Home, ClosersApart, Others, LawfulLater
<1> QED
  BY <1>2 DEF TabsInv

LEMMA SetMainStep ==
  ASSUME TabsInv, SetMain
  PROVE  TabsInv'
<1>1. /\ Base /\ At("setMain") /\ Then(<<>>) /\ mainTabID' = Arg
      /\ astray' = (astray \/ PageOf(driver, Arg) \cap Open(driver) = {})
      /\ UNCHANGED <<driver, method, calls, atCall, failed>>
  BY DEF SetMain, TabsInv
<1>2. todo # <<>> /\ Arg \in Nat /\ method \in OfCurrent
  BY <1>1, HeadStep, QuietNames DEF Lawful
<1>3. Base'
  BY <1>1, <1>2, BaseThen, NoSteps DEF Base
<1>4. ASSUME ~astray'
      PROVE  AtHome(driver', mainTabID')
  <2>1. PICK p \in PageOf(driver, Arg) \cap Open(driver) : TRUE
    BY <1>1, <1>4 DEF Base
  <2>2. p \in Page /\ Arg # 0 /\ driver.tab[p] = Arg /\ driver.state[p] = "open"
    BY <2>1 DEF PageOf, Open
  <2>3. driver.session
    BY <1>1, <2>1 DEF Base, Sound
  <2> QED
    BY <1>1, <2>2, <2>3 DEF AtHome
<1>5. method' # "closeAllOtherTabs" /\ method' = method
  BY <1>1, <1>2 DEF OfCurrent
<1> QED
  BY <1>1, <1>2, <1>3, <1>4, <1>5, NothingToClose

LEMMA EndOfSession ==
  ASSUME TabsInv, End
  PROVE  TabsInv'
<1>1. /\ Base /\ At("end") /\ Then(<<>>) /\ mainTabID' = 0 /\ driver' = EndSession(driver)
      /\ UNCHANGED <<method, calls, atCall, failed, astray>>
  BY DEF End, Completes, TabsInv
<1>2. todo # <<>> /\ method # "closeAllOtherTabs"
  BY <1>1, HeadStep DEF Lawful, OfCurrent
<1>3. Sound(driver') /\ ~driver'.session /\ Known(driver') = Known(driver)
  BY <1>1, EndSessionStep DEF Base
<1>4. Base'
  BY <1>1, <1>2, <1>3, BaseThen, NoSteps DEF Base
<1>5. AtHome(driver', mainTabID')
  BY <1>1, <1>3 DEF AtHome
<1> QED
  BY <1>1, <1>2, <1>4, <1>5, NothingToClose

-----------------------------------------------------------------------------
(* The invariant is kept: closeAllOtherTabs. *)

LEMMA CloseAllOtherTabsStep ==
  ASSUME TabsInv, CloseAllOtherTabs
  PROVE  TabsInv'
<1> DEFINE x == [do |-> "closeOthers", tabs |-> TabIds(driver')]
<1>1. Base /\ At("closeAllOtherTabs") /\ Command(NameAll(driver)) /\ Then(<<x>>)
  BY DEF CloseAllOtherTabs, TabsInv
<1>2. driver.session \/ CanOpen(driver)
  BY <1>1 DEF Command, Completes
<1>3. Kept /\ mainTabID' = mainTabID /\ driver' = NameAll(driver)
  BY <1>1, <1>2, QuestionsAnswered, CommandKept
<1>4. /\ TabIds(driver') \in Seq(Nat) /\ \A p \in Open(driver') : driver'.tab[p] # 0
      /\ Range(TabIds(driver')) = {driver'.tab[p] : p \in Open(driver')}
  BY <1>1, <1>2, <1>3, QuestionsAnswered
<1>5. todo # <<>> /\ Head(todo).do = "closeAllOtherTabs" /\ method = "closeAllOtherTabs"
  BY <1>1, HeadStep DEF Lawful
<1>6. x \in StepKind /\ x.do = "closeOthers" /\ x.tabs = TabIds(driver')
  BY <1>4, CloserNames DEF StepKind
<1> HIDE DEF x
<1>7. <<x>> \in Seq(StepKind) /\ Range(<<x>>) = {x} /\ Rest(<<x>>) = {}
  BY <1>6, OneStep
<1>8. Lawful(x, method)
  BY <1>4, <1>5, <1>6 DEF Lawful, Closers, HasTab
<1>9. Base'
  BY <1>1, <1>3, <1>5, <1>7, <1>8, BaseThen, GrowsKnown DEF Kept, Grows, Base
<1>10. /\ Range(todo) = {Head(todo)} \cup Rest(todo)
       /\ Range(todo') = {x} \cup Rest(todo) /\ todo' \in Seq(StepKind)
  BY <1>1, <1>5, <1>7, StepsFollow
<1>11. Electing' <=> Electing
  BY <1>5, <1>6, <1>10 DEF Electing, Electors
<1>12. todo' # <<>> /\ Head(todo') = x
  <2>1. todo' = <<x>> \o Tail(todo) /\ todo \in Seq(StepKind)
    BY <1>1 DEF Then, Base
  <2>2. (<<x>> \o Tail(todo))[1] = <<x>>[1]
    BY <1>5, <1>7, <2>1, Replaced
  <2>3. todo' # <<>>
    BY <1>10, NoSteps
  <2> QED
    BY <1>10, <2>1, <2>2, <2>3
<1>13. Home'
  BY <1>3, <1>5, <1>11 DEF Home, TabsInv, Kept, At
<1>14. ClosersApart'
  BY <1>3, <1>6, <1>10, <1>11 DEF ClosersApart, TabsInv, Kept, Closers
<1>15. Others'
  BY <1>4, <1>6, <1>12 DEF Others, At
<1> QED
  BY <1>9, <1>13, <1>14, <1>15 DEF TabsInv

(* The steps that close each of some tabs.                                   *)
LEMMA CloseEachSteps ==
  ASSUME NEW ids \in Seq(Nat)
  PROVE  /\ CloseEach(ids) \in Seq(StepKind)
         /\ \A s \in Range(CloseEach(ids)) :
              /\ s.do \in {"window", "closeBrowserWindow"} /\ s.tabs # <<>>
              /\ TabOf(s) \in Range(ids)
         /\ \A t \in Range(ids) : \E s \in Range(CloseEach(ids)) :
              s.do = "closeBrowserWindow" /\ TabOf(s) = t
<1> DEFINE n == Len(ids)
           q == CloseEach(ids)
<1>1. n \in Nat /\ Range(ids) = {ids[j] : j \in 1..n} /\ \A j \in 1..n : ids[j] \in Nat
  BY IndexedRange
<1>2. q = [k \in 1..(2 * n) |-> Do(IF k % 2 = 1 THEN "window" ELSE "closeBrowserWindow", ids[(k + 1) \div 2])]
  BY DEF CloseEach
<1> HIDE DEF n, q
<1>3. ASSUME NEW k \in 1..(2 * n)
      PROVE  /\ q[k] \in StepKind /\ q[k].tabs # <<>>
             /\ q[k].do = IF k % 2 = 1 THEN "window" ELSE "closeBrowserWindow"
             /\ (k + 1) \div 2 \in 1..n /\ TabOf(q[k]) = ids[(k + 1) \div 2]
  <2> DEFINE x == IF k % 2 = 1 THEN "window" ELSE "closeBrowserWindow"
             t == ids[(k + 1) \div 2]
  <2>1. (k + 1) \div 2 \in 1..n
    BY <1>1
  <2>2. x \in Steps /\ t \in Nat /\ q[k] = Do(x, t)
    BY <1>1, <1>2, <2>1, CloserNames
  <2> HIDE DEF x, t
  <2>3. Do(x, t) \in StepKind /\ Do(x, t).do = x /\ TabOf(Do(x, t)) = t /\ Do(x, t).tabs # <<>>
    BY <2>2, StepMade
  <2> QED
    BY <2>1, <2>2, <2>3 DEF x, t
<1>4. q \in Seq(StepKind) /\ Len(q) = 2 * n
  <2> DEFINE m == 2 * n
  <2>1. q \in [1..m -> StepKind] /\ m \in Nat
    BY <1>1, <1>2, <1>3
  <2>2. q \in Seq(StepKind) /\ Len(q) = m
    <3> HIDE DEF m
    <3> QED
      BY <2>1
  <2> QED
    BY <2>2
<1>5. Range(q) = {q[k] : k \in 1..(2 * n)}
  BY <1>4, IndexedRange
<1>6. ASSUME NEW s \in Range(q)
      PROVE  s.do \in {"window", "closeBrowserWindow"} /\ s.tabs # <<>> /\ TabOf(s) \in Range(ids)
  BY <1>1, <1>3, <1>5
<1>7. ASSUME NEW j \in 1..n
      PROVE  \E s \in Range(q) : s.do = "closeBrowserWindow" /\ TabOf(s) = ids[j]
  <2>1. 2 * j \in 1..(2 * n) /\ (2 * j) % 2 # 1 /\ (2 * j + 1) \div 2 = j
    BY <1>1
  <2>2. q[2 * j].do = "closeBrowserWindow" /\ TabOf(q[2 * j]) = ids[j]
    BY <1>3, <2>1
  <2> QED
    BY <1>5, <2>1, <2>2
<1> QED
  BY <1>1, <1>4, <1>6, <1>7 DEF q, n

LEMMA CloseOthersStep ==
  ASSUME TabsInv, CloseOthers
  PROVE  TabsInv'
<1> DEFINE ids    == Head(todo).tabs
           others == Ascending(Range(ids) \ {mainTabID'})
           x      == Just("switchToMainSiblingTab")
           q      == CloseEach(others) \o <<x>>
<1>1. Base /\ At("closeOthers") /\ InitMain /\ Then(q)
  BY DEF CloseOthers, TabsInv
<1>2. Kept /\ mainTabID' # 0
  BY <1>1, InitMainKept
<1>3. /\ todo # <<>> /\ Head(todo).do = "closeOthers" /\ method = "closeAllOtherTabs"
      /\ ids \in Seq(Nat) /\ 0 \notin Range(ids)
  BY <1>1, HeadStep DEF Lawful, StepKind
<1> HIDE DEF ids
<1>4. others \in Seq(Nat) /\ Range(others) = Range(ids) \ {mainTabID'}
  BY <1>3, AscendingOthers
<1> HIDE DEF others
<1>5. /\ CloseEach(others) \in Seq(StepKind)
      /\ \A s \in Range(CloseEach(others)) :
           /\ s.do \in {"window", "closeBrowserWindow"} /\ s.tabs # <<>>
           /\ TabOf(s) \in Range(others)
      /\ \A t \in Range(others) : \E s \in Range(CloseEach(others)) :
           s.do = "closeBrowserWindow" /\ TabOf(s) = t
  BY <1>4, CloseEachSteps
<1>6. x \in StepKind /\ x.do = "switchToMainSiblingTab"
  <2>1. 0 \in Nat
    OBVIOUS
  <2> QED
    BY <2>1, CloserNames, StepMade
<1>7. q \in Seq(StepKind) /\ Range(q) = Range(CloseEach(others)) \cup {x}
  <2> DEFINE r == CloseEach(others)
  <2>1. r \in Seq(StepKind)
    BY <1>5
  <2> HIDE DEF r, x
  <2>2. /\ r \o <<x>> \in Seq(StepKind) /\ Len(r \o <<x>>) = Len(r) + 1 /\ Len(r) \in Nat
        /\ \A k \in 1..Len(r) : (r \o <<x>>)[k] = r[k]
        /\ (r \o <<x>>)[Len(r) + 1] = x
    BY <1>6, <2>1
  <2>3. Range(r) = {r[k] : k \in 1..Len(r)}
    BY <2>1, IndexedRange
  <2>4. Range(r \o <<x>>) = {(r \o <<x>>)[k] : k \in 1..(Len(r) + 1)}
    BY <2>2, IndexedRange
  <2>5. 1..(Len(r) + 1) = 1..Len(r) \cup {Len(r) + 1}
    BY <2>2
  <2>6. Range(r \o <<x>>) = Range(r) \cup {x}
    BY <2>2, <2>3, <2>4, <2>5
  <2> QED
    BY <2>2, <2>6 DEF r
<1> HIDE DEF q, x
<1>8. \A s \in Range(q) : Lawful(s, method) /\ LawfulLater(s, method) /\ s.do \notin Electors
  BY <1>3, <1>5, <1>6, <1>7 DEF Lawful, LawfulLater, Closers, Electors, HasTab
<1>9. Rest(q) \subseteq Range(q)
  BY <1>7, IndexedRange DEF Rest
<1>10. Base'
  BY <1>1, <1>2, <1>3, <1>7, <1>8, <1>9, BaseThen, GrowsKnown DEF Kept, Grows, Base
<1>11. /\ Range(todo) = {Head(todo)} \cup Rest(todo)
       /\ Range(todo') = Range(q) \cup Rest(todo) /\ todo' \in Seq(StepKind)
       /\ \A s \in Rest(todo) : LawfulLater(s, method)
  BY <1>1, <1>3, <1>7, StepsFollow DEF Base
<1>12. Electing' <=> Electing
  BY <1>3, <1>8, <1>11 DEF Electing, Electors
<1>13. Home'
  BY <1>2, <1>3, <1>12 DEF Home, TabsInv, Kept, At
<1>14. ClosersApart'
  <2> SUFFICES ASSUME ~astray, ~Electing, NEW s \in Range(todo'), s.do \in Closers
               PROVE  TabOf(s) \notin {0, mainTabID'}
    BY <1>2, <1>12 DEF ClosersApart, Kept
  <2>1. CASE s \in Range(q)
    <3>1. s \in Range(CloseEach(others))
      BY <1>6, <1>7, <2>1 DEF Closers
    <3>2. TabOf(s) \in Range(ids) \ {mainTabID'}
      BY <1>4, <1>5, <3>1
    <3> QED
      BY <1>3, <3>2
  <2>2. CASE s \in Rest(todo)
    <3>1. mainTabID # 0 /\ TabOf(s) \notin {0, mainTabID} /\ mainTabID' = mainTabID
      BY <1>2, <1>3, <1>11, <2>2 DEF ClosersApart, TabsInv, Kept
    <3> QED
      BY <3>1
  <2> QED
    BY <1>11, <2>1, <2>2
<1>15. ~(At("closeAllOtherTabs"))' /\ ~(At("closeOthers"))'
  <2>1. todo' # <<>> => Head(todo') \in Range(todo')
    BY <1>11, Replaced, NoSteps
  <2> QED
    BY <1>8, <1>11, <2>1 DEF At, LawfulLater
<1>16. Others'
  <2> SUFFICES ASSUME ~astray, ~failed, NEW p \in Open(driver') \cap atCall
               PROVE  \/ driver'.tab[p] = mainTabID'
                      \/ \E s \in Range(todo') : s.do \in Closers /\ TabOf(s) = driver'.tab[p]
    BY <1>2, <1>15 DEF Others, Kept
  <2>1. p \in Open(driver) \cap atCall /\ (driver.tab[p] # 0 => driver'.tab[p] = driver.tab[p])
    BY <1>1, <1>2, OthersKept DEF Base, Kept
  <2>2. driver.tab[p] \in Range(ids)
    BY <1>1, <1>3, <2>1 DEF Others, TabsInv, At, ids
  <2>3. driver'.tab[p] \in Range(ids)
    BY <1>3, <2>1, <2>2
  <2>4. CASE driver'.tab[p] # mainTabID'
    <3>1. driver'.tab[p] \in Range(others)
      BY <1>4, <2>3, <2>4
    <3>2. PICK s \in Range(CloseEach(others)) : s.do = "closeBrowserWindow" /\ TabOf(s) = driver'.tab[p]
      BY <1>5, <3>1
    <3> QED
      BY <1>7, <1>11, <3>2 DEF Closers
  <2> QED
    BY <2>4
<1> QED
  BY <1>10, <1>13, <1>14, <1>16 DEF TabsInv

-----------------------------------------------------------------------------
(* The invariant is kept: calls, and what pages do by themselves. *)

LEMMA CallStep ==
  ASSUME TabsInv, NEW m \in TabCalls, Call(m)
  PROVE  TabsInv'
<1>1. PICK t \in 0..driver.made : todo' = <<Do(m, t)>>
  BY DEF Call
<1> DEFINE x == Do(m, t)
<1>2. /\ Base /\ todo = <<>> /\ method' = m /\ failed' = FALSE /\ atCall' = Known(driver)
      /\ UNCHANGED <<driver, mainTabID, astray>>
  BY DEF Call, TabsInv
<1>3. m \in Steps /\ t \in Nat
  BY <1>2 DEF Steps, Base, Sound, DriverKind
<1>4. x \in StepKind /\ x.do = m /\ x.tabs # <<>>
  BY <1>3, StepMade
<1>5. todo' = <<x>>
  BY <1>1
<1> HIDE DEF x
<1>6. /\ todo' \in Seq(StepKind) /\ Range(todo') = {x} /\ Rest(todo') = {}
      /\ todo' # <<>> /\ Head(todo') = x
  BY <1>4, <1>5, OneStep
<1>7. Range(todo) = {} /\ Rest(todo) = {}
  BY <1>2, NoSteps
<1>8. m \notin {"closeOf", "elect", "setMain", "closeOthers", "closeTab", "close"}
  BY DEF TabCalls
<1>9. Lawful(x, m)
  BY <1>4, <1>8 DEF Lawful, Closers, OfCurrent
<1>10. Base'
  BY <1>2, <1>6, <1>9 DEF Base
<1>11. Home'
  <2>1. ~Electing /\ ~At("close")
    BY <1>2, <1>7 DEF Electing, At
  <2> QED
    BY <1>2, <2>1 DEF Home, TabsInv
<1>12. ClosersApart'
  BY <1>2, <1>4, <1>6, <1>8 DEF ClosersApart, Closers
<1>13. Others'
  BY <1>2, <1>4, <1>6 DEF Others, At
<1> QED
  BY <1>10, <1>11, <1>12, <1>13 DEF TabsInv

LEMMA PopupStep ==
  ASSUME TabsInv, Popup
  PROVE  TabsInv'
<1>1. /\ Base /\ Open(driver) # {} /\ CanOpen(driver) /\ driver' = WithNewPage(driver)
      /\ UNCHANGED <<mainTabID, todo, method, calls, atCall, failed, astray>>
  BY DEF Popup, TabsInv
<1>2. Grows(driver, driver')
  <2>1. Sound(driver) /\ driver.session
    BY <1>1 DEF Base, Sound
  <2> QED
    BY <1>1, <2>1, PopupGrows
<1>3. Base'
  BY <1>1, <1>2, GrowsKnown DEF Base, Grows
<1>4. Home'
  <2>1. AtHome(driver, mainTabID) => AtHome(driver', mainTabID')
    BY <1>1, <1>2, GrowsHome DEF Base
  <2> QED
    BY <1>1, <2>1 DEF Home, TabsInv, Electing, At
<1>5. ClosersApart'
  BY <1>1 DEF ClosersApart, TabsInv, Electing
<1>6. ASSUME NEW p \in Open(driver') \cap atCall
      PROVE  p \in Open(driver) \cap atCall /\ (driver.tab[p] # 0 => driver'.tab[p] = driver.tab[p])
  BY <1>1, <1>2, OthersKept DEF Base
<1>7. Others'
  <2> SUFFICES ASSUME method = "closeAllOtherTabs", ~astray, ~failed, ~At("closeAllOtherTabs"),
                      NEW p \in Open(driver') \cap atCall
               PROVE  driver'.tab[p] = driver.tab[p]
    BY <1>1, <1>6 DEF Others, TabsInv, At
  <2>1. CASE At("closeOthers")
    <3>1. 0 \notin Range(Head(todo).tabs)
      BY <1>1, <2>1, HeadStep DEF Lawful
    <3> QED
      BY <1>6, <2>1, <3>1 DEF Others, TabsInv
  <2>2. CASE ~At("closeOthers")
    <3>1. \A s \in Range(todo) : s.do \in Closers => TabOf(s) # 0
      <4>1. ~Electing
        BY <1>1, NotElecting
      <4> QED
        BY <4>1 DEF ClosersApart, TabsInv
    <3> QED
      BY <1>6, <2>2, <3>1 DEF Others, TabsInv
  <2> QED
    BY <2>1, <2>2
<1> QED
  BY <1>3, <1>4, <1>5, <1>7 DEF TabsInv

LEMMA GoAwayStep ==
  ASSUME TabsInv, NEW p \in Page, GoAway(p)
  PROVE  TabsInv'
<1>1. /\ Base /\ p \in Open(driver) /\ driver' = [driver EXCEPT !.state[p] = "gone"]
      /\ astray' = (astray \/ driver.tab[p] = mainTabID \/ (mainTabID = 0 /\ p = driver.page))
      /\ UNCHANGED <<mainTabID, todo, method, calls, atCall, failed>>
  BY DEF GoAway, TabsInv
<1>2. /\ Sound(driver') /\ driver'.session = driver.session /\ driver'.page = driver.page
      /\ driver'.tab = driver.tab /\ Known(driver') = Known(driver)
      /\ Open(driver') \subseteq Open(driver)
      /\ \A q \in Page \ {p} : driver'.state[q] = driver.state[q]
  BY <1>1, GoneStep DEF Base
<1>3. astray' \in BOOLEAN /\ (~astray' => ~astray /\ driver.tab[p] # mainTabID
                                         /\ (mainTabID = 0 => p # driver.page))
  BY <1>1 DEF Base
<1>4. Base'
  BY <1>1, <1>2, <1>3 DEF Base
<1>5. Home'
  <2> SUFFICES ASSUME ~astray', AtHome(driver, mainTabID)
               PROVE  AtHome(driver', mainTabID)
    BY <1>1, <1>3 DEF Home, TabsInv, Electing, At
  <2>1. driver.session => driver.page \in Page
    BY <1>1 DEF Base, Sound
  <2> QED
    BY <1>2, <1>3, <2>1 DEF AtHome
<1>6. ClosersApart'
  BY <1>1, <1>3 DEF ClosersApart, TabsInv, Electing
<1>7. Others'
  BY <1>1, <1>2, <1>3 DEF Others, TabsInv, At
<1> QED
  BY <1>4, <1>5, <1>6, <1>7 DEF TabsInv

LEMMA TabsInvInit == TabsInit => TabsInv
<1> SUFFICES ASSUME TabsInit
             PROVE  TabsInv
  OBVIOUS
<1>1. /\ driver = [session |-> FALSE, page |-> 0, state |-> [p \in Page |-> "none"],
                   tab |-> [p \in Page |-> 0], made |-> 0]
      /\ mainTabID = 0 /\ todo = <<>> /\ method = "none" /\ atCall = {}
      /\ failed = FALSE /\ astray = FALSE
  BY DEF TabsInit
<1>2. MaxPages \in Nat /\ 0 \in 0..MaxPages /\ 1..0 = {}
  BY TabsAssumption
<1>3. driver \in DriverKind /\ Open(driver) = {} /\ Known(driver) = {} /\ ~driver.session
  BY <1>1, <1>2 DEF DriverKind, Open, Known
<1>4. Sound(driver)
  BY <1>2, <1>3 DEF Sound
<1>5. Range(todo) = {} /\ Rest(todo) = {} /\ todo \in Seq(StepKind)
  BY <1>1, NoSteps
<1>6. Base
  BY <1>1, <1>4, <1>5 DEF Base
<1>7. Home /\ ClosersApart /\ Others
  BY <1>1, <1>3, <1>5 DEF Home, ClosersApart, Others, AtHome
<1> QED
  BY <1>6, <1>7 DEF TabsInv

LEMMA TabsInvStep == TabsInv /\ [TabsNext]_tabsVars => TabsInv'
<1> SUFFICES ASSUME TabsInv, [TabsNext]_tabsVars
             PROVE  TabsInv'
  OBVIOUS
<1>1. CASE Method
  BY <1>1, AskSteps, WindowStep, SwitchTabStep, NewWindowStep, ToFrontStep, EndOfSession,
     CloseBrowserWindowStep, CloseTabStep, CloseCommandStep, CloseCurrentTabStep, CloseOfStep,
     ElectStep, SetMainStep, CloseAllOtherTabsStep, CloseOthersStep, CloseFirstSiblingTabStep,
     SwitchToFirstSiblingTabStep, SwitchToMainSiblingTabStep DEF Method
<1>2. CASE \E m \in TabCalls : Call(m)
  BY <1>2, CallStep
<1>3. CASE Popup
  BY <1>3, PopupStep
<1>4. CASE \E p \in Page : GoAway(p)
  BY <1>4, GoAwayStep
<1>5. CASE UNCHANGED tabsVars
  BY <1>5 DEF TabsInv, Base, Home, ClosersApart, Others, Electing, At, tabsVars
<1> QED
  BY <1>1, <1>2, <1>3, <1>4, <1>5 DEF TabsNext

(* The main tab is an open tab of the session whichever methods were called,   *)
(* unless it was closed behind the application's back.                        *)
THEOREM MainTabIsOpen == TabsSpec => []MainIsATab
<1>1. TabsInv => MainIsATab
  <2> SUFFICES ASSUME TabsInv, todo = <<>>, ~astray, mainTabID # 0
               PROVE  driver.session /\ \E p \in Page : driver.tab[p] = mainTabID /\ driver.state[p] = "open"
    BY DEF MainIsATab, Done
  <2>1. ~Electing /\ ~At("close")
    BY NoSteps DEF Electing, At
  <2>2. AtHome(driver, mainTabID)
    BY <2>1 DEF TabsInv, Home
  <2> QED
    BY <2>2 DEF AtHome
<1> QED
  BY <1>1, TabsInvInit, TabsInvStep, PTL DEF TabsSpec

(* closeAllOtherTabs leaves the main tab and no other of those there were.     *)
THEOREM AllOthersAreClosed == TabsSpec => []OthersClosed
<1>1. TabsInv => OthersClosed
  <2> SUFFICES ASSUME TabsInv, method = "closeAllOtherTabs", todo = <<>>, ~failed, ~astray
               PROVE  \A p \in Open(driver) \cap atCall : driver.tab[p] = mainTabID
    BY DEF OthersClosed, Done
  <2>1. Range(todo) = {} /\ ~At("closeAllOtherTabs") /\ ~At("closeOthers")
    BY NoSteps DEF At
  <2> QED
    BY <2>1 DEF TabsInv, Others
<1> QED
  BY <1>1, TabsInvInit, TabsInvStep, PTL DEF TabsSpec

-----------------------------------------------------------------------------
(* The application is left at a tab that is not closed. *)

Closing == {"closeCurrentTab", "closeAllOtherTabs", "closeFirstSiblingTab",
            "switchToMainSiblingTab"}

(* The steps a method of closing can end with.                               *)
Ends == Closing \cup {"closeOf", "closeOthers", "elect", "setMain", "end", "window", "switchTab",
                      "switchToMain"}

Settled(d) == d.session /\ Open(d) # {} => d.state[d.page] # "closed"

(* Such a method ends with going to a tab; setMain comes after that.          *)
LastStep ==
  method \in Closing =>
    IF todo = <<>> THEN failed \/ Settled(driver)
    ELSE /\ todo[Len(todo)].do \in Ends
         /\ todo[Len(todo)].do = "setMain" =>
              \/ Len(todo) = 1 /\ Settled(driver)
              \/ Len(todo) = 2 /\ Head(todo).do \in {"window", "switchTab"}

LEMMA LastThen ==
  ASSUME Base, LastStep, NEW h, At(h), NEW steps \in Seq(StepKind), Then(steps),
         UNCHANGED method,
         method \in Closing /\ h \in Ends /\ steps = <<>> /\ (Len(todo) = 1 \/ h = "switchTab") =>
           Settled(driver'),
         h \in Ends /\ steps # <<>> =>
           /\ steps[Len(steps)].do \in Ends
           /\ steps[Len(steps)].do = "setMain" => Len(steps) = 2 /\ steps[1].do = "window",
         h = "window" => Len(steps) = 1 /\ steps[1].do = "switchTab",
         h = "switchTab" => steps = <<>>
  PROVE  LastStep'
<1> SUFFICES ASSUME method \in Closing
             PROVE  LastStep'
  BY DEF LastStep
<1>1. /\ todo \in Seq(StepKind) /\ todo # <<>> /\ Head(todo).do = h /\ todo' = steps \o Tail(todo)
      /\ method' = method
  BY DEF Base, At, Then
<1>2. /\ todo' \in Seq(StepKind) /\ Head(todo) = todo[1]
      /\ Len(todo') = Len(steps) + Len(todo) - 1 /\ Len(steps) \in Nat /\ Len(todo) \in Nat
      /\ Len(todo) = 1 => todo' = steps
      /\ Len(todo) >= 2 => todo' # <<>> /\ todo'[Len(todo')] = todo[Len(todo)]
      /\ steps # <<>> => todo'[1] = steps[1]
  BY <1>1, Replaced
<1>3. Len(todo) >= 1 /\ (steps = <<>> <=> Len(steps) = 0)
  BY <1>1
<1>4. CASE Len(todo) = 1
  <2>1. todo' = steps /\ h \in Ends
    BY <1>1, <1>2, <1>4 DEF LastStep
  <2>2. CASE steps = <<>>
    BY <1>1, <1>4, <2>1, <2>2 DEF LastStep
  <2>3. CASE steps # <<>>
    <3>1. Head(steps) = steps[1]
      BY <2>3
    <3> QED
      BY <1>1, <2>1, <2>3, <3>1 DEF LastStep
  <2> QED
    BY <2>2, <2>3
<1>5. CASE Len(todo) >= 2
  <2>1. todo' # <<>> /\ todo'[Len(todo')] = todo[Len(todo)] /\ todo[Len(todo)].do \in Ends
    BY <1>1, <1>2, <1>5 DEF LastStep
  <2>2. ASSUME todo[Len(todo)].do = "setMain"
        PROVE  \/ Len(todo') = 1 /\ Settled(driver')
               \/ Len(todo') = 2 /\ Head(todo').do \in {"window", "switchTab"}
    <3>1. Len(todo) = 2 /\ h \in {"window", "switchTab"}
      BY <1>1, <1>2, <1>3, <1>5, <2>2 DEF LastStep
    <3>2. CASE h = "window"
      <4>0. Len(steps) = 1 /\ Len(todo) = 2 /\ Len(todo') = Len(steps) + Len(todo) - 1
        BY <1>2, <3>1, <3>2
      <4>1. Len(todo') = 2 /\ steps # <<>>
        BY <1>3, <4>0
      <4>2. Head(todo') = steps[1]
        BY <1>2, <2>1, <4>1
      <4> QED
        BY <3>2, <4>1, <4>2
    <3>3. CASE h = "switchTab"
      <4>1. Len(todo') = 1
        BY <1>2, <1>3, <3>1, <3>3
      <4>2. Settled(driver')
        BY <3>3 DEF Ends
      <4> QED
        BY <4>1, <4>2
    <3> QED
      BY <3>1, <3>2, <3>3
  <2> QED
    BY <1>1, <2>1, <2>2 DEF LastStep
<1>6. Len(todo) = 1 \/ Len(todo) >= 2
  <2> DEFINE n == Len(todo)
  <2>1. n \in Nat /\ n >= 1
    BY <1>2, <1>3
  <2> HIDE DEF n
  <2>2. n = 1 \/ n >= 2
    BY <2>1
  <2> QED
    BY <2>2 DEF n
<1> QED
  BY <1>4, <1>5, <1>6

LEMMA LastReply ==
  ASSUME Base, LastStep, NEW h, At(h), h # "window", Then(<<>>), UNCHANGED method,
         method \in Closing /\ h \in Ends /\ (Len(todo) = 1 \/ h = "switchTab") => Settled(driver')
  PROVE  LastStep'
BY NoSteps, LastThen

LEMMA LastAnother ==
  ASSUME Base, LastStep, NEW h, At(h), h # "switchTab", NEW t \in StepKind, Then(<<t>>),
         UNCHANGED method,
         h \in Ends => t.do \in Ends \ {"setMain"},
         h = "window" => t.do = "switchTab"
  PROVE  LastStep'
<1>1. <<t>> \in Seq(StepKind) /\ Len(<<t>>) = 1 /\ <<t>>[1] = t /\ <<t>> # <<>>
  OBVIOUS
<1> QED
  BY <1>1, LastThen

LEMMA LastGo ==
  ASSUME Base, LastStep, NEW h, At(h), h # "switchTab", NEW x \in Steps, NEW t \in Nat,
         Then(<<Do(x, t)>>), UNCHANGED method,
         h \in Ends => x \in Ends \ {"setMain"},
         h = "window" => x = "switchTab"
  PROVE  LastStep'
BY StepMade, LastAnother

LEMMA EndNames ==
  /\ {"getCurrentTabId", "getTabIds", "open", "newWindow", "toFront", "closeBrowserWindow",
      "closeTab", "close", "switchToFirstSiblingTab", "switchToSibling"} \cap Ends = {}
  /\ {"closeOf", "closeOthers", "elect", "end", "window", "switchTab", "switchToMain",
      "switchToMainSiblingTab"} \subseteq Ends \ {"setMain"}
  /\ {"switchTab", "toFront", "closeTab", "close", "closeOf", "switchToSibling", "switchToMain",
      "window"} \subseteq Steps
BY DEF Ends, Closing, Steps, TabCalls

(* The methods and steps that are not the end of closing.                    *)
LEMMA LastQuietStep ==
  ASSUME Base, LastStep,
         \/ GetCurrentTabId \/ GetTabIds \/ OpenPage \/ NewWindow \/ CloseBrowserWindow
         \/ CloseTab \/ CloseCommand \/ SwitchToFirstSiblingTab
  PROVE  LastStep'
<1>1. CASE GetCurrentTabId
  BY <1>1, LastReply, EndNames DEF GetCurrentTabId, Command, Completes
<1>2. CASE GetTabIds
  BY <1>2, LastReply, EndNames DEF GetTabIds, Command, Completes
<1>3. CASE OpenPage
  BY <1>3, LastReply, EndNames DEF OpenPage, Command, Completes
<1>4. CASE NewWindow
  <2>1. driver.session \/ CanOpen(driver)
    BY <1>4 DEF NewWindow, Command, Completes
  <2>2. At("newWindow") /\ method' = method
        /\ \E p \in Page : Then(<<Do("toFront", p)>>)
    <3> DEFINE c == CreateClient(driver)
    <3>1. Sound(c) /\ c.session
      BY <2>1, QuestionsAnswered DEF Grows
    <3>2. CanOpen(c) => NewPage(c) \in Page
      BY <3>1, PopupGrows
    <3>3. Open(c) \subseteq Page
      BY DEF Open
    <3> QED
      BY <1>4, <3>2, <3>3 DEF NewWindow, Command, Completes
  <2>3. Page \subseteq Nat
    BY DEF Page
  <2> QED
    BY <2>2, <2>3, LastGo, EndNames
<1>5. CASE CloseBrowserWindow
  <2> DEFINE x == IF Arg # 0 THEN Arg ELSE mainTabID'
  <2>1. At("closeBrowserWindow") /\ InitMain /\ Then(<<Do("closeTab", x)>>)
    BY <1>5 DEF CloseBrowserWindow
  <2>2. Arg \in Nat /\ mainTabID' \in Nat /\ method' = method
    BY <2>1, HeadStep, QuietNames, InitMainKept DEF Kept
  <2>3. x \in Nat
    BY <2>2
  <2> HIDE DEF x
  <2> QED
    BY <2>1, <2>2, <2>3, LastGo, EndNames
<1>6. CASE CloseTab
  <2>1. At("closeTab") /\ Then(<<Do("close", Arg)>>) /\ method' = method
    BY <1>6 DEF CloseTab, Completes
  <2>2. Arg \in Nat
    BY <2>1, HeadStep, QuietNames
  <2> QED
    BY <2>1, <2>2, LastGo, EndNames
<1>7. CASE CloseCommand
  BY <1>7, LastReply, EndNames DEF CloseCommand
<1>8. CASE SwitchToFirstSiblingTab
  <2>1. CASE At("switchToFirstSiblingTab") /\ InitMain /\ Then(<<Do("switchToSibling", mainTabID')>>)
    <3>1. mainTabID' \in Nat /\ method' = method
      BY <2>1, InitMainKept DEF Kept
    <3> QED
      BY <2>1, <3>1, LastGo, EndNames
  <2>2. CASE /\ At("switchToSibling") /\ Command(NameAll(driver))
             /\ LET siblings == Ascending(Range(TabIds(driver')) \ {Arg})
                IN Then(IF siblings = <<>> THEN <<>> ELSE <<Do("window", siblings[1])>>)
    <3> DEFINE siblings == Ascending(Range(TabIds(driver')) \ {Arg})
    <3>1. (driver.session \/ CanOpen(driver)) /\ driver' = NameAll(driver) /\ method' = method
      BY <2>2 DEF Command, Completes
    <3>2. TabIds(driver') \in Seq(Nat)
      BY <3>1, QuestionsAnswered
    <3>3. siblings \in Seq(Nat)
      BY <3>2, AscendingOthers
    <3>4. Then(IF siblings = <<>> THEN <<>> ELSE <<Do("window", siblings[1])>>)
      BY <2>2
    <3> HIDE DEF siblings
    <3>5. CASE siblings = <<>>
      BY <2>2, <3>1, <3>4, <3>5, LastReply, EndNames
    <3>6. CASE siblings # <<>>
      <4>1. siblings[1] \in Nat /\ Then(<<Do("window", siblings[1])>>)
        BY <3>3, <3>4, <3>6
      <4> QED
        BY <2>2, <3>1, <4>1, LastGo, EndNames
    <3> QED
      BY <3>5, <3>6
  <2> QED
    BY <1>8, <2>1, <2>2 DEF SwitchToFirstSiblingTab
<1> QED
  BY <1>1, <1>2, <1>3, <1>4, <1>5, <1>6, <1>7, <1>8

(* The method fails.                                                         *)
LEMMA LastRefused ==
  ASSUME Base, LastStep, Refused
  PROVE  LastStep'
BY DEF Refused, LastStep

(* Going to a tab.                                                           *)
LEMMA LastGoTo ==
  ASSUME Base, LastStep, NEW h \in {"switchTab", "toFront"}, At(h), NEW c, Grows(driver, c), c.session,
         NEW q \in Open(c), Command([c EXCEPT !.page = q]), Then(<<>>)
  PROVE  LastStep'
<1> DEFINE e == [c EXCEPT !.page = q]
<1>1. Sound(c)
  BY DEF Grows
<1>2. e.session /\ e.state[e.page] = "open"
  BY <1>1, GoToGrows
<1>3. driver' = e /\ method' = method
  BY DEF Command, Completes
<1> HIDE DEF e
<1>4. Settled(driver')
  BY <1>2, <1>3 DEF Settled
<1> QED
  BY <1>3, <1>4, LastReply

LEMMA LastSwitchStep ==
  ASSUME Base, LastStep, Window \/ SwitchTab \/ ToFront
  PROVE  LastStep'
<1>1. CASE Window
  <2>1. At("window") /\ InitMain /\ Then(<<Do("switchTab", Arg)>>)
    BY <1>1 DEF Window
  <2>2. Arg \in Nat /\ method' = method
    BY <2>1, HeadStep, QuietNames, InitMainKept DEF Kept
  <2> QED
    BY <2>1, <2>2, LastGo, EndNames
<1>2. CASE SwitchTab
  <2> DEFINE c == CreateClient(driver)
             S == PageOf(c, Arg) \cap Open(c)
  <2>1. CASE Refused
    BY <2>1, LastRefused
  <2>2. CASE (\E q \in S : Command([c EXCEPT !.page = q])) /\ Then(<<>>)
    <3>1. PICK q \in S : Command([c EXCEPT !.page = q])
      BY <2>2
    <3>2. driver.session \/ CanOpen(driver)
      BY <3>1 DEF Command, Completes
    <3>3. Grows(driver, c) /\ c.session
      BY <3>2, QuestionsAnswered
    <3>4. q \in Open(c) /\ Then(<<>>) /\ At("switchTab")
      BY <1>2, <2>2, <3>1 DEF SwitchTab
    <3> HIDE DEF c, S
    <3> QED
      BY <3>1, <3>3, <3>4, LastGoTo
  <2> QED
    BY <1>2, <2>1, <2>2 DEF SwitchTab
<1>3. CASE ToFront
  <2>1. CASE Refused
    BY <2>1, LastRefused
  <2>2. CASE Arg \in Open(driver) /\ Command([driver EXCEPT !.page = Arg]) /\ Then(<<>>)
    <3>1. Sound(driver) /\ driver.session /\ At("toFront")
      BY <1>3, <2>2 DEF Base, Sound, ToFront
    <3>2. Grows(driver, driver)
      BY <3>1 DEF Grows
    <3> QED
      BY <2>2, <3>1, <3>2, LastGoTo
  <2> QED
    BY <1>3, <2>1, <2>2 DEF ToFront
<1> QED
  BY <1>1, <1>2, <1>3

(* The methods and steps that may be the last of closing.                    *)
LEMMA LastCloseStep ==
  ASSUME Base, LastStep, CloseCurrentTab \/ CloseOf \/ CloseAllOtherTabs \/ CloseOthers
  PROVE  LastStep'
<1>1. CASE CloseCurrentTab
  <2> DEFINE t == Current(driver')
  <2>1. At("closeCurrentTab") /\ Command(NameCurrent(driver)) /\ Then(<<Do("closeOf", t)>>)
    BY <1>1 DEF CloseCurrentTab
  <2>2. (driver.session \/ CanOpen(driver)) /\ driver' = NameCurrent(driver) /\ method' = method
    BY <2>1 DEF Command, Completes
  <2>3. t \in Nat
    BY <2>2, QuestionsAnswered
  <2> HIDE DEF t
  <2> QED
    BY <2>1, <2>2, <2>3, LastGo, EndNames
<1>2. CASE CloseOf
  <2> DEFINE x == Do("closeBrowserWindow", Arg)
             z == IF Arg = mainTabID' THEN "elect" ELSE "switchToMainSiblingTab"
             y == Just(z)
  <2>1. At("closeOf") /\ InitMain /\ Then(<<x, y>>)
    BY <1>2 DEF CloseOf
  <2>2. Arg \in Nat /\ method' = method
    BY <2>1, HeadStep, QuietNames, InitMainKept DEF Kept
  <2>3. z \in {"elect", "switchToMainSiblingTab"} /\ z \in Steps
    BY CloserNames
  <2> HIDE DEF z
  <2>4. x \in StepKind /\ y \in StepKind /\ y.do = z
    BY <2>2, <2>3, CloserNames, StepMade
  <2> HIDE DEF x, y
  <2> DEFINE q == <<x, y>>
  <2>5. q \in Seq(StepKind) /\ q # <<>> /\ q[Len(q)] = y /\ Then(q)
    BY <2>1, <2>4
  <2> HIDE DEF q
  <2>6. q[Len(q)].do \in Ends \ {"setMain"}
    BY <2>3, <2>4, <2>5, EndNames DEF Ends
  <2> QED
    BY <2>1, <2>2, <2>5, <2>6, LastThen
<1>3. CASE CloseAllOtherTabs
  <2> DEFINE x == [do |-> "closeOthers", tabs |-> TabIds(driver')]
  <2>1. At("closeAllOtherTabs") /\ Command(NameAll(driver)) /\ Then(<<x>>)
    BY <1>3 DEF CloseAllOtherTabs
  <2>2. (driver.session \/ CanOpen(driver)) /\ driver' = NameAll(driver) /\ method' = method
    BY <2>1 DEF Command, Completes
  <2>3. TabIds(driver') \in Seq(Nat)
    BY <2>2, QuestionsAnswered
  <2>4. x \in StepKind /\ x.do = "closeOthers"
    BY <2>3, CloserNames DEF StepKind
  <2> HIDE DEF x
  <2> QED
    BY <2>1, <2>2, <2>4, LastAnother, EndNames
<1>4. CASE CloseOthers
  <2> DEFINE others == Ascending(Range(Head(todo).tabs) \ {mainTabID'})
             r == CloseEach(others)
             x == Just("switchToMainSiblingTab")
             q == r \o <<x>>
  <2>1. At("closeOthers") /\ InitMain /\ Then(q)
    BY <1>4 DEF CloseOthers
  <2>2. method' = method /\ Head(todo).tabs \in Seq(Nat)
    BY <2>1, HeadStep, InitMainKept DEF Kept, StepKind
  <2>3. others \in Seq(Nat)
    BY <2>2, AscendingOthers
  <2> HIDE DEF others
  <2>4. r \in Seq(StepKind)
    BY <2>3, CloseEachSteps
  <2>5. x \in StepKind /\ x.do = "switchToMainSiblingTab"
    <3>1. 0 \in Nat
      OBVIOUS
    <3> QED
      BY <3>1, CloserNames, StepMade
  <2> HIDE DEF r, x
  <2>6. q \in Seq(StepKind) /\ q # <<>> /\ q[Len(q)] = x
    BY <2>4, <2>5
  <2> HIDE DEF q
  <2> QED
    BY <2>1, <2>2, <2>5, <2>6, LastThen, EndNames
<1> QED
  BY <1>1, <1>2, <1>3, <1>4

LEMMA LastFirstSiblingStep ==
  ASSUME Base, LastStep, CloseFirstSiblingTab
  PROVE  LastStep'
<1> DEFINE x == Just("switchToFirstSiblingTab")
           y == Just("closeCurrentTab")
           z == Just("switchToMainSiblingTab")
<1>1. At("closeFirstSiblingTab") /\ Then(<<x, y, z>>) /\ method' = method
  BY DEF CloseFirstSiblingTab
<1>2. {"switchToFirstSiblingTab", "closeCurrentTab", "switchToMainSiblingTab"} \subseteq Steps /\ 0 \in Nat
  BY DEF Steps, TabCalls
<1>3. x \in StepKind /\ y \in StepKind /\ z \in StepKind /\ z.do = "switchToMainSiblingTab"
  BY <1>2, StepMade
<1> HIDE DEF x, y, z
<1> DEFINE q == <<x, y, z>>
<1>4. q \in Seq(StepKind) /\ q # <<>> /\ q[Len(q)] = z /\ Then(q)
  BY <1>1, <1>3
<1> HIDE DEF q
<1> QED
  BY <1>1, <1>3, <1>4, LastThen, EndNames

LEMMA LastMainSiblingStep ==
  ASSUME Base, LastStep, SwitchToMainSiblingTab
  PROVE  LastStep'
<1>1. CASE At("switchToMainSiblingTab") /\ InitMain /\ Then(<<Do("switchToMain", mainTabID')>>)
  <2>1. mainTabID' \in Nat /\ method' = method
    BY <1>1, InitMainKept DEF Kept
  <2> QED
    BY <1>1, <2>1, LastGo, EndNames
<1>2. CASE /\ At("switchToMain") /\ Command(NameAll(driver))
           /\ LET ids == TabIds(driver')
              IN Then(IF ids = <<>> THEN <<>>
                      ELSE <<Do("window", IF Arg \in Range(ids) THEN Arg ELSE ids[1])>>)
  <2> DEFINE ids == TabIds(driver')
             t   == IF Arg \in Range(ids) THEN Arg ELSE ids[1]
  <2>1. (driver.session \/ CanOpen(driver)) /\ driver' = NameAll(driver) /\ method' = method
    BY <1>2 DEF Command, Completes
  <2>2. ids \in Seq(Nat) /\ (ids = <<>> => Open(driver') = {})
    BY <2>1, QuestionsAnswered
  <2>3. Arg \in Nat
    BY <1>2, HeadStep, QuietNames
  <2>4. Then(IF ids = <<>> THEN <<>> ELSE <<Do("window", t)>>)
    BY <1>2
  <2>5. CASE ids = <<>>
    <3> HIDE DEF ids, t
    <3>1. Then(<<>>) /\ Settled(driver')
      BY <2>2, <2>4, <2>5 DEF Settled
    <3> QED
      BY <1>2, <2>1, <3>1, LastReply
  <2>6. CASE ids # <<>>
    <3>1. t \in Nat
      <4> HIDE DEF ids
      <4> QED
        BY <2>2, <2>3, <2>6
    <3> HIDE DEF ids, t
    <3>2. Then(<<Do("window", t)>>)
      BY <2>4, <2>6
    <3> QED
      BY <1>2, <2>1, <3>1, <3>2, LastGo, EndNames
  <2> QED
    BY <2>5, <2>6
<1> QED
  BY <1>1, <1>2 DEF SwitchToMainSiblingTab

(* A main tab is elected, or the session ends.                               *)
LEMMA LastElectStep ==
  ASSUME Base, LastStep, Elect \/ SetMain \/ End
  PROVE  LastStep'
<1>1. CASE Elect
  <2> DEFINE ids == TabIds(driver')
             e   == Just("end")
             x   == Do("window", ids[1])
             y   == Do("setMain", ids[1])
  <2>1. At("elect") /\ Command(NameAll(driver)) /\ Then(IF ids = <<>> THEN <<e>> ELSE <<x, y>>)
    BY <1>1 DEF Elect
  <2>2. (driver.session \/ CanOpen(driver)) /\ driver' = NameAll(driver) /\ method' = method
    BY <2>1 DEF Command, Completes
  <2>3. ids \in Seq(Nat)
    BY <2>2, QuestionsAnswered
  <2> HIDE DEF ids
  <2>4. CASE ids = <<>>
    <3>1. Then(<<e>>) /\ 0 \in Nat
      BY <2>1, <2>4
    <3>2. e \in StepKind /\ e.do = "end"
      BY <3>1, CloserNames, StepMade
    <3> HIDE DEF e
    <3> QED
      BY <2>1, <2>2, <3>1, <3>2, LastAnother, EndNames
  <2>5. CASE ids # <<>>
    <3>1. Then(<<x, y>>) /\ ids[1] \in Nat
      BY <2>1, <2>3, <2>5
    <3>2. x \in StepKind /\ x.do = "window" /\ y \in StepKind /\ y.do = "setMain"
      BY <3>1, CloserNames, StepMade
    <3> HIDE DEF x, y
    <3> DEFINE q == <<x, y>>
    <3>3. q \in Seq(StepKind) /\ q # <<>> /\ Len(q) = 2 /\ q[1] = x /\ q[Len(q)] = y /\ Then(q)
      BY <3>1, <3>2
    <3> HIDE DEF q
    <3>4. "setMain" \in Ends
      BY DEF Ends
    <3> QED
      BY <2>1, <2>2, <3>1, <3>2, <3>3, <3>4, LastThen
  <2> QED
    BY <2>4, <2>5
<1>2. CASE SetMain
  <2>1. At("setMain") /\ Then(<<>>) /\ UNCHANGED <<driver, method>>
    BY <1>2 DEF SetMain
  <2>2. ASSUME method \in Closing, Len(todo) = 1
        PROVE  Settled(driver')
    <3>1. todo # <<>> /\ Head(todo) = todo[1] /\ Head(todo).do = "setMain"
      BY <2>1, Replaced, NoSteps DEF At, Base
    <3> QED
      BY <2>1, <2>2, <3>1 DEF LastStep
  <2> QED
    BY <2>1, <2>2, LastReply
<1>3. CASE End
  <2>1. At("end") /\ Then(<<>>) /\ method' = method /\ driver' = EndSession(driver)
    BY <1>3 DEF End, Completes
  <2>2. Settled(driver')
    BY <2>1, EndSessionStep DEF Settled, Base
  <2> QED
    BY <2>1, <2>2, LastReply
<1> QED
  BY <1>1, <1>2, <1>3

LEMMA LastCallStep ==
  ASSUME Base, LastStep, NEW m \in TabCalls, Call(m)
  PROVE  LastStep'
<1>1. PICK t \in 0..driver.made : todo' = <<Do(m, t)>>
  BY DEF Call
<1> DEFINE x == Do(m, t)
<1>2. method' = m /\ m \in Steps /\ t \in Nat
  BY DEF Call, Base, Sound, DriverKind, Steps
<1>3. x \in StepKind /\ x.do = m
  BY <1>2, StepMade
<1>4. todo' = <<x>>
  BY <1>1
<1> HIDE DEF x
<1>5. todo' # <<>> /\ todo'[Len(todo')] = x
  BY <1>3, <1>4
<1>6. m \in Closing => m \in Ends /\ m # "setMain"
  BY DEF Closing, Ends
<1> QED
  BY <1>2, <1>3, <1>5, <1>6 DEF LastStep

(* A page that is opened or goes away does not close another.                *)
LEMMA LastPageStep ==
  ASSUME Base, LastStep, Popup \/ \E p \in Page : GoAway(p)
  PROVE  LastStep'
<1>1. Sound(driver) /\ (driver.session => driver.page \in Page)
  BY DEF Base, Sound
<1>2. Settled(driver) => Settled(driver')
  <2>1. CASE Popup
    <3>1. driver.session /\ CanOpen(driver) /\ Open(driver) # {} /\ driver' = WithNewPage(driver)
      BY <1>1, <2>1 DEF Popup, Sound
    <3>2. PICK m \in 0..MaxPages : Known(driver) = 1..m
      BY <1>1 DEF Sound
    <3>3. /\ \A p \in Page : driver'.state[p] = IF p = NewPage(driver) THEN "open" ELSE driver.state[p]
          /\ driver'.page = driver.page
      BY <1>1, <3>1, <3>2, NewPageStep DEF Sound
    <3> QED
      BY <1>1, <3>1, <3>3 DEF Settled
  <2>2. CASE \E p \in Page : GoAway(p)
    <3>1. PICK p \in Open(driver) : driver' = [driver EXCEPT !.state[p] = "gone"]
      BY <2>2 DEF GoAway
    <3>2. /\ driver'.session = driver.session /\ driver'.page = driver.page
          /\ Open(driver') \subseteq Open(driver) /\ driver'.state[p] = "gone"
          /\ \A q \in Page \ {p} : driver'.state[q] = driver.state[q]
      BY <1>1, <3>1, GoneStep
    <3> QED
      BY <1>1, <3>2 DEF Settled
  <2> QED
    BY <2>1, <2>2
<1>3. UNCHANGED <<todo, method, failed>>
  BY DEF Popup, GoAway
<1> QED
  BY <1>2, <1>3 DEF LastStep

LEMMA LastNext == TabsInv /\ LastStep /\ [TabsNext]_tabsVars => LastStep'
<1> SUFFICES ASSUME Base, LastStep, [TabsNext]_tabsVars
             PROVE  LastStep'
  BY DEF TabsInv
<1>1. CASE Method
  BY <1>1, LastQuietStep, LastSwitchStep, LastCloseStep, LastFirstSiblingStep,
     LastMainSiblingStep, LastElectStep DEF Method
<1>2. CASE \E m \in TabCalls : Call(m)
  BY <1>2, LastCallStep
<1>3. CASE Popup \/ \E p \in Page : GoAway(p)
  BY <1>3, LastPageStep
<1>4. CASE UNCHANGED tabsVars
  BY <1>4 DEF LastStep, tabsVars
<1> QED
  BY <1>1, <1>2, <1>3, <1>4 DEF TabsNext

(* A method that closes tabs leaves the application at a tab that it has not   *)
(* closed, if there is one.                                                  *)
THEOREM TheFocusFollows == TabsSpec => []FocusFollows
<1>1. TabsInit => LastStep
  BY DEF TabsInit, LastStep, Closing
<1>2. LastStep => FocusFollows
  BY DEF LastStep, FocusFollows, Done, Settled, Closing
<1> QED
  BY <1>1, <1>2, LastNext, TabsInvInit, TabsInvStep, PTL DEF TabsSpec

-----------------------------------------------------------------------------
(* Types: the ids are those that have been made, and no page is waiting to be *)
(* closed when there is no session.                                          *)

Numbered(d) == \A p \in Page : d.tab[p] <= d.made

LEMMA NamedNumbered ==
  ASSUME NEW d \in DriverKind, Numbered(d), NEW p \in Page
  PROVE  Numbered(Named(d, p))
<1>1. d.made \in Nat /\ d.tab \in [Page -> Nat]
  BY DEF DriverKind
<1>2. CASE d.tab[p] # 0
  BY <1>2 DEF Named
<1>3. CASE d.tab[p] = 0
  <2> DEFINE made == d.made + 1
             tabs == [d.tab EXCEPT ![p] = made]
  <2>1. \A q \in Page : tabs[q] <= made
    BY <1>1 DEF Numbered
  <2>2. Named(d, p) = [[d EXCEPT !.tab = tabs] EXCEPT !.made = made]
    BY <1>3 DEF Named, DriverKind
  <2> HIDE DEF made, tabs
  <2>3. Named(d, p).tab = tabs /\ Named(d, p).made = made
    BY <2>2 DEF DriverKind
  <2> QED
    BY <2>1, <2>3 DEF Numbered
<1> QED
  BY <1>2, <1>3

LEMMA CreateClientNumbered ==
  ASSUME NEW d, Sound(d), Numbered(d), d.session \/ CanOpen(d)
  PROVE  Numbered(CreateClient(d))
<1>1. CASE d.session
  BY <1>1 DEF CreateClient
<1>2. CASE ~d.session
  <2> DEFINE n == NewPage(d)
             w == WithNewPage(d)
             c == WithPage(w, TRUE, n)
  <2>1. PICK m \in 0..MaxPages : Known(d) = 1..m
    BY DEF Sound
  <2>2. n \in Page /\ w \in DriverKind /\ w.tab = d.tab /\ w.made = d.made
    BY <1>2, <2>1, NewPageStep DEF Sound
  <2>3. n \in 0..MaxPages
    BY <2>2, TabsAssumption DEF Page
  <2>4. CreateClient(d) = Named(c, n)
    BY <1>2 DEF CreateClient, WithPage
  <2> HIDE DEF n, w
  <2>5. c \in DriverKind /\ c.tab = w.tab
    BY <2>2, <2>3, DriverSession
  <2>6. c.made = w.made
    BY <2>2 DEF WithPage, DriverKind
  <2> HIDE DEF c
  <2>7. Numbered(c)
    BY <2>2, <2>5, <2>6 DEF Numbered
  <2> QED
    BY <2>2, <2>4, <2>5, <2>7, NamedNumbered
<1> QED
  BY <1>1, <1>2

LEMMA NameAllNumbered ==
  ASSUME NEW d, Sound(d), Numbered(d), d.session \/ CanOpen(d)
  PROVE  Numbered(NameAll(d))
<1> DEFINE c  == CreateClient(d)
           un == {p \in Open(c) : c.tab[p] = 0}
           e  == NameAll(d)
           n  == Cardinality(un)
           tabs == [p \in Page |-> IF p \in un THEN c.made + Cardinality({q \in un : q <= p})
                                   ELSE c.tab[p]]
<1>1. c \in DriverKind /\ Numbered(c)
  BY CreateClientGrows, CreateClientNumbered DEF Grows, Sound
<1>2. un \in SUBSET Page
  BY DEF Open
<1>3. e = [c EXCEPT !.tab = tabs, !.made = @ + n]
  BY DEF NameAll
<1>4. n \in Nat /\ IsFiniteSet(un)
  BY <1>2, PagesAreFinite
<1>5. \A p \in Page : Cardinality({q \in un : q <= p}) \in Nat /\ Cardinality({q \in un : q <= p}) <= n
  <2> SUFFICES ASSUME NEW p \in Page
               PROVE  Cardinality({q \in un : q <= p}) \in Nat /\ Cardinality({q \in un : q <= p}) <= n
    OBVIOUS
  <2> DEFINE A == {q \in un : q <= p}
  <2>1. A \in SUBSET un
    OBVIOUS
  <2> HIDE DEF A, un
  <2>2. IsFiniteSet(A) /\ Cardinality(A) <= Cardinality(un) /\ Cardinality(A) \in Nat
    BY <1>4, <2>1, FS_Subset, FS_CardinalityType
  <2> QED
    BY <2>2 DEF A
<1> HIDE DEF c, un, e, n
<1>6. c.made \in Nat /\ \A p \in Page : c.tab[p] \in Nat /\ c.tab[p] <= c.made
  BY <1>1 DEF DriverKind, Numbered
<1>7. \A p \in Page : tabs[p] <= c.made + n
  BY <1>4, <1>5, <1>6
<1> HIDE DEF tabs
<1>8. e.tab = tabs /\ e.made = c.made + n
  <2>1. e = [[c EXCEPT !.tab = tabs] EXCEPT !.made = c.made + n]
    BY <1>1, <1>3 DEF DriverKind
  <2> QED
    BY <1>1, <2>1 DEF DriverKind
<1>9. Numbered(e)
  BY <1>7, <1>8 DEF Numbered
<1> QED
  BY <1>9 DEF e

LEMMA QuestionsNumbered ==
  ASSUME Base, Numbered(driver), driver.session \/ CanOpen(driver)
  PROVE  /\ Numbered(CreateClient(driver)) /\ Numbered(NameCurrent(driver))
         /\ Numbered(NameAll(driver))
<1>1. Sound(driver)
  BY DEF Base
<1>2. Numbered(CreateClient(driver)) /\ Numbered(NameAll(driver))
  BY <1>1, CreateClientNumbered, NameAllNumbered
<1>3. CreateClient(driver) \in DriverKind /\ CreateClient(driver).page \in Page
  BY <1>1, CreateClientGrows DEF Grows, Sound
<1>4. NameCurrent(driver) = Named(CreateClient(driver), CreateClient(driver).page)
  BY DEF NameCurrent
<1>5. Numbered(NameCurrent(driver))
  BY <1>2, <1>3, <1>4, NamedNumbered
<1> QED
  BY <1>2, <1>5

(* The tab, or the page, a step is about.                                    *)
InRange(s) == Range(s.tabs) \subseteq IF s.do = "toFront" THEN Page ELSE 0..MaxTabs

TabsTyped ==
  /\ Numbered(driver) /\ driver.made <= MaxTabs /\ mainTabID <= MaxTabs
  /\ \A s \in Range(todo) : InRange(s) /\ (s.do = "close" => driver.session)
  /\ method \in TabCalls \cup {"none"} /\ calls \in 0..MaxCalls

LEMMA StepInRange ==
  ASSUME NEW x \in Steps, NEW t \in IF x = "toFront" THEN Page ELSE 0..MaxTabs
  PROVE  /\ Do(x, t) \in StepKind /\ Do(x, t).do = x /\ InRange(Do(x, t))
         /\ Just(x) \in StepKind /\ Just(x).do = x /\ InRange(Just(x))
<1>1. t \in Nat
  BY TabsAssumption DEF Page
<1>2. Do(x, t) \in StepKind /\ Do(x, t).do = x /\ Just(x) \in StepKind /\ Just(x).do = x
  BY <1>1, StepMade
<1>3. Range(Do(x, t).tabs) = {t}
  <2>1. Do(x, t).tabs = <<t>>
    BY DEF Do
  <2>2. <<t>> \in Seq(Nat) /\ Len(<<t>>) = 1 /\ <<t>>[1] = t
    BY <1>1
  <2>3. Range(<<t>>) = {<<t>>[k] : k \in 1..1}
    BY <2>2, IndexedRange
  <2> QED
    BY <2>1, <2>2, <2>3
<1>4. Range(Just(x).tabs) = {}
  <2>1. Just(x).tabs = <<>>
    BY DEF Just
  <2> QED
    BY <2>1, NoSteps
<1> QED
  BY <1>2, <1>3, <1>4 DEF InRange

LEMMA TypedThen ==
  ASSUME Base, TabsTyped, todo # <<>>, NEW steps \in Seq(StepKind), Then(steps),
         Numbered(driver'), driver'.made <= MaxTabs, mainTabID' <= MaxTabs,
         \A s \in Range(steps) : InRange(s) /\ (s.do = "close" => driver'.session),
         driver.session => driver'.session, UNCHANGED <<method, calls>>
  PROVE  TabsTyped'
<1>1. Rest(todo) \subseteq Range(todo) /\ Range(todo') = Range(steps) \cup Rest(todo)
  BY StepsFollow
<1>2. \A s \in Range(todo') : InRange(s) /\ (s.do = "close" => driver'.session)
  BY <1>1 DEF TabsTyped
<1> QED
  BY <1>2 DEF TabsTyped, InRange

(* What a question leaves.                                                   *)
LEMMA TypedReply ==
  ASSUME Base, TabsTyped, NEW h, At(h), Then(<<>>), Grows(driver, driver'), Numbered(driver'),
         driver'.made <= MaxTabs, mainTabID' <= MaxTabs, UNCHANGED <<method, calls>>
  PROVE  TabsTyped'
<1>1. todo # <<>> /\ (driver.session => driver'.session)
  BY DEF At, Grows
<1> QED
  BY <1>1, NoSteps, TypedThen

LEMMA TypedGo ==
  ASSUME Base, TabsTyped, NEW h, At(h), NEW x \in Steps,
         NEW t \in IF x = "toFront" THEN Page ELSE 0..MaxTabs, Then(<<Do(x, t)>>),
         x = "close" => driver'.session,
         Grows(driver, driver'), Numbered(driver'),
         driver'.made <= MaxTabs, mainTabID' <= MaxTabs, UNCHANGED <<method, calls>>
  PROVE  TabsTyped'
<1>1. todo # <<>> /\ (driver.session => driver'.session)
  BY DEF At, Grows
<1>2. Do(x, t) \in StepKind /\ Do(x, t).do = x /\ InRange(Do(x, t))
  BY StepInRange
<1> DEFINE s == Do(x, t)
<1>3. s \in StepKind /\ s.do = x /\ InRange(s) /\ Then(<<s>>)
  BY <1>2
<1> HIDE DEF s
<1>4. <<s>> \in Seq(StepKind) /\ Range(<<s>>) = {s}
  BY <1>3, OneStep
<1> QED
  BY <1>1, <1>3, <1>4, TypedThen

(* The tab at hand is one of those there are.                                *)
LEMMA ArgInRange ==
  ASSUME Base, TabsTyped, NEW h \in HasTab \ {"toFront"}, At(h)
  PROVE  Arg \in 0..MaxTabs
<1>1. Head(todo) \in StepKind /\ Head(todo) \in Range(todo) /\ Head(todo).do = h
      /\ Lawful(Head(todo), method)
  BY HeadStep
<1>2. Head(todo).tabs \in Seq(Nat) /\ Head(todo).tabs # <<>>
  BY <1>1 DEF Lawful, StepKind
<1>3. Arg \in Range(Head(todo).tabs)
  BY <1>2, Replaced DEF Arg
<1>4. Range(Head(todo).tabs) \subseteq 0..MaxTabs
  BY <1>1 DEF TabsTyped, InRange
<1> QED
  BY <1>3, <1>4

LEMMA CommandTyped ==
  ASSUME Base, TabsTyped, NEW d, Command(d), Numbered(d)
  PROVE  Numbered(driver') /\ driver'.made <= MaxTabs /\ mainTabID' <= MaxTabs
         /\ UNCHANGED <<method, calls>>
BY DEF Command, Completes, TabsTyped

LEMMA InitMainTyped ==
  ASSUME Base, TabsTyped, InitMain
  PROVE  Numbered(driver') /\ driver'.made <= MaxTabs /\ mainTabID' \in 0..MaxTabs
         /\ UNCHANGED <<method, calls>>
<1>1. (driver.session \/ CanOpen(driver)) /\ driver' = WithMain(driver) /\ driver'.made <= MaxTabs
      /\ mainTabID' = MainOf(driver') /\ UNCHANGED <<method, calls>>
  BY DEF InitMain, Completes
<1>2. MaxTabs \in Nat
  BY TabsAssumption
<1>3. CASE mainTabID # 0
  BY <1>1, <1>2, <1>3 DEF WithMain, MainOf, TabsTyped, Base
<1>4. CASE mainTabID = 0
  <2>1. driver' = NameCurrent(driver) /\ mainTabID' = Current(driver')
    BY <1>1, <1>4 DEF WithMain, MainOf
  <2>2. Numbered(driver')
    BY <1>1, <2>1, QuestionsNumbered DEF TabsTyped
  <2>3. driver' \in DriverKind /\ driver'.page \in Page
    BY <1>1, <2>1, NameCurrentGrows DEF Grows, Sound, Base
  <2>4. driver'.tab[driver'.page] \in Nat /\ driver'.made \in Nat
        /\ driver'.tab[driver'.page] <= driver'.made
    BY <2>2, <2>3 DEF Numbered, DriverKind
  <2> QED
    BY <1>1, <1>2, <2>1, <2>2, <2>4 DEF Current
<1> QED
  BY <1>3, <1>4

(* The ids that getTabIds answers.                                           *)
LEMMA IdsInRange ==
  ASSUME Base, TabsTyped, driver.session \/ CanOpen(driver), NameAll(driver).made <= MaxTabs
  PROVE  /\ TabIds(NameAll(driver)) \in Seq(Nat)
         /\ Range(TabIds(NameAll(driver))) \subseteq 0..MaxTabs
         /\ \A k \in 1..Len(TabIds(NameAll(driver))) : TabIds(NameAll(driver))[k] \in 0..MaxTabs
<1> DEFINE e == NameAll(driver)
           ids == TabIds(e)
<1>1. ids \in Seq(Nat) /\ Range(ids) = {e.tab[p] : p \in Open(e)}
  BY QuestionsAnswered
<1>2. Numbered(e) /\ e \in DriverKind
  BY QuestionsNumbered, NameAllGrows DEF TabsTyped, Base, Grows, Sound
<1>3. \A p \in Page : e.tab[p] \in 0..MaxTabs
  BY <1>2, TabsAssumption DEF Numbered, DriverKind
<1>4. Range(ids) \subseteq 0..MaxTabs
  BY <1>1, <1>3 DEF Open
<1> HIDE DEF ids
<1>5. \A k \in 1..Len(ids) : ids[k] \in Range(ids)
  BY <1>1, IndexedRange
<1> QED
  BY <1>1, <1>4, <1>5 DEF ids

LEMMA TypedNames ==
  /\ {"closeTab", "close", "closeBrowserWindow", "closeOf", "switchToSibling", "switchToMain",
      "window", "switchTab", "setMain"} \subseteq Steps \ {"toFront"}
  /\ {"closeTab", "close", "closeBrowserWindow", "closeOf", "switchToSibling", "switchToMain",
      "window", "switchTab", "setMain"} \subseteq HasTab \ {"toFront"}
  /\ "toFront" \in Steps /\ 0 \in 0..MaxTabs /\ 0..MaxTabs \subseteq Nat
BY TabsAssumption DEF Steps, TabCalls, HasTab, Closers

LEMMA TypedAskSteps ==
  ASSUME Base, TabsTyped, GetCurrentTabId \/ GetTabIds \/ OpenPage \/ CloseCurrentTab
  PROVE  TabsTyped'
<1>1. ASSUME NEW d, Command(d)
      PROVE  (driver.session \/ CanOpen(driver)) /\ driver' = d
  BY <1>1 DEF Command, Completes
<1>2. CASE GetCurrentTabId
  <2>1. At("getCurrentTabId") /\ Command(NameCurrent(driver)) /\ Then(<<>>)
    BY <1>2 DEF GetCurrentTabId
  <2> QED
    BY <1>1, <2>1, QuestionsNumbered, QuestionsAnswered, CommandTyped, TypedReply DEF TabsTyped
<1>3. CASE GetTabIds
  <2>1. At("getTabIds") /\ Command(NameAll(driver)) /\ Then(<<>>)
    BY <1>3 DEF GetTabIds
  <2> QED
    BY <1>1, <2>1, QuestionsNumbered, QuestionsAnswered, CommandTyped, TypedReply DEF TabsTyped
<1>4. CASE OpenPage
  <2>1. At("open") /\ Command(CreateClient(driver)) /\ Then(<<>>)
    BY <1>4 DEF OpenPage
  <2> QED
    BY <1>1, <2>1, QuestionsNumbered, QuestionsAnswered, CommandTyped, TypedReply DEF TabsTyped
<1>5. CASE CloseCurrentTab
  <2> DEFINE t == Current(driver')
  <2>1. At("closeCurrentTab") /\ Command(NameCurrent(driver)) /\ Then(<<Do("closeOf", t)>>)
    BY <1>5 DEF CloseCurrentTab
  <2>2. driver.session \/ CanOpen(driver)
    BY <1>1, <2>1
  <2>3. driver' = NameCurrent(driver) /\ Grows(driver, driver') /\ Numbered(driver')
        /\ driver'.made <= MaxTabs /\ mainTabID' <= MaxTabs /\ UNCHANGED <<method, calls>>
    BY <1>1, <2>1, <2>2, QuestionsNumbered, QuestionsAnswered, CommandTyped DEF TabsTyped
  <2>4. driver' \in DriverKind /\ driver'.page \in Page
    BY <2>2, <2>3, NameCurrentGrows DEF Grows, Sound, Base
  <2>5. t \in 0..MaxTabs
    BY <2>3, <2>4, TabsAssumption DEF Current, Numbered, DriverKind
  <2> HIDE DEF t
  <2> QED
    BY <2>1, <2>3, <2>5, TypedNames, TypedGo
<1> QED
  BY <1>2, <1>3, <1>4, <1>5

(* The steps that ask for the main tab and go on with one step.               *)
LEMMA TypedMainSteps ==
  ASSUME Base, TabsTyped, InitMain, NEW h, At(h), NEW x \in Steps \ {"toFront", "close"},
         NEW t \in 0..MaxTabs, Then(<<Do(x, t)>>)
  PROVE  TabsTyped'
<1>1. Grows(driver, driver') /\ mainTabID' <= MaxTabs
  BY InitMainKept, InitMainTyped DEF Kept
<1> QED
  BY <1>1, InitMainTyped, TypedGo

LEMMA TypedWindowSteps ==
  ASSUME Base, TabsTyped, Window \/ CloseBrowserWindow
  PROVE  TabsTyped'
<1>1. CASE Window
  <2>1. At("window") /\ InitMain /\ Then(<<Do("switchTab", Arg)>>)
    BY <1>1 DEF Window
  <2>2. Arg \in 0..MaxTabs
    BY <2>1, ArgInRange, TypedNames
  <2> QED
    BY <2>1, <2>2, TypedNames, TypedMainSteps
<1>2. CASE CloseBrowserWindow
  <2> DEFINE x == IF Arg # 0 THEN Arg ELSE mainTabID'
  <2>1. At("closeBrowserWindow") /\ InitMain /\ Then(<<Do("closeTab", x)>>)
    BY <1>2 DEF CloseBrowserWindow
  <2>2. Arg \in 0..MaxTabs /\ mainTabID' \in 0..MaxTabs
    BY <2>1, ArgInRange, InitMainTyped, TypedNames
  <2>3. x \in 0..MaxTabs
    BY <2>2
  <2> HIDE DEF x
  <2> QED
    BY <2>1, <2>3, TypedNames, TypedMainSteps
<1> QED
  BY <1>1, <1>2

(* Going to a page leaves the ids as they are.                               *)
LEMMA TypedGoTo ==
  ASSUME Base, TabsTyped, NEW h, At(h), NEW c, Grows(driver, c), c.session, Numbered(c),
         NEW q \in Open(c), Command([c EXCEPT !.page = q]), Then(<<>>)
  PROVE  TabsTyped'
<1> DEFINE e == [c EXCEPT !.page = q]
<1>1. Sound(c) /\ c \in DriverKind
  BY DEF Grows, Sound
<1>2. Grows(c, e)
  BY <1>1, GoToGrows
<1>3. e.tab = c.tab /\ e.made = c.made
  BY <1>1 DEF DriverKind
<1>4. Command(e)
  OBVIOUS
<1> HIDE DEF e
<1>5. Grows(driver, e) /\ Numbered(e) /\ driver' = e
  BY <1>2, <1>3, <1>4, GrowsTrans DEF Numbered, Base, Command, Completes
<1> QED
  BY <1>4, <1>5, CommandTyped, TypedReply

LEMMA TypedRefused ==
  ASSUME TabsTyped, Refused
  PROVE  TabsTyped'
<1>1. todo' = <<>> /\ UNCHANGED <<driver, mainTabID, method, calls>>
  BY DEF Refused
<1>2. Range(todo') = {}
  BY <1>1, NoSteps
<1> QED
  BY <1>1, <1>2 DEF TabsTyped, Numbered

LEMMA TypedSwitchSteps ==
  ASSUME Base, TabsTyped, SwitchTab \/ ToFront
  PROVE  TabsTyped'
<1>1. CASE SwitchTab
  <2> DEFINE c == CreateClient(driver)
             S == PageOf(c, Arg) \cap Open(c)
  <2>1. CASE Refused
    BY <2>1, TypedRefused
  <2>2. CASE (\E q \in S : Command([c EXCEPT !.page = q])) /\ Then(<<>>)
    <3>1. PICK q \in S : Command([c EXCEPT !.page = q])
      BY <2>2
    <3>2. driver.session \/ CanOpen(driver)
      BY <3>1 DEF Command, Completes
    <3>3. Grows(driver, c) /\ c.session /\ Numbered(c)
      BY <3>2, QuestionsAnswered, QuestionsNumbered DEF TabsTyped
    <3>4. q \in Open(c) /\ Then(<<>>) /\ At("switchTab")
      BY <1>1, <2>2, <3>1 DEF SwitchTab
    <3> HIDE DEF c, S
    <3> QED
      BY <3>1, <3>3, <3>4, TypedGoTo
  <2> QED
    BY <1>1, <2>1, <2>2 DEF SwitchTab
<1>2. CASE ToFront
  <2>1. CASE Refused
    BY <2>1, TypedRefused
  <2>2. CASE Arg \in Open(driver) /\ Command([driver EXCEPT !.page = Arg]) /\ Then(<<>>)
    <3>1. Sound(driver) /\ driver.session /\ At("toFront") /\ Numbered(driver)
      BY <1>2, <2>2 DEF Base, Sound, ToFront, TabsTyped
    <3>2. Grows(driver, driver)
      BY <3>1 DEF Grows
    <3> QED
      BY <2>2, <3>1, <3>2, TypedGoTo
  <2> QED
    BY <1>2, <2>1, <2>2 DEF ToFront
<1> QED
  BY <1>1, <1>2

LEMMA TypedNewWindowStep ==
  ASSUME Base, TabsTyped, NewWindow
  PROVE  TabsTyped'
<1> DEFINE c == CreateClient(driver)
<1>1. (driver.session \/ CanOpen(driver)) /\ At("newWindow")
  BY DEF NewWindow, Command, Completes
<1>2. Grows(driver, c) /\ Sound(c) /\ c.session /\ Numbered(c)
  BY <1>1, QuestionsAnswered, QuestionsNumbered DEF Grows, TabsTyped
<1>3. CASE \E p \in Open(c) : Command(c) /\ Then(<<Do("toFront", p)>>)
  <2>1. PICK p \in Open(c) : Command(c) /\ Then(<<Do("toFront", p)>>)
    BY <1>3
  <2>2. p \in Page
    BY DEF Open
  <2> HIDE DEF c
  <2>3. driver' = c
    BY <2>1 DEF Command, Completes
  <2> QED
    BY <1>1, <1>2, <2>1, <2>2, <2>3, CommandTyped, TypedGo, TypedNames
<1>4. CASE /\ CanOpen(c)
           /\ Command(Named(WithNewPage(c), NewPage(c)))
           /\ Then(<<Do("toFront", NewPage(c))>>)
  <2> DEFINE n == NewPage(c)
             w == WithNewPage(c)
             e == Named(w, n)
  <2> HIDE DEF c
  <2>1. Grows(c, e) /\ n \in Page
    BY <1>2, <1>4, NewTabGrows
  <2>2. PICK m \in 0..MaxPages : Known(c) = 1..m
    BY <1>2 DEF Sound
  <2>3. w \in DriverKind /\ w.tab = c.tab /\ w.made = c.made
    BY <1>2, <1>4, <2>2, NewPageStep DEF Sound
  <2>4. Command(e) /\ Then(<<Do("toFront", n)>>)
    BY <1>4
  <2> HIDE DEF w, n
  <2>5. Numbered(w)
    BY <1>2, <2>3 DEF Numbered
  <2>6. Numbered(e)
    BY <2>1, <2>3, <2>5, NamedNumbered
  <2> HIDE DEF e
  <2>7. driver' = e /\ Grows(driver, e)
    BY <1>2, <2>1, <2>4, GrowsTrans DEF Command, Completes, Base
  <2> QED
    BY <1>1, <2>1, <2>4, <2>6, <2>7, CommandTyped, TypedGo, TypedNames
<1> QED
  BY <1>3, <1>4 DEF NewWindow

(* The steps that go to one of the ids there are.                            *)
LEMMA TypedAnswered ==
  ASSUME Base, TabsTyped, Command(NameAll(driver))
  PROVE  /\ Grows(driver, driver') /\ driver'.session /\ Numbered(driver')
         /\ driver'.made <= MaxTabs /\ mainTabID' <= MaxTabs /\ UNCHANGED <<method, calls>>
         /\ TabIds(driver') \in Seq(Nat) /\ Range(TabIds(driver')) \subseteq 0..MaxTabs
<1>1. (driver.session \/ CanOpen(driver)) /\ driver' = NameAll(driver)
      /\ NameAll(driver).made <= MaxTabs
  BY DEF Command, Completes
<1>2. Numbered(NameAll(driver))
  BY <1>1, QuestionsNumbered DEF TabsTyped
<1> QED
  BY <1>1, <1>2, QuestionsAnswered, IdsInRange, CommandTyped

LEMMA FirstInRange ==
  ASSUME NEW q \in Seq(Nat), Range(q) \subseteq 0..MaxTabs, q # <<>>
  PROVE  q[1] \in 0..MaxTabs
<1>1. Range(q) = {q[k] : k \in 1..Len(q)} /\ 1 \in 1..Len(q)
  BY IndexedRange
<1> QED
  BY <1>1

LEMMA TypedFirstSiblingStep ==
  ASSUME Base, TabsTyped, SwitchToFirstSiblingTab
  PROVE  TabsTyped'
<1>1. CASE At("switchToFirstSiblingTab") /\ InitMain /\ Then(<<Do("switchToSibling", mainTabID')>>)
  <2>1. mainTabID' \in 0..MaxTabs
    BY <1>1, InitMainTyped
  <2> QED
    BY <1>1, <2>1, TypedNames, TypedMainSteps
<1>2. CASE /\ At("switchToSibling") /\ Command(NameAll(driver))
           /\ LET siblings == Ascending(Range(TabIds(driver')) \ {Arg})
              IN Then(IF siblings = <<>> THEN <<>> ELSE <<Do("window", siblings[1])>>)
  <2> DEFINE siblings == Ascending(Range(TabIds(driver')) \ {Arg})
  <2>1. /\ Grows(driver, driver') /\ Numbered(driver') /\ driver'.made <= MaxTabs
        /\ mainTabID' <= MaxTabs /\ UNCHANGED <<method, calls>>
        /\ TabIds(driver') \in Seq(Nat) /\ Range(TabIds(driver')) \subseteq 0..MaxTabs
    BY <1>2, TypedAnswered
  <2>2. siblings \in Seq(Nat) /\ Range(siblings) \subseteq 0..MaxTabs
    BY <2>1, AscendingOthers
  <2>3. Then(IF siblings = <<>> THEN <<>> ELSE <<Do("window", siblings[1])>>)
    BY <1>2
  <2> HIDE DEF siblings
  <2>4. CASE siblings = <<>>
    BY <1>2, <2>1, <2>3, <2>4, TypedReply
  <2>5. CASE siblings # <<>>
    <3>1. siblings[1] \in 0..MaxTabs /\ Then(<<Do("window", siblings[1])>>)
      BY <2>2, <2>3, <2>5, FirstInRange
    <3> QED
      BY <1>2, <2>1, <3>1, TypedNames, TypedGo
  <2> QED
    BY <2>4, <2>5
<1> QED
  BY <1>1, <1>2 DEF SwitchToFirstSiblingTab

LEMMA TypedMainSiblingStep ==
  ASSUME Base, TabsTyped, SwitchToMainSiblingTab
  PROVE  TabsTyped'
<1>1. CASE At("switchToMainSiblingTab") /\ InitMain /\ Then(<<Do("switchToMain", mainTabID')>>)
  <2>1. mainTabID' \in 0..MaxTabs
    BY <1>1, InitMainTyped
  <2> QED
    BY <1>1, <2>1, TypedNames, TypedMainSteps
<1>2. CASE /\ At("switchToMain") /\ Command(NameAll(driver))
           /\ LET ids == TabIds(driver')
              IN Then(IF ids = <<>> THEN <<>>
                      ELSE <<Do("window", IF Arg \in Range(ids) THEN Arg ELSE ids[1])>>)
  <2> DEFINE ids == TabIds(driver')
             t   == IF Arg \in Range(ids) THEN Arg ELSE ids[1]
  <2>1. /\ Grows(driver, driver') /\ Numbered(driver') /\ driver'.made <= MaxTabs
        /\ mainTabID' <= MaxTabs /\ UNCHANGED <<method, calls>>
        /\ ids \in Seq(Nat) /\ Range(ids) \subseteq 0..MaxTabs
    BY <1>2, TypedAnswered
  <2>2. Then(IF ids = <<>> THEN <<>> ELSE <<Do("window", t)>>)
    BY <1>2
  <2>3. ids # <<>> => t \in 0..MaxTabs
    <3> HIDE DEF ids
    <3> QED
      BY <2>1, FirstInRange
  <2> HIDE DEF ids, t
  <2>4. CASE ids = <<>>
    BY <1>2, <2>1, <2>2, <2>4, TypedReply
  <2>5. CASE ids # <<>>
    BY <1>2, <2>1, <2>2, <2>3, <2>5, TypedNames, TypedGo
  <2> QED
    BY <2>4, <2>5
<1> QED
  BY <1>1, <1>2 DEF SwitchToMainSiblingTab

(* The steps that close tabs.                                                *)
LEMMA TypedTwo ==
  ASSUME Base, TabsTyped, NEW h, At(h), NEW x \in StepKind, NEW y \in StepKind, Then(<<x, y>>),
         InRange(x), InRange(y), x.do # "close", y.do # "close",
         Grows(driver, driver'), Numbered(driver'),
         driver'.made <= MaxTabs, mainTabID' <= MaxTabs, UNCHANGED <<method, calls>>
  PROVE  TabsTyped'
<1>1. todo # <<>> /\ (driver.session => driver'.session)
  BY DEF At, Grows
<1>2. <<x, y>> \in Seq(StepKind) /\ Range(<<x, y>>) = {x, y}
  BY TwoSteps
<1> QED
  BY <1>1, <1>2, TypedThen

LEMMA TypedCloseOf ==
  ASSUME Base, TabsTyped, CloseOf
  PROVE  TabsTyped'
<1> DEFINE x == Do("closeBrowserWindow", Arg)
           z == IF Arg = mainTabID' THEN "elect" ELSE "switchToMainSiblingTab"
           y == Just(z)
<1>1. At("closeOf") /\ InitMain /\ Then(<<x, y>>)
  BY DEF CloseOf
<1>2. Grows(driver, driver') /\ Numbered(driver') /\ driver'.made <= MaxTabs
      /\ mainTabID' <= MaxTabs /\ UNCHANGED <<method, calls>>
  BY <1>1, InitMainKept, InitMainTyped DEF Kept
<1>3. Arg \in 0..MaxTabs
  BY <1>1, ArgInRange, TypedNames
<1>4. z \in Steps /\ z # "close" /\ z # "toFront"
  BY CloserNames
<1> HIDE DEF z
<1>5. x \in StepKind /\ InRange(x) /\ x.do # "close"
  BY <1>3, StepInRange, TypedNames
<1>6. y \in StepKind /\ InRange(y) /\ y.do # "close"
  BY <1>4, StepInRange, TypedNames
<1> HIDE DEF x, y
<1> QED
  BY <1>1, <1>2, <1>5, <1>6, TypedTwo

LEMMA TypedElect ==
  ASSUME Base, TabsTyped, Elect
  PROVE  TabsTyped'
<1> DEFINE ids == TabIds(driver')
           e   == Just("end")
           x   == Do("window", ids[1])
           y   == Do("setMain", ids[1])
<1>1. At("elect") /\ Command(NameAll(driver)) /\ Then(IF ids = <<>> THEN <<e>> ELSE <<x, y>>)
  BY DEF Elect
<1>2. /\ Grows(driver, driver') /\ Numbered(driver') /\ driver'.made <= MaxTabs
      /\ mainTabID' <= MaxTabs /\ UNCHANGED <<method, calls>>
      /\ ids \in Seq(Nat) /\ Range(ids) \subseteq 0..MaxTabs
  BY <1>1, TypedAnswered
<1> HIDE DEF ids
<1>3. CASE ids = <<>>
  <2>1. e \in StepKind /\ InRange(e) /\ e.do # "close" /\ Then(<<e>>)
    BY <1>1, <1>3, CloserNames, StepInRange, TypedNames
  <2> HIDE DEF e
  <2>2. <<e>> \in Seq(StepKind) /\ Range(<<e>>) = {e}
    BY <2>1, OneStep
  <2>3. todo # <<>> /\ (driver.session => driver'.session)
    BY <1>1, <1>2 DEF At, Grows
  <2> QED
    BY <1>2, <2>1, <2>2, <2>3, TypedThen
<1>4. CASE ids # <<>>
  <2>1. ids[1] \in 0..MaxTabs
    BY <1>2, <1>4, FirstInRange
  <2>2. x \in StepKind /\ InRange(x) /\ x.do # "close"
    BY <2>1, StepInRange, TypedNames
  <2>3. y \in StepKind /\ InRange(y) /\ y.do # "close"
    BY <2>1, StepInRange, TypedNames
  <2>4. Then(<<x, y>>)
    BY <1>1, <1>4
  <2> HIDE DEF x, y
  <2> QED
    BY <1>1, <1>2, <2>2, <2>3, <2>4, TypedTwo
<1> QED
  BY <1>3, <1>4

LEMMA TypedCloseTab ==
  ASSUME Base, TabsTyped, CloseTab
  PROVE  TabsTyped'
<1>1. /\ At("closeTab") /\ Completes(NameAll(driver)) /\ Then(<<Do("close", Arg)>>)
      /\ mainTabID' = IF TabIds(driver') = <<Arg>> THEN 0 ELSE mainTabID
  BY DEF CloseTab
<1>2. (driver.session \/ CanOpen(driver)) /\ driver' = NameAll(driver) /\ driver'.made <= MaxTabs
      /\ UNCHANGED <<method, calls>>
  BY <1>1 DEF Completes
<1>3. Grows(driver, driver') /\ driver'.session /\ Numbered(driver')
  BY <1>2, QuestionsAnswered, QuestionsNumbered DEF TabsTyped
<1>4. Arg \in 0..MaxTabs
  BY <1>1, ArgInRange, TypedNames
<1>5. mainTabID' <= MaxTabs
  BY <1>1, TabsAssumption DEF TabsTyped
<1> QED
  BY <1>1, <1>2, <1>3, <1>4, <1>5, TypedNames, TypedGo

LEMMA TypedFirstSibling ==
  ASSUME Base, TabsTyped, CloseFirstSiblingTab
  PROVE  TabsTyped'
<1> DEFINE x == Just("switchToFirstSiblingTab")
           y == Just("closeCurrentTab")
           z == Just("switchToMainSiblingTab")
<1>1. At("closeFirstSiblingTab") /\ Then(<<x, y, z>>) /\ UNCHANGED <<driver, mainTabID, method, calls>>
  BY DEF CloseFirstSiblingTab
<1>2. /\ x \in StepKind /\ InRange(x) /\ x.do # "close"
      /\ y \in StepKind /\ InRange(y) /\ y.do # "close"
      /\ z \in StepKind /\ InRange(z) /\ z.do # "close"
  <2>1. {"switchToFirstSiblingTab", "closeCurrentTab", "switchToMainSiblingTab"} \subseteq Steps
    BY DEF Steps, TabCalls
  <2> QED
    BY <2>1, StepInRange, TypedNames
<1> HIDE DEF x, y, z
<1>3. <<x, y, z>> \in Seq(StepKind) /\ Range(<<x, y, z>>) = {x, y, z}
  BY <1>2, ThreeSteps
<1>4. todo # <<>>
  BY <1>1 DEF At
<1>5. Numbered(driver') /\ driver'.made <= MaxTabs /\ mainTabID' <= MaxTabs
  BY <1>1 DEF TabsTyped, Numbered
<1> QED
  BY <1>1, <1>2, <1>3, <1>4, <1>5, TypedThen

(* A page that is closed loses its id.                                       *)
LEMMA ClosePageNumbered ==
  ASSUME NEW d, Sound(d), Numbered(d), d.session, NEW t
  PROVE  LET e == ClosePage(d, t)
         IN Numbered(e) /\ e.made = d.made /\ e.session
<1> DEFINE S == PageOf(d, t)
           e == ClosePage(d, t)
           states == [p \in Page |-> IF p \in S /\ d.state[p] = "open" THEN "closed" ELSE d.state[p]]
           tabs   == [p \in Page |-> IF p \in S THEN 0 ELSE d.tab[p]]
<1>1. d \in DriverKind /\ CreateClient(d) = d
  BY DEF Sound, CreateClient
<1>2. e = [d EXCEPT !.state = [p \in Page |-> IF p \in S /\ @[p] = "open" THEN "closed" ELSE @[p]],
                    !.tab   = [p \in Page |-> IF p \in S THEN 0 ELSE @[p]]]
  BY <1>1 DEF ClosePage
<1> HIDE DEF e, S
<1>3. e = [[d EXCEPT !.state = states] EXCEPT !.tab = tabs]
  BY <1>1, <1>2 DEF DriverKind
<1>4. d.tab \in [Page -> Nat] /\ d.made \in Nat
  BY <1>1 DEF DriverKind
<1>5. \A p \in Page : tabs[p] <= d.made
  BY <1>4 DEF Numbered
<1> HIDE DEF states, tabs
<1>6. e.tab = tabs /\ e.made = d.made /\ e.session = d.session
  BY <1>1, <1>3 DEF DriverKind
<1>7. Numbered(e) /\ e.made = d.made /\ e.session
  BY <1>5, <1>6 DEF Numbered
<1> QED
  BY <1>7 DEF e

LEMMA TypedCloseCommand ==
  ASSUME Base, TabsTyped, CloseCommand
  PROVE  TabsTyped'
<1>1. /\ At("close") /\ Then(<<>>) /\ driver' = ClosePage(driver, Arg)
      /\ UNCHANGED <<mainTabID, method, calls>>
  BY DEF CloseCommand
<1>2. todo # <<>> /\ driver.session
  BY <1>1, HeadStep DEF TabsTyped
<1>3. Numbered(driver') /\ driver'.made = driver.made /\ driver'.session
  BY <1>1, <1>2, ClosePageNumbered DEF Base, TabsTyped
<1>4. driver'.made <= MaxTabs /\ mainTabID' <= MaxTabs
  BY <1>1, <1>3 DEF TabsTyped
<1> QED
  BY <1>1, <1>2, <1>3, <1>4, NoSteps, TypedThen

LEMMA TypedSetMain ==
  ASSUME Base, TabsTyped, SetMain
  PROVE  TabsTyped'
<1>1. At("setMain") /\ Then(<<>>) /\ mainTabID' = Arg /\ UNCHANGED <<driver, method, calls>>
  BY DEF SetMain
<1>2. Arg \in 0..MaxTabs /\ todo # <<>>
  BY <1>1, ArgInRange, HeadStep, TypedNames
<1>3. Numbered(driver') /\ driver'.made <= MaxTabs /\ mainTabID' <= MaxTabs
  BY <1>1, <1>2 DEF TabsTyped, Numbered
<1> QED
  BY <1>1, <1>2, <1>3, NoSteps, TypedThen

(* When the session ends no page is waiting to be closed.                    *)
LEMMA TypedEnd ==
  ASSUME Base, TabsTyped, End
  PROVE  TabsTyped'
<1>1. /\ At("end") /\ Then(<<>>) /\ mainTabID' = 0 /\ driver' = EndSession(driver)
      /\ UNCHANGED <<method, calls>>
  BY DEF End, Completes
<1>2. todo # <<>> /\ method # "closeAllOtherTabs"
  BY <1>1, HeadStep DEF Lawful, OfCurrent
<1>3. Rest(todo) \subseteq Range(todo) /\ Range(todo') = Rest(todo)
  BY <1>1, <1>2, NoSteps, StepsFollow
<1>4. \A s \in Range(todo') : InRange(s) /\ s.do # "close"
  BY <1>2, <1>3 DEF Base, LawfulLater, Closers, TabsTyped
<1>5. driver'.tab = driver.tab /\ driver'.made = driver.made
  <2>1. driver \in DriverKind
    BY DEF Base, Sound
  <2> QED
    BY <1>1, <2>1 DEF EndSession, DriverKind
<1>6. Numbered(driver') /\ driver'.made <= MaxTabs /\ mainTabID' <= MaxTabs
  BY <1>1, <1>5, TabsAssumption DEF TabsTyped, Numbered
<1> QED
  BY <1>1, <1>4, <1>6 DEF TabsTyped, InRange

LEMMA TypedCloseAll ==
  ASSUME Base, TabsTyped, CloseAllOtherTabs
  PROVE  TabsTyped'
<1> DEFINE x == [do |-> "closeOthers", tabs |-> TabIds(driver')]
<1>1. At("closeAllOtherTabs") /\ Command(NameAll(driver)) /\ Then(<<x>>)
  BY DEF CloseAllOtherTabs
<1>2. /\ Grows(driver, driver') /\ Numbered(driver') /\ driver'.made <= MaxTabs
      /\ mainTabID' <= MaxTabs /\ UNCHANGED <<method, calls>>
      /\ TabIds(driver') \in Seq(Nat) /\ Range(TabIds(driver')) \subseteq 0..MaxTabs
  BY <1>1, TypedAnswered
<1>3. x \in StepKind /\ x.do = "closeOthers" /\ x.tabs = TabIds(driver')
  BY <1>2, CloserNames DEF StepKind
<1> HIDE DEF x
<1>4. InRange(x) /\ x.do # "close"
  BY <1>2, <1>3 DEF InRange
<1>5. <<x>> \in Seq(StepKind) /\ Range(<<x>>) = {x}
  BY <1>3, OneStep
<1>6. todo # <<>> /\ (driver.session => driver'.session)
  BY <1>1, <1>2 DEF At, Grows
<1> QED
  BY <1>1, <1>2, <1>4, <1>5, <1>6, TypedThen

LEMMA CloseEachInRange ==
  ASSUME NEW ids \in Seq(Nat), Range(ids) \subseteq 0..MaxTabs
  PROVE  \A s \in Range(CloseEach(ids)) : InRange(s)
<1> DEFINE n == Len(ids)
           q == CloseEach(ids)
<1>1. n \in Nat /\ Range(ids) = {ids[j] : j \in 1..n}
  BY IndexedRange
<1>2. q = [k \in 1..(2 * n) |-> Do(IF k % 2 = 1 THEN "window" ELSE "closeBrowserWindow", ids[(k + 1) \div 2])]
  BY DEF CloseEach
<1>3. q \in Seq(StepKind)
  BY CloseEachSteps
<1> HIDE DEF n, q
<1>4. ASSUME NEW k \in 1..(2 * n)
      PROVE  InRange(q[k])
  <2> DEFINE x == IF k % 2 = 1 THEN "window" ELSE "closeBrowserWindow"
             t == ids[(k + 1) \div 2]
  <2>1. (k + 1) \div 2 \in 1..n
    BY <1>1
  <2>2. x \in Steps /\ x # "toFront" /\ t \in 0..MaxTabs /\ q[k] = Do(x, t)
    BY <1>1, <1>2, <2>1, CloserNames
  <2> HIDE DEF x, t
  <2> QED
    BY <2>2, StepInRange
<1>5. DOMAIN q = 1..(2 * n)
  BY <1>2
<1> QED
  BY <1>4, <1>5 DEF q, Range

LEMMA TypedCloseOthers ==
  ASSUME Base, TabsTyped, CloseOthers
  PROVE  TabsTyped'
<1> DEFINE ids    == Head(todo).tabs
           others == Ascending(Range(ids) \ {mainTabID'})
           r      == CloseEach(others)
           x      == Just("switchToMainSiblingTab")
<1>1. At("closeOthers") /\ InitMain /\ Then(r \o <<x>>)
  BY DEF CloseOthers
<1>2. Grows(driver, driver') /\ Numbered(driver') /\ driver'.made <= MaxTabs
      /\ mainTabID' <= MaxTabs /\ UNCHANGED <<method, calls>>
  BY <1>1, InitMainKept, InitMainTyped DEF Kept
<1>3. ids \in Seq(Nat) /\ Range(ids) \subseteq 0..MaxTabs /\ todo # <<>>
  BY <1>1, HeadStep DEF StepKind, TabsTyped, InRange
<1> HIDE DEF ids
<1>4. others \in Seq(Nat) /\ Range(others) \subseteq 0..MaxTabs
  BY <1>3, AscendingOthers
<1> HIDE DEF others
<1>5. r \in Seq(StepKind) /\ \A s \in Range(r) : InRange(s) /\ s.do # "close"
  BY <1>4, CloseEachSteps, CloseEachInRange
<1>6. x \in StepKind /\ InRange(x) /\ x.do # "close"
  BY CloserNames, StepInRange, TypedNames
<1> HIDE DEF r, x
<1>7. r \o <<x>> \in Seq(StepKind) /\ Range(r \o <<x>>) = Range(r) \cup {x}
  <2>1. /\ r \o <<x>> \in Seq(StepKind) /\ Len(r \o <<x>>) = Len(r) + 1 /\ Len(r) \in Nat
        /\ \A k \in 1..Len(r) : (r \o <<x>>)[k] = r[k]
        /\ (r \o <<x>>)[Len(r) + 1] = x
    BY <1>5, <1>6
  <2>2. Range(r) = {r[k] : k \in 1..Len(r)}
    BY <1>5, IndexedRange
  <2>3. Range(r \o <<x>>) = {(r \o <<x>>)[k] : k \in 1..(Len(r) + 1)}
    BY <2>1, IndexedRange
  <2>4. 1..(Len(r) + 1) = 1..Len(r) \cup {Len(r) + 1}
    BY <2>1
  <2> QED
    BY <2>1, <2>2, <2>3, <2>4
<1>8. driver.session => driver'.session
  BY <1>2 DEF Grows
<1> DEFINE q == r \o <<x>>
<1>9. q \in Seq(StepKind) /\ Then(q) /\ \A s \in Range(q) : InRange(s) /\ s.do # "close"
  BY <1>1, <1>5, <1>6, <1>7
<1> HIDE DEF q
<1> QED
  BY <1>2, <1>3, <1>8, <1>9, TypedThen

LEMMA TypedCall ==
  ASSUME Base, TabsTyped, NEW m \in TabCalls, Call(m)
  PROVE  TabsTyped'
<1>1. PICK t \in 0..driver.made : todo' = <<Do(m, t)>>
  BY DEF Call
<1>2. /\ calls < MaxCalls /\ method' = m /\ calls' = calls + 1
      /\ UNCHANGED <<driver, mainTabID>>
  BY DEF Call
<1>3. m \in Steps \ {"close", "toFront"} /\ t \in 0..MaxTabs
  BY TabsAssumption DEF Steps, TabCalls, Base, Sound, DriverKind, TabsTyped
<1> DEFINE x == Do(m, t)
<1>4. x \in StepKind /\ x.do = m /\ InRange(x) /\ todo' = <<x>>
  BY <1>1, <1>3, StepInRange
<1> HIDE DEF x
<1>5. Range(todo') = {x}
  BY <1>4, OneStep
<1>6. calls' \in 0..MaxCalls
  BY <1>2, TabsAssumption DEF TabsTyped
<1>7. Numbered(driver') /\ driver'.made <= MaxTabs /\ mainTabID' <= MaxTabs
  BY <1>2 DEF TabsTyped, Numbered
<1> QED
  BY <1>2, <1>3, <1>4, <1>5, <1>6, <1>7 DEF TabsTyped, InRange

LEMMA TypedPages ==
  ASSUME Base, TabsTyped, Popup \/ \E p \in Page : GoAway(p)
  PROVE  TabsTyped'
<1>1. Sound(driver) /\ driver \in DriverKind
  BY DEF Base, Sound
<1>2. driver'.session = driver.session /\ driver'.tab = driver.tab /\ driver'.made = driver.made
  <2>1. CASE Popup
    <3>1. driver' = WithNewPage(driver)
      BY <2>1 DEF Popup
    <3> QED
      BY <1>1, <3>1 DEF WithNewPage, DriverKind
  <2>2. CASE \E p \in Page : GoAway(p)
    <3>1. PICK p \in Page : driver' = [driver EXCEPT !.state[p] = "gone"]
      BY <2>2 DEF GoAway
    <3> QED
      BY <1>1, <3>1 DEF DriverKind
  <2> QED
    BY <2>1, <2>2
<1>3. UNCHANGED <<mainTabID, todo, method, calls>>
  BY DEF Popup, GoAway
<1> QED
  BY <1>2, <1>3 DEF TabsTyped, Numbered, InRange

LEMMA TypedInit == TabsInit => TabsTyped
<1> SUFFICES ASSUME TabsInit
             PROVE  TabsTyped
  OBVIOUS
<1>1. /\ driver = [session |-> FALSE, page |-> 0, state |-> [p \in Page |-> "none"],
                   tab |-> [p \in Page |-> 0], made |-> 0]
      /\ mainTabID = 0 /\ todo = <<>> /\ method = "none" /\ calls = 0
  BY DEF TabsInit
<1>2. Numbered(driver)
  BY <1>1 DEF Numbered
<1>3. Range(todo) = {}
  BY <1>1, NoSteps
<1> QED
  BY <1>1, <1>2, <1>3, TabsAssumption DEF TabsTyped

LEMMA TypedNext == TabsInv /\ TabsTyped /\ [TabsNext]_tabsVars => TabsTyped'
<1> SUFFICES ASSUME Base, TabsTyped, [TabsNext]_tabsVars
             PROVE  TabsTyped'
  BY DEF TabsInv
<1>1. CASE Method
  BY <1>1, TypedAskSteps, TypedWindowSteps, TypedSwitchSteps, TypedNewWindowStep, TypedEnd,
     TypedCloseTab, TypedCloseCommand, TypedCloseOf, TypedElect, TypedSetMain, TypedCloseAll,
     TypedCloseOthers, TypedFirstSibling, TypedFirstSiblingStep, TypedMainSiblingStep DEF Method
<1>2. CASE \E m \in TabCalls : Call(m)
  BY <1>2, TypedCall
<1>3. CASE Popup \/ \E p \in Page : GoAway(p)
  BY <1>3, TypedPages
<1>4. CASE UNCHANGED tabsVars
  BY <1>4 DEF TabsTyped, Numbered, InRange, tabsVars
<1> QED
  BY <1>1, <1>2, <1>3, <1>4 DEF TabsNext

(* The ids the application goes by have been made, and none is made beyond     *)
(* the bound: whatever methods are called and pages open or go away.          *)
THEOREM TabsTypeCorrect == TabsSpec => []TabsTypeOK
<1>1. TabsInv /\ TabsTyped => TabsTypeOK
  <2> SUFFICES ASSUME Base, TabsTyped
               PROVE  TabsTypeOK
    BY DEF TabsInv
  <2>1. driver \in DriverKind /\ mainTabID \in Nat /\ todo \in Seq(StepKind)
        /\ failed \in BOOLEAN /\ astray \in BOOLEAN
    BY DEF Base, Sound
  <2>2. driver \in DriverType
    <3>1. driver.tab \in [Page -> 0..MaxTabs] /\ driver.made \in 0..MaxTabs
      <4>1. driver.tab \in [Page -> Nat] /\ driver.made \in Nat /\ MaxTabs \in Nat
        BY <2>1, TabsAssumption DEF DriverKind
      <4>2. \A p \in Page : driver.tab[p] \in 0..MaxTabs
        BY <4>1 DEF TabsTyped, Numbered
      <4> QED
        BY <4>1, <4>2 DEF TabsTyped
    <3> QED
      BY <2>1, <3>1 DEF DriverKind, DriverType
  <2>3. mainTabID \in 0..MaxTabs
    BY <2>1, TabsAssumption DEF TabsTyped
  <2>4. \A k \in DOMAIN todo : todo[k].do \in Steps /\ Range(todo[k].tabs) \subseteq (0..MaxTabs) \cup Page
    <3> SUFFICES ASSUME NEW k \in DOMAIN todo
                 PROVE  todo[k].do \in Steps /\ Range(todo[k].tabs) \subseteq (0..MaxTabs) \cup Page
      OBVIOUS
    <3>1. todo[k] \in StepKind /\ todo[k] \in Range(todo)
      BY <2>1 DEF Range
    <3> QED
      BY <3>1 DEF StepKind, TabsTyped, InRange
  <2>5. atCall \subseteq Page
    BY DEF Base, Known
  <2> QED
    BY <2>1, <2>2, <2>3, <2>4, <2>5 DEF TabsTypeOK, TabsTyped
<1> QED
  BY <1>1, TypedInit, TypedNext, TabsInvInit, TabsInvStep, PTL DEF TabsSpec

===============================================================================
