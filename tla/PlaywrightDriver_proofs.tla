----------------------- MODULE PlaywrightDriver_proofs -----------------------
(***************************************************************************)
(* Sessions are closed only by their owner, by kill() and by a crash, for   *)
(* any number of applicants, commands, browsers, ends and ticks, whatever  *)
(* Playwright does; and none is forgotten but those that are exposed to    *)
(* it by another command of the same applicant, by an end or by a failure. *)
(***************************************************************************)
EXTENDS PlaywrightDriver, TLAPS

Stages    == {"idle", "cleanup", "launch", "probe", "open", "page", "ready", "call",
              "settled"}
EndType   == [of : Applicant, ctx : 0..MaxCommands,
              at : {"idle", "closing", "forcing", "loop", "done"}]
Killing   == [at : {"no", "sessions", "browser", "done"}, browser : 0..MaxLaunches]

(* TypeOK in the groups of the variables. *)
CommandType == /\ pc \in [Command -> Stages] /\ of \in [Command -> Applicant]
               /\ got \in [Command -> 0..MaxLaunches] /\ again \in [Command -> BOOLEAN]
FieldType   == /\ browser \in 0..MaxLaunches
               /\ browserClients \in [Applicant -> 0..MaxCommands]
               /\ expiredBrowserClients \subseteq Applicant
               /\ {isCleaningUp, interval} \subseteq BOOLEAN
EndsType    == /\ end \in [Ender -> EndType] /\ todo \in [Timer -> SUBSET Applicant]
               /\ killing \in Killing /\ plugin \in BOOLEAN /\ exposed \subseteq Command
WorldType   == /\ launched \in 0..MaxLaunches /\ alive \subseteq 1..launched
               /\ host \in [Command -> 0..MaxLaunches]

LEMMA TypeGroups ==
  /\ TypeOK <=> CommandType /\ FieldType /\ EndsType /\ WorldType
  /\ TypeOK' <=> CommandType' /\ FieldType' /\ EndsType' /\ WorldType'
BY DEF TypeOK, CommandType, FieldType, EndsType, WorldType, Stages, EndType, Killing

LEMMA Groups ==
  /\ UNCHANGED commandVars => (CommandType => CommandType')
  /\ UNCHANGED fieldVars => (FieldType => FieldType')
  /\ UNCHANGED endVars => (EndsType => EndsType')
  /\ UNCHANGED worldVars => (WorldType => WorldType')
<1>1. UNCHANGED commandVars => (CommandType => CommandType')
  BY DEF commandVars, CommandType
<1>2. UNCHANGED fieldVars => (FieldType => FieldType')
  BY DEF fieldVars, FieldType
<1>3. UNCHANGED endVars => (EndsType => EndsType')
  BY DEF endVars, EndsType
<1>4. UNCHANGED worldVars => (WorldType => WorldType')
  BY DEF worldVars, WorldType
<1> QED
  BY <1>1, <1>2, <1>3, <1>4

LEMMA NoEndType == \A s \in {"idle", "loop", "done"} : NoEnd(s) \in EndType
<1>1. (CHOOSE a \in Applicant : TRUE) \in Applicant
  BY DriverAssumption
<1>2. 0 \in 0..MaxCommands
  BY DriverAssumption
<1> QED
  BY <1>1, <1>2 DEF NoEnd, EndType

(* Every sender of end is the timer or not, a client or kill's. *)
LEMMA Enders == EndCall \subseteq Ender /\ Timer \subseteq Ender /\ Applicant \subseteq Ender
BY DEF Ender

LEMMA ClosingType == FieldType => \A a \in Applicant : Closing(a) \in EndType
BY DEF FieldType, Closing, EndType

LEMMA CreateClientType == \A a, br : CreateClient(a, br) \in Stages
BY DEF CreateClient, GetBrowser, Stages

LEMMA GotoType ==
  ASSUME CommandType, NEW c \in Command, NEW s \in Stages, NEW br \in 0..MaxLaunches,
         Goto(c, s, br)
  PROVE  pc' \in [Command -> Stages] /\ got' \in [Command -> 0..MaxLaunches]
<1>1. 0 \in 0..MaxLaunches
  BY DriverAssumption
<1> QED
  BY <1>1 DEF CommandType, Goto

LEMMA RefreshType ==
  ASSUME EndsType, NEW a, NEW s, Refresh(a, s)
  PROVE  todo' \in [Timer -> SUBSET Applicant]
BY DEF EndsType, Refresh

LEMMA ZeroTypes == 0 \in 0..MaxLaunches /\ 0 \in 0..MaxCommands
BY DriverAssumption

LEMMA TypeInit == Init => TypeOK
<1> SUFFICES ASSUME Init
             PROVE  CommandType /\ FieldType /\ EndsType /\ WorldType
  BY TypeGroups
<1>1. NoEnd("idle").of \in Applicant
  BY DriverAssumption DEF NoEnd
<1>2. CommandType
  BY <1>1, ZeroTypes DEF Init, CommandType, Stages
<1>3. FieldType
  BY ZeroTypes DEF Init, FieldType
<1>4. EndsType
  BY ZeroTypes, NoEndType DEF Init, EndsType, Killing
<1>5. WorldType
  BY ZeroTypes DEF Init, WorldType
<1> QED
  BY <1>2, <1>3, <1>4, <1>5

-----------------------------------------------------------------------------
(* Commands. *)

LEMMA SendType ==
  ASSUME TypeOK, NEW c \in Command, NEW a \in Applicant, Send(c, a)
  PROVE  TypeOK'
<1> USE TypeGroups
<1> DEFINE s == IF plugin THEN CreateClient(a, browser) ELSE "settled"
<1>1. s \in Stages
  BY CreateClientType DEF Stages
<1>2. Goto(c, s, browser) /\ Refresh(a, s)
  BY DEF Send
<1>3. pc' \in [Command -> Stages] /\ got' \in [Command -> 0..MaxLaunches]
  BY <1>1, <1>2, GotoType DEF FieldType
<1>4. CommandType'
  BY <1>3 DEF Send, CommandType
<1>5. todo' \in [Timer -> SUBSET Applicant]
  BY <1>2, RefreshType
<1>6. EndsType'
  BY <1>5 DEF Send, EndsType
<1>7. FieldType' /\ WorldType'
  BY DEF Send, FieldType, WorldType, worldVars
<1> QED
  BY <1>4, <1>6, <1>7

LEMMA CreateType ==
  ASSUME CommandType, EndsType, NEW c \in Command, NEW a, NEW br \in 0..MaxLaunches,
         Create(c, a, br), UNCHANGED of
  PROVE  /\ CommandType' /\ browser' \in 0..MaxLaunches
         /\ todo' \in [Timer -> SUBSET Applicant]
<1> DEFINE s == CreateClient(a, br)
<1>1. s \in Stages
  BY CreateClientType
<1>2. Goto(c, s, br) /\ Refresh(a, s) /\ browser' = br /\ again' = [again EXCEPT ![c] = FALSE]
  BY DEF Create
<1>3. pc' \in [Command -> Stages] /\ got' \in [Command -> 0..MaxLaunches]
  BY <1>1, <1>2, GotoType
<1>4. again' \in [Command -> BOOLEAN]
  BY <1>2 DEF CommandType
<1> QED
  BY <1>2, <1>3, <1>4, RefreshType DEF CommandType

LEMMA CommandStepType ==
  ASSUME TypeOK, NEW c \in Command, Step(c)
  PROVE  TypeOK'
<1> USE TypeGroups, Groups, ZeroTypes
<1>1. CASE CleanedUp(c)
  <2>1. \E s \in Stages : Goto(c, s, 0)
    BY <1>1 DEF CleanedUp, Stages
  <2>2. CommandType'
    BY <1>1, <2>1, GotoType DEF CleanedUp, CommandType
  <2> QED
    BY <1>1, <2>2 DEF CleanedUp
<1>2. CASE Launched(c)
  <2>1. \E s \in Stages : Goto(c, s, 0)
    BY <1>2 DEF Launched, Stages
  <2>2. CommandType'
    BY <1>2, <2>1, GotoType DEF Launched, CommandType
  <2>3. EndsType'
    BY <1>2 DEF Launched
  <2>4. browser' \in 0..MaxLaunches /\ WorldType'
    <3>1. CASE UNCHANGED <<browser, launched, alive>>
      BY <1>2, <3>1 DEF Launched, FieldType, WorldType
    <3>2. CASE /\ launched < MaxLaunches /\ launched' = launched + 1
               /\ alive' = alive \cup {launched + 1} /\ browser' = launched + 1
      <4>1. launched \in Nat /\ MaxLaunches \in Nat
        BY DriverAssumption DEF WorldType
      <4>2. launched + 1 \in 0..MaxLaunches /\ launched + 1 \in 1..(launched + 1)
        BY <3>2, <4>1
      <4>3. alive' \subseteq 1..launched'
        BY <3>2, <4>1, <4>2 DEF WorldType
      <4> QED
        BY <1>2, <3>2, <4>2, <4>3 DEF Launched, WorldType
    <3> QED
      BY <1>2, <3>1, <3>2 DEF Launched
  <2>5. FieldType'
    BY <1>2, <2>4 DEF Launched, FieldType
  <2> QED
    BY <2>2, <2>3, <2>4, <2>5
<1>3. CASE Probed(c)
  <2>0. /\ UNCHANGED <<of, isCleaningUp, browserClients, expiredBrowserClients, interval>>
        /\ UNCHANGED <<end, killing, plugin, exposed>> /\ UNCHANGED worldVars
    BY <1>3 DEF Probed
  <2>1. CASE again[c] /\ Create(c, of[c], browser)
    <3>1. CommandType' /\ browser' \in 0..MaxLaunches /\ todo' \in [Timer -> SUBSET Applicant]
      BY <2>0, <2>1, CreateType DEF FieldType
    <3> QED
      BY <2>0, <3>1 DEF FieldType, EndsType
  <2>2. CASE /\ ~again[c] /\ browser \in alive /\ Goto(c, "open", browser)
             /\ UNCHANGED <<again, browser, todo>>
    <3>1. pc' \in [Command -> Stages] /\ got' \in [Command -> 0..MaxLaunches]
      BY <2>2, GotoType DEF FieldType, Stages
    <3>2. CommandType'
      BY <2>0, <2>2, <3>1 DEF CommandType
    <3> QED
      BY <2>0, <2>2, <3>2 DEF FieldType, EndsType
  <2>3. CASE /\ ~again[c] /\ browser' = 0 /\ again' = [again EXCEPT ![c] = TRUE]
             /\ Goto(c, GetBrowser(0), 0) /\ UNCHANGED todo
    <3>1. GetBrowser(0) \in Stages
      BY DEF GetBrowser, Stages
    <3>2. pc' \in [Command -> Stages] /\ got' \in [Command -> 0..MaxLaunches]
      BY <2>3, <3>1, GotoType
    <3>3. again' \in [Command -> BOOLEAN]
      BY <2>3 DEF CommandType
    <3>4. CommandType'
      BY <2>0, <3>2, <3>3 DEF CommandType
    <3> QED
      BY <2>0, <2>3, <3>4 DEF FieldType, EndsType
  <2> QED
    BY <1>3, <2>1, <2>2, <2>3 DEF Probed
<1>4. CASE Opened(c)
  <2>0. /\ UNCHANGED <<of, isCleaningUp, browserClients, expiredBrowserClients, interval>>
        /\ UNCHANGED <<end, killing, plugin, exposed, launched, alive>>
    BY <1>4 DEF Opened
  <2>1. host' \in [Command -> 0..MaxLaunches]
    BY <1>4 DEF Opened, CommandType, WorldType
  <2>2. WorldType'
    BY <2>0, <2>1 DEF WorldType
  <2>3. CASE Create(c, of[c], 0)
    <3>1. CommandType' /\ browser' \in 0..MaxLaunches /\ todo' \in [Timer -> SUBSET Applicant]
      BY <2>0, <2>3, CreateType
    <3> QED
      BY <2>0, <2>2, <3>1 DEF FieldType, EndsType
  <2>4. ASSUME NEW s \in {"page", "settled"}, Goto(c, s, 0), UNCHANGED <<again, browser, todo>>
        PROVE  TypeOK'
    <3>1. pc' \in [Command -> Stages] /\ got' \in [Command -> 0..MaxLaunches]
      BY <2>4, GotoType DEF Stages
    <3>2. CommandType'
      BY <2>0, <2>4, <3>1 DEF CommandType
    <3> QED
      BY <2>0, <2>2, <2>4, <3>2 DEF FieldType, EndsType
  <2> QED
    BY <1>4, <2>3, <2>4 DEF Opened
<1>5. CASE Paged(c)
  <2>0. /\ UNCHANGED <<of, again, browser, isCleaningUp, expiredBrowserClients, interval>>
        /\ UNCHANGED <<end, killing, plugin>> /\ UNCHANGED worldVars
    BY <1>5 DEF Paged
  <2>1. \E s \in Stages : Goto(c, s, 0)
    BY <1>5 DEF Paged, Stages
  <2>2. CommandType'
    BY <2>0, <2>1, GotoType DEF CommandType
  <2>3. browserClients' \in [Applicant -> 0..MaxCommands]
    <3>1. c \in 0..MaxCommands
      BY DriverAssumption DEF Command
    <3> QED
      BY <1>5, <3>1 DEF Paged, FieldType
  <2>4. todo' \in [Timer -> SUBSET Applicant]
    BY <1>5, RefreshType DEF Paged, EndsType
  <2>5. exposed' \subseteq Command
    BY <1>5 DEF Paged, EndsType
  <2> QED
    BY <2>0, <2>2, <2>3, <2>4, <2>5 DEF FieldType, EndsType
<1>6. CASE Ready(c) \/ Called(c)
  <2>1. \E s \in Stages : Goto(c, s, 0)
    BY <1>6 DEF Ready, Called, Stages
  <2>2. UNCHANGED <<of, again, fieldVars, endVars, worldVars>>
    BY <1>6 DEF Ready, Called
  <2>3. CommandType'
    BY <2>1, <2>2, GotoType DEF CommandType
  <2> QED
    BY <2>2, <2>3
<1> QED
  BY <1>1, <1>2, <1>3, <1>4, <1>5, <1>6 DEF Step

-----------------------------------------------------------------------------
(* Ends, the timer, kill and crashes. *)

LEMMA EndOfTypes == TypeOK => \A e \in Ender : end[e] \in EndType
BY TypeGroups DEF EndsType

LEMMA UnregisterType ==
  ASSUME TypeOK, NEW e \in Ender, Unregister(e)
  PROVE  CommandType' /\ FieldType' /\ EndsType' /\ UNCHANGED <<launched, alive>>
<1> USE TypeGroups
<1>1. end[e].of \in Applicant
  BY EndOfTypes DEF EndType
<1>2. CommandType'
  BY Groups DEF Unregister
<1>3. FieldType'
  <2>1. browserClients' \in [Applicant -> 0..MaxCommands]
    BY ZeroTypes DEF Unregister, FieldType
  <2>2. expiredBrowserClients' \subseteq Applicant
    BY <1>1 DEF Unregister, FieldType
  <2> QED
    BY <2>1, <2>2 DEF Unregister, FieldType
<1>4. EndsType'
  <2>1. end' \in [Ender -> EndType]
    BY NoEndType DEF Unregister, EndsType
  <2>2. exposed' \subseteq Command
    <3>1. browserClients[end[e].of] \in 0..MaxCommands
      BY <1>1 DEF FieldType
    <3>2. browserClients[end[e].of] # 0 => browserClients[end[e].of] \in Command
      BY <3>1, DriverAssumption DEF Command
    <3> QED
      BY <3>2 DEF Unregister, EndsType
  <2> QED
    BY <2>1, <2>2 DEF Unregister, EndsType
<1> QED
  BY <1>2, <1>3, <1>4 DEF Unregister

LEMMA EndStepType ==
  ASSUME TypeOK, NEW e \in Ender, EndStep(e)
  PROVE  TypeOK'
<1> USE TypeGroups
<1>1. CASE ContextClosed(e)
  <2>1. host' \in [Command -> 0..MaxLaunches]
    BY <1>1, ZeroTypes DEF ContextClosed, WorldType
  <2>2. Unregister(e)
    BY <1>1 DEF ContextClosed
  <2> QED
    BY <2>1, <2>2, UnregisterType DEF WorldType
<1>2. CASE CloseFailed(e)
  <2>1. end' \in [Ender -> EndType]
    BY <1>2 DEF CloseFailed, EndsType, EndType
  <2>2. exposed' \subseteq Command
    <3>1. end[e].ctx \in Command \/ end[e].ctx = 0
      BY EndOfTypes, DriverAssumption DEF EndType, Command
    <3> QED
      BY <1>2, <3>1 DEF CloseFailed, EndsType, Live
  <2>3. EndsType' /\ UNCHANGED <<commandVars, fieldVars, worldVars>>
    BY <1>2, <2>1, <2>2 DEF CloseFailed, EndsType
  <2> QED
    BY <2>3, Groups
<1>3. CASE PagesClosed(e)
  BY <1>3, UnregisterType DEF PagesClosed, WorldType
<1> QED
  BY <1>1, <1>2, <1>3 DEF EndStep

LEMMA EndSessionType ==
  ASSUME TypeOK, NEW e \in EndCall, NEW a \in Applicant, EndSession(e, a)
  PROVE  TypeOK'
<1> USE TypeGroups
<1>1. end' \in [Ender -> EndType]
  BY ClosingType, NoEndType DEF EndSession, EndsType
<1>2. EndsType' /\ UNCHANGED <<commandVars, fieldVars, worldVars>>
  BY <1>1 DEF EndSession, EndsType
<1> QED
  BY <1>2, Groups

LEMMA TimerType ==
  ASSUME TypeOK, NEW t \in Timer, Tick(t) \/ TickStep(t)
  PROVE  TypeOK'
<1> USE TypeGroups
<1>1. /\ UNCHANGED <<killing, plugin, exposed>> /\ UNCHANGED commandVars
      /\ UNCHANGED fieldVars /\ UNCHANGED worldVars
  BY DEF Tick, TickStep, TickNext, TickDone
<1>2. todo' \in [Timer -> SUBSET Applicant]
  <2>1. CASE Tick(t)
    BY <2>1 DEF Tick, EndsType
  <2>2. ASSUME NEW a \in Applicant, TickNext(t, a)
        PROVE  todo' \in [Timer -> SUBSET Applicant]
    BY <2>2 DEF TickNext, EndsType
  <2>3. CASE TickDone(t)
    BY <2>3 DEF TickDone, EndsType
  <2> QED
    BY <2>1, <2>2, <2>3 DEF TickStep
<1>3. end' \in [Ender -> EndType]
  <2>1. CASE Tick(t)
    BY <2>1 DEF Tick, EndsType, EndType
  <2>2. ASSUME NEW a \in Applicant, TickNext(t, a)
        PROVE  end' \in [Ender -> EndType]
    BY <2>2, ClosingType DEF TickNext, EndsType
  <2>3. CASE TickDone(t)
    BY <2>3, NoEndType DEF TickDone, EndsType
  <2> QED
    BY <2>1, <2>2, <2>3 DEF TickStep
<1>4. EndsType'
  BY <1>1, <1>2, <1>3 DEF EndsType
<1> QED
  BY <1>1, <1>4, Groups

LEMMA GoneType ==
  ASSUME WorldType, NEW n, Gone(n), UNCHANGED launched
  PROVE  WorldType'
BY ZeroTypes DEF Gone, WorldType

LEMMA ClearAllType ==
  ASSUME TypeOK, ClearAll
  PROVE  CommandType' /\ FieldType' /\ EndsType' /\ UNCHANGED launched
<1> USE TypeGroups
<1>1. CommandType'
  BY Groups DEF ClearAll
<1>2. FieldType'
  BY ZeroTypes DEF ClearAll, FieldType
<1>3. killing' \in Killing
  BY ZeroTypes DEF ClearAll, Killing
<1>4. EndsType'
  BY <1>3 DEF ClearAll, EndsType
<1> QED
  BY <1>1, <1>2, <1>4 DEF ClearAll

LEMMA KillType ==
  ASSUME TypeOK, Kill \/ KillStep
  PROVE  TypeOK'
<1> USE TypeGroups
<1>1. CASE Kill
  <2>1. end' \in [Ender -> EndType]
    BY <1>1, ClosingType DEF Kill, EndsType
  <2>2. killing' \in Killing
    BY <1>1, ZeroTypes DEF Kill, Killing
  <2>3. EndsType'
    BY <1>1, <2>1, <2>2 DEF Kill, EndsType
  <2>4. FieldType'
    BY <1>1 DEF Kill, FieldType
  <2>5. UNCHANGED commandVars /\ UNCHANGED worldVars
    BY <1>1 DEF Kill
  <2> QED
    BY <2>3, <2>4, <2>5, Groups
<1>2. CASE ClearAll /\ UNCHANGED <<alive, host>>
  BY <1>2, ClearAllType DEF WorldType
<1>3. CASE /\ killing' = [at |-> "browser", browser |-> browser]
           /\ UNCHANGED <<commandVars, fieldVars, end, todo, plugin, exposed, worldVars>>
  <2>1. killing' \in Killing
    BY <1>3 DEF Killing, FieldType
  <2>2. EndsType' /\ UNCHANGED <<commandVars, fieldVars, worldVars>>
    BY <1>3, <2>1 DEF EndsType
  <2> QED
    BY <2>2, Groups
<1>4. CASE ClearAll /\ Gone(killing.browser)
  BY <1>4, ClearAllType, GoneType
<1> QED
  BY <1>1, <1>2, <1>3, <1>4 DEF KillStep, SessionsEnded, BrowserClosed

LEMMA CrashType ==
  ASSUME TypeOK, NEW n \in Browser, Crash(n)
  PROVE  TypeOK'
<1>1. Gone(n) /\ UNCHANGED launched
  BY DEF Crash
<1>2. UNCHANGED commandVars /\ UNCHANGED fieldVars /\ UNCHANGED endVars
  BY DEF Crash
<1> QED
  BY <1>1, <1>2, GoneType, Groups, TypeGroups

LEMMA TypeStep == TypeOK /\ [Next]_vars => TypeOK'
<1> SUFFICES ASSUME TypeOK, [Next]_vars
             PROVE  TypeOK'
  OBVIOUS
<1>1. ASSUME NEW c \in Command, NEW a \in Applicant, Send(c, a)
      PROVE  TypeOK'
  BY <1>1, SendType
<1>2. CASE UNCHANGED vars
  BY <1>2, Groups, TypeGroups DEF vars
<1> QED
  BY <1>1, <1>2, CommandStepType, EndStepType, EndSessionType, TimerType, KillType,
     CrashType DEF Next

(* The variables have their types whatever the clients, the timer and         *)
(* Playwright do.                                                            *)
THEOREM TypeCorrect == Spec => []TypeOK
BY TypeInit, TypeStep, PTL DEF Spec

-----------------------------------------------------------------------------
(* What is registered for an applicant, and what an end for it closes, was   *)
(* opened by a command of this applicant.                                    *)
Belongs(c, a) == of[c] = a /\ pc[c] # "idle"

Registered == \A a \in Applicant :
  browserClients[a] # 0 => Belongs(browserClients[a], a)
EndsOwn == \A e \in Ender :
  Ending(e) /\ end[e].ctx # 0 => Belongs(end[e].ctx, end[e].of)

(* A command never becomes idle again, and its applicant never changes. *)
StaysStarted == \A d \in Command :
  pc[d] # "idle" => pc'[d] # "idle" /\ of'[d] = of[d]

LEMMA GotoStays ==
  ASSUME TypeOK, NEW c \in Command, NEW s, s # "idle", NEW br, Goto(c, s, br),
         \A d \in Command : pc[d] # "idle" => of'[d] = of[d]
  PROVE  StaysStarted
BY TypeGroups DEF Goto, StaysStarted, CommandType

LEMMA CreateStays == \A a, br : CreateClient(a, br) # "idle" /\ GetBrowser(br) # "idle"
BY DEF CreateClient, GetBrowser

LEMMA SameStays == UNCHANGED commandVars => StaysStarted
BY DEF commandVars, StaysStarted

LEMMA SendStays ==
  ASSUME TypeOK, NEW c \in Command, NEW a \in Applicant, Send(c, a)
  PROVE  StaysStarted
<1> DEFINE s == IF plugin THEN CreateClient(a, browser) ELSE "settled"
<1>1. s # "idle"
  BY CreateStays
<1>2. Goto(c, s, browser)
  BY DEF Send
<1>3. \A d \in Command : pc[d] # "idle" => of'[d] = of[d]
  BY TypeGroups DEF Send, CommandType
<1> HIDE DEF s
<1> QED
  BY <1>1, <1>2, <1>3, GotoStays

LEMMA StepStays ==
  ASSUME TypeOK, NEW c \in Command, Step(c)
  PROVE  StaysStarted
<1>1. \A d \in Command : pc[d] # "idle" => of'[d] = of[d]
  BY DEF Step, CleanedUp, Launched, Probed, Opened, Paged, Ready, Called
<1>2. \E s, br : s # "idle" /\ Goto(c, s, br)
  <2>1. CASE CleanedUp(c) \/ Launched(c) \/ Paged(c) \/ Ready(c) \/ Called(c)
    BY <2>1 DEF CleanedUp, Launched, Paged, Ready, Called
  <2>2. CASE Probed(c)
    BY <2>2, CreateStays DEF Probed, Create
  <2>3. CASE Opened(c)
    BY <2>3, CreateStays DEF Opened, Create
  <2> QED
    BY <2>1, <2>2, <2>3 DEF Step
<1> QED
  BY <1>1, <1>2, GotoStays

LEMMA NextStays == TypeOK /\ [Next]_vars => StaysStarted
<1> SUFFICES ASSUME TypeOK, [Next]_vars
             PROVE  StaysStarted
  OBVIOUS
<1>1. ASSUME NEW c \in Command, NEW a \in Applicant, Send(c, a)
      PROVE  StaysStarted
  BY <1>1, SendStays
<1>2. ASSUME NEW e \in Ender, EndStep(e)
      PROVE  StaysStarted
  BY <1>2, SameStays DEF EndStep, ContextClosed, CloseFailed, PagesClosed, Unregister
<1>3. ASSUME NEW e \in EndCall, NEW a \in Applicant, EndSession(e, a)
      PROVE  StaysStarted
  BY <1>3, SameStays DEF EndSession
<1>4. ASSUME NEW t \in Timer, Tick(t) \/ TickStep(t)
      PROVE  StaysStarted
  BY <1>4, SameStays DEF Tick, TickStep, TickNext, TickDone
<1>5. CASE Kill \/ KillStep
  BY <1>5, SameStays DEF Kill, KillStep, SessionsEnded, BrowserClosed, ClearAll
<1>6. ASSUME NEW n \in Browser, Crash(n)
      PROVE  StaysStarted
  BY <1>6, SameStays DEF Crash
<1>7. CASE UNCHANGED vars
  BY <1>7, SameStays DEF vars
<1> QED
  BY <1>1, <1>2, <1>3, <1>4, <1>5, <1>6, <1>7, StepStays DEF Next

-----------------------------------------------------------------------------
(* A session is registered by the command that has opened it, for its         *)
(* applicant; it is exposed when another command still opens one.            *)
Registers == \A a \in Applicant :
  \/ browserClients'[a] \in {0, browserClients[a]}
  \/ \E c \in Command : /\ pc[c] = "page" /\ pc'[c] = "ready" /\ of[c] = a
                        /\ browserClients'[a] = c
                        /\ (\E d \in Command \ {c} : Creating(d) /\ of[d] = a) => c \in exposed'

(* An end that begins takes the session of its applicant; until it is over it *)
(* closes that one.                                                          *)
EndsGoOn == \A e \in Ender :
  \/ ~Ending(e)'
  \/ Ending(e) /\ end'[e].of = end[e].of /\ end'[e].ctx = end[e].ctx
  \/ \E a \in Applicant : Has(a) /\ end'[e] = Closing(a)

LEMMA SameOwn ==
  /\ UNCHANGED browserClients => Registers
  /\ UNCHANGED end => EndsGoOn
BY DEF Registers, EndsGoOn, Ending

LEMMA NextRegisters == TypeOK /\ [Next]_vars => Registers
<1> SUFFICES ASSUME TypeOK, [Next]_vars
             PROVE  Registers
  OBVIOUS
<1>1. ASSUME NEW c \in Command, NEW a \in Applicant, Send(c, a)
      PROVE  Registers
  BY <1>1, SameOwn DEF Send
<1>2. ASSUME NEW c \in Command, Step(c)
      PROVE  Registers
  <2>1. CASE Paged(c)
    <3>1. /\ pc[c] = "page"
          /\ \/ /\ browserClients' = [browserClients EXCEPT ![of[c]] = c]
                /\ pc' = [pc EXCEPT ![c] = "ready"]
                /\ (\E d \in Command \ {c} : Creating(d) /\ of[d] = of[c]) => c \in exposed'
             \/ UNCHANGED browserClients
      BY <2>1 DEF Paged, Goto
    <3> QED
      BY <3>1, SameOwn, TypeGroups DEF Registers, FieldType, CommandType
  <2> QED
    BY <1>2, <2>1, SameOwn
       DEF Step, CleanedUp, Launched, Probed, Opened, Ready, Called, fieldVars
<1>3. ASSUME NEW e \in Ender, EndStep(e)
      PROVE  Registers
  <2>1. CASE CloseFailed(e)
    BY <2>1, SameOwn DEF CloseFailed, fieldVars
  <2>2. CASE Unregister(e)
    BY <2>2, TypeGroups DEF Unregister, Registers, FieldType
  <2> QED
    BY <1>3, <2>1, <2>2 DEF EndStep, ContextClosed, PagesClosed
<1>4. ASSUME NEW e \in EndCall, NEW a \in Applicant, EndSession(e, a)
      PROVE  Registers
  BY <1>4, SameOwn DEF EndSession, fieldVars
<1>5. ASSUME NEW t \in Timer, Tick(t) \/ TickStep(t)
      PROVE  Registers
  BY <1>5, SameOwn DEF Tick, TickStep, TickNext, TickDone, fieldVars
<1>6. CASE Kill
  BY <1>6, SameOwn DEF Kill
<1>7. CASE KillStep
  <2>1. CASE ClearAll
    BY <2>1 DEF ClearAll, Registers
  <2>2. CASE UNCHANGED fieldVars
    BY <2>2, SameOwn DEF fieldVars
  <2> QED
    BY <1>7, <2>1, <2>2 DEF KillStep, SessionsEnded, BrowserClosed
<1>8. ASSUME NEW n \in Browser, Crash(n)
      PROVE  Registers
  BY <1>8, SameOwn DEF Crash, fieldVars
<1>9. CASE UNCHANGED vars
  BY <1>9, SameOwn DEF vars, fieldVars
<1> QED
  BY <1>1, <1>2, <1>3, <1>4, <1>5, <1>6, <1>7, <1>8, <1>9 DEF Next

LEMMA NextEnds == TypeOK /\ [Next]_vars => EndsGoOn
<1> SUFFICES ASSUME TypeOK, [Next]_vars
             PROVE  EndsGoOn
  OBVIOUS
<1> USE TypeGroups
<1>0. \A s \in {"idle", "loop", "done"} : NoEnd(s).at \notin {"closing", "forcing"}
  BY DEF NoEnd
<1>1. ASSUME NEW c \in Command, NEW a \in Applicant, Send(c, a)
      PROVE  EndsGoOn
  BY <1>1, SameOwn DEF Send
<1>2. ASSUME NEW c \in Command, Step(c)
      PROVE  EndsGoOn
  BY <1>2, SameOwn
     DEF Step, CleanedUp, Launched, Probed, Opened, Paged, Ready, Called, endVars
<1>3. ASSUME NEW e \in Ender, EndStep(e)
      PROVE  EndsGoOn
  <2>1. CASE CloseFailed(e)
    BY <2>1 DEF CloseFailed, EndsGoOn, EndsType, EndType, Ending
  <2>2. CASE Unregister(e)
    BY <2>2, <1>0 DEF Unregister, EndsGoOn, EndsType, Ending
  <2> QED
    BY <1>3, <2>1, <2>2 DEF EndStep, ContextClosed, PagesClosed
<1>4. ASSUME NEW e \in EndCall, NEW a \in Applicant, EndSession(e, a)
      PROVE  EndsGoOn
  BY <1>4, <1>0 DEF EndSession, EndsGoOn, EndsType, Ending
<1>5. ASSUME NEW t \in Timer, Tick(t) \/ TickStep(t)
      PROVE  EndsGoOn
  <2>1. CASE Tick(t)
    BY <2>1 DEF Tick, EndsGoOn, EndsType, EndType, Ending
  <2>2. ASSUME NEW a \in Applicant, TickNext(t, a)
        PROVE  EndsGoOn
    BY <2>2 DEF TickNext, EndsGoOn, EndsType, Ending
  <2>3. CASE TickDone(t)
    BY <2>3, <1>0 DEF TickDone, EndsGoOn, EndsType, Ending
  <2> QED
    BY <1>5, <2>1, <2>2, <2>3 DEF TickStep
<1>6. CASE Kill
  BY <1>6 DEF Kill, EndsGoOn, EndsType, Ending
<1>7. CASE KillStep
  BY <1>7, SameOwn DEF KillStep, SessionsEnded, BrowserClosed, ClearAll
<1>8. ASSUME NEW n \in Browser, Crash(n)
      PROVE  EndsGoOn
  BY <1>8, SameOwn DEF Crash, endVars
<1>9. CASE UNCHANGED vars
  BY <1>9, SameOwn DEF vars, endVars
<1> QED
  BY <1>1, <1>2, <1>3, <1>4, <1>5, <1>6, <1>7, <1>8, <1>9 DEF Next

-----------------------------------------------------------------------------
OwnInv == TypeOK /\ Registered /\ EndsOwn

LEMMA OwnInit == Init => OwnInv
<1> SUFFICES ASSUME Init
             PROVE  Registered /\ EndsOwn
  BY TypeInit DEF OwnInv
<1>1. Registered
  BY DEF Init, Registered
<1>2. EndsOwn
  BY Enders DEF Init, EndsOwn, Ending, NoEnd
<1> QED
  BY <1>1, <1>2

LEMMA OwnStep == OwnInv /\ [Next]_vars => OwnInv'
<1> SUFFICES ASSUME OwnInv, [Next]_vars
             PROVE  OwnInv'
  OBVIOUS
<1>0. TypeOK /\ Registered /\ EndsOwn /\ TypeOK'
  BY TypeStep DEF OwnInv
<1>1. StaysStarted /\ Registers /\ EndsGoOn
  BY <1>0, NextStays, NextRegisters, NextEnds
<1>2. ASSUME NEW n \in 0..MaxCommands, n # 0
      PROVE  n \in Command
  BY <1>2, DriverAssumption DEF Command
<1>3. Registered'
  <2> SUFFICES ASSUME NEW a \in Applicant, browserClients'[a] # 0
               PROVE  of'[browserClients'[a]] = a /\ pc'[browserClients'[a]] # "idle"
    BY DEF Registered, Belongs
  <2> DEFINE c == browserClients'[a]
  <2>1. c \in Command
    BY <1>0, <1>2, TypeGroups DEF FieldType
  <2>2. of[c] = a /\ pc[c] # "idle"
    BY <1>0, <1>1 DEF Registers, Registered, Belongs
  <2> QED
    BY <1>1, <2>1, <2>2 DEF StaysStarted
<1>4. EndsOwn'
  <2> SUFFICES ASSUME NEW e \in Ender, Ending(e)', end'[e].ctx # 0
               PROVE  of'[end'[e].ctx] = end'[e].of /\ pc'[end'[e].ctx] # "idle"
    BY DEF EndsOwn, Belongs
  <2> DEFINE c == end'[e].ctx
  <2>1. c \in Command
    BY <1>0, <1>2, TypeGroups DEF EndsType, EndType
  <2>2. of[c] = end'[e].of /\ pc[c] # "idle"
    <3>1. CASE Ending(e) /\ end'[e].of = end[e].of /\ end'[e].ctx = end[e].ctx
      BY <1>0, <3>1 DEF EndsOwn, Belongs
    <3>2. ASSUME NEW a \in Applicant, Has(a), end'[e] = Closing(a)
          PROVE  of[c] = end'[e].of /\ pc[c] # "idle"
      BY <1>0, <3>2 DEF Closing, Has, Registered, Belongs
    <3> QED
      BY <1>1, <3>1, <3>2 DEF EndsGoOn
  <2> QED
    BY <1>1, <2>1, <2>2 DEF StaysStarted
<1> QED
  BY <1>0, <1>3, <1>4 DEF OwnInv

-----------------------------------------------------------------------------
(* The ways in which a context stops to work. *)
ClosedRightly == \A c \in Command : Live(c) /\ host'[c] = 0 =>
  \/ \E e \in Ender : end[e].ctx = c /\ end[e].of = of[c] /\ end'[e] # end[e]
  \/ host[c] \notin alive' /\ UNCHANGED pc

LEMMA HostStays == UNCHANGED host => ClosedRightly
BY DEF ClosedRightly, Live

LEMMA GoneRightly ==
  ASSUME TypeOK, NEW n, Gone(n), UNCHANGED pc
  PROVE  ClosedRightly
<1> SUFFICES ASSUME NEW c \in Command, Live(c), host'[c] = 0
             PROVE  host[c] \notin alive'
  BY DEF ClosedRightly
<1>1. host[c] = n
  BY DEF Gone, Live
<1> QED
  BY <1>1 DEF Gone

LEMMA ContextClosedRightly ==
  ASSUME OwnInv, NEW e \in Ender, ContextClosed(e)
  PROVE  ClosedRightly
<1> SUFFICES ASSUME NEW c \in Command, Live(c), host'[c] = 0
             PROVE  end[e].ctx = c /\ end[e].of = of[c] /\ end'[e] # end[e]
  BY DEF ClosedRightly
<1>1. end[e].ctx = c
  BY TypeGroups DEF ContextClosed, Live, OwnInv, WorldType
<1>2. end[e].of = of[c]
  <2>1. c # 0
    BY DEF Command
  <2> QED
    BY <1>1, <2>1 DEF OwnInv, EndsOwn, Belongs, Ending, ContextClosed
<1>3. end'[e] # end[e]
  BY TypeGroups DEF ContextClosed, Unregister, NoEnd, OwnInv, EndsType
<1> QED
  BY <1>1, <1>2, <1>3

LEMMA OpenedRightly ==
  ASSUME TypeOK, NEW c \in Command, Opened(c)
  PROVE  ClosedRightly
<1>1. CASE got[c] \in alive /\ host' = [host EXCEPT ![c] = got[c]]
  <2>1. got[c] # 0
    BY <1>1, TypeGroups DEF WorldType
  <2> QED
    BY <1>1, <2>1, TypeGroups DEF ClosedRightly, Live, WorldType
<1> QED
  BY <1>1, HostStays DEF Opened

LEMMA StepsIsolated == OwnInv /\ [Next]_vars => ClosedRightly
<1> SUFFICES ASSUME OwnInv, [Next]_vars
             PROVE  ClosedRightly
  OBVIOUS
<1>0. TypeOK
  BY DEF OwnInv
<1>1. ASSUME NEW c \in Command, NEW a \in Applicant, Send(c, a)
      PROVE  ClosedRightly
  BY <1>1, HostStays DEF Send, worldVars
<1>2. ASSUME NEW c \in Command, Step(c)
      PROVE  ClosedRightly
  BY <1>0, <1>2, HostStays, OpenedRightly
     DEF Step, CleanedUp, Launched, Probed, Paged, Ready, Called, worldVars
<1>3. ASSUME NEW e \in Ender, EndStep(e)
      PROVE  ClosedRightly
  BY <1>3, HostStays, ContextClosedRightly DEF EndStep, CloseFailed, PagesClosed, worldVars
<1>4. ASSUME NEW e \in EndCall, NEW a \in Applicant, EndSession(e, a)
      PROVE  ClosedRightly
  BY <1>4, HostStays DEF EndSession, worldVars
<1>5. ASSUME NEW t \in Timer, Tick(t) \/ TickStep(t)
      PROVE  ClosedRightly
  BY <1>5, HostStays DEF Tick, TickStep, TickNext, TickDone, worldVars
<1>6. CASE Kill
  BY <1>6, HostStays DEF Kill, worldVars
<1>7. CASE KillStep
  <2>1. CASE UNCHANGED host
    BY <2>1, HostStays
  <2>2. CASE ClearAll /\ Gone(killing.browser)
    BY <1>0, <2>2, GoneRightly DEF ClearAll, commandVars
  <2> QED
    BY <1>7, <2>1, <2>2 DEF KillStep, SessionsEnded, BrowserClosed, worldVars
<1>8. ASSUME NEW n \in Browser, Crash(n)
      PROVE  ClosedRightly
  BY <1>0, <1>8, GoneRightly DEF Crash, commandVars
<1>9. CASE UNCHANGED vars
  BY <1>9, HostStays DEF vars, worldVars
<1> QED
  BY <1>1, <1>2, <1>3, <1>4, <1>5, <1>6, <1>7, <1>8, <1>9 DEF Next

(* A session that works is closed by an end of its own applicant, by kill's   *)
(* close of the browser or by a crash, for any number of applicants that     *)
(* share the browser.                                                        *)
THEOREM SessionsStayApart == Spec => SessionsIsolated
<1>1. Init => OwnInv
  BY OwnInit
<1>2. OwnInv /\ [Next]_vars => OwnInv'
  BY OwnStep
<1>3. OwnInv /\ [Next]_vars =>
        [\A c \in Command : Live(c) /\ host'[c] = 0 =>
           \/ \E e \in Ender : end[e].ctx = c /\ end[e].of = of[c] /\ end'[e] # end[e]
           \/ host[c] \notin alive' /\ UNCHANGED pc]_vars
  BY StepsIsolated DEF ClosedRightly
<1> QED
  BY <1>1, <1>2, <1>3, PTL DEF Spec, SessionsIsolated

-----------------------------------------------------------------------------
(* No context is lost.                                                       *)
Later == {"ready", "call", "settled"}

(* Who opens a session replaces none, or one that is exposed. *)
Replaces == \A c \in Command : Creating(c) => browserClients[of[c]] \in {0} \cup exposed

(* A context that works has a command at work on it or past it; what is       *)
(* registered, and what an end closes, belongs to a command past it.         *)
Stage ==
  /\ \A c \in Command : host[c] # 0 => pc[c] \in {"page"} \cup Later
  /\ \A a \in Applicant : browserClients[a] # 0 => pc[browserClients[a]] \in Later
  /\ \A e \in Ender : Ending(e) /\ end[e].ctx # 0 => pc[end[e].ctx] \in Later

(* Pages are closed one by one only when their browser has gone or close()     *)
(* has failed.                                                               *)
ForcedExposed == \A e \in Ender :
  end[e].at = "forcing" => ~Live(end[e].ctx) \/ end[e].ctx \in exposed

OpenStages == {"cleanup", "launch", "probe", "open", "page"}

(* How a command goes on. *)
Moves == \A d \in Command :
  /\ pc[d] \in Later => pc'[d] \in Later
  /\ pc[d] = "page" => pc'[d] \in {"page"} \cup Later
  /\ Creating(d)' => \/ Creating(d) /\ of'[d] = of[d]
                     \/ UNCHANGED browserClients /\ browserClients[of'[d]] = 0

(* Contexts begin to work when they are opened. *)
Hosts == \A c \in Command : host'[c] \in {0, host[c]} \/ pc'[c] = "page"

LEMMA SameMoves ==
  /\ UNCHANGED commandVars => Moves
  /\ UNCHANGED host => Hosts
BY DEF commandVars, Moves, Hosts, Creating

LEMMA CreateStages == \A a, br : /\ CreateClient(a, br) \in OpenStages \cup Later
                                 /\ GetBrowser(br) \in OpenStages
                                 /\ CreateClient(a, br) # "page"
BY DEF CreateClient, GetBrowser, OpenStages, Later

LEMMA SendMoves ==
  ASSUME TypeOK, NEW c \in Command, NEW a \in Applicant, Send(c, a)
  PROVE  Moves
<1> DEFINE s == IF plugin THEN CreateClient(a, browser) ELSE "settled"
<1>1. /\ pc \in [Command -> Stages] /\ of \in [Command -> Applicant]
      /\ pc[c] = "idle" /\ pc' = [pc EXCEPT ![c] = s] /\ of' = [of EXCEPT ![c] = a]
      /\ UNCHANGED browserClients
  BY TypeGroups DEF Send, Goto, CommandType
<1>2. s \in OpenStages \cup Later
  BY CreateStages DEF Later
<1>3. ASSUME s \in OpenStages
      PROVE  browserClients[a] = 0
  BY <1>3 DEF CreateClient, OpenStages, Has
<1> HIDE DEF s
<1>4. \A d \in Command : d # c => pc'[d] = pc[d] /\ of'[d] = of[d]
  BY <1>1
<1>5. pc'[c] = s /\ of'[c] = a
  BY <1>1
<1>6. ASSUME NEW d \in Command, Creating(d)'
      PROVE  \/ Creating(d) /\ of'[d] = of[d]
             \/ UNCHANGED browserClients /\ browserClients[of'[d]] = 0
  <2>1. CASE d = c
    <3>1. s \in OpenStages
      BY <1>5, <1>6, <2>1 DEF Creating, OpenStages
    <3> QED
      BY <1>1, <1>3, <1>5, <2>1, <3>1
  <2>2. CASE d # c
    BY <1>4, <1>6, <2>2 DEF Creating
  <2> QED
    BY <2>1, <2>2
<1>7. \A d \in Command : /\ pc[d] \in Later => pc'[d] \in Later
                         /\ pc[d] = "page" => pc'[d] \in {"page"} \cup Later
  BY <1>1, <1>4 DEF Later
<1> QED
  BY <1>6, <1>7 DEF Moves

(* A step of command c from stage r to stage s that goes forward. *)
LEMMA ForwardMoves ==
  ASSUME TypeOK, NEW c \in Command, NEW s, pc' = [pc EXCEPT ![c] = s], UNCHANGED of,
         \/ pc[c] \in OpenStages \ {"page"} /\ s \in OpenStages \cup Later
         \/ pc[c] \in {"page"} \cup Later /\ s \in Later
  PROVE  Moves
<1>1. pc \in [Command -> Stages]
  BY TypeGroups DEF CommandType
<1>2. \A d \in Command : d # c => pc'[d] = pc[d]
  BY <1>1
<1>3. pc'[c] = s
  BY <1>1
<1> QED
  BY <1>2, <1>3 DEF Moves, Creating, OpenStages, Later

LEMMA StepMoves ==
  ASSUME TypeOK, NEW c \in Command, Step(c)
  PROVE  Moves
<1>1. UNCHANGED of
  BY DEF Step, CleanedUp, Launched, Probed, Opened, Paged, Ready, Called
<1>2. CASE CleanedUp(c) \/ Launched(c)
  <2>1. /\ pc[c] \in {"cleanup", "launch"}
        /\ \E s \in {"launch", "probe", "settled"} : pc' = [pc EXCEPT ![c] = s]
    BY <1>2 DEF CleanedUp, Launched, Goto
  <2> QED
    BY <1>1, <2>1, ForwardMoves DEF OpenStages, Later
<1>3. CASE Probed(c) \/ Opened(c)
  <2>1. pc[c] \in {"probe", "open"}
    BY <1>3 DEF Probed, Opened
  <2>2. \E s \in OpenStages \cup Later : pc' = [pc EXCEPT ![c] = s]
    <3>1. ASSUME NEW a, NEW br, Create(c, a, br)
          PROVE  \E s \in OpenStages \cup Later : pc' = [pc EXCEPT ![c] = s]
      BY <3>1, CreateStages DEF Create, Goto
    <3>2. ASSUME NEW s \in {"open", "page", "settled", GetBrowser(0)}, NEW br, Goto(c, s, br)
          PROVE  \E t \in OpenStages \cup Later : pc' = [pc EXCEPT ![c] = t]
      BY <3>2, CreateStages DEF Goto, OpenStages, Later
    <3> QED
      BY <1>3, <3>1, <3>2 DEF Probed, Opened
  <2> QED
    BY <1>1, <2>1, <2>2, ForwardMoves DEF OpenStages
<1>4. CASE Paged(c) \/ Ready(c) \/ Called(c)
  <2>1. /\ pc[c] \in {"page"} \cup Later
        /\ \E s \in Later : pc' = [pc EXCEPT ![c] = s]
    BY <1>4 DEF Paged, Ready, Called, Goto, Later
  <2> QED
    BY <1>1, <2>1, ForwardMoves
<1> QED
  BY <1>2, <1>3, <1>4 DEF Step

LEMMA NextMoves == TypeOK /\ [Next]_vars => Moves
<1> SUFFICES ASSUME TypeOK, [Next]_vars
             PROVE  Moves
  OBVIOUS
<1>1. ASSUME NEW e \in Ender, EndStep(e)
      PROVE  Moves
  BY <1>1, SameMoves DEF EndStep, ContextClosed, CloseFailed, PagesClosed, Unregister
<1>2. ASSUME NEW e \in EndCall, NEW a \in Applicant, EndSession(e, a)
      PROVE  Moves
  BY <1>2, SameMoves DEF EndSession
<1>3. ASSUME NEW t \in Timer, Tick(t) \/ TickStep(t)
      PROVE  Moves
  BY <1>3, SameMoves DEF Tick, TickStep, TickNext, TickDone
<1>4. CASE Kill \/ KillStep
  BY <1>4, SameMoves DEF Kill, KillStep, SessionsEnded, BrowserClosed, ClearAll
<1>5. ASSUME NEW n \in Browser, Crash(n)
      PROVE  Moves
  BY <1>5, SameMoves DEF Crash
<1>6. CASE UNCHANGED vars
  BY <1>6, SameMoves DEF vars
<1> QED
  BY <1>1, <1>2, <1>3, <1>4, <1>5, <1>6, SendMoves, StepMoves DEF Next

(* Who is exposed stays so. *)
LEMMA NextExposes == [Next]_vars => exposed \subseteq exposed'
BY DEF Next, vars, endVars, Send, Step, CleanedUp, Launched, Probed, Opened, Paged, Ready, Called,
   EndStep, ContextClosed, CloseFailed, PagesClosed, Unregister, EndSession, Tick, TickStep,
   TickNext, TickDone, Kill, KillStep, SessionsEnded, BrowserClosed, ClearAll, Crash

LEMMA GoneHosts == \A n : Gone(n) => Hosts
BY DEF Gone, Hosts

LEMMA NextHosts == TypeOK /\ [Next]_vars => Hosts
<1> SUFFICES ASSUME TypeOK, [Next]_vars
             PROVE  Hosts
  OBVIOUS
<1>1. ASSUME NEW c \in Command, NEW a \in Applicant, Send(c, a)
      PROVE  Hosts
  BY <1>1, SameMoves DEF Send, worldVars
<1>2. ASSUME NEW c \in Command, Step(c)
      PROVE  Hosts
  <2>1. CASE Opened(c)
    <3>1. \/ host' = [host EXCEPT ![c] = got[c]] /\ pc' = [pc EXCEPT ![c] = "page"]
          \/ UNCHANGED host
      BY <2>1 DEF Opened, Goto
    <3> QED
      BY <3>1, SameMoves, TypeGroups DEF Hosts, WorldType, CommandType
  <2> QED
    BY <1>2, <2>1, SameMoves
       DEF Step, CleanedUp, Launched, Probed, Paged, Ready, Called, worldVars
<1>3. ASSUME NEW e \in Ender, EndStep(e)
      PROVE  Hosts
  <2>1. CASE ContextClosed(e)
    BY <2>1, TypeGroups DEF ContextClosed, Hosts, WorldType
  <2> QED
    BY <1>3, <2>1, SameMoves DEF EndStep, CloseFailed, PagesClosed, worldVars
<1>4. ASSUME NEW e \in EndCall, NEW a \in Applicant, EndSession(e, a)
      PROVE  Hosts
  BY <1>4, SameMoves DEF EndSession, worldVars
<1>5. ASSUME NEW t \in Timer, Tick(t) \/ TickStep(t)
      PROVE  Hosts
  BY <1>5, SameMoves DEF Tick, TickStep, TickNext, TickDone, worldVars
<1>6. CASE Kill \/ KillStep
  BY <1>6, SameMoves, GoneHosts DEF Kill, KillStep, SessionsEnded, BrowserClosed, worldVars
<1>7. ASSUME NEW n \in Browser, Crash(n)
      PROVE  Hosts
  BY <1>7, GoneHosts DEF Crash
<1>8. CASE UNCHANGED vars
  BY <1>8, SameMoves DEF vars, worldVars
<1> QED
  BY <1>1, <1>2, <1>3, <1>4, <1>5, <1>6, <1>7, <1>8 DEF Next

-----------------------------------------------------------------------------
StageInv == OwnInv /\ Replaces /\ Stage

LEMMA StageInit == Init => StageInv
<1> SUFFICES ASSUME Init
             PROVE  Replaces /\ Stage
  BY OwnInit DEF StageInv
<1>1. \A c \in Command : pc[c] = "idle" /\ host[c] = 0
  BY DEF Init
<1>2. (\A a \in Applicant : browserClients[a] = 0) /\ \A e \in Ender : ~Ending(e)
  BY DEF Init, Ending, NoEnd
<1> QED
  BY <1>1, <1>2 DEF Replaces, Creating, Stage

LEMMA StageStep == StageInv /\ [Next]_vars => StageInv'
<1> SUFFICES ASSUME StageInv, [Next]_vars
             PROVE  StageInv'
  OBVIOUS
<1>0. /\ OwnInv' /\ StaysStarted /\ EndsGoOn /\ Moves /\ Registers /\ Hosts
      /\ exposed \subseteq exposed' /\ Replaces /\ Stage /\ TypeOK /\ TypeOK'
  BY OwnStep, NextStays, NextEnds, NextMoves, NextRegisters, NextHosts, NextExposes
     DEF StageInv, OwnInv
<1>n. \A n \in 0..MaxCommands : n # 0 => n \in Command
  BY DriverAssumption DEF Command
<1>1. Replaces'
  <2> SUFFICES ASSUME NEW d \in Command, Creating(d)'
               PROVE  browserClients'[of'[d]] \in {0} \cup exposed'
    BY DEF Replaces
  <2>1. CASE Creating(d) /\ of'[d] = of[d]
    <3>1. of[d] \in Applicant /\ browserClients[of[d]] \in {0} \cup exposed'
      BY <1>0, <2>1, TypeGroups DEF Replaces, CommandType
    <3>2. ASSUME NEW c \in Command, pc'[c] = "ready",
                 (\E x \in Command \ {c} : Creating(x) /\ of[x] = of[d]) => c \in exposed'
          PROVE  c \in exposed'
      BY <2>1, <3>2 DEF Creating
    <3> QED
      BY <1>0, <2>1, <3>1, <3>2 DEF Registers
  <2> QED
    BY <1>0, <2>1 DEF Moves
<1>2. Stage'
  <2>1. ASSUME NEW c \in Command, host'[c] # 0
        PROVE  pc'[c] \in {"page"} \cup Later
    BY <1>0, <2>1 DEF Hosts, Stage, Moves
  <2>2. ASSUME NEW a \in Applicant, browserClients'[a] # 0
        PROVE  pc'[browserClients'[a]] \in Later
    <3>1. browserClients'[a] \in Command
      BY <1>0, <1>n, <2>2, TypeGroups DEF FieldType
    <3> QED
      BY <1>0, <2>2, <3>1 DEF Registers, Stage, Moves, Later
  <2>3. ASSUME NEW e \in Ender, Ending(e)', end'[e].ctx # 0
        PROVE  pc'[end'[e].ctx] \in Later
    <3>1. end'[e].ctx \in Command
      BY <1>0, <1>n, <2>3, TypeGroups DEF EndsType, EndType
    <3>2. pc[end'[e].ctx] \in Later
      <4>1. CASE Ending(e) /\ end'[e].ctx = end[e].ctx
        BY <1>0, <2>3, <4>1 DEF Stage
      <4>2. ASSUME NEW a \in Applicant, Has(a), end'[e] = Closing(a)
            PROVE  pc[end'[e].ctx] \in Later
        BY <1>0, <4>2 DEF Stage, Closing, Has
      <4> QED
        BY <1>0, <2>3, <4>1, <4>2 DEF EndsGoOn
    <3> QED
      BY <1>0, <3>1, <3>2 DEF Moves
  <2> QED
    BY <2>1, <2>2, <2>3 DEF Stage
<1> QED
  BY <1>0, <1>1, <1>2 DEF StageInv

-----------------------------------------------------------------------------
(* The contexts that are not exposed are kept.                               *)
KeepInv == StageInv /\ ForcedExposed /\ NoContextLost

LEMMA KeepInit == Init => KeepInv
<1> SUFFICES ASSUME Init
             PROVE  ForcedExposed /\ NoContextLost
  BY StageInit DEF KeepInv
<1>1. \A c \in Command : host[c] = 0
  BY DEF Init
<1>2. \A e \in Ender : end[e].at = "idle"
  BY DEF Init, NoEnd
<1>3. \A c \in Command : c # 0
  BY DEF Command
<1> QED
  BY <1>1, <1>2, <1>3 DEF ForcedExposed, NoContextLost, Live

(* How an end comes to close pages one by one. *)
Forces == \A e \in Ender :
  end'[e].at = "forcing" => \/ end[e].at = "forcing" /\ end'[e].ctx = end[e].ctx
                            \/ /\ end'[e].ctx = end[e].ctx /\ Ending(e) /\ UNCHANGED host
                               /\ ~Live(end[e].ctx) \/ end[e].ctx \in exposed'

LEMMA NextForces ==
  ASSUME TypeOK, [Next]_vars
  PROVE  Forces
<1> USE TypeGroups
<1>s. UNCHANGED end => Forces
  BY DEF Forces
<1>n. \A s \in {"idle", "loop", "done"} : NoEnd(s).at # "forcing"
  BY DEF NoEnd
<1>c. \A a : Closing(a).at # "forcing"
  BY DEF Closing
<1>1. ASSUME NEW c \in Command, NEW a \in Applicant, Send(c, a)
      PROVE  Forces
  BY <1>1, <1>s DEF Send
<1>2. ASSUME NEW c \in Command, Step(c)
      PROVE  Forces
  BY <1>2, <1>s DEF Step, CleanedUp, Launched, Probed, Opened, Paged, Ready, Called, endVars
<1>3. ASSUME NEW e \in Ender, EndStep(e)
      PROVE  Forces
  <2>1. CASE CloseFailed(e)
    BY <2>1 DEF CloseFailed, Forces, EndsType, EndType, Ending, worldVars
  <2>2. CASE Unregister(e)
    BY <2>2, <1>n DEF Unregister, Forces, EndsType
  <2> QED
    BY <1>3, <2>1, <2>2 DEF EndStep, ContextClosed, PagesClosed
<1>4. ASSUME NEW e \in EndCall, NEW a \in Applicant, EndSession(e, a)
      PROVE  Forces
  BY <1>4, <1>n, <1>c DEF EndSession, Forces, EndsType
<1>5. ASSUME NEW t \in Timer, Tick(t) \/ TickStep(t)
      PROVE  Forces
  <2>1. CASE Tick(t)
    BY <2>1 DEF Tick, Forces, EndsType, EndType
  <2>2. ASSUME NEW a \in Applicant, TickNext(t, a)
        PROVE  Forces
    BY <2>2, <1>c DEF TickNext, Forces, EndsType
  <2>3. CASE TickDone(t)
    BY <2>3, <1>n DEF TickDone, Forces, EndsType
  <2> QED
    BY <1>5, <2>1, <2>2, <2>3 DEF TickStep
<1>6. CASE Kill
  BY <1>6, <1>c DEF Kill, Forces, EndsType
<1>7. CASE KillStep
  BY <1>7, <1>s DEF KillStep, SessionsEnded, BrowserClosed, ClearAll
<1>8. ASSUME NEW n \in Browser, Crash(n)
      PROVE  Forces
  BY <1>8, <1>s DEF Crash, endVars
<1>9. CASE UNCHANGED vars
  BY <1>9, <1>s DEF vars, endVars
<1> QED
  BY <1>1, <1>2, <1>3, <1>4, <1>5, <1>6, <1>7, <1>8, <1>9 DEF Next

LEMMA ForcedStep ==
  ASSUME StageInv, ForcedExposed, [Next]_vars
  PROVE  ForcedExposed'
<1>0. /\ TypeOK /\ TypeOK' /\ Stage /\ Hosts /\ Moves /\ exposed \subseteq exposed'
  BY NextHosts, NextMoves, NextExposes, TypeStep DEF StageInv, OwnInv
<1>1. Forces
  BY <1>0, NextForces
<1> SUFFICES ASSUME NEW e \in Ender, end'[e].at = "forcing", end'[e].ctx \notin exposed'
             PROVE  end'[e].ctx = 0 \/ host'[end'[e].ctx] = 0
  BY DEF ForcedExposed, Live
<1> DEFINE c == end'[e].ctx
<1>2. ~Live(c) /\ c = end[e].ctx /\ Ending(e)
  BY <1>0, <1>1 DEF Forces, ForcedExposed, Ending
<1>4. CASE c # 0
  <2>1. c \in Command
    BY <1>0, <1>4, DriverAssumption, TypeGroups DEF EndsType, EndType, Command
  <2>2. host[c] = 0 /\ pc[c] \in Later
    BY <1>0, <1>2, <1>4 DEF Live, Stage
  <2> QED
    BY <1>0, <2>1, <2>2 DEF Hosts, Moves, Later
<1> QED
  BY <1>4

(* What keeps a context is handed on: its registration, the command that     *)
(* opens it, the end that closes it.                                         *)
LEMMA HandedOn ==
  ASSUME StageInv, NoContextLost, killing.at = "no", StaysStarted, Hosts,
         exposed \subseteq exposed',
         \A c \in Command : browserClients[of[c]] = c =>
           browserClients'[of[c]] = c \/ c \in exposed' \/ host'[c] = 0,
         \A c \in Command : pc[c] = "page" /\ Live(c) =>
           pc'[c] = "page" \/ browserClients'[of[c]] = c \/ c \in exposed',
         \A e \in Ender : Ending(e) =>
           \/ Ending(e)' /\ end'[e].ctx = end[e].ctx
           \/ end[e].ctx \in Command =>
                host'[end[e].ctx] = 0 \/ ~Live(end[e].ctx) \/ end[e].ctx \in exposed'
  PROVE  NoContextLost'
<1> SUFFICES ASSUME NEW c \in Command, host'[c] # 0
             PROVE  Kept(c)' \/ c \in exposed'
  BY DEF NoContextLost, Live
<1>1. CASE pc'[c] = "page"
  BY <1>1 DEF Kept
<1>2. CASE host'[c] = host[c]
  <2>1. Live(c) /\ (Kept(c) \/ c \in exposed)
    BY <1>2 DEF NoContextLost, Live, Command
  <2>2. of'[c] = of[c]
    BY <1>2 DEF StageInv, Stage, Later, StaysStarted
  <2>3. CASE browserClients[of[c]] = c \/ pc[c] = "page"
    BY <2>1, <2>2, <2>3 DEF Kept
  <2>4. ASSUME NEW e \in Ender, end[e].ctx = c, Ending(e)
        PROVE  Kept(c)' \/ c \in exposed'
    BY <2>1, <2>4 DEF Kept
  <2> QED
    BY <2>1, <2>3, <2>4 DEF Kept
<1> QED
  BY <1>1, <1>2 DEF Hosts

LEMMA KeepStep ==
  ASSUME KeepInv, [Next]_vars
  PROVE  KeepInv'
<1>0. /\ StageInv /\ StageInv' /\ ForcedExposed' /\ TypeOK /\ Hosts /\ StaysStarted
      /\ ForcedExposed /\ NoContextLost /\ exposed \subseteq exposed'
  BY StageStep, ForcedStep, NextHosts, NextStays, NextExposes DEF KeepInv, StageInv, OwnInv
<1> SUFFICES ASSUME killing'.at = "no"
             PROVE  NoContextLost'
  BY <1>0 DEF KeepInv, NoContextLost
<1> USE TypeGroups
<1>1. CASE /\ UNCHANGED <<browserClients, end, exposed, killing>>
           /\ \A c \in Command : pc[c] = "page" /\ Live(c) => pc'[c] = "page"
  <2>1. \A e \in Ender : Ending(e) => Ending(e)' /\ end'[e].ctx = end[e].ctx
    BY <1>1 DEF Ending
  <2> QED
    BY <1>0, <1>1, <2>1, HandedOn
<1>2. ASSUME NEW c \in Command, NEW a \in Applicant, Send(c, a)
      PROVE  NoContextLost'
  <2>1. pc[c] = "idle" /\ UNCHANGED <<browserClients, end, exposed, killing>>
    BY <1>2 DEF Send
  <2>2. \A d \in Command : d # c => pc'[d] = pc[d]
    BY <1>0, <1>2 DEF Send, Goto, CommandType
  <2> QED
    BY <1>1, <2>1, <2>2
<1>3. ASSUME NEW c \in Command, Paged(c)
      PROVE  NoContextLost'
  <2>0. \A d \in Command : d # c => pc'[d] = pc[d]
    BY <1>0, <1>3 DEF Paged, Goto, CommandType
  <2>1. UNCHANGED <<end, killing>> /\ pc[c] = "page" /\ of[c] \in Applicant
    BY <1>0, <1>3 DEF Paged, CommandType
  <2>2. \A e \in Ender : Ending(e) => Ending(e)' /\ end'[e].ctx = end[e].ctx
    BY <2>1 DEF Ending
  <2>3. CASE UNCHANGED browserClients /\ exposed' = exposed \cup {d \in {c} : Live(d)}
    <3>1. \A d \in Command : pc[d] = "page" /\ Live(d) => pc'[d] = "page" \/ d \in exposed'
      BY <2>0, <2>3
    <3> QED
      BY <1>0, <2>1, <2>2, <2>3, <3>1, HandedOn
  <2>4. CASE browserClients' = [browserClients EXCEPT ![of[c]] = c]
    <3>1. browserClients[of[c]] \in {0} \cup exposed
      BY <1>0, <2>1 DEF StageInv, Replaces, Creating
    <3>2. \A d \in Command : browserClients[of[d]] = d =>
            browserClients'[of[d]] = d \/ d \in exposed'
      BY <1>0, <2>4, <3>1 DEF Command, FieldType, CommandType
    <3>3. browserClients'[of[c]] = c
      BY <1>0, <2>1, <2>4 DEF FieldType
    <3> QED
      BY <1>0, <2>0, <2>1, <2>2, <3>2, <3>3, HandedOn
  <2> QED
    BY <1>3, <2>3, <2>4 DEF Paged
<1>4. ASSUME NEW c \in Command, Step(c), ~Paged(c)
      PROVE  NoContextLost'
  <2>1. pc[c] # "page"
    BY <1>4 DEF Step, CleanedUp, Launched, Probed, Opened, Ready, Called
  <2>2. UNCHANGED <<browserClients, end, exposed, killing>>
    BY <1>4 DEF Step, CleanedUp, Launched, Probed, Opened, Ready, Called, endVars, fieldVars
  <2>3. \E s, br : Goto(c, s, br)
    BY <1>4 DEF Step, CleanedUp, Launched, Probed, Opened, Ready, Called, Create
  <2>4. \A d \in Command : d # c => pc'[d] = pc[d]
    BY <1>0, <2>3 DEF Goto, CommandType
  <2> QED
    BY <1>1, <2>1, <2>2, <2>4
<1>5. ASSUME NEW e \in Ender, EndStep(e)
      PROVE  NoContextLost'
  <2>0. UNCHANGED <<pc, killing>> /\ Ending(e)
    BY <1>5 DEF EndStep, ContextClosed, CloseFailed, PagesClosed, Unregister, commandVars, Ending
  <2>1. CASE CloseFailed(e)
    <3>1. /\ UNCHANGED browserClients
          /\ \A f \in Ender : Ending(f) => Ending(f)' /\ end'[f].ctx = end[f].ctx
      BY <1>0, <2>1 DEF CloseFailed, fieldVars, Ending, EndsType, EndType
    <3> QED
      BY <1>0, <2>0, <3>1, HandedOn
  <2>2. CASE /\ Unregister(e)
             /\ end[e].ctx \in Command =>
                  host'[end[e].ctx] = 0 \/ ~Live(end[e].ctx) \/ end[e].ctx \in exposed
    <3>2. \A f \in Ender : f # e => end'[f] = end[f]
      BY <1>0, <2>2 DEF Unregister, EndsType
    <3>3. ASSUME NEW c \in Command, browserClients[of[c]] = c
          PROVE  browserClients'[of[c]] = c \/ c \in exposed' \/ host'[c] = 0
      <4>1. CASE of[c] # end[e].of
        BY <1>0, <2>2, <3>3, <4>1 DEF Unregister, FieldType, CommandType
      <4>2. CASE of[c] = end[e].of /\ c # end[e].ctx
        BY <2>2, <3>3, <4>2 DEF Unregister, Command
      <4>3. CASE c = end[e].ctx /\ c \notin exposed
        <5>1. ~Live(c) => host[c] = 0 /\ pc'[c] # "page"
          <6>1. pc[c] \in Later
            BY <1>0, <2>0, <4>3 DEF StageInv, Stage, Command
          <6> QED
            BY <2>0, <6>1 DEF Live, Command, Later
        <5> QED
          BY <1>0, <2>2, <4>3, <5>1 DEF Hosts
      <4> QED
        BY <1>0, <4>1, <4>2, <4>3
    <3>4. ASSUME NEW f \in Ender, Ending(f)
          PROVE  \/ Ending(f)' /\ end'[f].ctx = end[f].ctx
                 \/ end[f].ctx \in Command =>
                      host'[end[f].ctx] = 0 \/ ~Live(end[f].ctx) \/ end[f].ctx \in exposed'
      BY <1>0, <2>2, <3>2, <3>4 DEF Ending
    <3> QED
      BY <1>0, <2>0, <3>3, <3>4, HandedOn
  <2>3. CASE ContextClosed(e)
    BY <1>0, <2>2, <2>3 DEF ContextClosed, WorldType
  <2>4. CASE PagesClosed(e)
    BY <1>0, <2>2, <2>4 DEF PagesClosed, ForcedExposed
  <2> QED
    BY <1>5, <2>1, <2>3, <2>4 DEF EndStep
<1>6. CASE /\ UNCHANGED <<pc, browserClients, exposed, killing>>
           /\ \A e \in Ender : Ending(e) => end'[e] = end[e]
  <2>1. \A e \in Ender : Ending(e) => Ending(e)' /\ end'[e].ctx = end[e].ctx
    BY <1>6 DEF Ending
  <2> QED
    BY <1>0, <1>6, <2>1, HandedOn
<1>7. ASSUME NEW e \in EndCall, NEW a \in Applicant, EndSession(e, a)
      PROVE  NoContextLost'
  <2>1. \A f \in Ender : Ending(f) => end'[f] = end[f]
    BY <1>0, <1>7 DEF EndSession, EndsType, Ending
  <2> QED
    BY <1>6, <1>7, <2>1 DEF EndSession, commandVars, fieldVars
<1>8. ASSUME NEW t \in Timer, Tick(t) \/ TickStep(t)
      PROVE  NoContextLost'
  <2>1. \A f \in Ender : Ending(f) => end'[f] = end[f]
    BY <1>0, <1>8 DEF Tick, TickStep, TickNext, TickDone, EndsType, Ending
  <2> QED
    BY <1>6, <1>8, <2>1 DEF Tick, TickStep, TickNext, TickDone, commandVars, fieldVars
<1>9. ~Kill /\ ~KillStep
  BY DEF Kill, KillStep, SessionsEnded, BrowserClosed, ClearAll
<1>10. ASSUME NEW n \in Browser, Crash(n)
       PROVE  NoContextLost'
  BY <1>6, <1>10 DEF Crash, commandVars, fieldVars, endVars
<1>11. CASE UNCHANGED vars
  BY <1>6, <1>11 DEF vars, commandVars, fieldVars, endVars
<1> QED
  BY <1>2, <1>3, <1>4, <1>5, <1>7, <1>8, <1>9, <1>10, <1>11 DEF Next

(* As long as the driver is not killed every context that works is the        *)
(* session of its applicant, or in the hands of the command that opens it or *)
(* of an end that closes it: whatever crashes and fails, however the         *)
(* commands of an applicant overlap, for any number of applicants, commands, *)
(* ends and ticks; but for those an earlier end has unregistered, those that *)
(* were registered while another command still opened a session, and those   *)
(* whose own page or close() has failed.                                     *)
THEOREM ContextsAreKept == Spec => []NoContextLost
<1>1. Init => KeepInv
  BY KeepInit
<1>2. KeepInv /\ [Next]_vars => KeepInv'
  BY KeepStep
<1>3. KeepInv => NoContextLost
  BY DEF KeepInv
<1> QED
  BY <1>1, <1>2, <1>3, PTL DEF Spec

=============================================================================
