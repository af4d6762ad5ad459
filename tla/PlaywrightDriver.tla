-------------------------- MODULE PlaywrightDriver --------------------------
(***************************************************************************)
(* packages/plugin-playwright-driver/src/plugin/index.ts: the sessions of  *)
(* PlaywrightPlugin and the browser they share, with the                   *)
(* BrowserProxyController of packages/browser-proxy in front.              *)
(*                                                                         *)
(* A command is a coroutine that first calls createClient: the session of  *)
(* its applicant is a Playwright context, opened on demand in a browser    *)
(* that is launched on demand.  Nothing keeps a test from sending a        *)
(* command before the last is answered, and it does when a page takes too  *)
(* long to open.  Sessions are ended by the client, by a timer when they   *)
(* have not been used for clientTimeout, and by kill().  Steps are what    *)
(* runs between two awaits; the answers of Playwright, and the browser's   *)
(* process, are the environment.                                           *)
(*                                                                         *)
(* A context has the number of the command that opened it, a browser the   *)
(* number of its launch, 0 is undefined.  A browser that is not Chromium   *)
(* is launched without a probe: as if the probe was answered at once.      *)
(***************************************************************************)
EXTENDS Naturals, FiniteSets, DriverCommands

CONSTANTS
  Applicant,     \* who has a session: one per test
  MaxCommands,   \* bound: the commands sent
  MaxLaunches,   \* bound: browsers that can be launched, later launches fail
  EndCall,       \* calls of end by the clients
  Timer,         \* ticks of clientCheckInterval
  Faults         \* what may fail: "launch", "context", "page", "crash",
                 \*   "close", "browserClose"

ASSUME DriverAssumption ==
  /\ MaxCommands \in Nat /\ MaxLaunches \in Nat
  /\ Applicant # {} /\ IsFiniteSet(Applicant)
  /\ EndCall \cap Timer = {} /\ (EndCall \cup Timer) \cap Applicant = {}

Command == 1..MaxCommands
Browser == 1..MaxLaunches

(* Who calls end: a client, the timer, and kill for each applicant. *)
Ender == EndCall \cup Timer \cup Applicant

VARIABLES
  (* commands *)
  pc, of,              \* how far, and whose
  got,                 \* the browser getBrowser has answered with
  again,               \* it called getBrowser only to start again
  (* fields of PlaywrightPlugin *)
  browser,             \* the browser
  isCleaningUp,
  browserClients,      \* the context of each applicant
  expiredBrowserClients,
  interval,            \* clientCheckInterval is set
  (* coroutines that end sessions *)
  end,                 \* how far each call of end is, for whom, what it closes
  todo,                \* the applicants a tick has found past its limit
  killing,             \* how far kill() is, and the browser it closes
  plugin,              \* the controller has a plugin
  (* Playwright *)
  launched, alive,     \* browsers launched, those that still run
  host,                \* the browser of each context that works
  (* history *)
  exposed              \* contexts that an end has unregistered which closed another;
                       \*   that were registered while a command of the same applicant
                       \*   was still opening one, which replaces them;
                       \*   whose page did not open or whose close() has failed

commandVars == <<pc, of, got, again>>
fieldVars   == <<browser, isCleaningUp, browserClients, expiredBrowserClients,
                 interval>>
endVars     == <<end, todo, killing, plugin, exposed>>
worldVars   == <<launched, alive, host>>
vars        == <<commandVars, fieldVars, endVars, worldVars>>

-----------------------------------------------------------------------------
Has(a)  == browserClients[a] # 0
Live(c) == c # 0 /\ host[c] # 0

NoEnd(at) == [of |-> CHOOSE a \in Applicant : TRUE, ctx |-> 0, at |-> at]

Settled(c) == pc[c] = "settled"    \* with a value or an error
Ending(e)  == end[e].at \in {"closing", "forcing"}

TypeOK ==
  /\ pc \in [Command -> {"idle", "cleanup", "launch", "probe", "open", "page",
                         "ready", "call", "settled"}]
  /\ of \in [Command -> Applicant]
  /\ got \in [Command -> 0..MaxLaunches]
  /\ again \in [Command -> BOOLEAN]
  /\ browser \in 0..MaxLaunches
  /\ browserClients \in [Applicant -> 0..MaxCommands]
  /\ expiredBrowserClients \subseteq Applicant
  /\ {isCleaningUp, interval, plugin} \subseteq BOOLEAN
  /\ end \in [Ender -> [of : Applicant, ctx : 0..MaxCommands,
                        at : {"idle", "closing", "forcing", "loop", "done"}]]
  /\ todo \in [Timer -> SUBSET Applicant]
  /\ killing \in [at : {"no", "sessions", "browser", "done"},
                  browser : 0..MaxLaunches]
  /\ launched \in 0..MaxLaunches /\ alive \subseteq 1..launched
  /\ host \in [Command -> 0..MaxLaunches]
  /\ exposed \subseteq Command

Init ==
  /\ pc = [c \in Command |-> "idle"]
  /\ of = [c \in Command |-> NoEnd("idle").of]
  /\ got = [c \in Command |-> 0]
  /\ again = [c \in Command |-> FALSE]
  /\ browser = 0 /\ isCleaningUp = FALSE
  /\ browserClients = [a \in Applicant |-> 0]
  /\ expiredBrowserClients = {}
  /\ interval = TRUE
  /\ end = [e \in Ender |-> NoEnd("idle")]
  /\ todo = [t \in Timer |-> {}]
  /\ killing = [at |-> "no", browser |-> 0]
  /\ plugin = TRUE
  /\ launched = 0 /\ alive = {}
  /\ host = [c \in Command |-> 0]
  /\ exposed = {}

-----------------------------------------------------------------------------
(* Browser n is gone, and all its contexts with it. *)
Gone(n) ==
  /\ alive' = alive \ {n}
  /\ host' = [c \in Command |-> IF host[c] = n THEN 0 ELSE host[c]]

(* createClient and getBrowser, as far as they come without waiting. *)

(* Where getBrowser stops when this.browser is br. *)
GetBrowser(br) == IF br \in alive THEN "open"
                  ELSE IF isCleaningUp THEN "cleanup" ELSE "launch"

(* Mutant of createClient: it does not look for a session. *)
CreateClientAnew(a, br) ==
  IF a \in expiredBrowserClients THEN "settled" ELSE GetBrowser(br)

(* Where createClient for applicant a stops. *)
CreateClient(a, br) ==
  IF Has(a) THEN "ready"
  ELSE IF a \in expiredBrowserClients THEN "settled"
  ELSE GetBrowser(br)

(* Command c goes to step s; a browser getBrowser has answered with is br.   *)
Goto(c, s, br) ==
  /\ pc' = [pc EXCEPT ![c] = s]
  /\ got' = [got EXCEPT ![c] = IF s = "open" THEN br ELSE 0]

(* createClient finds a session and sets its initTime; a tick that has       *)
(* found it past the limit no longer does.                                   *)
Refresh(a, s) ==
  todo' = [t \in Timer |-> IF s = "ready" THEN todo[t] \ {a} ELSE todo[t]]

(* createClient is called, for the first time or again, in one turn with the *)
(* assignment of br to this.browser.                                         *)
Create(c, a, br) ==
  LET s == CreateClient(a, br)
  IN /\ Goto(c, s, br)
     /\ Refresh(a, s)
     /\ browser' = br
     /\ again' = [again EXCEPT ![c] = FALSE]

(* The command is opening a session. *)
Creating(c) == pc[c] \in {"cleanup", "launch", "probe", "open", "page"}

(* The next command, number c, is sent for a, by a test or, when clientTimeout *)
(* is 0, by the timer's pings: the controller finds the plugin's method,      *)
(* which calls createClient.  Which command it is does not matter before that *)
(* has answered, and is chosen then.                                         *)
Send(c, a) ==
  /\ pc[c] = "idle" /\ \A d \in 1..(c - 1) : pc[d] # "idle"
  /\ of' = [of EXCEPT ![c] = a]
  /\ LET s == IF plugin THEN CreateClient(a, browser) ELSE "settled"
     IN Goto(c, s, browser) /\ Refresh(a, s)
  /\ UNCHANGED <<again, browser, isCleaningUp, browserClients,
                 expiredBrowserClients, interval, end, killing, plugin,
                 exposed, worldVars>>

(* The wait for the end of a cleanup is over, or has been ten times 100 ms.  *)
CleanedUp(c) ==
  /\ pc[c] = "cleanup"
  /\ Goto(c, IF isCleaningUp THEN "settled" ELSE "launch", 0)
  /\ UNCHANGED <<of, again, fieldVars, endVars, worldVars>>

(* Mutant: the browser that is replaced is closed. *)
LaunchedAlone(c) ==
  /\ pc[c] = "launch" /\ launched < MaxLaunches
  /\ launched' = launched + 1
  /\ alive' = (alive \ {browser}) \cup {launched + 1}
  /\ host' = [d \in Command |-> IF host[d] = browser THEN 0 ELSE host[d]]
  /\ browser' = launched + 1
  /\ Goto(c, "probe", 0)
  /\ UNCHANGED <<of, again, isCleaningUp, browserClients,
                 expiredBrowserClients, interval, endVars>>

(* launch answers: the browser it gives becomes this.browser. *)
Launched(c) ==
  /\ pc[c] = "launch"
  /\ UNCHANGED <<of, again, isCleaningUp, browserClients,
                 expiredBrowserClients, interval, endVars, host>>
  /\ \/ /\ launched < MaxLaunches
        /\ launched' = launched + 1
        /\ alive' = alive \cup {launched + 1}
        /\ browser' = launched + 1
        /\ Goto(c, "probe", 0)
     \/ /\ launched = MaxLaunches \/ "launch" \in Faults
        /\ Goto(c, "settled", 0)
        /\ UNCHANGED <<browser, launched, alive>>

(* The probe of the new browser has ended, well or not: getBrowser returns   *)
(* what this.browser is by now.  When that is not connected, createClient    *)
(* gets another one and starts again.                                        *)
Probed(c) ==
  /\ pc[c] = "probe"
  /\ UNCHANGED <<of, isCleaningUp, browserClients, expiredBrowserClients, 
                 interval, end, killing, plugin, exposed, worldVars>>
  /\ \/ again[c] /\ Create(c, of[c], browser)
     \/ /\ ~again[c] /\ browser \in alive
        /\ Goto(c, "open", browser)
        /\ UNCHANGED <<again, browser, todo>>
     \/ /\ ~again[c] /\ browser \notin alive
        /\ browser' = 0
        /\ again' = [again EXCEPT ![c] = TRUE]
        /\ Goto(c, GetBrowser(0), 0)
        /\ UNCHANGED todo

(* newContext answers: with a context, or with an error that says the        *)
(* browser was closed, upon which this.browser is dropped, whatever it is by *)
(* now, and createClient called again; or with another error.                *)
Opened(c) ==
  /\ pc[c] = "open"
  /\ UNCHANGED <<of, isCleaningUp, browserClients, expiredBrowserClients, 
                 interval, end, killing, plugin, exposed, launched, alive>>
  /\ \/ /\ got[c] \in alive
        /\ host' = [host EXCEPT ![c] = got[c]]
        /\ Goto(c, "page", 0)
        /\ UNCHANGED <<again, browser, todo>>
     \/ /\ got[c] \notin alive
        /\ Create(c, of[c], 0)
        /\ UNCHANGED host
     \/ /\ "context" \in Faults
        /\ Goto(c, "settled", 0)
        /\ UNCHANGED <<again, browser, todo, host>>

(* tracing, newPage and coverage answer: the session is registered, whatever  *)
(* has been registered meanwhile.  When one of them throws the context stays *)
(* open and nobody knows of it.                                              *)
Paged(c) ==
  /\ pc[c] = "page"
  /\ UNCHANGED <<of, again, browser, isCleaningUp, expiredBrowserClients, 
                 interval, end, killing, plugin, worldVars>>
  /\ \/ /\ Live(c)
        /\ browserClients' = [browserClients EXCEPT ![of[c]] = c]
        /\ Goto(c, "ready", 0)
        /\ Refresh(of[c], "ready")
        /\ exposed' = IF \E d \in Command \ {c} : Creating(d) /\ of[d] = of[c]
                      THEN exposed \cup {c} ELSE exposed
     \/ /\ ~Live(c) \/ "page" \in Faults
        /\ Goto(c, "settled", 0)
        /\ exposed' = exposed \cup {d \in {c} : Live(d)}
        /\ UNCHANGED <<browserClients, todo>>

(* createClient has answered.  The command takes what it needs from the      *)
(* session the applicant has by now, or throws, and calls Playwright.        *)
Ready(c) == \E r \in Rows \ {Maps} :
  LET ctx == browserClients[of[c]]
      ok  == \/ r.uses = "session"
             \/ r.uses = "client" /\ ctx # 0
             \/ r.uses = "checked" /\ Live(ctx)
  IN /\ pc[c] = "ready"
     /\ Goto(c, IF ok /\ r.calls > 0 THEN "call" ELSE "settled", 0)
     /\ UNCHANGED <<of, again, fieldVars, endVars, worldVars>>

(* The last call answers, or one throws. *)
Called(c) ==
  /\ pc[c] = "call"
  /\ Goto(c, "settled", 0)
  /\ UNCHANGED <<of, again, fieldVars, endVars, worldVars>>

-----------------------------------------------------------------------------
(* end. *)

(* end(a) as far as it comes without waiting; it returns when a has no       *)
(* session.                                                                  *)
Closing(a) == [of |-> a, ctx |-> browserClients[a], at |-> "closing"]

(* A client ends its session. *)
EndSession(e, a) ==
  /\ end[e].at = "idle"
  /\ end' = [end EXCEPT ![e] = IF plugin /\ Has(a) THEN Closing(a)
                               ELSE NoEnd("done")]
  /\ UNCHANGED <<commandVars, fieldVars, todo, killing, plugin, exposed, worldVars>>

(* The applicant's entries are deleted, whatever session it has by now; the  *)
(* timer's loop then tells the applicant off for ever and goes on.           *)
Unregister(e) ==
  LET a == end[e].of
  IN /\ browserClients' = [browserClients EXCEPT ![a] = 0]
     /\ expiredBrowserClients' = IF e \in Timer THEN expiredBrowserClients \cup {a}
                                 ELSE expiredBrowserClients
     /\ end' = [end EXCEPT ![e] = NoEnd(IF e \in Timer THEN "loop" ELSE "done")]
     /\ exposed' = exposed \cup ({browserClients[a]} \ {0, end[e].ctx})
     /\ UNCHANGED <<commandVars, browser, isCleaningUp, interval, todo,
                    killing, plugin, launched, alive>>

(* The pending operations were waited for, tracing and coverage stopped and  *)
(* the context closed.                                                       *)
ContextClosed(e) ==
  /\ end[e].at = "closing"
  /\ host' = [host EXCEPT ![end[e].ctx] = 0]
  /\ Unregister(e)

(* close() has thrown or has not answered in time: the pages are closed one  *)
(* by one, and no timer limits the wait for them.                            *)
CloseFailed(e) ==
  /\ end[e].at = "closing" /\ ("close" \in Faults \/ ~Live(end[e].ctx))
  /\ end' = [end EXCEPT ![e].at = "forcing"]
  /\ exposed' = exposed \cup {c \in {end[e].ctx} : Live(c)}
  /\ UNCHANGED <<commandVars, fieldVars, todo, killing, plugin, worldVars>>

PagesClosed(e) ==
  /\ end[e].at = "forcing"
  /\ Unregister(e) /\ UNCHANGED host

-----------------------------------------------------------------------------
(* checkClientsTimeout and closeExpiredClients.  Ticks may overlap: a new    *)
(* one comes whether or not the last has been through.                       *)

(* Some sessions have not been used for clientTimeout, if that is not 0. *)
Tick(t) == \E stale \in SUBSET {a \in Applicant : Has(a)} :
  /\ interval /\ stale # {} /\ end[t].at = "idle"
  /\ todo' = [todo EXCEPT ![t] = stale]
  /\ end' = [end EXCEPT ![t].at = "loop"]
  /\ UNCHANGED <<commandVars, fieldVars, killing, plugin, exposed, worldVars>>

(* The loop over the sessions comes to one that is past the limit. *)
TickNext(t, a) ==
  /\ end[t].at = "loop" /\ a \in todo[t] /\ Has(a)
  /\ end' = [end EXCEPT ![t] = Closing(a)]
  /\ todo' = [todo EXCEPT ![t] = @ \ {a}]
  /\ UNCHANGED <<commandVars, fieldVars, killing, plugin, exposed, worldVars>>

TickDone(t) ==
  /\ end[t].at = "loop" /\ \A a \in todo[t] : ~Has(a)
  /\ end' = [end EXCEPT ![t] = NoEnd("done")]
  /\ todo' = [todo EXCEPT ![t] = {}]
  /\ UNCHANGED <<commandVars, fieldVars, killing, plugin, exposed, worldVars>>

-----------------------------------------------------------------------------
(* kill, called once. *)

Kill ==
  /\ killing.at = "no" /\ plugin
  /\ isCleaningUp' = TRUE
  /\ end' = [e \in Ender |-> IF e \in Applicant /\ Has(e) THEN Closing(e)
                             ELSE end[e]]
  /\ killing' = [at |-> "sessions", browser |-> 0]
  /\ UNCHANGED <<commandVars, browser, browserClients,
                 expiredBrowserClients, interval, todo, plugin, exposed,
                 worldVars>>

(* What kill does after its last wait.  BrowserProxyController.kill comes     *)
(* back with it and forgets its plugin.                                      *)
ClearAll ==
  /\ browser' = 0 /\ isCleaningUp' = FALSE /\ interval' = FALSE
  /\ browserClients' = [a \in Applicant |-> 0]
  /\ killing' = [at |-> "done", browser |-> 0]
  /\ plugin' = FALSE
  /\ UNCHANGED <<commandVars, expiredBrowserClients, end, todo, exposed,
                 launched>>

(* Mutant: kill waits for the sessions without a limit. *)
SessionsEndedAll ==
  /\ killing.at = "sessions" /\ \A a \in Applicant : ~Ending(a)
  /\ \/ browser = 0 /\ ClearAll /\ UNCHANGED <<alive, host>>
     \/ /\ browser # 0
        /\ killing' = [at |-> "browser", browser |-> browser]
        /\ UNCHANGED <<commandVars, fieldVars, end, todo, plugin, exposed, worldVars>>

(* All sessions have been ended, or SESSION_CLOSE is over, which may be at    *)
(* any time: the browser, if there is one, is closed.                        *)
SessionsEnded ==
  /\ killing.at = "sessions"
  /\ \/ browser = 0 /\ ClearAll /\ UNCHANGED <<alive, host>>
     \/ /\ browser # 0
        /\ killing' = [at |-> "browser", browser |-> browser]
        /\ UNCHANGED <<commandVars, fieldVars, end, todo, plugin, exposed, worldVars>>

(* Its close() has answered, or BROWSER_CLOSE is over. *)
BrowserClosed ==
  /\ killing.at = "browser"
  /\ ClearAll
  /\ \/ Gone(killing.browser)
     \/ "browserClose" \in Faults /\ UNCHANGED <<alive, host>>

(* The process of a browser dies. *)
Crash(n) ==
  /\ "crash" \in Faults /\ n \in alive
  /\ Gone(n)
  /\ UNCHANGED <<commandVars, fieldVars, endVars, launched>>

-----------------------------------------------------------------------------
Step(c) == CleanedUp(c) \/ Launched(c) \/ Probed(c) \/ Opened(c) \/ Paged(c)
           \/ Ready(c) \/ Called(c)

EndStep(e) == ContextClosed(e) \/ CloseFailed(e) \/ PagesClosed(e)

TickStep(t) == TickDone(t) \/ \E a \in Applicant : TickNext(t, a)

KillStep == SessionsEnded \/ BrowserClosed

Next ==
  \/ \E c \in Command : \/ Step(c)
                         \/ \E a \in Applicant : Send(c, a)
  \/ \E e \in Ender : EndStep(e)
  \/ \E e \in EndCall, a \in Applicant : EndSession(e, a)
  \/ \E t \in Timer : Tick(t) \/ TickStep(t)
  \/ Kill \/ KillStep
  \/ \E n \in Browser : Crash(n)

Spec == Init /\ [][Next]_vars

(* Playwright answers the commands; what it is asked by end and kill is      *)
(* limited by timers, but for the closing of single pages.                   *)
Fairness ==
  /\ \A c \in Command : WF_vars(Step(c))
  /\ \A e \in Ender : WF_vars(ContextClosed(e) \/ CloseFailed(e))
  /\ \A t \in Timer : WF_vars(TickStep(t))
  /\ WF_vars(KillStep)

FairSpec == Spec /\ Fairness

-----------------------------------------------------------------------------
(* No context is forgotten: as long as the driver is not killed, each that   *)
(* works is the session of its applicant, or in the hands of the command     *)
(* that opens it or of an end that closes it; unless an end that had begun   *)
(* before it was opened has taken its registration away, a session that was  *)
(* opened at the same time has, or Playwright has failed to open its page or *)
(* to close it.  Commands that create a session, retries after a lost        *)
(* browser, ticks and ends of the client interleave, of one applicant too.   *)
Kept(c) == \/ browserClients[of[c]] = c \/ pc[c] = "page"
           \/ \E e \in Ender : end[e].ctx = c /\ Ending(e)

NoContextLost ==
  killing.at = "no" =>
    \A c \in Command : Live(c) => Kept(c) \/ c \in exposed

(* kill() comes back even when Playwright does not answer, commands are under *)
(* way and other ends of the same sessions have begun.                       *)
KillCompletes == killing.at = "sessions" ~> killing.at = "done"

(* A session that works is closed by an end of its own applicant, by kill's   *)
(* close of the browser or by a crash, never by what another applicant's      *)
(* commands do to the browser they share: launches, retries that drop it, and *)
(* sessions that end or expire.                                               *)
SessionsIsolated == [][
  \A c \in Command : Live(c) /\ host'[c] = 0 =>
    \/ \E e \in Ender : end[e].ctx = c /\ end[e].of = of[c] /\ end'[e] # end[e]
    \/ host[c] \notin alive' /\ UNCHANGED pc
  ]_vars

=============================================================================
