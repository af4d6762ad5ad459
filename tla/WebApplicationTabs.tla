-------------------------- MODULE WebApplicationTabs --------------------------
(***************************************************************************)
(* The tabs of one application: the tab methods of WebApplication          *)
(* (packages/web-application/src/web-application.ts) over the tab commands *)
(* of the Playwright driver (packages/plugin-playwright-driver/src/plugin/ *)
(* index.ts).                                                              *)
(*                                                                         *)
(* A test calls one method after the other.  A method is a sequence of     *)
(* commands to the driver; between two of them the pages of the browser    *)
(* open others and close themselves.  What a method has still to do is     *)
(* kept in todo, so that a method calls another by putting its steps in    *)
(* front of its own.                                                       *)
(*                                                                         *)
(* Tab ids are numbered in the order they are made, which is the order of  *)
(* the time stamps getTabIds sorts them by; 0 stands for no id.            *)
(***************************************************************************)
EXTENDS Naturals, Sequences, FiniteSets, SequencesExt

CONSTANTS
  MaxPages,   \* bound: pages opened
  MaxTabs,    \* bound: tab ids made
  MaxCalls    \* bound: methods called

ASSUME TabsAssumption == {MaxPages, MaxTabs, MaxCalls} \subseteq Nat

VARIABLES
  driver,     \* what the driver and its browser know, see DriverType
  mainTabID,  \* field of WebApplication, 0 for null
  todo,       \* the steps of the method that is running
  method,     \* history: the method called last,
  calls,      \*   how many have been called,
  atCall,     \*   the pages there were when it was,
  failed,     \*   whether it has failed,
  astray      \*   and whether the main tab was closed behind its back

tabsVars == <<driver, mainTabID, todo, method, calls, atCall, failed, astray>>

Page == 1..MaxPages
Tab  == 1..MaxTabs

DriverType ==
  [session : BOOLEAN,         \* browserClients has the application
   page : 0..MaxPages,        \* its page
   state : [Page -> {"none", "open", "closed", "gone"}],
                              \* closed by the driver; gone by itself
   tab : [Page -> 0..MaxTabs],  \* pageToTabIdMap, with tabIdMap its inverse
   made : 0..MaxTabs]         \* how many ids have been made

TabCalls == {"getCurrentTabId", "getTabIds", "window", "newWindow", "open", "end",
             "closeBrowserWindow", "closeCurrentTab", "closeAllOtherTabs",
             "closeFirstSiblingTab", "switchToFirstSiblingTab",
             "switchToMainSiblingTab"}

Steps == TabCalls \cup {"switchTab", "toFront", "closeTab", "close", "closeOf", "elect",
                       "setMain", "closeOthers", "switchToMain", "switchToSibling"}

TabsTypeOK ==
  /\ driver \in DriverType
  /\ mainTabID \in 0..MaxTabs
  /\ \A k \in DOMAIN todo : todo[k].do \in Steps /\ Range(todo[k].tabs) \subseteq (0..MaxTabs) \cup Page
  /\ method \in TabCalls \cup {"none"} /\ calls \in 0..MaxCalls
  /\ atCall \subseteq Page /\ {failed, astray} \subseteq BOOLEAN

TabsInit ==
  /\ driver = [session |-> FALSE, page |-> 0, state |-> [p \in Page |-> "none"],
               tab |-> [p \in Page |-> 0], made |-> 0]
  /\ mainTabID = 0
  /\ todo = <<>>
  /\ method = "none" /\ calls = 0 /\ atCall = {} /\ failed = FALSE /\ astray = FALSE

-----------------------------------------------------------------------------
(* The driver's commands, as functions of its state. *)

Open(d)  == {p \in Page : d.state[p] = "open"}
Known(d) == {p \in Page : d.state[p] # "none"}

(* A page is opened, without an id. *)
CanOpen(d) == Known(d) # Page
NewPage(d) == Cardinality(Known(d)) + 1
WithNewPage(d) == [d EXCEPT !.state[NewPage(d)] = "open"]

(* A page is given an id unless it has one: also one that is closed. *)
Named(d, p) == IF d.tab[p] # 0 THEN d
               ELSE [d EXCEPT !.tab[p] = d.made + 1, !.made = @ + 1]

(* createClient: a session with one page, unless there is one. *)
CreateClient(d) ==
  IF d.session \/ ~CanOpen(d) THEN d
  ELSE Named([WithNewPage(d) EXCEPT !.session = TRUE, !.page = NewPage(d)], NewPage(d))

(* getCurrentTabId: its answer is Current of the state it leaves. *)
NameCurrent(d) == LET c == CreateClient(d) IN Named(c, c.page)
Current(d)     == d.tab[d.page]

(* getTabIds: pages that have no id are given one in the order they were      *)
(* opened; its answer is TabIds of the state it leaves.                      *)
NameAll(d) ==
  LET c  == CreateClient(d)
      un == {p \in Open(c) : c.tab[p] = 0}
  IN [c EXCEPT !.tab  = [p \in Page |-> IF p \in un
                                       THEN c.made + Cardinality({q \in un : q <= p})
                                       ELSE c.tab[p]],
               !.made = @ + Cardinality(un)]

(* The numbers of a set in their order. *)
Ascending(S) ==
  [k \in 1..Cardinality(S) |-> CHOOSE t \in S : Cardinality({u \in S : u <= t}) = k]

TabIds(d) == Ascending({d.tab[p] : p \in Open(d)})

PageOf(d, t) == {p \in Page : t # 0 /\ d.tab[p] = t}

(* close: the page is closed and the id forgotten; the client's page is not   *)
(* touched.                                                                  *)
ClosePage(d, t) ==
  LET c == CreateClient(d)
  IN [c EXCEPT !.state = [p \in Page |-> IF p \in PageOf(c, t) /\ @[p] = "open"
                                         THEN "closed" ELSE @[p]],
               !.tab   = [p \in Page |-> IF p \in PageOf(c, t) THEN 0 ELSE @[p]]]

(* end: the context is closed with its pages. *)
EndSession(d) ==
  [d EXCEPT !.session = FALSE, !.page = 0,
            !.state = [p \in Page |-> IF @[p] = "open" THEN "closed" ELSE @[p]]]

-----------------------------------------------------------------------------
(* The next step of the method is s; it is replaced by steps. *)
At(s)       == todo # <<>> /\ Head(todo).do = s
Arg         == Head(Head(todo).tabs)
Then(steps) == todo' = steps \o Tail(todo)
Do(s, t)    == [do |-> s, tabs |-> <<t>>]
Just(s)     == [do |-> s, tabs |-> <<>>]

(* The command is answered and leaves the driver in state d. *)
Completes(d) ==
  /\ driver.session \/ CanOpen(driver)
  /\ d.made <= MaxTabs
  /\ driver' = d
  /\ UNCHANGED <<method, calls, atCall, failed, astray>>

(* initMainTabId asks for the current tab when there is no main tab, and       *)
(* WithMain is what it leaves.                                               *)
WithMain(d) == IF mainTabID = 0 THEN NameCurrent(d) ELSE d
MainOf(d)   == IF mainTabID = 0 THEN Current(d) ELSE mainTabID
InitMain    == Completes(WithMain(driver)) /\ mainTabID' = MainOf(driver')

(* A command that leaves the main tab alone. *)
Command(d) == Completes(d) /\ UNCHANGED mainTabID

(* The command is refused, and the method with it. *)
Refused ==
  /\ failed' = TRUE /\ todo' = <<>>
  /\ astray' = (astray \/ method \in {"closeCurrentTab", "closeFirstSiblingTab"})
  /\ UNCHANGED <<driver, mainTabID, method, calls, atCall>>

-----------------------------------------------------------------------------
(* A method is called, with an id that has been made or without. *)
Call(m) ==
  /\ todo = <<>> /\ calls < MaxCalls
  /\ \E t \in 0..driver.made :
       /\ (t # 0) = (m = "window") \/ m = "closeBrowserWindow"
       /\ todo' = <<Do(m, t)>>
  /\ method' = m /\ calls' = calls + 1 /\ failed' = FALSE
  /\ atCall' = Known(driver)
  /\ UNCHANGED <<driver, mainTabID, astray>>

GetCurrentTabId == At("getCurrentTabId") /\ Command(NameCurrent(driver)) /\ Then(<<>>)

(* getTabIds and windowHandles. *)
GetTabIds == At("getTabIds") /\ Command(NameAll(driver)) /\ Then(<<>>)

(* Any other command, which needs a session. *)
OpenPage == At("open") /\ Command(CreateClient(driver)) /\ Then(<<>>)

(* window, switchTab and setActiveTab. *)
Window == At("window") /\ InitMain /\ Then(<<Do("switchTab", Arg)>>)

(* switchTab of the driver brings the page to the front, which fails when it   *)
(* is closed, and makes it the client's.                                     *)
SwitchTab ==
  /\ At("switchTab")
  /\ LET c == CreateClient(driver)
         p == PageOf(c, Arg) \cap Open(c)
     IN \/ p = {} /\ Refused
        \/ (\E q \in p : Command([c EXCEPT !.page = q])) /\ Then(<<>>)

(* newWindow finds a page by its name or opens one, and goes to it. *)
NewWindow ==
  /\ At("newWindow")
  /\ LET c == CreateClient(driver)
     IN \/ \E p \in Open(c) : Command(c) /\ Then(<<Do("toFront", p)>>)
        \/ /\ CanOpen(c)
           /\ Command(Named(WithNewPage(c), NewPage(c)))
           /\ Then(<<Do("toFront", NewPage(c))>>)

ToFront ==
  /\ At("toFront")
  /\ \/ Arg \notin Open(driver) /\ Refused
     \/ Arg \in Open(driver) /\ Command([driver EXCEPT !.page = Arg]) /\ Then(<<>>)

End == At("end") /\ Completes(EndSession(driver)) /\ mainTabID' = 0 /\ Then(<<>>)

-----------------------------------------------------------------------------
(* closeBrowserWindow closes the tab it is given, or the main tab: by then     *)
(* the main tab is forgotten if it is the only one.                          *)
CloseBrowserWindow ==
  /\ At("closeBrowserWindow") /\ InitMain
  /\ Then(<<Do("closeTab", IF Arg # 0 THEN Arg ELSE mainTabID')>>)

CloseTab ==
  /\ At("closeTab") /\ Completes(NameAll(driver))
  /\ mainTabID' = IF TabIds(driver') = <<Arg>> THEN 0 ELSE mainTabID
  /\ Then(<<Do("close", Arg)>>)

(* The application goes astray when a test closes its main tab so: mainTabID   *)
(* is not changed when there are others, and the session does not end when    *)
(* there are none.                                                           *)
CloseCommand ==
  /\ At("close")
  /\ driver' = ClosePage(driver, Arg)
  /\ driver.session \/ CanOpen(driver)
  /\ astray' = (astray \/ (method = "closeBrowserWindow" /\ mainTabID \in {0, Arg}))
  /\ UNCHANGED <<mainTabID, method, calls, atCall, failed>>
  /\ Then(<<>>)

(* closeCurrentTab: when it was the main tab, the first of the others becomes  *)
(* the main tab, or the session ends; otherwise the main tab is gone back to.  *)
CloseCurrentTab ==
  /\ At("closeCurrentTab") /\ Command(NameCurrent(driver))
  /\ Then(<<Do("closeOf", Current(driver'))>>)

(* Mutant: the application is not brought back to the main tab.              *)
CloseOfAndStay ==
  /\ At("closeOf") /\ InitMain
  /\ Then(<<Do("closeBrowserWindow", Arg)>>
          \o IF Arg = mainTabID' THEN <<Just("elect")>> ELSE <<>>)

CloseOf ==
  /\ At("closeOf") /\ InitMain
  /\ Then(<<Do("closeBrowserWindow", Arg),
            Just(IF Arg = mainTabID' THEN "elect" ELSE "switchToMainSiblingTab")>>)

Elect ==
  /\ At("elect") /\ Command(NameAll(driver))
  /\ LET ids == TabIds(driver')
     IN Then(IF ids = <<>> THEN <<Just("end")>>
             ELSE <<Do("window", ids[1]), Do("setMain", ids[1])>>)

(* Mutant: the elected tab is gone to, but mainTabID is not changed.         *)
SetMainNever ==
  /\ At("setMain") /\ Then(<<>>)
  /\ UNCHANGED <<driver, mainTabID, method, calls, atCall, failed, astray>>

SetMain ==
  /\ At("setMain") /\ Then(<<>>)
  /\ mainTabID' = Arg
  /\ astray' = (astray \/ PageOf(driver, Arg) \cap Open(driver) = {})
  /\ UNCHANGED <<driver, method, calls, atCall, failed>>

(* closeAllOtherTabs goes to each tab that is not the main one and closes it.  *)
CloseAllOtherTabs ==
  /\ At("closeAllOtherTabs") /\ Command(NameAll(driver))
  /\ Then(<<[do |-> "closeOthers", tabs |-> TabIds(driver')]>>)

CloseEach(ids) ==
  [k \in 1..(2 * Len(ids)) |-> Do(IF k % 2 = 1 THEN "window" ELSE "closeBrowserWindow",
                                 ids[(k + 1) \div 2])]

(* Mutant: the first tab is taken for the main tab.                          *)
CloseOthersThanFirst ==
  /\ At("closeOthers") /\ InitMain
  /\ LET ids    == Head(todo).tabs
         others == IF ids = <<>> THEN <<>> ELSE Tail(ids)
     IN Then(CloseEach(others) \o <<Just("switchToMainSiblingTab")>>)

CloseOthers ==
  /\ At("closeOthers") /\ InitMain
  /\ LET others == Ascending(Range(Head(todo).tabs) \ {mainTabID'})
     IN Then(CloseEach(others) \o <<Just("switchToMainSiblingTab")>>)

CloseFirstSiblingTab ==
  /\ At("closeFirstSiblingTab")
  /\ Then(<<Just("switchToFirstSiblingTab"), Just("closeCurrentTab"),
            Just("switchToMainSiblingTab")>>)
  /\ UNCHANGED <<driver, mainTabID, method, calls, atCall, failed, astray>>

(* switchToFirstSiblingTab and switchToMainSiblingTab ask for the main tab,     *)
(* then for all tabs.                                                        *)
SwitchToFirstSiblingTab ==
  \/ /\ At("switchToFirstSiblingTab") /\ InitMain
     /\ Then(<<Do("switchToSibling", mainTabID')>>)
  \/ /\ At("switchToSibling") /\ Command(NameAll(driver))
     /\ LET siblings == Ascending(Range(TabIds(driver')) \ {Arg})
        IN Then(IF siblings = <<>> THEN <<>> ELSE <<Do("window", siblings[1])>>)

SwitchToMainSiblingTab ==
  \/ /\ At("switchToMainSiblingTab") /\ InitMain
     /\ Then(<<Do("switchToMain", mainTabID')>>)
  \/ /\ At("switchToMain") /\ Command(NameAll(driver))
     /\ LET ids == TabIds(driver')
        IN Then(IF ids = <<>> THEN <<>>
                ELSE <<Do("window", IF Arg \in Range(ids) THEN Arg ELSE ids[1])>>)

-----------------------------------------------------------------------------
(* What pages do by themselves. *)

(* A page opens another. *)
Popup ==
  /\ Open(driver) # {} /\ CanOpen(driver)
  /\ driver' = WithNewPage(driver)
  /\ UNCHANGED <<mainTabID, todo, method, calls, atCall, failed, astray>>

(* A page closes itself, or its user does. *)
GoAway(p) ==
  /\ p \in Open(driver)
  /\ driver' = [driver EXCEPT !.state[p] = "gone"]
  /\ astray' = (astray \/ driver.tab[p] = mainTabID \/ (mainTabID = 0 /\ p = driver.page))
  /\ UNCHANGED <<mainTabID, todo, method, calls, atCall, failed>>

Method ==
  \/ GetCurrentTabId \/ GetTabIds \/ OpenPage \/ Window \/ SwitchTab \/ NewWindow
  \/ ToFront \/ End \/ CloseBrowserWindow \/ CloseTab \/ CloseCommand \/ CloseCurrentTab
  \/ CloseOf \/ Elect \/ SetMain \/ CloseAllOtherTabs \/ CloseOthers
  \/ CloseFirstSiblingTab \/ SwitchToFirstSiblingTab \/ SwitchToMainSiblingTab

TabsNext ==
  \/ Method
  \/ \E m \in TabCalls : Call(m)
  \/ Popup
  \/ \E p \in Page : GoAway(p)

TabsSpec == TabsInit /\ [][TabsNext]_tabsVars

-----------------------------------------------------------------------------
(* Properties. *)

(* The method called last has ended well. *)
Done(ms) == method \in ms /\ todo = <<>> /\ ~failed

(* A method that closes tabs leaves the application at a tab that it has not   *)
(* closed, if there is one: also when pages open others or close themselves    *)
(* between its commands, or a test has closed the main tab before.             *)
FocusFollows ==
  Done({"closeCurrentTab", "closeAllOtherTabs", "closeFirstSiblingTab",
        "switchToMainSiblingTab"}) /\ driver.session /\ Open(driver) # {} =>
    driver.state[driver.page] # "closed"

(* The main tab is an open tab of the session whichever methods were called:   *)
(* closing it elects another or ends the session.  A test that closes it by    *)
(* closeBrowserWindow while there are others loses it for good.                *)
MainIsATab ==
  Done(TabCalls) /\ ~astray /\ mainTabID # 0 =>
    /\ driver.session
    /\ \E p \in Page : driver.tab[p] = mainTabID /\ driver.state[p] = "open"

(* closeAllOtherTabs leaves the main tab and no other, but for those that were *)
(* opened meanwhile.                                                         *)
OthersClosed ==
  Done({"closeAllOtherTabs"}) /\ ~astray =>
    \A p \in Open(driver) \cap atCall : driver.tab[p] = mainTabID

=============================================================================
