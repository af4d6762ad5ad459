--------------------------- MODULE DriverCommands ---------------------------
(***************************************************************************)
(* The commands of PlaywrightPlugin                                        *)
(* (packages/plugin-playwright-driver/src/plugin/index.ts): what each of   *)
(* them does with its applicant's session.  A row gives                    *)
(*   uses     what the command takes from the session once createClient    *)
(*            has answered: the page, the page after a check that it is    *)
(*            open, the frame, the context, nothing; or that it goes       *)
(*            without createClient and looks at the driver's own maps;     *)
(*   calls    the Playwright calls it may await one after the other,       *)
(*            Many for two or more;                                        *)
(*   caught   whether a call that throws is answered with a value.         *)
(* What the calls do to a document is Playwright's.                        *)
(***************************************************************************)
EXTENDS Naturals, TLC

Many == 2

Row(uses, calls) == [uses |-> uses, calls |-> calls, caught |-> FALSE]

Page(calls)    == Row("page", calls)
Checked(calls) == Row("checked", calls)    \* validatePageAccess
Frame(calls)   == Row("frame", calls)      \* getCurrentContext
Context(calls) == Row("context", calls)
Session        == Row("session", 0)        \* createClient, then no page
Maps           == Row("maps", 0)           \* no createClient
Caught(row)    == [row EXCEPT !.caught = TRUE]

-----------------------------------------------------------------------------
(* Tables, in the order of the source. *)

NavigationCommands == [
  refresh   |-> Page(1),
  url       |-> Checked(1),                \* without a value: no call
  click     |-> Page(1),
  newWindow |-> Context(Many)]             \* names, newPage, goto, bringToFront

WaitCommands == [
  waitForExist   |-> Page(1),
  waitForVisible |-> Page(1),
  isVisible      |-> Frame(Many),
  moveToObject   |-> Page(1),
  execute        |-> Page(1),
  executeAsync   |-> Page(1)]

FrameCommands == [
  frame       |-> Page(1),                 \* the contents of frames, if at all
  frameParent |-> Page(0)]

InputCommands == [
  getTitle   |-> Checked(1),
  clearValue |-> Page(1),
  keys       |-> Page(Many)]

ElementsCommands == [
  elementIdText |-> Page(Many),
  elements      |-> Page(1)]

ValueCommands == [
  getValue            |-> Page(1),
  setValue            |-> Page(Many),      \* the type of the input, then it
  selectByIndex       |-> Page(1),
  selectByValue       |-> Page(1),
  selectByVisibleText |-> Page(1),
  getAttribute        |-> Page(1)]

StateCommands == [
  windowHandleMaximize |-> Page(1),
  isEnabled            |-> Page(1),
  isDisabled           |-> Page(1),
  isChecked            |-> Page(1),
  setChecked           |-> Page(1),
  isReadOnly           |-> Page(1),
  getPlaceHolderValue  |-> Page(1),
  clearElement         |-> Page(1),
  scroll               |-> Page(1),
  scrollIntoView       |-> Page(1)]

AlertCommands == [
  isAlertOpen  |-> Maps,
  alertAccept  |-> Maps,
  alertDismiss |-> Maps,
  alertText    |-> Maps]

CookieCommands == [
  dragAndDrop  |-> Page(1),
  setCookie    |-> Context(1),
  getCookie    |-> Context(1),
  deleteCookie |-> Context(1),
  getHTML      |-> Page(Many),
  getSize      |-> Page(Many)]

TabCommands == [
  getCurrentTabId |-> Page(0),
  switchTab       |-> Context(1),
  close           |-> Context(1),
  getTabIds       |-> Context(0),
  window          |-> Context(1),
  windowHandles   |-> Context(0)]

TextCommands == [
  getTagName        |-> Page(1),
  isSelected        |-> Page(1),
  getText           |-> Page(1),
  elementIdSelected |-> Page(Many),
  makeScreenshot    |-> Checked(1)]

StyleCommands == [
  uploadFile     |-> Page(0),
  getCssProperty |-> Page(1),
  getSource      |-> Checked(1),
  isExisting     |-> Checked(1)]

ConditionCommands == [
  waitForValue      |-> Page(1),
  waitForSelected   |-> Page(1),
  waitUntil         |-> Row("session", Many),   \* the caller's condition
  selectByAttribute |-> Page(1)]

SessionCommands == [
  gridTestSession              |-> Session,
  getHubConfig                 |-> Session,
  setCustomBrowserClientConfig |-> Maps,
  getCustomBrowserClientConfig |-> Maps,
  status                       |-> Session]

HistoryCommands == [
  back        |-> Page(1),
  forward     |-> Page(1),
  savePDF     |-> Page(1),
  addValue    |-> Page(1),
  doubleClick |-> Page(1)]

ClickableCommands == [
  isClickable      |-> Caught(Page(1)),
  waitForClickable |-> Page(1)]

StableCommands == [
  isFocused      |-> Caught(Page(1)),
  isStable       |-> Caught(Page(Many)),
  waitForEnabled |-> Page(Many),
  waitForStable  |-> Page(1)]

LocationCommands == [
  getActiveElement |-> Page(Many),
  getLocation      |-> Page(Many),
  setTimeZone      |-> Context(1)]

WindowCommands == [
  getWindowSize      |-> Page(0),
  setViewportSize    |-> Page(1),
  keysOnElement      |-> Page(Many),
  mock               |-> Session,
  getMockData        |-> Session,
  getCdpCoverageFile |-> Session,          \* coverage is off by default
  emulateDevice      |-> Page(1)]

Commands ==
  NavigationCommands @@ WaitCommands @@ FrameCommands @@ InputCommands @@
  ElementsCommands @@ ValueCommands @@ StateCommands @@ AlertCommands @@
  CookieCommands @@ TabCommands @@ TextCommands @@ StyleCommands @@
  ConditionCommands @@ SessionCommands @@ HistoryCommands @@
  ClickableCommands @@ StableCommands @@ LocationCommands @@ WindowCommands

(* What of a row matters to a session: a page, a frame and the context are   *)
(* the client's, and it is awaited for one call or for none.                 *)
Effect(row) ==
  [row EXCEPT !.uses = IF @ \in {"page", "frame", "context"} THEN "client" ELSE @,
              !.calls = IF @ = 0 THEN 0 ELSE 1]

(* What there is in the tables, told apart by that. *)
Rows == {Maps, Session, Row("session", 1), Row("client", 0), Row("client", 1),
         Caught(Row("client", 1)), Row("checked", 1)}

ASSUME CommandsAssumption ==
  Rows = {Effect(Commands[name]) : name \in DOMAIN Commands}
=============================================================================
