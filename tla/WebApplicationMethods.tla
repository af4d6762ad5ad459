------------------------ MODULE WebApplicationMethods ------------------------
(***************************************************************************)
(* The methods of WebApplication                                           *)
(* (packages/web-application/src/web-application.ts): what each of them    *)
(* asks of the browser, and which other methods it calls.  A row gives     *)
(*   logged    whether the method is decorated with stepLog: it is an      *)
(*             instruction, whose calls are executed inside a step;        *)
(*   asks      the requests to the browser it may make and await;          *)
(*   awaits    the methods it may call and await;                          *)
(*   leaves    the methods it calls and may not wait for, so that they go  *)
(*             on when it is over;                                         *)
(*   caught    whether all that fails in it is answered with a value.      *)
(* Selectors, timeouts and values are left out.                            *)
(***************************************************************************)
EXTENDS TLC, WebClientCommands

Row(awaits, asks) ==
  [logged |-> TRUE, asks |-> asks, awaits |-> awaits, leaves |-> {},
   caught |-> FALSE]

Asks(requests)         == Row({}, requests)
Exists(requests)       == Row({"waitForExist"}, requests)
Calls(methods)         == Row(methods, {})
Plain(row)             == [row EXCEPT !.logged = FALSE]
Caught(row)            == [row EXCEPT !.caught = TRUE]
Leaving(methods, row)  == [row EXCEPT !.leaves = methods]

-----------------------------------------------------------------------------
(* Tables, in the order of the source. *)

HighlightMethods == [
  devtoolHighlight |-> Caught(Plain(Asks({"execute"}))),
  waitForExist     |-> Row({"devtoolHighlight"}, {"waitForExist"}),
  waitForRoot      |-> Asks({"waitForExist"}),
  waitForNotExists |-> Asks({"waitForExist"})]

VisibilityMethods == [
  waitForVisible    |-> Exists({"waitForVisible"}),
  waitForNotVisible |-> Row({"waitForRoot", "pause"}, {"isVisible"})]

OpenMethods == [
  getTitle            |-> Plain(Asks({"getTitle"})),
  logNavigatorVersion |-> Plain(Calls({"execute"})),
  documentReadyWait   |-> Plain(Calls({"execute", "pause"})),
  openPageFromURI     |-> Plain(Calls({"url", "refresh", "logNavigatorVersion",
                                       "documentReadyWait"})),
  (* A timer may win the race against openPageFromURI, which goes on. *)
  openPage            |-> Leaving({"openPageFromURI"}, Calls({"openPageFromURI"})),
  isBecomeVisible     |-> Caught(Asks({"waitForVisible"})),
  isBecomeHidden      |-> Row({"pause"}, {"isVisible"})]

ClickMethods == [
  click            |-> Row({"waitForExist", "makeScreenshot"}, {"click"}),
  clickButton      |-> Row({"waitForExist", "makeScreenshot"}, {"click"}),
  clickCoordinates |-> Row({"waitForExist", "makeScreenshot"}, {"getSize", "click"}),
  getSize          |-> Exists({"getSize"}),
  getValue         |-> Exists({"getValue"})]

ValueMethods == [
  simulateJSFieldClear  |-> Calls({"simulateJSFieldChange"}),
  simulateJSFieldChange |-> Asks({"executeAsync"}),
  clearElement          |-> Row({"waitForExist", "simulateJSFieldClear"},
                                {"setValue", "keys"}),
  clearValue            |-> Exists({"clearValue"}),
  (* With emulateViaJS the change is not awaited. *)
  setValue              |-> Leaving({"simulateJSFieldChange"},
                              Row({"clearElement", "waitForExist", "makeScreenshot"},
                                  {"setValue"}))]

TextMethods == [
  getText             |-> Calls({"waitForExist", "getTextsInternal"}),
  getTextWithoutFocus |-> Calls({"waitForExist", "getTextsInternal"}),
  getTagName          |-> Exists({"getTagName"}),
  getTexts            |-> Calls({"waitForExist", "moveToObject", "getTextsInternal"})]

SelectMethods == [
  getOptionsProperty  |-> Exists({"executeAsync"}),
  getSelectTexts      |-> Calls({"getOptionsProperty"}),
  getSelectValues     |-> Calls({"getOptionsProperty"}),
  selectNotCurrent    |-> Row({"getSelectValues", "selectByValue"}, {"getValue"}),
  selectByIndex       |-> Exists({"selectByIndex"}),
  selectByValue       |-> Exists({"selectByValue"}),
  selectByVisibleText |-> Exists({"selectByVisibleText"}),
  getSelectedText     |-> Exists({"getValue", "getText"})]

StateMethods == [
  getElementsIds    |-> Calls({"waitForExist", "elements"}),
  isElementSelected |-> Asks({"elementIdSelected"}),
  isChecked         |-> Exists({"isSelected"}),
  setChecked        |-> Exists({"isSelected", "click"}),
  isVisible         |-> Row({"waitForRoot"}, {"isVisible"})]

AttributeMethods == [
  isCSSClassExists |-> Calls({"getAttribute"}),
  getAttribute     |-> Exists({"getAttribute"})]

EnabledMethods == [
  isReadOnly |-> Exists({"getAttribute", "getTagName"}),
  isEnabled  |-> Exists({"isEnabled"}),
  isDisabled |-> Calls({"isEnabled"})]

ScrollMethods == [
  maximizeWindow             |-> Caught(Asks({"windowHandleMaximize"})),
  moveToObject               |-> Row({"scrollIntoViewIfNeeded"}, {"moveToObject"}),
  scroll                     |-> Exists({"scroll"}),
  scrollIntoViewCall         |-> Plain(Asks({"executeAsync", "scrollIntoView"})),
  scrollIntoView             |-> Calls({"waitForExist", "scrollIntoViewCall"}),
  scrollIntoViewIfNeededCall |-> Plain(Asks({"executeAsync"})),
  scrollIntoViewIfNeeded     |-> Calls({"waitForExist", "scrollIntoViewIfNeededCall"})]

CountMethods == [
  dragAndDrop      |-> Exists({"dragAndDrop"}),
  elements         |-> Row({"devtoolHighlight"}, {"elements"}),
  getElementsCount |-> Calls({"waitForRoot", "elements"}),
  notExists        |-> Calls({"getElementsCount"}),
  isElementsExist  |-> Calls({"getElementsCount"})]

AlertMethods == [
  isAlertOpen  |-> Asks({"isAlertOpen"}),
  alertAccept  |-> Row({"waitForAlert"}, {"alertAccept"}),
  alertDismiss |-> Row({"waitForAlert"}, {"alertDismiss"}),
  alertText    |-> Row({"waitForAlert"}, {"alertText"}),
  waitForAlert |-> Caught(Row({"pause"}, {"alertText"}))]

(* The end of the session, which closeCurrentTab may call, is below. *)
TabMethods == [
  closeBrowserWindow |-> Row({"getMainTabId", "getTabIds"}, {"close"}),
  closeCurrentTab    |-> Calls({"getCurrentTabId", "getMainTabId",
                                "closeBrowserWindow", "getTabIds", "setActiveTab",
                                "end", "switchToMainSiblingTab"}),
  windowHandles      |-> Asks({"windowHandles"}),
  window             |-> Row({"initMainTabId"}, {"window"}),
  newWindow          |-> Asks({"newWindow"}),
  initMainTabId      |-> Plain(Asks({"getCurrentTabId"})),
  getMainTabId       |-> Calls({"initMainTabId"}),
  getTabIds          |-> Asks({"getTabIds"}),
  getHTML            |-> Exists({"getHTML"}),
  getCurrentTabId    |-> Asks({"getCurrentTabId"}),
  switchTab          |-> Row({"initMainTabId"}, {"switchTab"})]

SiblingTabMethods == [
  closeAllOtherTabs       |-> Calls({"getTabIds", "getMainTabId", "window",
                                     "closeBrowserWindow", "switchToMainSiblingTab"}),
  setActiveTab            |-> Calls({"window"}),
  closeFirstSiblingTab    |-> Calls({"switchToFirstSiblingTab", "closeCurrentTab",
                                     "switchToMainSiblingTab"}),
  switchToFirstSiblingTab |-> Calls({"getMainTabId", "getTabIds", "setActiveTab"}),
  switchToMainSiblingTab  |-> Calls({"getMainTabId", "getTabIds", "setActiveTab"})]

FrameMethods == [
  setCookie           |-> Asks({"setCookie"}),
  getCookie           |-> Asks({"getCookie"}),
  deleteCookie        |-> Asks({"deleteCookie"}),
  getPlaceHolderValue |-> Calls({"getAttribute"}),
  switchToFrame       |-> Asks({"frame"}),
  switchToParentFrame |-> Asks({"frameParent"}),
  getTextsInternal    |-> Plain(Row({"devtoolHighlight"},
                                    {"elements", "elementIdText"})),
  execute             |-> Asks({"execute"}),
  executeAsync        |-> Asks({"executeAsync"}),
  pause               |-> Caught(Asks({}))]

(* Registration in the devtool waits for messages of the transport. *)
DevtoolMethods == [
  registerAppInDevtool   |-> Plain(Asks({})),
  unregisterAppInDevtool |-> Plain(Asks({})),
  extensionHandshake     |-> Plain(Row({"registerAppInDevtool"},
                                       {"url", "executeAsync"})),
  url                    |-> Row({"extensionHandshake"}, {"url"}),
  keys                   |-> Asks({"keys"}),
  refresh                |-> Asks({"refresh"})]

EndMethods == [
  disableScreenshots |-> Caught(Plain(Asks({}))),
  enableScreenshots  |-> Caught(Plain(Asks({}))),
  makeScreenshot     |-> Plain(Asks({"makeScreenshot"})),
  uploadFile         |-> Asks({"uploadFile"}),
  end                |-> Row({"unregisterAppInDevtool"}, {"end"})]

WaitMethods == [
  getCssProperty    |-> Exists({"getCssProperty"}),
  getSource         |-> Asks({"getSource"}),
  isExisting        |-> Asks({"isExisting"}),
  waitForValue      |-> Asks({"waitForValue"}),
  waitForSelected   |-> Asks({"waitForSelected"}),
  waitUntil         |-> Asks({"waitUntil"}),
  selectByAttribute |-> Exists({"selectByAttribute"})]

LateMethods == [
  getLocation      |-> Exists({"getLocation"}),
  getActiveElement |-> Asks({"getActiveElement"}),
  setTimeZone      |-> Asks({"setTimeZone"}),
  getWindowSize    |-> Asks({"getWindowSize"}),
  setViewportSize  |-> Asks({"setViewportSize"}),
  savePDF          |-> Plain(Asks({"savePDF"})),
  addValue         |-> Exists({"addValue"}),
  doubleClick      |-> Exists({"doubleClick"}),
  waitForClickable |-> Asks({"waitForClickable"}),
  isClickable      |-> Asks({"isClickable"}),
  waitForEnabled   |-> Asks({"waitForEnabled"}),
  waitForStable    |-> Asks({"waitForStable"}),
  isFocused        |-> Asks({"isFocused"}),
  isStable         |-> Asks({"isStable"})]

Methods ==
  HighlightMethods @@ VisibilityMethods @@ OpenMethods @@ ClickMethods @@
  ValueMethods @@ TextMethods @@ SelectMethods @@ StateMethods @@
  AttributeMethods @@ EnabledMethods @@ ScrollMethods @@ CountMethods @@
  AlertMethods @@ TabMethods @@ SiblingTabMethods @@ FrameMethods @@
  DevtoolMethods @@ EndMethods @@ WaitMethods @@ LateMethods

-----------------------------------------------------------------------------
(* The instructions a method may call, through plain methods as well: those   *)
(* it waits for, and those that may go on when it is over.                   *)
Reached(methods) ==
  LET plain == {m \in methods : ~Methods[m].logged}
      more  == UNION {Methods[m].awaits : m \in plain}
      again == {m \in more : ~Methods[m].logged}
      most  == UNION {Methods[m].awaits : m \in again}
  IN {m \in methods \cup more \cup most : Methods[m].logged}

(* What of an instruction matters to the log of its application. *)
Effect(row) ==
  [awaits |-> Reached(row.awaits) # {}, leaves |-> Reached(row.leaves) # {},
   caught |-> row.caught]

Effects ==
  LET row(awaits, leaves, caught) ==
        [awaits |-> awaits, leaves |-> leaves, caught |-> caught]
  IN {row(FALSE, FALSE, FALSE), row(TRUE, FALSE, FALSE), row(TRUE, TRUE, FALSE),
      row(FALSE, FALSE, TRUE), row(TRUE, FALSE, TRUE)}

(* Methods call methods that exist and ask what a client can be asked, and    *)
(* their effects are these.                                                  *)
ASSUME MethodsAssumption ==
  /\ \A m \in DOMAIN Methods :
       /\ Methods[m].awaits \cup Methods[m].leaves \subseteq DOMAIN Methods
       /\ Methods[m].asks \subseteq Requests
  /\ Effects = {Effect(Methods[m]) : m \in {n \in DOMAIN Methods : Methods[n].logged}}

=============================================================================
