-------------------------- MODULE WebClientCommands --------------------------
(***************************************************************************)
(* packages/web-application/src/web-client.ts: what a WebApplication can   *)
(* ask of its browser.  Each method makes one request, named as itself, to *)
(* the BrowserProxyController, which calls the driver's method of that     *)
(* name for the application's applicant.  Sets, in the order of the        *)
(* source.                                                                 *)
(***************************************************************************)

Driver == INSTANCE DriverCommands

SessionRequests == {"end", "refresh", "setCustomBrowserClientConfig",
  "getCustomBrowserClientConfig", "getHubConfig", "click", "getSize", "url",
  "newWindow", "waitForExist", "waitForVisible", "isVisible", "moveToObject",
  "execute", "executeAsync", "getTitle", "clearValue", "keys"}

ElementRequests == {"elementIdText", "elements", "getValue", "setValue",
  "keysOnElement", "selectByIndex", "selectByValue", "selectByVisibleText",
  "getAttribute", "windowHandleMaximize", "isEnabled", "scroll",
  "scrollIntoView"}

PageRequests == {"isAlertOpen", "alertAccept", "alertDismiss", "alertText",
  "dragAndDrop", "frame", "frameParent", "setCookie", "getCookie",
  "deleteCookie", "getHTML", "getCurrentTabId", "switchTab", "close",
  "getTabIds", "window", "windowHandles", "getTagName", "isSelected",
  "getText", "elementIdSelected", "makeScreenshot", "uploadFile", "kill",
  "getCssProperty", "getSource", "isExisting"}

LateRequests == {"waitForValue", "waitForSelected", "waitUntil",
  "selectByAttribute", "gridTestSession", "mock", "getMockData",
  "getCdpCoverageFile", "emulateDevice", "status", "back", "forward",
  "getActiveElement", "getLocation", "setTimeZone", "getWindowSize",
  "setViewportSize", "savePDF", "addValue", "doubleClick", "isClickable",
  "waitForClickable", "isFocused", "isStable", "waitForEnabled",
  "waitForStable"}

Requests == SessionRequests \cup ElementRequests \cup PageRequests
            \cup LateRequests

(* Every request finds a method of the driver: no command of a test fails     *)
(* with "Unknown browser proxy action".  end and kill are methods beside the *)
(* commands.                                                                 *)
ASSUME RequestsAssumption ==
  Requests \ {"end", "kill"} \subseteq DOMAIN Driver!Commands

=============================================================================
