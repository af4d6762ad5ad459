# Verification of ringai

TLA+ models of the parts of ringai whose correctness depends on the order in
which things happen: who may write a file, who may use a slot, which worker
executes which test, what a timeout leaves behind, which log entry is worked on,
whose browser session is closed, which step of a test's log is open, at which
tab a test is.
TLC checks them on small instances, and TLAPS proves that the safety properties TLC
checks hold for any number of workers, requests, tests, retries, callers, pages and
calls.

Paths below are relative to the repository root. `TRC` is
`core/test-run-controller/src/test-run-controller.ts`, `FPR` is
`core/fs-store/src/utils/FilePermissionResolver.ts`, `FILE` is
`core/fs-store/src/fs-store-file.ts`, `DRIVER` is
`packages/plugin-playwright-driver/src/plugin/index.ts`, `APP` is
`packages/web-application/src/web-application.ts`.

    tlc -workers 2 -config FprUser.cfg MCFilePermissionResolver
    tlapm FilePermissionResolver_proofs.tla

The whole program runs in one Node.js process and one thread. Nothing is
preempted: control changes hands at an `await`, at a callback that is called in
a later turn of the event loop and at a timer. An action of the models is
therefore what happens from one such point to the next, with every synchronous
call in between, and a component's interleavings are those of its coroutines.

## Inventory

### Modelled

**FilePermissionResolver** (`FPR`) decides for one file who may lock, access
(write) and unlink it. State: `state`, a `MultiLock`, the `access` queue, the
flag `accessing`, the `del` queue. Operations: lock, unlock, cleanLock,
hookAccess, unhookAccess, cleanAccess, hookUnlink, unhookUnlink, cleanUnlink and
the release callbacks it hands out. Hard: the state is derived from the other
fields again at four places, and grants happen inside releases. Correct means:
one access at a time, no deletion under a lock, a deletion is final, nobody who
can be served waits for ever.

**MultiLock** (`core/utils/src/multi-lock.ts`) counts locks per id and in total,
**Queue** (`core/utils/src/queue.ts`) is a list. Both belong to the components
that own them.

**LockPool** (`core/fs-store/src/utils/LockPool.ts`) lets `maxLockCount` requests
work at a time; `acquire` answers with a promise. State: a MultiLock, the queue,
the ids it has seen. Hard: a release passes the slot on, a request may be
withdrawn while it waits, and slots are counted per worker and not per request.
Correct means: never overdrawn, none lost, nobody waits for a free slot.

**FSStoreServer and FSStoreClient** (`core/fs-store/src/fs-store-server.ts`,
`fs-store-client.ts`) connect the two: a request names a file, the server asks
the file's resolver and, for an access or an unlink, the pool, and answers; the
client works and releases. They talk through the transport by broadcast, so the
server takes every request to be from the same worker. Hard: two awaits lie between the
permission and the slot, the release gives them back in separate steps, and a
refused client releases like any other. Correct means: one writer per file, at
most `threadCount` operations, every request answered.

**FSStoreFile** (`FILE`) is one file as a test sees it. State: `inTransaction`,
`enterTransaction`, `accessId`, `valid`, a queue of lock ids and one of
transactions that wait. Operations: read, write, append and stat (an access, the
operation, a release), lock, unlock, unlockAll, startTransaction and endTransaction,
unlink, waitForUnlock. Hard: the methods of one object may overlap and share its
fields, answers to requests and to releases come in any order, another process
uses the same file. Correct means: who works on the file has it and gives back
what he took, nothing is kept when nobody works, every call ends.

**TestRunController** (`TRC`) prepares the queue of tests, spawns workers, whose
loops share it, retries failed tests after a delay, and reports to hooks. State:
the queue, the workers, the errors, and the position of each loop. Hard: every
hook may throw, a hook that throws ends one loop only, the timeout races with
the test, `kill()` and the delay of a retry overlap. Correct means: a test is in one
place, is tried a bounded number of times and gets one outcome, and the run ends
with the failures as its result.

**TestWorkerInstance** (`core/test-worker/src/test-worker-instance.ts`) compiles
and executes a test file whose `run()` calls are coroutines of their own, and
aborts it on `kill()`. State: one `abortController`. Hard: a test that timed out
goes on by itself while the next is executed, and both use the same field.
Correct means: the outcome is the test's, an aborted test calls nothing further,
no test blocks the ones after it. **TestAPIController** (`core/api/src`) brings the
bus and the callbacks `run()` uses.

**LoggerServer** (`core/logger/src/logger-server.ts`) passes log entries one by
one to the plugins and to stdout, with retries. State: queue and `status`. Hard:
`runQueue` calls itself without awaiting, and only `status` keeps two of its calls
apart. Correct means: one entry at a time, in order, each settled.

**Playwright driver** (`DRIVER`) executes the commands of tests, each of which first
makes sure that its applicant has a session (a context in the one browser they
share). State: `browser`, `isCleaningUp`, the sessions, those that have expired.
Operations: some eighty commands, `end`, the timer's `checkClientsTimeout`,
`pingClients`, `kill`; **BrowserProxyController** (`packages/browser-proxy/src`)
passes commands and `kill` on to it. Hard: a session takes several awaits to come
into being and to end, commands drop a browser they find closed, and the timer, the test
and `kill` end the same session. Correct means: no context is forgotten, nobody
closes another's session, `kill` comes back.

**WebApplication** (`APP`) with **WebClient** (`packages/web-application/src/web-client.ts`)
is what a test calls. Every instruction is executed by the decorator `stepLog`: it
opens a step on a stack of the **logger client**
(`core/logger/src/abstract-logger-client.ts`) that all loggers of the process
share, sets `isLogOpened` so that instructions inside it have none, and waits at the
two breakpoints of **AsyncBreakpoints** (`core/async-breakpoints/src`). Hard: an
instruction that was not awaited goes on while the next begins, an error handler
takes a screenshot while the log is open, and a promise built by hand must settle on
every path. Correct means: what was opened is closed, every instruction is
answered. Its **tab methods** keep `mainTabID` while the driver
keeps the ids of pages. Hard: a method is several commands, between which
pages open others and close themselves. Correct means: the application is at a tab it has
not closed, the main tab is one of its tabs, and the tabs it was to close are closed.

### Not modelled, and why

| Component | Source | Reason |
|---|---|---|
| FSStoreFile's factories, client fabric | `core/fs-store/src/` | constructors and default options |
| Sandbox | `core/sandbox/src/sandbox.ts` | a map filled once per path, shared by all tests by design; cyclic requires end in the same turn |
| PluggableModule, Hook | `core/pluggable-module/src/` | a chain of awaits; elsewhere a hook is one await that answers or throws |
| RunCommand | `core/cli/src/` | starts and stops the modelled parts once, in a sequence of awaits; the other commands are I/O |
| Transport | `core/transport/src/` | an EventEmitter: emitting calls the handler in the same turn, so a message is part of the sender's action |
| TestWorker | `core/test-worker/src/test-worker.ts` | a factory |
| PluginAPI | `core/plugin-api/src/` | registers hooks at start |
| Reporter | `core/reporter/src/` | synchronous counters, not connected to the run |
| child-process | `core/child-process/src/` | thin wrappers no test worker uses |
| cli-config, fs-reader | `core/cli-config/src/`, `core/fs-reader/src/` | sequential reading and merging of files |
| WebApplicationSimplified, browser scripts | `packages/web-application/src/` | a wrapper of a Playwright page without state of its own; code for the page |
| ElementPath | `packages/element-path/src/` | builds XPath text |
| async-assert | `packages/web-application/src/async-assert.ts` | one chai call each |
| plugin-fs-store, plugin-compiler | `packages/` | file names; a wrapper of a compiler |
| types, utils, ringai, timeout-config, test-utils, e2e-test-app | `core/`, `packages/` | declarations, stateless helpers, re-exports, constants, code for tests |

### How they interact

RunCommand creates the fs store server, the test worker, the controller and the
logger server, lets plugins register hooks and calls `runQueue`. The controller
calls `execute` of a worker and races it with a timer; when the timer wins it
calls `kill` of that worker. A test writes files through FSStoreFile, which asks
FSStoreClient, which broadcasts to FSStoreServer, which asks a resolver and the
pool. It drives a browser by a WebApplication, whose instructions make requests by
WebClient, which BrowserProxyController passes to the driver. Everybody logs through the
transport to LoggerServer.

## The modules

    MultiLock  <- FilePermissionResolver <- FSStore -> LockPool -> MultiLock
                  implements FilePermission <- FSStoreFile
    TestRunController implements TestOutcomes
    TestWorker        (TestWorkerInstance with the loop of the controller)
    LoggerServer
    DriverCommands <- PlaywrightDriver
          ^-- WebClientCommands <- WebApplicationMethods <- WebApplicationSteps
    WebApplicationTabs (the tab methods over the driver's tab commands)

`FSStore` composes the resolver and the pool; `FSStoreFile` uses the resolver's
abstract specification as its server, which the refinement theorem justifies.

| Module | Code | State | Actions |
|---|---|---|---|
| `MultiLock` | multi-lock.ts | `lockHash`, `lockLength` | `Acquire`, `Release`, `Clean`, `CleanAll`, conjoined by the owner to its own |
| `FilePermission` | what FPR promises | lockers, accessors, deleters, doomed | grants and releases |
| `FilePermissionResolver` | FPR | the fields of the class, and the requests that hold a release callback | one per method and per callback; `ChkEmpty`, `TryAccess`, `TryDelete` are operators that state the next values, as the private methods they translate |
| `LockPool` | LockPool.ts | the fields, and `holders`, the requests whose promise was resolved to true | `Acquire`, `ReleaseWaiting`, `ReleaseSlot`, `Clean` |
| `FSStore` | fs-store-server.ts, fs-store-client.ts | `pc` and `action` of each request, one resolver, the pool | one per stretch between awaits |
| `TestOutcomes` | what a run promises | trying, tries, passed, failed, verdict | `Try`, `TryAgain`, `Pass`, `Fail`, `End` |
| `TestRunController` | TRC | `phase` (what executeQueue awaits), `pc` and `item` of each loop, queue, errors | one per stretch between awaits, named after the hook that has answered |
| `TestWorker` | test-worker-instance.ts, TRC 281-349 | `at` of each execution, `body` and `fn` of each `run()`, `abortController` | the same, for `execute`, `run` and `kill` |
| `LoggerServer` | logger-server.ts | `queue`, `status`, and what the call that took each entry awaits | `Log`, `BeforeLog`, `OnLog`, `OnError` |
| `FSStoreFile` | fs-store-file.ts, fs-store-client.ts | the fields of the class, what each caller awaits, the client's callbacks, the server's file | one per method up to its first await, per answer, and per stretch after one (`Resume`) |
| `DriverCommands` | the commands of DRIVER | none: a table | a row per command: what it takes from the session, how often it calls Playwright |
| `PlaywrightDriver` | DRIVER 60-571, browser-proxy-controller.ts | the fields of the plugin, how far each command and each `end` is, Playwright's contexts | one per stretch between awaits |
| `WebClientCommands`, `WebApplicationMethods` | web-client.ts, APP | none: tables | a row per method: its requests, the methods it awaits, those it leaves running |
| `WebApplicationSteps` | APP 1977-2071, abstract-logger-client.ts, async-breakpoints.ts | `isLogOpened`, the stack of steps, the two breakpoints, how far each instruction is | calls, `Begin`, `Succeed`, `Fail`, `Handled`; the debugger's |
| `WebApplicationTabs` | tab methods of APP, tab commands of DRIVER | `mainTabID`, the driver's pages and ids, the steps that are left of a method | one per command a method sends; what pages do by themselves |
| `*_proofs` | | | theorems; `FSStoreFileLockPool_proofs` and `WebApplication_proofs` are about two components each |
| `MC*` | | | the instances TLC checks |

Variables that are not fields of the code are history or belong to the caller:
`lockHeld`, `accessHeld`, `unlinkHeld` and `cleaned` are FSStoreServer's records
of release callbacks; `holders` is who was answered true; `attempts`, `reports`
and `skipped` record what the hooks and workers were called with; `aborted` is the
state of the AbortSignals; `arrived`, `written` and `failures` are the log's
history; `denied`, `past`, `exposed` and `astray` record that a situation has occurred
from which on a property is not claimed, because the code does not keep it (each is
described under "Differences"). No guard that belongs to the code reads a history
variable; only bounds do (`Room` of FSStoreFile).

The tables of `DriverCommands`, `WebClientCommands` and `WebApplicationMethods` list
every command and method of the source with what matters to the models above
them, and TLC evaluates assumptions about them: every request of the client is a
command of the driver, every method calls methods that exist, and the sets of
row shapes the state machines choose from are exactly those of the tables.

Each module also holds a few operators marked "Mutant of": variants of one
definition with a plausible bug (a missing test, a callback not called, a count
off by one). Nothing uses them. Put in place of the definition they vary, they make
TLC find the property they are for violated; this is how we know that each
property can fail.

### What the models leave out

- `FilePermissionResolver`: the hooks it calls (they are not awaited and their
  answers not used). Ids are used again only when idle.
- `FSStore`: names and paths. One file is shared and a request of `Private` has a
  file of its own, so that several files compete for the pool. The hook
  `ON_QUEUE` always answers with the default pool. The worker id is the same for
  every request, as it is in the code: FSStoreClient broadcasts.
- `TestRunController`: `beforeRun` answers with a selection of the tests in any
  order, without repetition. A rejected `runQueue` ends the model's run although
  loops may go on. `workerLimit` 0 stands for every invalid value.
- `TestWorker`: contents, parameters and the compile cache. `BreakStackError` is
  left out because `breakStack()` is never called. A test file whose
  `module.exports` is itself the promise of `run()` would make
  `await sandbox.execute()` (line 167) wait for the test and its end go unheard,
  which leaves the file to the timeout; files that are compiled from ES modules
  do not export so. A failing afterRun callback, which keeps the ones after it
  from being called, is one answer of the flush.
- `LoggerServer`: formatting, levels, `silent`.
- `FSStoreFile`: the option `lock`, `isLocked`, the static methods, which make an
  object of their own. Promises that are resolved settle before a request that is sent
  afterwards reaches the server and before an operation on the file ends; calls, and
  messages that are on their way, may come in between. A caller calls `unlock` for each
  `lock` of his own. When something has come that voids the properties, nobody calls
  anything more, except after "overtaken".
- `PlaywrightDriver`: dialogs, mocks, coverage, the custom configurations. Commands
  (a ping is one), ticks, ends and `kill` come at any time, whoever's command is under
  way. `kill` is called once. Playwright
  either answers or throws, and its answers do not name contexts of others.
- `WebApplicationSteps`: what a body does besides calling other instructions. A body
  calls any instruction if its row says that it calls some. `waitForRoot`, `pause`
  and their like are instructions as any other. Screenshots on errors are enabled.
- `WebApplicationTabs`: sessions that expire; names, sizes and contents of tabs.
  Time stamps of ids are taken to differ. The driver's session is made by one step.

## The runs

Every run passes except the last, which checks a statement of the documentation that
the code does not keep.

| Run | Bounds | Checks |
|---|---|---|
| `FprUser` | 2 workers, 4 requests | `AccessExclusive`, `LocksProtect`, `NoLostUnlink`, `DeletionFinal`, that FilePermission is implemented (`KeepsPermission`), and that an access is granted or the file deleted |
| `LockPoolUser` | 2 workers, 5 requests, 2 slots | `AtMostMaxLockCount`, `WaitsOnlyWhenFull`, `WaiterServed` |
| `FsStore` | 3 requests for one file and 1 for another, 1 slot; locks, accesses, unlinks, ClearAction | `OneWriter`, `OperationsLimited`, `NoSlotLost`, `EveryRequestAnswered` |
| `FsFile` | 2 callers of one file object, 7 requests, of which the last 3 are made by transactions only (`Spare`), another process | `HasFile`, `NothingKept`, `CallsEnd` |
| `TrcRun` | 2 workers, 3 tests, 1 retry, no throwing hook, no bail | `AfterRunLast`, `ErrorsAreFailures`, and that TestOutcomes is implemented (`KeepsOutcomes`) |
| `TrcHooks` | 2 workers, 2 tests, 1 retry; any hook throws, any configuration, kill() | `OnePlace`, `AttemptsBounded`, `BrokenIsReported`, `RunEnds` |
| `LogServer` | 3 entries, 0 or 1 retries, skipping or not, any hook throws | `OneAtATime`, `OrderKept`, `EntriesSettled` |
| `TestWorker` | 2 files, 2 run() each, 2 functions each; hooks fail, tests hang, timeout, kill() | `ControllerInWork`, `OutcomeOfTest`, `AbortIsFinal`, `AbortedSettles`, `EveryTestStarts` |
| `Driver` | 2 applicants, 2 commands, 2 launches, 1 end by the client, 1 tick; crashes, pages that do not open, kill(); the first command is the first applicant's | `NoContextLost`, `SessionsIsolated`, `KillCompletes` |
| `WebSteps` | 2 applications, 3 instructions, 2 step names; failing screenshots, breakpoints, breakStack | `QuietMeansClosed`, `OneStepPerApp`, `InstructionsAnswered` |
| `WebTabs` | 4 calls, 4 pages, 7 ids | `FocusFollows`, `MainIsATab`, `OthersClosed` |
| `TestWorkerKill` | as `TestWorker` | violated: `KillTerminates` |

Every state machine has a type invariant, which is a theorem.

**Why the bounds are enough to be of interest.** Four requests of two workers
let one hold, one wait and two come in between, on each side of the per-worker
count; with five requests and two slots the pool's queue is three long and
somebody can withdraw from its middle. Three of four requests for one file and one for
another, with one slot, make a request that holds the file wait for the pool while
another waits for the file, and a refused one give back the slot of a third. In
`FsFile` the constructor makes one request and a transaction two; seven are enough for
one caller to operate, lock or unlink before, and for both to run a transaction, one
waiting for the other or entering between the end of one and the resumption of the next, while
outsiders' operations, which ask the server nothing, begin and end in them. `Spare`
keeps three requests for transactions that have been called, which would otherwise stop
halfway for want of one. Two loops and three tests have a loop end while the other requeues;
one retry is the least that tells a first attempt from the last. Two executions of
two `run()` each put a given-up execution beside the next one. Three entries and
one retry let a failed entry go behind two others. Two commands and two launches
have two sessions come into being at once, of two applicants or of one, in a browser that
crashes and is launched twice, or one session opened again after its end; an end, a tick and kill() are one
of each kind of end. Three instructions of two applications are one inside another
beside one of the other application, one left running and two after it, or one whose error
handler closes the log under the second before that calls the third. Four calls
with four pages open a second tab, go to it, close one and close another, by methods
of many commands. The constants of the theorems
are unbounded.

**Symmetry** sets are not used: most runs check liveness, for which they are not sound. In
`Driver` the CONSTRAINT `FirstIsA1` leaves out the behaviours whose first command is
the second applicant's: they are the others with the two exchanged, as a whole, and no
property names an applicant.

**Deadlock** is checked in `FprUser`, where an id may be used again and there is always
something to do. The others say `CHECK_DEADLOCK FALSE`: requests, tests, entries,
executions, commands, instructions and calls are finitely many, and a system that has done
its work stops.

### Fairness, and why the code justifies it

- `FprUser`, `LockPoolUser`: a granted access, unlink or slot is released.
  FSStoreFile does so before its operation returns, and its operations are single
  calls of the file system; that these succeed is an assumption (one that
  throws never releases: `fs-store-file.ts:238`). Locks need not be released.
- `FsStore`: the same, and the server's coroutines go on, as nothing they await
  but the pool and the hooks can be late. Clear need not come.
- `FsFile`: messages arrive, promises settle and file operations come to an end, as one
  fairness condition: each of these uses up a request or a call. A transaction's
  callback ends although other callers come in between (strong fairness); each operation
  ends, as calls of outsiders inside a transaction use up nothing; the
  resolver serves who waits (what `FprUser` shows), and the other process ends its
  accesses. Nobody has to call anything.
- `Driver`: Playwright answers what commands and the first part of `end` ask;
  the waits of `end` and `kill` have timers. The closing of single pages has none and
  no fairness.
- `WebSteps`: the browser answers and `initPromise` is kept; an instruction that has its
  answers goes on. The debugger need not resolve anything: who waits at a breakpoint
  that is never resolved is an exception of `InstructionsAnswered`.
- `WebTabs` is checked for safety only.
- `TrcHooks`: hooks answer, delays end, and an execution settles or times out:
  `testTimeout` is 15 minutes by default. A timeout of 0 would be no bound, and
  the property would depend on the tests. `kill()` need not come.
- `LogServer`: hooks answer. Nobody has to log.
- `TestWorker`: the controller goes on to the next test, its timer fires, afterRun
  callbacks answer. Compile hooks and test functions need not answer: that is
  what the liveness properties are about.

## The proofs

The theorems hold for every value of the constants under the assumptions the
modules name (`ResolverAssumption`, `LockPoolAssumption`, `FSStoreAssumption`,
`ControllerAssumption`, `WorkerAssumption`, `LoggerAssumption`, `DriverAssumption`,
`StepsAssumption`, `FileAssumption`, `TabsAssumption`): finite sets of workers and requests, an owner for each
request, natural numbers for limits and retries. No fairness is assumed. One
hypothesis is stated where it is needed:
`CalmRun` of TestRunController says that only `beforeRun` and `shouldNotExecute` may throw,
that no configuration bails and that `workerLimit` is not 0. An error that leaves a loop ends the run
while other loops have tests, and `runQueue` then answers with that error. The run
`TrcRun` is an instance; `kill()` may come, except for `FailuresAreReturned` (a kill
clears the queue, and a test that waits there for its retry gets no outcome).

| Module | Theorem | States | Of |
|---|---|---|---|
| `FilePermissionResolver_proofs` | `TypeCorrect` | `TypeOK` | `FileSpec` |
| | `AccessIsExclusive` | `AccessExclusive` | `Spec`: all of the interface |
| | `LocksAreCounted`, `LocksAreProtected`, `DeletionIsFinal`, `NoUnlinkIsLost` | the properties of `FprUser` | `UserSpec` |
| | `ResolverKeepsPermission` | FilePermission is implemented | `UserSpec` |
| `FSStoreFileLockPool_proofs` | `FileTypeCorrect` | `FileTypeOK` | `FileSpec`: whatever throws, whenever the file is deleted |
| | `WorkersHaveTheFile`, `NothingIsKept` | `HasFile`, `NothingKept` | `FileSpec`: any callers and requests |
| | `SlotsAreCounted`, `PoolNotOverdrawn`, `NobodyWaitsForFreeSlot` | the safety properties of `LockPoolUser` | `UserSpec` |
| | `CounterWithinLimit` | `CounterInLimit` | `Spec`: all of the interface |
| `FSStore_proofs` | `TypeCorrect`, `WritersAreAlone`, `OperationsAreLimited`, `SlotsAreNotLost` | `TypeOK`, `OneWriter`, `OperationsLimited`, `NoSlotLost` | `Spec`: refusals and ClearAction included |
| `TestRunController_proofs` | `TypeCorrect`, `TestsAreInOnePlace`, `RetriesAreBounded` | `TypeOK`, `OnePlace`, `AttemptsBounded` | `KillSpec`: any hook throws, kill() at any time |
| | `BrokenRunsAreReported` | `BrokenIsReported` | `KillSpec` |
| | `AfterRunComesLast`, `RunKeepsOutcomes` | `AfterRunLast`, `KeepsOutcomes` (TestOutcomes is implemented) | `KillSpec` under `CalmRun` |
| | `FailuresAreReturned` | `ErrorsAreFailures` | `Spec` under `CalmRun` |
| `TestWorker_proofs` | `TypeCorrect`, `KillAbortsWork`, `ResolvesForPassed`, `AbortedIsFinal` | `TypeOK`, `ControllerInWork`, `OutcomeOfTest`, `AbortIsFinal` | `Spec` |
| `LoggerServer_proofs` | `TypeCorrect`, `CallsExcludeEachOther`, `EntriesKeepOrder` | `TypeOK`, `OneAtATime`, `OrderKept` | `Spec` |
| `PlaywrightDriver_proofs` | `TypeCorrect`, `SessionsStayApart`, `ContextsAreKept` | `TypeOK`, `SessionsIsolated`, `NoContextLost` | `Spec`: any failures, any overlap of commands, kill() at any time |
| `WebApplication_proofs` | `TypeCorrect`, `OpenedIsClosed`, `StepsAreAlone` | `TypeOK`, `QuietMeansClosed`, `OneStepPerApp` | `Spec`: any failures, breakpoints |
| | `TabsTypeCorrect` | `TabsTypeOK` | `TabsSpec`: any pages, ids and calls |
| | `MainTabIsOpen`, `AllOthersAreClosed`, `TheFocusFollows` | `MainIsATab`, `OthersClosed`, `FocusFollows` | `TabsSpec` |

**The argument for FilePermissionResolver.** `LocksProtect` is not inductive: the
code never tests the locks before a deletion, it tests `state`. `LockInv` ties the
two together: the counters are the holders, the state is `locked` while a lock is
held, it is `deleting` or `deleted` while somebody holds a deletion, and no lock was
taken away by cleanLock. From the counts it follows that the release of the last
lock, and only that one, brings `chkEmpty` to the branch that may delete. It holds
for users that release what they were granted (`UserSpec`). For the releases
FSStoreFile makes after a refusal, the types and `AccessExclusive` still hold, the
lock properties do not (see below). `NoLostUnlink` rests on `WakeInv`: in the
states `locked` and `access` somebody holds a lock or the access, accesses wait only
behind one that is granted, and unlinks wait only in those states or behind a
deletion. The refinement maps the holders of callbacks to FilePermission's sets and
goes through the actions one by one; a release that grants a deletion in the same
turn is one abstract step.

**For LockPool**, the counters are the cardinalities of `holders` (per worker by
`CountAdd` and `CountRemove`, which say how a count changes when an element joins or
leaves), no request is twice in the queue or both there and among the holders (the ids in
`requests` see to that), and the queue is empty unless the pool is full. `CounterInLimit` alone survives releases by
requests that hold nothing, because the guard of `release` is the worker's count.

**For FSStore**, `ServerInv` ties three records together that the server keeps apart: the
resolver knows who has the file, the pool who has a slot, the coroutine of a request
what it was answered. Whoever waits with the resolver has asked for that action, so
that a grant goes to a coroutine that awaits it; a permitted access stays permitted
until its own release, which ClearAction does not touch; who was answered OK has a
slot, and who releases one without having it was denied. The count of slots is at
most the slots in use and equal to them until somebody is denied. The theorems about
the resolver and the pool are about users that release what they hold, which the
server is not, so their invariants could not be taken over; the weaker ones here hold
for any release.

**For TestRunController**, `OnePlace` is inductive together with the shape of the
loops' states: a loop has a test exactly when it is busy, and the place a test is
taken from is removed in the same step. The difficulty is the stretch after a
retry was queued, where the loop still has the test in hand for its last hook while
another loop may already execute it: `Holding` excludes this state. `AttemptsBounded`
rests on: attempts so far are at most the retry count of the place where the test
is, plus one if it is being tried. `BrokenIsReported` follows from how a run ends
(`Ending`): without errors only when every loop that was started has returned. For the runs
of `CalmRun`, `CalmSteps` sorts what a loop does into taking a test, beginning a
try, settling the test, waiting, returning, and steps between these that change nothing. `CalmInv`
says that the last loop returns when the queue is empty (`Drained`: while something is
queued a loop is alive), that a test that may still be tried has no report
(`Unreported`) and that the errors are the failures reported (`Recorded`);
`Accounted` follows every test that was tried to its report or to the place where it
waits. The refinement maps places and reports to TestOutcomes' sets and uses the same
cases.

**For TestWorker**, `ControllerInWork` needs that a controller is set only on the
way into an execution's work and cleared by its last step at the latest
(`Move`, the lemma on how an execution proceeds, says so for all actions at once),
and that an execution that has not been started is new. `OutcomeOfTest` needs
that a `run()` that is over stays so and that before its script runs an execution has
none. `AbortIsFinal` follows from `ControllerInWork`: what is aborted was in work,
and is decided from then on.

**For LoggerServer**, `OneAtATime` needs that an entry whose hook has thrown for good
still counts as being worked on (`status` stays `RUNNING` and nothing is logged any
more), and that the status is `RUNNING` exactly when there is such an entry or one that
waits for a hook: only the entry that is worked on may call `runQueue` again. `OrderKept`
needs the order of all that is anywhere: what is written, then the entry in work, then
the queue, is in the order of arrival but for entries that have failed
(`OrderInv`), because whoever arrives joins at the end, and only an entry that has
failed goes there again.

**For PlaywrightDriver**, `SessionsIsolated` rests on `OwnInv`: what is registered for
an applicant, and what an end for it closes, was opened by one of its own commands.
`end` notes the context when it begins, and its registration may have changed hands
when it is over; the context it closes has not, because a command never becomes idle
again and keeps its applicant (`StaysStarted`), only the command that opened a
context registers it (`Registers`), and an end that goes on keeps what it began
with (`EndsGoOn`). All other ways in which a context stops to work take its browser
along. `NoContextLost` needs to know whose registration a command
may overwrite. Two commands of one applicant may both find the map empty; the first to
register is exposed to the other. So while a command is creating a session, what is
registered for its applicant is nothing or a context that is exposed (`Replaces`): it found
nothing when it began, and whoever registers while it goes on becomes exposed. What is
registered or closed belongs to a command past the opening (`Stage`), and pages are closed one by
one only when the browser has gone or `close()` has failed (`ForcedExposed`). Contexts that
fail to be given a page or to be closed are exposed as well, so that no
hypothesis about faults is needed.

**For WebApplicationSteps**, the stack cannot be followed entry by entry, because
`endStep` takes away whatever lies above a step of that name. `QuietMeansClosed` rests on a
count (`Counted`): of each name, no more steps are open than there are
instructions with a step of that name that they have not ended, since one `endStep` pops at least one of them if
there is any. For `OneStepPerApp` it is who waits for whom: while no instruction was
left running, the unanswered instructions form a chain (`Chain`), each but the last
runs and waits for a later one, and each was called by an unanswered one or by the
test (`Callers`), which calls only when nobody is left (`NobodyWaits`). So only the
last of the chain acts, and when it is about to open a log no other can be (`OneOpens`). An
error handler that still works after the answer is not in the chain, but its log is open.
When it closes that log under an instruction that runs in it, the instructions of that
one begin steps of their own: at most one has a step even then, and the second half of the
property, that one which is waited for has none, ends there (`past` holds "closed"). Until then every
running instruction runs in an open log (`RunsInLog`), and of the chain only the
first may have a step or be about to begin one (`Inside`), so that its end closes the log on
nobody.

**For FSStoreFile**, the fields of the object are shared by callers who do not know of each
other, and `HasFile` says of a caller what only the server records. `CalmInv` says whose
each field is, as long as nothing has happened that makes it void (`Calm`: no unlink was
granted, no operation threw, `unlockAll` was not called, no outsider has given back what is
another's, no transaction was entered while another one was, and no id was cleared that was
another's by then; both properties have these situations as their exceptions, and a situation that
has come stays). An outsider who operates beside a transaction holds nothing, and the
invariant is about the others. `accessId` is the id of
one caller, from the answer to his `getAccess` until his release is answered (`HasAccess`,
`OneAccesses`, `AccessIsHis`): no other can get an answer meanwhile, because
the server has given the access to this id and to nobody else (`AccessGranted`). From that
answer until he goes on the field still holds his old id, or the next caller's: clearing the next
one's is "reset". One transaction at a time is between its entry and its end, or woken to enter
(`OneEnters`), and `enterTransaction` is set exactly while there is one that is not merely
woken (`Entered`). For locks
there is no such owner: `unlock` takes the first id of `lockQueue` whosever it is. What
holds is a count, as many ids are queued as callers are at a step at which they have a lock
(`LocksCounted`), and every queued id is a lock the server has granted (`LocksQueued`,
`GivenKept`). That counts suffice is the point: in a transaction the object has a lock, and when
no method is under way the queue is empty. `NothingKept` needs in addition that a release on its way
is awaited by the one who sent it, and that every promise he awaits is of a release on its way
(`BackAwaited`, `AwaitsBack`), so that a quiet object has none; and that the two flags of a
transaction are somebody's (`Transacts`, `Entered`).

**For WebApplicationTabs**, which tab is the main one is known to the application and whether
it is open to the browser, and between two commands pages open and go away. `MainIsATab` is
made inductive by `Home`: the main tab is open wherever a method stands (and when it is not
known, the page that would be asked for it is), unless the method is about to elect another
or to end the session. That this survives the closing of tabs is `ClosersApart`: the steps
still to do close no tab that is the main one. `OthersClosed` needs `Others`: of the
pages there were at the call, each that is open is the main tab or one of those still to be
closed. Which steps a method may have before it, and behind its next one, is stated in `Base`
(`Lawful`, `LawfulLater`), with the pages numbered as they were opened. Most commands close
nothing: they open pages and give ids and keep everything else (`Grows`), and a lemma
`QuietStep` serves them all. For `FocusFollows` it is enough to look at the last step of
a method (`LastStep`): it goes to a tab, and `setMain` comes only after that; a page that
closes itself meanwhile is not one the application has closed. The order of ids, which the
code gets by sorting, is in the model the function `Ascending`, defined by rank, so that
what it lists (`AscendingEnumerates`) can be proved without induction.

**Only model-checked**: the liveness properties (`AccessGrantedOrDeleted`, `WaiterServed`,
`EveryRequestAnswered`, `CallsEnd`, `RunEnds`, `AbortedSettles`, `EveryTestStarts`,
`EntriesSettled`, `KillCompletes`, `InstructionsAnswered`), which are beyond TLAPS as they
rest on fairness, and the violated `KillTerminates`. Every invariant and every action
property of a passing run, and both refinements, are theorems. What a filter
of a sequence (`SelectSeq`) returns for every sequence would need an induction; therefore `ClearOne` of FSStore says that the queue is
emptied (`ClearAccess`, `ClearUnlink`: every request is of the one worker id) instead of
filtering it by the resolver's `CleanAccess` and `CleanUnlink`. The assumptions about the
tables of commands and methods are evaluated by TLC.

## What the checks showed

### Violated statements of the documentation

1. `docs/core-modules/test-worker.md:142`: `kill` "Terminates the worker process".
   `TestWorkerKill`: during the compile hooks it does nothing, and the test is
   executed afterwards (`test-worker-instance.ts:68`). It does nothing either when
   the end of an earlier execution has cleared the field (92).
2. `docs/core-modules/fs-store.md:64`: `threadCount` is "Max concurrent file
   operations (LockPool size)". A refused access never asked the pool, but its
   release gives a slot back (`fs-store-server.ts:365`), which is another
   request's: two operations run in a pool of one. `OperationsLimited` is claimed
   until a request has been refused.
3. `docs/core-modules/test-run-controller.md:198`: bail is to "Stop the entire run
   on the first test failure". The error leaves one loop, the others go on
   (`TRC:238`).
4. `docs/core-modules/test-run-controller.md:77`: `kill()` "Kills all active worker
   processes and clears the test queue". A retry is queued after it (`TRC:259`), and
   executed.
5. `DRIVER:512`: "Prevent launching new browsers during cleanup". A command that has
   passed the test of `isCleaningUp`, or waits for its end, launches a browser after
   `kill()` has closed the one it knew; nobody closes that one.
   `NoContextLost` is claimed until `kill()` is called.
6. `docs/core-modules/async-breakpoints.md:87`: `breakStack()` is to "forcibly unblock
   any waiting code". An instruction that waits before its execution never settles,
   because the rejection is thrown inside the async executor of its promise
   (`APP:1986-2000`), and the breakpoint stays in the map, so that all later
   instructions stop there too. It is an exception of `InstructionsAnswered`.
7. `docs/core-modules/fs-store.md:206`: `unlockAll()` is to "Release all locks". It leaves
   their ids in `lockQueue`, and the next `unlock()` releases one the client does not know
   any more, whose answer never comes (`FILE:171`). An exception of `CallsEnd`.
8. `docs/core-modules/fs-store.md:220`: `isLocked()` says "Whether the file has an
   active lock". It reads a field nobody assigns (`FILE:261`): always false.
9. `docs/core-modules/fs-store.md:214`: `waitForUnlock()` is to "Wait until all locks are
   released". It asks for an unlink and releases it, which leaves the file `deleted`
   for good.
### Differences met while modelling, without a run of their own

- A release after a refused lock calls `unlock()` (`fs-store-server.ts:392`),
  which takes off a lock of the worker whosever it is, and `chkEmpty` then makes a file
  that is being deleted free again. The lock properties are therefore stated of
  `UserSpec`; `TypeCorrect` and `AccessIsExclusive` cover such releases too.
- `fs-store.md:207` promises exclusive access; a deletion may be granted while a
  file is accessed (`tryDelete` tests `state`, which `tryAccess` leaves as it is), and
  several deletions may be granted at once although `FPR:8` says one at a time.
- Queued accesses are never answered once a deletion is granted (`FPR:135`).
- A client whose access was refused writes all the same: the callback of
  `fs-store-client.ts:75` does not say what the status was.
- `beforeTestRetry` is called after the test is queued again, not before
  (`test-run-controller.md:155`, `TRC:259-266`); a retried execution has no
  `afterTest` (`:17`); `afterRun` may be called while other loops execute tests
  (`:161`); a failed test whose retry `shouldNotStart` skips is in neither the
  reports nor the errors, so that `runQueue` may answer null (`:46`).
  `ErrorsAreFailures` has the last one as its exception.
- The retries of `docs/core-modules/logger.md:46` belong to the call of `runQueue` and
  not to the entry: an entry can be skipped because the one before it has used
  them up (`logger-server.ts:89`).
- `test-worker.md` describes forked processes; workers run in the process.

FSStoreFile:

- An operation that throws (`FILE:238`) keeps the access and its slot: nobody else gets
  the file. An `unlink` of the file system that throws leaves the promise pending
  (`FILE:295`), because the callback's error goes nowhere.
- `getAccess` and `lock` answer every caller at once while a transaction is under way (181):
  an outsider's operation takes no access and runs beside the transaction's. When the
  transaction ends first, the outsider's release gives back the access of the transaction, or of
  whoever has the file next; when that one's own release is on its way, the client
  replaces the callback (`fs-store-client.ts:192`), and the first never goes on. `HasFile`
  speaks of those who were given the file, until an outsider has given back
  what is another's ("foreign"); so do `NothingKept` and `CallsEnd`.
- `startTransaction` tests `enterTransaction` with `if` (317): one that is called in
  the turn between the end of a transaction and the resumption of the next enters before
  it, and both callbacks run at once ("overtaken"): the caller whose transaction has just
  ended, who begins another one, and the one who waited for him.
- When the answer to a release and the next grant reach the client in one turn, as
  they do over IPC in a batch, the reset of `accessId` (223) takes away the new id, and
  that access is not released ("reset").

Playwright driver:

- Two commands that launch at once overwrite `this.browser`; the first browser lives on
  with the session in it, and no one closes it at the end.
- A command that finds its own browser closed sets `this.browser` to undefined even
  when another command has launched a new one (215); the sessions in that one go
  on, but it is not closed at the end.
- `end` deletes the entry the applicant has when it is over: if the session was ended
  twice and opened again in between, the new one is forgotten.
- Two commands of one applicant that both find no session open one each, and the second
  entry overwrites the first (`DRIVER:166-273`): that context is never closed. A test gets there
  when `openPage` loses against its timer and the next command is sent.
- When `newPage` throws (or tracing or coverage), the context stays open and belongs to
  nobody. These three are the exceptions of `NoContextLost` (`exposed`), with a `close()` that fails.
- The fallback of `end`, which closes pages one by one, has no timer (`forcing`).
- Whether a session has expired is measured from the begin of its last command: a
  command longer than `clientTimeout` loses its session while it runs.
- Dialogs: `alertAccept` and `alertDismiss` only reset a flag, the dialog was answered
  by its handler (the first is accepted, the others dismissed, for the life of the
  session); the timer of an earlier dialog clears the flag of a later one. Frames:
  `currentFrame` is not reset by `switchTab` and `newWindow`. `tabIdMap` is one for all
  applicants and is emptied only when none is left.

WebApplication:

- After a failure `endStep` is called twice (`APP:2018, 2023`); the second call finds no
  step of that name and empties the stack, with the step of the test in it. The caller is
  told before, while the error handler takes its screenshot with the log open, so that what
  the test calls next runs without a step. When the handler closes the log while that one
  runs, the instructions it calls after that begin steps of their own ("closed").
- The stack of steps is one for all applications. With three applications, when the error handlers
  of three instructions whose steps have the same name are at work at once, the first
  to end pops the steps of the others with its two calls of `endStep` and leaves its own
  there, with its log closed; the application's next instruction puts a second one on the
  stack. The attempt to prove `OneStepPerApp` of the stack led to this, and TLC shows it
  with four instructions; the property is now about instructions that have a step they have
  not ended.
- A screenshot that fails leaves the step and the log open for ever, and the
  application's instructions have no steps from then on (`unclosed`).
- The breakpoint after an instruction never holds the caller: the promise is resolved
  by the body.
- `openPage` leaves `openPageFromURI` running when its timer wins, and `setValue` does not
  await `simulateJSFieldChange` when it emulates by script.
- `closeBrowserWindow` of the main tab leaves `mainTabID` stale for good when there are
  other tabs: `closeCurrentTab` never ends the session then, and `closeAllOtherTabs`
  closes every tab. When it was the only one, the session stays without a tab, and the
  next command gives an id to the closed page.
- `closeFirstSiblingTab` with a single tab closes it, ends the session, and the
  last step opens another browser session.
- When going to the elected tab fails in `closeCurrentTab`, `mainTabID` stays that of the
  closed tab.

## Plan

Done, with the proofs of their safety properties: the resolver, the pool, the server and its client, FSStoreFile; the run controller
and the worker; the logger's server and the stack of steps; the driver's sessions, the
execution of instructions with breakpoints, the tabs.

Left, in this order:

1. `FSStore` with several shared files and a hook that answers with different pools.
2. Dialogs of the driver: the queue, the flag and its timer.
3. `RunCommand`: init, run, failure and the two shutdowns, composing
   TestRunController and the driver at the level of their abstract specifications.
4. Pure algorithms: `mergeConfigs` and `WorkerCount` against reference definitions.
