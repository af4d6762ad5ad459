------------------------ MODULE MCTestRunController ------------------------
(* TestRunController with two workers and a few tests.                       *)
EXTENDS TestRunController

AnyHook == {"beforeRun", "shouldNotExecute", "shouldNotStart", "beforeTest",
            "afterTest", "shouldNotRetry", "beforeTestRetry", "afterRun"}
NoHook == {}

TwoWorkers == {[bail |-> FALSE, workerLimit |-> 2]}
AnyConfig  == [bail : BOOLEAN, workerLimit : 0..2]
=============================================================================
