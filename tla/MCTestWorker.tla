---------------------------- MODULE MCTestWorker ----------------------------
(* TestWorker with two executions whose files call run() at most twice.    *)
EXTENDS TestWorker
CONSTANTS k1, k2

MCRun == {k1, k2}
=============================================================================
