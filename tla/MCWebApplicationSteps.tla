------------------------ MODULE MCWebApplicationSteps ------------------------
(* WebApplicationSteps with two applications of one test, and all faults.    *)
EXTENDS WebApplicationSteps
CONSTANTS a1, a2

MCFaults == {"screenshot", "break"}
=============================================================================
