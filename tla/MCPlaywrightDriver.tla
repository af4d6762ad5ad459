------------------------- MODULE MCPlaywrightDriver -------------------------
(* PlaywrightDriver with two applicants and a tick of the timer.             *)
EXTENDS PlaywrightDriver
CONSTANTS a1, a2

MCFaults == {"crash", "page"}

(* Bound: the first command is a1's.  The applicants differ by nothing, so    *)
(* what begins with one of a2's is the same with the applicants exchanged.   *)
FirstIsA1 == pc[1] # "idle" => of[1] = a1
=============================================================================
