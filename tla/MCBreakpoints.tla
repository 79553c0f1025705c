---------------------------- MODULE MCBreakpoints ----------------------------
(* Two paused requests compete for the dialog, and two clicks answer one of   *)
(* them twice or both of them.                                               *)
EXTENDS Breakpoints

CONSTANTS r1, r2, k1, k2

MCRequests == {r1, r2}
MCCalls == {k1, k2}
=============================================================================
