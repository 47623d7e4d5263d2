-------------------------- MODULE MCBackgroundJobs --------------------------
(* Two executions and two jobs of one session, with every bound small *)
(* enough to be reached.                                              *)
EXTENDS BackgroundJobs

CONSTANTS r1, r2

TwoRuns == {r1, r2}
TwoJobs == 1 .. 2
=============================================================================
