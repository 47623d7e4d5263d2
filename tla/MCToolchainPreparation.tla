----------------------- MODULE MCToolchainPreparation -----------------------
(* Three calls, of as many Runs: an owner, a merged call and a latecomer. *)
EXTENDS ToolchainPreparation

CONSTANTS c1, c2, c3

ThreeCalls == {c1, c2, c3}
=============================================================================
