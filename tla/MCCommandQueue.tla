---------------------------- MODULE MCCommandQueue ----------------------------
(* Instances of CommandQueue for TLC. *)
EXTENDS CommandQueue, TLC

CONSTANTS j1, j2, a, b

TwoJobs == {j1, j2}
TwoTokens == {a, b}
=============================================================================
