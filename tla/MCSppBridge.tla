----------------------------- MODULE MCSppBridge -----------------------------
(* The instances of SppBridge that TLC checks.                              *)
EXTENDS SppBridge, TLC

\* Bridges are interchangeable.
Symmetry == Permutations(Procs)
=============================================================================
