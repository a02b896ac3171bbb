----------------------------- MODULE MCDaemonLife -----------------------------
(* The instances of DaemonLife that TLC checks.                             *)
EXTENDS DaemonLife, TLC

\* The numbers of socket files are interchangeable.
Symmetry == Permutations(Inodes)
=============================================================================
