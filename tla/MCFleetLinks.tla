----------------------------- MODULE MCFleetLinks -----------------------------
(* The instances of FleetLinks that TLC checks.                             *)
EXTENDS FleetLinks, TLC

\* The tasks that serve clients are interchangeable.
Symmetry == Permutations(Clients)
=============================================================================
