------------------------------ MODULE MCBleLink ------------------------------
(* The instances of BleLink that TLC checks.                                *)
EXTENDS BleLink, TLC

\* Coroutines are interchangeable, and so are the transports of an address.
Symmetry == Permutations(Tasks) \cup Permutations(Transports)
=============================================================================
