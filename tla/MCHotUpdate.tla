---------------------------- MODULE MCHotUpdate ----------------------------
(* The files of the instance of HotUpdate that TLC checks: one vendor with  *)
(* a gap in its versions, one with a single file.                           *)
EXTENDS HotUpdate, TLC

CONSTANTS v1, v2

File(v, n, p) == [vendor |-> v, version |-> n, packets |-> p]
MCVendors == {v1, v2}
MCCatalogue == {File(v1, 1, 2), File(v1, 3, 1), File(v2, 2, 1)}
=============================================================================
