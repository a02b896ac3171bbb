---------------------------- MODULE MCScreenLease ----------------------------
(* The instance of ScreenLease that TLC checks: two calls, named.           *)
EXTENDS ScreenLease

CONSTANTS a1, a2
=============================================================================
