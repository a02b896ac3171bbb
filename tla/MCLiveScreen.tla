----------------------------- MODULE MCLiveScreen -----------------------------
(* The instances of LiveScreen that TLC checks.                             *)
EXTENDS LiveScreen

CONSTANTS c1, c2

(* One call of the user's and one of the lease holder's ...                 *)
UserAndHolder == [c \in {c1, c2} |-> IF c = c1 THEN NoToken ELSE Holder]

(* ... or one of the user's and one of a session's.                         *)
UserAndSession == [c \in {c1, c2} |-> IF c = c1 THEN NoToken ELSE Session]
=============================================================================
