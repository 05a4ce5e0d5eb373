---------------------------- MODULE MCTokenRefresh ----------------------------
(* The instances of TokenRefresh that TLC checks. *)
EXTENDS TokenRefresh

Absent == {Missing}
AbsentOrOld == {Missing, 0}
================================================================================
