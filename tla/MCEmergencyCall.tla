-------------------------- MODULE MCEmergencyCall --------------------------
(* Instances of EmergencyCall for TLC. *)
EXTENDS EmergencyCall

\* Failures that concern the call they are about only.
OfonoFaults == {"modems", "dial"}

\* ofono refuses to hang up.
HangUpFaults == {"hangup"}
=============================================================================
