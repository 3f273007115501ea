----------------------------- MODULE MCHomeCopy -----------------------------
(* Instances of HomeCopy for TLC. *)
EXTENDS HomeCopy

CONSTANT rest    \* the part that only the restoration brings back

MCPart == {local, rest}

\* Everything the service and the scripts answer.
AnsweredFaults ==
    {"bus", "systemd", "subscribe", "marker", "start_unit", "card", "cp", "mv",
     "encryption", "killed", "script_killed"}
=============================================================================
