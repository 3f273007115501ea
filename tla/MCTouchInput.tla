----------------------------- MODULE MCTouchInput -----------------------------
(* The instance of TouchInput for TLC. *)
EXTENDS TouchInput

AllFaults == TouchFaultKind
=============================================================================
