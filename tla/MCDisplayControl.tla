--------------------------- MODULE MCDisplayControl ---------------------------
(* The instance of DisplayControl for TLC. *)
EXTENDS DisplayControl

AllFaults == DisplayFaultKind
=============================================================================
