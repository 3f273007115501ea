------------------------------ MODULE MCEncrypt ------------------------------
(* Instances of Encrypt for TLC: the sets of faults its runs allow. *)
EXTENDS Encrypt

CONSTANTS qa, settings   \* two D-Bus peers

MCClient == {qa, settings}

\* Everything but the callback that goes on after it has failed, and the key marker
\* that nobody misses, which FinishedIsEncrypted excepts.
MostFaults == FaultKind \ {"fs_proxy", "key_file"}

OnlyFsProxy == {"fs_proxy"}
=============================================================================
