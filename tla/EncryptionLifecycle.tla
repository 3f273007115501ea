------------------------- MODULE EncryptionLifecycle -------------------------
(***************************************************************************)
(* What the encryption service promises a client that calls                *)
(* BeginEncryption: at most one job per service process, one result, told  *)
(* to the client that began, and the state of the service agrees with it.  *)
(***************************************************************************)
EXTENDS Naturals, Sequences

CONSTANTS Client, NoClient

VARIABLES
    state,      \* "idle", "working", "done" or "failed"
    owner,      \* the client that waits for the result
    results     \* the results that have been signalled

lifecycle_vars == <<state, owner, results>>

LifecycleInit == state = "idle" /\ owner = NoClient /\ results = <<>>

Begin(client) ==
    /\ state = "idle"
    /\ state' = "working"
    /\ owner' = client
    /\ UNCHANGED results

End(success) ==
    /\ state = "working"
    /\ state' = IF success THEN "done" ELSE "failed"
    /\ results' = Append(results, [to |-> owner, success |-> success])
    /\ owner' = NoClient

LifecycleNext ==
    \/ \E client \in Client : Begin(client)
    \/ \E success \in BOOLEAN : End(success)

LifecycleSafety == LifecycleInit /\ [][LifecycleNext]_lifecycle_vars
=============================================================================
