---------------------------- MODULE MCUnlockScreen ----------------------------
(***************************************************************************)
(* Instances of UnlockScreen for TLC.                                      *)
(***************************************************************************)
EXTENDS UnlockScreen

\* A question that cannot be answered, noticed or read (KeyFaults) would leave the
\* keys disabled.
NameFaults == {"name"}

NoFault == {}

\* mce and dsme are there.  The battery is empty, which matters without a charger.
EmptyAtStart ==
    {[running |-> {"mce", "dsme"}, charger |-> charger, battery |-> "empty"] :
        charger \in {"on", "off"}}
=============================================================================
