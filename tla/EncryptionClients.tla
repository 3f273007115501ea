-------------------------- MODULE EncryptionClients --------------------------
(***************************************************************************)
(* The encryption service with the clients this repository ships: the      *)
(* settings page that asks for the preparation (encryption.qml) and the    *)
(* user interface that encrypts and finalizes (EncryptionService.qml,      *)
(* qa-encrypt-device/main.qml).  Nobody else calls the service.            *)
(***************************************************************************)
EXTENDS EncryptionService

CONSTANT ui_client    \* the D-Bus name of the user interface

ASSUME UiAssumption == ui_client \in Client

VARIABLE ui    \* the user interface that encrypts

client_vars == <<vars, ui>>

UiState == {"off", "started", "encrypting", "finalizing", "quit"}

ClientTypeOK == TypeOK /\ ui \in UiState

\* At a first boot the user interface runs and nobody goes to the settings.
ClientInit ==
    /\ Init
    /\ ui = IF preparation THEN "started" ELSE "off"

\* The bus delivers in order: a call that is made after systemd has answered
\* does not overtake the answer.
InOrder == answer = "none" /\ job_result = "none"

\* encryption.qml: prepare(securityCode, "zero"), from a running session, after
\* the user has confirmed.  The settings of a session that lives on /home offer
\* it, also again, while the partition is not encrypted.  A refused call changes
\* nothing and is left out.
SettingsPrepare ==
    /\ session /\ user_home = "/home" /\ ui \in {"off", "quit"}
    /\ disk # "luks"
    /\ status = "NOT_STARTED" /\ ~saved_passphrase /\ InOrder
    /\ PrepareToEncrypt("zero")
    /\ ui' = "off"

\* checkAndEncrypt, once the service is available; an error goes on as a result
\* of the encryption does.
UiEncrypt ==
    /\ ui = "started" /\ marker /\ InOrder
    /\ BeginEncryption(ui_client)
    /\ ui' = IF status = "NOT_STARTED" THEN "encrypting" ELSE "finalizing"

\* encryptionFinished(success, error)
UiEncryptionFinished ==
    /\ ui = "encrypting"
    /\ \E i \in DOMAIN sent : sent[i].to \in {ui_client, NoClient}
    /\ ui' = "finalizing"
    /\ UNCHANGED vars

\* finalize(), whose reply nobody looks at, and quit.
UiFinalize ==
    /\ ui = "finalizing" /\ InOrder
    /\ FinalizeEncryption
    /\ ui' = "quit"

\* A session that starts on /tmp/home starts with the user interface: the script
\* has removed the marks of a start-up wizard that was gone through.
WizardStarts == ~session /\ session' /\ user_home' = "/tmp/home" /\ marker'

\* The user interface is started once for each preparation, and it does not
\* outlive a session.
UiFollowsSession ==
    ui' = IF WizardStarts /\ ui = "off" THEN "started"
          ELSE IF session /\ ~session' /\ ui # "quit" THEN "off" ELSE ui

ClientNext ==
    \/ SettingsPrepare \/ UiEncrypt \/ UiEncryptionFinished \/ UiFinalize
    \/ ServiceStep /\ UiFollowsSession
    \/ QuitIfIdle /\ UNCHANGED ui
    \/ Crash /\ UNCHANGED ui
    \/ Activate /\ UNCHANGED ui

ClientSpec == ClientInit /\ [][ClientNext]_client_vars

\* The user interface acts on a result, the service's main loop runs, and UDisks,
\* systemd and logind do what they are asked.
ClientFairness ==
    /\ WF_client_vars(UiEncryptionFinished)
    /\ WF_client_vars(UiFinalize)
    /\ WF_client_vars(JobCallback /\ UiFollowsSession)
    /\ WF_client_vars((DeviceFormatted \/ PropertyAnnounced) /\ UiFollowsSession)
    /\ WF_client_vars(ManageCallback /\ UiFollowsSession)
    /\ WF_client_vars(ManageHost /\ UiFollowsSession)

ClientFairSpec == ClientSpec /\ ClientFairness

-----------------------------------------------------------------------------
(* Properties *)

\* Where which home directories are.
HomePlaces ==
    [p \in {"partition", "tmp"} |-> IF p = "tmp" THEN tmp_home ELSE home_dirs]

Directories == INSTANCE HomeDirectories
    WITH Erases <- "no_space" \in ManageFault,
         places <- HomePlaces,
         named <- IF user_home = "/home" THEN "partition" ELSE "tmp",
         reachable <- mounted

\* The users always have home directories somewhere, they move only between sessions,
\* and a session finds them where passwd says; the partition is destroyed only
\* with a set in /tmp/home and nothing mounted.  Where /tmp has space for them they
\* are the users' own all the time (home-encryption-preparation.sh,
\* home-encryption-finish.sh and the task lists of manage.c), wherever the service
\* is killed.
HomeIsKept == Directories!DirectoriesSpec

\* Between the end of the preparation and the finalization /home stays
\* unmounted, whatever default.target pulls in.
PreparedHomeIsMasked ==
    running /\ saved_passphrase /\ tasks = "NULL" => loaded_mask /\ ~mounted

\* A service that ends a restart of the session, and not because of an error,
\* leaves home.mount usable and the USB mode as it had found it, although that
\* was changed before the encryption and perhaps a list of tasks ago.
RestartRestoresHost ==
    [][ Restarting /\ private_data' = "freed"
            /\ awaiting \in {"UserRemoved", "JobRemoved"}
        => /\ ~masked /\ ~loaded_mask
           /\ orig_usb_mode # "NULL" => usb_mode' = orig_usb_mode
           /\ session /\ mounted /\ user_home = "/home" ]_client_vars

\* Finalizing restarts the user session with the home directories on /home
\* (manage.c:619), also after a failed encryption.
FinalizingRestartsSession ==
    Restarting ~> session /\ user_home = "/home" /\ mounted /\ home_dirs # "none"

\* The user interface that began the encryption gets past the waiting page.
EncryptionIsAnswered == (ui = "encrypting") ~> (ui # "encrypting")
=============================================================================
