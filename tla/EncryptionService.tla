-------------------------- MODULE EncryptionService --------------------------
(***************************************************************************)
(* The encryption service as a process on the system bus: the D-Bus        *)
(* methods (dbus.c), the decisions of main.c between the encryption job    *)
(* (Encrypt) and the preparation and finalization (Manage), its idle       *)
(* timeout, its end and its activation by systemd.  Any client may call    *)
(* any method at any time.                                                 *)
(***************************************************************************)
EXTENDS Naturals, Sequences

CONSTANTS
    Client, NoClient, Fault,      \* of Encrypt
    ManageFault, UsbModeAtStart,  \* of Manage
    CanCrash,     \* the process may be killed at any time
    MaxStarts     \* bound on how often the service is started

ASSUME ClientAssumption == NoClient \notin Client
ASSUME CrashAssumption == CanCrash \in BOOLEAN
ASSUME StartsAssumption == MaxStarts \in Nat \ {0}

VARIABLES
    running, mounted, disk, crypttab,        \* shared by Encrypt and Manage
    \* of Encrypt
    status, pending, data, temporary, erase, signal_handler,
    cleartext_device_path, cleartext_device_uuid, initialized, receiver, sent,
    tearing_down, request, configuring, luks_key, key_files, unit_conf, announce,
    \* of Manage
    private_data, connected, tasks, task, awaiting, orig_usb_mode, unit_call,
    answer, job, job_result, session, terminating, usb_mode, masked,
    loaded_mask, actdead_enabled, preparation, marker, user_home, tmp_home,
    home_dirs,
    \* of main.c
    saved_passphrase,   \* saved_passphrase # NULL
    erase_type,
    idle_timer,         \* quit_if_idle is still to come
    starts              \* how often the service was started

E == INSTANCE Encrypt
M == INSTANCE Manage

ASSUME FaultAssumption == Fault \subseteq E!FaultKind
ASSUME ManageFaultAssumption == ManageFault \subseteq M!ManageFaultKind
ASSUME UsbModeAssumption == UsbModeAtStart \subseteq M!UsbMode

\* What only Encrypt, only Manage and only main.c write.
encrypt_only == <<disk, crypttab, status, pending, data, temporary, erase,
                  signal_handler, cleartext_device_path, cleartext_device_uuid,
                  initialized, receiver, sent, tearing_down, request, configuring,
                  luks_key, key_files, unit_conf, announce>>
manage_only == <<private_data, connected, tasks, task, awaiting, orig_usb_mode,
                 unit_call, answer, job, job_result, session, terminating,
                 usb_mode, masked, loaded_mask, actdead_enabled, preparation,
                 marker, user_home, tmp_home>>
main_vars == <<saved_passphrase, erase_type, idle_timer, starts>>

vars == <<running, mounted, encrypt_only, manage_only, home_dirs, main_vars>>

TypeOK ==
    /\ E!EncryptTypeOK
    /\ M!ManageTypeOK
    /\ saved_passphrase \in BOOLEAN
    /\ erase_type \in E!EraseType
    /\ idle_timer \in BOOLEAN
    /\ starts \in 1 .. MaxStarts

\* The home partition is in use, or at a first boot already unmounted.
Init ==
    /\ E!EncryptInit
    /\ M!ManageInit
    /\ mounted = ~preparation
    /\ saved_passphrase = FALSE
    /\ erase_type = "none"
    /\ idle_timer = TRUE
    /\ starts = 1

-----------------------------------------------------------------------------
(* The D-Bus methods *)

\* call_prepare.  prepare() asserts that nothing was prepared or finalized
\* before; the failing assertion aborts the process.
PrepareToEncrypt(overwrite_type) ==
    /\ running
    /\ \/ /\ ~saved_passphrase /\ status = "NOT_STARTED"
          /\ saved_passphrase' = TRUE
          /\ erase_type' = overwrite_type
          /\ UNCHANGED <<idle_timer, starts, encrypt_only, mounted>>
          /\ \/ private_data = "NULL" /\ M!prepare
             \/ /\ private_data # "NULL"
                /\ running' = FALSE
                /\ UNCHANGED <<manage_only, home_dirs>>
       \/ /\ saved_passphrase \/ status # "NOT_STARTED"
          /\ UNCHANGED vars

\* Mutant: the saved passphrase is not looked at.
BeginTemporary(client) ==
    /\ E!BeginEncryption(client, TRUE, "none")
    /\ UNCHANGED <<manage_only, home_dirs, main_vars>>

\* call_encrypt, with the saved passphrase or the temporary one.
BeginEncryption(client) ==
    /\ E!BeginEncryption(client, ~saved_passphrase, erase_type)
    /\ UNCHANGED <<manage_only, home_dirs, main_vars>>

\* Mutant: the state of the encryption is not asked for.
FinalizeAnytime ==
    /\ running
    /\ \/ /\ ~M!FinalizeRefused
          /\ M!finalize(status = "FAILED" /\ saved_passphrase)
          /\ UNCHANGED <<encrypt_only, mounted, main_vars>>
       \/ M!FinalizeRefused /\ UNCHANGED vars

\* call_finalize; after a failure what was prepared is restored.
FinalizeEncryption ==
    /\ running
    /\ \/ /\ status \in {"NOT_STARTED", "FINISHED", "FAILED"}
          /\ ~M!FinalizeRefused
          /\ M!finalize(status = "FAILED" /\ saved_passphrase)
          /\ UNCHANGED <<encrypt_only, mounted, main_vars>>
       \/ /\ \/ M!FinalizeRefused
             \/ status \notin {"NOT_STARTED", "FINISHED", "FAILED"}
          /\ UNCHANGED vars

-----------------------------------------------------------------------------
(* The components *)

\* The home directories are gone when the partition has been wiped.
WipedIsEmpty == home_dirs' = IF disk' = "wiped" THEN "none" ELSE home_dirs

JobCallback == E!Callback /\ WipedIsEmpty /\ UNCHANGED <<manage_only, main_vars>>

\* UDisks works on, also for a process that is gone.
DeviceFormatted == E!UDisksJob /\ WipedIsEmpty /\ UNCHANGED <<manage_only, main_vars>>

PropertyAnnounced ==
    /\ \E property \in E!PropertyChange : E!PropertyAnnounced(property)
    /\ UNCHANGED <<manage_only, home_dirs, main_vars>>

ManageCallback == M!ManageCallback /\ UNCHANGED <<encrypt_only, main_vars>>

\* Between the UUID that ends the job and home.mount there is the end of a session;
\* unless the instance says so UDisks has written its entries by then.
ConfiguredInTime ==
    \/ ~configuring \/ "config_late" \in Fault
    \/ job # M!Task("START_UNIT", "home.mount")

ManageHost ==
    ConfiguredInTime /\ M!ManageHost /\ UNCHANGED <<encrypt_only, main_vars>>

-----------------------------------------------------------------------------
(* The life of the process *)

\* quit_if_idle, once, QUIT_TIMEOUT seconds after the start.
QuitIfIdle ==
    /\ running /\ idle_timer
    /\ idle_timer' = FALSE
    /\ running' = ~(status = "NOT_STARTED" /\ ~saved_passphrase)
    /\ UNCHANGED <<mounted, encrypt_only, manage_only, home_dirs,
                   saved_passphrase, erase_type, starts>>

\* A kill that nothing follows only stops the service, which it may do anyway.
Crash ==
    /\ CanCrash /\ running
    /\ starts < MaxStarts
    /\ running' = FALSE
    /\ UNCHANGED <<mounted, encrypt_only, manage_only, home_dirs, main_vars>>

\* A client's call activates the service; systemd starts it only while the
\* marker exists.  What the last process asked for is dealt with by then.
Activate ==
    /\ ~running /\ marker
    /\ starts < MaxStarts
    /\ ~tearing_down /\ request = "none" /\ ~configuring
    /\ unit_call = M!NoTask /\ job = M!NoTask
    /\ starts' = starts + 1
    /\ E!JobReset
    /\ M!ServiceReset
    /\ saved_passphrase' = FALSE
    /\ erase_type' = "none"
    /\ idle_timer' = TRUE

ClientCall ==
    \/ \E overwrite_type \in E!EraseType : PrepareToEncrypt(overwrite_type)
    \/ \E client \in Client : BeginEncryption(client)
    \/ FinalizeEncryption

\* Everything but the clients and the life of the process.
ServiceStep ==
    \/ JobCallback \/ DeviceFormatted \/ PropertyAnnounced
    \/ ManageCallback \/ ManageHost

\* The life of one process, until it ends.  EncryptionClients adds the kills and
\* the further starts.
Next == ClientCall \/ ServiceStep \/ QuitIfIdle

Spec == Init /\ [][Next]_vars

-----------------------------------------------------------------------------
(* Properties *)

Restarting == running /\ tasks \in {"finalization", "restoration"}

\* An encryption job and a restart of the session exclude each other: what ends
\* in g_main_loop_quit never runs beside a job that still owes a result
\* (main.c call_finalize, "Encryption is in progress").
JobAndRestartExclude ==
    Restarting => status \in {"NOT_STARTED", "FINISHED", "FAILED"}

\* A device whose owner chose a security code is encrypted with it: the service
\* never falls back to TEMPORARY_PASSPHRASE (main.c call_encrypt) while the
\* preparation that was given the security code is under way or done.
SecurityCodeIsUsed ==
    running /\ saved_passphrase => ~temporary
=============================================================================
