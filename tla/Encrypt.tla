------------------------------- MODULE Encrypt -------------------------------
(***************************************************************************)
(* The encryption job of the encryption service                            *)
(* (src/encryption-service/encrypt.c) with the bookkeeping of its result   *)
(* (main.c status_changed_handler, dbus.c signal_encrypt_finished).        *)
(*                                                                         *)
(* The service is one GLib main loop: a callback runs to its end before    *)
(* the next one starts, so a callback is one action.  The asynchronous     *)
(* call whose callback is still to come is "pending"; the UDisks daemon    *)
(* and the kernel act between callbacks.                                   *)
(***************************************************************************)
EXTENDS Naturals, Sequences

CONSTANTS
    Client,        \* D-Bus peers that may call BeginEncryption
    NoClient,      \* data.receiver == NULL
    Fault          \* what may go wrong around the service in this instance

\* What the service is told, what it does not look at, and what goes wrong in a
\* job of UDisks after its call has been answered.
ToldFault == {"bus", "client", "resolve", "block", "can_format", "fs_proxy",
              "unmount", "tear_down", "format", "unit_conf"}
UnseenFault == {"random_key", "device_open", "key_file", "uuid_first"}
JobFault == {"tear_down_job", "format_job", "config_items", "config_late"}

FaultKind == ToldFault \cup UnseenFault \cup JobFault

ASSUME FaultAssumption == Fault \subseteq FaultKind
ASSUME ClientAssumption == NoClient \notin Client

VARIABLES
    \* the service, all of it lost with the process
    running,                \* the process is alive
    status,                 \* encryption_state
    pending,                \* the asynchronous call whose callback is due
    data,                   \* the invocation_data: "NULL", "live" or "freed"
    temporary,              \* data->passphrase_is_temporary
    erase,                  \* data->erase
    signal_handler,         \* on_properties_changed is connected
    cleartext_device_path,  \* the static of on_properties_changed is not NULL
    cleartext_device_uuid,  \* data->cleartext_device_uuid is not NULL
    initialized,            \* the static of erase_data: it has begun to write
    receiver,               \* data.receiver of dbus.c
    sent,                   \* the EncryptionFinished signals, oldest first
    \* the device and the file system outside it
    tearing_down,           \* UDisks has still to tear down what there is,
    request,                \* to format with the passphrase of this user,
    configuring,            \* and to write the crypttab and fstab entries
    disk,                   \* "plain", "wiped" (no valid content) or "luks"
    luks_key,               \* whose passphrase opens the LUKS device
    mounted,                \* the home file system is mounted
    crypttab,               \* the crypttab and fstab entries are there
    key_files,              \* markers of how the device can be opened
    unit_conf,              \* drop-in files written under SYSTEMD_UNIT_DIR
    announce                \* property changes UDisks has still to deliver

job_vars == <<status, pending, data, temporary, erase, signal_handler,
              cleartext_device_path, cleartext_device_uuid, initialized>>
result_vars == <<receiver, sent>>
udisks_vars == <<tearing_down, request, configuring>>
disk_vars == <<udisks_vars, disk, luks_key, mounted, crypttab, key_files,
               unit_conf, announce>>
encrypt_vars == <<running, job_vars, result_vars, disk_vars>>

Status == {"NOT_STARTED", "IN_PREPARATION", "ERASURE_IN_PROGRESS",
           "IN_PROGRESS", "NEEDS_RESCAN", "RESCAN_FINISHED", "FINISHED",
           "FAILED"}

Call == {"bus", "client", "resolve", "block", "can_format", "tear_down",
         "erase_data", "format", "rescan"}

EraseType == {"none", "zero", "random"}

\* Mutant: one of the names is misspelt.
UnitConfsMisspelt == <<"multi-user.target", "systemd-user-session.service",
                       "home-mount-settle.service", "home.mount">>

\* The drop-ins in the order write_systemd_configuration writes them.
UnitConfs == <<"multi-user.target", "systemd-user-sessions.service",
               "home-mount-settle.service", "home.mount">>

AllUnitConfs == {"multi-user.target", "systemd-user-sessions.service",
                 "home-mount-settle.service", "home.mount"}

\* The two kinds of passphrase, and the marker file that goes with each.
Passphrase == {"temporary", "user"}

PropertyChange == {"CleartextDevice", "IdUUID"}

Result == [to : Client \cup {NoClient}, success : BOOLEAN]

EncryptTypeOK ==
    /\ running \in BOOLEAN
    /\ status \in Status
    /\ pending \in Call \cup {"none"}
    /\ data \in {"NULL", "live", "freed"}
    /\ temporary \in BOOLEAN
    /\ erase \in EraseType
    /\ signal_handler \in BOOLEAN
    /\ cleartext_device_path \in BOOLEAN
    /\ cleartext_device_uuid \in BOOLEAN
    /\ receiver \in Client \cup {NoClient}
    /\ sent \in Seq(Result)
    /\ initialized \in BOOLEAN
    /\ tearing_down \in BOOLEAN /\ configuring \in BOOLEAN
    /\ request \in Passphrase \cup {"none"}
    /\ disk \in {"plain", "wiped", "luks"}
    /\ luks_key \in Passphrase \cup {"none"}
    /\ mounted \in BOOLEAN
    /\ crypttab \in BOOLEAN
    /\ key_files \subseteq Passphrase
    /\ unit_conf \subseteq AllUnitConfs
    /\ announce \subseteq PropertyChange

\* A service that has just been started: nothing of the job exists yet.
JobInit ==
    /\ running = TRUE
    /\ status = "NOT_STARTED"
    /\ pending = "none"
    /\ data = "NULL"
    /\ temporary = FALSE
    /\ erase = "none"
    /\ signal_handler = FALSE
    /\ cleartext_device_path = FALSE
    /\ cleartext_device_uuid = FALSE
    /\ initialized = FALSE
    /\ receiver = NoClient
    /\ sent = <<>>

\* A home partition nobody has encrypted yet.
DiskInit ==
    /\ tearing_down = FALSE /\ request = "none" /\ configuring = FALSE
    /\ disk = "plain"
    /\ luks_key = "none"
    /\ mounted \in BOOLEAN
    /\ crypttab = FALSE
    /\ key_files = {}
    /\ unit_conf = {}
    /\ announce = {}

EncryptInit == JobInit /\ DiskInit

\* The service is started again: the job is forgotten, the device is not.
JobReset ==
    /\ running' = TRUE
    /\ status' = "NOT_STARTED"
    /\ pending' = "none"
    /\ data' = "NULL"
    /\ temporary' = FALSE
    /\ erase' = "none"
    /\ signal_handler' = FALSE
    /\ cleartext_device_path' = FALSE
    /\ cleartext_device_uuid' = FALSE
    /\ initialized' = FALSE
    /\ receiver' = NoClient
    /\ sent' = <<>>
    /\ UNCHANGED disk_vars

-----------------------------------------------------------------------------
(* The result of the job *)

\* The signal goes to the client that began, to everybody when there is none,
\* and the client is forgotten.
signal_encrypt_finished(success) ==
    /\ sent' = Append(sent, [to |-> receiver, success |-> success])
    /\ receiver' = NoClient

\* set_status with the service's callback, status_changed_handler.
set_status(state) ==
    /\ status' = state
    /\ \/ /\ state \in {"FAILED", "FINISHED"}
          /\ signal_encrypt_finished(state = "FINISHED")
       \/ /\ state \notin {"FAILED", "FINISHED"}
          /\ UNCHANGED result_vars

\* Mutant: the handler of property changes stays connected.
ReleaseKeepsHandler ==
    /\ data' = "freed"
    /\ UNCHANGED signal_handler

\* Both ways out of a job: the signal handler is disconnected and the
\* invocation_data freed.
release_data ==
    /\ signal_handler' = FALSE
    /\ data' = "freed"

end_encryption_to_failure ==
    /\ set_status("FAILED")
    /\ release_data

-----------------------------------------------------------------------------
(* Starting a job: BeginEncryption, main.c call_encrypt *)

\* start_to_encrypt once its guard on the status has passed.
start_to_encrypt(is_temporary, erase_type) ==
    /\ status = "NOT_STARTED"
    /\ status' = "IN_PREPARATION"
    /\ data' = "live"
    /\ temporary' = is_temporary
    /\ erase' = erase_type
    /\ pending' = "bus"
    /\ UNCHANGED <<running, signal_handler, cleartext_device_path,
                   cleartext_device_uuid, initialized, sent, disk_vars>>

\* Mutant: the client is noted before the call is known to succeed.
BeginNotesClientFirst(client, is_temporary, erase_type) ==
    /\ running
    /\ is_temporary => erase_type = "none"
    /\ receiver' = client
    /\ \/ start_to_encrypt(is_temporary, erase_type)
       \/ /\ status # "NOT_STARTED"
          /\ UNCHANGED <<running, job_vars, sent, disk_vars>>

\* A client begins.  Without a saved passphrase the temporary one is used and
\* the erase type is its initial value, DONT_ERASE.
BeginEncryption(client, is_temporary, erase_type) ==
    /\ running
    /\ is_temporary => erase_type = "none"
    /\ \/ /\ start_to_encrypt(is_temporary, erase_type)
          /\ receiver' = client
       \/ /\ status # "NOT_STARTED"          \* "Starting encryption failed"
          /\ UNCHANGED encrypt_vars

-----------------------------------------------------------------------------
(* The chain of callbacks *)

Returns(call) == running /\ pending = call

\* The call succeeded and its callback makes the next one.
Continue(next) ==
    /\ pending' = next
    /\ UNCHANGED <<running, status, data, temporary, erase, signal_handler,
                   cleartext_device_path, cleartext_device_uuid, initialized,
                   result_vars, disk_vars>>

\* The call returned an error and its callback gives up.
GivesUp ==
    /\ end_encryption_to_failure
    /\ pending' = "none"
    /\ UNCHANGED <<running, temporary, erase, cleartext_device_path,
                   cleartext_device_uuid, initialized, disk_vars>>

Aborts(fault) == fault \in Fault /\ GivesUp

got_bus == Returns("bus") /\ (Continue("client") \/ Aborts("bus"))

\* Mutant: the failure is reported, and the chain goes on.
ClientFailureGoesOn ==
    /\ Returns("client")
    /\ \/ Continue("resolve")
       \/ /\ "client" \in Fault
          /\ end_encryption_to_failure
          /\ pending' = "resolve"
          /\ UNCHANGED <<running, temporary, erase, cleartext_device_path,
                         cleartext_device_uuid, initialized, disk_vars>>

got_client == Returns("client") /\ (Continue("resolve") \/ Aborts("client"))

\* An error and an empty list both end the job.  The handler of property
\* changes is connected before the device is looked at.
check_device_list ==
    /\ Returns("resolve")
    /\ \/ /\ pending' = "block"
          /\ signal_handler' = TRUE
          /\ UNCHANGED <<running, status, data, temporary, erase,
                         cleartext_device_path, cleartext_device_uuid, initialized,
                         result_vars, disk_vars>>
       \/ Aborts("resolve")

found_block_device ==
    Returns("block") /\ (Continue("can_format") \/ Aborts("block"))

\* start_format_luks: UDisks is asked to tear down, to format and to write crypttab
\* and fstab entries.
start_format_luks ==
    /\ status' = "IN_PROGRESS"
    /\ pending' = "format"
    /\ tearing_down' = TRUE
    /\ request' = IF temporary THEN "temporary" ELSE "user"

\* start_erasure_with_random: UDisks is asked to tear down only.
start_erasure_with_random ==
    /\ status' = "ERASURE_IN_PROGRESS"
    /\ pending' = "tear_down"
    /\ tearing_down' = TRUE
    /\ UNCHANGED request

\* The home file system is unmounted if it is mounted, then the job goes on
\* with what the erase type asks for.
UnmountAndStart ==
    /\ mounted' = FALSE
    /\ \/ erase = "random" /\ start_erasure_with_random
       \/ erase # "random" /\ start_format_luks
    /\ UNCHANGED <<running, data, temporary, erase, signal_handler,
                   cleartext_device_path, cleartext_device_uuid, initialized,
                   result_vars, configuring, disk, luks_key, crypttab,
                   key_files, unit_conf, announce>>

\* No proxy for the file system: the failure is reported and the data freed,
\* but the callback does not return.  It reads the erase type from the freed data
\* and makes its call on the freed block proxy.  Either that kills the process, or
\* GLib refuses the call, which is then awaited for ever: it is never sent.
FilesystemProxyFails ==
    /\ "fs_proxy" \in Fault
    /\ signal_encrypt_finished(FALSE)
    /\ release_data
    /\ \/ running' = FALSE /\ status' = "FAILED" /\ pending' = "none"
       \/ /\ running' = TRUE
          /\ \/ status' = "ERASURE_IN_PROGRESS" /\ pending' = "tear_down"
             \/ status' = "IN_PROGRESS" /\ pending' = "format"
    /\ UNCHANGED <<temporary, erase, cleartext_device_path,
                   cleartext_device_uuid, initialized, disk_vars>>

can_format_to_type ==
    /\ Returns("can_format")
    /\ \/ UnmountAndStart
       \/ Aborts("can_format")
       \/ mounted /\ Aborts("unmount")
       \/ FilesystemProxyFails

\* With "no-block" UDisks answers when it has looked at the parameters and tried
\* them in a dry run; what becomes of the job after that is not told to anybody.
\* A call that was never sent is not answered.
Accepts == data = "live" /\ UNCHANGED udisks_vars

\* The tear-down that was asked for before goes on.
Refuses(fault) ==
    /\ fault \in Fault
    /\ data = "live" /\ tearing_down
    /\ tearing_down' \in {FALSE, erase = "random" /\ fault = "format"}
    /\ request' = "none"
    /\ UNCHANGED configuring

\* "Removed /home from fstab. Starting to erase.": erase_data becomes an idle source
\* of the main loop.
tear_down_complete ==
    /\ Returns("tear_down")
    /\ \/ /\ Accepts
          /\ pending' = "erase_data"
          /\ UNCHANGED <<status, data, signal_handler, result_vars>>
       \/ /\ Refuses("tear_down")
          /\ pending' = "none"
          /\ end_encryption_to_failure
    /\ UNCHANGED <<running, temporary, erase, cleartext_device_path,
                   cleartext_device_uuid, initialized, disk, luks_key, mounted,
                   crypttab, key_files, unit_conf, announce>>

\* One run of the idle source: a block is overwritten, which destroys what was
\* there, and the source is run again.
EraseBlock ==
    /\ initialized' = TRUE
    /\ disk' = "wiped" /\ luks_key' = "none"
    /\ UNCHANGED <<running, status, pending, data, temporary, erase,
                   signal_handler, cleartext_device_path,
                   cleartext_device_uuid, result_vars, udisks_vars, mounted,
                   crypttab, key_files, unit_conf, announce>>

\* ENOSPC, or an error of the cipher or the device: the erasure is over, complete
\* or not, and the formatting starts.
ErasureEnds ==
    /\ initialized' = TRUE
    /\ start_format_luks
    /\ UNCHANGED <<running, data, temporary, erase, signal_handler,
                   cleartext_device_path, cleartext_device_uuid,
                   result_vars, configuring, disk, luks_key, mounted, crypttab,
                   key_files, unit_conf, announce>>

\* No random key at the first run: the idle source is removed and nothing
\* else is started.
NoRandomKey ==
    /\ "random_key" \in Fault
    /\ ~initialized
    /\ pending' = "none"
    /\ UNCHANGED <<running, status, data, temporary, erase, signal_handler,
                   cleartext_device_path, cleartext_device_uuid, initialized,
                   result_vars, disk_vars>>

\* The streams are used without a check: a device that cannot be opened kills
\* the process at the first write.
DeviceNotOpened ==
    /\ "device_open" \in Fault
    /\ ~initialized
    /\ running' = FALSE
    /\ pending' = "none"
    /\ UNCHANGED <<status, data, temporary, erase, signal_handler,
                   cleartext_device_path, cleartext_device_uuid, initialized,
                   result_vars, disk_vars>>

erase_data ==
    /\ Returns("erase_data")
    /\ EraseBlock \/ ErasureEnds \/ NoRandomKey \/ DeviceNotOpened

\* TEMPORARY_KEY_FILE or UPDATE_KEY_FILE, which tells the unlock agent how the
\* device can be opened.  That the file could not be created is not noticed.
create_key_file ==
    \/ key_files' = key_files \cup {IF temporary THEN "temporary" ELSE "user"}
    \/ "key_file" \in Fault /\ UNCHANGED key_files

\* Mutant: nobody asks for the rescan.
FormatCompleteWithoutRescan ==
    /\ Returns("format")
    /\ pending' = "none"
    /\ \/ /\ Accepts
          /\ set_status("NEEDS_RESCAN")
          /\ create_key_file
          /\ UNCHANGED <<data, signal_handler>>
       \/ /\ Refuses("format")
          /\ end_encryption_to_failure
          /\ UNCHANGED key_files
    /\ UNCHANGED <<running, temporary, erase, cleartext_device_path,
                   cleartext_device_uuid, initialized, disk, luks_key, mounted,
                   crypttab, unit_conf, announce>>

\* The call of Format is answered, and the formatting begins.  Whatever the answer, a
\* rescan is requested last; after a failure it is given NULL instead of the freed
\* data.
format_complete ==
    /\ Returns("format")
    /\ pending' = "rescan"
    /\ \/ /\ Accepts
          /\ set_status("NEEDS_RESCAN")
          /\ create_key_file
          /\ UNCHANGED <<data, signal_handler>>
       \/ /\ Refuses("format")
          /\ end_encryption_to_failure
          /\ UNCHANGED key_files
    /\ UNCHANGED <<running, temporary, erase, cleartext_device_path,
                   cleartext_device_uuid, initialized, disk, luks_key, mounted,
                   crypttab, unit_conf, announce>>

-----------------------------------------------------------------------------
(* The end: the rescan is over and the UUID is known, in either order *)

\* write_systemd_configuration stops at the first drop-in it cannot write.
write_systemd_configuration(ok) ==
    \/ ok /\ unit_conf' = AllUnitConfs
    \/ /\ ~ok
       /\ "unit_conf" \in Fault
       /\ \E n \in 0 .. Len(UnitConfs) - 1 :
              unit_conf' = unit_conf \cup {UnitConfs[i] : i \in 1 .. n}

\* Mutant: the failure to write a drop-in is not reported.
FinishDespiteFailure(state, uuid_known) ==
    \/ /\ state = "RESCAN_FINISHED" /\ uuid_known
       /\ \E ok \in BOOLEAN : write_systemd_configuration(ok)
       /\ set_status("FINISHED")
       /\ release_data
    \/ /\ ~(state = "RESCAN_FINISHED" /\ uuid_known)
       /\ status' = state
       /\ UNCHANGED <<result_vars, data, signal_handler, unit_conf>>

\* Mutant: the rescan is enough, the UUID is not waited for.
FinishWithoutUuid(state, uuid_known) ==
    \/ /\ state = "RESCAN_FINISHED"
       /\ \/ write_systemd_configuration(TRUE) /\ set_status("FINISHED")
          \/ write_systemd_configuration(FALSE) /\ set_status("FAILED")
       /\ release_data
    \/ /\ state # "RESCAN_FINISHED"
       /\ status' = state
       /\ UNCHANGED <<result_vars, data, signal_handler, unit_conf>>

\* finish_if_ready for the status and the UUID its caller has just stored.
finish_if_ready(state, uuid_known) ==
    \/ /\ state = "RESCAN_FINISHED" /\ uuid_known
       /\ \/ write_systemd_configuration(TRUE) /\ set_status("FINISHED")
          \/ write_systemd_configuration(FALSE) /\ set_status("FAILED")
       /\ release_data
    \/ /\ ~(state = "RESCAN_FINISHED" /\ uuid_known)
       /\ status' = state
       /\ UNCHANGED <<result_vars, data, signal_handler, unit_conf>>

\* Mutant: the rescan after a failure is taken for the one after the format.
RescanUnchecked ==
    /\ Returns("rescan")
    /\ pending' = "none"
    /\ finish_if_ready("RESCAN_FINISHED", cleartext_device_uuid)
    /\ UNCHANGED <<running, temporary, erase, cleartext_device_path,
                   cleartext_device_uuid, initialized, udisks_vars, disk,
                   luks_key, mounted, crypttab, key_files, announce>>

rescan_complete ==
    /\ Returns("rescan")
    /\ pending' = "none"
    /\ \/ /\ status = "NEEDS_RESCAN"
          /\ finish_if_ready("RESCAN_FINISHED", cleartext_device_uuid)
       \/ /\ status # "NEEDS_RESCAN"
          /\ UNCHANGED <<status, result_vars, data, signal_handler, unit_conf>>
    /\ UNCHANGED <<running, temporary, erase, cleartext_device_path,
                   cleartext_device_uuid, initialized, udisks_vars, disk,
                   luks_key, mounted, crypttab, key_files, announce>>

\* org.freedesktop.UDisks2.Encrypted of the device changes.
CleartextDeviceChanged(value) ==
    /\ cleartext_device_path' = (cleartext_device_path \/ value # "")
    /\ UNCHANGED <<status, data, signal_handler, cleartext_device_uuid,
                   result_vars, unit_conf>>

\* org.freedesktop.UDisks2.Block of some device changes.
IdUUIDChanged(value) ==
    \/ /\ cleartext_device_path /\ value # ""
       /\ cleartext_device_path' = FALSE
       /\ cleartext_device_uuid' = TRUE
       /\ finish_if_ready(status, TRUE)
    \/ /\ ~(cleartext_device_path /\ value # "")
       /\ UNCHANGED <<status, data, signal_handler, cleartext_device_path,
                      cleartext_device_uuid, result_vars, unit_conf>>

on_properties_changed(property, value) ==
    /\ signal_handler
    /\ \/ property = "CleartextDevice" /\ CleartextDeviceChanged(value)
       \/ property = "IdUUID" /\ IdUUIDChanged(value)

-----------------------------------------------------------------------------
(* The UDisks daemon *)

\* What there is on the device is torn down: its entries are removed and it is
\* wiped, unless it is in use or something else goes wrong, which ends the job.
UDisksTearsDown ==
    /\ tearing_down
    /\ tearing_down' = FALSE
    /\ \/ /\ ~mounted
          /\ disk' = "wiped" /\ luks_key' = "none" /\ crypttab' = FALSE
          /\ UNCHANGED request
       \/ /\ mounted \/ "tear_down_job" \in Fault
          /\ request' = "none"
          /\ UNCHANGED <<disk, luks_key, crypttab>>
    /\ UNCHANGED <<running, job_vars, result_vars, configuring, mounted, key_files,
                   unit_conf, announce>>

\* The device is formatted and the changes of its properties are on their way.  A
\* job that fails may have opened the LUKS device already.
UDisksFormats ==
    /\ request # "none" /\ ~tearing_down
    /\ request' = "none"
    /\ \/ /\ disk' = "luks" /\ luks_key' = request
          /\ configuring' = TRUE
          /\ announce' = PropertyChange
       \/ /\ "format_job" \in Fault
          /\ announce' \in {announce, {"CleartextDevice"}}
          /\ UNCHANGED <<disk, luks_key, configuring>>
    /\ UNCHANGED <<running, job_vars, result_vars, tearing_down, mounted, crypttab,
                   key_files, unit_conf>>

\* The "config-items" are written last.
UDisksConfigures ==
    /\ configuring
    /\ configuring' = FALSE
    /\ \/ crypttab' = TRUE
       \/ "config_items" \in Fault /\ UNCHANGED crypttab
    /\ UNCHANGED <<running, job_vars, result_vars, tearing_down, request, disk,
                   luks_key, mounted, key_files, unit_conf, announce>>

\* A change reaches the service.  The clear text device is announced before its
\* UUID unless the instance allows the other order.
PropertyAnnounced(property) ==
    /\ property \in announce
    /\ \/ property = "CleartextDevice"
       \/ "CleartextDevice" \notin announce
       \/ "uuid_first" \in Fault
    /\ announce' = announce \ {property}
    /\ \/ running /\ on_properties_changed(property, "value")
       \/ /\ ~(running /\ signal_handler)
          /\ UNCHANGED <<status, data, signal_handler, cleartext_device_path,
                         cleartext_device_uuid, result_vars, unit_conf>>
    /\ UNCHANGED <<running, pending, temporary, erase, initialized, udisks_vars,
                   disk, luks_key, mounted, crypttab, key_files>>

\* UDisks also reports properties that have become empty.
EmptyPropertyAnnounced(property) ==
    /\ running
    /\ on_properties_changed(property, "")
    /\ UNCHANGED <<running, pending, temporary, erase, initialized, udisks_vars,
                   disk, luks_key, mounted, crypttab, key_files, announce>>

-----------------------------------------------------------------------------

Callback ==
    \/ got_bus \/ got_client \/ check_device_list \/ found_block_device
    \/ can_format_to_type \/ tear_down_complete \/ erase_data
    \/ format_complete \/ rescan_complete

UDisksJob == UDisksTearsDown \/ UDisksFormats \/ UDisksConfigures

UDisks ==
    \/ UDisksJob
    \/ \E property \in PropertyChange : PropertyAnnounced(property)

EncryptNext ==
    \/ \E client \in Client, is_temporary \in BOOLEAN, e \in EraseType :
           BeginEncryption(client, is_temporary, e)
    \/ Callback
    \/ UDisks
    \/ \E property \in PropertyChange : EmptyPropertyAnnounced(property)

EncryptSpec == EncryptInit /\ [][EncryptNext]_encrypt_vars

\* Every call is answered (GDBus answers for a peer that does not), the main
\* loop runs a source that is ready, and UDisks does what it was asked to do.
EncryptFairness == WF_encrypt_vars(Callback) /\ WF_encrypt_vars(UDisks)

EncryptFairSpec == EncryptSpec /\ EncryptFairness

-----------------------------------------------------------------------------
(* Properties *)

\* No callback and no signal that is still to come will find the
\* invocation_data freed: end_encryption_to_failure and finish_if_ready free it
\* only where nothing but a rescan that ignores it is outstanding.
PendingWorkOwnsData ==
    \/ pending \notin {"none", "rescan"}
    \/ pending = "rescan" /\ status = "NEEDS_RESCAN"
    \/ signal_handler
    => data = "live"

\* A result that has been signalled is the last word: one signal per job, it
\* says what the status says, and nothing of the job goes on behind it
\* (encrypt.c announces every failure with "Aborting.").
ResultIsFinal ==
    sent # <<>> =>
        /\ Len(sent) = 1
        /\ status = IF sent[1].success THEN "FINISHED" ELSE "FAILED"
        /\ data = "freed"
        /\ pending \in {"none", "rescan"}

\* The client that began is the one that is told, and nobody can take its
\* place (dbus.c method_call_handler and signal_encrypt_finished).
ResultToBeginner ==
    [][ /\ receiver' \notin {receiver, NoClient} => status = "NOT_STARTED"
        /\ sent' # sent => receiver # NoClient /\ sent'[Len(sent')].to = receiver
      ]_encrypt_vars

\* Success is only claimed when there is an encrypted device, all drop-ins that make
\* the next boot wait for it, and the key marker of the passphrase that opens it,
\* although none of the calls told the service so.  Only the crypttab and fstab
\* entries may be missing (UDisksConfigures).
FinishedIsEncrypted ==
    status = "FINISHED" =>
        /\ disk = "luks"
        /\ unit_conf = AllUnitConfs
        /\ "key_file" \notin Fault => luks_key \in key_files

\* Boot is never made to wait for an encrypted device that does not exist,
\* whatever failed and in whichever order.
UnitConfOnlyForLuks ==
    unit_conf # {} => disk = "luks" /\ cleartext_device_uuid

\* The abstract state of the service: anything between a start and a result is
\* "working".
LifecycleState ==
    CASE status = "NOT_STARTED" -> "idle"
      [] status = "FINISHED"    -> "done"
      [] status = "FAILED"      -> "failed"
      [] OTHER                  -> "working"

Lifecycle == INSTANCE EncryptionLifecycle
                 WITH state <- LifecycleState, owner <- receiver, results <- sent

\* The job implements what its clients are promised.
PromiseKept == Lifecycle!LifecycleSafety

\* A device the service has learnt the UUID of is encrypted, and the client is told so
\* or told of a failure, whether the answer, the rescan or the UUID comes last
\* (encrypt.c finish_if_ready).
KnownDeviceIsTold == cleartext_device_uuid ~> status \in {"FINISHED", "FAILED"}
=============================================================================
