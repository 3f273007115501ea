------------------------ MODULE EncryptionClientsProofs ------------------------
(***************************************************************************)
(* Theorems about the encryption service and its clients for every set of  *)
(* faults, any number of starts and a kill at any time, and their proofs.  *)
(***************************************************************************)
EXTENDS EncryptionClients, TLAPS

Job == INSTANCE EncryptProofs

\* Every step of the service, whoever calls it and however it ends.
ServiceNext == Next \/ Crash \/ Activate

USE ClientAssumption, FaultAssumption
USE DEF encrypt_only, manage_only, main_vars, vars

-----------------------------------------------------------------------------
(* The encryption job is the one of EncryptProofs *)

LEMMA SameGivesUp == E!GivesUp <=> Job!GivesUp
BY DEF E!GivesUp, Job!GivesUp, E!end_encryption_to_failure,
       Job!end_encryption_to_failure, E!set_status, Job!set_status, E!release_data,
       Job!release_data, E!signal_encrypt_finished, Job!signal_encrypt_finished,
       E!result_vars, Job!result_vars, E!disk_vars, Job!disk_vars, E!udisks_vars,
       Job!udisks_vars

LEMMA SameCallback == E!Callback <=> Job!Callback
<1> USE DEF E!result_vars, Job!result_vars, E!disk_vars, Job!disk_vars,
            E!udisks_vars, Job!udisks_vars, E!Returns, Job!Returns, E!Continue,
            Job!Continue, E!Aborts, Job!Aborts
<1>1. E!got_bus <=> Job!got_bus
  BY SameGivesUp DEF E!got_bus, Job!got_bus
<1>2. E!got_client <=> Job!got_client
  BY SameGivesUp DEF E!got_client, Job!got_client
<1>3. E!check_device_list <=> Job!check_device_list
  BY SameGivesUp DEF E!check_device_list, Job!check_device_list
<1>4. E!found_block_device <=> Job!found_block_device
  BY SameGivesUp DEF E!found_block_device, Job!found_block_device
<1>5. E!can_format_to_type <=> Job!can_format_to_type
  BY SameGivesUp
  DEF E!can_format_to_type, Job!can_format_to_type, E!UnmountAndStart,
      Job!UnmountAndStart, E!start_erasure_with_random,
      Job!start_erasure_with_random, E!start_format_luks, Job!start_format_luks,
      E!FilesystemProxyFails, Job!FilesystemProxyFails, E!signal_encrypt_finished,
      Job!signal_encrypt_finished, E!release_data, Job!release_data
<1>6. E!tear_down_complete <=> Job!tear_down_complete
  BY DEF E!tear_down_complete, Job!tear_down_complete, E!Accepts, Job!Accepts,
         E!Refuses, Job!Refuses, E!end_encryption_to_failure,
         Job!end_encryption_to_failure, E!set_status, Job!set_status,
         E!release_data, Job!release_data, E!signal_encrypt_finished,
         Job!signal_encrypt_finished
<1>7. E!erase_data <=> Job!erase_data
  BY DEF E!erase_data, Job!erase_data, E!EraseBlock, Job!EraseBlock, E!ErasureEnds,
         Job!ErasureEnds, E!NoRandomKey, Job!NoRandomKey, E!DeviceNotOpened,
         Job!DeviceNotOpened, E!start_format_luks, Job!start_format_luks
<1>8. E!format_complete <=> Job!format_complete
  BY DEF E!format_complete, Job!format_complete, E!Accepts, Job!Accepts, E!Refuses,
         Job!Refuses, E!create_key_file, Job!create_key_file,
         E!end_encryption_to_failure,
         Job!end_encryption_to_failure, E!set_status, Job!set_status,
         E!release_data, Job!release_data, E!signal_encrypt_finished,
         Job!signal_encrypt_finished
<1>9. E!rescan_complete <=> Job!rescan_complete
  BY DEF E!rescan_complete, Job!rescan_complete, E!finish_if_ready,
         Job!finish_if_ready, E!write_systemd_configuration,
         Job!write_systemd_configuration, E!AllUnitConfs, Job!AllUnitConfs,
         E!UnitConfs, Job!UnitConfs, E!set_status, Job!set_status,
         E!release_data, Job!release_data, E!signal_encrypt_finished,
         Job!signal_encrypt_finished
<1> QED
  BY <1>1, <1>2, <1>3, <1>4, <1>5, <1>6, <1>7, <1>8, <1>9
  DEF E!Callback, Job!Callback

LEMMA SameBegin ==
    ASSUME NEW client, NEW is_temporary, NEW e
    PROVE  E!BeginEncryption(client, is_temporary, e)
              <=> Job!BeginEncryption(client, is_temporary, e)
BY DEF E!BeginEncryption, Job!BeginEncryption, E!start_to_encrypt,
       Job!start_to_encrypt, E!encrypt_vars, Job!encrypt_vars, E!job_vars,
       Job!job_vars, E!result_vars, Job!result_vars, E!disk_vars, Job!disk_vars,
       E!udisks_vars, Job!udisks_vars

LEMMA SameDevice == E!UDisksJob <=> Job!UDisksJob
<1> USE DEF E!job_vars, Job!job_vars, E!result_vars, Job!result_vars
<1>1. E!UDisksTearsDown <=> Job!UDisksTearsDown
  BY DEF E!UDisksTearsDown, Job!UDisksTearsDown
<1>2. E!UDisksFormats <=> Job!UDisksFormats
  BY DEF E!UDisksFormats, Job!UDisksFormats, E!PropertyChange, Job!PropertyChange
<1>3. E!UDisksConfigures <=> Job!UDisksConfigures
  BY DEF E!UDisksConfigures, Job!UDisksConfigures
<1> QED
  BY <1>1, <1>2, <1>3 DEF E!UDisksJob, Job!UDisksJob

LEMMA SameAnnounced ==
    ASSUME NEW property
    PROVE  E!PropertyAnnounced(property) <=> Job!PropertyAnnounced(property)
BY DEF E!PropertyAnnounced, Job!PropertyAnnounced, E!on_properties_changed,
       Job!on_properties_changed, E!CleartextDeviceChanged,
       Job!CleartextDeviceChanged, E!IdUUIDChanged, Job!IdUUIDChanged,
       E!finish_if_ready, Job!finish_if_ready, E!write_systemd_configuration,
       Job!write_systemd_configuration, E!AllUnitConfs, Job!AllUnitConfs,
       E!UnitConfs, Job!UnitConfs, E!set_status, Job!set_status,
       E!release_data, Job!release_data, E!signal_encrypt_finished,
       Job!signal_encrypt_finished, E!result_vars, Job!result_vars, E!udisks_vars,
       Job!udisks_vars

LEMMA SameTypes ==
    /\ E!EncryptTypeOK <=> Job!EncryptTypeOK
    /\ E!FaultKind = Job!FaultKind
    /\ E!PropertyChange = Job!PropertyChange
    /\ E!EraseType = Job!EraseType
<1>1. /\ E!FaultKind = Job!FaultKind
      /\ E!PropertyChange = Job!PropertyChange
      /\ E!EraseType = Job!EraseType
  BY DEF E!FaultKind, Job!FaultKind, E!ToldFault, Job!ToldFault, E!UnseenFault,
         Job!UnseenFault, E!JobFault, Job!JobFault, E!PropertyChange,
         Job!PropertyChange, E!EraseType, Job!EraseType
<1>2. /\ E!Status = Job!Status /\ E!Call = Job!Call /\ E!Result = Job!Result
      /\ E!Passphrase = Job!Passphrase
  BY DEF E!Status, Job!Status, E!Call, Job!Call, E!Result, Job!Result, E!Passphrase,
         Job!Passphrase
<1>3. E!AllUnitConfs = Job!AllUnitConfs
  BY DEF E!AllUnitConfs, Job!AllUnitConfs
<1> QED
  BY <1>1, <1>2, <1>3 DEF E!EncryptTypeOK, Job!EncryptTypeOK

-----------------------------------------------------------------------------
(* What Manage does to the process and to the partition *)

LEMMA NextTaskRuns ==
    ASSUME M!handle_next_unit_task PROVE running' \in {running, FALSE}
BY DEF M!handle_next_unit_task, M!StartTask, M!PreparationDone, M!RestartDone,
       M!GivesUp

LEMMA TerminateRuns ==
    ASSUME M!terminate_user PROVE running' \in {running, FALSE}
BY DEF M!terminate_user, M!GivesUp

\* The callbacks of Manage may end the process and never touch the partition.
LEMMA ManageCallbackRuns ==
    ASSUME M!ManageCallback
    PROVE  running' \in {running, FALSE} /\ mounted' = mounted
<1> USE DEF M!Continue, M!Aborts, M!GivesUp
<1>1. CASE M!got_bus /\ UNCHANGED mounted
  BY <1>1 DEF M!got_bus
<1>2. CASE M!got_systemd_manager /\ UNCHANGED mounted
  BY <1>2 DEF M!got_systemd_manager
<1>3. CASE M!got_login_manager /\ UNCHANGED mounted
  BY <1>3 DEF M!got_login_manager
<1>4. CASE M!got_subscription /\ UNCHANGED mounted
  BY <1>4 DEF M!got_subscription
<1>5. CASE M!got_usb_moded /\ UNCHANGED mounted
  BY <1>5, TerminateRuns DEF M!got_usb_moded
<1>6. CASE M!got_mode_request /\ UNCHANGED mounted
  BY <1>6, TerminateRuns DEF M!got_mode_request
<1>7. CASE M!got_set_mode /\ UNCHANGED mounted
  BY <1>7, TerminateRuns DEF M!got_set_mode
<1>8. CASE M!unit_changing_state
  BY <1>8, NextTaskRuns DEF M!unit_changing_state
<1>9. CASE M!on_signal_from_systemd
  BY <1>9, NextTaskRuns DEF M!on_signal_from_systemd
<1> QED
  BY <1>1, <1>2, <1>3, <1>4, <1>5, <1>6, <1>7, <1>8, <1>9 DEF M!ManageCallback

\* What goes on around the service mounts only what holds a file system.
LEMMA ManageHostRuns ==
    ASSUME M!ManageHost
    PROVE  /\ running' \in {running, FALSE}
           /\ \/ mounted' = mounted
              \/ mounted' = FALSE
              \/ mounted' = TRUE /\ disk # "wiped"
<1>1. CASE M!UserRemoved
  BY <1>1, NextTaskRuns DEF M!UserRemoved
<1>2. CASE M!UnitCallServed
  BY <1>2 DEF M!UnitCallServed, M!service_vars
<1>3. CASE M!SessionStarts
  BY <1>3 DEF M!SessionStarts, M!Mountable, M!service_vars
<1>4. CASE M!JobRuns
  <2>1. running' = running
    BY <1>4 DEF M!JobRuns, M!service_vars
  <2>2. \/ mounted' = mounted
        \/ mounted' = FALSE
        \/ mounted' = TRUE /\ disk # "wiped"
    BY <1>4
    DEF M!JobRuns, M!StartPreparation, M!PreparationScript, M!StopPreparation,
        M!FinishScript, M!StartHomeMount, M!StartDefaultTarget, M!JobFails,
        M!Mountable
  <2> QED
    BY <2>1, <2>2
<1> QED
  BY <1>1, <1>2, <1>3, <1>4 DEF M!ManageHost

-----------------------------------------------------------------------------
(* The security code *)

\* A job that has not begun uses no passphrase yet, and after PrepareToEncrypt
\* none but the security code.
ServiceInv ==
    /\ Job!StageInv
    /\ saved_passphrase \in BOOLEAN /\ erase_type \in E!EraseType
    /\ status = "NOT_STARTED" => ~temporary
    /\ saved_passphrase => ~temporary

LEMMA ServiceInit == Init => ServiceInv
<1> SUFFICES ASSUME Init PROVE ServiceInv
  OBVIOUS
<1>1. Job!EncryptInit
  <2>1. E!JobInit <=> Job!JobInit
    BY DEF E!JobInit, Job!JobInit
  <2>2. E!DiskInit <=> Job!DiskInit
    BY DEF E!DiskInit, Job!DiskInit
  <2> QED
    BY <2>1, <2>2 DEF Init, E!EncryptInit, Job!EncryptInit
<1>2. Job!EncryptTypeOK
  BY <1>1, Job!TypeInit, SameTypes
<1> QED
  BY <1>1, <1>2
  DEF Init, Job!EncryptInit, Job!JobInit, Job!DiskInit, ServiceInv, Job!StageInv,
      Job!StatusInv, Job!Preparing, E!EraseType

\* Steps that leave the job alone.
LEMMA StageKept ==
    ASSUME Job!StageInv, UNCHANGED encrypt_only,
           running' \in BOOLEAN, mounted' \in BOOLEAN
    PROVE  Job!StageInv'
BY DEF Job!StageInv, Job!StatusInv, Job!EncryptTypeOK

LEMMA Booleans ==
    ServiceInv => running \in BOOLEAN /\ mounted \in BOOLEAN /\ temporary \in BOOLEAN
BY DEF ServiceInv, Job!StageInv, Job!EncryptTypeOK

\* PrepareToEncrypt stores the security code only before a job has begun.
LEMMA PrepareStep ==
    ASSUME ServiceInv, NEW e \in E!EraseType, PrepareToEncrypt(e) PROVE ServiceInv'
<1>1. CASE /\ ~saved_passphrase /\ status = "NOT_STARTED"
           /\ saved_passphrase' = TRUE /\ erase_type' = e
           /\ UNCHANGED <<encrypt_only, mounted>> /\ running' \in {running, FALSE}
  <2>1. Job!StageInv'
    BY <1>1, Booleans, StageKept DEF ServiceInv
  <2> QED
    BY <1>1, <2>1 DEF ServiceInv
<1>2. CASE UNCHANGED vars
  <2>1. Job!StageInv'
    BY <1>2, Booleans, StageKept DEF ServiceInv
  <2> QED
    BY <1>2, <2>1 DEF ServiceInv
<1> QED
  BY <1>1, <1>2 DEF PrepareToEncrypt, M!prepare

LEMMA BeginStep ==
    ASSUME ServiceInv, NEW client \in Client, BeginEncryption(client)
    PROVE  ServiceInv'
<1>0. PICK is_temporary \in BOOLEAN : is_temporary = ~saved_passphrase
  BY DEF ServiceInv
<1>1. Job!BeginEncryption(client, is_temporary, erase_type)
  BY <1>0, SameBegin DEF BeginEncryption
<1>2. erase_type \in Job!EraseType
  BY SameTypes DEF ServiceInv
<1>3. UNCHANGED <<saved_passphrase, erase_type>>
  BY DEF BeginEncryption
<1>4. /\ Job!StageInv' /\ UNCHANGED <<mounted, disk>>
      /\ \/ /\ status' = "IN_PREPARATION" /\ temporary' = ~saved_passphrase
         \/ UNCHANGED <<status, temporary>>
  BY <1>0, <1>1, <1>2, Job!BeginStage, SameTypes DEF ServiceInv
<1>5. CASE status' = "IN_PREPARATION" /\ temporary' = ~saved_passphrase
  BY <1>3, <1>4, <1>5 DEF ServiceInv
<1>6. CASE UNCHANGED <<status, temporary>>
  BY <1>3, <1>4, <1>6 DEF ServiceInv
<1> QED
  BY <1>4, <1>5, <1>6

LEMMA JobCallbackStep == ASSUME ServiceInv, JobCallback PROVE ServiceInv'
<1>1. Job!StageInv' /\ Job!CallbackEffect
  BY Job!CallbackStage, SameCallback, SameTypes DEF JobCallback, ServiceInv
<1>2. UNCHANGED <<saved_passphrase, erase_type>>
  BY DEF JobCallback
<1> QED
  BY <1>1, <1>2 DEF ServiceInv, Job!CallbackEffect

LEMMA ManageStep ==
    ASSUME ServiceInv, UNCHANGED <<encrypt_only, main_vars>>,
           running' \in {running, FALSE}, mounted' \in {mounted, TRUE, FALSE}
    PROVE  ServiceInv'
<1>1. Job!StageInv'
  BY Booleans, StageKept DEF ServiceInv
<1> QED
  BY <1>1, Booleans DEF ServiceInv

\* Every step keeps the invariant of the service, also a kill and a new start.
LEMMA ServiceStepInv == ServiceInv /\ [ServiceNext]_vars => ServiceInv'
<1> SUFFICES ASSUME ServiceInv, [ServiceNext]_vars PROVE ServiceInv'
  OBVIOUS
<1>1. ASSUME NEW e \in E!EraseType, PrepareToEncrypt(e) PROVE ServiceInv'
  BY <1>1, PrepareStep
<1>2. ASSUME NEW client \in Client, BeginEncryption(client) PROVE ServiceInv'
  BY <1>2, BeginStep
<1>3. CASE FinalizeEncryption
  <2>1. UNCHANGED <<encrypt_only, mounted, main_vars>> /\ running' \in {running, FALSE}
    BY <1>3, TerminateRuns DEF FinalizeEncryption, M!finalize
  <2> QED
    BY <2>1, ManageStep
<1>4. CASE JobCallback
  BY <1>4, JobCallbackStep
<1>5. CASE DeviceFormatted
  <2>1. UNCHANGED <<saved_passphrase, erase_type>>
    BY <1>5 DEF DeviceFormatted
  <2> QED
    BY <1>5, <2>1, Job!DeviceStage, SameDevice, SameTypes
    DEF DeviceFormatted, ServiceInv
<1>6. CASE PropertyAnnounced
  <2>1. PICK property \in Job!PropertyChange : Job!PropertyAnnounced(property)
    BY <1>6, SameAnnounced, SameTypes DEF PropertyAnnounced
  <2>2. UNCHANGED <<saved_passphrase, erase_type>>
    BY <1>6 DEF PropertyAnnounced
  <2> QED
    BY <2>1, <2>2, Job!AnnouncedStage, SameTypes DEF ServiceInv, Job!Over
<1>7. CASE ManageCallback
  BY <1>7, ManageCallbackRuns, ManageStep DEF ManageCallback
<1>8. CASE ManageHost
  BY <1>8, ManageHostRuns, ManageStep DEF ManageHost
<1>9. CASE QuitIfIdle \/ Crash
  <2>1. running' \in BOOLEAN /\ UNCHANGED <<mounted, encrypt_only>>
        /\ UNCHANGED <<saved_passphrase, erase_type>>
    BY <1>9, Booleans DEF QuitIfIdle, Crash
  <2>2. Job!StageInv'
    BY <2>1, Booleans, StageKept DEF ServiceInv
  <2> QED
    BY <2>1, <2>2 DEF ServiceInv
<1>10. CASE Activate
  <2>1. Job!EncryptTypeOK'
    <3>1. <<>> \in Seq(Job!Result)
      OBVIOUS
    <3> QED
      BY <1>10, <3>1
      DEF Activate, E!JobReset, E!disk_vars, E!udisks_vars, ServiceInv, Job!StageInv,
          Job!EncryptTypeOK, Job!Status, Job!Call, Job!EraseType
  <2> QED
    BY <1>10, <2>1
    DEF Activate, E!JobReset, E!disk_vars, ServiceInv, Job!StageInv, Job!StatusInv,
        Job!Preparing, E!EraseType
<1>11. CASE UNCHANGED vars
  <2>1. Job!StageInv'
    BY <1>11, Booleans, StageKept DEF ServiceInv
  <2> QED
    BY <1>11, <2>1 DEF ServiceInv
<1> QED
  BY <1>1, <1>2, <1>3, <1>4, <1>5, <1>6, <1>7, <1>8, <1>9, <1>10, <1>11
  DEF ServiceNext, Next, ClientCall, ServiceStep

\* The clients this repository ships are some of the clients there may be.
LEMMA ClientsAreService == [ClientNext]_client_vars => [ServiceNext]_vars
<1> SUFFICES ASSUME [ClientNext]_client_vars PROVE [ServiceNext]_vars
  OBVIOUS
<1>1. CASE SettingsPrepare
  <2>1. "zero" \in E!EraseType
    BY DEF E!EraseType
  <2> QED
    BY <1>1, <2>1 DEF SettingsPrepare, ServiceNext, Next, ClientCall
<1>2. CASE UiEncrypt
  BY <1>2, UiAssumption DEF UiEncrypt, UiAssumption, ServiceNext, Next, ClientCall
<1>3. CASE UiFinalize
  BY <1>3 DEF UiFinalize, ServiceNext, Next, ClientCall
<1>4. CASE UiEncryptionFinished \/ UNCHANGED client_vars
  BY <1>4 DEF UiEncryptionFinished, client_vars
<1>5. CASE ServiceStep \/ QuitIfIdle \/ Crash \/ Activate
  BY <1>5 DEF ServiceNext, Next
<1> QED
  BY <1>1, <1>2, <1>3, <1>4, <1>5 DEF ClientNext

LEMMA ServiceCorrect == Spec => []ServiceInv
<1>1. [Next]_vars => [ServiceNext]_vars
  BY DEF ServiceNext
<1> QED
  BY <1>1, ServiceInit, ServiceStepInv, PTL DEF Spec

\* Whoever calls the methods of the service in whichever order, a device whose
\* owner chose a security code is encrypted with it (main.c call_prepare and
\* call_encrypt), never with TEMPORARY_PASSPHRASE.
THEOREM SecurityCodeAlwaysUsed == Spec => []SecurityCodeIsUsed
<1>1. ServiceInv => SecurityCodeIsUsed
  BY DEF ServiceInv, SecurityCodeIsUsed
<1> QED
  BY <1>1, ServiceCorrect, PTL

-----------------------------------------------------------------------------
(* The invariant of the service, the host and the user interface *)

Settled == {"NOT_STARTED", "FINISHED", "FAILED"}

Restarts == {"finalization", "restoration"}

InFlight == {"reply", "JobRemoved"}

StartPreparationTask == M!Task("START_UNIT", "home-encryption-preparation.service")
StopPreparationTask == M!Task("STOP_UNIT", "home-encryption-preparation.service")
StartMountTask == M!Task("START_UNIT", "home.mount")
StartDefaultTask == M!Task("START_UNIT", "default.target")

\* What the service has asked systemd for last.
Called == M!TaskList[tasks][task - 1]

\* The service waits for systemd, or systemd is busy for a service that is gone.
Engaged ==
    \/ running /\ awaiting \in InFlight
    \/ unit_call # M!NoTask \/ job # M!NoTask

\* What systemd is busy with is what the service asked for last, and what the
\* service waits for is on its way.
CallInv ==
    /\ awaiting # "none" => tasks # "NULL"
    /\ awaiting \in InFlight => task > 1
    /\ \A t \in {unit_call, job} :
           t # M!NoTask => tasks # "NULL" /\ task > 1 /\ t = Called
    /\ unit_call = M!NoTask \/ job = M!NoTask
    /\ job_result = "done" \/ answer = "job" =>
           tasks # "NULL" /\ task > 1 /\ Called.action \in {"START_UNIT", "STOP_UNIT"}

\* A service that runs.
ReplyInv ==
    running =>
        /\ awaiting \notin InFlight =>
              /\ unit_call = M!NoTask /\ job = M!NoTask /\ job_result = "none"
              /\ task = 1
        /\ unit_call # M!NoTask => awaiting = "reply" /\ answer = "none"
        /\ unit_call # M!NoTask \/ job # M!NoTask => job_result = "none"
        /\ job # M!NoTask => answer = "job" \/ awaiting = "JobRemoved"
        /\ answer # "none" => awaiting = "reply"
        /\ answer = "ok" => Called.action \notin {"START_UNIT", "STOP_UNIT"}
        /\ job_result # "none" => answer = "job" \/ awaiting = "JobRemoved"
        /\ connected => private_data # "NULL"
        /\ private_data = "NULL" => tasks = "NULL"

\* The users are where passwd says, and nothing takes the partition from them.
PlacesInv ==
    /\ preparation = (user_home = "/tmp/home")
    /\ ~preparation => mounted
    /\ disk = "wiped" => ~mounted
    /\ running /\ pending \notin {"none", "rescan"} => preparation
    /\ ui \in {"started", "encrypting", "finalizing"} => preparation /\ session

\* These clients never have the device erased block by block.
EraseInv == Job!NoErasure /\ erase_type # "random"

\* There are home directories where the users are.
KindsInv ==
    /\ preparation => tmp_home # "none"
    /\ ~preparation => home_dirs # "none"
    /\ disk = "wiped" => home_dirs = "none"

\* While the service or systemd is at work on a list nobody is logged in until
\* default.target, and home.mount is up before the users are moved back.
OrderInv ==
    Engaged =>
        /\ Called # StartDefaultTask => ~session
        /\ Called = StopPreparationTask => mounted
        /\ Called = StartMountTask /\ job_result = "done" => mounted

\* A restart comes behind the encryption.
RestartInv ==
    /\ tasks \in Restarts => status \in Settled
    /\ running /\ tasks \in Restarts => ui = "quit"

-----------------------------------------------------------------------------
(* The task lists of Manage *)

LEMMA ListNames == DOMAIN M!TaskList = {"finalization", "preparation", "restoration"}
BY DEF M!TaskList

LEMMA TaskParts ==
    /\ M!NoTask.action = "NONE"
    /\ StartPreparationTask.action = "START_UNIT"
    /\ StartPreparationTask.unit = "home-encryption-preparation.service"
    /\ StopPreparationTask.action = "STOP_UNIT"
    /\ StartMountTask.action = "START_UNIT" /\ StartMountTask.unit = "home.mount"
    /\ StartDefaultTask.action = "START_UNIT"
    /\ StartDefaultTask.unit = "default.target"
BY DEF M!Task, M!NoTask, StartPreparationTask, StopPreparationTask,
       StartMountTask, StartDefaultTask

\* Where in the lists the tasks are that the proofs speak of.
LEMMA TaskFacts ==
    ASSUME NEW l \in DOMAIN M!TaskList, NEW i \in 1 .. 7
    PROVE  /\ M!TaskList[l][i] \in M!Tasks /\ M!TaskList[l][i] # M!NoTask
           /\ M!TaskList[l][i].action = "END_OF_MANAGE_TASKS" <=> i = 7
           /\ M!TaskList[l][i].action \in {"CREATE_MARKER", "REMOVE_MARKER"}
                 => i \in {2, 3}
           /\ M!TaskList[l][i] = StartPreparationTask => l = "preparation" /\ i = 3
           /\ M!TaskList[l][i] = StartMountTask => l \in Restarts /\ i = 4
           /\ l \in Restarts /\ i = 4 => M!TaskList[l][i] = StartMountTask
           /\ M!TaskList[l][i] = StopPreparationTask => l \in Restarts /\ i = 5
           /\ M!TaskList[l][i] = StartDefaultTask <=> i = 6
<1>1. CASE l = "finalization"
  <2>1. M!TaskList[l] = M!finalization_tasks
    BY <1>1 DEF M!TaskList
  <2>2. DOMAIN M!finalization_tasks = 1 .. 7
    BY DEF M!finalization_tasks
  <2>3. M!TaskList[l][i] \in M!Tasks
    BY <2>1, <2>2 DEF M!Tasks
  <2>4. /\ M!finalization_tasks[1].action = "UNMASK_UNIT"
        /\ M!finalization_tasks[2].action = "RELOAD_UNITS"
        /\ M!finalization_tasks[3].action = "ENABLE_UNIT"
        /\ M!finalization_tasks[4] = StartMountTask
        /\ M!finalization_tasks[5] = StopPreparationTask
        /\ M!finalization_tasks[6] = StartDefaultTask
        /\ M!finalization_tasks[7].action = "END_OF_MANAGE_TASKS"
    BY DEF M!finalization_tasks, M!Task, StartPreparationTask, StopPreparationTask,
           StartMountTask, StartDefaultTask
  <2>5. i = 1 \/ i = 2 \/ i = 3 \/ i = 4 \/ i = 5 \/ i = 6 \/ i = 7
    OBVIOUS
  <2> QED
    BY <1>1, <2>1, <2>3, <2>4, <2>5, TaskParts DEF Restarts
<1>2. CASE l = "preparation"
  <2>1. M!TaskList[l] = M!preparation_tasks
    BY <1>2 DEF M!TaskList
  <2>2. DOMAIN M!preparation_tasks = 1 .. 7
    BY DEF M!preparation_tasks
  <2>3. M!TaskList[l][i] \in M!Tasks
    BY <2>1, <2>2 DEF M!Tasks
  <2>4. /\ M!preparation_tasks[1].action = "RELOAD_UNITS"
        /\ M!preparation_tasks[2].action = "CREATE_MARKER"
        /\ M!preparation_tasks[3] = StartPreparationTask
        /\ M!preparation_tasks[4].action = "MASK_UNIT"
        /\ M!preparation_tasks[5].action = "RELOAD_UNITS"
        /\ M!preparation_tasks[6] = StartDefaultTask
        /\ M!preparation_tasks[7].action = "END_OF_MANAGE_TASKS"
    BY DEF M!preparation_tasks, M!Task, StartPreparationTask, StopPreparationTask,
           StartMountTask, StartDefaultTask
  <2>5. i = 1 \/ i = 2 \/ i = 3 \/ i = 4 \/ i = 5 \/ i = 6 \/ i = 7
    OBVIOUS
  <2> QED
    BY <1>2, <2>1, <2>3, <2>4, <2>5, TaskParts DEF Restarts
<1>3. CASE l = "restoration"
  <2>1. M!TaskList[l] = M!restoration_tasks
    BY <1>3 DEF M!TaskList
  <2>2. DOMAIN M!restoration_tasks = 1 .. 7
    BY DEF M!restoration_tasks
  <2>3. M!TaskList[l][i] \in M!Tasks
    BY <2>1, <2>2 DEF M!Tasks
  <2>4. /\ M!restoration_tasks[1].action = "UNMASK_UNIT"
        /\ M!restoration_tasks[2].action = "RELOAD_UNITS"
        /\ M!restoration_tasks[3].action = "REMOVE_MARKER"
        /\ M!restoration_tasks[4] = StartMountTask
        /\ M!restoration_tasks[5] = StopPreparationTask
        /\ M!restoration_tasks[6] = StartDefaultTask
        /\ M!restoration_tasks[7].action = "END_OF_MANAGE_TASKS"
    BY DEF M!restoration_tasks, M!Task, StartPreparationTask, StopPreparationTask,
           StartMountTask, StartDefaultTask
  <2>5. i = 1 \/ i = 2 \/ i = 3 \/ i = 4 \/ i = 5 \/ i = 6 \/ i = 7
    OBVIOUS
  <2> QED
    BY <1>3, <2>1, <2>3, <2>4, <2>5, TaskParts DEF Restarts
<1> QED
  BY <1>1, <1>2, <1>3, ListNames

\* handle_next_unit_task calls systemd for the next task that is not done by the
\* service itself, and at the end of the list it returns to waiting for a client
\* or ends the process.
NextCalls ==
    /\ task' \in 2 .. 7 /\ task' \in {task + 1, task + 2}
    /\ task' = task + 2 <=>
          M!TaskList[tasks][task].action \in {"CREATE_MARKER", "REMOVE_MARKER"}
    /\ tasks' = tasks /\ unit_call' = Called'
    /\ awaiting' = "reply"
    /\ UNCHANGED <<running, private_data, usb_mode>>

NextPrepared ==
    /\ tasks = "preparation" /\ task = 7
    /\ tasks' = "NULL" /\ task' = 1
    /\ awaiting' = "none"
    /\ UNCHANGED <<running, private_data, unit_call, usb_mode>>

NextRestarted ==
    /\ tasks \in Restarts /\ task = 7
    /\ running' = FALSE /\ private_data' = "freed" /\ awaiting' = "none"
    /\ usb_mode' \in {usb_mode, orig_usb_mode} \ {"NULL"}
    /\ UNCHANGED <<tasks, task, unit_call>>

LEMMA NextTask ==
    ASSUME M!ManageTypeOK, tasks # "NULL", M!handle_next_unit_task
    PROVE  /\ NextCalls \/ NextPrepared \/ NextRestarted
           /\ marker' \in BOOLEAN
           /\ M!TaskList[tasks][task].action \notin {"CREATE_MARKER", "REMOVE_MARKER"}
                 => marker' = marker
<1>1. tasks \in DOMAIN M!TaskList /\ task \in 1 .. 7 /\ marker \in BOOLEAN
      /\ usb_mode \in M!UsbMode
  BY DEF M!ManageTypeOK
<1>2. ASSUME NEW i \in 1 .. 7, i \in {task, task + 1}, M!StartTask(i),
             i = task + 1 <=>
               M!TaskList[tasks][task].action \in {"CREATE_MARKER", "REMOVE_MARKER"}
      PROVE  NextCalls \/ NextPrepared \/ NextRestarted
  <2>1. CASE M!TaskList[tasks][i].action # "END_OF_MANAGE_TASKS"
    <3>1. i # 7
      BY <1>1, <2>1, TaskFacts
    <3>2. /\ unit_call' = M!TaskList[tasks][i] /\ awaiting' = "reply"
          /\ task' = i + 1 /\ tasks' = tasks
          /\ UNCHANGED <<running, private_data, usb_mode>>
      BY <1>2, <2>1 DEF M!StartTask
    <3>3. task' - 1 = i
      BY <3>2
    <3>4. unit_call' = Called'
      BY <3>2, <3>3 DEF Called
    <3> QED
      BY <1>1, <1>2, <3>1, <3>2, <3>4 DEF NextCalls
  <2>2. CASE M!TaskList[tasks][i].action = "END_OF_MANAGE_TASKS"
    <3>1. i = 7
      BY <1>1, <2>2, TaskFacts
    <3>2. task = 7
      BY <1>1, <1>2, <3>1, TaskFacts
    <3>3. CASE M!PreparationDone
      BY <3>2, <3>3 DEF M!PreparationDone, NextPrepared
    <3>4. CASE M!RestartDone
      BY <1>1, <3>2, <3>4, ListNames
      DEF M!RestartDone, M!GivesUp, NextRestarted, Restarts, M!UsbMode
    <3> QED
      BY <1>2, <2>2, <3>3, <3>4 DEF M!StartTask
  <2> QED
    BY <2>1, <2>2
<1>3. CASE /\ M!TaskList[tasks][task].action \in {"CREATE_MARKER", "REMOVE_MARKER"}
           /\ M!MarkerTask(M!TaskList[tasks][task])
           /\ M!StartTask(task + 1)
  <2>1. task + 1 \in 1 .. 7
    BY <1>1, <1>3, TaskFacts
  <2>2. marker' \in BOOLEAN
    BY <1>1, <1>3 DEF M!MarkerTask
  <2> QED
    BY <1>2, <1>3, <2>1, <2>2
<1>4. CASE /\ M!TaskList[tasks][task].action \notin {"CREATE_MARKER", "REMOVE_MARKER"}
           /\ UNCHANGED marker /\ M!StartTask(task)
  BY <1>1, <1>2, <1>4
<1> QED
  BY <1>3, <1>4 DEF M!handle_next_unit_task

\* The chain that connects the service to systemd, logind and usb_moded.
Connects ==
    \/ M!got_bus \/ M!got_systemd_manager \/ M!got_login_manager
    \/ M!got_subscription \/ M!got_usb_moded \/ M!got_mode_request
    \/ M!got_set_mode

Connecting == M!Awaited \ (InFlight \cup {"none"})

\* It ends with the wait for the end of the session, or with the process.
LEMMA TerminateEffect ==
    ASSUME M!ManageTypeOK, M!terminate_user
    PROVE  /\ \/ /\ awaiting' \in Connecting
                 /\ UNCHANGED <<running, private_data>>
              \/ running' = FALSE /\ private_data' = "freed" /\ awaiting' = "none"
           /\ terminating' \in BOOLEAN
<1>1. "UserRemoved" \in Connecting
  BY DEF Connecting, M!Awaited, InFlight
<1> QED
  BY <1>1 DEF M!terminate_user, M!GivesUp, M!ManageTypeOK

ConnectEffect ==
    /\ running /\ awaiting \in Connecting
    /\ UNCHANGED <<tasks, task, M!systemd_vars, session, M!unit_vars, M!file_vars>>
    /\ \/ /\ awaiting' \in Connecting
          /\ UNCHANGED <<running, private_data>>
       \/ running' = FALSE /\ private_data' = "freed" /\ awaiting' = "none"
    /\ connected' \in BOOLEAN /\ terminating' \in BOOLEAN
    /\ orig_usb_mode' \in M!UsbMode \cup {"NULL"} /\ usb_mode' \in M!UsbMode

LEMMA ConnectStep == ASSUME M!ManageTypeOK, Connects PROVE ConnectEffect
<1> USE DEF M!Returns, M!Unconnected, M!Continue, M!Aborts, M!GivesUp
<1>1. {"bus", "systemd", "login", "subscribe", "usb_moded", "mode_get", "mode_set"}
         \subseteq Connecting
  BY DEF Connecting, M!Awaited, InFlight
<1>2. /\ connected \in BOOLEAN /\ terminating \in BOOLEAN
      /\ orig_usb_mode \in M!UsbMode \cup {"NULL"} /\ usb_mode \in M!UsbMode
  BY DEF M!ManageTypeOK
<1>3. CASE M!got_bus
  BY <1>1, <1>2, <1>3 DEF M!got_bus, ConnectEffect
<1>4. CASE M!got_systemd_manager
  BY <1>1, <1>2, <1>4 DEF M!got_systemd_manager, ConnectEffect
<1>5. CASE M!got_login_manager
  BY <1>1, <1>2, <1>5 DEF M!got_login_manager, ConnectEffect
<1>6. CASE M!got_subscription
  BY <1>1, <1>2, <1>6 DEF M!got_subscription, ConnectEffect
<1>7. CASE M!got_usb_moded
  BY <1>1, <1>2, <1>7, TerminateEffect DEF M!got_usb_moded, ConnectEffect
<1>8. CASE M!got_mode_request
  BY <1>1, <1>2, <1>8, TerminateEffect DEF M!got_mode_request, ConnectEffect
<1>9. CASE M!got_set_mode
  BY <1>1, <1>2, <1>9, TerminateEffect DEF M!got_set_mode, ConnectEffect, M!UsbMode
<1> QED
  BY <1>3, <1>4, <1>5, <1>6, <1>7, <1>8, <1>9 DEF Connects

-----------------------------------------------------------------------------
(* The calls and their answers *)

HostInv == ServiceInv /\ M!ManageTypeOK /\ CallInv /\ ReplyInv

LEMMA HostInit == Init => HostInv
<1> SUFFICES ASSUME Init PROVE HostInv
  OBVIOUS
<1>1. M!ManageTypeOK
  <2>1. "NULL" \in DOMAIN M!TaskList \cup {"NULL"} /\ 1 \in 1 .. 7
        /\ M!NoTask \in M!Tasks \cup {M!NoTask}
    OBVIOUS
  <2>2. usb_mode \in M!UsbMode /\ preparation \in BOOLEAN
    BY UsbModeAssumption DEF UsbModeAssumption, Init, M!ManageInit, M!HostInit
  <2>3. "none" \in M!Awaited /\ masked \in BOOLEAN /\ loaded_mask \in BOOLEAN
    BY <2>2 DEF Init, M!ManageInit, M!HostInit, M!Awaited
  <2>4. /\ user_home \in {"/home", "/tmp/home"} /\ tmp_home \in M!HomeKind
        /\ home_dirs \in M!HomeKind /\ marker \in BOOLEAN
    BY <2>2 DEF Init, M!ManageInit, M!HostInit, M!HomeKind
  <2> QED
    BY <2>1, <2>2, <2>3, <2>4
    DEF Init, M!ManageInit, M!ServiceInit, M!HostInit, M!ManageTypeOK
<1>2. CallInv /\ ReplyInv
  BY DEF Init, M!ManageInit, M!ServiceInit, M!HostInit, CallInv, ReplyInv, InFlight
<1> QED
  BY <1>1, <1>2, ServiceInit DEF HostInv

\* A callback that goes on to the next task.
LEMMA NextKeepsCalls ==
    ASSUME M!ManageTypeOK, CallInv, ReplyInv, running, tasks # "NULL",
           unit_call = M!NoTask, job = M!NoTask, M!handle_next_unit_task,
           answer' = "none", job_result' = "none",
           UNCHANGED <<connected, job>>
    PROVE  CallInv' /\ ReplyInv'
<1>1. CASE NextCalls
  BY <1>1 DEF NextCalls, CallInv, ReplyInv, InFlight
<1>2. CASE NextPrepared
  BY <1>2 DEF NextPrepared, CallInv, ReplyInv, InFlight
<1>3. CASE NextRestarted
  BY <1>3 DEF NextRestarted, CallInv, ReplyInv, InFlight
<1> QED
  BY <1>1, <1>2, <1>3, NextTask

LEMMA NextTyped ==
    ASSUME M!ManageTypeOK, tasks # "NULL", M!handle_next_unit_task
    PROVE  /\ running' \in BOOLEAN
           /\ private_data' \in {"NULL", "live", "freed"}
           /\ tasks' \in DOMAIN M!TaskList \cup {"NULL"}
           /\ task' \in 1 .. 7 /\ awaiting' \in M!Awaited
           /\ unit_call' \in M!Tasks \cup {M!NoTask}
           /\ usb_mode' \in M!UsbMode /\ marker' \in BOOLEAN
<1>1. CASE NextCalls
  <2>1. Called' \in M!Tasks
    BY <1>1, TaskFacts DEF NextCalls, Called, M!ManageTypeOK
  <2> QED
    BY <1>1, <2>1, NextTask DEF NextCalls, M!ManageTypeOK, M!Awaited
<1>2. CASE NextPrepared
  BY <1>2, NextTask DEF NextPrepared, M!ManageTypeOK, M!Awaited
<1>3. CASE NextRestarted
  BY <1>3, NextTask DEF NextRestarted, M!ManageTypeOK, M!Awaited
<1> QED
  BY <1>1, <1>2, <1>3, NextTask

\* The lists and the calls, and steps that leave them alone.
ListsTyped ==
    /\ tasks \in DOMAIN M!TaskList \cup {"NULL"} /\ task \in 1 .. 7
    /\ unit_call \in M!Tasks \cup {M!NoTask}
    /\ job \in M!Tasks \cup {M!NoTask}
    /\ orig_usb_mode \in M!UsbMode \cup {"NULL"}

LEMMA ListsKept ==
    ASSUME M!ManageTypeOK, UNCHANGED <<tasks, task, unit_call, job, orig_usb_mode>>
    PROVE  ListsTyped' /\ Called' = Called
BY DEF M!ManageTypeOK, Called, ListsTyped

\* The steps of the others: what is Manage's stays, or the process ends.
LEMMA CallsKept ==
    ASSUME M!ManageTypeOK, CallInv, ReplyInv, UNCHANGED manage_only,
           running' \in {running, FALSE}, home_dirs' \in M!HomeKind
    PROVE  M!ManageTypeOK' /\ CallInv' /\ ReplyInv'
<1>1. M!ManageTypeOK'
  <2>1. /\ tasks' \in DOMAIN M!TaskList \cup {"NULL"} /\ task' \in 1 .. 7
        /\ awaiting' \in M!Awaited
        /\ unit_call' \in M!Tasks \cup {M!NoTask} /\ job' \in M!Tasks \cup {M!NoTask}
    BY DEF M!ManageTypeOK
  <2>2. /\ orig_usb_mode' \in M!UsbMode \cup {"NULL"} /\ usb_mode' \in M!UsbMode
        /\ user_home' \in {"/home", "/tmp/home"} /\ running' \in BOOLEAN
    BY DEF M!ManageTypeOK
  <2> QED
    BY <2>1, <2>2 DEF M!ManageTypeOK
<1>2. Called' = Called
  BY DEF Called
<1>3. CallInv'
  BY <1>2 DEF CallInv
<1>4. ReplyInv'
  BY <1>2 DEF ReplyInv, M!ManageTypeOK
<1> QED
  BY <1>1, <1>3, <1>4

\* A service that is not at work on a list waits for nobody at all.
LEMMA NothingCalled ==
    ASSUME CallInv, tasks = "NULL"
    PROVE  /\ awaiting = "none" /\ unit_call = M!NoTask /\ job = M!NoTask
           /\ job_result # "done" /\ answer # "job"
BY DEF CallInv

LEMMA PrepareCalls ==
    ASSUME HostInv, NEW e \in E!EraseType, PrepareToEncrypt(e)
    PROVE  M!ManageTypeOK' /\ CallInv' /\ ReplyInv'
<1> USE DEF HostInv
<1>1. CASE private_data = "NULL" /\ M!prepare
  <2>1. tasks = "NULL" /\ ~connected /\ running
    BY <1>1 DEF ReplyInv, PrepareToEncrypt, M!ManageTypeOK
  <2>2. M!ManageTypeOK'
    BY <1>1, ListNames DEF M!prepare, M!ManageTypeOK, M!Awaited, M!systemd_vars,
       M!host_vars, M!unit_vars, M!file_vars
  <2>3. answer # "ok" /\ answer = "none"
    BY <2>1, NothingCalled DEF ReplyInv
  <2> QED
    BY <1>1, <2>1, <2>2, <2>3, NothingCalled
    DEF M!prepare, M!systemd_vars, CallInv, ReplyInv, InFlight
<1>2. CASE /\ UNCHANGED <<manage_only, home_dirs>>
           /\ running' \in {running, FALSE}
  BY <1>2, CallsKept DEF M!ManageTypeOK
<1> QED
  BY <1>1, <1>2 DEF PrepareToEncrypt

LEMMA FinalizeCalls ==
    ASSUME HostInv, FinalizeEncryption
    PROVE  M!ManageTypeOK' /\ CallInv' /\ ReplyInv'
<1> USE DEF HostInv
<1>1. ASSUME NEW restore \in BOOLEAN, ~M!FinalizeRefused, M!finalize(restore), running
      PROVE  M!ManageTypeOK' /\ CallInv' /\ ReplyInv'
  <2>1. tasks = "NULL" /\ tasks' \in Restarts
    BY <1>1 DEF ReplyInv, M!FinalizeRefused, M!finalize, Restarts
  <2>2. /\ \/ awaiting' \in Connecting
              /\ private_data' # "NULL"
              /\ running' = running
           \/ running' = FALSE /\ awaiting' = "none"
        /\ private_data' \in {"NULL", "live", "freed"}
        /\ terminating' \in BOOLEAN
    <3>1. "bus" \in Connecting
      BY DEF Connecting, M!Awaited, InFlight
    <3> QED
      BY <1>1, <3>1, TerminateEffect DEF M!finalize, ReplyInv, M!ManageTypeOK
  <2>3. M!ManageTypeOK'
    <3>1. awaiting' \in M!Awaited
      BY <2>2 DEF Connecting, M!Awaited
    <3>2. tasks' \in DOMAIN M!TaskList \cup {"NULL"}
      BY <2>1, ListNames DEF Restarts
    <3>3. running' \in BOOLEAN
      BY <1>1, <2>2
    <3> QED
      BY <1>1, <2>2, <3>1, <3>2, <3>3
      DEF M!finalize, M!ManageTypeOK, M!systemd_vars, M!unit_vars, M!file_vars
  <2>4. task = 1 /\ answer = "none" /\ job_result = "none" /\ awaiting' \notin InFlight
    BY <1>1, <2>1, <2>2, NothingCalled DEF ReplyInv, InFlight, Connecting
  <2> QED
    BY <1>1, <2>1, <2>2, <2>3, <2>4, NothingCalled
    DEF M!finalize, M!systemd_vars, CallInv, ReplyInv, Restarts, InFlight
<1>2. CASE UNCHANGED vars
  BY <1>2, CallsKept DEF M!ManageTypeOK
<1>3. (status = "FAILED" /\ saved_passphrase) \in BOOLEAN
  OBVIOUS
<1> QED
  BY <1>1, <1>2, <1>3 DEF FinalizeEncryption

LEMMA ConnectCalls ==
    ASSUME HostInv, Connects PROVE M!ManageTypeOK' /\ CallInv' /\ ReplyInv'
<1> USE DEF HostInv
<1>1. ConnectEffect
  BY ConnectStep
<1>2. tasks # "NULL" /\ awaiting \notin InFlight /\ awaiting # "none"
  BY <1>1 DEF ConnectEffect, Connecting, CallInv
<1>3. M!ManageTypeOK'
  <2>1. /\ tasks' \in DOMAIN M!TaskList \cup {"NULL"} /\ task' \in 1 .. 7
        /\ unit_call' \in M!Tasks \cup {M!NoTask} /\ job' \in M!Tasks \cup {M!NoTask}
    BY <1>1 DEF ConnectEffect, M!systemd_vars, M!ManageTypeOK
  <2>2. /\ awaiting' \in M!Awaited /\ running' \in BOOLEAN
        /\ private_data' \in {"NULL", "live", "freed"}
    BY <1>1 DEF ConnectEffect, Connecting, M!Awaited, M!ManageTypeOK
  <2> QED
    BY <1>1, <2>1, <2>2
    DEF ConnectEffect, M!ManageTypeOK, M!systemd_vars, M!unit_vars, M!file_vars
<1>4. /\ unit_call' = M!NoTask /\ job' = M!NoTask /\ job_result' = "none" /\ task' = 1
      /\ answer' = "none"
  BY <1>1, <1>2 DEF ConnectEffect, ReplyInv, InFlight, M!systemd_vars
<1>5. private_data' # "NULL" /\ awaiting' \notin InFlight /\ tasks' = tasks
  BY <1>1, <1>2 DEF ConnectEffect, ReplyInv, Connecting, InFlight
<1> QED
  BY <1>2, <1>3, <1>4, <1>5 DEF CallInv, ReplyInv

\* A reply of systemd, and the signal that a job is done.
LEMMA ReplyCalls ==
    ASSUME HostInv, M!unit_changing_state
    PROVE  M!ManageTypeOK' /\ CallInv' /\ ReplyInv'
<1> USE DEF HostInv
<1>1. /\ running /\ awaiting = "reply" /\ answer # "none" /\ tasks # "NULL" /\ task > 1
      /\ unit_call = M!NoTask /\ answer' = "none"
      /\ UNCHANGED <<connected, job, job_result>>
  BY DEF M!unit_changing_state, M!Returns, CallInv, ReplyInv, InFlight
<1>2. UNCHANGED <<orig_usb_mode, session, terminating, masked, loaded_mask,
                  actdead_enabled, preparation, user_home, tmp_home, home_dirs>>
  BY DEF M!unit_changing_state, M!unit_vars
<1>3. CASE answer = "ok" /\ M!handle_next_unit_task
  <2>1. job = M!NoTask /\ job_result = "none"
    BY <1>1, <1>3 DEF ReplyInv
  <2> QED
    BY <1>1, <1>2, <1>3, <2>1, NextKeepsCalls, NextTyped DEF M!ManageTypeOK
<1>4. CASE /\ answer = "error" /\ M!GivesUp
           /\ UNCHANGED <<tasks, task, unit_call, usb_mode, marker>>
  <2>1. Called' = Called
    BY <1>4 DEF Called
  <2>2. job = M!NoTask /\ job_result = "none"
    BY <1>1, <1>4 DEF ReplyInv
  <2>3. ~running' /\ awaiting' = "none" /\ private_data' = "freed"
    BY <1>4 DEF M!GivesUp
  <2>4. M!ManageTypeOK'
    <3>1. ListsTyped'
      BY <1>1, <1>2, <1>4, ListsKept
    <3>2. usb_mode' \in M!UsbMode /\ awaiting' \in M!Awaited
      BY <1>4, <2>3 DEF M!ManageTypeOK, M!Awaited
    <3>3. /\ running' \in BOOLEAN /\ private_data' \in {"NULL", "live", "freed"}
          /\ connected' \in BOOLEAN
      BY <1>1, <1>4 DEF M!GivesUp, M!ManageTypeOK
    <3>4. /\ answer' \in {"none", "ok", "job", "error"}
          /\ job_result' \in {"none", "done", "failed"}
      BY <1>1 DEF M!ManageTypeOK
    <3>5. /\ session' \in BOOLEAN /\ terminating' \in BOOLEAN
          /\ masked' \in BOOLEAN /\ loaded_mask' \in BOOLEAN
          /\ actdead_enabled' \in BOOLEAN /\ preparation' \in BOOLEAN
          /\ marker' \in BOOLEAN /\ user_home' \in {"/home", "/tmp/home"}
          /\ tmp_home' \in M!HomeKind /\ home_dirs' \in M!HomeKind
      BY <1>2, <1>4 DEF M!ManageTypeOK
    <3> QED
      BY <3>1, <3>2, <3>3, <3>4, <3>5 DEF M!ManageTypeOK, ListsTyped
  <2>5. CallInv' /\ ReplyInv'
    BY <1>1, <1>4, <2>1, <2>2, <2>3 DEF CallInv, ReplyInv, InFlight
  <2> QED
    BY <2>4, <2>5
<1>5. CASE /\ answer = "job" /\ awaiting' = "JobRemoved"
           /\ UNCHANGED <<running, private_data, tasks, task, unit_call, usb_mode,
                          marker>>
  <2>1. Called' = Called
    BY <1>5 DEF Called
  <2> QED
    BY <1>1, <1>2, <1>5, <2>1
    DEF M!ManageTypeOK, M!Awaited, CallInv, ReplyInv, InFlight
<1> QED
  BY <1>3, <1>4, <1>5 DEF M!unit_changing_state

LEMMA SignalCalls ==
    ASSUME HostInv, M!on_signal_from_systemd
    PROVE  M!ManageTypeOK' /\ CallInv' /\ ReplyInv'
<1> USE DEF HostInv
<1>1. /\ running /\ awaiting = "JobRemoved" /\ job_result # "none" /\ tasks # "NULL"
      /\ job_result' = "none" /\ task > 1
      /\ unit_call = M!NoTask /\ job = M!NoTask /\ answer = "none"
      /\ UNCHANGED <<connected, job, answer>>
  BY DEF M!on_signal_from_systemd, M!Returns, CallInv, ReplyInv, InFlight
<1>2. UNCHANGED <<orig_usb_mode, session, terminating, masked, loaded_mask,
                  actdead_enabled, preparation, user_home, tmp_home, home_dirs>>
  BY DEF M!on_signal_from_systemd, M!unit_vars
<1>3. CASE M!handle_next_unit_task
  BY <1>1, <1>2, <1>3, NextKeepsCalls, NextTyped DEF M!ManageTypeOK
<1>4. CASE UNCHANGED <<running, private_data, tasks, task, awaiting, unit_call,
                       usb_mode, marker>>
  <2>1. Called' = Called
    BY <1>4 DEF Called
  <2> QED
    BY <1>1, <1>2, <1>4, <2>1
    DEF M!ManageTypeOK, M!Awaited, CallInv, ReplyInv, InFlight
<1> QED
  BY <1>3, <1>4 DEF M!on_signal_from_systemd

\* The end of the session, which the service may be waiting for.
LEMMA RemovedCalls ==
    ASSUME HostInv, M!UserRemoved
    PROVE  M!ManageTypeOK' /\ CallInv' /\ ReplyInv'
<1> USE DEF HostInv
<1>1. /\ UNCHANGED <<connected, orig_usb_mode, answer, job, job_result, masked,
                     loaded_mask, actdead_enabled, preparation, user_home,
                     tmp_home, home_dirs>>
      /\ session' = FALSE /\ terminating' = FALSE
  BY DEF M!UserRemoved, M!unit_vars
<1>2. CASE M!Returns("UserRemoved") /\ M!handle_next_unit_task
  <2>1. /\ running /\ tasks # "NULL" /\ unit_call = M!NoTask /\ job = M!NoTask
        /\ job_result = "none" /\ answer = "none"
    BY <1>2 DEF M!Returns, CallInv, ReplyInv, InFlight
  <2>2. CallInv' /\ ReplyInv'
    BY <1>1, <1>2, <2>1, NextKeepsCalls
  <2>3. /\ running' \in BOOLEAN /\ private_data' \in {"NULL", "live", "freed"}
        /\ tasks' \in DOMAIN M!TaskList \cup {"NULL"} /\ task' \in 1 .. 7
        /\ awaiting' \in M!Awaited /\ unit_call' \in M!Tasks \cup {M!NoTask}
        /\ usb_mode' \in M!UsbMode /\ marker' \in BOOLEAN
    BY <1>2, <2>1, NextTyped
  <2>4. M!ManageTypeOK'
    <3>1. /\ connected' \in BOOLEAN /\ orig_usb_mode' \in M!UsbMode \cup {"NULL"}
          /\ job' \in M!Tasks \cup {M!NoTask}
          /\ answer' \in {"none", "ok", "job", "error"}
          /\ job_result' \in {"none", "done", "failed"}
      BY <1>1 DEF M!ManageTypeOK
    <3>2. /\ session' \in BOOLEAN /\ terminating' \in BOOLEAN
          /\ masked' \in BOOLEAN /\ loaded_mask' \in BOOLEAN
          /\ actdead_enabled' \in BOOLEAN /\ preparation' \in BOOLEAN
          /\ user_home' \in {"/home", "/tmp/home"}
          /\ tmp_home' \in M!HomeKind /\ home_dirs' \in M!HomeKind
      BY <1>1 DEF M!ManageTypeOK
    <3> QED
      BY <2>3, <3>1, <3>2 DEF M!ManageTypeOK
  <2> QED
    BY <2>2, <2>4
<1>3. CASE UNCHANGED <<running, private_data, tasks, task, awaiting, unit_call,
                       usb_mode, marker>>
  <2>1. Called' = Called
    BY <1>3 DEF Called
  <2>2. M!ManageTypeOK'
    <3>1. ListsTyped'
      BY <1>1, <1>3, ListsKept
    <3>2. usb_mode' \in M!UsbMode /\ awaiting' \in M!Awaited
      BY <1>3 DEF M!ManageTypeOK
    <3>3. /\ running' \in BOOLEAN /\ private_data' \in {"NULL", "live", "freed"}
          /\ connected' \in BOOLEAN
      BY <1>1, <1>3 DEF M!ManageTypeOK
    <3>4. /\ answer' \in {"none", "ok", "job", "error"}
          /\ job_result' \in {"none", "done", "failed"}
      BY <1>1 DEF M!ManageTypeOK
    <3>5. /\ session' \in BOOLEAN /\ terminating' \in BOOLEAN
          /\ masked' \in BOOLEAN /\ loaded_mask' \in BOOLEAN
          /\ actdead_enabled' \in BOOLEAN /\ preparation' \in BOOLEAN
          /\ marker' \in BOOLEAN /\ user_home' \in {"/home", "/tmp/home"}
          /\ tmp_home' \in M!HomeKind /\ home_dirs' \in M!HomeKind
      BY <1>1, <1>3 DEF M!ManageTypeOK
    <3> QED
      BY <3>1, <3>2, <3>3, <3>4, <3>5 DEF M!ManageTypeOK, ListsTyped
  <2>3. CallInv' /\ ReplyInv'
    BY <1>1, <1>3, <2>1 DEF CallInv, ReplyInv
  <2> QED
    BY <2>2, <2>3
<1> QED
  BY <1>2, <1>3 DEF M!UserRemoved

\* systemd answers a call and runs a job.
LEMMA ServedCalls ==
    ASSUME HostInv, M!UnitCallServed
    PROVE  M!ManageTypeOK' /\ CallInv' /\ ReplyInv'
<1> USE DEF HostInv
<1>1. /\ UNCHANGED <<running, private_data, connected, tasks, task, awaiting,
                     orig_usb_mode, job_result, session, terminating, usb_mode,
                     marker, user_home, tmp_home, home_dirs>>
      /\ unit_call # M!NoTask /\ unit_call' = M!NoTask /\ job = M!NoTask
  BY DEF M!UnitCallServed, M!service_vars, M!host_vars, M!file_vars
<1>2. Called' = Called /\ unit_call = Called /\ tasks # "NULL" /\ task > 1
  BY <1>1 DEF Called, CallInv
<1>3. running => awaiting = "reply" /\ answer = "none" /\ job_result = "none"
  BY <1>1 DEF ReplyInv
<1>4. /\ job' \in {M!NoTask, unit_call}
      /\ answer' \in {"none", "ok", "job", "error"}
      /\ answer' = "job" => unit_call.action \in {"START_UNIT", "STOP_UNIT"}
      /\ job' # M!NoTask /\ running /\ awaiting = "reply" => answer' = "job"
      /\ answer' = "ok" => unit_call.action \notin {"START_UNIT", "STOP_UNIT"}
      /\ answer' # "none" => running /\ awaiting = "reply"
  BY <1>1
  DEF M!UnitCallServed, M!Answers, M!Returns, M!CallRefused, M!JobQueued,
      M!UnitsReloaded, M!UnitEnabled, M!UnitMasked
<1>5. /\ masked' \in BOOLEAN /\ loaded_mask' \in BOOLEAN
      /\ actdead_enabled' \in BOOLEAN /\ preparation' \in BOOLEAN
  BY DEF M!ManageTypeOK, M!UnitCallServed, M!unit_vars, M!CallRefused, M!JobQueued,
         M!UnitsReloaded, M!UnitEnabled, M!UnitMasked
<1>6. M!ManageTypeOK'
  BY <1>1, <1>4, <1>5 DEF M!ManageTypeOK
<1>7. CallInv'
  BY <1>1, <1>2, <1>4 DEF CallInv
<1>8. ReplyInv'
  BY <1>1, <1>2, <1>3, <1>4 DEF ReplyInv, InFlight
<1> QED
  BY <1>6, <1>7, <1>8

LEMMA RunsCalls ==
    ASSUME HostInv, M!JobRuns
    PROVE  M!ManageTypeOK' /\ CallInv' /\ ReplyInv'
<1> USE DEF HostInv
<1>1. /\ UNCHANGED <<running, private_data, connected, tasks, task, awaiting,
                     orig_usb_mode, unit_call, answer, terminating, usb_mode,
                     masked, loaded_mask, actdead_enabled>>
      /\ job # M!NoTask /\ job' = M!NoTask
  BY DEF M!JobRuns, M!service_vars
<1>2. Called' = Called /\ job = Called /\ tasks # "NULL" /\ task > 1
  BY <1>1 DEF Called, CallInv
<1>3. /\ job_result' \in {"none", "done", "failed"}
      /\ job_result' # "none" => answer = "job" \/ awaiting = "JobRemoved"
  BY DEF M!JobRuns, M!JobEnds, M!JobFails, M!Returns
<1>4. /\ preparation' \in BOOLEAN /\ tmp_home' \in M!HomeKind /\ home_dirs' \in M!HomeKind
      /\ user_home' \in {"/home", "/tmp/home"} /\ marker' \in BOOLEAN
      /\ session' \in BOOLEAN
  BY Booleans
  DEF M!ManageTypeOK, M!JobRuns, M!StartPreparation, M!PreparationScript,
      M!StopPreparation, M!FinishScript, M!StartHomeMount, M!StartDefaultTarget,
      M!JobFails, M!HomeKind
<1>5. job_result' = "done" => job.action \in {"START_UNIT", "STOP_UNIT"}
  <2>1. ASSUME job_result' = "done"
        PROVE  job \in {StartPreparationTask, StopPreparationTask, StartMountTask,
                        StartDefaultTask}
    BY <2>1
    DEF M!JobRuns, M!JobFails, M!JobEnds, M!StartPreparation, M!StopPreparation,
        M!StartHomeMount, M!StartDefaultTarget, StartPreparationTask,
        StopPreparationTask, StartMountTask, StartDefaultTask
  <2> QED
    BY <2>1, TaskParts
<1>6. M!ManageTypeOK'
  BY <1>1, <1>3, <1>4 DEF M!ManageTypeOK
<1>7. CallInv'
  BY <1>1, <1>2, <1>5 DEF CallInv
<1>8. ReplyInv'
  BY <1>1, <1>2, <1>3 DEF ReplyInv, InFlight
<1> QED
  BY <1>6, <1>7, <1>8

LEMMA SessionCalls ==
    ASSUME HostInv, M!SessionStarts
    PROVE  M!ManageTypeOK' /\ CallInv' /\ ReplyInv'
<1> USE DEF HostInv
<1>1. /\ UNCHANGED <<running, private_data, connected, tasks, task, awaiting,
                     orig_usb_mode, unit_call, answer, job, job_result>>
      /\ UNCHANGED <<terminating, usb_mode, masked, loaded_mask, actdead_enabled,
                     preparation, marker, user_home, tmp_home, home_dirs>>
      /\ session' = TRUE
  BY DEF M!SessionStarts, M!service_vars, M!systemd_vars, M!unit_vars, M!file_vars
<1>2. Called' = Called
  BY <1>1 DEF Called
<1>3. M!ManageTypeOK'
  BY <1>1 DEF M!ManageTypeOK
<1>4. CallInv' /\ ReplyInv'
  BY <1>1, <1>2 DEF CallInv, ReplyInv
<1> QED
  BY <1>3, <1>4

LEMMA ActivateCalls ==
    ASSUME HostInv, Activate
    PROVE  M!ManageTypeOK' /\ CallInv' /\ ReplyInv'
<1> USE DEF HostInv
<1>1. /\ private_data' = "NULL" /\ ~connected' /\ tasks' = "NULL" /\ task' = 1
      /\ awaiting' = "none" /\ answer' = "none" /\ job_result' = "none"
      /\ unit_call' = M!NoTask /\ job' = M!NoTask
  BY DEF Activate, M!ServiceReset
<1>2. M!ManageTypeOK'
  <2>1. "NULL" \in DOMAIN M!TaskList \cup {"NULL"} /\ 1 \in 1 .. 7
        /\ "none" \in M!Awaited
    BY DEF M!Awaited
  <2>2. /\ running' = TRUE /\ private_data' = "NULL" /\ connected' = FALSE
        /\ orig_usb_mode' = "NULL" /\ answer' = "none" /\ job_result' = "none"
        /\ UNCHANGED <<unit_call, job>>
    BY DEF Activate, M!ServiceReset
  <2>3. UNCHANGED <<M!host_vars, M!unit_vars, M!file_vars>>
    BY DEF Activate, M!ServiceReset
  <2>4. /\ session' \in BOOLEAN /\ terminating' \in BOOLEAN /\ usb_mode' \in M!UsbMode
        /\ masked' \in BOOLEAN /\ loaded_mask' \in BOOLEAN
        /\ actdead_enabled' \in BOOLEAN /\ preparation' \in BOOLEAN
    BY <2>3 DEF M!host_vars, M!unit_vars, M!ManageTypeOK
  <2>5. /\ marker' \in BOOLEAN /\ user_home' \in {"/home", "/tmp/home"}
        /\ tmp_home' \in M!HomeKind /\ home_dirs' \in M!HomeKind
    BY <2>3 DEF M!file_vars, M!ManageTypeOK
  <2>6. /\ running' \in BOOLEAN /\ private_data' \in {"NULL", "live", "freed"}
        /\ connected' \in BOOLEAN
        /\ tasks' \in DOMAIN M!TaskList \cup {"NULL"} /\ task' \in 1 .. 7
        /\ awaiting' \in M!Awaited
        /\ orig_usb_mode' \in M!UsbMode \cup {"NULL"}
    BY <1>1, <2>1, <2>2
  <2>7. /\ unit_call' \in M!Tasks \cup {M!NoTask} /\ job' \in M!Tasks \cup {M!NoTask}
        /\ answer' \in {"none", "ok", "job", "error"}
        /\ job_result' \in {"none", "done", "failed"}
    BY <1>1
  <2> QED
    BY <2>4, <2>5, <2>6, <2>7 DEF M!ManageTypeOK
<1>3. CallInv' /\ ReplyInv'
  BY <1>1 DEF CallInv, ReplyInv, InFlight
<1> QED
  BY <1>2, <1>3

\* Every step of the service, of its clients and of what is around them.
\* What becomes of the home directories with the partition.
LEMMA WipedTyped ==
    ASSUME home_dirs \in M!HomeKind, WipedIsEmpty PROVE home_dirs' \in M!HomeKind
BY DEF WipedIsEmpty, M!HomeKind

LEMMA HostStep == HostInv /\ [ServiceNext]_vars => HostInv'
<1> SUFFICES ASSUME HostInv, [ServiceNext]_vars
             PROVE  M!ManageTypeOK' /\ CallInv' /\ ReplyInv'
  BY ServiceStepInv DEF HostInv
<1>0. M!ManageTypeOK /\ CallInv /\ ReplyInv /\ home_dirs \in M!HomeKind /\ ServiceInv
  BY DEF HostInv, M!ManageTypeOK
<1>1. ASSUME NEW e \in E!EraseType, PrepareToEncrypt(e)
      PROVE  M!ManageTypeOK' /\ CallInv' /\ ReplyInv'
  BY <1>1, PrepareCalls
<1>2. ASSUME NEW client \in Client, BeginEncryption(client)
      PROVE  M!ManageTypeOK' /\ CallInv' /\ ReplyInv'
  <2>1. UNCHANGED <<manage_only, home_dirs, running>>
    BY <1>2 DEF BeginEncryption, E!BeginEncryption, E!start_to_encrypt,
                E!encrypt_vars
  <2> QED
    BY <1>0, <2>1, CallsKept
<1>3. CASE FinalizeEncryption
  BY <1>3, FinalizeCalls
<1>4. CASE JobCallback
  <2>1. Job!CallbackEffect /\ ServiceInv'
    BY <1>0, <1>4, Job!CallbackStage, JobCallbackStep, SameCallback, SameTypes
    DEF JobCallback, ServiceInv
  <2>2. running' \in {running, FALSE}
    BY <2>1, Booleans
    DEF Job!CallbackEffect, ServiceInv, Job!StageInv, Job!EncryptTypeOK
  <2> QED
    BY <1>0, <1>4, <2>2, WipedTyped, CallsKept DEF JobCallback
<1>5. CASE DeviceFormatted
  <2>1. UNCHANGED <<manage_only, running>>
    BY <1>5 DEF DeviceFormatted, E!UDisksJob, E!UDisksTearsDown, E!UDisksFormats,
                E!UDisksConfigures
  <2> QED
    BY <1>0, <1>5, <2>1, WipedTyped, CallsKept DEF DeviceFormatted
<1>6. CASE PropertyAnnounced
  <2>1. UNCHANGED <<manage_only, home_dirs, running>>
    BY <1>6 DEF PropertyAnnounced, E!PropertyAnnounced
  <2> QED
    BY <1>0, <2>1, CallsKept
<1>7. CASE QuitIfIdle \/ Crash \/ UNCHANGED vars
  <2>1. UNCHANGED <<manage_only, home_dirs>> /\ running' \in {running, FALSE}
    BY <1>7, <1>0, Booleans DEF QuitIfIdle, Crash
  <2> QED
    BY <1>0, <2>1, CallsKept
<1>8. CASE ManageCallback
  BY <1>8, ConnectCalls, ReplyCalls, SignalCalls
  DEF ManageCallback, M!ManageCallback, Connects
<1>9. CASE ManageHost
  BY <1>9, RemovedCalls, ServedCalls, RunsCalls, SessionCalls
  DEF ManageHost, M!ManageHost
<1>10. CASE Activate
  BY <1>10, ActivateCalls
<1> QED
  BY <1>1, <1>2, <1>3, <1>4, <1>5, <1>6, <1>7, <1>8, <1>9, <1>10
  DEF ServiceNext, Next, ClientCall, ServiceStep

LEMMA HostCorrectForClients == ClientSpec => []HostInv
<1>1. ClientInit => Init
  BY DEF ClientInit
<1> QED
  BY <1>1, ClientsAreService, HostInit, HostStep, PTL DEF ClientSpec

\* What main.c keeps beside it.
MainTyped == idle_timer \in BOOLEAN /\ starts \in 1 .. MaxStarts

LEMMA MainStep == MainTyped /\ [ServiceNext]_vars => MainTyped'
<1> SUFFICES ASSUME MainTyped, [ServiceNext]_vars PROVE MainTyped'
  OBVIOUS
<1> USE DEF MainTyped
<1>1. CASE ClientCall
  BY <1>1 DEF ClientCall, PrepareToEncrypt, BeginEncryption, FinalizeEncryption
<1>2. CASE ServiceStep
  BY <1>2 DEF ServiceStep, JobCallback, DeviceFormatted, PropertyAnnounced,
              ManageCallback, ManageHost
<1>3. CASE QuitIfIdle \/ Crash \/ UNCHANGED vars
  BY <1>3 DEF QuitIfIdle, Crash
<1>4. CASE Activate
  BY <1>4, StartsAssumption DEF Activate, StartsAssumption
<1> QED
  BY <1>1, <1>2, <1>3, <1>4 DEF ServiceNext, Next

LEMMA AllTyped == HostInv /\ MainTyped => TypeOK
BY SameTypes DEF HostInv, ServiceInv, Job!StageInv, MainTyped, TypeOK

LEMMA MainInit == Init => MainTyped
BY StartsAssumption DEF StartsAssumption, Init, MainTyped

\* The variables of the service hold what their types say, whoever calls its
\* methods (main.c, encrypt.c, manage.c).
THEOREM ServiceTyped == Spec => []TypeOK
<1>1. [Next]_vars => [ServiceNext]_vars
  BY DEF ServiceNext
<1> QED
  BY <1>1, HostInit, HostStep, MainInit, MainStep, AllTyped, PTL DEF Spec

\* So they do with the user interface, kills and new starts
\* (EncryptionService.qml, main.c).
THEOREM ClientsTyped == ClientSpec => []ClientTypeOK
<1>1. ClientInit => Init /\ ui \in UiState
  BY DEF ClientInit, UiState
<1>2. ui \in UiState /\ [ClientNext]_client_vars => (ui \in UiState)'
  BY DEF ClientNext, client_vars, UiState, SettingsPrepare, UiEncrypt,
         UiEncryptionFinished, UiFinalize, UiFollowsSession
<1>3. TypeOK /\ ui \in UiState => ClientTypeOK
  BY DEF ClientTypeOK
<1> QED
  BY <1>1, <1>2, <1>3, ClientsAreService, HostInit, HostStep, MainInit, MainStep,
     AllTyped, PTL DEF ClientSpec

-----------------------------------------------------------------------------
(* The home directories *)

ClientInv == HostInv /\ PlacesInv /\ OrderInv /\ RestartInv /\ EraseInv

\* What a step does to the home directories is one of HomeDirectories or nothing,
\* provided that cp and mv of the scripts do not fail.
ScriptsWork == "cp" \notin ManageFault /\ "mv" \notin ManageFault

DirectoryStep == [Directories!DirectoriesNext]_(Directories!directory_vars)

KeepsHomes == ScriptsWork /\ KindsInv => KindsInv' /\ DirectoryStep

LEMMA PlacesFacts ==
    /\ HomePlaces["tmp"] = tmp_home /\ HomePlaces["partition"] = home_dirs
    /\ DOMAIN HomePlaces = Directories!Place
    /\ M!ManageTypeOK => HomePlaces \in [Directories!Place -> Directories!Kind]
BY DEF HomePlaces, Directories!Place, Directories!Kind, M!ManageTypeOK, M!HomeKind

LEMMA DirectoriesStay ==
    ASSUME UNCHANGED <<tmp_home, home_dirs, user_home, mounted, session>>
    PROVE  DirectoryStep
BY DEF DirectoryStep, Directories!directory_vars, HomePlaces

LEMMA HomesStay ==
    ASSUME UNCHANGED <<tmp_home, home_dirs, user_home, mounted, session, preparation,
                       disk>>
    PROVE  KeepsHomes
BY DirectoriesStay DEF KeepsHomes, KindsInv

\* The task of the list that the service or systemd is at.
LEMMA EngagedFacts ==
    ASSUME HostInv, Engaged
    PROVE  /\ tasks \in DOMAIN M!TaskList /\ task \in 2 .. 7
           /\ Called = StartDefaultTask <=> task = 7
           /\ Called = StopPreparationTask => tasks \in Restarts /\ task = 6
           /\ Called = StartMountTask => tasks \in Restarts /\ task = 5
           /\ Called = StartPreparationTask => tasks = "preparation" /\ task = 4
           /\ tasks \in Restarts /\ task = 5 => Called = StartMountTask
<1>1. tasks # "NULL" /\ task > 1
  BY DEF HostInv, CallInv, Engaged, InFlight
<1>2. tasks \in DOMAIN M!TaskList /\ task \in 2 .. 7
  BY <1>1 DEF HostInv, M!ManageTypeOK
<1>3. task - 1 \in 1 .. 7
  BY <1>2
<1> QED
  BY <1>2, <1>3, TaskFacts DEF Called

\* A restart leaves nothing of the encryption to be done.
LEMMA RestartFacts ==
    ASSUME HostInv, RestartInv, tasks \in Restarts
    PROVE  status \in Settled /\ pending \in {"none", "rescan"}
BY DEF HostInv, ServiceInv, Job!StageInv, Job!StatusInv, Job!Preparing,
       Job!EncryptTypeOK, Job!Call, RestartInv, Settled

\* Steps of the clients and of the process.
LEMMA PlacesKept ==
    ASSUME ClientInv, UNCHANGED <<preparation, user_home, tmp_home, home_dirs, mounted,
                                  disk, session>>,
           running' /\ pending' \notin {"none", "rescan"} =>
                \/ running /\ pending \notin {"none", "rescan"}
                \/ preparation,
           ui' \in {"started", "encrypting", "finalizing"} =>
                ui \in {"started", "encrypting", "finalizing"}
    PROVE  PlacesInv' /\ KeepsHomes
<1>1. KeepsHomes
  BY HomesStay
<1> QED
  BY <1>1 DEF ClientInv, PlacesInv

LEMMA OrderKept ==
    ASSUME ClientInv, Engaged' => Engaged, UNCHANGED <<tasks, task, mounted, session>>,
           job_result' \in {job_result, "none", "failed"}
    PROVE  OrderInv'
<1>1. Called' = Called /\ (job_result' = "done" => job_result = "done")
  BY DEF Called
<1>2. OrderInv
  BY DEF ClientInv
<1> QED
  BY <1>1, <1>2 DEF OrderInv

\* The user interface follows a step that neither starts nor ends the session.
LEMMA UiStays == ASSUME UiFollowsSession, UNCHANGED session PROVE ui' = ui
BY DEF UiFollowsSession, WizardStarts

LEMMA SettingsKeep ==
    ASSUME ClientInv, SettingsPrepare
    PROVE  PlacesInv' /\ OrderInv' /\ RestartInv' /\ KeepsHomes
<1>1. /\ ui' = "off" /\ UNCHANGED <<status, pending, disk, mounted>>
      /\ PrepareToEncrypt("zero") /\ HostInv /\ RestartInv /\ status = "NOT_STARTED"
  BY DEF SettingsPrepare, PrepareToEncrypt, ClientInv
<1>2. pending = "none"
  BY <1>1 DEF HostInv, ServiceInv, Job!StageInv, Job!StatusInv
<1>3. CASE private_data = "NULL" /\ M!prepare
  <2>1. UNCHANGED <<preparation, user_home, tmp_home, home_dirs, session>>
    BY <1>3 DEF M!prepare, M!host_vars, M!unit_vars, M!file_vars
  <2>2. PlacesInv' /\ KeepsHomes
    BY <1>1, <1>2, <2>1, PlacesKept
  <2>3. ~Engaged'
    <3>1. running /\ tasks = "NULL"
      BY <1>1, <1>3 DEF PrepareToEncrypt, HostInv, ReplyInv
    <3>2. unit_call = M!NoTask /\ job = M!NoTask
      BY <1>1, <3>1, NothingCalled DEF HostInv
    <3> QED
      BY <1>3, <3>2 DEF M!prepare, M!systemd_vars, Engaged, InFlight
  <2>4. tasks' = "preparation"
    BY <1>3 DEF M!prepare
  <2> QED
    BY <2>2, <2>3, <2>4 DEF OrderInv, RestartInv, Restarts
<1>4. CASE running' = FALSE /\ UNCHANGED <<manage_only, home_dirs>>
  <2>1. PlacesInv' /\ KeepsHomes
    BY <1>1, <1>2, <1>4, PlacesKept
  <2>2. OrderInv'
    <3>1. Engaged' => Engaged
      BY <1>4 DEF Engaged
    <3> QED
      BY <1>1, <1>4, <3>1, OrderKept
  <2>3. RestartInv'
    BY <1>1, <1>4 DEF RestartInv
  <2> QED
    BY <2>1, <2>2, <2>3
<1> QED
  BY <1>1, <1>3, <1>4 DEF PrepareToEncrypt, SettingsPrepare

LEMMA UiEncryptKeeps ==
    ASSUME ClientInv, UiEncrypt
    PROVE  PlacesInv' /\ OrderInv' /\ RestartInv' /\ KeepsHomes
<1>1. /\ ui = "started" /\ ui' \in {"encrypting", "finalizing"}
      /\ BeginEncryption(ui_client) /\ PlacesInv /\ RestartInv /\ HostInv
  BY DEF UiEncrypt, ClientInv
<1>2. /\ UNCHANGED <<manage_only, home_dirs, running, mounted, disk>>
      /\ running
  BY <1>1 DEF BeginEncryption, E!BeginEncryption, E!start_to_encrypt, E!encrypt_vars,
              E!job_vars, E!disk_vars
<1>3. preparation /\ tasks \notin Restarts
  BY <1>1, <1>2 DEF PlacesInv, RestartInv
<1>4. PlacesInv' /\ KeepsHomes
  BY <1>1, <1>2, <1>3, PlacesKept
<1>5. OrderInv'
  <2>1. Engaged' => Engaged
    BY <1>2 DEF Engaged
  <2> QED
    BY <1>2, <2>1, OrderKept
<1>6. RestartInv'
  BY <1>2, <1>3 DEF RestartInv
<1> QED
  BY <1>4, <1>5, <1>6

LEMMA UiFinalizeKeeps ==
    ASSUME ClientInv, UiFinalize
    PROVE  PlacesInv' /\ OrderInv' /\ RestartInv' /\ KeepsHomes
<1>1. ui' = "quit" /\ FinalizeEncryption /\ HostInv /\ RestartInv /\ OrderInv
  BY DEF UiFinalize, ClientInv
<1>2. ASSUME NEW restore \in BOOLEAN, ~M!FinalizeRefused, M!finalize(restore), running,
             status \in Settled, UNCHANGED <<encrypt_only, mounted>>
      PROVE  PlacesInv' /\ OrderInv' /\ RestartInv' /\ KeepsHomes
  <2>1. /\ UNCHANGED <<preparation, user_home, tmp_home, home_dirs, session, unit_call,
                       job>>
        /\ running' \in {running, FALSE} /\ awaiting' \in {"bus", "UserRemoved", "none"}
    BY <1>2 DEF M!finalize, M!unit_vars, M!file_vars, M!systemd_vars, M!terminate_user,
                M!GivesUp
  <2>2. PlacesInv' /\ KeepsHomes
    BY <1>1, <1>2, <2>1, PlacesKept
  <2>3. ~Engaged'
    <3>1. tasks = "NULL"
      BY <1>1, <1>2 DEF HostInv, ReplyInv, M!FinalizeRefused
    <3> QED
      BY <1>1, <2>1, <3>1, NothingCalled DEF HostInv, Engaged, InFlight
  <2>4. RestartInv'
    BY <1>1, <1>2 DEF RestartInv
  <2> QED
    BY <2>2, <2>3, <2>4 DEF OrderInv
<1>3. CASE UNCHANGED vars
  <2>1. PlacesInv' /\ KeepsHomes
    BY <1>1, <1>3, PlacesKept
  <2>2. OrderInv'
    <3>1. Engaged' => Engaged
      BY <1>3 DEF Engaged
    <3> QED
      BY <1>3, <3>1, OrderKept
  <2>3. RestartInv'
    BY <1>1, <1>3 DEF RestartInv
  <2> QED
    BY <2>1, <2>2, <2>3
<1>4. (status = "FAILED" /\ saved_passphrase) \in BOOLEAN
  OBVIOUS
<1> QED
  BY <1>1, <1>2, <1>3, <1>4 DEF FinalizeEncryption, Settled

\* The process ends or starts, and the user interface looks at its result.
LEMMA LifeKeeps ==
    ASSUME ClientInv,
           \/ QuitIfIdle /\ UNCHANGED ui
           \/ Crash /\ UNCHANGED ui
           \/ UNCHANGED client_vars
           \/ UiEncryptionFinished
    PROVE  PlacesInv' /\ OrderInv' /\ RestartInv' /\ KeepsHomes
<1>1. /\ UNCHANGED <<mounted, encrypt_only, manage_only, home_dirs>>
      /\ running' => running
      /\ \/ ui' = ui
         \/ ui = "encrypting" /\ ui' = "finalizing"
  BY DEF QuitIfIdle, Crash, client_vars, UiEncryptionFinished
<1>2. PlacesInv' /\ KeepsHomes
  BY <1>1, PlacesKept
<1>3. OrderInv'
  <2>1. Engaged' => Engaged
    BY <1>1 DEF Engaged
  <2> QED
    BY <1>1, <2>1, OrderKept
<1>4. RestartInv'
  BY <1>1 DEF ClientInv, RestartInv
<1> QED
  BY <1>2, <1>3, <1>4

LEMMA ActivateKeeps ==
    ASSUME ClientInv, Activate, UNCHANGED ui
    PROVE  PlacesInv' /\ OrderInv' /\ RestartInv' /\ KeepsHomes
<1>1. /\ UNCHANGED <<mounted, disk, preparation, user_home, tmp_home,
                     home_dirs, session>>
      /\ pending' = "none" /\ tasks' = "NULL"
  BY DEF Activate, E!JobReset, E!disk_vars, M!ServiceReset, M!host_vars, M!unit_vars,
         M!file_vars
<1>2. PlacesInv' /\ KeepsHomes
  BY <1>1, PlacesKept
<1>3. ~Engaged'
  BY DEF Activate, M!ServiceReset, Engaged, InFlight
<1> QED
  BY <1>1, <1>2, <1>3 DEF OrderInv, RestartInv, Restarts

\* The encryption job takes the file system from the partition while nobody lives
\* on it and no list of a restart is at work.
LEMMA JobCallbackKeeps ==
    ASSUME ClientInv, JobCallback, UiFollowsSession
    PROVE  PlacesInv' /\ OrderInv' /\ RestartInv' /\ KeepsHomes
<1>1. ServiceInv /\ PlacesInv /\ RestartInv /\ HostInv /\ OrderInv /\ EraseInv
  BY DEF ClientInv, HostInv
<1>2. Job!CallbackEffect
  BY <1>1, Job!CallbackStage, SameCallback, SameTypes DEF JobCallback, ServiceInv
<1>3. UNCHANGED <<manage_only, disk>> /\ ui' = ui
  BY <1>1, <1>2, UiStays
  DEF JobCallback, EraseInv, Job!NoErasure, Job!CallbackEffect
<1>4. KindsInv => home_dirs' = home_dirs
  BY <1>3 DEF JobCallback, WipedIsEmpty, KindsInv
<1>5. CASE pending \in {"none", "rescan"}
  <2>1. mounted' = mounted /\ pending' \in {"none", "rescan"}
    BY <1>2, <1>5 DEF Job!CallbackEffect
  <2>2. KeepsHomes
    BY <1>3, <1>4, <2>1, HomesStay DEF KeepsHomes
  <2>3. PlacesInv'
    BY <1>1, <1>3, <2>1 DEF PlacesInv
  <2>4. OrderInv'
    <3>1. Engaged' => Engaged
      BY <1>2, <1>3 DEF Engaged, Job!CallbackEffect
    <3> QED
      BY <1>3, <2>1, <3>1, OrderKept
  <2> QED
    BY <1>1, <1>2, <1>3, <2>2, <2>3, <2>4
    DEF Job!CallbackEffect, RestartInv, Settled, Job!Over
<1>6. CASE pending \notin {"none", "rescan"}
  <2>1. running /\ preparation /\ user_home = "/tmp/home"
    BY <1>1, <1>2, <1>6 DEF Job!CallbackEffect, PlacesInv
  <2>2. tasks \notin Restarts
    BY <1>1, <1>6, RestartFacts
  <2>3. mounted' \in {mounted, FALSE}
    BY <1>2 DEF Job!CallbackEffect
  <2>4. PlacesInv'
    <3>1. disk' = "wiped" => ~mounted'
      BY <1>1, <1>3, <2>3 DEF PlacesInv
    <3>2. UNCHANGED <<preparation, user_home, session, ui>>
      BY <1>3
    <3> QED
      BY <1>1, <2>1, <3>1, <3>2 DEF PlacesInv
  <2>5. OrderInv'
    <3>1. Engaged' => Engaged
      BY <1>2, <1>3 DEF Engaged, Job!CallbackEffect
    <3>2. Called' = Called
      BY <1>3 DEF Called
    <3> QED
      BY <1>1, <1>3, <2>2, <3>1, <3>2, EngagedFacts DEF OrderInv
  <2>6. KeepsHomes
    <3>1. CASE mounted' = mounted
      BY <1>3, <1>4, <3>1, HomesStay DEF KeepsHomes
    <3>2. CASE mounted' = FALSE /\ mounted = TRUE
      <4> SUFFICES ASSUME KindsInv PROVE KindsInv' /\ DirectoryStep
        BY DEF KeepsHomes
      <4>1. KindsInv' /\ HomePlaces' = HomePlaces
        BY <1>3, <1>4 DEF KindsInv, HomePlaces
      <4> QED
        BY <1>3, <2>1, <3>2, <4>1
        DEF DirectoryStep, Directories!DirectoriesNext, Directories!Mounts
    <3> QED
      BY <1>1, <2>3, <3>1, <3>2, Booleans
  <2> QED
    BY <1>3, <2>2, <2>4, <2>5, <2>6 DEF RestartInv
<1> QED
  BY <1>5, <1>6

\* UDisks wipes the partition while the users are in /tmp/home.
LEMMA DeviceKeeps ==
    ASSUME ClientInv, DeviceFormatted, UiFollowsSession
    PROVE  PlacesInv' /\ OrderInv' /\ RestartInv' /\ KeepsHomes
<1>1. PlacesInv /\ RestartInv /\ HostInv /\ OrderInv
  BY DEF ClientInv, HostInv
<1>2. /\ disk' = disk \/ disk' = "luks" \/ (disk' = "wiped" /\ ~mounted)
      /\ UNCHANGED <<running, status, pending, mounted>>
  BY <1>1, Job!DeviceStage, SameDevice, SameTypes
  DEF DeviceFormatted, HostInv, ServiceInv
<1>3. UNCHANGED manage_only /\ ui' = ui
  BY UiStays DEF DeviceFormatted
<1>4. PlacesInv'
  BY <1>1, <1>2, <1>3 DEF PlacesInv
<1>5. OrderInv'
  <2>1. Engaged' => Engaged
    BY <1>2, <1>3 DEF Engaged
  <2> QED
    BY <1>2, <1>3, <2>1, OrderKept
<1>6. KeepsHomes
  <2> SUFFICES ASSUME KindsInv PROVE KindsInv' /\ DirectoryStep
    BY DEF KeepsHomes
  <2>1. CASE home_dirs' = home_dirs
    BY <1>2, <1>3, <2>1, DirectoriesStay DEF KindsInv, DeviceFormatted, WipedIsEmpty
  <2>2. CASE home_dirs' # home_dirs
    <3>1. home_dirs' = "none" /\ disk' = "wiped" /\ ~mounted
      BY <1>1, <1>2, <2>2 DEF DeviceFormatted, WipedIsEmpty, KindsInv
    <3>2. preparation /\ tmp_home # "none"
      BY <1>1, <3>1 DEF PlacesInv, KindsInv
    <3>3. HomePlaces' = [HomePlaces EXCEPT !["partition"] = "none"]
      BY <1>3, <3>1 DEF HomePlaces
    <3>4. Directories!Destroys
      BY <1>2, <1>3, <3>1, <3>2, <3>3, PlacesFacts DEF Directories!Destroys
    <3>5. KindsInv'
      BY <1>3, <3>1, <3>2 DEF KindsInv
    <3> QED
      BY <3>4, <3>5 DEF DirectoryStep, Directories!DirectoriesNext
  <2> QED
    BY <2>1, <2>2
<1> QED
  BY <1>1, <1>2, <1>3, <1>4, <1>5, <1>6 DEF RestartInv

LEMMA AnnouncedKeeps ==
    ASSUME ClientInv, PropertyAnnounced, UiFollowsSession
    PROVE  PlacesInv' /\ OrderInv' /\ RestartInv' /\ KeepsHomes
<1>1. PlacesInv /\ RestartInv /\ HostInv /\ ServiceInv
  BY DEF ClientInv, HostInv
<1>2. /\ UNCHANGED <<running, pending, mounted, disk>>
      /\ \/ status' = status
         \/ status' \in Job!Over
  <2>1. PICK property \in Job!PropertyChange : Job!PropertyAnnounced(property)
    BY SameAnnounced, SameTypes DEF PropertyAnnounced
  <2> QED
    BY <1>1, <2>1, Job!AnnouncedStage, SameTypes DEF ServiceInv
<1>3. UNCHANGED <<manage_only, home_dirs>> /\ ui' = ui
  BY UiStays DEF PropertyAnnounced
<1>4. PlacesInv'
  BY <1>1, <1>2, <1>3 DEF PlacesInv
<1>5. OrderInv'
  <2>1. Engaged' => Engaged
    BY <1>2, <1>3 DEF Engaged
  <2> QED
    BY <1>2, <1>3, <2>1, OrderKept
<1>6. KeepsHomes
  BY <1>2, <1>3, HomesStay
<1> QED
  BY <1>1, <1>2, <1>3, <1>4, <1>5, <1>6 DEF RestartInv, Settled, Job!Over

\* The callbacks of Manage touch nothing that the users see.
LEMMA QuietStep ==
    ASSUME ClientInv, UNCHANGED <<encrypt_only, preparation, user_home, tmp_home,
                                  home_dirs, mounted, session>>,
           running' \in {running, FALSE}, UiFollowsSession
    PROVE  PlacesInv' /\ KeepsHomes /\ ui' = ui
<1>1. ui' = ui
  BY UiStays
<1>2. running' => running
  BY DEF ClientInv, HostInv, M!ManageTypeOK
<1> QED
  BY <1>1, <1>2, PlacesKept

\* What handle_next_unit_task does to the order of the tasks.
LEMMA NextOrder ==
    ASSUME ClientInv, running, awaiting \in InFlight \cup {"UserRemoved"},
           unit_call = M!NoTask, job = M!NoTask, job' = M!NoTask,
           job_result' = "none", M!handle_next_unit_task, mounted' = mounted,
           session' = FALSE \/ (session' = session /\ Engaged),
           Engaged /\ Called = StartMountTask => mounted,
           UNCHANGED status, ui' = ui
    PROVE  OrderInv' /\ RestartInv'
<1>1. /\ HostInv /\ M!ManageTypeOK /\ OrderInv /\ RestartInv
      /\ tasks # "NULL" /\ tasks \in DOMAIN M!TaskList
  BY DEF ClientInv, HostInv, CallInv, InFlight, M!ManageTypeOK
<1>2. CASE NextCalls
  <2>1. task' - 1 \in 1 .. 6
    BY <1>2 DEF NextCalls
  <2>2. Called' = M!TaskList[tasks][task' - 1]
    BY <1>2 DEF NextCalls, Called
  <2>3. CASE Engaged
    <3>1. Called # StartDefaultTask
      BY <1>1, <1>2, <2>3, EngagedFacts DEF NextCalls
    <3>2. ~session'
      BY <1>1, <2>3, <3>1 DEF OrderInv
    <3>3. Called' = StopPreparationTask => mounted
      <4>1. ASSUME Called' = StopPreparationTask PROVE Called = StartMountTask
        <5>1. tasks \in Restarts /\ task' = 6 /\ task \in {4, 5}
          <6>1. task' - 1 \in 1 .. 7 /\ task \in 1 .. 7
            BY <1>1, <2>1 DEF M!ManageTypeOK
          <6>2. M!TaskList[tasks][task' - 1] = StopPreparationTask
            BY <2>2, <4>1
          <6>3. tasks \in Restarts /\ task' - 1 = 5
            BY <1>1, <6>1, <6>2, TaskFacts
          <6> QED
            BY <1>2, <6>1, <6>3 DEF NextCalls
        <5>2. task = 5
          <6>1. task # 4
            BY <1>1, <1>2, <5>1, TaskFacts DEF NextCalls
          <6> QED
            BY <5>1, <6>1
        <5> QED
          BY <1>1, <2>3, <5>1, <5>2, EngagedFacts
      <4> QED
        BY <2>3, <4>1
    <3> QED
      BY <1>1, <1>2, <3>2, <3>3 DEF OrderInv, RestartInv, NextCalls
  <2>4. CASE ~Engaged
    <3>1. task = 1 /\ session' = FALSE
      BY <1>1, <2>4 DEF HostInv, ReplyInv, Engaged
    <3>2. Called' # StopPreparationTask
      BY <1>1, <1>2, <2>1, <2>2, <3>1, TaskFacts DEF NextCalls
    <3> QED
      BY <1>1, <1>2, <3>1, <3>2 DEF OrderInv, RestartInv, NextCalls
  <2> QED
    BY <2>3, <2>4
<1>3. CASE NextPrepared
  BY <1>3 DEF NextPrepared, OrderInv, Engaged, InFlight, RestartInv, Restarts
<1>4. CASE NextRestarted
  BY <1>1, <1>4 DEF NextRestarted, OrderInv, Engaged, InFlight, RestartInv
<1> QED
  BY <1>1, <1>2, <1>3, <1>4, NextTask

LEMMA ManageCallbackKeeps ==
    ASSUME ClientInv, ManageCallback, UiFollowsSession
    PROVE  PlacesInv' /\ OrderInv' /\ RestartInv' /\ KeepsHomes
<1>1. /\ HostInv /\ M!ManageTypeOK /\ OrderInv /\ RestartInv /\ CallInv /\ ReplyInv
      /\ UNCHANGED encrypt_only /\ M!ManageCallback
  BY DEF ClientInv, HostInv, ManageCallback
<1>2. running' \in {running, FALSE} /\ mounted' = mounted
  BY <1>1, ManageCallbackRuns
<1>3. CASE Connects
  <2>1. ConnectEffect
    BY <1>1, <1>3, ConnectStep
  <2>2. UNCHANGED <<preparation, user_home, tmp_home, home_dirs, session>>
    BY <2>1 DEF ConnectEffect, M!unit_vars, M!file_vars
  <2>3. PlacesInv' /\ KeepsHomes /\ ui' = ui
    BY <1>1, <1>2, <2>2, QuietStep
  <2>4. ~Engaged'
    BY <1>1, <2>1
    DEF ConnectEffect, M!systemd_vars, ReplyInv, Engaged, Connecting, InFlight
  <2>5. RestartInv'
    BY <1>1, <1>2, <2>1, <2>3 DEF ConnectEffect, RestartInv
  <2> QED
    BY <2>3, <2>4, <2>5 DEF OrderInv
<1>4. CASE M!unit_changing_state
  <2>1. /\ UNCHANGED <<preparation, user_home, tmp_home, home_dirs, session, job,
                       job_result>>
        /\ running /\ awaiting = "reply" /\ answer # "none" /\ unit_call = M!NoTask
    BY <1>1, <1>4 DEF M!unit_changing_state, M!Returns, M!unit_vars, ReplyInv
  <2>2. PlacesInv' /\ KeepsHomes /\ ui' = ui
    BY <1>1, <1>2, <2>1, QuietStep
  <2>3. Engaged
    BY <2>1 DEF Engaged, InFlight
  <2>4. CASE answer = "ok" /\ M!handle_next_unit_task
    <3>1. job = M!NoTask /\ job_result = "none" /\ Called # StartMountTask
      BY <1>1, <2>1, <2>4, TaskParts DEF ReplyInv
    <3>2. awaiting \in InFlight \cup {"UserRemoved"}
      BY <2>1 DEF InFlight
    <3>3. OrderInv' /\ RestartInv'
      BY <1>1, <1>2, <2>1, <2>2, <2>3, <2>4, <3>1, <3>2, NextOrder
    <3> QED
      BY <2>2, <3>3
  <2>5. CASE UNCHANGED <<tasks, task>>
    <3>1. OrderInv'
      BY <1>2, <2>1, <2>3, <2>5, OrderKept
    <3>2. RestartInv'
      BY <1>1, <1>2, <2>1, <2>2, <2>5 DEF RestartInv
    <3> QED
      BY <2>2, <3>1, <3>2
  <2> QED
    BY <1>4, <2>4, <2>5 DEF M!unit_changing_state
<1>5. CASE M!on_signal_from_systemd
  <2>1. /\ UNCHANGED <<preparation, user_home, tmp_home, home_dirs, session, job>>
        /\ running /\ awaiting = "JobRemoved" /\ job_result # "none"
        /\ job_result' = "none" /\ unit_call = M!NoTask /\ job = M!NoTask
    BY <1>1, <1>5 DEF M!on_signal_from_systemd, M!Returns, M!unit_vars, ReplyInv
  <2>2. PlacesInv' /\ KeepsHomes /\ ui' = ui
    BY <1>1, <1>2, <2>1, QuietStep
  <2>3. Engaged
    BY <2>1 DEF Engaged, InFlight
  <2>4. CASE job_result = "done" /\ M!handle_next_unit_task
    <3>1. Called = StartMountTask => mounted
      BY <1>1, <2>3, <2>4 DEF OrderInv
    <3>2. awaiting \in InFlight \cup {"UserRemoved"}
      BY <2>1 DEF InFlight
    <3>3. OrderInv' /\ RestartInv'
      BY <1>1, <1>2, <2>1, <2>2, <2>3, <2>4, <3>1, <3>2, NextOrder
    <3> QED
      BY <2>2, <3>3
  <2>5. CASE UNCHANGED <<tasks, task>>
    <3>1. OrderInv'
      BY <1>2, <2>1, <2>3, <2>5, OrderKept
    <3>2. RestartInv'
      BY <1>1, <1>2, <2>1, <2>2, <2>5 DEF RestartInv
    <3> QED
      BY <2>2, <3>1, <3>2
  <2> QED
    BY <1>5, <2>4, <2>5 DEF M!on_signal_from_systemd
<1> QED
  BY <1>1, <1>3, <1>4, <1>5 DEF M!ManageCallback, Connects

\* The session of the device owner ends, whether the service waits for it or not.
LEMMA RemovedKeeps ==
    ASSUME ClientInv, ManageHost, M!UserRemoved, UiFollowsSession
    PROVE  PlacesInv' /\ OrderInv' /\ RestartInv' /\ KeepsHomes
<1>1. /\ HostInv /\ M!ManageTypeOK /\ OrderInv /\ RestartInv /\ CallInv /\ ReplyInv
      /\ PlacesInv /\ UNCHANGED encrypt_only
  BY DEF ClientInv, HostInv, ManageHost
<1>2. /\ UNCHANGED <<preparation, user_home, tmp_home, home_dirs, mounted, job,
                     job_result>>
      /\ session /\ session' = FALSE
  BY DEF M!UserRemoved, M!unit_vars
<1>3. /\ ui' \notin {"started", "encrypting", "finalizing"}
      /\ ui = "quit" => ui' = "quit"
  BY <1>1, <1>2 DEF UiFollowsSession, WizardStarts, PlacesInv
<1>4. running' => running
  BY <1>1, NextTaskRuns DEF M!UserRemoved, M!ManageTypeOK
<1>5. PlacesInv'
  BY <1>1, <1>2, <1>3, <1>4 DEF PlacesInv
<1>6. KeepsHomes
  <2> SUFFICES ASSUME KindsInv PROVE KindsInv' /\ DirectoryStep
    BY DEF KeepsHomes
  <2>1. HomePlaces' = HomePlaces /\ KindsInv'
    BY <1>1, <1>2 DEF HomePlaces, KindsInv
  <2> QED
    BY <1>2, <2>1
    DEF DirectoryStep, Directories!DirectoriesNext, Directories!LogsOut
<1>7. CASE M!Returns("UserRemoved") /\ M!handle_next_unit_task
  <2>1. /\ running /\ awaiting = "UserRemoved" /\ tasks # "NULL"
        /\ unit_call = M!NoTask /\ job = M!NoTask /\ job_result = "none" /\ task = 1
        /\ ~Engaged
    BY <1>1, <1>7 DEF M!Returns, CallInv, ReplyInv, InFlight, Engaged
  <2>2. NextCalls \/ NextPrepared \/ NextRestarted
    BY <1>1, <1>7, <2>1, NextTask
  <2>3. CASE NextCalls
    <3>1. tasks \in DOMAIN M!TaskList /\ task' - 1 \in {1, 2}
      BY <1>1, <2>1, <2>3 DEF NextCalls, M!ManageTypeOK
    <3>2. Called' = M!TaskList[tasks][task' - 1] /\ task' - 1 \in 1 .. 7
      BY <2>3, <3>1 DEF NextCalls, Called
    <3>3. Called' # StopPreparationTask
      BY <3>1, <3>2, TaskFacts
    <3> QED
      BY <1>1, <1>2, <1>3, <1>5, <1>6, <2>1, <2>3, <3>3
      DEF OrderInv, RestartInv, NextCalls
  <2>4. CASE NextPrepared
    BY <1>2, <1>5, <1>6, <2>1, <2>4
    DEF NextPrepared, OrderInv, RestartInv, Restarts, Engaged, InFlight
  <2>5. CASE NextRestarted
    BY <1>1, <1>2, <1>5, <1>6, <2>1, <2>5
    DEF NextRestarted, OrderInv, Engaged, InFlight, RestartInv
  <2> QED
    BY <2>2, <2>3, <2>4, <2>5
<1>8. CASE UNCHANGED <<running, private_data, tasks, task, awaiting, unit_call>>
  <2>1. Called' = Called /\ (Engaged' => Engaged)
    BY <1>2, <1>8 DEF Called, Engaged
  <2>2. OrderInv'
    BY <1>1, <1>2, <2>1 DEF OrderInv
  <2>3. RestartInv'
    BY <1>1, <1>3, <1>8 DEF RestartInv
  <2> QED
    BY <1>5, <1>6, <2>2, <2>3
<1> QED
  BY <1>7, <1>8 DEF M!UserRemoved

LEMMA ServedKeeps ==
    ASSUME ClientInv, ManageHost, M!UnitCallServed, UiFollowsSession
    PROVE  PlacesInv' /\ OrderInv' /\ RestartInv' /\ KeepsHomes
<1>1. /\ UNCHANGED encrypt_only
      /\ UNCHANGED <<running, tasks, task, awaiting, job_result, session, marker,
                     user_home, tmp_home, home_dirs, mounted, preparation>>
      /\ unit_call # M!NoTask
  BY DEF ManageHost, M!UnitCallServed, M!service_vars, M!host_vars, M!file_vars,
         M!unit_vars, M!CallRefused, M!JobQueued, M!UnitsReloaded, M!UnitEnabled,
         M!UnitMasked
<1>2. PlacesInv' /\ KeepsHomes /\ ui' = ui
  BY <1>1, QuietStep
<1>3. OrderInv'
  <2>1. Engaged
    BY <1>1 DEF Engaged
  <2> QED
    BY <1>1, <2>1, OrderKept
<1>4. RestartInv'
  BY <1>1, <1>2 DEF ClientInv, RestartInv
<1> QED
  BY <1>2, <1>3, <1>4

\* The session starts with default.target, in the home directories of the user.
LEMMA SessionKeeps ==
    ASSUME ClientInv, ManageHost, M!SessionStarts, UiFollowsSession
    PROVE  PlacesInv' /\ OrderInv' /\ RestartInv' /\ KeepsHomes
<1>1. /\ HostInv /\ M!ManageTypeOK /\ OrderInv /\ RestartInv /\ PlacesInv
      /\ UNCHANGED encrypt_only
  BY DEF ClientInv, HostInv, ManageHost
<1>2. /\ UNCHANGED <<running, tasks, task, awaiting, unit_call, job, job_result,
                     preparation, marker, user_home, tmp_home, home_dirs>>
      /\ ~session /\ session' = TRUE /\ mounted' \in {mounted, TRUE}
      /\ job = StartDefaultTask
  BY DEF M!SessionStarts, M!service_vars, M!systemd_vars, M!unit_vars, M!file_vars,
         StartDefaultTask
<1>a. mounted => mounted'
  BY DEF M!SessionStarts
<1>3. \/ ui' = ui
      \/ ui = "off" /\ ui' = "started" /\ preparation
  BY <1>1, <1>2 DEF UiFollowsSession, WizardStarts, PlacesInv
<1>4. PlacesInv'
  <2>1. ui \notin {"started", "encrypting", "finalizing"}
    BY <1>1, <1>2 DEF PlacesInv
  <2>2. ui' \in {"started", "encrypting", "finalizing"} => preparation /\ session'
    BY <1>2, <1>3, <2>1
  <2>3. ~preparation => mounted'
    BY <1>1, <1>a DEF PlacesInv
  <2>4. disk = "wiped" => ~mounted'
    BY <1>1 DEF PlacesInv, M!SessionStarts, M!Mountable
  <2> QED
    BY <1>1, <1>2, <2>2, <2>3, <2>4 DEF PlacesInv
<1>5. OrderInv'
  <2>1. Engaged /\ Called = StartDefaultTask /\ Called' = Called
    <3>1. job # M!NoTask
      BY <1>2, TaskParts
    <3> QED
      BY <1>1, <1>2, <3>1 DEF Engaged, HostInv, CallInv, Called
  <2>2. Called # StopPreparationTask /\ Called # StartMountTask
    BY <1>1, <2>1, EngagedFacts
  <2> QED
    BY <2>1, <2>2 DEF OrderInv
<1>6. RestartInv'
  BY <1>1, <1>2, <1>3 DEF RestartInv
<1>7. KeepsHomes
  <2> SUFFICES ASSUME KindsInv PROVE KindsInv' /\ DirectoryStep
    BY DEF KeepsHomes
  <2>1. HomePlaces' = HomePlaces /\ KindsInv'
    BY <1>1, <1>2 DEF HomePlaces, KindsInv
  <2>2. CASE user_home = "/home"
    <3>1. mounted' /\ HomePlaces["partition"] # "none"
      BY <1>1, <1>a, <2>2, PlacesFacts DEF PlacesInv, KindsInv
    <3> QED
      BY <1>2, <2>1, <2>2, <3>1
      DEF DirectoryStep, Directories!DirectoriesNext, Directories!LogsIn,
          Directories!Found
  <2>3. CASE user_home = "/tmp/home"
    <3>1. HomePlaces["tmp"] # "none"
      BY <1>1, <2>3, PlacesFacts DEF PlacesInv, KindsInv
    <3> QED
      BY <1>2, <2>1, <2>3, <3>1
      DEF DirectoryStep, Directories!DirectoriesNext, Directories!LogsIn,
          Directories!Found
  <2> QED
    BY <1>1, <2>2, <2>3 DEF M!ManageTypeOK
<1> QED
  BY <1>4, <1>5, <1>6, <1>7

\* systemd runs a job: the two scripts and home.mount.
LEMMA RunsKeep ==
    ASSUME ClientInv, ManageHost, M!JobRuns, UiFollowsSession
    PROVE  PlacesInv' /\ OrderInv' /\ RestartInv' /\ KeepsHomes
<1>1. /\ HostInv /\ M!ManageTypeOK /\ OrderInv /\ RestartInv /\ PlacesInv
      /\ UNCHANGED encrypt_only /\ ServiceInv
  BY DEF ClientInv, HostInv, ManageHost
<1>2. /\ UNCHANGED <<running, tasks, task, awaiting, unit_call, session>>
      /\ job # M!NoTask /\ job' = M!NoTask
  BY DEF M!JobRuns, M!service_vars, M!StartPreparation, M!StopPreparation,
         M!StartHomeMount, M!StartDefaultTarget, M!JobFails
<1>3. Engaged /\ job = Called /\ Called' = Called /\ ui' = ui
  BY <1>1, <1>2, UiStays DEF Engaged, HostInv, CallInv, Called
<1>4. RestartInv'
  BY <1>1, <1>2, <1>3 DEF RestartInv
<1>5. job_result' = "done" \/ job_result' \in {"none", "failed"}
  BY DEF M!JobRuns, M!JobEnds, M!JobFails
<1>6. CASE /\ UNCHANGED <<preparation, user_home, tmp_home, home_dirs, marker, mounted>>
           /\ Called # StartMountTask \/ job_result' # "done"
  <2>1. PlacesInv' /\ KeepsHomes
    BY <1>1, <1>2, <1>6, QuietStep
  <2>2. OrderInv'
    BY <1>1, <1>2, <1>3, <1>6 DEF OrderInv
  <2> QED
    BY <1>4, <2>1, <2>2
<1>7. CASE job = StartMountTask /\ M!StartHomeMount
  <2>1. /\ mounted' = TRUE /\ disk # "wiped"
        /\ UNCHANGED <<preparation, user_home, tmp_home, home_dirs>>
    BY <1>7 DEF M!StartHomeMount, M!Mountable
  <2>2. PlacesInv'
    BY <1>1, <1>2, <1>3, <2>1 DEF PlacesInv
  <2>3. OrderInv'
    BY <1>1, <1>2, <1>3, <2>1 DEF OrderInv
  <2>4. KeepsHomes
    <3> SUFFICES ASSUME KindsInv PROVE KindsInv' /\ DirectoryStep
      BY DEF KeepsHomes
    <3>1. HomePlaces' = HomePlaces /\ KindsInv'
      BY <1>1, <2>1 DEF HomePlaces, KindsInv
    <3>2. CASE mounted = TRUE
      BY <1>2, <2>1, <3>1, <3>2, DirectoriesStay
    <3>3. CASE mounted = FALSE
      BY <1>2, <2>1, <3>1, <3>3
      DEF DirectoryStep, Directories!DirectoriesNext, Directories!Mounts
    <3> QED
      BY <1>1, <3>2, <3>3, Booleans
  <2> QED
    BY <1>4, <2>2, <2>3, <2>4
<1>8. CASE job = StartPreparationTask /\ ~preparation /\ M!PreparationScript
  <2>1. /\ mounted /\ ~session /\ tasks = "preparation"
        /\ Called # StopPreparationTask /\ Called # StartMountTask
    <3>1. task = 4 /\ tasks \notin Restarts /\ tasks = "preparation"
      BY <1>1, <1>3, <1>8, EngagedFacts DEF Restarts
    <3> QED
      BY <1>1, <1>3, <1>8, <3>1, EngagedFacts DEF PlacesInv, OrderInv
  <2>2. /\ preparation' = TRUE /\ user_home' = "/tmp/home"
        /\ home_dirs' = home_dirs
        /\ mounted' = mounted \/ mounted' = FALSE
    BY <1>8 DEF M!PreparationScript
  <2>3. PlacesInv'
    <3>1. UNCHANGED <<disk, session, ui>> /\ (disk = "wiped" => ~mounted')
      BY <1>1, <1>2, <1>3, <2>2 DEF PlacesInv
    <3> QED
      BY <1>1, <2>2, <3>1 DEF PlacesInv
  <2>4. OrderInv'
    BY <1>2, <1>3, <2>1 DEF OrderInv
  <2>5. KeepsHomes
    <3> SUFFICES ASSUME ScriptsWork, KindsInv PROVE KindsInv' /\ DirectoryStep
      BY DEF KeepsHomes
    <3>1. home_dirs # "none" /\ disk # "wiped"
      BY <1>1, <1>8, <2>1 DEF PlacesInv, KindsInv
    <3>2. \/ tmp_home' = home_dirs
          \/ "no_space" \in ManageFault /\ tmp_home' = "skel"
      BY <1>8, <2>1, <3>1 DEF M!PreparationScript, ScriptsWork
    <3>3. HomePlaces' = [HomePlaces EXCEPT !["tmp"] = tmp_home']
      BY <2>2 DEF HomePlaces
    <3>4. mounted' \in {mounted, FALSE}
      BY <2>2
    <3>5. \/ HomePlaces' = [HomePlaces EXCEPT !["tmp"] = HomePlaces["partition"]]
          \/ /\ "no_space" \in ManageFault
             /\ HomePlaces' = [HomePlaces EXCEPT !["tmp"] = "skel"]
      BY <3>2, <3>3, PlacesFacts
    <3>6. Directories!CopiesOut
      BY <1>2, <2>1, <2>2, <3>1, <3>4, <3>5, PlacesFacts DEF Directories!CopiesOut
    <3>7. KindsInv'
      BY <1>1, <2>2, <3>1, <3>2 DEF KindsInv
    <3> QED
      BY <3>6, <3>7 DEF DirectoryStep, Directories!DirectoriesNext
  <2> QED
    BY <1>4, <2>3, <2>4, <2>5
<1>9. CASE job = StopPreparationTask /\ preparation /\ M!FinishScript
  <2>1. mounted /\ ~session /\ tasks \in Restarts
    <3>1. task = 6 /\ tasks \in Restarts
      BY <1>1, <1>3, <1>9, EngagedFacts
    <3> QED
      BY <1>1, <1>3, <1>9, <3>1, EngagedFacts DEF PlacesInv, OrderInv
  <2>2. /\ preparation' = FALSE /\ tmp_home' = "none" /\ user_home' = "/home"
        /\ mounted' = mounted
    BY <1>9 DEF M!FinishScript
  <2>3. pending \in {"none", "rescan"} /\ disk # "wiped"
    BY <1>1, <2>1, RestartFacts DEF PlacesInv
  <2>4. PlacesInv'
    BY <1>1, <1>2, <1>3, <2>1, <2>2, <2>3 DEF PlacesInv
  <2>5. OrderInv'
    BY <1>2, <1>3, <2>1, <2>2 DEF OrderInv
  <2>6. KeepsHomes
    <3> SUFFICES ASSUME ScriptsWork, KindsInv PROVE KindsInv' /\ DirectoryStep
      BY DEF KeepsHomes
    <3>1. home_dirs' = IF home_dirs = "none" THEN tmp_home ELSE home_dirs
      BY <1>9, <2>1 DEF M!FinishScript, ScriptsWork
    <3>2. KindsInv'
      BY <1>1, <1>9, <2>2, <2>3, <3>1 DEF KindsInv
    <3>3. HomePlaces' =
            [partition |-> IF HomePlaces["partition"] = "none" THEN HomePlaces["tmp"]
                           ELSE HomePlaces["partition"],
             tmp       |-> "none"]
      BY <2>2, <3>1 DEF HomePlaces
    <3>4. Directories!MovesBack
      BY <1>2, <2>1, <2>2, <3>3 DEF Directories!MovesBack
    <3> QED
      BY <3>2, <3>4 DEF DirectoryStep, Directories!DirectoriesNext
  <2> QED
    BY <1>4, <2>4, <2>5, <2>6
<1> QED
  <2>1. CASE M!JobEnds("done") /\ M!StartPreparation
    <3>1. Called # StartMountTask /\ job = StartPreparationTask
      BY <1>3, <2>1, TaskParts DEF M!StartPreparation, StartPreparationTask
    <3> QED
      BY <1>6, <1>8, <2>1, <3>1 DEF M!StartPreparation
  <2>2. CASE M!JobEnds("done") /\ M!StopPreparation
    <3>1. Called # StartMountTask /\ job = StopPreparationTask
      BY <1>3, <2>2, TaskParts DEF M!StopPreparation, StopPreparationTask
    <3> QED
      BY <1>6, <1>9, <2>2, <3>1 DEF M!StopPreparation
  <2>3. CASE M!JobEnds("done") /\ M!StartHomeMount
    BY <1>7, <2>3 DEF M!StartHomeMount, StartMountTask
  <2>4. CASE M!JobEnds("done") /\ M!StartDefaultTarget
    <3>1. Called # StartMountTask
      BY <1>3, <2>4, TaskParts DEF M!StartDefaultTarget, StartDefaultTask
    <3> QED
      BY <1>6, <2>4, <3>1 DEF M!StartDefaultTarget
  <2>5. CASE M!JobFails
    <3>1. job_result' # "done"
      BY <2>5 DEF M!JobFails, M!JobEnds
    <3> QED
      BY <1>6, <2>5, <3>1 DEF M!JobFails
  <2> QED
    BY <2>1, <2>2, <2>3, <2>4, <2>5 DEF M!JobRuns

\* The settings ask for zeros and whoever starts the service again for nothing, so
\* no job of these clients erases the device.
LEMMA EraseStep ==
    ClientInv /\ [ClientNext]_client_vars => EraseInv'
<1> SUFFICES ASSUME ClientInv, [ClientNext]_client_vars PROVE EraseInv'
  OBVIOUS
<1>1. EraseInv /\ ServiceInv /\ Job!StageInv
  BY DEF ClientInv, HostInv, ServiceInv
<1>2. ASSUME UNCHANGED <<encrypt_only, erase_type>> PROVE EraseInv'
  BY <1>1, <1>2 DEF EraseInv, Job!NoErasure
<1>3. CASE SettingsPrepare
  <2>1. UNCHANGED encrypt_only /\ erase_type' \in {"zero", erase_type}
    BY <1>3 DEF SettingsPrepare, PrepareToEncrypt
  <2> QED
    BY <1>1, <2>1 DEF EraseInv, Job!NoErasure
<1>4. CASE UiEncrypt
  <2>0. PICK is_temporary \in BOOLEAN : is_temporary = ~saved_passphrase
    BY <1>1 DEF ServiceInv
  <2>1. Job!BeginEncryption(ui_client, is_temporary, erase_type)
    BY <1>4, <2>0, SameBegin DEF UiEncrypt, BeginEncryption
  <2>2. erase_type \in Job!EraseType /\ erase_type # "random" /\ Job!NoErasure
    BY <1>1, SameTypes DEF ServiceInv, EraseInv
  <2>3. Job!NoErasure'
    BY <1>1, <2>0, <2>1, <2>2, Job!BeginStage, SameTypes, UiAssumption DEF UiAssumption
  <2>4. erase_type' = erase_type
    BY <1>4 DEF UiEncrypt, BeginEncryption
  <2> QED
    BY <2>2, <2>3, <2>4 DEF EraseInv
<1>5. CASE UiFinalize
  BY <1>2, <1>5 DEF UiFinalize, FinalizeEncryption
<1>6. CASE \/ QuitIfIdle \/ Crash \/ UNCHANGED client_vars
           \/ UiEncryptionFinished \/ ManageCallback \/ ManageHost
  BY <1>2, <1>6
  DEF QuitIfIdle, Crash, client_vars, UiEncryptionFinished, ManageCallback, ManageHost
<1>7. CASE Activate
  BY <1>7 DEF Activate, E!JobReset, EraseInv, Job!NoErasure
<1>8. CASE JobCallback
  <2>1. Job!NoErasure' /\ erase_type' = erase_type
    BY <1>1, <1>8, Job!CallbackStage, SameCallback, SameTypes
    DEF JobCallback, EraseInv, Job!CallbackEffect
  <2> QED
    BY <1>1, <2>1 DEF EraseInv
<1>9. CASE DeviceFormatted
  <2>1. UNCHANGED <<pending, erase, data, erase_type>>
    BY <1>1, <1>9, Job!DeviceStage, SameDevice, SameTypes DEF DeviceFormatted
  <2> QED
    BY <1>1, <2>1 DEF EraseInv, Job!NoErasure
<1>10. CASE PropertyAnnounced
  <2>1. PICK property \in Job!PropertyChange : Job!PropertyAnnounced(property)
    BY <1>10, SameAnnounced, SameTypes DEF PropertyAnnounced
  <2>2. Job!NoErasure' /\ erase_type' = erase_type
    BY <1>1, <1>10, <2>1, Job!AnnouncedStage, SameTypes DEF PropertyAnnounced, EraseInv
  <2> QED
    BY <1>1, <2>2 DEF EraseInv
<1> QED
  BY <1>3, <1>4, <1>5, <1>6, <1>7, <1>8, <1>9, <1>10 DEF ClientNext, ServiceStep

LEMMA ClientStepInv ==
    ClientInv /\ [ClientNext]_client_vars => ClientInv' /\ KeepsHomes
<1> SUFFICES ASSUME ClientInv, [ClientNext]_client_vars
             PROVE  PlacesInv' /\ OrderInv' /\ RestartInv' /\ KeepsHomes
  BY ClientsAreService, HostStep, EraseStep DEF ClientInv
<1>1. CASE SettingsPrepare
  BY <1>1, SettingsKeep
<1>2. CASE UiEncrypt
  BY <1>2, UiEncryptKeeps
<1>3. CASE UiFinalize
  BY <1>3, UiFinalizeKeeps
<1>4. CASE \/ QuitIfIdle /\ UNCHANGED ui
           \/ Crash /\ UNCHANGED ui
           \/ UNCHANGED client_vars
           \/ UiEncryptionFinished
  BY <1>4, LifeKeeps
<1>5. CASE Activate /\ UNCHANGED ui
  BY <1>5, ActivateKeeps
<1>6. CASE ServiceStep /\ UiFollowsSession
  <2>1. CASE JobCallback
    BY <1>6, <2>1, JobCallbackKeeps
  <2>2. CASE DeviceFormatted
    BY <1>6, <2>2, DeviceKeeps
  <2>3. CASE PropertyAnnounced
    BY <1>6, <2>3, AnnouncedKeeps
  <2>4. CASE ManageCallback
    BY <1>6, <2>4, ManageCallbackKeeps
  <2>5. CASE ManageHost
    BY <1>6, <2>5, RemovedKeeps, ServedKeeps, SessionKeeps, RunsKeep
    DEF ManageHost, M!ManageHost
  <2> QED
    BY <1>6, <2>1, <2>2, <2>3, <2>4, <2>5 DEF ServiceStep
<1> QED
  BY <1>1, <1>2, <1>3, <1>4, <1>5, <1>6 DEF ClientNext

LEMMA ClientInvInit ==
    ClientInit => ClientInv /\ KindsInv /\ Directories!DirectoriesInit
<1> SUFFICES ASSUME ClientInit
             PROVE  ClientInv /\ KindsInv /\ Directories!DirectoriesInit
  OBVIOUS
<1>1. Init /\ HostInv /\ M!ManageTypeOK
  BY HostInit DEF ClientInit, HostInv
<1>2. /\ tasks = "NULL" /\ running /\ awaiting = "none" /\ ~Engaged
      /\ pending = "none" /\ erase = "none" /\ disk = "plain" /\ session = TRUE
      /\ erase_type = "none" /\ preparation \in BOOLEAN
      /\ home_dirs = "data" /\ tmp_home = (IF preparation THEN "data" ELSE "none")
      /\ user_home = (IF preparation THEN "/tmp/home" ELSE "/home")
      /\ mounted = ~preparation
  BY <1>1 DEF Init, M!ManageInit, M!ServiceInit, M!HostInit, E!EncryptInit, E!JobInit,
              E!DiskInit, Engaged, InFlight
<1>3. OrderInv /\ RestartInv
  BY <1>2 DEF OrderInv, RestartInv, Restarts
<1>4. PlacesInv /\ EraseInv /\ KindsInv
  BY <1>2 DEF ClientInit, PlacesInv, EraseInv, Job!NoErasure, KindsInv
<1>5. Directories!DirectoriesInit
  <2>1. /\ HomePlaces \in [Directories!Place -> Directories!Kind]
        /\ HomePlaces["partition"] = "data" /\ HomePlaces["tmp"] # "skel"
    BY <1>1, <1>2, PlacesFacts
  <2>2. mounted \in BOOLEAN /\ session \in BOOLEAN
    BY <1>2
  <2>3. CASE preparation = TRUE
    <3>1. user_home = "/tmp/home" /\ HomePlaces["tmp"] = "data"
      BY <1>2, <2>3, PlacesFacts
    <3> QED
      BY <2>1, <2>2, <3>1
      DEF Directories!DirectoriesInit, Directories!DirectoriesTypeOK,
          Directories!Place, Directories!Found
  <2>4. CASE preparation = FALSE
    <3>1. user_home = "/home" /\ mounted
      BY <1>2, <2>4
    <3> QED
      BY <2>1, <2>2, <3>1
      DEF Directories!DirectoriesInit, Directories!DirectoriesTypeOK,
          Directories!Place, Directories!Found
  <2> QED
    BY <1>2, <2>3, <2>4
<1> QED
  BY <1>1, <1>3, <1>4, <1>5 DEF ClientInv

LEMMA ClientCorrect == ClientSpec => []ClientInv
BY ClientInvInit, ClientStepInv, PTL DEF ClientSpec

\* An encryption job and a restart of the session exclude each other (main.c
\* call_finalize), wherever the service is killed.
THEOREM JobNeverBesideRestart == ClientSpec => []JobAndRestartExclude
<1>1. ClientInv => JobAndRestartExclude
  BY DEF ClientInv, RestartInv, JobAndRestartExclude, Restarting, Restarts, Settled
<1> QED
  BY <1>1, ClientCorrect, PTL

\* The service, systemd, logind, the two scripts and the user interface keep what
\* HomeDirectories promises to the users, wherever the service is killed and whatever
\* else fails, as long as cp and mv work in the scripts: the scripts do not look at
\* what these return (home-encryption-preparation.sh:44, home-encryption-finish.sh:21).
\* Where /tmp has no space the promise is only that of new home directories.
THEOREM HomeIsAlwaysKept ==
    ASSUME "cp" \notin ManageFault, "mv" \notin ManageFault
    PROVE  ClientSpec => HomeIsKept
<1>1. ClientInv /\ KindsInv /\ [ClientNext]_client_vars => KindsInv'
  BY ClientStepInv DEF KeepsHomes, ScriptsWork
<1>2. ClientInv /\ KindsInv /\ [ClientNext]_client_vars
        => [Directories!DirectoriesNext]_(Directories!directory_vars)
  BY ClientStepInv DEF KeepsHomes, ScriptsWork, DirectoryStep
<1> QED
  BY <1>1, <1>2, ClientInvInit, ClientCorrect, PTL
  DEF ClientSpec, HomeIsKept, Directories!DirectoriesSpec

-----------------------------------------------------------------------------
(* The prepared home *)

\* How far the preparation has got: home.mount is down once the directories are
\* copied and stays down because it is masked before the session starts again.  The
\* marker that let the service start is there until it ends a restart.
MaskInv ==
    /\ running /\ tasks \notin Restarts => marker
    /\ running /\ saved_passphrase /\ tasks \notin Restarts /\ preparation => ~mounted
    /\ running /\ tasks = "preparation" =>
          /\ saved_passphrase /\ task # 3
          /\ (task = 4 /\ job_result = "done") \/ task >= 5 => preparation
          /\ (task = 5 /\ answer = "ok") \/ task >= 6 => masked
          /\ (task = 6 /\ answer = "ok") \/ task = 7 => loaded_mask
    /\ running /\ saved_passphrase /\ tasks = "NULL" => preparation /\ loaded_mask

LEMMA PreparationTasks ==
    /\ M!TaskList["preparation"][1].action = "RELOAD_UNITS"
    /\ M!TaskList["preparation"][2].action = "CREATE_MARKER"
    /\ M!TaskList["preparation"][3].action = "START_UNIT"
    /\ M!TaskList["preparation"][4].action = "MASK_UNIT"
    /\ M!TaskList["preparation"][5].action = "RELOAD_UNITS"
    /\ M!TaskList["preparation"][6].action = "START_UNIT"
<1>1. M!TaskList["preparation"] = M!preparation_tasks
  BY DEF M!TaskList
<1>2. /\ M!preparation_tasks[1].action = "RELOAD_UNITS"
      /\ M!preparation_tasks[2].action = "CREATE_MARKER"
      /\ M!preparation_tasks[3].action = "START_UNIT"
      /\ M!preparation_tasks[4].action = "MASK_UNIT"
      /\ M!preparation_tasks[5].action = "RELOAD_UNITS"
      /\ M!preparation_tasks[6].action = "START_UNIT"
  BY DEF M!preparation_tasks, M!Task
<1> QED
  BY <1>1, <1>2

\* Steps that leave the preparation where it is.
LEMMA MaskKept ==
    ASSUME MaskInv,
           UNCHANGED <<tasks, task, preparation, marker, masked, loaded_mask,
                       saved_passphrase>>,
           running' => running, mounted' => mounted,
           answer' = "ok" => answer = "ok", job_result' = "done" => job_result = "done"
    PROVE  MaskInv'
BY DEF MaskInv

\* The service goes on with its list.
LEMMA MaskNext ==
    ASSUME ClientInv, MaskInv,
           running, tasks # "NULL", M!handle_next_unit_task,
           UNCHANGED <<preparation, masked, loaded_mask, saved_passphrase, mounted>>,
           answer' = "none", job_result' = "none",
           tasks = "preparation" =>
               /\ task = 4 => preparation
               /\ task = 5 => masked
               /\ task = 6 => loaded_mask
    PROVE  MaskInv'
<1>1. M!ManageTypeOK /\ tasks \in DOMAIN M!TaskList /\ task \in 1 .. 7
  BY DEF ClientInv, HostInv, M!ManageTypeOK
<1>2. /\ NextCalls \/ NextPrepared \/ NextRestarted
      /\ M!TaskList[tasks][task].action \notin {"CREATE_MARKER", "REMOVE_MARKER"}
            => marker' = marker
  BY <1>1, NextTask
<1>3. CASE NextCalls /\ tasks = "preparation"
  <2>1. /\ task' \in 2 .. 7 /\ tasks' = "preparation" /\ running' = running
        /\ task' = IF task = 2 THEN 4 ELSE task + 1
        /\ saved_passphrase
    <3>1. M!TaskList[tasks][task].action \in {"CREATE_MARKER", "REMOVE_MARKER"}
             <=> task = 2
      <4>1. task # 3
        BY <1>3 DEF MaskInv
      <4> QED
        BY <1>1, <1>3, <4>1, PreparationTasks, TaskFacts
    <3> QED
      BY <1>1, <1>3, <3>1 DEF NextCalls, MaskInv
  <2>2. marker'
    <3>1. marker
      BY <1>3 DEF MaskInv, Restarts
    <3>2. CASE task = 2
      <4>1. M!TaskList[tasks][task].action = "CREATE_MARKER"
        BY <1>3, <3>2, PreparationTasks
      <4> QED
        BY <3>1, <4>1 DEF M!handle_next_unit_task, M!MarkerTask
    <3>3. CASE task # 2
      <4>1. task # 3
        BY <1>3 DEF MaskInv
      <4>2. marker' = marker
        BY <1>1, <1>2, <3>3, <4>1, TaskFacts
      <4> QED
        BY <3>1, <4>2
    <3> QED
      BY <3>2, <3>3
  <2>3. /\ task' >= 5 => preparation
        /\ task' >= 6 => masked
        /\ task' = 7 => loaded_mask
        /\ task' # 3
    BY <1>1, <1>3, <2>1 DEF MaskInv
  <2>4. preparation => ~mounted
    BY <1>3, <2>1 DEF MaskInv, Restarts
  <2> QED
    BY <2>1, <2>2, <2>3, <2>4 DEF MaskInv
<1>4. CASE NextPrepared
  <2>1. /\ preparation /\ loaded_mask /\ ~mounted /\ tasks' = "NULL" /\ marker
    BY <1>4 DEF NextPrepared, MaskInv, Restarts
  <2>2. marker' = marker
    BY <1>1, <1>2, <1>4, TaskFacts DEF NextPrepared
  <2> QED
    BY <2>1, <2>2 DEF MaskInv
<1>5. CASE NextRestarted \/ (NextCalls /\ tasks # "preparation")
  <2>1. ~running' \/ tasks' \in Restarts
    BY <1>1, <1>5, ListNames DEF NextRestarted, NextCalls, Restarts
  <2> QED
    BY <2>1 DEF MaskInv, Restarts
<1> QED
  BY <1>2, <1>3, <1>4, <1>5

\* Steps of the clients, of the process and of the encryption job.
LEMMA MaskClient ==
    ASSUME ClientInv, MaskInv,
           \/ SettingsPrepare \/ UiEncrypt \/ UiEncryptionFinished \/ UiFinalize
           \/ JobCallback \/ DeviceFormatted \/ PropertyAnnounced
           \/ QuitIfIdle \/ Crash \/ Activate \/ UNCHANGED client_vars
    PROVE  MaskInv'
<1>1. CASE SettingsPrepare
  <2>1. PrepareToEncrypt("zero") /\ ~preparation
    BY <1>1 DEF SettingsPrepare, ClientInv, PlacesInv
  <2>2. CASE running' = FALSE
    BY <2>2 DEF MaskInv
  <2>3. CASE private_data = "NULL" /\ M!prepare
    <3>1. task = 1 /\ tasks = "NULL"
      BY <1>1, <2>1, <2>3
      DEF PrepareToEncrypt, ClientInv, HostInv, CallInv, ReplyInv, InFlight
    <3>2. marker
      BY <2>1, <3>1 DEF PrepareToEncrypt, MaskInv, Restarts
    <3> QED
      BY <1>1, <2>1, <2>3, <3>1, <3>2
      DEF SettingsPrepare, PrepareToEncrypt, M!prepare, M!unit_vars, M!file_vars,
          MaskInv
  <2> QED
    BY <1>1, <2>1, <2>2, <2>3 DEF PrepareToEncrypt, SettingsPrepare
<1>2. CASE UiFinalize
  <2>1. CASE UNCHANGED vars
    BY <2>1, MaskKept
  <2>2. CASE tasks' \in Restarts
    BY <2>2 DEF MaskInv, Restarts
  <2> QED
    BY <1>2, <2>1, <2>2 DEF UiFinalize, FinalizeEncryption, M!finalize, Restarts
<1>3. CASE Activate
  BY <1>3 DEF Activate, M!ServiceReset, M!file_vars, MaskInv
<1>4. CASE UiEncrypt
  <2>1. UNCHANGED <<manage_only, main_vars, running, mounted>>
    BY <1>4 DEF UiEncrypt, BeginEncryption, E!BeginEncryption, E!start_to_encrypt,
                E!encrypt_vars, E!disk_vars
  <2> QED
    BY <2>1, MaskKept
<1>5. CASE JobCallback
  <2>1. Job!CallbackEffect
    BY <1>5, Job!CallbackStage, SameCallback, SameTypes
    DEF JobCallback, ClientInv, HostInv, ServiceInv
  <2>2. running /\ (mounted' => mounted) /\ UNCHANGED <<manage_only, main_vars>>
    BY <1>5, <2>1 DEF Job!CallbackEffect, JobCallback
  <2> QED
    BY <2>2, MaskKept
<1>6. CASE \/ UiEncryptionFinished \/ DeviceFormatted \/ PropertyAnnounced
           \/ QuitIfIdle \/ Crash \/ UNCHANGED client_vars
  <2>1. /\ UNCHANGED <<manage_only, mounted, saved_passphrase>>
        /\ running' => running
    BY <1>6 DEF UiEncryptionFinished, DeviceFormatted, PropertyAnnounced,
       QuitIfIdle, Crash, client_vars, E!UDisksJob, E!UDisksTearsDown,
       E!UDisksFormats, E!UDisksConfigures, E!PropertyAnnounced
  <2> QED
    BY <2>1, MaskKept
<1> QED
  BY <1>1, <1>2, <1>3, <1>4, <1>5, <1>6

LEMMA MaskCallback ==
    ASSUME ClientInv, MaskInv, ManageCallback
    PROVE  MaskInv'
<1>1. /\ HostInv /\ M!ManageTypeOK /\ CallInv /\ ReplyInv
      /\ UNCHANGED main_vars /\ M!ManageCallback
  BY DEF ClientInv, HostInv, ManageCallback
<1>2. running' \in {running, FALSE} /\ mounted' = mounted
  BY <1>1, ManageCallbackRuns
<1>3. running' => running
  BY <1>1, <1>2 DEF M!ManageTypeOK
<1>4. CASE Connects
  <2>1. ConnectEffect
    BY <1>1, <1>4, ConnectStep
  <2> QED
    BY <1>1, <1>2, <1>3, <2>1, MaskKept
    DEF ConnectEffect, M!systemd_vars, M!unit_vars, M!file_vars
<1>5. CASE M!unit_changing_state
  <2>1. /\ UNCHANGED <<preparation, masked, loaded_mask, job_result>>
        /\ running /\ awaiting = "reply" /\ answer # "none" /\ answer' = "none"
        /\ tasks # "NULL" /\ task > 1 /\ tasks \in DOMAIN M!TaskList
    BY <1>1, <1>5
    DEF M!unit_changing_state, M!Returns, M!unit_vars, CallInv, InFlight,
        M!ManageTypeOK
  <2>2. CASE answer = "ok" /\ M!handle_next_unit_task
    <3>1. job_result = "none" /\ Called.action \notin {"START_UNIT", "STOP_UNIT"}
      BY <1>1, <2>1, <2>2 DEF ReplyInv
    <3>2. tasks = "preparation" => task # 4
      BY <3>1, PreparationTasks DEF Called
    <3>3. tasks = "preparation" =>
             /\ task = 4 => preparation
             /\ task = 5 => masked
             /\ task = 6 => loaded_mask
      BY <2>1, <2>2, <3>2 DEF MaskInv
    <3> QED
      BY <1>1, <1>2, <2>1, <2>2, <3>1, <3>3, MaskNext
  <2>3. CASE UNCHANGED <<tasks, task, marker>>
    BY <1>1, <1>2, <1>3, <2>1, <2>3, MaskKept
  <2> QED
    BY <1>5, <2>2, <2>3 DEF M!unit_changing_state
<1>6. CASE M!on_signal_from_systemd
  <2>1. /\ UNCHANGED <<preparation, masked, loaded_mask, answer>>
        /\ running /\ awaiting = "JobRemoved" /\ job_result' = "none"
        /\ tasks # "NULL" /\ task > 1 /\ tasks \in DOMAIN M!TaskList
        /\ answer = "none"
    BY <1>1, <1>6
    DEF M!on_signal_from_systemd, M!Returns, M!unit_vars, CallInv, ReplyInv,
        InFlight, M!ManageTypeOK
  <2>2. CASE job_result = "done" /\ M!handle_next_unit_task
    <3>1. Called.action \in {"START_UNIT", "STOP_UNIT"}
      BY <1>1, <2>2 DEF CallInv
    <3>2. tasks = "preparation" => task # 5 /\ task # 6
      BY <3>1, PreparationTasks DEF Called
    <3>3. tasks = "preparation" =>
             /\ task = 4 => preparation
             /\ task = 5 => masked
             /\ task = 6 => loaded_mask
      BY <2>1, <2>2, <3>2 DEF MaskInv
    <3> QED
      BY <1>1, <1>2, <2>1, <2>2, <3>3, MaskNext
  <2>3. CASE UNCHANGED <<tasks, task, marker>>
    BY <1>1, <1>2, <1>3, <2>1, <2>3, MaskKept
  <2> QED
    BY <1>6, <2>2, <2>3 DEF M!on_signal_from_systemd
<1> QED
  BY <1>1, <1>4, <1>5, <1>6 DEF M!ManageCallback, Connects

LEMMA MaskHost ==
    ASSUME ClientInv, MaskInv, "home_busy" \notin ManageFault, ManageHost
    PROVE  MaskInv'
<1>1. /\ HostInv /\ M!ManageTypeOK /\ CallInv /\ ReplyInv /\ PlacesInv
      /\ UNCHANGED main_vars
  BY DEF ClientInv, HostInv, ManageHost
<1>2. CASE M!UserRemoved
  <2>1. UNCHANGED <<preparation, masked, loaded_mask, mounted, answer, job_result>>
    BY <1>2 DEF M!UserRemoved, M!unit_vars
  <2>2. CASE M!Returns("UserRemoved") /\ M!handle_next_unit_task
    <3>1. /\ running /\ tasks # "NULL" /\ task = 1 /\ answer = "none"
          /\ job_result = "none"
      BY <1>1, <2>2 DEF M!Returns, CallInv, ReplyInv, InFlight
    <3> QED
      BY <1>1, <2>1, <2>2, <3>1, MaskNext
  <2>3. CASE UNCHANGED <<running, tasks, task, marker>>
    BY <1>1, <2>1, <2>3, MaskKept
  <2> QED
    BY <1>2, <2>2, <2>3 DEF M!UserRemoved
<1>3. CASE M!UnitCallServed
  <2>1. /\ UNCHANGED <<running, tasks, task, awaiting, job_result, marker, mounted>>
        /\ unit_call # M!NoTask /\ unit_call = Called
        /\ tasks \in DOMAIN M!TaskList /\ task \in 2 .. 7
    <3>1. /\ UNCHANGED <<running, tasks, task, awaiting, job_result, marker, mounted>>
          /\ unit_call # M!NoTask
      BY <1>3 DEF M!UnitCallServed, M!service_vars, M!file_vars
    <3>2. Engaged
      BY <3>1 DEF Engaged
    <3> QED
      BY <1>1, <3>1, <3>2, EngagedFacts DEF CallInv
  <2>2. /\ preparation' = preparation
        /\ answer' = "ok" => unit_call.action \notin {"START_UNIT", "STOP_UNIT"}
    BY <1>3
    DEF M!UnitCallServed, M!CallRefused, M!JobQueued, M!UnitsReloaded,
        M!UnitEnabled, M!UnitMasked, M!Answers, M!unit_vars
  <2>3. CASE tasks # "preparation"
    BY <1>1, <2>1, <2>3, ListNames DEF MaskInv, Restarts
  <2>4. CASE tasks = "preparation"
    <3>1. unit_call = M!TaskList["preparation"][task - 1]
      BY <2>1, <2>4 DEF Called
    <3>2. /\ unit_call.action = "MASK_UNIT" => task = 5
          /\ unit_call.action = "RELOAD_UNITS" => task = 2 \/ task = 6
          /\ unit_call.action # "UNMASK_UNIT"
          /\ task = 5 => unit_call.action = "MASK_UNIT"
          /\ task = 6 => unit_call.action = "RELOAD_UNITS"
      <4>1. task = 2 \/ task = 3 \/ task = 4 \/ task = 5 \/ task = 6 \/ task = 7
        BY <2>1
      <4> QED
        BY <3>1, <4>1, PreparationTasks
    <3>3. /\ masked' = masked \/ (masked' = TRUE /\ task = 5)
          /\ task = 5 /\ answer' = "ok" => masked'
      BY <1>3, <3>2
      DEF M!UnitCallServed, M!CallRefused, M!JobQueued, M!UnitsReloaded,
          M!UnitEnabled, M!UnitMasked, M!Answers, M!unit_vars
    <3>4. /\ loaded_mask' = loaded_mask
             \/ (loaded_mask' = masked /\ (task = 2 \/ task = 6))
          /\ task = 6 /\ answer' = "ok" => loaded_mask' = masked
      BY <1>3, <3>2
      DEF M!UnitCallServed, M!CallRefused, M!JobQueued, M!UnitsReloaded,
          M!UnitEnabled, M!UnitMasked, M!Answers, M!unit_vars
    <3>5. UNCHANGED saved_passphrase
      BY <1>1
    <3> QED
      BY <2>1, <2>2, <2>4, <3>3, <3>4, <3>5 DEF MaskInv, Restarts
  <2> QED
    BY <2>3, <2>4
<1>4. CASE M!SessionStarts
  <2>1. /\ UNCHANGED <<running, tasks, task, answer, job, job_result, preparation,
                       masked, loaded_mask, marker>>
        /\ job = StartDefaultTask
        /\ mounted' = mounted \/ ~loaded_mask
    BY <1>4 DEF M!SessionStarts, M!service_vars, M!systemd_vars, M!unit_vars,
                M!file_vars, StartDefaultTask
  <2>2. tasks \in DOMAIN M!TaskList /\ task = 7
    <3>1. job # M!NoTask
      BY <2>1, TaskParts
    <3>2. Engaged /\ Called = StartDefaultTask
      BY <1>1, <2>1, <3>1 DEF Engaged, CallInv
    <3> QED
      BY <1>1, <3>2, EngagedFacts
  <2>3. CASE running /\ tasks = "preparation"
    <3>1. mounted' = mounted
      BY <2>1, <2>2, <2>3 DEF MaskInv
    <3> QED
      BY <1>1, <2>1, <3>1, MaskKept
  <2>4. CASE ~running \/ tasks \in Restarts
    BY <2>1, <2>4 DEF MaskInv, Restarts
  <2> QED
    BY <1>1, <2>2, <2>3, <2>4, ListNames DEF M!ManageTypeOK, Restarts
<1>5. CASE M!JobRuns
  <2>1. /\ UNCHANGED <<running, tasks, task, answer, masked, loaded_mask>>
        /\ job # M!NoTask
    BY <1>5 DEF M!JobRuns, M!service_vars
  <2>2. Engaged /\ job = Called /\ tasks \in DOMAIN M!TaskList /\ task \in 2 .. 7
    BY <1>1, <2>1, EngagedFacts DEF Engaged, CallInv
  <2>3. CASE ~running \/ tasks \in Restarts
    BY <2>1, <2>3 DEF MaskInv, Restarts
  <2>4. CASE running /\ tasks = "preparation"
    <3>1. CASE job = StartPreparationTask /\ M!StartPreparation
      <4>1. task = 4 /\ marker /\ saved_passphrase
        BY <1>1, <2>2, <2>4, <3>1, EngagedFacts DEF MaskInv, Restarts
      <4>2. /\ preparation' /\ marker' = marker
            /\ mounted' = FALSE \/ (preparation /\ mounted' = mounted)
        <5>1. CASE ~preparation /\ M!PreparationScript
          BY <5>1 DEF M!PreparationScript
        <5>2. CASE preparation /\ UNCHANGED <<preparation, marker, mounted>>
          BY <5>2
        <5> QED
          BY <3>1, <4>1, <5>1, <5>2 DEF M!StartPreparation
      <4>3. ~mounted'
        BY <2>4, <4>1, <4>2 DEF MaskInv, Restarts
      <4> QED
        BY <1>1, <2>1, <2>4, <4>1, <4>2, <4>3 DEF MaskInv, Restarts
    <3>2. CASE job = StartDefaultTask /\ M!StartDefaultTarget
      <4>1. task = 7
        BY <1>1, <2>2, <3>2, EngagedFacts
      <4>2. UNCHANGED <<preparation, marker, mounted>>
        BY <3>2 DEF M!StartDefaultTarget
      <4> QED
        BY <1>1, <2>1, <2>4, <4>1, <4>2 DEF MaskInv, Restarts
    <3>3. CASE M!JobFails
      <4>1. UNCHANGED <<preparation, marker, mounted>> /\ job_result' # "done"
        BY <3>3 DEF M!JobFails, M!JobEnds
      <4> QED
        BY <1>1, <2>1, <4>1, MaskKept
    <3>4. job # StopPreparationTask /\ job # StartMountTask
      <4>1. tasks \notin Restarts
        BY <2>4 DEF Restarts
      <4> QED
        BY <1>1, <2>2, <4>1, EngagedFacts
    <3> QED
      BY <1>5, <3>1, <3>2, <3>3, <3>4
      DEF M!JobRuns, M!StartPreparation, M!StopPreparation, M!StartHomeMount,
          M!StartDefaultTarget, StartPreparationTask, StopPreparationTask,
          StartMountTask, StartDefaultTask
  <2> QED
    BY <1>1, <2>2, <2>3, <2>4, ListNames DEF M!ManageTypeOK, Restarts
<1> QED
  BY <1>2, <1>3, <1>4, <1>5 DEF ManageHost, M!ManageHost

\* Once the preparation is over /home stays unmounted until the finalization,
\* whatever default.target pulls in (manage.c preparation_tasks), provided that
\* nothing keeps home.mount from being stopped, of which the service is not told.
\* A marker that cannot be written does no harm here: the service has been started
\* only because it is there.
THEOREM PreparedHomeStaysMasked ==
    ASSUME "home_busy" \notin ManageFault
    PROVE  ClientSpec => []PreparedHomeIsMasked
<1>1. ClientInit => MaskInv
  BY DEF ClientInit, Init, M!ManageInit, M!ServiceInit, M!HostInit, MaskInv
<1>2. ClientInv /\ MaskInv /\ [ClientNext]_client_vars => MaskInv'
  <2> SUFFICES ASSUME ClientInv, MaskInv, [ClientNext]_client_vars PROVE MaskInv'
    OBVIOUS
  <2>1. CASE ManageCallback
    BY <2>1, MaskCallback
  <2>2. CASE ManageHost
    BY <2>2, MaskHost
  <2> QED
    BY <2>1, <2>2, MaskClient DEF ClientNext, ServiceStep
<1>3. ClientInv /\ MaskInv => PreparedHomeIsMasked
  BY DEF MaskInv, PreparedHomeIsMasked, Restarts
<1> QED
  BY <1>1, <1>2, <1>3, ClientCorrect, PTL DEF ClientSpec

-----------------------------------------------------------------------------
(* The host after a restart *)

\* How far the finalization or restoration has got: home.mount is unmasked and the
\* preparation undone before the session starts, and nobody ends that session.
RestoreInv ==
    /\ running => private_data # "freed"
    /\ running /\ awaiting \in InFlight => ~terminating
    /\ running /\ tasks \in Restarts =>
          /\ (task = 2 /\ answer = "ok") \/ task >= 3 => ~masked
          /\ (task = 3 /\ answer = "ok") \/ task >= 4 => ~loaded_mask
          /\ (task = 6 /\ job_result = "done") \/ task = 7 => ~preparation
          /\ task = 7 /\ job_result = "done" => session

LEMMA RestartTasks ==
    ASSUME NEW l \in Restarts
    PROVE  /\ l \in DOMAIN M!TaskList
           /\ M!TaskList[l][1].action = "UNMASK_UNIT"
           /\ M!TaskList[l][2].action = "RELOAD_UNITS"
           /\ M!TaskList[l][3].action \in {"ENABLE_UNIT", "REMOVE_MARKER"}
           /\ M!TaskList[l][4].action = "START_UNIT"
           /\ M!TaskList[l][5].action = "STOP_UNIT"
           /\ M!TaskList[l][6].action = "START_UNIT"
<1>1. CASE l = "finalization"
  <2>1. M!TaskList[l] = M!finalization_tasks
    BY <1>1 DEF M!TaskList
  <2>2. /\ M!finalization_tasks[1].action = "UNMASK_UNIT"
        /\ M!finalization_tasks[2].action = "RELOAD_UNITS"
        /\ M!finalization_tasks[3].action = "ENABLE_UNIT"
        /\ M!finalization_tasks[4].action = "START_UNIT"
        /\ M!finalization_tasks[5].action = "STOP_UNIT"
        /\ M!finalization_tasks[6].action = "START_UNIT"
    BY DEF M!finalization_tasks, M!Task
  <2> QED
    BY <1>1, <2>1, <2>2, ListNames
<1>2. CASE l = "restoration"
  <2>1. M!TaskList[l] = M!restoration_tasks
    BY <1>2 DEF M!TaskList
  <2>2. /\ M!restoration_tasks[1].action = "UNMASK_UNIT"
        /\ M!restoration_tasks[2].action = "RELOAD_UNITS"
        /\ M!restoration_tasks[3].action = "REMOVE_MARKER"
        /\ M!restoration_tasks[4].action = "START_UNIT"
        /\ M!restoration_tasks[5].action = "STOP_UNIT"
        /\ M!restoration_tasks[6].action = "START_UNIT"
    BY DEF M!restoration_tasks, M!Task
  <2> QED
    BY <1>2, <2>1, <2>2, ListNames
<1> QED
  BY <1>1, <1>2 DEF Restarts

LEMMA RestoreKept ==
    ASSUME RestoreInv,
           UNCHANGED <<tasks, task, preparation, masked, loaded_mask>>,
           running' => running, private_data' = private_data,
           awaiting' \in InFlight => awaiting \in InFlight,
           terminating' => terminating, session => session',
           answer' = "ok" => answer = "ok", job_result' = "done" => job_result = "done"
    PROVE  RestoreInv'
BY DEF RestoreInv

\* The service goes on with its list.
LEMMA RestoreNext ==
    ASSUME ClientInv, RestoreInv, running, tasks # "NULL", M!handle_next_unit_task,
           UNCHANGED <<preparation, masked, loaded_mask>>, ~terminating',
           answer' = "none", job_result' = "none",
           tasks \in Restarts =>
               /\ task = 2 => ~masked
               /\ task = 3 => ~loaded_mask
               /\ task = 6 => ~preparation
    PROVE  RestoreInv'
<1>1. M!ManageTypeOK /\ tasks \in DOMAIN M!TaskList /\ task \in 1 .. 7
  BY DEF ClientInv, HostInv, M!ManageTypeOK
<1>2. NextCalls \/ NextPrepared \/ NextRestarted
  BY <1>1, NextTask
<1>3. CASE NextCalls /\ tasks \in Restarts
  <2>1. task' = task + 1 \/ (task = 3 /\ task' = 5)
    <3>1. M!TaskList[tasks][task].action \in {"CREATE_MARKER", "REMOVE_MARKER"}
             => task = 3
      BY <1>1, <1>3, RestartTasks, TaskFacts
    <3> QED
      BY <1>1, <1>3, <3>1 DEF NextCalls
  <2>2. /\ task' >= 3 => ~masked
        /\ task' >= 4 => ~loaded_mask
        /\ task' = 7 => ~preparation
    BY <1>1, <1>3, <2>1 DEF RestoreInv
  <2>3. task' \in 2 .. 7 /\ private_data' # "freed"
    BY <1>3 DEF NextCalls, RestoreInv
  <2> QED
    BY <2>2, <2>3 DEF RestoreInv
<1>4. CASE (NextCalls /\ tasks \notin Restarts) \/ NextPrepared
  <2>1. tasks' \notin Restarts /\ private_data' # "freed"
    BY <1>4 DEF NextCalls, NextPrepared, Restarts, RestoreInv
  <2> QED
    BY <2>1 DEF RestoreInv
<1>5. CASE NextRestarted
  BY <1>5 DEF NextRestarted, RestoreInv
<1> QED
  BY <1>2, <1>3, <1>4, <1>5

LEMMA RestoreClient ==
    ASSUME ClientInv, RestoreInv,
           \/ SettingsPrepare \/ UiEncrypt \/ UiEncryptionFinished \/ UiFinalize
           \/ JobCallback \/ DeviceFormatted \/ PropertyAnnounced
           \/ QuitIfIdle \/ Crash \/ Activate \/ UNCHANGED client_vars
    PROVE  RestoreInv' /\ (Restarting => private_data' # "freed")
<1> USE DEF Restarting
<1>0. HostInv /\ CallInv /\ ReplyInv
  BY DEF ClientInv, HostInv
<1>1. CASE SettingsPrepare
  <2>1. PrepareToEncrypt("zero")
    BY <1>1 DEF SettingsPrepare
  <2>2. CASE running' = FALSE /\ UNCHANGED manage_only
    BY <2>2 DEF RestoreInv
  <2>3. CASE private_data = "NULL" /\ M!prepare
    BY <2>3 DEF M!prepare, RestoreInv, InFlight, Restarts
  <2> QED
    BY <1>1, <2>1, <2>2, <2>3 DEF PrepareToEncrypt, SettingsPrepare
<1>2. CASE UiFinalize
  <2>1. CASE UNCHANGED vars
    <3>1. RestoreInv'
      BY <2>1, RestoreKept
    <3> QED
      BY <2>1, <3>1 DEF RestoreInv
  <2>2. ASSUME NEW restore \in BOOLEAN, ~M!FinalizeRefused, M!finalize(restore), running
        PROVE  RestoreInv' /\ tasks = "NULL"
    <3>1. task = 1 /\ tasks = "NULL"
      BY <1>0, <2>2 DEF HostInv, CallInv, ReplyInv, M!FinalizeRefused, InFlight
    <3>2. CASE awaiting' \in {"bus", "UserRemoved"} /\ private_data' # "freed"
      BY <2>2, <3>1, <3>2 DEF M!finalize, M!systemd_vars, RestoreInv, InFlight
    <3>3. CASE running' = FALSE
      BY <3>1, <3>3 DEF RestoreInv
    <3> QED
      BY <2>2, <3>1, <3>2, <3>3
      DEF M!finalize, M!terminate_user, M!GivesUp, RestoreInv
  <2>3. (status = "FAILED" /\ saved_passphrase) \in BOOLEAN
    OBVIOUS
  <2> QED
    BY <1>2, <2>1, <2>2, <2>3 DEF UiFinalize, FinalizeEncryption
<1>3. CASE Activate
  BY <1>3 DEF Activate, M!ServiceReset, RestoreInv, InFlight, Restarts
<1>4. CASE UiEncrypt
  <2>1. UNCHANGED <<manage_only, running>>
    BY <1>4 DEF UiEncrypt, BeginEncryption, E!BeginEncryption, E!start_to_encrypt,
                E!encrypt_vars
  <2>2. RestoreInv'
    BY <2>1, RestoreKept
  <2> QED
    BY <2>1, <2>2 DEF RestoreInv
<1>5. CASE JobCallback
  <2>1. Job!CallbackEffect
    BY <1>5, Job!CallbackStage, SameCallback, SameTypes
    DEF JobCallback, ClientInv, HostInv, ServiceInv
  <2>2. running /\ UNCHANGED manage_only
    BY <1>5, <2>1 DEF Job!CallbackEffect, JobCallback
  <2>3. RestoreInv'
    BY <2>2, RestoreKept
  <2> QED
    BY <2>2, <2>3 DEF RestoreInv
<1>6. CASE \/ UiEncryptionFinished \/ DeviceFormatted \/ PropertyAnnounced
           \/ QuitIfIdle \/ Crash \/ UNCHANGED client_vars
  <2>1. /\ UNCHANGED manage_only
        /\ running' => running
    BY <1>6 DEF UiEncryptionFinished, DeviceFormatted, PropertyAnnounced,
       QuitIfIdle, Crash, client_vars, E!UDisksJob, E!UDisksTearsDown,
       E!UDisksFormats, E!UDisksConfigures, E!PropertyAnnounced
  <2>2. RestoreInv'
    BY <2>1, RestoreKept
  <2> QED
    BY <2>1, <2>2 DEF RestoreInv
<1> QED
  BY <1>1, <1>2, <1>3, <1>4, <1>5, <1>6

\* The end of a restart finds the host as the property says.
RestoredHost ==
    /\ ~masked /\ ~loaded_mask
    /\ orig_usb_mode # "NULL" => usb_mode' = orig_usb_mode
    /\ session /\ mounted /\ user_home = "/home"

LEMMA RestoreCallback ==
    ASSUME ClientInv, RestoreInv, "mode_restore" \notin ManageFault, ManageCallback
    PROVE  /\ RestoreInv'
           /\ Restarting /\ private_data' = "freed" /\ awaiting = "JobRemoved"
                 => RestoredHost
<1>1. /\ HostInv /\ M!ManageTypeOK /\ CallInv /\ ReplyInv /\ M!ManageCallback
  BY DEF ClientInv, HostInv, ManageCallback
<1>2. running' \in {running, FALSE}
  BY <1>1, ManageCallbackRuns
<1>3. running' => running
  BY <1>1, <1>2 DEF M!ManageTypeOK
<1>4. CASE Connects
  <2>1. ConnectEffect
    BY <1>1, <1>4, ConnectStep
  <2>2. running /\ task = 1 /\ awaiting # "JobRemoved"
    BY <1>1, <2>1 DEF ConnectEffect, ReplyInv, Connecting, InFlight
  <2>3. awaiting' \notin InFlight /\ task' = 1
    BY <2>1, <2>2 DEF ConnectEffect, Connecting, InFlight
  <2>4. running' => private_data' # "freed"
    BY <2>1, <2>2 DEF ConnectEffect, RestoreInv
  <2> QED
    BY <2>2, <2>3, <2>4 DEF RestoreInv
<1>5. CASE M!unit_changing_state
  <2>1. /\ UNCHANGED <<preparation, masked, loaded_mask, job_result, session,
                       terminating>>
        /\ running /\ awaiting = "reply" /\ answer # "none" /\ answer' = "none"
        /\ tasks # "NULL" /\ tasks \in DOMAIN M!TaskList /\ ~terminating
    BY <1>1, <1>5
    DEF M!unit_changing_state, M!Returns, M!unit_vars, CallInv, InFlight,
        M!ManageTypeOK, RestoreInv
  <2>2. CASE answer = "ok" /\ M!handle_next_unit_task
    <3>1. job_result = "none" /\ Called.action \notin {"START_UNIT", "STOP_UNIT"}
      BY <1>1, <2>1, <2>2 DEF ReplyInv
    <3>2. tasks \in Restarts => task # 6
      BY <3>1, RestartTasks DEF Called
    <3>3. tasks \in Restarts =>
             /\ task = 2 => ~masked
             /\ task = 3 => ~loaded_mask
             /\ task = 6 => ~preparation
      BY <2>1, <2>2, <3>2 DEF RestoreInv
    <3> QED
      BY <1>1, <2>1, <2>2, <3>1, <3>3, RestoreNext
  <2>3. CASE M!GivesUp
    BY <2>1, <2>3 DEF M!GivesUp, RestoreInv
  <2>4. CASE awaiting' = "JobRemoved" /\ UNCHANGED <<running, private_data, tasks, task>>
    <3>1. awaiting \in InFlight
      BY <2>1 DEF InFlight
    <3> QED
      BY <2>1, <2>4, <3>1, RestoreKept
  <2> QED
    BY <1>5, <2>2, <2>3, <2>4 DEF M!unit_changing_state
<1>6. CASE M!on_signal_from_systemd
  <2>1. /\ UNCHANGED <<preparation, masked, loaded_mask, answer, session, terminating,
                       orig_usb_mode>>
        /\ running /\ awaiting = "JobRemoved" /\ job_result' = "none"
        /\ tasks # "NULL" /\ tasks \in DOMAIN M!TaskList /\ ~terminating
        /\ answer = "none"
    BY <1>1, <1>6
    DEF M!on_signal_from_systemd, M!Returns, M!unit_vars, CallInv, ReplyInv,
        InFlight, M!ManageTypeOK, RestoreInv
  <2>2. CASE job_result = "done" /\ M!handle_next_unit_task
    <3>1. Called.action \in {"START_UNIT", "STOP_UNIT"}
      BY <1>1, <2>2 DEF CallInv
    <3>2. tasks \in Restarts => task # 2 /\ task # 3
      BY <3>1, RestartTasks DEF Called
    <3>3. tasks \in Restarts =>
             /\ task = 2 => ~masked
             /\ task = 3 => ~loaded_mask
             /\ task = 6 => ~preparation
      BY <2>1, <2>2, <3>2 DEF RestoreInv
    <3>4. RestoreInv'
      BY <1>1, <2>1, <2>2, <3>3, RestoreNext
    <3>5. ASSUME Restarting, private_data' = "freed" PROVE RestoredHost
      <4>1. NextRestarted
        BY <1>1, <2>1, <2>2, <3>5, NextTask
        DEF NextCalls, NextPrepared, RestoreInv
      <4>2. task = 7 /\ running /\ tasks \in Restarts
        BY <2>1, <4>1 DEF NextRestarted
      <4>3. ~masked /\ ~loaded_mask /\ ~preparation /\ session
        BY <2>2, <4>2 DEF RestoreInv
      <4>4. mounted /\ user_home = "/home"
        BY <1>1, <4>3 DEF ClientInv, PlacesInv, M!ManageTypeOK
      <4>5. orig_usb_mode # "NULL" => usb_mode' = orig_usb_mode
        <5>1. M!TaskList[tasks][task].action = "END_OF_MANAGE_TASKS"
          BY <2>1, <4>2, TaskFacts
        <5>2. M!RestartDone
          BY <2>2, <4>2, <5>1
          DEF M!handle_next_unit_task, M!StartTask, M!PreparationDone, Restarts
        <5> QED
          BY <5>2 DEF M!RestartDone
      <4> QED
        BY <4>3, <4>4, <4>5 DEF RestoredHost
    <3> QED
      BY <3>4, <3>5
  <2>3. CASE UNCHANGED <<running, private_data, tasks, task, awaiting>>
    <3>1. RestoreInv'
      BY <2>1, <2>3, RestoreKept
    <3> QED
      BY <2>1, <2>3, <3>1 DEF RestoreInv
  <2> QED
    BY <1>6, <2>2, <2>3 DEF M!on_signal_from_systemd
<1> QED
  BY <1>1, <1>4, <1>5, <1>6 DEF M!ManageCallback, Connects

LEMMA RestoreHost ==
    ASSUME ClientInv, RestoreInv, "session_gone" \notin ManageFault, ManageHost
    PROVE  /\ RestoreInv'
           /\ ~(/\ Restarting /\ private_data' = "freed"
                /\ awaiting \in {"UserRemoved", "JobRemoved"})
<1>1. /\ HostInv /\ M!ManageTypeOK /\ CallInv /\ ReplyInv
  BY DEF ClientInv, HostInv
<1>2. CASE M!UserRemoved
  <2>1. /\ UNCHANGED <<preparation, masked, loaded_mask, answer, job_result>>
        /\ terminating /\ terminating' = FALSE
    BY <1>2 DEF M!UserRemoved, M!unit_vars
  <2>2. CASE M!Returns("UserRemoved") /\ M!handle_next_unit_task
    <3>1. /\ running /\ tasks # "NULL" /\ task = 1 /\ answer = "none"
          /\ job_result = "none"
      BY <1>1, <2>2 DEF M!Returns, CallInv, ReplyInv, InFlight
    <3>2. RestoreInv'
      BY <1>1, <2>1, <2>2, <3>1, RestoreNext
    <3>3. private_data' # "freed"
      BY <1>1, <2>2, <3>1, NextTask DEF NextCalls, NextPrepared, NextRestarted, RestoreInv
    <3> QED
      BY <3>2, <3>3
  <2>3. CASE UNCHANGED <<running, private_data, tasks, task, awaiting>>
    <3>1. running => awaiting \notin InFlight /\ task = 1
      BY <1>1, <2>1 DEF RestoreInv, ReplyInv
    <3> QED
      BY <2>1, <2>3, <3>1 DEF RestoreInv, Restarting
  <2> QED
    BY <1>2, <2>2, <2>3 DEF M!UserRemoved
<1>3. CASE M!UnitCallServed
  <2>1. /\ UNCHANGED <<running, private_data, tasks, task, awaiting, job_result, session,
                       terminating>>
        /\ unit_call # M!NoTask /\ unit_call = Called
        /\ tasks \in DOMAIN M!TaskList /\ task \in 2 .. 7
    <3>1. /\ UNCHANGED <<running, private_data, tasks, task, awaiting, job_result,
                         session, terminating>>
          /\ unit_call # M!NoTask
      BY <1>3 DEF M!UnitCallServed, M!service_vars, M!host_vars
    <3>2. Engaged
      BY <3>1 DEF Engaged
    <3> QED
      BY <1>1, <3>1, <3>2, EngagedFacts DEF CallInv
  <2>2. /\ preparation' = preparation
        /\ answer' = "ok" => unit_call.action \notin {"START_UNIT", "STOP_UNIT"}
    BY <1>3
    DEF M!UnitCallServed, M!CallRefused, M!JobQueued, M!UnitsReloaded,
        M!UnitEnabled, M!UnitMasked, M!Answers, M!unit_vars
  <2>3. CASE tasks \notin Restarts
    BY <2>1, <2>3 DEF RestoreInv, Restarting, Restarts
  <2>4. CASE tasks \in Restarts
    <3>1. unit_call = M!TaskList[tasks][task - 1]
      BY <2>1 DEF Called
    <3>2. /\ unit_call.action = "UNMASK_UNIT" => task = 2
          /\ unit_call.action = "RELOAD_UNITS" => task = 3
          /\ unit_call.action # "MASK_UNIT"
          /\ task = 2 => unit_call.action = "UNMASK_UNIT"
          /\ task = 3 => unit_call.action = "RELOAD_UNITS"
      <4>1. task = 2 \/ task = 3 \/ task = 4 \/ task = 5 \/ task = 6 \/ task = 7
        BY <2>1
      <4> QED
        BY <2>4, <3>1, <4>1, RestartTasks
    <3>3. /\ masked' = masked \/ masked' = FALSE
          /\ task = 2 /\ answer' = "ok" => ~masked'
      BY <1>3, <3>2
      DEF M!UnitCallServed, M!CallRefused, M!JobQueued, M!UnitsReloaded,
          M!UnitEnabled, M!UnitMasked, M!Answers, M!unit_vars
    <3>4. /\ loaded_mask' = loaded_mask
             \/ (loaded_mask' = masked /\ task = 3)
          /\ task = 3 /\ answer' = "ok" => loaded_mask' = masked
      BY <1>3, <3>2
      DEF M!UnitCallServed, M!CallRefused, M!JobQueued, M!UnitsReloaded,
          M!UnitEnabled, M!UnitMasked, M!Answers, M!unit_vars
    <3> QED
      BY <2>1, <2>2, <2>4, <3>3, <3>4 DEF RestoreInv, Restarting
  <2> QED
    BY <2>3, <2>4
<1>4. CASE M!SessionStarts
  <2>1. /\ UNCHANGED <<running, private_data, tasks, task, awaiting, answer, job_result,
                       preparation, masked, loaded_mask, terminating>>
        /\ session' = TRUE
    BY <1>4 DEF M!SessionStarts, M!service_vars, M!systemd_vars, M!unit_vars
  <2>2. RestoreInv'
    BY <2>1, RestoreKept
  <2> QED
    BY <2>1, <2>2 DEF RestoreInv, Restarting
<1>5. CASE M!JobRuns
  <2>1. /\ UNCHANGED <<running, private_data, tasks, task, awaiting, answer, terminating,
                       masked, loaded_mask, session>>
        /\ job # M!NoTask
    BY <1>5
    DEF M!JobRuns, M!service_vars, M!StartPreparation, M!StopPreparation,
        M!StartHomeMount, M!StartDefaultTarget, M!JobFails
  <2>2. Engaged /\ job = Called /\ tasks \in DOMAIN M!TaskList /\ task \in 2 .. 7
    BY <1>1, <2>1, EngagedFacts DEF Engaged, CallInv
  <2>3. CASE ~running \/ tasks \notin Restarts
    BY <2>1, <2>3 DEF RestoreInv, Restarting
  <2>4. CASE running /\ tasks \in Restarts
    <3>1. CASE job = StopPreparationTask /\ M!StopPreparation
      <4>1. task = 6 /\ ~preparation'
        BY <1>1, <2>2, <3>1, EngagedFacts DEF M!StopPreparation, M!FinishScript
      <4> QED
        BY <2>1, <2>4, <4>1 DEF RestoreInv, Restarting
    <3>2. CASE job = StartMountTask /\ M!StartHomeMount
      <4>1. task = 5
        BY <1>1, <2>2, <3>2, EngagedFacts
      <4>2. preparation' = preparation
        BY <3>2 DEF M!StartHomeMount
      <4> QED
        BY <2>1, <2>4, <4>1, <4>2 DEF RestoreInv, Restarting
    <3>3. CASE job = StartDefaultTask /\ M!StartDefaultTarget
      <4>1. task = 7
        BY <1>1, <2>2, <3>3, EngagedFacts
      <4>2. preparation' = preparation /\ session
        BY <3>3 DEF M!StartDefaultTarget
      <4> QED
        BY <2>1, <2>4, <4>1, <4>2 DEF RestoreInv, Restarting
    <3>4. CASE M!JobFails
      <4>1. preparation' = preparation /\ job_result' # "done"
        BY <3>4 DEF M!JobFails, M!JobEnds
      <4>2. RestoreInv'
        BY <2>1, <4>1, RestoreKept
      <4> QED
        BY <2>1, <4>2 DEF RestoreInv, Restarting
    <3>5. job # StartPreparationTask
      <4>1. tasks # "preparation"
        BY <2>4 DEF Restarts
      <4> QED
        BY <1>1, <2>2, <4>1, EngagedFacts
    <3> QED
      BY <1>5, <3>1, <3>2, <3>3, <3>4, <3>5
      DEF M!JobRuns, M!StartPreparation, M!StopPreparation, M!StartHomeMount,
          M!StartDefaultTarget, StartPreparationTask, StopPreparationTask,
          StartMountTask, StartDefaultTask
  <2> QED
    BY <2>3, <2>4
<1> QED
  BY <1>2, <1>3, <1>4, <1>5 DEF ManageHost, M!ManageHost

\* A restart of the session that comes to its end leaves home.mount usable, the
\* session on /home and the USB mode as it had found it (manage.c, the task lists and
\* restore_usb_mode), provided that usb_moded sets the mode it is asked for and the
\* new session does not end by itself; any other fault may happen.
THEOREM RestartLeavesHost ==
    ASSUME "mode_restore" \notin ManageFault, "session_gone" \notin ManageFault
    PROVE  ClientSpec => RestartRestoresHost
<1>1. ClientInit => RestoreInv
  BY DEF ClientInit, Init, M!ManageInit, M!ServiceInit, RestoreInv, InFlight, Restarts
<1>2. ASSUME ClientInv, RestoreInv, [ClientNext]_client_vars
      PROVE  /\ RestoreInv'
             /\ /\ Restarting /\ private_data' = "freed"
                /\ awaiting \in {"UserRemoved", "JobRemoved"}
                => RestoredHost
  <2>1. CASE ManageCallback
    <3>1. Restarting /\ awaiting = "UserRemoved" => private_data' # "freed"
      BY <1>2, <2>1
      DEF RestoreInv, Restarting, ManageCallback, M!ManageCallback, M!Returns,
          M!got_bus, M!got_systemd_manager, M!got_login_manager, M!got_subscription,
          M!got_usb_moded, M!got_mode_request, M!got_set_mode,
          M!unit_changing_state, M!on_signal_from_systemd
    <3> QED
      BY <1>2, <2>1, <3>1, RestoreCallback
  <2>2. CASE ManageHost
    BY <1>2, <2>2, RestoreHost
  <2> QED
    BY <1>2, <2>1, <2>2, RestoreClient DEF ClientNext, ServiceStep
<1>3. ClientInv /\ RestoreInv /\ [ClientNext]_client_vars => RestoreInv'
  BY <1>2
<1>4. ClientInv /\ RestoreInv /\ [ClientNext]_client_vars
        => [ Restarting /\ private_data' = "freed"
                /\ awaiting \in {"UserRemoved", "JobRemoved"}
             => /\ ~masked /\ ~loaded_mask
                /\ orig_usb_mode # "NULL" => usb_mode' = orig_usb_mode
                /\ session /\ mounted /\ user_home = "/home" ]_client_vars
  BY <1>2 DEF RestoredHost
<1> QED
  BY <1>1, <1>3, <1>4, ClientCorrect, PTL DEF ClientSpec, RestartRestoresHost

=============================================================================
