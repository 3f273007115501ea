-------------------------------- MODULE Manage --------------------------------
(***************************************************************************)
(* Preparation and finalization of the encryption                          *)
(* (src/encryption-service/manage.c): the task lists that drive systemd,   *)
(* logind and usb_moded, with what those do for the service and the two    *)
(* scripts of home-encryption-preparation.service.                         *)
(*                                                                         *)
(* As in Encrypt a callback is one action.  systemd executes a method call *)
(* and runs the job it queued in steps of their own, which go on when the  *)
(* service has died.                                                       *)
(***************************************************************************)
EXTENDS Naturals, Sequences

CONSTANTS
    ManageFault,    \* what may go wrong around the service in this instance
    UsbModeAtStart  \* the USB modes the device may be in when it starts

ManageFaultKind ==
    {"bus", "systemd", "login", "subscribe", "usb_moded", "mode_get",
     "mode_set", "mode_restore", "uid", "session_gone", "unit_call", "job",
     "marker_file", "home_busy", "no_space", "cp", "mv"}

\* What a place has for the users: nothing, new homes or what they had.
HomeKind == {"none", "skel", "data"}

VARIABLES
    \* the service
    running,         \* the process is alive; FALSE after g_main_loop_quit
    private_data,    \* the manage_data: "NULL", "live" or "freed"
    connected,       \* private_data->connection # NULL
    tasks,           \* private_data->tasks, "NULL" or the name of a list
    task,            \* private_data->task, counted from 1
    awaiting,        \* the reply or signal the service waits for
    orig_usb_mode,   \* private_data->orig_usb_mode
    \* systemd, logind and usb_moded
    unit_call,       \* the method call systemd has still to execute
    answer,          \* its reply: "ok", "job" (an object path) or "error"
    job,             \* the job systemd is running
    job_result,      \* the result of the JobRemoved signal on its way
    session,         \* the session of the device owner is running
    terminating,     \* logind has been told to terminate it
    usb_mode,
    masked,          \* home.mount is masked in /run
    loaded_mask,     \* and systemd has loaded that
    actdead_enabled, \* jolla-actdead-charging.service is enabled
    preparation,     \* home-encryption-preparation.service is active
    \* the file system
    marker,          \* /var/lib/sailfish-device-encryption/encrypt-home
    user_home,       \* where passwd says the home directories are
    tmp_home,        \* the home directories in /tmp/home
    home_dirs,       \* the home directories on the home partition
    \* written by the encryption job
    disk, crypttab, mounted

service_vars == <<running, private_data, connected, tasks, task, awaiting,
                  orig_usb_mode>>
systemd_vars == <<unit_call, answer, job, job_result>>
host_vars == <<session, terminating, usb_mode>>
unit_vars == <<masked, loaded_mask, actdead_enabled, preparation>>
file_vars == <<marker, user_home, tmp_home, home_dirs>>
device_vars == <<disk, crypttab, mounted>>

\* Everything but the device and the life of the process.
manage_vars == <<service_vars, systemd_vars, host_vars, unit_vars, file_vars>>

-----------------------------------------------------------------------------
(* The task lists *)

Task(action, unit) == [action |-> action, unit |-> unit]

NoTask == Task("NONE", "")

\* Mutant: the preparation service is stopped before home.mount is started.
FinalizationStopsFirst == <<
        Task("UNMASK_UNIT", "home.mount"),
        Task("RELOAD_UNITS", ""),
        Task("ENABLE_UNIT", "jolla-actdead-charging.service"),
        Task("STOP_UNIT", "home-encryption-preparation.service"),
        Task("START_UNIT", "home.mount"),
        Task("START_UNIT", "default.target"),
        Task("END_OF_MANAGE_TASKS", "") >>

\* Mutant: the session starts before the home directories are back.
FinalizationSessionFirst == <<
        Task("UNMASK_UNIT", "home.mount"),
        Task("RELOAD_UNITS", ""),
        Task("ENABLE_UNIT", "jolla-actdead-charging.service"),
        Task("START_UNIT", "home.mount"),
        Task("START_UNIT", "default.target"),
        Task("STOP_UNIT", "home-encryption-preparation.service"),
        Task("END_OF_MANAGE_TASKS", "") >>

\* Mutant: home.mount stays masked.
FinalizationWithoutUnmask == <<
        Task("RELOAD_UNITS", ""),
        Task("ENABLE_UNIT", "jolla-actdead-charging.service"),
        Task("START_UNIT", "home.mount"),
        Task("STOP_UNIT", "home-encryption-preparation.service"),
        Task("START_UNIT", "default.target"),
        Task("END_OF_MANAGE_TASKS", "") >>

finalization_tasks == <<
        Task("UNMASK_UNIT", "home.mount"),
        Task("RELOAD_UNITS", ""),
        Task("ENABLE_UNIT", "jolla-actdead-charging.service"),
        Task("START_UNIT", "home.mount"),
        Task("STOP_UNIT", "home-encryption-preparation.service"),
        Task("START_UNIT", "default.target"),
        Task("END_OF_MANAGE_TASKS", "") >>

\* Mutant: systemd does not load the mask.
PreparationWithoutReload == <<
        Task("RELOAD_UNITS", ""),
        Task("CREATE_MARKER", "encrypt-home"),
        Task("START_UNIT", "home-encryption-preparation.service"),
        Task("MASK_UNIT", "home.mount"),
        Task("START_UNIT", "default.target"),
        Task("END_OF_MANAGE_TASKS", "") >>

preparation_tasks == <<
        Task("RELOAD_UNITS", ""),
        Task("CREATE_MARKER", "encrypt-home"),
        Task("START_UNIT", "home-encryption-preparation.service"),
        Task("MASK_UNIT", "home.mount"),
        Task("RELOAD_UNITS", ""),
        Task("START_UNIT", "default.target"),
        Task("END_OF_MANAGE_TASKS", "") >>

restoration_tasks == <<
        Task("UNMASK_UNIT", "home.mount"),
        Task("RELOAD_UNITS", ""),
        Task("REMOVE_MARKER", "encrypt-home"),
        Task("START_UNIT", "home.mount"),
        Task("STOP_UNIT", "home-encryption-preparation.service"),
        Task("START_UNIT", "default.target"),
        Task("END_OF_MANAGE_TASKS", "") >>

TaskList == [finalization |-> finalization_tasks,
             preparation  |-> preparation_tasks,
             restoration  |-> restoration_tasks]

Tasks == UNION {{TaskList[l][i] : i \in DOMAIN TaskList[l]} : l \in DOMAIN TaskList}

Awaited == {"none", "bus", "systemd", "login", "subscribe", "usb_moded",
            "mode_get", "mode_set", "UserRemoved", "reply", "JobRemoved"}

UsbMode == {"charging", "developer", "mtp"}

ManageTypeOK ==
    /\ running \in BOOLEAN
    /\ private_data \in {"NULL", "live", "freed"}
    /\ connected \in BOOLEAN
    /\ tasks \in DOMAIN TaskList \cup {"NULL"}
    /\ task \in 1 .. 7
    /\ awaiting \in Awaited
    /\ orig_usb_mode \in UsbMode \cup {"NULL"}
    /\ unit_call \in Tasks \cup {NoTask}
    /\ answer \in {"none", "ok", "job", "error"}
    /\ job \in Tasks \cup {NoTask}
    /\ job_result \in {"none", "done", "failed"}
    /\ session \in BOOLEAN
    /\ terminating \in BOOLEAN
    /\ usb_mode \in UsbMode
    /\ masked \in BOOLEAN
    /\ loaded_mask \in BOOLEAN
    /\ actdead_enabled \in BOOLEAN
    /\ preparation \in BOOLEAN
    /\ marker \in BOOLEAN
    /\ user_home \in {"/home", "/tmp/home"}
    /\ tmp_home \in HomeKind
    /\ home_dirs \in HomeKind

ServiceInit ==
    /\ running = TRUE
    /\ private_data = "NULL"
    /\ connected = FALSE
    /\ tasks = "NULL"
    /\ task = 1
    /\ awaiting = "none"
    /\ orig_usb_mode = "NULL"

\* Encryption is asked for either on a device in use, or at the first boot of
\* an image that came with the marker (rpm/sailfish-device-encryption.spec),
\* where the preparation service was started by local-fs.target; a QA image
\* masks home.mount as well (qa-encrypt-device/50-enable-home-encryption).
HostInit ==
    /\ unit_call = NoTask /\ answer = "none"
    /\ job = NoTask /\ job_result = "none"
    /\ session = TRUE /\ terminating = FALSE
    /\ usb_mode \in UsbModeAtStart
    /\ actdead_enabled = FALSE
    /\ marker = TRUE
    /\ preparation \in BOOLEAN
    /\ masked \in {FALSE, preparation} /\ loaded_mask = masked
    /\ user_home = IF preparation THEN "/tmp/home" ELSE "/home"
    /\ tmp_home = IF preparation THEN "data" ELSE "none"
    /\ home_dirs = "data"

ManageInit == ServiceInit /\ HostInit

\* The service is started again with nothing of what it knew; what was on its
\* way to the process that is gone does not reach it.
ServiceReset ==
    /\ running' = TRUE
    /\ private_data' = "NULL"
    /\ connected' = FALSE
    /\ tasks' = "NULL"
    /\ task' = 1
    /\ awaiting' = "none"
    /\ orig_usb_mode' = "NULL"
    /\ answer' = "none" /\ job_result' = "none"
    /\ UNCHANGED <<unit_call, job, host_vars, unit_vars, file_vars>>

-----------------------------------------------------------------------------
(* The end of the task lists and the ways out *)

\* An error nobody can handle: the main loop is left, which ends the process,
\* and the data is freed.
GivesUp ==
    /\ running' = FALSE
    /\ private_data' = "freed"
    /\ awaiting' = "none"

\* terminate_user: the reply of TerminateUser is ignored, so without a session
\* there is nothing to wait for and the service does not know.
terminate_user ==
    \/ /\ awaiting' = "UserRemoved"
       /\ terminating' = session
       /\ UNCHANGED <<running, private_data>>
    \/ "uid" \in ManageFault /\ GivesUp /\ UNCHANGED terminating

\* Mutant: the next list starts where this one ended.
PreparationKeepsTask ==
    /\ tasks = "preparation"
    /\ tasks' = "NULL"
    /\ awaiting' = "none"
    /\ UNCHANGED <<running, private_data, task, unit_call, usb_mode>>

\* END_OF_MANAGE_TASKS after a preparation: stay waiting for BeginEncryption.
PreparationDone ==
    /\ tasks = "preparation"
    /\ tasks' = "NULL"
    /\ task' = 1
    /\ awaiting' = "none"
    /\ UNCHANGED <<running, private_data, unit_call, usb_mode>>

\* Mutant: a mode that was never changed is restored, too.
RestartRestoresNull ==
    /\ tasks # "preparation"
    /\ usb_mode' = orig_usb_mode
    /\ GivesUp
    /\ UNCHANGED <<tasks, task, unit_call>>

\* END_OF_MANAGE_TASKS otherwise: the USB mode is restored and the service ends.
RestartDone ==
    /\ tasks # "preparation"
    /\ \/ usb_mode' = IF orig_usb_mode = "NULL" THEN usb_mode ELSE orig_usb_mode
       \/ "mode_restore" \in ManageFault /\ UNCHANGED usb_mode
    /\ GivesUp
    /\ UNCHANGED <<tasks, task, unit_call>>

\* The marker file is handled by the service itself, at once; failing to do it
\* is not noticed.
MarkerTask(t) ==
    \/ marker' = (t.action = "CREATE_MARKER")
    \/ "marker_file" \in ManageFault /\ UNCHANGED marker

\* What the task at position i of the list starts: a call to systemd or the end.
StartTask(i) ==
    LET t == TaskList[tasks][i]
    IN  \/ /\ t.action = "END_OF_MANAGE_TASKS"
           /\ PreparationDone \/ RestartDone
        \/ /\ t.action # "END_OF_MANAGE_TASKS"
           /\ unit_call' = t
           /\ awaiting' = "reply"
           /\ task' = i + 1
           /\ UNCHANGED <<running, private_data, tasks, usb_mode>>

\* handle_next_unit_task; a marker task is followed by the next one, and no
\* list has two of them in a row.
handle_next_unit_task ==
    LET t == TaskList[tasks][task]
    IN  \/ /\ t.action \in {"CREATE_MARKER", "REMOVE_MARKER"}
           /\ MarkerTask(t)
           /\ StartTask(task + 1)
        \/ /\ t.action \notin {"CREATE_MARKER", "REMOVE_MARKER"}
           /\ UNCHANGED marker
           /\ StartTask(task)

-----------------------------------------------------------------------------
(* The calls of main.c *)

prepare ==
    /\ private_data' = "live"
    /\ tasks' = "preparation"
    /\ awaiting' = "bus"
    /\ UNCHANGED <<running, connected, task, orig_usb_mode, systemd_vars, host_vars,
                   unit_vars, file_vars>>

\* finalize once its guard has passed; after a preparation the connections are
\* there already and the initialisation is skipped.
finalize(restore) ==
    /\ tasks' = IF restore THEN "restoration" ELSE "finalization"
    /\ \/ /\ ~connected
          /\ private_data' = "live"
          /\ awaiting' = "bus"
          /\ UNCHANGED <<running, terminating>>
       \/ connected /\ terminate_user
    /\ UNCHANGED <<connected, task, orig_usb_mode, systemd_vars, session,
                   usb_mode, unit_vars, file_vars>>

FinalizeRefused == private_data # "NULL" /\ tasks # "NULL"

-----------------------------------------------------------------------------
(* The chain that connects the service to systemd, logind and usb_moded *)

Returns(call) == running /\ awaiting = call

Unconnected == UNCHANGED <<tasks, task, systemd_vars, session, unit_vars,
                           file_vars>>

\* The call succeeded and its callback makes the next one.
Continue(next) ==
    /\ awaiting' = next
    /\ UNCHANGED <<running, private_data, orig_usb_mode, terminating, usb_mode>>

\* The call failed and its callback gives up.
Aborts(fault) ==
    /\ fault \in ManageFault
    /\ GivesUp
    /\ UNCHANGED <<orig_usb_mode, terminating, usb_mode>>

got_bus ==
    /\ Returns("bus") /\ Unconnected
    /\ \/ Continue("systemd") /\ connected' = TRUE
       \/ Aborts("bus") /\ UNCHANGED connected

got_systemd_manager ==
    /\ Returns("systemd") /\ Unconnected /\ UNCHANGED connected
    /\ Continue("login") \/ Aborts("systemd")

got_login_manager ==
    /\ Returns("login") /\ Unconnected /\ UNCHANGED connected
    /\ Continue("subscribe") \/ Aborts("login")

got_subscription ==
    /\ Returns("subscribe") /\ Unconnected /\ UNCHANGED connected
    /\ Continue("usb_moded") \/ Aborts("subscribe")

\* Without usb_moded the service goes on.
got_usb_moded ==
    /\ Returns("usb_moded") /\ Unconnected
    /\ \/ Continue("mode_get")
       \/ /\ "usb_moded" \in ManageFault
          /\ terminate_user
          /\ UNCHANGED <<orig_usb_mode, usb_mode>>
    /\ UNCHANGED connected

\* Any mode but charging and developer is remembered and changed to charging.
got_mode_request ==
    /\ Returns("mode_get") /\ Unconnected
    /\ \/ /\ usb_mode \notin {"charging", "developer"}
          /\ orig_usb_mode' = usb_mode
          /\ awaiting' = "mode_set"
          /\ UNCHANGED <<running, private_data, terminating>>
       \/ /\ usb_mode \in {"charging", "developer"} \/ "mode_get" \in ManageFault
          /\ terminate_user
          /\ UNCHANGED orig_usb_mode
    /\ UNCHANGED <<connected, usb_mode>>

got_set_mode ==
    /\ Returns("mode_set") /\ Unconnected
    /\ \/ usb_mode' = "charging" /\ UNCHANGED orig_usb_mode
       \/ /\ "mode_set" \in ManageFault
          /\ orig_usb_mode' = "NULL"
          /\ UNCHANGED usb_mode
    /\ terminate_user
    /\ UNCHANGED connected

-----------------------------------------------------------------------------
(* logind *)

\* The session ends, because it was told to or on its own; the service takes
\* the UserRemoved signal for its cue if it is waiting for it.
UserRemoved ==
    /\ session
    /\ terminating \/ "session_gone" \in ManageFault
    /\ session' = FALSE
    /\ terminating' = FALSE
    /\ \/ Returns("UserRemoved") /\ handle_next_unit_task
       \/ /\ ~Returns("UserRemoved")
          /\ UNCHANGED <<running, private_data, tasks, task, awaiting, unit_call,
                         usb_mode, marker>>
    /\ UNCHANGED <<connected, orig_usb_mode, answer, job, job_result, unit_vars,
                   user_home, tmp_home, home_dirs, mounted>>

-----------------------------------------------------------------------------
(* systemd *)

\* Answers reach the process that is waiting for them.
Answers(a) == answer' = IF Returns("reply") THEN a ELSE "none"

CallRefused ==
    /\ \/ "unit_call" \in ManageFault
       \/ unit_call = Task("START_UNIT", "home.mount") /\ loaded_mask
    /\ Answers("error")
    /\ UNCHANGED <<job, unit_vars>>

JobQueued ==
    /\ unit_call.action \in {"START_UNIT", "STOP_UNIT"}
    /\ unit_call = Task("START_UNIT", "home.mount") => ~loaded_mask
    /\ job' = unit_call
    /\ Answers("job")
    /\ UNCHANGED unit_vars

UnitsReloaded ==
    /\ unit_call.action = "RELOAD_UNITS"
    /\ loaded_mask' = masked
    /\ Answers("ok")
    /\ UNCHANGED <<job, masked, actdead_enabled, preparation>>

UnitEnabled ==
    /\ unit_call.action = "ENABLE_UNIT"
    /\ actdead_enabled' = TRUE
    /\ Answers("ok")
    /\ UNCHANGED <<job, masked, loaded_mask, preparation>>

UnitMasked ==
    /\ unit_call.action \in {"MASK_UNIT", "UNMASK_UNIT"}
    /\ masked' = (unit_call.action = "MASK_UNIT")
    /\ Answers("ok")
    /\ UNCHANGED <<job, loaded_mask, actdead_enabled, preparation>>

\* systemd executes the call; one job at a time.
UnitCallServed ==
    /\ unit_call # NoTask /\ job = NoTask
    /\ unit_call' = NoTask
    /\ CallRefused \/ JobQueued \/ UnitsReloaded \/ UnitEnabled \/ UnitMasked
    /\ UNCHANGED <<service_vars, job_result, host_vars, file_vars, mounted>>

\* The partition holds a file system that fstab knows.
Mountable == disk = "plain" \/ (disk = "luks" /\ crypttab)

\* Mutant: home.mount is stopped before the directories are copied.
PreparationUnmountsFirst ==
    /\ preparation' = TRUE
    /\ mounted' = FALSE
    /\ user_home' = "/tmp/home"
    /\ UNCHANGED <<marker, tmp_home, home_dirs>>

\* Mutant: whatever the space, the users get new homes.
PreparationErases ==
    /\ preparation' = TRUE
    /\ tmp_home' = "skel"
    /\ user_home' = "/tmp/home"
    /\ mounted' = FALSE
    /\ UNCHANGED <<marker, home_dirs>>

\* home-encryption-preparation.sh copies the home directories to /tmp/home, a failing
\* copy unnoticed; where they do not fit, or are saved on an SD card, it makes new
\* ones.  Then it moves the users there; stopping home.mount may fail while it is in
\* use.
PreparationScript ==
    /\ preparation' = TRUE
    /\ \/ tmp_home' = IF mounted /\ home_dirs # "none" THEN home_dirs ELSE tmp_home
       \/ "no_space" \in ManageFault /\ tmp_home' = "skel"
       \/ "cp" \in ManageFault /\ UNCHANGED tmp_home
    /\ user_home' = "/tmp/home"
    /\ \/ mounted' = FALSE
       \/ "home_busy" \in ManageFault /\ UNCHANGED mounted
    /\ UNCHANGED <<marker, home_dirs>>

\* Mutant: the users are moved back without their directories.
FinishForgetsDirectories ==
    /\ preparation' = FALSE
    /\ user_home' = "/home"
    /\ tmp_home' = "none"
    /\ marker' = (marker /\ ~crypttab)
    /\ UNCHANGED <<home_dirs, mounted>>

\* home-encryption-finish.sh moves the users back, their directories only if
\* the mounted partition has none, and removes what is in /tmp in any case, also
\* behind a move that failed.  The marker goes only when crypttab says that the
\* encryption finished.
FinishScript ==
    /\ preparation' = FALSE
    /\ user_home' = "/home"
    /\ \/ home_dirs' = IF mounted /\ home_dirs = "none" THEN tmp_home ELSE home_dirs
       \/ "mv" \in ManageFault /\ UNCHANGED home_dirs
    /\ tmp_home' = "none"
    /\ marker' = (marker /\ ~crypttab)
    /\ UNCHANGED mounted

StartPreparation ==
    /\ job = Task("START_UNIT", "home-encryption-preparation.service")
    /\ \/ ~preparation /\ marker /\ PreparationScript
       \/ /\ preparation \/ ~marker
          /\ UNCHANGED <<preparation, user_home, tmp_home, home_dirs, marker,
                         mounted>>
    /\ UNCHANGED session

StopPreparation ==
    /\ job = Task("STOP_UNIT", "home-encryption-preparation.service")
    /\ \/ preparation /\ FinishScript
       \/ /\ ~preparation
          /\ UNCHANGED <<preparation, user_home, tmp_home, home_dirs, marker,
                         mounted>>
    /\ UNCHANGED session

StartHomeMount ==
    /\ job = Task("START_UNIT", "home.mount")
    /\ Mountable
    /\ mounted' = TRUE
    /\ UNCHANGED <<preparation, user_home, tmp_home, home_dirs, marker, session>>

StartDefaultTarget ==
    /\ job = Task("START_UNIT", "default.target")
    /\ session
    /\ UNCHANGED <<preparation, user_home, tmp_home, home_dirs, marker, mounted,
                   session>>

\* The JobRemoved signal reaches the process that has or will have a watch.
JobEnds(result) ==
    job_result' = IF Returns("JobRemoved") \/ (Returns("reply") /\ answer = "job")
                  THEN result ELSE "none"

\* The result is "failed" for a partition that cannot be mounted and whenever
\* the instance lets jobs fail.
JobFails ==
    /\ \/ "job" \in ManageFault
       \/ job = Task("START_UNIT", "home.mount") /\ ~Mountable
    /\ JobEnds("failed")
    /\ UNCHANGED <<preparation, user_home, tmp_home, home_dirs, marker, mounted,
                   session>>

JobRuns ==
    /\ job # NoTask
    /\ job' = NoTask
    /\ \/ /\ JobEnds("done")
          /\ \/ StartPreparation \/ StopPreparation
             \/ StartHomeMount \/ StartDefaultTarget
       \/ JobFails
    /\ UNCHANGED <<service_vars, unit_call, answer, terminating, usb_mode, masked,
                   loaded_mask, actdead_enabled>>

\* While default.target is being started the session of the device owner
\* starts, and home.mount may be pulled in if it is not masked.
SessionStarts ==
    /\ job = Task("START_UNIT", "default.target")
    /\ ~session
    /\ session' = TRUE
    /\ \/ UNCHANGED mounted
       \/ Mountable /\ ~loaded_mask /\ mounted' = TRUE
    /\ UNCHANGED <<service_vars, systemd_vars, terminating, usb_mode, unit_vars,
                   file_vars>>

\* unit_changing_state: the reply of systemd.
unit_changing_state ==
    /\ Returns("reply") /\ answer # "none"
    /\ answer' = "none"
    /\ \/ /\ answer = "error"
          /\ GivesUp
          /\ UNCHANGED <<tasks, task, unit_call, usb_mode, marker>>
       \/ /\ answer = "job"                    \* add_job_watch
          /\ awaiting' = "JobRemoved"
          /\ UNCHANGED <<running, private_data, tasks, task, unit_call, usb_mode,
                         marker>>
       \/ answer = "ok" /\ handle_next_unit_task
    /\ UNCHANGED <<connected, orig_usb_mode, job, job_result, session, terminating,
                   unit_vars, user_home, tmp_home, home_dirs, mounted>>

\* on_signal_from_systemd, unit_changed_state: the watch only matches "done".
\* After any other result there is no signal left that would match.
on_signal_from_systemd ==
    /\ Returns("JobRemoved") /\ job_result # "none"
    /\ job_result' = "none"
    /\ \/ job_result = "done" /\ handle_next_unit_task
       \/ /\ job_result # "done"
          /\ UNCHANGED <<running, private_data, tasks, task, awaiting, unit_call,
                         usb_mode, marker>>
    /\ UNCHANGED <<connected, orig_usb_mode, answer, job, session, terminating,
                   unit_vars, user_home, tmp_home, home_dirs, mounted>>

-----------------------------------------------------------------------------

\* The callbacks and signal handlers of the service.
ManageCallback ==
    \/ /\ \/ got_bus \/ got_systemd_manager \/ got_login_manager
          \/ got_subscription \/ got_usb_moded \/ got_mode_request
          \/ got_set_mode
       /\ UNCHANGED mounted
    \/ unit_changing_state \/ on_signal_from_systemd

\* What goes on around the service, whether it lives or not.
ManageHost == UserRemoved \/ UnitCallServed \/ SessionStarts \/ JobRuns

=============================================================================
