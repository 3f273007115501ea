------------------------------- MODULE HomeCopy -------------------------------
(***************************************************************************)
(* Copying the home directories to a memory card before the encryption and *)
(* back after it: the home copy service (src/homecopy), its two scripts,   *)
(* the settings page that asks for the copy (encryption.qml, CopyService)  *)
(* and the user interface of the restoration (src/home-restoration-ui).    *)
(*                                                                         *)
(* The service is one GLib main loop.  A call of a client is on its way in *)
(* "calls" until the loop dispatches it; the scripts run beside it, and    *)
(* the device may be rebooted between any two steps.                       *)
(***************************************************************************)
EXTENDS Integers, Sequences, FiniteSets

CONSTANTS
    Part,           \* what the home directories consist of
    local,          \* the part home-encryption-finish.sh moves itself (.local)
    Fault,          \* what may go wrong in this instance
    LastVersion,    \* bound on how often the user changes something
    MaxReboots      \* bound on how often the device is started again

FaultKind ==
    {"bus", "systemd", "subscribe", "marker", "start_unit",  \* of the service
     "inotify",         \* the marker file cannot be watched
     "freed_proxy",     \* what was freed can still be used
     "killed",          \* the service is killed
     "lost_call",       \* a call reaches a service that has left its main loop
     "card", "cp", "mv",                                     \* of the scripts
     "script_killed",
     "token",           \* the settings page may not encrypt after all
     "interrupted",     \* the device is rebooted before a copy is over
     "encryption"}      \* the encryption fails and /home stays as it was

ASSUME LocalAssumption == local \in Part
ASSUME CopyFaultAssumption == Fault \subseteq FaultKind
ASSUME VersionAssumption == LastVersion \in Nat \ {0}
ASSUME RebootAssumption == MaxReboots \in Nat

VARIABLES
    \* the service
    process,        \* "off", "up", or "ending": it has left its main loop
    copying,        \* copy_state
    awaiting,       \* the asynchronous call whose callback is due
    unit,           \* service[]: the unit the service starts
    watch,          \* a close of the marker file that has not been read
    \* the bus
    calls,          \* calls of the clients that are on their way
    signal,         \* the copyDone signal that is on its way
    \* systemd and the scripts
    script,         \* the position of the script of each unit
    marker,         \* /tmp/.sailfish_copy_done
    \* the device
    conf,           \* home_copy.conf names a memory card
    home,           \* the version of each part on /home, 0 when it is not there
    card,           \* the version of each part on the card
    encrypted,      \* the home partition is encrypted
    session,        \* "up", or "finishing": the encryption is over
    \* the clients
    page,           \* the settings page
    restoration,    \* the user interface of the restoration
    promised,       \* what the user may expect to find again
    reboots,
    killed          \* the service or a script was killed since the last boot

service_vars == <<process, copying, awaiting, unit, watch>>
bus_vars == <<calls, signal>>
script_vars == <<script, marker>>
device_vars == <<conf, home, card, encrypted, session>>
client_vars == <<page, restoration, promised, reboots, killed>>
vars == <<service_vars, bus_vars, script_vars, device_vars, client_vars>>

Unit == {"copy", "restore"}

Call == {"setCopyDevice", "unsetCopyDevice", "copyHome", "restoreHome"}

Place == {"off", "start", "cp", "rm", "report", "tidy", "restart"}

Version == 0 .. LastVersion

NoParts == [p \in Part |-> 0]

Idle == [at |-> "off", left |-> {}, ok |-> TRUE]

CopyTypeOK ==
    /\ process \in {"off", "up", "ending"}
    /\ copying \in BOOLEAN
    /\ awaiting \in {"none", "bus", "systemd", "subscribe", "StartUnit",
                     "started", "refused", "marker"}
    /\ unit \in Unit \cup {"none"}
    /\ watch \in BOOLEAN
    /\ calls \in Seq(Call)
    /\ signal \in {"none", "success", "failure"}
    /\ script \in [Unit -> [at : Place, left : SUBSET Part, ok : BOOLEAN]]
    /\ marker \in {"none", "0", "1"}
    /\ conf \in BOOLEAN
    /\ home \in [Part -> Version] /\ card \in [Part -> Version]
    /\ promised \in [Part -> Version]
    /\ encrypted \in BOOLEAN
    /\ session \in {"up", "finishing"}
    /\ page \in {"idle", "copying", "encrypting"}
    /\ restoration \in {"off", "starting", "restoring", "rebooting"}
    /\ reboots \in 0 .. MaxReboots
    /\ killed \in BOOLEAN

Init ==
    /\ process = "off" /\ copying = FALSE /\ awaiting = "none"
    /\ unit = "none" /\ watch = FALSE
    /\ calls = <<>> /\ signal = "none"
    /\ script = [u \in Unit |-> Idle] /\ marker = "none"
    /\ conf = FALSE /\ card = NoParts
    /\ home = [p \in Part |-> 1] /\ promised = home
    /\ encrypted = FALSE /\ session = "up"
    /\ page = "idle" /\ restoration = "off" /\ reboots = 0 /\ killed = FALSE

-----------------------------------------------------------------------------
(* The service: homecopy.c *)

\* The result is signalled, which a page is waiting for, and the main loop left;
\* the calls that are still to be dispatched by this process will not be.
EndsWith(result) ==
    /\ signal' = result
    /\ copying' = FALSE
    /\ process' = "ending"
    /\ awaiting' = "none"
    /\ watch' = FALSE

\* exit_with_error
ExitsWithError(fault) ==
    /\ fault \in Fault
    /\ EndsWith("failure")
    /\ UNCHANGED <<unit, calls, script_vars, device_vars, client_vars>>

Continues(next) ==
    /\ awaiting' = next
    /\ UNCHANGED <<process, copying, unit, watch, bus_vars, script_vars,
                   device_vars, client_vars>>

Returns(call) == process = "up" /\ awaiting = call

got_bus == Returns("bus") /\ (Continues("systemd") \/ ExitsWithError("bus"))

got_systemd_manager ==
    /\ Returns("systemd")
    /\ Continues("subscribe") \/ ExitsWithError("systemd")

\* init_watcher creates the marker file with the result of a failure, then
\* watches it, and the unit is started.
WatchAndStart ==
    /\ marker' = "1"
    /\ watch' = FALSE
    /\ awaiting' = "StartUnit"
    /\ UNCHANGED <<process, copying, unit, bus_vars, script, device_vars,
                   client_vars>>

\* No marker file: the failure is signalled and the data freed, but the callback
\* goes on with it: it may crash, and it may find the old proxy and start the
\* unit all the same.
WatchFails ==
    /\ "marker" \in Fault
    /\ signal' = "failure"
    /\ copying' = FALSE
    /\ awaiting' = "none"
    /\ watch' = FALSE
    /\ \/ process' = "ending" /\ UNCHANGED script
       \/ process' = "off" /\ UNCHANGED script
       \/ /\ "freed_proxy" \in Fault
          /\ process' = "ending"
          /\ script[unit].at = "off"
          /\ script' = [script EXCEPT ![unit].at = "start"]
    /\ UNCHANGED <<unit, calls, marker, device_vars, client_vars>>

got_subscription ==
    /\ Returns("subscribe")
    /\ WatchAndStart \/ WatchFails \/ ExitsWithError("subscribe")

\* The unit has been started: the main loop is blocked until the script has
\* closed the marker file.
started_copy_service ==
    \/ Returns("started") /\ Continues("marker")
    \/ Returns("refused") /\ ExitsWithError("start_unit")

\* Mutant: any close of the marker file is taken for a success.
AnyCloseIsSuccess ==
    /\ Returns("marker") /\ watch
    /\ EndsWith("success")
    /\ UNCHANGED <<unit, calls, script_vars, device_vars, client_vars>>

\* Mutant: the number in the marker file is signalled as it is.
MarkerIsResult ==
    /\ Returns("marker") /\ watch
    /\ EndsWith(marker)
    /\ UNCHANGED <<unit, calls, script_vars, device_vars, client_vars>>

\* Mutant: a failure of the script is not taken for its end.
FailureIsNoEnd ==
    /\ Returns("marker") /\ watch /\ marker = "0"
    /\ EndsWith("success")
    /\ UNCHANGED <<unit, calls, script_vars, device_vars, client_vars>>

\* wait_for_copy reads what the marker file holds now.  Without a watch it does
\* not wait, and the script goes on alone.
wait_for_copy ==
    /\ Returns("marker")
    /\ \/ watch /\ EndsWith(IF marker = "0" THEN "success" ELSE "failure")
       \/ "inotify" \in Fault /\ EndsWith("failure")
    /\ UNCHANGED <<unit, calls, script_vars, device_vars, client_vars>>

-----------------------------------------------------------------------------
(* The calls and the life of the process: copyservice.c *)

\* Mutant: the configuration of an earlier copy stays.
UnsetForgotten(path) ==
    conf' = (conf \/ path # "")

\* An empty path removes the configuration.
set_copy_location(path) == conf' = (path # "")

\* copy_home and restore_home
copy(u) ==
    /\ unit' = u
    /\ copying' = TRUE
    /\ awaiting' = "bus"

\* While a copy is going on every call gets an error, which no client reads.
handle_method_call ==
    /\ process = "up" /\ awaiting # "marker"
    /\ calls # <<>>
    /\ calls' = Tail(calls)
    /\ \/ copying /\ UNCHANGED <<copying, awaiting, unit, conf>>
       \/ /\ ~copying /\ Head(calls) = "copyHome"
          /\ copy("copy") /\ UNCHANGED conf
       \/ /\ ~copying /\ Head(calls) = "restoreHome"
          /\ copy("restore") /\ UNCHANGED conf
       \/ /\ ~copying /\ Head(calls) = "setCopyDevice"
          /\ set_copy_location("/dev") /\ UNCHANGED <<copying, awaiting, unit>>
       \/ /\ ~copying /\ Head(calls) = "unsetCopyDevice"
          /\ set_copy_location("") /\ UNCHANGED <<copying, awaiting, unit>>
    /\ UNCHANGED <<process, watch, signal, script_vars, home, card, encrypted,
                   session, client_vars>>

\* A call activates the service.
Activate ==
    /\ process = "off" /\ calls # <<>>
    /\ process' = "up"
    /\ copying' = FALSE /\ awaiting' = "none" /\ unit' = "none"
    /\ watch' = FALSE
    /\ UNCHANGED <<bus_vars, script_vars, device_vars, client_vars>>

\* Every QUIT_TIMEOUT seconds.
quit_if_idle ==
    /\ process = "up" /\ ~copying
    /\ process' = "ending"
    /\ UNCHANGED <<copying, awaiting, unit, watch, bus_vars, script_vars,
                   device_vars, client_vars>>

\* The process gives its name back and exits.  What the bus has delivered to it
\* in between is lost; a call that comes later starts a new process.
Exits ==
    /\ process = "ending"
    /\ process' = "off"
    /\ \/ UNCHANGED calls
       \/ "lost_call" \in Fault /\ calls' = <<>>
    /\ UNCHANGED <<copying, awaiting, unit, watch, signal, script_vars,
                   device_vars, client_vars>>

Killed ==
    /\ "killed" \in Fault /\ ~killed
    /\ killed' = TRUE
    /\ process # "off"
    /\ process' = "off"
    /\ copying' = FALSE /\ awaiting' = "none" /\ watch' = FALSE
    /\ UNCHANGED <<unit, bus_vars, script_vars, device_vars, page, restoration,
                   promised, reboots>>

-----------------------------------------------------------------------------
(* systemd and the scripts *)

\* StartUnit does nothing for a unit that is already active.
StartUnit ==
    /\ Returns("StartUnit")
    /\ \/ /\ awaiting' = "started"
          /\ script' = IF script[unit].at = "off"
                       THEN [script EXCEPT ![unit].at = "start"] ELSE script
       \/ "start_unit" \in Fault /\ awaiting' = "refused" /\ UNCHANGED script
    /\ UNCHANGED <<process, copying, unit, watch, bus_vars, marker, device_vars,
                   client_vars>>

\* The script of u goes on at another place.
GoesTo(u, place, left, ok) ==
    script' = [script EXCEPT ![u] = [at |-> place, left |-> left, ok |-> ok]]

\* echo ... > $COPY_MARKER_FILE, which the service may be watching.
Reports(ok) ==
    /\ marker' = IF ok THEN "0" ELSE "1"
    /\ watch' = (watch \/ awaiting \in {"StartUnit", "started", "refused", "marker"})

\* home-encryption-copy.sh: without a device, with a card that is not mounted
\* or has not enough space nothing is copied.
CopyStarts ==
    /\ script["copy"].at = "start"
    /\ \/ conf /\ card' = NoParts /\ GoesTo("copy", "cp", Part, TRUE)
       \/ /\ ~conf \/ "card" \in Fault
          /\ card' \in IF conf THEN {card, NoParts} ELSE {card}
          /\ GoesTo("copy", "report", {}, FALSE)
    /\ UNCHANGED <<service_vars, bus_vars, marker, conf, home, encrypted,
                   session, client_vars>>

\* cp of one part; a failure is remembered and the next part is tried.
CopyPart ==
    /\ script["copy"].at = "cp"
    /\ \E p \in script["copy"].left :
         LET left == script["copy"].left \ {p}
             next == IF left = {} THEN "report" ELSE "cp"
         IN  \/ /\ card' = [card EXCEPT ![p] = home[p]]
                /\ GoesTo("copy", next, left, script["copy"].ok)
             \/ /\ "cp" \in Fault /\ UNCHANGED card
                /\ GoesTo("copy", next, left, FALSE)
    /\ UNCHANGED <<service_vars, bus_vars, marker, conf, home, encrypted,
                   session, client_vars>>

CopyReports ==
    /\ script["copy"].at = "report"
    /\ Reports(script["copy"].ok)
    /\ script' = [script EXCEPT !["copy"] = Idle]
    /\ UNCHANGED <<process, copying, awaiting, unit, bus_vars, device_vars,
                   client_vars>>

\* home-restore.sh: the card is mounted if necessary.  A directory that is
\* not there counts as one that could not be copied.
RestoreStarts ==
    /\ script["restore"].at = "start"
    /\ \/ conf /\ card # NoParts
          /\ GoesTo("restore", "cp", {p \in Part : card[p] # 0}, TRUE)
       \/ /\ conf /\ (card = NoParts \/ "card" \in Fault)
          /\ GoesTo("restore", "tidy", {}, FALSE)
       \/ ~conf /\ GoesTo("restore", "tidy", {}, FALSE)
    /\ UNCHANGED <<service_vars, bus_vars, marker, device_vars, client_vars>>

RestorePart ==
    /\ script["restore"].at = "cp"
    /\ \E p \in script["restore"].left :
         LET left == script["restore"].left \ {p}
             Next(ok) == GoesTo("restore",
                                IF left # {} THEN "cp"
                                ELSE IF ok THEN "rm" ELSE "tidy", left, ok)
         IN  \/ /\ home' = [home EXCEPT ![p] = card[p]]
                /\ Next(script["restore"].ok)
             \/ "cp" \in Fault /\ UNCHANGED home /\ Next(FALSE)
    /\ UNCHANGED <<service_vars, bus_vars, marker, conf, card, encrypted,
                   session, client_vars>>

\* Mutant: the copy is removed although not everything was restored.
RestoreAlwaysRemoves ==
    /\ script["restore"].at \in {"rm", "tidy"}
    /\ card' = NoParts
    /\ GoesTo("restore", "report", {}, script["restore"].ok)
    /\ UNCHANGED <<service_vars, bus_vars, marker, conf, home, encrypted,
                   session, client_vars>>

\* The copy is removed only when everything was restored.
RestoreRemoves ==
    /\ script["restore"].at = "rm"
    /\ card' = NoParts
    /\ GoesTo("restore", "report", {}, TRUE)
    /\ UNCHANGED <<service_vars, bus_vars, marker, conf, home, encrypted,
                   session, client_vars>>

\* Mutant: only a success is reported.
RestoreReportsSuccess ==
    /\ script["restore"].at = "report"
    /\ GoesTo("restore", IF script["restore"].ok THEN "tidy" ELSE "restart", {},
              script["restore"].ok)
    /\ IF script["restore"].ok THEN Reports(TRUE) ELSE UNCHANGED <<marker, watch>>
    /\ UNCHANGED <<process, copying, awaiting, unit, bus_vars, device_vars,
                   client_vars>>

\* The success is reported before the configuration is removed, a failure after.
RestoreReports ==
    /\ script["restore"].at = "report"
    /\ Reports(script["restore"].ok)
    /\ GoesTo("restore", IF script["restore"].ok THEN "tidy" ELSE "restart", {},
              script["restore"].ok)
    /\ UNCHANGED <<process, copying, awaiting, unit, bus_vars, device_vars,
                   client_vars>>

RestoreTidies ==
    /\ script["restore"].at = "tidy"
    /\ conf' = FALSE
    /\ GoesTo("restore", IF script["restore"].ok THEN "restart" ELSE "report", {},
              script["restore"].ok)
    /\ UNCHANGED <<service_vars, bus_vars, marker, home, card, encrypted,
                   session, client_vars>>

\* A new session has new clients, and shows the restoration when there is a
\* configuration (home-restore-ui.service).
SessionStarts(configured) ==
    /\ session' = "up"
    /\ page' = "idle"
    /\ signal' = "none"
    /\ restoration' = IF configured THEN "starting" ELSE "off"

\* systemctl restart user@100000, after ten seconds, which are enough for the
\* service to read the marker file.
RestoreRestartsSession ==
    /\ script["restore"].at = "restart" /\ ~copying
    /\ script' = [script EXCEPT !["restore"] = Idle]
    /\ \/ session = "up" /\ SessionStarts(conf)
       \/ session # "up" /\ UNCHANGED <<session, page, signal, restoration>>
    /\ UNCHANGED <<service_vars, calls, marker, conf, home, card, encrypted,
                   promised, reboots, killed>>

ScriptKilled(u) ==
    /\ "script_killed" \in Fault /\ ~killed
    /\ killed' = TRUE
    /\ script[u].at # "off"
    /\ script' = [script EXCEPT ![u] = Idle]
    /\ UNCHANGED <<service_vars, bus_vars, marker, device_vars, page,
                   restoration, promised, reboots>>

-----------------------------------------------------------------------------
(* The clients and the device *)

\* The user works with the device while neither page is shown; he is not as
\* fast as a call over the bus.
UserEdits(p) ==
    /\ session = "up" /\ page = "idle" /\ restoration = "off"
    /\ calls = <<>> /\ process # "ending"
    /\ home[p] \in 1 .. LastVersion - 1
    /\ home' = [home EXCEPT ![p] = @ + 1]
    /\ promised' = [promised EXCEPT ![p] = home'[p]]
    /\ UNCHANGED <<service_vars, bus_vars, script_vars, conf, card, encrypted,
                   session, page, restoration, reboots, killed>>

Calls(list) == calls' = calls \o list

\* The settings page is usable: the partition is not encrypted.
Offered == session = "up" /\ page = "idle" /\ restoration = "off" /\ ~encrypted

\* copyHome(dev) of CopyService.qml.
PageCopies ==
    /\ Offered /\ calls = <<>> /\ signal = "none"
    /\ Calls(<<"setCopyDevice", "copyHome">>)
    /\ page' = "copying"
    /\ UNCHANGED <<service_vars, signal, script_vars, device_vars, restoration,
                   promised, reboots, killed>>

\* The user does not want a copy and has accepted to lose everything.
PageDoesNotCopy ==
    /\ Offered /\ calls = <<>>
    /\ Calls(<<"unsetCopyDevice">>)
    /\ page' = "encrypting"
    /\ promised' = NoParts
    /\ UNCHANGED <<service_vars, signal, script_vars, device_vars, restoration,
                   reboots, killed>>

\* copied(success): encrypt, or give up.
PageCopied ==
    /\ page = "copying" /\ signal # "none"
    /\ signal' = "none"
    /\ \/ signal = "success" /\ page' = "encrypting" /\ UNCHANGED calls
       \/ /\ "token" \in Fault
          /\ signal = "success" /\ page' = "idle" /\ UNCHANGED calls
       \/ /\ signal = "failure" /\ page' = "idle"
          /\ Calls(<<"unsetCopyDevice">>)
    /\ UNCHANGED <<service_vars, script_vars, device_vars, restoration,
                   promised, reboots, killed>>

\* What the encryption service does with the device: the session is ended and
\* the partition wiped, unless something fails.
Encryption ==
    /\ page = "encrypting" /\ session = "up"
    /\ session' = "finishing"
    /\ page' = "idle"
    /\ \/ encrypted' = TRUE /\ home' = NoParts
       \/ "encryption" \in Fault /\ UNCHANGED <<encrypted, home>>
    /\ UNCHANGED <<service_vars, bus_vars, script_vars, conf, card,
                   restoration, promised, reboots, killed>>

\* home-encryption-finish.sh: what the session needs at once is moved from the
\* card when the home directories were wiped, then the session is started.
EncryptionFinishes ==
    /\ session = "finishing"
    /\ \/ /\ encrypted /\ conf /\ card[local] # 0
          /\ home' = [home EXCEPT ![local] = card[local]]
          /\ card' = [card EXCEPT ![local] = 0]
       \/ /\ (encrypted /\ conf /\ card[local] # 0) => "mv" \in Fault
          /\ UNCHANGED <<home, card>>
    /\ SessionStarts(conf)
    /\ UNCHANGED <<service_vars, calls, script_vars, conf, encrypted,
                   promised, reboots, killed>>

\* RestorationPage.qml, ten seconds after it was shown.
RestorationStarts ==
    /\ restoration = "starting"
    /\ restoration' = "restoring"
    /\ Calls(<<"restoreHome">>)
    /\ UNCHANGED <<service_vars, signal, script_vars, device_vars, page,
                   promised, reboots, killed>>

RestorationEnds ==
    /\ restoration = "restoring" /\ signal # "none"
    /\ signal' = "none"
    /\ restoration' = "rebooting"
    /\ UNCHANGED <<service_vars, calls, script_vars, device_vars, page,
                   promised, reboots, killed>>

\* A copy is made, or has failed and its configuration is being removed.
CopyUnfinished ==
    page = "copying" \/ \E i \in DOMAIN calls : calls[i] = "unsetCopyDevice"

\* The restoration asks for it, and it may happen at any time.
Reboot ==
    /\ reboots < MaxReboots
    /\ CopyUnfinished => "interrupted" \in Fault
    /\ reboots' = reboots + 1
    /\ killed' = FALSE
    /\ process' = "off" /\ copying' = FALSE /\ awaiting' = "none"
    /\ watch' = FALSE
    /\ calls' = <<>>
    /\ script' = [u \in Unit |-> Idle] /\ marker' = "none"
    /\ SessionStarts(conf)
    /\ UNCHANGED <<unit, conf, home, card, encrypted, promised>>

-----------------------------------------------------------------------------

Service ==
    \/ got_bus \/ got_systemd_manager \/ got_subscription
    \/ started_copy_service \/ wait_for_copy
    \/ handle_method_call \/ Activate \/ Exits

Scripts ==
    \/ StartUnit
    \/ CopyStarts \/ CopyPart \/ CopyReports
    \/ RestoreStarts \/ RestorePart \/ RestoreRemoves \/ RestoreReports
    \/ RestoreTidies \/ RestoreRestartsSession

Clients == PageCopied \/ RestorationStarts \/ RestorationEnds

Next ==
    \/ Service \/ Scripts \/ Clients
    \/ quit_if_idle \/ Killed
    \/ \E u \in Unit : ScriptKilled(u)
    \/ \E p \in Part : UserEdits(p)
    \/ PageCopies \/ PageDoesNotCopy \/ Encryption \/ EncryptionFinishes
    \/ Reboot

Spec == Init /\ [][Next]_vars

\* The main loop, systemd and the scripts go on, and a page acts on a signal.  A
\* service that a call has started handles it long before its idle timeout, so
\* the timeout does not win for ever.
Fairness ==
    /\ WF_vars(Service) /\ SF_vars(handle_method_call) /\ WF_vars(Scripts)
    /\ WF_vars(PageCopied) /\ WF_vars(RestorationEnds)

FairSpec == Spec /\ Fairness

-----------------------------------------------------------------------------
(* Properties *)

\* What the user may expect is always somewhere, on /home or on the card, in
\* the version he left it: through a failed copy, the encryption, a restoration
\* that fails or is interrupted, and a second restoration
\* (home-encryption-copy.sh, home-restore.sh and the order in which the pages
\* set and remove the copy device).
NothingLost ==
    \A p \in Part : home[p] >= promised[p] \/ card[p] >= promised[p]

\* The settings page goes on to encrypt only when its copy is complete and will
\* be found by the restoration: copyDone(true) is only told of a whole copy
\* (homecopy.c wait_for_copy, home-encryption-copy.sh).
EncryptsOnlyCompleteCopy ==
    [][ page = "copying" /\ page' = "encrypting"
        => conf /\ \A p \in Part : card[p] >= promised[p] ]_vars

\* The waiting pages cannot be left by the user (backNavigation: false): they
\* get their signal, however the script and the service end (homecopy.c
\* wait_for_copy, copyservice.c).
PageIsAnswered == (page = "copying") ~> (page # "copying" \/ killed)

\* The same for the restoration, whose end reboots the device (RestorationPage.qml).
RestorationIsAnswered ==
    (restoration = "restoring") ~> (restoration # "restoring" \/ killed)
=============================================================================
