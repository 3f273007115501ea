# Verification of sailfish-device-encryption

The repository encrypts the home partition of a Sailfish OS device, keeps the
users' data over the encryption, and asks for the security code at every boot.
This directory holds TLA+ modules of its programs, TLC configurations that check
them on small instances, and proofs that TLAPS checks.

1. [The system](#1-the-system)
2. [Plan](#2-plan)
3. [The modules and the code](#3-the-modules-and-the-code)
4. [The runs](#4-the-runs)
5. [Bounds](#5-bounds)
6. [Fairness](#6-fairness)
7. [Proofs](#7-proofs)
8. [Disagreements between the code and its words](#8-disagreements-between-the-code-and-its-words)
9. [Known behaviours that no run lists](#9-known-behaviours-that-no-run-lists)
10. [What is not modelled](#10-what-is-not-modelled)

`tlc -config X.cfg M` checks a run, `tlapm M.tla` the proofs of a module whose name
ends in `Proofs`: `EncryptProofs`, `EncryptionClientsProofs`, `HomeDirectoriesProofs`,
`HomeCopyProofs`, `EmergencyCallProofs`, `UnlockScreenProofs`, `DisplayControlProofs`
and `TouchInputProofs`.

## 1. The system

Paths are relative to `src/`.

### Encryption service (`encryption-service/`)

A D-Bus activated process that encrypts `/home`. One GLib main loop; every
callback runs to its end before the next.

| part | state it keeps | operations |
|---|---|---|
| job (`encrypt.c`) | `encryption_state`, the `invocation_data` that the callbacks pass on, a static for the clear text device | a chain of asynchronous calls: bus, UDisks client, device, block, `CanFormat`, unmount, tear-down, erasure (an idle source), `Format`, `Rescan`; two property changes that UDisks announces by itself |
| preparation and finalization (`manage.c`) | `manage_data`: connections, the list of tasks and the position in it, the USB mode it found | `prepare`, `finalize`, `restore`: end the session through logind, then one systemd call or job after the other |
| methods and process (`main.c`, `dbus.c`) | the saved passphrase, the kind of erasure, the receiver of the result | `PrepareToEncrypt`, `BeginEncryption`, `FinalizeEncryption`, the signal `EncryptionFinished`, an idle timeout |
| scripts (`preparation/*.sh`) | `/tmp/home`, the home directory in `passwd`, the marker `encrypt-home` | copy the home directories to `/tmp` or make new ones there, move them back |

The three lists of tasks, the job and the scripts share the mount of `/home`,
the partition, `crypttab` and the marker. Clients are the settings pages, which
prepare, and the user interface that is started by the next session, which
begins and finalizes (`jolla-settings-encryption/plugin/EncryptionService.qml`,
`qa-encrypt-device/main.qml`).

*Hard here:* failures in the middle of a chain whose data must be freed once and
not too early; a UDisks that answers before it does the work, so that its steps and
its failures cross those of the service unseen; property changes in either order; a
kill between two tasks with the host half-way; methods in an order nobody expects; a list
of tasks that waits for a signal that does not come. *Correct means:* no callback meets freed data;
one result, told to whoever began, and nothing after it; success only with an
encrypted device; the users always have home directories, their own where there is
space for a copy, which never move under a session; the session comes back.

### Home copy (`homecopy/`, `home-restoration-ui/`)

A D-Bus activated service, two scripts that systemd runs, a configuration
`home_copy.conf` and a marker file `/tmp/.sailfish_copy_done` through which the
scripts tell the service their result; the settings page that asks for the copy
and the restoration's user interface, which the next session starts while the
configuration exists.

*Hard here:* the service blocks on the marker file, which it and both scripts
write; kills of the service and of a script, reboots at any time; a copy of which
a part fails; calls that reach a process that is ending. *Correct means:* what
the user may expect is on `/home` or on the card in the version he left it;
nothing is encrypted before its copy is whole; nothing is replaced by something
older; both waiting pages, which cannot be left, get an answer.

### Unlock screen (`sailfish-unlock-ui/`)

A process that systemd starts when a password is asked for. One event loop.

| part | state it keeps | operations |
|---|---|---|
| agent (`agent.cpp`) | the ask file, a watch of the directory | finds and watches questions, tries the temporary passphrase, answers |
| code entry (`pin.cpp`) | text, keys enabled or not, the 16 ms timer that sends, the inactivity and the battery timer with what they depend on | keys, emergency mode, shutdown rules |
| compositor (`compositor.cpp`) | what it knows of mce, dsme and `home.mount`, whether it owns the compositor's name | replies and signals of one bus connection |
| emergency call (`call.cpp`) | status of ofono, status of the resources, the call | makes and ends a call over ofono and the resource manager |
| start (`main.cpp`, `touchinput.c`) | nodes to probe, an inotify queue, a time limit | checks that lipstick is not running, waits up to 600 s for a touch device, starts the agent |

*Hard here:* answers that arrive after the call they belong to, in any order with
the keys; seven states that decide about two timers and change in five handlers;
services that stop and start while they are asked; a driver that makes its device
node while the existing ones are probed; an mce that takes the display away and
waits only for the answer. *Correct means:* a call in the
modem is always one that the user can end; leaving ends it; only emergency
numbers; the device shuts down exactly when the rules say so; the keys come back
after a wrong code; no empty answer is sent; the process ends once home is
mounted; a touch device is found whenever it comes up; nothing is drawn once mce
was answered so; the display does not blank while the code is waited for.

### The rest

The settings pages, a library with two questions about files and names, drawing,
logging, systemd units and packaging: no state of their own, or state that
belongs to systemd (section 10).

`PROJECT.json` lists the parts under `components` and, under `hazards`, what a
test would hardly reach, at its line and with the properties about it.

## 2. Plan

The order follows what is destroyed when it goes wrong.

1. `EncryptionLifecycle`, `Encrypt`: the job and its promise. *Done, proved.*
2. `Manage`: preparation, finalization, restoration. *Done.*
3. `EncryptionService` composes 1 and 2 with `main.c` and `dbus.c`;
   `EncryptionClients` adds the shipped clients and kills. *Done, proved.*
4. `HomeCopy`. *Done, proved.*
5. `EmergencyCall`. *Done, proved.*
6. `Compositor`, `UnlockScreen`. *Done, proved.*
7. `HomeDirectories`: the promise of preparation and finalization, implemented by
   `EncryptionClients`. *Done, proved.*
8. `DisplayControl`: the calls of mce, the window and the blanking pause. *Done, proved.*
9. `TouchInput`: the start of the unlock screen. *Done, proved.*
10. A model over several boots: key markers, the drop-ins of `encrypt.c`, the
    agent that tries the temporary passphrase, and the service in between. *To do.*

"Proved" means that every safety property the passing runs check is a theorem; what is
left to TLC is at the end of section 7.

Abstract specifications: `EncryptionLifecycle` for the job, `HomeDirectories` for
`EncryptionClients`.

The theorems came in this order: the job with its refinement; what `HomeDirectories`
implies; the wait for a touch device; what success stands for; the
service with its clients up to the refinement; the unlock screen; the display; the
emergency call; the home copy. Still worth proving: under which clients other than the
shipped ones `HomeIsKept` holds, and, once it exists, the model of item 10.

## 3. The modules and the code

`map` in `PROJECT.json` gives the lines of each definition. Names are those of the
code where there is one. A definition with the comment "Mutant:" is a bug that a
property has to notice; it is no part of a specification.

**`Encrypt`** — `encrypt.c`, with what `main.c` (`status_changed_handler`) and
`dbus.c` (`signal_encrypt_finished`) do at its end. `pending` is the asynchronous
call whose callback is due, and each callback is one action that either makes the
next call or ends the job (`GivesUp`). `data` is the `invocation_data`, `"freed"`
after `g_free`, `status` the `encryption_state`. Where `can_format_to_type` goes on
with freed data (`FilesystemProxyFails`), the process dies or waits for a call that
was never sent.

UDisks acts between callbacks. Both calls of `Format` are made with `"no-block"` and
`"dry-run-first"` (`encrypt.c:390`, `:549`): they are answered when the parameters have
been looked at (`Accepts`, `Refuses`), and the work is done by a job of UDisks that is
asked for with `tearing_down` and `request` and goes through `UDisksTearsDown`,
`UDisksFormats` and `UDisksConfigures` (the `config-items`: `crypttab` and `fstab`). A
step of it may come before or after the answer, and the rescan, the announcements of
`CleartextDevice` and `IdUUID` (`PropertyAnnounced`) and the end of the encryption cross
it. A job that fails tells nobody. What may fail is in the constant `Fault`, in three
kinds: what the service is told (`ToldFault`), what it does not look at
(`UnseenFault`), and what fails in UDisks after the answer (`JobFault`).

**`EncryptionLifecycle`** — the promise: at most one job, one result, told to the
client that began. `Encrypt` implements it with `state <- LifecycleState`,
`owner <- receiver`, `results <- sent`.

**`Manage`** — `manage.c` with the preparation's scripts. The lists of tasks are
sequences; `handle_next_unit_task` interprets them as the code does. A method call
waits in `unit_call`, its answer in `answer`, the job it queued in `job`, the
`JobRemoved` signal in `job_result`: systemd goes on when the service has died.
logind and usb_moded are modelled from how they are used. A set of home directories is
`"none"`, `"skel"` (made new from `/etc/skel`) or `"data"` (what the users had).
`PreparationScript` has the copy, the new homes where `/tmp` has no space or a memory
card is used (`home-encryption-preparation.sh:52-64`, fault `no_space`), and a `cp` that
fails unnoticed; `FinishScript` the move, a `mv` that fails, and the `rm -rf` of the
copies that follows in any case (`home-encryption-finish.sh:21,46`).

**`EncryptionService`** — `E == INSTANCE Encrypt`, `M == INSTANCE Manage` with
`running`, `mounted`, `disk`, `crypttab` in common, plus the decisions of
`main.c`, the idle timeout, kills and activation. It also says when UDisks has written
its entries: before `home.mount` is started (`ConfiguredInTime`), unless `config_late` is
in `Fault`. The service does not wait for that; between the UUID and `home.mount` lies
the end of a session.

**`EncryptionClients`** — EXTENDS it with the settings page and the user interface
that encrypts, each a small automaton. The settings page asks while its user is logged
in on `/home`; the user interface is started by a session that finds its home in
`/tmp/home` (`WizardStarts`, `home-encryption-preparation.sh:66-73`).

**`HomeDirectories`** — the promise of the preparation and the finalization in
terms of the users: which places have which home directories, which place `passwd`
names, whether the partition is mounted, whether somebody is logged in. There are
home directories somewhere at any time; they are copied out and moved back only
between sessions; nobody logs in who would not find his home; the partition is
destroyed only unmounted and with a set in `/tmp/home`. With `Erases` the copy may have
to make way for new directories, which the pages of the settings announce (`"This will
erase all user data from the device."`, `encryption.qml:243`); without it what the users
had stays theirs. `EncryptionClients` implements it (`HomeIsKept`) with `Erases <-
"no_space" \in ManageFault`, `places <- HomePlaces`, `named <- user_home`, `reachable <-
mounted`, `session <- session`; kills of the service, refused calls, silent failures of
UDisks and the idle timeout are stutters or steps of it. A `cp` or `mv` that fails is not.

**`HomeCopy`** — service, scripts, card, pages, user, reboots. A part of the home
directories has a version number that an edit raises; `promised` is what the user
may expect to find. The position of each script is in `script`.

**`EmergencyCall`** — `call.cpp` and the emergency mode of `pin.cpp`. Requests and
answers are two queues in order. A request to dial carries the number that was the
call's when `dial` ran (`call.cpp:414-424`), which need not be the one it has when ofono
answers. The answers of the resource manager are reduced
to registration and release.

**`Compositor`** — the bus connection of the unlock screen: `cached` is what it
knows, `actual` what is the case, `bus` the messages on their way, `queries` the
questions not taken yet. **`UnlockScreen`** EXTENDS it with `agent.cpp` and the
rest of `pin.cpp`; in it the emergency mode is on or off and the call itself is
left to `EmergencyCall`. The directory of the questions may not be watchable (`inotify`),
and a question that is there may be rejected: it cannot be read or its process is gone
(`ask_file`), or its time limit is compared the wrong way round (`not_after`). The two
timers ask dsme for a shutdown, which shows only as a change of dsme's state that may
come at any time (`Proceed`).

**`DisplayControl`** — the same connection once more, for what mce asks of the
unlock screen: `getRequirements` and `setUpdatesEnabled` are calls that mce sends
(`Calls`) and whose answers it waits for, `GetSetupActions` and `SetUpdatesEnabled` the
handlers with all that `updatesEnabledChanged` of the agent and of `PinUi` does, window
and display included. The blanking pause is the timer that renews it (`renewTimer`)
and what mce makes of the requests (`paused`). A call keeps the number of the mce that
sent it: those of an mce that is gone are dispatched all the same. A request that is
on its way when mce is started again may reach the new one, where it expires; the
answers to calls do not.

**`TouchInput`** — `main.cpp` and `touchinput.c`: one action for each look at the
outside (the watch, the glob, the probing of one node, a poll, one event), between
which the kernel makes and removes nodes, the time runs out and lipstick starts.
`events` is the inotify queue, `skipped` the nodes whose probing failed.

## 4. The runs

Every passing run completes; the number of distinct states is 754 for `encrypt`, 12 292
for `clients_live`, 12 796 for `touch`, 25 492 for `emergency_call`, 61 185 for
`home_copy`, 99 786 for `display`, 337 309 for `clients` and 494 266 for `unlock`.

| run | module, configuration | shows |
|---|---|---|
| `encrypt` | `MCEncrypt` | The job with every failure but `fs_proxy` and `key_file`, those of UDisks after its answer included: `PendingWorkOwnsData` (no callback meets freed data), `ResultIsFinal`, `FinishedIsEncrypted` (success stands for a LUKS device with its drop-ins and its marker, although no answer said so), `UnitConfOnlyForLuks` (the boot never waits for a device that does not exist), `PromiseKept` (it implements `EncryptionLifecycle`: one result, told to the client that began) and `KnownDeviceIsTold` (a device whose UUID the service knows gets its result, whichever of the answer, the rescan and the UUID comes last). |
| `clients` | `MCClients` | The shipped clients from both starting points, the faults of the host, a `/tmp` without space, UDisks jobs that fail silently or finish late, kills: `HomeIsKept` (they implement `HomeDirectories`), `JobAndRestartExclude`, `SecurityCodeIsUsed`. |
| `clients_live` | `MCClients`, `MCClientsLive.cfg` | No kill, space in `/tmp`, faults that leave a partition that can be mounted: `HomeIsKept` with the users' own data, `PreparedHomeIsMasked`, `RestartRestoresHost`, `FinalizingRestartsSession`, `EncryptionIsAnswered`. |
| `home_copy` | `MCHomeCopy` | `NothingLost`, `EncryptsOnlyCompleteCopy`, `PageIsAnswered`, `RestorationIsAnswered`, with kills and reboots. |
| `emergency_call` | `MCEmergencyCall` | `CallUnderControl`, `NoCallLeftBehind`, `OnlyEmergencyNumbers`, `CallGoesOn`. |
| `unlock` | `MCUnlockScreen` | `CachesAgree`, `ShutdownTimersRight`, `BatteryRuleFollowed`, `DisabledOnlyWhileAnswered`, `NeverCancels`, `UnlockEnds`. |
| `display` | `MCDisplayControl` | An mce that enables, disables, changes its mind, stops, starts and sends what cannot be read: `HiddenOnceAnswered`, `PauseIsAgreed`, `BlankingIsPaused`. |
| `touch` | `MCTouchInput` | Two nodes that come, go and come back as something else, every failure: `NothingMissed`, `TouchStartsAgent`. |

Each but `clients_live` has a type invariant beside these. The other four runs each find
one violation (section 8): `encrypt_fs_proxy`, `clients_config`, `call_hang_up`,
`unlock_battery`.

The two rules of the shutdown timers are kept apart because the code keeps them apart:
the inactivity timer is started by the constructor and by every handler, so that it runs
exactly when its rule says so (`ShutdownTimersRight`). The timer of the empty battery is
started only by a change of what it depends on (`BatteryRuleFollowed`); that it runs
whenever the battery is empty is what a comment wants and the code does not do
(`EmptyBatteryShutsDown`, violated).

`CHECK_DEADLOCK FALSE` stands where the system may stop: a process has ended and
nothing starts it again (in `encrypt` after a `device_open`), or a bounded counter is
used up.

## 5. Bounds

| constant | value | why it is enough |
|---|---|---|
| `Client` | two peers in `encrypt`, one elsewhere | A second peer is needed to take the place of the first as the receiver; the rest of the service does not tell its peers apart. |
| `MaxStarts` | 2 in `clients`, else 1 | One kill and a start that finds the host half-way; a second kill meets a host of the same kind. |
| `UsbModeAtStart` | all three where the USB mode is asked about, else one that must be changed | |
| `Part` | `local` and `rest` | The scripts treat `.local` differently from the rest. |
| `LastVersion` | 2 | One edit after the copy tells newer from older. |
| `MaxReboots` | 2 | One for the encryption or an interruption, one for a second restoration. |
| `MaxCalls` | 4 (2 in `call_hang_up`) | Answers of two ended calls can be due when a third and a fourth are started. |
| `MaxRequests` | 4 (2) | What is due of ofono when a key is pressed. |
| `MaxChanges` of `unlock` | 1 | The charger, the battery or the display changes once, or mce or dsme stops. Starting again, the display's coming on and dsme's shutdown are not counted. |
| `MaxBus` of `unlock` | 2 | Messages that wait; with two an answer can be stale, followed by the signal of what has changed since. |
| `MaxQuestions` | 2 | A wrong code and a second try. |
| `MaxChanges` of `display` | 6 | Calls of mce, its changes of mind and its stops together: enough to show, allow, stop, start, show and hide again. |
| `MaxBus` of `display` | 2 | mce sends nothing more while two messages wait: an old mce's call and the news that it is gone. |
| `Node` | two | One that is no touch device, or is gone, beside the one that is. |
| `MaxPlugs` | 3 | A node comes, goes and comes back as a touch device. |

`unlock` was also run with mce or both not running at the start, and with
`MaxChanges = 2` for its invariants: 2.3 million states, no violation. Those take
too long to be repeated on every change.

`Fault` and `ManageFault` select what may go wrong in a run.

* `encrypt` leaves out `fs_proxy`, which breaks `ResultIsFinal` (section 8), and `key_file`,
  with which `FinishedIsEncrypted` does not ask for the marker (`clients_live` has it). It has
  the failures after which no result comes (section 9); `KnownDeviceIsTold` asks for
  a result once the UUID is known.
* `clients` has, of the job, one fault for each kind of way out, `fs_proxy`, and
  `format_job`, `config_items` and `config_late` of UDisks, and of the host all but `cp` and
  `mv`, each of which breaks `HomeIsKept`. `clients_live` has the faults after which the
  partition can be mounted. Clients other than the shipped ones, which call any method at
  any time (`Spec` of `EncryptionService`), are the subject of the theorems `ServiceTyped`
  and `SecurityCodeAlwaysUsed`.
* `home_copy` leaves out `inotify`, `lost_call`, `freed_proxy`, `token` and `interrupted`,
  `emergency_call` all but `modems` and `dial`, `unlock` the faults `send`, `inotify`,
  `ask_file` and `not_after` (`KeyFaults`): each of these breaks a property, as sections 8
  and 9 say.

Timing that the models take for granted: the user is slower than the bus and the
10 s pause of the copy's scripts suffices (`HomeCopy`); nobody deletes a whole
code in the 16 ms before it is sent (`UnlockScreen`); UDisks has written its entries before
`home.mount` is started (`ConfiguredInTime`; without it `FinalizingRestartsSession` fails),
and what a killed service asked for is done before the next one is started (`Activate`).

## 6. Fairness

* `Encrypt`: weak fairness of the callbacks together (a main loop runs a source
  that is ready) and of UDisks (every step of its job comes, done or failed, and so
  does every announcement). That a failure is told is not assumed.
* `EncryptionClients`: weak fairness of the callbacks of the job and of the
  preparation, of UDisks, of systemd with logind, and of the two reactions of the
  user interface. Users owe nothing: no fairness of a call.
* `HomeCopy`: weak fairness of the service, of the scripts and of the reactions
  of the pages; strong fairness of handling a call, because the idle timeout comes
  a long time after the activation and cannot win again and again.
* `EmergencyCall`: weak fairness of ofono's answers, of the dispatch and of the
  registration of the resources.
* `UnlockScreen`: weak fairness of the start of the process, of the dispatch, of
  the answers of the bus, and of the taking of the name by whoever continues the
  boot once it can be taken. No fairness of keys or timers.
* `DisplayControl`: weak fairness of the dispatch, of the taking of requests by mce and
  the bus, and of the timer that renews the pause. mce owes no call and no start.
* `TouchInput`: weak fairness of the process and of the clock. No device need appear.

Killed processes are excepted in the properties (`killed` in `HomeCopy`), not in
the fairness.

## 7. Proofs

Every safety property that a passing run checks is proved, for every value of the
constants: any number of clients, parts, nodes, calls, questions, changes and
reboots, and any queue. Of the constants is assumed what their modules name
(`NoClient \notin Client`, `Fault \subseteq FaultKind`,
`local \in Part` and the like). A theorem that needs a fault to be absent says so as
`ASSUME ... \notin Fault`; in each such case TLC finds the property violated once the
fault is there, and sections 8 and 9 say what the code does then. None of these
properties is inductive. Each part below names the invariant that is, and why it is
needed.

### The encryption job (`EncryptProofs`)

Whether a callback meets freed data depends on where the chain is.

* `StatusInv`: the status tells which callbacks can be due.
* `DataInv`: while a callback (but a rescan that ignores it) or the signal handler
  is there, so is the data; with `fs_proxy` that holds only where the chain has not
  passed `can_format_to_type`.
* `DeviceInv`: a format is outstanding only while the chain is behind its call; a UUID
  that is known or on its way is that of a LUKS device, and nothing of UDisks is
  outstanding that could take the device away; drop-ins exist only after that. It does
  not say that an answered call has been carried out, because the code does not know.
* `ChainInv` is the three with the type invariant.
* `OwnerInv`: there is a receiver exactly while there is data.
* `ResultInv`: the job is over when, and only when, its one result was signalled.
* `KeyInv`, `FinishInv`: UDisks was asked with the passphrase of the job, so the device
  and, if its file could be written, the key marker have that kind; the success comes
  behind the last drop-in.

`TypeCorrect` comes first, one case per action. `ChainStep` goes through the
actions once more with lemmas about what the ways out do (`GivesUpEffect`,
`FinishEffect`, `PropertiesEffect`). `OwnerStep` sums every action up in three cases
(a start, a result, neither), and those cases are all that `ResultStep` and the
refinement need. `StageInv` is what of all this survives a kill of the service, and
`CallbackEffect` what the rest of the service needs to know of a callback.

| theorem | establishes | faults excluded |
|---|---|---|
| `TypeCorrect` | `EncryptTypeOK` | |
| `ChainCorrect` | `ChainInv` | |
| `WorkOwnsData` | `PendingWorkOwnsData` | `fs_proxy` |
| `DropInsOnlyForLuks` | `UnitConfOnlyForLuks` | |
| `SuccessIsEncrypted` | `FinishedIsEncrypted` | |
| `OwnerCorrect`, `BeginnerIsTold` | `ResultToBeginner` | |
| `ResultCorrect`, `ResultStaysFinal` | `ResultIsFinal` | `fs_proxy` |
| `JobKeepsPromise` | `PromiseKept`, the safety part of `EncryptionLifecycle` | `fs_proxy` |

### The service and its clients (`EncryptionClientsProofs`)

The lists of tasks are interpreted by a service that may die while systemd is still at
work for it, so that an invariant has to tie what systemd is busy with to the list.

* `ServiceInv`: the stage of the job, the passphrase and the receiver. It is enough for
  `SecurityCodeIsUsed` with any clients.
* `CallInv`, `ReplyInv`: what systemd is busy with is the task before the position in
  the list, at most one call or job is on its way, and a service that runs waits
  exactly for that one. `HostInv` is the three with the types.
* `PlacesInv`: `passwd` names `/tmp/home` exactly while the preparation service is
  active, and the job works on the device only then. `EraseInv`: these clients never
  have the device erased with random blocks.
* `OrderInv`: between the end of one session and the start of the next nobody is logged
  in, and `home.mount` is up before the users are moved back.
* `RestartInv`: a finalization or restoration runs only behind the job and behind the
  user interface. `ClientInv` is all of these but `KindsInv`, and holds with every
  fault.
* `KindsInv`: there are home directories where `passwd` says, and those of the users
  where there was space. This is what needs `cp` and `mv` to work, and only
  `HomeIsAlwaysKept` uses it.
* `MaskInv`, `RestoreInv`: how far the preparation and the restart have got, task by task;
  the marker that let the service start is there until it ends a restart.

Each task of each list is looked up once (`TaskFacts`, `PreparationTasks`,
`RestartTasks`). The refinement shows for each action which step of `HomeDirectories`
it is (`DirectoryStep`), most of them none.

| theorem | establishes | faults excluded |
|---|---|---|
| `ServiceTyped`, `ClientsTyped` | `TypeOK`, `ClientTypeOK` | |
| `SecurityCodeAlwaysUsed` | `SecurityCodeIsUsed`, any clients | |
| `JobNeverBesideRestart` | `JobAndRestartExclude` | |
| `HomeIsAlwaysKept` | `HomeIsKept`: the refinement of `HomeDirectories` | `cp`, `mv` |
| `PreparedHomeStaysMasked` | `PreparedHomeIsMasked` | `home_busy` |
| `RestartLeavesHost` | `RestartRestoresHost` | `mode_restore`, `session_gone` |

`cp` and `mv` are failures the scripts do not look at: after the first the partition is
formatted without a copy, after the second the copy is removed. `home_busy` is a failure
the preparation is not told of: the script cannot stop `home.mount`, and the old home
stays mounted. A marker that cannot be written, of which nobody is told either, does no
harm to what these theorems say. `mode_restore` is usb_moded's refusal to go back to the
mode it was in; `session_gone` a new session that ends by itself.

`HomeDirectoriesProofs` shows what the refinement is worth: there are home directories
for the users somewhere at any time (`DirectoriesAreKept`), where there is space for a
copy they have what was in them (`DataIsKept`), and a session has its home
(`OwnerHasHome`). With `HomeIsAlwaysKept` these hold of the service, its scripts and its
clients, as long as `cp` and `mv` work.

### The home copy (`HomeCopyProofs`)

`NothingLost` speaks of versions; whether a step may replace or remove one depends on
which client waits for which script, and on what the marker file means just now.

* `PhaseInv` (`ClientInv`, `CallsInv`, `ServiceInv`, `ScriptInv`): six lists of calls are
  all that is ever on its way; the service copies only for the client that waits for it;
  a script runs only while that client waits or the restoration reboots; a call and a
  script are never there together.
* `CopyInv`: while a copy runs the marker file still says "failure" and has not been closed;
  a success in it, in the signal or in a script about to report means a complete card that
  the configuration names; what the restoration has left to copy is on the card, what it
  has copied is on `/home`.
* `DataInv`: an unencrypted `/home` has everything; before an encryption the card has,
  too; a configuration names a card with nothing old on it, except while a copy is made
  or its removal is on its way; and the user never works while there is one. The last
  two are what a restoration must be able to rely on at any later time.

| theorem | establishes | faults excluded |
|---|---|---|
| `CopyTyped` | `CopyTypeOK` | |
| `NothingIsLost` | `NothingLost` | `LosesCopy` |
| `EncryptsCompleteCopies` | `EncryptsOnlyCompleteCopy` | `LosesCopy` |

`LosesCopy` is `inotify`, `freed_proxy`, `lost_call`, `token` and `interrupted`: each of them
alone breaks both properties (section 9). Kills of the service and of a script, failing
cards, copies, moves and encryptions, and every other reboot are covered.

### The emergency call (`EmergencyCallProofs`)

Answers come in the order of the requests, but a call is ended and the next one started
while they are on their way.

* `OrderInv`: what never follows what in the two queues (`Clash`): one call is dialled and
  removed at a time, and nothing of it follows its end.
* `AnswerInv`: what ofono may answer when it neither fails nor loses the call.
* `ModemInv`: nothing but the question for the modems is on its way before they are known.
* `StateInv`: the status of ofono says which requests and answers can be due, and a call in
  the modem has a path or gets it. `ControlInv` is the four.
* `NumberInv`: the number a call is prepared with, dialled with and has. The request
  to dial has its own, which is what keeps a list from being compared with the number of
  a later call and dialled all the same.

| theorem | establishes | faults excluded |
|---|---|---|
| `EmergencyTyped` | `EmergencyTypeOK` | |
| `TimerSparesCalls` | `TimerEndsNoCall` (of which there is no run) | |
| `NumbersKept` | `OnlyEmergencyNumbers` (which excepts `numbers` itself) | |
| `CallsUnderControl` | `CallUnderControl` | `LosesCall` |
| `CallsEndWithTheMode` | `NoCallLeftBehind` | `LosesCall` |

`LosesCall` is `online`, `numbers`, `hangup` and `early_call`; each alone breaks both.

### The unlock screen (`UnlockScreenProofs`)

* `CompositorInv`: a message carries a value of the state it is about; `TypeInv` adds the
  types of the rest.
* `RulesInv`: the inactivity timer follows its rule while there is a code entry, a
  battery timer that runs follows its own, and both are off while there is no code entry.
  That the battery timer is also started is a property of steps (`BatteryRuleFollowed`):
  each handler ends in `considerBatteryEmptyShutdown` or stops the timer for a reason of
  the rule.
* `ActiveInv`: nothing on its way takes back that home is mounted, and only then the name
  can be lost.
* `CodeInv`: while keys can be pressed the question waits; a code about to be sent is not
  empty. `DeadInv`: while they cannot, a code is being tried or a new question is unread.
* `KnowsInv`: every state is known as soon as the queue has been dispatched (`Settles`:
  the last message about it says so), or it is asked for, or it will be.

| theorem | establishes | faults excluded |
|---|---|---|
| `UnlockTyped` | `UnlockTypeOK` | |
| `ShutdownRulesKept` | `ShutdownTimersRight` | |
| `EmptyNeverSent` | `NeverCancels` | |
| `BatteryRuleKept` | `BatteryRuleFollowed` | |
| `KeysComeBack` | `DisabledOnlyWhileAnswered` | `KeyFaults` |
| `CachesSettle` | `CachesAgree` | |

`KeyFaults` is `send`, `inotify`, `ask_file` and `not_after`: after a wrong code each of them
leaves the keys disabled.

### The screen and the blanking pause (`DisplayControlProofs`)

* `CallInv`: the calls of one mce come before those of the next, and it waits for one
  answer at a time. `StoppedInv`: once it has the answer to "disable" nothing that is
  still to be dispatched draws. `WindowInv`: window and display follow what it said last.
* `BusInv`, `EndInv`, `RenewInv`: where in the queue mce's owner is known, so that a
  permission is never applied to an mce that is not there.
* `KnowsInv`: the owner and the permission settle, or are asked for.
* `PauseInv`: a pause that runs in the first mce is wanted or about to be stopped.
  `AgreeInv` is the last five.

| theorem | establishes | faults excluded |
|---|---|---|
| `DisplayTyped` | `DisplayTypeOK` | |
| `HiddenWhenAnswered` | `HiddenOnceAnswered` | |
| `PauseSettles` | `PauseIsAgreed` | |

### The wait for a touch device (`TouchInputProofs`)

`TouchTypeCorrect` and `NoDeviceMissed` (`NothingMissed`: a touch device is still to be
probed, or its event waits, or it was found). Probing a node overwrites `have_touch`;
the invariant adds `NotFoundYet`, that whoever still probes or waits has found none. Two
lemmas say what taking an event from the queue and adding one does to the nodes in it.

### What the proofs changed in the models

* A service that is started again has forgotten the `JobRemoved` of its predecessor
  (`ServiceReset` of `Manage` kept it).
* The user interface that encrypts starts with a session on `/tmp/home` only; a variable
  that said that the settings page had asked was not needed.
* A request to dial has a number of its own; before, a list that was compared with an
  ended call's number seemed to let a wrong one through, and `OnlyEmergencyNumbers` was
  said to fail with more faults than it does.
* `NoCallLeftBehind` had an exception for a call whose end is on its way, which never
  occurs; it is gone.

### Only model-checked

* Liveness: `KnownDeviceIsTold`, `FinalizingRestartsSession`,
  `EncryptionIsAnswered`, `PageIsAnswered`, `RestorationIsAnswered`, `CallGoesOn`,
  `UnlockEnds`, `BlankingIsPaused`, `TouchStartsAgent`. It needs fairness and ENABLED, which
  the prover does not reach.
* The violations of section 8, which are counterexamples.

## 8. Disagreements between the code and its words

* `encryption-service/encrypt.c:594` (`encrypt_fs_proxy`). Without a proxy of the
  file system `can_format_to_type` prints "Aborting.", signals the failure, frees
  the data and goes on with it.
* `encryption-service/manage.c:173` (`clients_config`). Only jobs that end with `"done"`
  are matched. `encrypt.c` says "Finished encryption successfully." (`:265`) when the UUID
  is known and the rescan over; that UDisks could not write the entries of `crypttab` and
  `fstab` after that is told to nobody (`no-block`, `:390`). Then `home.mount` fails, the
  finalization waits for ever, and the session that was ended first does not come back,
  against "Restarting user session with encrypted home." (`manage.c:619`).
* `sailfish-unlock-ui/call.cpp:466` (`call_hang_up`). An error of `HangupAll` is
  shown as `Error`, "not calling", while the call goes on and cannot be ended any
  more.
* `sailfish-unlock-ui/pin.cpp:226` (`unlock_battery`). The constructor of the code entry
  starts the inactivity timer only. A battery that is known to be empty by then starts no
  shutdown as long as nothing changes, while the comment at `:388-391` wants a "custom
  battery empty policy" and a "shutdown when battery is too low to successfully finish
  booting up".

## 9. Known behaviours that no run lists

Each was met while modelling; those marked * were seen by TLC with the fault or
the client named.

Encryption service:

* `random_key`*: when no random key can be read, the erasure's idle source is
  removed without a result (`encrypt.c:471`), although the comment at `:513` says
  that the function repeats.
* `tear_down_job`*, `format_job`*: a job of UDisks that fails after its call was answered
  is told to nobody (`encrypt.c:390`). The status stays `RESCAN_FINISHED`, no result comes,
  and the user interface waits for ever: `EncryptionIsAnswered` fails. No line of the
  repository promises otherwise in so many words, so that no run is about it.
* The erasure with random blocks starts, with "Removed /home from fstab. Starting to
  erase." (`encrypt.c:528`), when the tear-down has been accepted (`no-block`, `:549`); it may
  still be to come, or fail, so that the first blocks can meet a file system with an entry
  in `fstab`. The shipped clients ask for an erasure with zeros only, which is UDisks' own
  (`EraseInv`).
* `device_open`*: the streams of the erasure are not checked (`encrypt.c:476`); a device
  that cannot be opened kills the process.
* `config_late`*: were `home.mount` started before UDisks has written its entries,
  the finalization would hang as in `clients_config`; nothing in the service waits for them.
* `cp`*, `mv`*: the scripts do not look at what their commands return
  (`home-encryption-preparation.sh:44`, `home-encryption-finish.sh:21`); with either
  `HomeIsKept` fails, and the users lose what they had. Without space in `/tmp` they lose
  it by design, of which the pages warn (`encryption.qml:243`,
  `HomeEncryptionDisclaimer.qml:161`).
* `uuid_first`*: an `IdUUID` announced before `CleartextDevice` is lost and the job
  does not end (`encrypt.c:299`).
* `key_file`: nobody notices that the key marker could not be created (`encrypt.c:335`), and
  the agent lacks its hint at the next boot.
* A `PrepareToEncrypt` after a `FinalizeEncryption`* meets the assertion of
  `manage.c:647`; a `BeginEncryption` during a restart is accepted. The shipped
  clients do neither.
* A finalization while the last job of the preparation still runs is refused
  ("Finalize was already called", `main.c:119`) and not repeated.
* The idle timeout counts neither an encryption that was finalized only nor the
  restart under way (`main.c:133`).
* A kill loses the USB mode that was found (`manage.c:348`). `TerminateUser`
  without a session never gives a `UserRemoved` (`manage.c:390`).
* When the last task of a restart is a job, `on_signal_from_systemd` takes the watch
  off a list that the end of the tasks has just freed, and writes to freed data
  (`manage.c:176-177`). The main loop has been left by then: the process ends anyway, by
  itself or by the fault (`RestartDone` has `running' = FALSE` for both).

Settings page: every attempt to encrypt makes a new `CopyService` and connects a handler
to its signal, and none is removed (`encryption.qml:269`): a second copy's result runs the
handlers of all attempts. `HomeCopy` has one handler.

Home copy: with `interrupted`* in `Fault` `NothingLost` fails too. The configuration
that starts the restoration is written before the copy is made
(`CopyService.qml:67`); a device that is started again in between restores whatever
the card holds, for instance what an earlier failed copy left there, although the
page offers that "An encrypted memory card can be used to keep user data."
(`encryption.qml:306`). With `inotify`*, `lost_call`*, `freed_proxy`* or `token`* in `Fault`
`NothingLost` fails: a second copy that ends with the first one's result, a call
that a process which is ending never serves, an `init_watcher` whose caller goes
on with freed data (`homecopy.c:120`), and a page that is refused the encryption
after its copy.

Emergency call: each of `early_call`*, `online`*, `numbers`* and `hangup`* breaks
`CallUnderControl` and `NoCallLeftBehind` — a call is started before `HangupAll` is
answered, which ends it for `Call` (`call.cpp:461`), or an error ends a call for
`Call` that ofono goes on to dial, or does not end. Without a list the number is "not
checked" (`call.cpp:337`), so that with `numbers` any number can be dialled; no other
fault lets one through that is not in the list.
`no_modems`*, `resproto`*, `register`* and `acquire`* break `CallGoesOn` (nobody
looks at the errors, `call.cpp:573`). An invalid number and errors do not release
the audio resources, and `handleModemPath` can run twice.

Unlock screen:

* `not_after`*: the comparison of `NotAfter` is inverted (`agent.cpp:246`): a question that can
  still be answered is rejected with "ask file time in past", and one that has expired is
  kept. It does not matter while `crypttab` says `timeout=0` (`encrypt.c:409`).
* A node whose `open`, `ioctl` or `glob` fails once is not probed again
  (`touchinput.c:137`), and an overflow of the inotify queue, which holds 16 384 events,
  is not noticed. lipstick that starts during the wait is found only by the
  constructor of `Compositor`, which aborts: the check of `main.cpp:54` is old by then.
* A request for the blanking pause that is on its way when mce is started again can
  reach the new one, where it expires. `DisplayControl` has mce ask for the requirements
  before it enables the updates, as the comment at `compositor.cpp:943` has it; an mce
  that did not could be shown a permission for the pause that is older than itself.
* `send`*: the result of `sendPassword` is not looked at (`pin.cpp:771`); after a
  failure the keys stay disabled, without an inactivity shutdown.
* `inotify`*, `ask_file`*: that the directory of the questions cannot be watched is only
  logged (`agent.cpp:131-140`), and a question that is there but rejected is not told to the
  code entry (`agent.cpp:190-287`; `m_askFile` has been cleared at `:228`): after a wrong code
  the keys stay disabled. `agent.cpp:251` compares the result of `kill` with `ESRCH`,
  which it never is.
* An ask file that appears between `findAskFile` and `startWatchingForAskFiles` is
  not noticed; a second question beside the first is not looked at; the socket of
  a rejected ask file is kept.
* After a shutdown request that dsme ignores, the inactivity shutdown stays off
  until the keys are enabled anew.
* After the last notification the keyboard's buttons can show the keypad again.

## 10. What is not modelled

* Access control of the services (`is_allowed`) and losing their bus names: they
  refuse a call or end the process, as errors and kills do.
* Locale, locks and other files in the scripts' clean-up: independent of the home
  directories.
* The order of units at boot, the path unit, packaging: that is systemd's and rpm's
  own. `UnlockScreen` starts with a question because the path unit does.
* The display state and the battery level, which the unlock screen keeps and does
  nothing with (`pin.cpp:528` and `:551`), the layout of its window, its keyboards, the
  difference between dsme's shutdown and reboot, debug mode, the fields of an ask file, a
  second question at a time, and a name that goes from one owner straight to the next. What
  a cancelled question does to systemd is left out because `NeverCancels` holds.
* The speaker button and the disconnection of the resources in the destructor.
* Drawing, images and logging; the settings pages but for their calls; the library
  `libsailfishdeviceencryption`: no state.
  `HomeInfo` of the settings pages only shows what UDisks answers; when UDisks finds no
  block for the home partition it goes on loading for ever, and its destructor takes the
  block for granted (`homeinfo.cpp:74` and `:108`).
* What a boot after an interrupted encryption finds (section 2, item 10).
