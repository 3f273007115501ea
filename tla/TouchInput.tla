------------------------------ MODULE TouchInput ------------------------------
(***************************************************************************)
(* How the unlock screen starts (src/sailfish-unlock-ui/main.cpp): unless  *)
(* lipstick is running it waits for a touch input device                   *)
(* (touchinput.c), since without one the code cannot be entered, and then  *)
(* takes the screen.                                                       *)
(*                                                                         *)
(* The kernel makes and removes the nodes of /dev/input at any time, and   *)
(* the driver of the touch screen may come up before, during or after the  *)
(* probing.                                                                *)
(***************************************************************************)
EXTENDS Integers, Sequences, SequencesExt

CONSTANTS
    Node,       \* names of /dev/input/event*
    Fault,      \* what may go wrong in this instance
    MaxPlugs    \* bound on how often a node appears or disappears

TouchFaultKind ==
    {"bus",     \* the system bus cannot be asked for lipstick
     "watch",   \* inotify_init1 or inotify_add_watch
     "glob",    \* the directory cannot be read
     "probe",   \* open or ioctl of a node that is there
     "read",    \* the events cannot be read
     "poll"}

ASSUME TouchFaultAssumption == Fault \subseteq TouchFaultKind
ASSUME PlugsAssumption == MaxPlugs \in Nat

VARIABLES
    process,    \* where main() is, or how it ended
    toProbe,    \* gl_pathv that has not been probed
    have_touch,
    events,     \* IN_CREATE events that have not been read
    late,       \* max_wait_seconds are over
    device,     \* what is behind every node
    lipstick,   \* it is running, and owns the name of the compositor
    plugs,      \* how often a node appeared or disappeared so far
    skipped     \* nodes that were not probed because of a fault

wait_vars == <<toProbe, have_touch, events, skipped>>
outside_vars == <<late, device, lipstick, plugs>>
vars == <<process, wait_vars, outside_vars>>

\* "failed" and "timeout" are both EXIT_FAILURE.
Ended == {"declined", "failed", "timeout", "aborted", "agent"}

TouchTypeOK ==
    /\ process \in {"check", "watch", "glob", "probe", "poll", "read", "found"}
                   \cup Ended
    /\ toProbe \subseteq Node /\ skipped \subseteq Node
    /\ have_touch \in BOOLEAN /\ late \in BOOLEAN /\ lipstick \in BOOLEAN
    /\ events \in Seq(Node)
    /\ device \in [Node -> {"none", "other", "touch"}]
    /\ plugs \in 0 .. MaxPlugs

Init ==
    /\ process = "check"
    /\ toProbe = {} /\ have_touch = FALSE /\ events = <<>> /\ skipped = {}
    /\ late = FALSE
    /\ device \in [Node -> {"none", "other", "touch"}]
    /\ lipstick \in BOOLEAN
    /\ plugs = 0

-----------------------------------------------------------------------------
(* main.cpp *)

\* checkIfAgentCanRun
ChecksLipstick ==
    /\ process = "check"
    /\ \/ lipstick /\ process' = "declined"
       \/ "bus" \in Fault /\ process' = "declined"
       \/ ~lipstick /\ process' = "watch"
    /\ UNCHANGED <<wait_vars, outside_vars>>

\* The constructor of Compositor needs the name, which lipstick may have by now.
TakesScreen ==
    /\ process = "found"
    /\ process' = IF lipstick THEN "aborted" ELSE "agent"
    /\ UNCHANGED <<wait_vars, outside_vars>>

-----------------------------------------------------------------------------
(* touchinput.c *)

Done(found) == IF found THEN "found" ELSE "failed"

AddsWatch ==
    /\ process = "watch"
    /\ process' \in {"glob"} \cup (IF "watch" \in Fault THEN {"failed"} ELSE {})
    /\ UNCHANGED <<wait_vars, outside_vars>>

Present == {n \in Node : device[n] # "none"}

\* Mutant: glob returns the pattern when nothing matches (GLOB_NOCHECK).
GlobsPattern ==
    /\ process = "glob" /\ process' = "probe"
    /\ toProbe' = IF Present = {} THEN {"/dev/input/event*"} ELSE Present
    /\ UNCHANGED <<have_touch, skipped, events, outside_vars>>

\* The nodes there are when touchinput_have_touch_device looks.
Globs ==
    /\ process = "glob" /\ process' = "probe"
    /\ \/ toProbe' = Present /\ UNCHANGED skipped
       \/ /\ "glob" \in Fault
          /\ toProbe' = {}
          /\ skipped' = skipped \cup Present
    /\ UNCHANGED <<have_touch, events, outside_vars>>

\* touchinput_is_touch_device: a node that is gone is none.
Probed(node, is_touchdev) ==
    \/ /\ is_touchdev = (device[node] = "touch")
       /\ UNCHANGED skipped
    \/ /\ "probe" \in Fault /\ device[node] # "none"
       /\ ~is_touchdev
       /\ skipped' = skipped \cup {node}

\* The existing devices one by one, up to the first touch device.
ProbesExisting ==
    /\ process = "probe" /\ toProbe # {}
    /\ \E node \in toProbe, is_touchdev \in BOOLEAN :
           /\ Probed(node, is_touchdev)
           /\ toProbe' = toProbe \ {node}
           /\ have_touch' = is_touchdev
           /\ process' = IF is_touchdev THEN "found" ELSE "probe"
    /\ UNCHANGED <<events, outside_vars>>

\* Mutant: what was queued during the probing is taken for probed.
FlushesQueue ==
    /\ process = "probe" /\ toProbe = {}
    /\ process' = "poll"
    /\ events' = <<>>
    /\ UNCHANGED <<toProbe, have_touch, skipped, outside_vars>>

StartsWaiting ==
    /\ process = "probe" /\ toProbe = {}
    /\ process' = "poll"
    /\ UNCHANGED <<wait_vars, outside_vars>>

\* Mutant: the time that is over counts more than the events that wait.
PollsLate ==
    /\ process = "poll"
    /\ \/ ~late /\ events # <<>> /\ process' = "read"
       \/ late /\ process' = "timeout"
       \/ "poll" \in Fault /\ process' = "failed"
    /\ UNCHANGED <<wait_vars, outside_vars>>

\* Events that wait are reported even when the time is over.
Polls ==
    /\ process = "poll"
    /\ \/ events # <<>> /\ process' = "read"
       \/ events = <<>> /\ late /\ process' = "timeout"
       \/ "poll" \in Fault /\ process' = "failed"
    /\ UNCHANGED <<wait_vars, outside_vars>>

\* Mutant: the last device decides.
LastDecides ==
    /\ process = "read" /\ events # <<>>
    /\ \E is_touchdev \in BOOLEAN :
           /\ Probed(Head(events), is_touchdev)
           /\ have_touch' = is_touchdev
    /\ events' = Tail(events)
    /\ UNCHANGED <<process, toProbe, outside_vars>>

\* touchinput_handle_inotify_events reads on until nothing is left.
HandlesEvent ==
    /\ process = "read" /\ events # <<>>
    /\ \E is_touchdev \in BOOLEAN :
           /\ Probed(Head(events), is_touchdev)
           /\ have_touch' = (have_touch \/ is_touchdev)
    /\ events' = Tail(events)
    /\ UNCHANGED <<process, toProbe, outside_vars>>

EventsHandled ==
    /\ process = "read"
    /\ \/ /\ events = <<>>
          /\ process' = IF have_touch THEN "found" ELSE "poll"
       \/ "read" \in Fault /\ process' = Done(have_touch)
    /\ UNCHANGED <<wait_vars, outside_vars>>

-----------------------------------------------------------------------------
(* The kernel and the rest of the system *)

Watching == process \in {"glob", "probe", "poll", "read"}

\* A driver makes a node.
NodeAppears ==
    /\ plugs < MaxPlugs
    /\ \E node \in Node, kind \in {"other", "touch"} :
           /\ device[node] = "none"
           /\ device' = [device EXCEPT ![node] = kind]
           /\ events' = IF Watching THEN Append(events, node) ELSE events
           /\ skipped' = skipped \ {node}
    /\ plugs' = plugs + 1
    /\ UNCHANGED <<process, toProbe, have_touch, late, lipstick>>

NodeDisappears ==
    /\ plugs < MaxPlugs
    /\ \E node \in Present : device' = [device EXCEPT ![node] = "none"]
    /\ plugs' = plugs + 1
    /\ UNCHANGED <<process, wait_vars, late, lipstick>>

TimePasses ==
    /\ ~late /\ process \notin Ended
    /\ late' = TRUE
    /\ UNCHANGED <<process, wait_vars, device, lipstick, plugs>>

LipstickStarts ==
    /\ ~lipstick /\ process \notin Ended
    /\ lipstick' = TRUE
    /\ UNCHANGED <<process, wait_vars, late, device, plugs>>

Kernel ==
    /\ process \notin Ended
    /\ NodeAppears \/ NodeDisappears

Proceeds ==
    \/ ChecksLipstick \/ AddsWatch \/ Globs \/ ProbesExisting \/ StartsWaiting
    \/ Polls \/ HandlesEvent \/ EventsHandled \/ TakesScreen

Next == Proceeds \/ Kernel \/ TimePasses \/ LipstickStarts

Spec == Init /\ [][Next]_vars

\* The process runs, and the clock does.  No device need ever appear.
FairSpec == Spec /\ WF_vars(Proceeds) /\ WF_vars(TimePasses)

-----------------------------------------------------------------------------
(* Properties *)

\* A touch device that could be probed.
Touchable == {n \in Node \ skipped : device[n] = "touch"}

\* There is no gap between probing the existing devices and being told of new
\* ones: a touch device is still to be probed, or its event waits, or it was
\* found (touchinput.c:299), whenever its driver came up.
NothingMissed ==
    process \in {"probe", "poll", "read"} =>
        \A n \in Touchable : n \in toProbe \/ n \in Range(events) \/ have_touch

\* The boot does not hang on the wait, and a touch device that stays ends it with
\* the unlock screen, not with the time-out, even one that comes up when the time
\* is over already (touchinput.c:325), unless inotify or poll fails (main.cpp:59).
TouchStartsAgent ==
    /\ <>(process \in Ended)
    /\ (Watching /\ Touchable # {})
       ~> (process \in {"failed", "aborted", "agent"} \/ Touchable = {})
=============================================================================
