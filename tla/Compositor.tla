------------------------------ MODULE Compositor ------------------------------
(***************************************************************************)
(* The unlock screen on the system bus                                     *)
(* (src/sailfish-unlock-ui/compositor.cpp): what it knows of mce, dsme and *)
(* home.mount, and the name that gives it the screen.                      *)
(*                                                                         *)
(* Everything comes over one connection: replies and signals wait in "bus" *)
(* in the order in which they were sent, and the event loop dispatches one *)
(* after the other.  mce, dsme and systemd take the queries when they like *)
(* and may change, stop and start at any time.                             *)
(***************************************************************************)
EXTENDS Integers, Sequences

CONSTANTS
    Fault,          \* what may go wrong in this instance
    AtStart,        \* how things may be when the unlock screen starts
    MaxChanges,     \* bound on what changes or stops outside
    MaxBus          \* bound on the messages that wait

UnlockFaultKind ==
    {"name",        \* the compositor's name cannot be made replaceable
     "send",        \* the socket of a question cannot be written to
     "inotify",     \* the directory of the questions cannot be watched
     "ask_file",    \* the directory, a question or its process is unreadable
     "not_after"}   \* questions with a time limit are asked

ASSUME UnlockFaultAssumption == Fault \subseteq UnlockFaultKind
ASSUME StartAssumption ==
    AtStart \subseteq [running : SUBSET {"mce", "dsme"},
                       charger : {"on", "off"}, battery : {"ok", "empty"}]
ASSUME BoundAssumption == MaxChanges \in Nat /\ MaxBus \in Nat \ {0}

VARIABLES
    \* Compositor
    cached,         \* m_chargerState, m_batteryStatus, m_updatesState,
                    \* m_dsmeState and m_targetUnitActive
    nameOwner,      \* m_mceNameOwner and m_dsmeNameOwner
    nameOwned,      \* m_compositorNameOwned
    replaceable,    \* m_replacingCompositorNameOwnerAllowed
    \* the others
    bus,            \* messages on their way to the unlock screen
    queries,        \* its queries that have not been taken
    running,        \* mce and dsme, when they are running
    actual,         \* what the cached states stand for
    changes         \* what has changed so far

compositor_vars == <<cached, nameOwner, nameOwned, replaceable>>
outside_vars == <<bus, queries, running, actual, changes>>

Peer == {"mce", "dsme"}

State == {"charger", "battery", "updates", "dsmeState", "targetUnit"}

\* Who tells a state.
Provider == [charger |-> "mce", battery |-> "mce", updates |-> "mce",
             dsmeState |-> "dsme", targetUnit |-> "systemd"]

Values == [charger |-> {"on", "off"}, battery |-> {"ok", "empty"},
           updates |-> {"enabled", "disabled"},
           dsmeState |-> {"USER", "SHUTDOWN"},
           targetUnit |-> {"active", "inactive"}]

\* Before anything is known; a unit that is not known is not active.
Unknown == [charger |-> "unknown", battery |-> "unknown", updates |-> "unknown",
            dsmeState |-> "NOT_SET", targetUnit |-> "inactive"]

Message ==
    [of : State \cup Peer \cup {"NameLost"},
     value : (UNION {Values[s] : s \in State}) \cup {"owned", "none"}]

Query ==
    Peer \cup {"subscribe", "targetUnit", "charger", "battery", "dsmeState"}

CompositorTypeOK ==
    /\ DOMAIN cached = State
    /\ \A s \in State : cached[s] \in Values[s] \cup {Unknown[s]}
    /\ nameOwner \in [Peer -> {"owned", "none"}]
    /\ nameOwned \in BOOLEAN /\ replaceable \in BOOLEAN
    /\ bus \in Seq(Message) /\ Len(bus) <= MaxBus
    /\ queries \subseteq Query
    /\ running \in [Peer -> BOOLEAN]
    /\ DOMAIN actual = State
    /\ \A s \in State : actual[s] \in Values[s] \cup {Unknown[s]}
    /\ changes \in 0 .. MaxChanges

\* The name is owned, the matches are added and the first queries made.
CompositorInit ==
    /\ cached = Unknown
    /\ nameOwner = [p \in Peer |-> "none"]
    /\ nameOwned = TRUE /\ replaceable = FALSE
    /\ bus = <<>>
    /\ queries = Peer \cup {"subscribe", "targetUnit"}
    /\ \E start \in AtStart :
           /\ running = [p \in Peer |-> p \in start.running]
           /\ actual = [charger |-> start.charger, battery |-> start.battery,
                        updates |-> "unknown", dsmeState |-> "USER",
                        targetUnit |-> "inactive"]
    /\ changes = 0

Arrives(of, value) ==
    /\ Len(bus) < MaxBus
    /\ bus' = Append(bus, [of |-> of, value |-> value])

-----------------------------------------------------------------------------
(* The handlers of the messages *)

\* Mutant: the battery is not asked for.
ForgetsBattery(peer) == IF peer = "mce" THEN {"charger"} ELSE {"dsmeState"}

\* What a peer is asked when it appears; mce tells the updates on its own.
QueriesTo(peer) ==
    IF peer = "mce" THEN {"charger", "battery"} ELSE {"dsmeState"}

\* Mutant: an owner that is an empty string is kept as it is.
OwnerEmpty(peer, owner) ==
    /\ nameOwner' =
          [nameOwner EXCEPT ![peer] = IF owner = "none" THEN "" ELSE owner]
    /\ UNCHANGED <<cached, queries>>

\* updateInternallyCachedDsmeIsRunning: without dsme there is no state.
DsmeGone(peer, owner) ==
    peer = "dsme" /\ owner = "none" /\ nameOwner[peer] = "owned"

\* updateInternallyCachedMceNameOwner and its like of dsme.  A query to a peer
\* that is gone again is answered with an error, which nobody looks at.
OwnerChanges(peer, owner) ==
    /\ nameOwner' = [nameOwner EXCEPT ![peer] = owner]
    /\ cached' = IF DsmeGone(peer, owner)
                 THEN [cached EXCEPT !["dsmeState"] = "NOT_SET"] ELSE cached
    /\ queries' = IF owner = "owned" /\ nameOwner[peer] = "none" /\ running[peer]
                  THEN queries \cup QueriesTo(peer) ELSE queries

\* evaluateCompositorNameOwnerReplacingAllowed
evaluateReplacingAllowed ==
    \/ replaceable' = (replaceable \/ cached'["targetUnit"] = "active")
    \/ "name" \in Fault /\ UNCHANGED replaceable

\* updateTargetUnitActive
UnitChanges ==
    IF cached'["targetUnit"] # cached["targetUnit"]
    THEN evaluateReplacingAllowed
    ELSE UNCHANGED replaceable

\* updateInternallyCachedChargerState and its like.
StateChanges(state, value) ==
    /\ cached' = [cached EXCEPT ![state] = value]
    /\ UNCHANGED <<nameOwner, nameOwned, queries>>
    /\ UnitChanges

\* systemBusMessageFilter: one message is handled from beginning to end.
Dispatched(message) ==
    /\ bus # <<>> /\ message = Head(bus)
    /\ bus' = Tail(bus)
    /\ UNCHANGED <<running, actual, changes>>
    /\ \/ /\ message.of \in State
          /\ StateChanges(message.of, message.value)
       \/ /\ message.of \in Peer
          /\ OwnerChanges(message.of, message.value)
          /\ UNCHANGED <<nameOwned, replaceable>>
       \/ /\ message.of = "NameLost"
          /\ nameOwned' = FALSE
          /\ UNCHANGED <<cached, nameOwner, replaceable, queries>>

\* Mutant: only the loss of the name ends the event loop.
LeavesOnNameLost == nameOwned /\ ~nameOwned'

\* The handler leaves the event loop: the name is lost, or it will not be.
LeavesLoop ==
    \/ nameOwned /\ ~nameOwned'
    \/ /\ cached["targetUnit"] # cached'["targetUnit"]
       /\ cached'["targetUnit"] = "active" /\ ~replaceable'

-----------------------------------------------------------------------------
(* mce, dsme, systemd and the bus *)

\* One process answers the queries to it in the order in which they were made.
Earlier == [mce |-> {}, dsme |-> {"mce"}, subscribe |-> {},
            targetUnit |-> {"subscribe"}, charger |-> {},
            battery |-> {"charger"}, dsmeState |-> {}]

TakesQuery(query) ==
    /\ query \in queries /\ Earlier[query] \cap queries = {}
    /\ queries' = queries \ {query}
    /\ UNCHANGED <<running, actual, changes>>

\* The bus answers a question for an owner, with an error if there is none.
OwnerAnswered(peer) ==
    /\ TakesQuery(peer)
    /\ IF running[peer] THEN Arrives(peer, "owned") ELSE UNCHANGED bus

StateAnswered(state) ==
    /\ TakesQuery(state)
    /\ Arrives(state, actual[state])

Subscribed == TakesQuery("subscribe") /\ UNCHANGED bus

\* A change is signalled by whoever provides the state, if it is running.
Told(state) ==
    IF Provider[state] = "systemd" THEN "subscribe" \notin queries
    ELSE running[Provider[state]]

Becomes(state, value) ==
    /\ value # actual[state]
    /\ actual' = [actual EXCEPT ![state] = value]
    /\ IF Told(state) THEN Arrives(state, value) ELSE UNCHANGED bus
    /\ UNCHANGED <<queries, running>>

PeerStops(peer) ==
    /\ running[peer]
    /\ running' = [running EXCEPT ![peer] = FALSE]
    /\ queries' = queries \ QueriesTo(peer)
    /\ Arrives(peer, "none")
    /\ UNCHANGED actual

PeerStarts(peer) ==
    /\ ~running[peer]
    /\ running' = [running EXCEPT ![peer] = TRUE]
    /\ Arrives(peer, "owned")
    /\ UNCHANGED <<queries, actual>>

\* The charger, the battery and the display change; mce or dsme stops.
Change ==
    /\ changes < MaxChanges
    /\ changes' = changes + 1
    /\ \/ \E state \in {"charger", "battery"} :
              \E value \in Values[state] : Becomes(state, value)
       \/ /\ running["mce"] /\ actual["updates"] = "enabled"
          /\ Becomes("updates", "disabled")
       \/ \E peer \in Peer : PeerStops(peer)

\* The unlock screen may draw; dsme shuts the device down, when it was asked to
\* or on its own; and what stopped starts.
Proceed ==
    /\ UNCHANGED changes
    /\ \/ running["mce"] /\ Becomes("updates", "enabled")
       \/ running["dsme"] /\ Becomes("dsmeState", "SHUTDOWN")
       \/ \E peer \in Peer : PeerStarts(peer)

Answer ==
    \/ \E peer \in Peer : OwnerAnswered(peer)
    \/ \E state \in State \cap Query : StateAnswered(state)
    \/ Subscribed

\* Whoever continues the boot takes the name.
NameTaken ==
    /\ replaceable /\ nameOwned
    /\ \A i \in DOMAIN bus : bus[i].of # "NameLost"
    /\ Arrives("NameLost", "none")
    /\ UNCHANGED <<queries, running, actual, changes>>
=============================================================================
