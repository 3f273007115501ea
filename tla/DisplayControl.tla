---------------------------- MODULE DisplayControl ----------------------------
(***************************************************************************)
(* The unlock screen and mce (src/sailfish-unlock-ui/compositor.cpp,       *)
(* agent.cpp and pin.cpp): mce says when the unlock screen may draw and    *)
(* waits for the answer, and the unlock screen asks mce not to blank the   *)
(* display while the code is waited for.                                   *)
(*                                                                         *)
(* One connection to the bus: what comes is dispatched in its order and    *)
(* what is sent is taken in its order.  mce stops and starts at any time;  *)
(* its calls that are on their way are dispatched all the same.            *)
(***************************************************************************)
EXTENDS Integers, Sequences, SequencesExt

CONSTANTS
    Fault,      \* what may go wrong in this instance
    MaxChanges, \* bound on what mce calls, changes and stops
    MaxBus      \* bound on the messages that wait when mce sends one more

DisplayFaultKind == {"argument"}    \* a call whose argument cannot be read

ASSUME DisplayFaultAssumption == Fault \subseteq DisplayFaultKind
ASSUME DisplayBoundAssumption == MaxChanges \in Nat /\ MaxBus \in Nat \ {0}

VARIABLES
    \* Agent and PinUi
    uiAllowed,      \* m_uiAllowed
    ui,             \* m_ui is there, and with it m_blankPreventWanted
    displayOn,      \* m_displayOn
    visible,        \* window()->setVisible
    blanked,        \* MinUi::Display
    \* Compositor
    updates,        \* m_updatesState
    mceIsRunning,   \* m_mceNameOwner is set, m_mceIsRunning
    allowed,        \* m_blankPreventAllowed
    renewTimer,     \* m_blankPreventRenewTimer
    \* the bus
    bus,            \* messages to the unlock screen
    sent,           \* messages of the unlock screen
    \* mce
    run,            \* how often it has started, 0 when it never did
    running,
    permits,        \* what the unlock screen has answered to last
    call,           \* the call that waits for its answer
    mceAllows,      \* the blanking may be paused
    paused,         \* the blanking is paused
    changes         \* how often mce called, changed or stopped so far

ui_vars == <<uiAllowed, ui, displayOn, visible, blanked>>
pause_vars == <<mceIsRunning, allowed, renewTimer>>
mce_vars == <<run, running, permits, call, mceAllows, paused, changes>>
vars == <<ui_vars, updates, pause_vars, bus, sent, mce_vars>>

Call == {"requirements", "enable", "disable"}

Message ==
    [of : Call \cup {"malformed", "owner", "allowed"},
     from : Nat, value : BOOLEAN]

Request == [of : {"owner", "allowed", "start", "stop", "reply"}, to : Nat]

DisplayTypeOK ==
    /\ uiAllowed \in BOOLEAN /\ ui \in BOOLEAN /\ displayOn \in BOOLEAN
    /\ visible \in BOOLEAN /\ blanked \in BOOLEAN
    /\ updates \in {"unknown", "enabled", "disabled"}
    /\ mceIsRunning \in BOOLEAN /\ allowed \in BOOLEAN
    /\ renewTimer \in BOOLEAN
    /\ bus \in Seq(Message) /\ sent \in Seq(Request)
    /\ run \in Nat /\ running \in BOOLEAN
    /\ permits \in {"unknown", "enable", "disable", "ready"}
    /\ call \in Call \cup {"none"}
    /\ mceAllows \in BOOLEAN /\ paused \in BOOLEAN
    /\ changes \in 0 .. MaxChanges

\* The constructor of Compositor has asked for the owner of mce's name.
Init ==
    /\ uiAllowed = FALSE /\ ui = FALSE /\ displayOn = FALSE
    /\ visible = FALSE /\ blanked = FALSE
    /\ updates = "unknown"
    /\ mceIsRunning = FALSE /\ allowed = FALSE /\ renewTimer = FALSE
    /\ bus = <<>> /\ sent = <<[of |-> "owner", to |-> 0]>>
    /\ running \in BOOLEAN /\ run = (IF running THEN 1 ELSE 0)
    /\ permits = "unknown" /\ call = "none"
    /\ mceAllows \in BOOLEAN /\ paused = FALSE
    /\ changes = 0

-----------------------------------------------------------------------------
(* The blanking pause: compositor.cpp *)

To(kind) == [of |-> kind, to |-> 0]

\* evaluateNeedForBlankingPauseTimer, and what the handler sends before and after
\* it.  A mce that is gone is not told to stop.
EvaluatePause(before, after) ==
    LET prevent == ui' /\ allowed' IN
    /\ renewTimer' = prevent
    /\ sent' = before \o
          (IF prevent /\ ~renewTimer THEN <<To("start")>>
           ELSE IF renewTimer /\ ~prevent /\ mceIsRunning' THEN <<To("stop")>>
           ELSE <<>>) \o after

\* Mutant: the timer fires once.
RenewsOnce ==
    /\ renewTimer /\ ~Contains(sent, To("start"))
    /\ renewTimer' = FALSE
    /\ sent' = Append(sent, To("start"))
    /\ UNCHANGED <<ui_vars, updates, mceIsRunning, allowed, bus, mce_vars>>

\* The repeating timer.  The answers of one minute have been taken by then.
Renews ==
    /\ renewTimer /\ ~Contains(sent, To("start"))
    /\ sent' = Append(sent, To("start"))
    /\ UNCHANGED <<ui_vars, updates, pause_vars, bus, mce_vars>>

\* updateInternallyCachedBlankPreventAllowed
AllowedChanges(blankPreventAllowed) ==
    /\ allowed' = blankPreventAllowed
    /\ UNCHANGED <<ui_vars, updates, mceIsRunning>>
    /\ EvaluatePause(sent, <<>>)

\* Mutant: what the mce that stopped had allowed is kept.
OwnerKeepsAllowed(owned) ==
    /\ mceIsRunning' = owned
    /\ UNCHANGED <<ui_vars, updates, allowed>>
    /\ EvaluatePause(IF owned /\ ~mceIsRunning THEN Append(sent, To("allowed"))
                     ELSE sent, <<>>)

\* updateInternallyCachedMceIsRunning: mce is asked whether it allows the pause;
\* its other states are in Compositor.  Without mce nothing is allowed.
OwnerChanges(owned) ==
    /\ mceIsRunning' = owned
    /\ allowed' = (IF mceIsRunning /\ ~owned THEN FALSE ELSE allowed)
    /\ UNCHANGED <<ui_vars, updates>>
    /\ EvaluatePause(IF owned /\ ~mceIsRunning THEN Append(sent, To("allowed"))
                     ELSE sent, <<>>)

-----------------------------------------------------------------------------
(* Drawing: agent.cpp and pin.cpp *)

\* Mutant: the window stays where the display was on before.
HidesOnce(on, prev) ==
    /\ displayOn' = on
    /\ visible' = (IF on THEN TRUE ELSE visible)
    /\ blanked' = (IF prev # on THEN ~on ELSE blanked)

\* PinUi::updatesEnabledChanged, where m_displayOn was "prev".
ShowsOrHides(on, prev) ==
    /\ displayOn' = on
    /\ visible' = on
    /\ blanked' = (IF prev # on THEN ~on ELSE blanked)

\* Agent::tryToCreateUI and the constructor of PinUi, which wants no blanking.
\* MinUi unblanks the display.
CreatesUi == ~ui /\ uiAllowed' /\ updates' = "enabled"

\* Agent::updatesEnabledChanged
UpdatesEnabledChanged ==
    /\ ui' = (ui \/ CreatesUi)
    /\ IF ui' THEN ShowsOrHides(updates' = "enabled", displayOn \/ CreatesUi)
       ELSE UNCHANGED <<displayOn, visible, blanked>>

ReplyTo(message) == <<[of |-> "reply", to |-> message.from]>>

\* Mutant: the argument that cannot be read is used uninitialized.
UsesUninitialized(message) ==
    /\ updates' = (IF message.of = "enable" THEN "enabled"
                   ELSE IF message.of = "disable" THEN "disabled" ELSE "")
    /\ UNCHANGED <<uiAllowed, mceIsRunning, allowed>>
    /\ IF updates' # updates THEN UpdatesEnabledChanged
       ELSE UNCHANGED <<ui, displayOn, visible, blanked>>
    /\ EvaluatePause(sent, ReplyTo(message))

\* setUpdatesEnabled.  An argument that cannot be read means that drawing is not
\* allowed, and the answer follows in any case.
SetUpdatesEnabled(message) ==
    /\ updates' = (IF message.of = "enable" THEN "enabled" ELSE "disabled")
    /\ UNCHANGED <<uiAllowed, mceIsRunning, allowed>>
    /\ IF updates' # updates THEN UpdatesEnabledChanged
       ELSE UNCHANGED <<ui, displayOn, visible, blanked>>
    /\ EvaluatePause(sent, ReplyTo(message))

\* The other methods say which process it is and what mce has to do first.
GetSetupActions(message) ==
    /\ sent' = sent \o ReplyTo(message)
    /\ UNCHANGED <<ui_vars, updates, pause_vars>>

\* systemBusMessageFilter
Dispatch ==
    /\ bus # <<>> /\ bus' = Tail(bus)
    /\ UNCHANGED mce_vars
    /\ LET message == Head(bus) IN
       \/ /\ message.of \in {"enable", "disable", "malformed"}
          /\ SetUpdatesEnabled(message)
       \/ message.of = "requirements" /\ GetSetupActions(message)
       \/ message.of = "owner" /\ OwnerChanges(message.value)
       \/ message.of = "allowed" /\ AllowedChanges(message.value)

\* Agent::execute, at once or after a temporary passphrase that was wrong.  MinUi
\* shows a window that is new.
AllowsUi ==
    /\ ~uiAllowed /\ uiAllowed' = TRUE
    /\ UNCHANGED <<updates, mceIsRunning, allowed, bus, mce_vars>>
    /\ ui' = CreatesUi
    /\ displayOn' = ui' /\ visible' = ui' /\ UNCHANGED blanked
    /\ EvaluatePause(sent, <<>>)

-----------------------------------------------------------------------------
(* mce and the bus *)

Arrives(of, value) ==
    bus' = Append(bus, [of |-> of, from |-> run', value |-> value])

\* The next request is taken.  Where nobody is, an error is the answer, which
\* nobody looks at.  A reply to a mce that is gone reaches nobody.
RequestTaken ==
    /\ sent # <<>> /\ sent' = Tail(sent)
    /\ UNCHANGED <<ui_vars, updates, pause_vars, run, running, mceAllows, changes>>
    /\ LET request == Head(sent) IN
       /\ IF running /\ request.of \in {"owner", "allowed"}
          THEN Arrives(request.of, request.of = "owner" \/ mceAllows)
          ELSE UNCHANGED bus
       /\ paused' = (IF request.of = "start" THEN paused \/ (running /\ mceAllows)
                     ELSE paused /\ request.of # "stop")
       /\ IF running /\ request.of = "reply" /\ request.to = run
          THEN /\ call' = "none"
               /\ permits' = (IF call = "requirements" THEN "ready" ELSE call)
          ELSE UNCHANGED <<call, permits>>

MceStep ==
    /\ changes < MaxChanges /\ changes' = changes + 1
    /\ Len(bus) < MaxBus
    /\ UNCHANGED <<ui_vars, updates, pause_vars, sent>>

\* mce asks for what has to be done before it gives the permission to draw, and
\* from then on gives and takes it.
Calls(kind) ==
    /\ MceStep /\ running /\ call = "none" /\ call' = kind
    /\ IF kind = "requirements" THEN permits = "unknown"
       ELSE permits \notin {"unknown", kind}
    /\ UNCHANGED <<run, running, permits, mceAllows, paused>>
    /\ \/ Arrives(kind, TRUE)
       \/ "argument" \in Fault /\ kind = "disable" /\ Arrives("malformed", TRUE)

\* Whether mce ends the pause that it does not allow any more is not known.
MceChangesMind ==
    /\ MceStep /\ running
    /\ mceAllows' = ~mceAllows
    /\ paused' \in {paused, paused /\ mceAllows'}
    /\ UNCHANGED <<run, running, permits, call>>
    /\ Arrives("allowed", mceAllows')

MceStops ==
    /\ MceStep /\ running /\ running' = FALSE
    /\ permits' = "unknown" /\ call' = "none" /\ paused' = FALSE
    /\ UNCHANGED <<run, mceAllows>>
    /\ Arrives("owner", FALSE)

MceStarts ==
    /\ ~running /\ running' = TRUE /\ run' = run + 1
    /\ mceAllows' \in BOOLEAN
    /\ UNCHANGED <<ui_vars, updates, pause_vars, sent, permits, call, paused, changes>>
    /\ Arrives("owner", TRUE)

\* A pause that is not renewed ends.
PauseExpires ==
    /\ paused /\ paused' = FALSE
    /\ UNCHANGED <<ui_vars, updates, pause_vars, bus, sent, run, running,
                   permits, call, mceAllows, changes>>

Next ==
    \/ Dispatch \/ AllowsUi \/ Renews \/ RequestTaken
    \/ \E kind \in Call : Calls(kind)
    \/ MceChangesMind \/ MceStops \/ MceStarts \/ PauseExpires

Spec == Init /\ [][Next]_vars

\* The event loop runs, its repeating timer fires, and what is sent is taken.
FairSpec ==
    Spec /\ WF_vars(Dispatch) /\ WF_vars(Renews) /\ WF_vars(RequestTaken)

-----------------------------------------------------------------------------
(* Properties *)

\* From the answer on, mce may give the display to somebody else: the window is
\* hidden and the display blanked, and stays so until mce allows it, whichever mce
\* sent the calls that are still on their way (pin.cpp:621, compositor.cpp:917).
HiddenOnceAnswered ==
    running /\ permits = "disable" /\ call = "none" =>
        ~visible /\ (ui => blanked)

\* Nothing is renewed at a mce that is gone ("Stop blank prevent ping-pong",
\* compositor.cpp:834), and when nothing is on its way the pause is wanted from mce
\* exactly as long as it allows it, however it stopped and started.  A pause is not
\* left behind, unless a request on its way to a mce that stopped reached the next
\* one, where it expires (compositor.cpp:730).
PauseIsAgreed ==
    /\ renewTimer => mceIsRunning
    /\ bus = <<>> /\ sent = <<>> =>
           /\ renewTimer = (ui /\ running /\ mceAllows)
           /\ paused => renewTimer \/ run > 1

\* The display does not blank for good while the code is waited for and mce allows
\* the pause: a pause that ends is renewed (compositor.cpp:753).
BlankingIsPaused ==
    <>[](ui /\ running /\ mceAllows) => []<>paused
=============================================================================
