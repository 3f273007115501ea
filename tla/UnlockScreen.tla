----------------------------- MODULE UnlockScreen -----------------------------
(***************************************************************************)
(* The unlock screen: the agent that answers the questions of systemd      *)
(* (src/sailfish-unlock-ui/agent.cpp) and the code entry with its shutdown *)
(* rules (pin.cpp), driven by what Compositor knows.  The emergency call   *)
(* itself is in EmergencyCall; here the emergency mode is on or off.       *)
(*                                                                         *)
(* One event loop: a message, a key, a timer or a new question is handled  *)
(* from beginning to end.                                                  *)
(***************************************************************************)
EXTENDS Compositor

CONSTANT MaxQuestions   \* bound on how often the code is asked for

ASSUME QuestionsAssumption == MaxQuestions \in Nat \ {0}

VARIABLES
    \* Agent
    process,        \* how far execute() is, "exited" at its end
    askFile,        \* m_askFile is not empty
    watching,       \* inotify tells of new ask files
    \* PinUi
    ui,             \* m_ui is there
    enabled,        \* the keys can be pressed
    text,           \* "code" when something is typed
    canShowError,
    sendTimer,      \* m_timer, which sends the password
    emergencyMode,
    inactivityEnabled, inactivityTimer,
    batteryRequested, batteryTimer,
    \* systemd
    question,       \* an ask file waits in the directory
    questions,      \* how often the code was asked for
    limited,        \* its NotAfter is set and still to come
    newFile,        \* the event of a new ask file has not been read
    answer          \* what is on its way to the socket or being tried

agent_vars == <<process, askFile, watching>>
entry_vars == <<enabled, text, canShowError, sendTimer, emergencyMode>>
rule_vars ==
    <<inactivityEnabled, inactivityTimer, batteryRequested, batteryTimer>>
ui_vars == <<ui, entry_vars, rule_vars>>
question_vars == <<question, limited, questions, newFile, answer>>
vars == <<compositor_vars, outside_vars, agent_vars, ui_vars, question_vars>>

UnlockTypeOK ==
    /\ CompositorTypeOK
    /\ process \in {"find", "watch", "temporary", "main", "exited"}
    /\ askFile \in BOOLEAN /\ watching \in BOOLEAN
    /\ ui \in BOOLEAN /\ enabled \in BOOLEAN /\ canShowError \in BOOLEAN
    /\ text \in {"none", "code"} /\ sendTimer \in BOOLEAN
    /\ emergencyMode \in BOOLEAN
    /\ inactivityEnabled \in BOOLEAN /\ inactivityTimer \in BOOLEAN
    /\ batteryRequested \in BOOLEAN /\ batteryTimer \in BOOLEAN
    /\ question \in BOOLEAN /\ limited \in BOOLEAN /\ newFile \in BOOLEAN
    /\ questions \in 1 .. MaxQuestions
    /\ answer \in {"none", "temporary", "code", "cancel"}

\* A question without a time limit, or with one that is still to come.
TimeLimit == IF "not_after" \in Fault THEN BOOLEAN ELSE {FALSE}

\* systemd starts the unlock screen because there is a question.
Init ==
    /\ CompositorInit
    /\ process = "find" /\ askFile = FALSE /\ watching = FALSE
    /\ ui = FALSE /\ enabled = FALSE /\ text = "none" /\ canShowError = FALSE
    /\ sendTimer = FALSE /\ emergencyMode = FALSE
    /\ inactivityEnabled = FALSE /\ inactivityTimer = FALSE
    /\ batteryRequested = FALSE /\ batteryTimer = FALSE
    /\ question = TRUE /\ limited \in TimeLimit /\ questions = 1
    /\ newFile = FALSE /\ answer = "none"

-----------------------------------------------------------------------------
(* Shutting down on inactivity and on an empty battery: pin.cpp *)

\* startInactivityShutdownTimer, by what is known then.
MayShutDown(known, isEnabled, emergency) ==
    /\ known["targetUnit"] # "active"
    /\ isEnabled /\ ~emergency
    /\ known["charger"] # "on"
    /\ known["dsmeState"] = "USER"

startInactivityShutdownTimer ==
    inactivityTimer' = (inactivityTimer
        \/ MayShutDown(cached', inactivityEnabled', emergencyMode'))

stopInactivityShutdownTimer == inactivityTimer' = FALSE

\* The device has to shut down when the battery stays empty.
BatteryEmpty(known, emergency) ==
    /\ known["targetUnit"] # "active"
    /\ known["battery"] = "empty"
    /\ ~emergency
    /\ known["charger"] = "off"
    /\ known["dsmeState"] = "USER"

considerBatteryEmptyShutdown ==
    batteryTimer' = (~batteryRequested /\ BatteryEmpty(cached', emergencyMode'))

setInactivityShutdownEnabled(isEnabled) ==
    /\ inactivityEnabled' = isEnabled
    /\ IF isEnabled = inactivityEnabled THEN UNCHANGED inactivityTimer
       ELSE IF isEnabled THEN startInactivityShutdownTimer
       ELSE stopInactivityShutdownTimer

disableAll == enabled' = FALSE /\ setInactivityShutdownEnabled(FALSE)
enabledAll == enabled' = TRUE /\ setInactivityShutdownEnabled(TRUE)

\* Mutant: the empty battery is not considered.
StopsOrStartsOnly(stops) ==
    /\ IF stops THEN stopInactivityShutdownTimer
       ELSE startInactivityShutdownTimer
    /\ UNCHANGED <<batteryTimer, batteryRequested>>

\* chargerStateChanged and targetUnitActiveChanged: "on" and "active" stop it.
StopsOrStarts(stops) ==
    /\ IF stops THEN stopInactivityShutdownTimer
       ELSE startInactivityShutdownTimer
    /\ considerBatteryEmptyShutdown
    /\ UNCHANGED batteryRequested

dsmeStateChanged ==
    IF cached'["dsmeState"] = "USER"
    THEN /\ startInactivityShutdownTimer
         /\ considerBatteryEmptyShutdown
         /\ UNCHANGED batteryRequested
    ELSE /\ stopInactivityShutdownTimer
         /\ batteryTimer' = FALSE /\ batteryRequested' = FALSE

\* Both timers ask dsme to shut down.  Whether it does is up to dsme, if it is
\* running, and shows in its state (Proceed).
InactivityTimerFires ==
    /\ process = "main" /\ inactivityTimer
    /\ stopInactivityShutdownTimer
    /\ inactivityEnabled' = FALSE
    /\ UNCHANGED <<compositor_vars, outside_vars, agent_vars, ui, entry_vars,
                   batteryRequested, batteryTimer, question_vars>>

BatteryTimerFires ==
    /\ process = "main" /\ batteryTimer
    /\ batteryTimer' = FALSE
    /\ batteryRequested' = TRUE
    /\ UNCHANGED <<compositor_vars, outside_vars, agent_vars, ui, entry_vars,
                   inactivityEnabled, inactivityTimer, question_vars>>

-----------------------------------------------------------------------------
(* Entering the code: pin.cpp *)

\* The constructor, and newAskFile for the question that waits.  It starts the
\* inactivity timer and does not look at the battery.
PinUi ==
    /\ ui' = TRUE /\ enabled' = TRUE /\ text' = "none" /\ canShowError' = FALSE
    /\ sendTimer' = FALSE /\ emergencyMode' = FALSE
    /\ setInactivityShutdownEnabled(TRUE)
    /\ batteryRequested' = FALSE /\ batteryTimer' = FALSE

\* Mutant: the keys come back with the warning only when it was shown before.
ShowErrorOnce ==
    /\ text' = "none"
    /\ UNCHANGED <<canShowError, enabled, inactivityEnabled, inactivityTimer>>

\* showError: after a code was sent the keys are enabled again.
showError ==
    /\ text' = "none"
    /\ UNCHANGED canShowError
    /\ IF canShowError
       THEN enabledAll
       ELSE UNCHANGED <<enabled, inactivityEnabled, inactivityTimer>>

\* newAskFile
NewAskFileShown ==
    /\ UNCHANGED <<ui, sendTimer, emergencyMode, batteryRequested,
                   batteryTimer>>
    /\ IF emergencyMode
       THEN UNCHANGED <<text, canShowError, enabled, inactivityEnabled,
                        inactivityTimer>>
       ELSE showError

\* A key of an enabled window that is shown.  Every key postpones the shutdown.
KeyPressed ==
    /\ process = "main" /\ ui /\ enabled /\ cached["updates"] = "enabled"
    /\ UNCHANGED <<compositor_vars, outside_vars, agent_vars, ui, enabled,
                   inactivityEnabled, batteryRequested, question_vars>>

restartInactivityShutdownTimer ==
    inactivityTimer' = MayShutDown(cached', inactivityEnabled', emergencyMode')

\* A character, which takes a KEY_ENTER back, or KEY_BACKSPACE.  Nobody deletes a
\* whole code in the 16 ms before it is sent.
KeyEdits ==
    /\ KeyPressed
    /\ ~emergencyMode
    /\ \/ text' = "code" /\ sendTimer' = FALSE
       \/ /\ text = "code" /\ text' \in {"none", "code"}
          /\ sendTimer => text' = "code"
          /\ UNCHANGED sendTimer
    /\ UNCHANGED <<canShowError, emergencyMode, batteryTimer>>
    /\ restartInactivityShutdownTimer

\* KEY_ENTER, which is offered for a text that is long enough.
KeyEnters ==
    /\ KeyPressed
    /\ ~emergencyMode /\ text = "code"
    /\ canShowError' = TRUE
    /\ sendTimer' = TRUE
    /\ UNCHANGED <<text, emergencyMode, batteryTimer>>
    /\ restartInactivityShutdownTimer

\* Mutant: the code that was entered is sent after all.
EmergencyKeepsTimer(emergency) ==
    /\ emergencyMode' = emergency
    /\ text' = "none"
    /\ UNCHANGED <<sendTimer, canShowError>>
    /\ IF emergency THEN stopInactivityShutdownTimer
       ELSE startInactivityShutdownTimer
    /\ considerBatteryEmptyShutdown

\* Mutant: the empty battery is not considered.
EmergencyKeepsBattery(emergency) ==
    /\ emergencyMode' = emergency
    /\ sendTimer' = FALSE
    /\ text' = "none"
    /\ UNCHANGED <<batteryTimer, canShowError>>
    /\ IF emergency THEN stopInactivityShutdownTimer
       ELSE startInactivityShutdownTimer

emergencyModeChanged(emergency) ==
    /\ emergencyMode' = emergency
    /\ sendTimer' = FALSE
    /\ text' = "none"
    /\ UNCHANGED canShowError
    /\ IF emergency THEN stopInactivityShutdownTimer
       ELSE startInactivityShutdownTimer
    /\ considerBatteryEmptyShutdown

EmergencyButton ==
    /\ KeyPressed
    /\ ~emergencyMode
    /\ emergencyModeChanged(TRUE)

\* By a key or by the timer after a call.
EmergencyLeft ==
    /\ process = "main" /\ emergencyMode
    /\ UNCHANGED <<compositor_vars, outside_vars, agent_vars, ui, enabled,
                   inactivityEnabled, batteryRequested, question_vars>>
    /\ emergencyModeChanged(FALSE)

\* sendPassword to the socket of the question, if that could be read.  Nobody
\* looks at its result.
Answers(kind) ==
    LET listening == question /\ answer = "none" IN
    \/ listening /\ answer' = kind
    \/ /\ ~listening \/ Fault \cap {"send", "ask_file"} # {}
       /\ UNCHANGED answer

\* The timer of KEY_ENTER: disableAll, and the password is sent.
SendTimerFires ==
    /\ process = "main" /\ sendTimer
    /\ sendTimer' = FALSE
    /\ UNCHANGED <<compositor_vars, outside_vars, agent_vars, ui, text,
                   canShowError, emergencyMode, batteryRequested, batteryTimer,
                   question, limited, questions, newFile>>
    /\ disableAll
    /\ Answers(IF text = "code" THEN "code" ELSE "cancel")

\* What a change of a cached state does to the user interface.
StateChanged(state) ==
    \/ /\ state \in {"charger", "targetUnit"}
       /\ StopsOrStarts(cached'[state] \in {"on", "active"})
    \/ /\ state = "battery"
       /\ considerBatteryEmptyShutdown
       /\ UNCHANGED <<inactivityTimer, batteryRequested>>
    \/ /\ state = "dsmeState"
       /\ dsmeStateChanged

-----------------------------------------------------------------------------
(* The agent: agent.cpp *)

\* tryToCreateUI, when it is allowed.
tryToCreateUI ==
    IF ~ui /\ cached'["updates"] = "enabled" THEN PinUi ELSE UNCHANGED ui_vars

\* findAskFile returns "found".  A file that is rejected, because it cannot be
\* read, its process has gone, or its NotAfter is not in the past, leaves
\* m_askFile empty; without any file it stays as it was.
findAskFile(found) ==
    \/ /\ found /\ question /\ ~limited
       /\ askFile' = TRUE
    \/ /\ ~found /\ question
       /\ limited \/ "ask_file" \in Fault
       /\ askFile' = FALSE
    \/ /\ ~found
       /\ ~question \/ "ask_file" \in Fault
       /\ UNCHANGED askFile

FindsQuestion ==
    /\ process = "find"
    /\ process' = "watch"
    /\ \E found \in BOOLEAN : findAskFile(found)
    /\ UNCHANGED <<compositor_vars, outside_vars, watching, ui_vars, question_vars>>

\* startWatchingForAskFiles, where a question that came since findAskFile is not
\* noticed and a failure is only logged, and checkForTemporaryPassphrase, the
\* only look at the file.  No message has been dispatched so far, so that the
\* user interface is not created yet.
StartsLoop ==
    /\ process = "watch"
    /\ watching' \in {TRUE, "inotify" \notin Fault}
    /\ UNCHANGED <<compositor_vars, outside_vars, askFile, ui_vars, question,
                   limited, questions, newFile>>
    /\ \/ process' = "temporary" /\ askFile /\ Answers("temporary")
       \/ process' = "main" /\ UNCHANGED answer

\* The event loop has ended.  After the temporary passphrase the user interface
\* follows, unless it was right.
LoopEnds ==
    process' = IF process = "temporary" /\ cached'["targetUnit"] # "active"
               THEN "main" ELSE "exited"

handleNewAskFile ==
    /\ process \in {"temporary", "main"} /\ newFile
    /\ newFile' = FALSE
    /\ UNCHANGED <<compositor_vars, outside_vars, watching, question, limited,
                   questions, answer>>
    /\ \/ findAskFile(FALSE) /\ UNCHANGED <<process, ui_vars>>
       \/ findAskFile(TRUE) /\ ui /\ NewAskFileShown /\ UNCHANGED process
       \/ /\ findAskFile(TRUE) /\ ~ui
          /\ LoopEnds
          /\ IF process' = "main" THEN tryToCreateUI ELSE UNCHANGED ui_vars

\* A message is dispatched, with what Agent and PinUi do about it.
Dispatch ==
    /\ process \in {"temporary", "main"}
    /\ Dispatched(Head(bus))
    /\ UNCHANGED <<askFile, watching, question_vars>>
    /\ IF LeavesLoop THEN LoopEnds ELSE UNCHANGED process
    /\ LET changed == {s \in State : cached'[s] # cached[s]} IN
       IF ui /\ changed \notin {{}, {"updates"}}
       THEN /\ UNCHANGED <<ui, entry_vars, inactivityEnabled>>
            /\ \E s \in changed : StateChanged(s)
       ELSE IF /\ process' = "main"
               /\ changed = {"updates"} \/ process = "temporary"
       THEN tryToCreateUI
       ELSE UNCHANGED ui_vars

-----------------------------------------------------------------------------
(* systemd, dsme and the rest of the system *)

Outside == UNCHANGED <<compositor_vars, agent_vars, ui_vars>>

\* The datagram is read, and the ask file goes.
AnswerTaken ==
    /\ question /\ answer # "none"
    /\ question' = FALSE
    /\ UNCHANGED <<outside_vars, limited, questions, newFile, answer>>
    /\ Outside

\* The code was right: home is mounted.  What a cancel does is not modelled.
CodeRight ==
    /\ ~question /\ answer \in {"code", "temporary"}
    /\ answer' = "none"
    /\ Becomes("targetUnit", "active")
    /\ UNCHANGED <<changes, question, limited, questions, newFile>>
    /\ Outside

\* It was wrong: systemd asks again, which inotify tells whoever watches.
CodeWrong ==
    /\ ~question /\ answer \in {"code", "temporary"}
    /\ questions < MaxQuestions
    /\ questions' = questions + 1
    /\ answer' = "none" /\ question' = TRUE /\ limited' \in TimeLimit
    /\ newFile' = (watching /\ process \in {"temporary", "main"})
    /\ UNCHANGED outside_vars
    /\ Outside

\* What Compositor says of mce, dsme, systemd and the bus, as long as there is
\* somebody to tell.
Elsewhere ==
    /\ process # "exited"
    /\ UNCHANGED question_vars
    /\ Outside

OthersChange == (Change \/ Proceed) /\ Elsewhere
BusAnswers == Answer /\ Elsewhere
ScreenTaken == NameTaken /\ Elsewhere

Next ==
    \/ FindsQuestion \/ StartsLoop \/ handleNewAskFile \/ Dispatch
    \/ KeyEdits \/ KeyEnters \/ EmergencyButton \/ EmergencyLeft
    \/ SendTimerFires \/ InactivityTimerFires \/ BatteryTimerFires
    \/ AnswerTaken \/ CodeRight \/ CodeWrong
    \/ OthersChange \/ BusAnswers \/ ScreenTaken

Spec == Init /\ [][Next]_vars

\* The process runs, and what it asks of the bus and of systemd is answered;
\* whoever continues the boot takes the name as soon as it can.
FairSpec ==
    /\ Spec
    /\ WF_vars(FindsQuestion \/ StartsLoop)
    /\ WF_vars(Dispatch)
    /\ WF_vars(BusAnswers) /\ WF_vars(ScreenTaken)

-----------------------------------------------------------------------------
(* Properties *)

InLoop == process \in {"temporary", "main"}

\* When nothing is on its way any more, the unlock screen knows what is the
\* case, however mce and dsme came and went (compositor.cpp:840 and 1257).
CachesAgree ==
    (InLoop /\ bus = <<>> /\ queries = {}) =>
        /\ \A p \in Peer : (nameOwner[p] = "owned") = running[p]
        /\ \A s \in State :
              (Provider[s] \in Peer => running[Provider[s]])
                  => cached[s] = actual[s]

\* While the code is waited for, the inactivity timer runs exactly when the rules
\* say so, and a battery timer that runs has a reason to: no handler forgets to
\* stop one (pin.cpp:340 and 379).
ShutdownTimersRight ==
    (process = "main" /\ ui) =>
        /\ inactivityTimer
              = MayShutDown(cached, inactivityEnabled, emergencyMode)
        /\ batteryTimer =>
              ~batteryRequested /\ BatteryEmpty(cached, emergencyMode)

\* What considerBatteryEmptyShutdown depends on, apart from its own request.
BatteryRule ==
    <<emergencyMode, [s \in State \ {"updates"} |-> cached[s]]>>

\* Once the user interface is there, every change of what the rule of the empty
\* battery depends on has started or stopped its timer as the rule says, in
\* whichever of the five handlers it arrives (pin.cpp:311, 543, 548, 567, 618).
BatteryRuleFollowed ==
    [][ ui /\ process' = "main" /\ BatteryRule' # BatteryRule
        => batteryTimer' = (~batteryRequested'
                               /\ BatteryEmpty(cached', emergencyMode')) ]_vars

\* "... we need to implement custom battery empty policy within unlock-ui and
\* shutdown when battery is too low" (pin.cpp:388): a battery that is known to be
\* empty, with nothing that speaks against it, shuts the device down.
EmptyBatteryShutsDown ==
    (process = "main" /\ ui /\ BatteryEmpty(cached, emergencyMode))
        => batteryTimer \/ batteryRequested

\* The faults nobody looks at that leave the keys disabled: the code is not sent,
\* or the next question is not noticed or rejected (agent.cpp:131-140, 190-287).
KeyFaults == {"send", "inotify", "ask_file", "not_after"}

\* The keys are disabled only while a code is being tried, or was right: without
\* KeyFaults nobody is left in front of a dead screen (pin.cpp:479 and 770).
DisabledOnlyWhileAnswered ==
    (process = "main" /\ ui /\ ~enabled) =>
        answer # "none" \/ newFile \/ actual["targetUnit"] = "active"

\* An empty text, which would cancel the mount of home, is never sent, although
\* the text is read 16 ms after the key was pressed (pin.cpp:770).
NeverCancels == answer # "cancel"

\* Once home is mounted the unlock screen gives the screen away and ends
\* (compositor.cpp:1042).
UnlockEnds == (actual["targetUnit"] = "active") ~> (process = "exited")
=============================================================================
