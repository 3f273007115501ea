---------------------------- MODULE EmergencyCall ----------------------------
(***************************************************************************)
(* The emergency call of the unlock screen: Call (call.cpp) and the        *)
(* emergency mode of PinUi (pin.cpp) that it tells its status, with ofono, *)
(* the resource manager and a user who presses the keys at any time.       *)
(*                                                                         *)
(* The process is one event loop: a key, a timer or a message of the bus   *)
(* is handled from beginning to end.  A request to ofono waits in          *)
(* "requests" until ofono takes it, and what ofono sends waits in          *)
(* "messages" until the loop dispatches it, both in order.                 *)
(***************************************************************************)
EXTENDS Integers, Sequences

CONSTANTS
    Fault,          \* what may go wrong in this instance
    MaxCalls,       \* bound on how often the user starts a call
    MaxRequests     \* bound on what is due of ofono when a key is pressed

CallFaultKind ==
    {"no_modems", "modems", "online", "numbers", "dial", "hangup",   \* of ofono
     "resproto", "register", "acquire",             \* of the resource manager
     "early_call"}      \* a call is started before HangupAll is answered

ASSUME EmergencyFaultAssumption == Fault \subseteq CallFaultKind
ASSUME EmergencyBoundAssumption == MaxCalls \in Nat /\ MaxRequests \in Nat

VARIABLES
    \* Call
    ofonoStatus, resourceStatus,
    connected,      \* m_rc and m_rset are made
    voiceCallManager,   \* m_voiceCallManager is made
    callObjectPath, \* m_callObjectPath is not empty
    phoneNumber,
    \* PinUi
    emergencyMode,
    shown,          \* the status the warning label shows
    leaveTimer,     \* m_timer, which leaves the emergency mode
    \* the others
    requests, messages,
    refused,        \* the resource manager has refused the registration
    talking,        \* the number of the call in the modem, or "none"
    loud,           \* the audio route of an emergency call is enabled
    started         \* calls started so far

call_vars == <<ofonoStatus, resourceStatus, connected, voiceCallManager,
               callObjectPath, phoneNumber>>
ui_vars == <<emergencyMode, shown, leaveTimer>>
modem_vars == <<requests, messages, talking>>
vars == <<call_vars, ui_vars, modem_vars, refused, loud, started>>

OfonoStatus ==
    {"OfonoIdle", "OfonoInitializing", "OfonoReady", "OfonoCalling", "OfonoError"}

ResourceStatus ==
    {"ResourcesIdle", "ResourcesConnecting", "ResourcesAcquired",
     "ResourcesReleasing", "ResourcesError"}

CallStatus == {"Initializing", "Calling", "Error", "InvalidNumber", "Ended"}

\* Nothing typed stands for DEFAULT_EMERGENCY_NUMBER.
Number == {"default", "emergency", "other"}

RequestKind == {"modems", "online", "numbers", "dial", "hangup"}

\* Only Dial names a number.
Request == [of : RequestKind, number : Number]

Result == {"ok", "error", "in_progress", "invalid"}

Message == [of : RequestKind \cup {"CallRemoved"}, result : Result]

EmergencyTypeOK ==
    /\ ofonoStatus \in OfonoStatus /\ resourceStatus \in ResourceStatus
    /\ connected \in BOOLEAN /\ voiceCallManager \in BOOLEAN
    /\ callObjectPath \in BOOLEAN /\ phoneNumber \in Number
    /\ emergencyMode \in BOOLEAN /\ leaveTimer \in BOOLEAN
    /\ shown \in CallStatus \cup {"none"}
    /\ requests \in Seq(Request) /\ messages \in Seq(Message)
    /\ refused \in BOOLEAN
    /\ talking \in Number \cup {"none"} /\ loud \in BOOLEAN
    /\ started \in 0 .. MaxCalls

Init ==
    /\ ofonoStatus = "OfonoIdle" /\ resourceStatus = "ResourcesIdle"
    /\ connected = FALSE /\ voiceCallManager = FALSE
    /\ callObjectPath = FALSE /\ phoneNumber = "default"
    /\ emergencyMode = FALSE /\ shown = "none" /\ leaveTimer = FALSE
    /\ requests = <<>> /\ messages = <<>> /\ refused = FALSE
    /\ talking = "none" /\ loud = FALSE /\ started = 0

calling == ofonoStatus \in {"OfonoInitializing", "OfonoReady", "OfonoCalling"}

-----------------------------------------------------------------------------
(* What the handlers are made of *)

\* Dial names the number of the call there is when it is asked for.
Asks(of) ==
    requests' = Append(requests,
                       [of |-> of, number |-> IF of = "dial" THEN phoneNumber
                                              ELSE "default"])

\* The status callback, which does nothing outside the emergency mode.
setEmergencyCallStatus(status) ==
    /\ shown' = IF emergencyMode THEN status ELSE shown
    /\ leaveTimer' = IF ~emergencyMode THEN leaveTimer
                     ELSE status = "Ended" \/ (leaveTimer /\ status # "Initializing")
    /\ UNCHANGED emergencyMode

\* A status of ofono and what the user is told of it.
Becomes(ofono, status) == ofonoStatus' = ofono /\ setEmergencyCallStatus(status)

StaysAsItIs == UNCHANGED <<ofonoStatus, ui_vars>>

\* dial, with ofono ready: it waits for the resources, and does nothing without.
dial(resource) ==
    IF resource = "ResourcesAcquired"
    THEN ofonoStatus' = "OfonoCalling" /\ loud' = TRUE /\ Asks("dial")
    ELSE ofonoStatus' = "OfonoReady" /\ UNCHANGED <<loud, requests>>

releaseResources ==
    resourceStatus' = IF connected THEN "ResourcesReleasing" ELSE resourceStatus

\* Mutant: the call is forgotten as soon as it is to be ended.
HangUpForgetsCall ==
    /\ loud' = FALSE
    /\ ofonoStatus' = "OfonoIdle"
    /\ IF ofonoStatus = "OfonoCalling" THEN Asks("hangup") ELSE UNCHANGED requests

hangUp ==
    /\ loud' = FALSE
    /\ IF ofonoStatus = "OfonoCalling"
       THEN Asks("hangup") /\ UNCHANGED ofonoStatus
       ELSE ofonoStatus' = "OfonoIdle" /\ UNCHANGED requests

endCall ==
    IF calling THEN hangUp /\ releaseResources
    ELSE UNCHANGED <<ofonoStatus, loud, requests, resourceStatus>>

\* The resources are taken to be acquired as soon as they are asked for.
startAcquiringResources ==
    \/ /\ resourceStatus' = IF connected THEN "ResourcesAcquired"
                            ELSE "ResourcesConnecting"
       /\ connected' = TRUE
    \/ /\ (IF connected THEN "acquire" ELSE "resproto") \in Fault
       /\ resourceStatus' = "ResourcesError"
       /\ UNCHANGED connected

\* A failure to acquire the resources is told and the call placed all the same.
makeCall(number) ==
    /\ phoneNumber' = number
    /\ startAcquiringResources
    /\ Becomes("OfonoInitializing", "Initializing")
    /\ Asks(IF voiceCallManager THEN "online" ELSE "modems")
    /\ UNCHANGED <<voiceCallManager, callObjectPath, messages, talking, loud, refused>>

-----------------------------------------------------------------------------
(* The user and the timer: pin.cpp *)

Quiet == Len(requests) + Len(messages) < MaxRequests

\* HangupAll has not been answered, or the answer has not been handled.
HangingUp ==
    \/ \E i \in DOMAIN requests : requests[i].of = "hangup"
    \/ \E i \in DOMAIN messages : messages[i].of = "hangup"

\* The emergency button.
EnterEmergencyMode ==
    /\ ~emergencyMode
    /\ emergencyMode' = TRUE /\ leaveTimer' = FALSE /\ shown' = "none"
    /\ UNCHANGED <<call_vars, modem_vars, refused, loud, started>>

\* setEmergencyMode(false) ends the call, whose callback does nothing any more.
LeaveEmergencyMode ==
    /\ emergencyMode' = FALSE /\ leaveTimer' = FALSE /\ shown' = "none"
    /\ endCall
    /\ UNCHANGED <<connected, voiceCallManager, callObjectPath, phoneNumber,
                   messages, talking, refused, started>>

\* KEY_ENTER and KEY_ESC during a call
KeyEndsCall ==
    /\ emergencyMode /\ calling /\ Quiet
    /\ endCall
    /\ IF ofonoStatus = "OfonoCalling" THEN UNCHANGED ui_vars
       ELSE setEmergencyCallStatus("Ended")
    /\ UNCHANGED <<connected, voiceCallManager, callObjectPath, phoneNumber,
                   messages, talking, refused, started>>

\* KEY_ENTER
KeyStartsCall(number) ==
    /\ emergencyMode /\ ~calling /\ Quiet
    /\ HangingUp => "early_call" \in Fault
    /\ started < MaxCalls /\ started' = started + 1
    /\ makeCall(number)

\* KEY_ESC
KeyLeaves == emergencyMode /\ ~calling /\ LeaveEmergencyMode

\* A digit cancels the timer and removes the status.
KeyTypes ==
    /\ emergencyMode
    /\ leaveTimer' = FALSE /\ shown' = "none"
    /\ UNCHANGED <<emergencyMode, call_vars, modem_vars, refused, loud,
                   started>>

\* EMERGENCY_MODE_TIMEOUT
TimerLeaves == leaveTimer /\ LeaveEmergencyMode

User ==
    \/ EnterEmergencyMode \/ KeyEndsCall \/ KeyLeaves \/ KeyTypes
    \/ \E number \in Number : KeyStartsCall(number)

-----------------------------------------------------------------------------
(* The messages of ofono: call.cpp *)

\* The first message is of this kind, and the handler reads it.
Receives(of) ==
    /\ messages # <<>> /\ Head(messages).of = of
    /\ messages' = Tail(messages)

Got(result) == Head(messages).result = result

\* Mutant: the status of the caller is taken for the one of ofono.
ModemPathMixesStatus ==
    /\ Receives("modems")
    /\ \/ Got("ok") /\ voiceCallManager' = TRUE /\ Asks("online") /\ StaysAsItIs
       \/ Got("error") /\ Becomes("Error", "Error")
          /\ UNCHANGED <<voiceCallManager, requests>>
       \/ Got("invalid") /\ StaysAsItIs /\ UNCHANGED <<voiceCallManager, requests>>
    /\ UNCHANGED <<resourceStatus, connected, callObjectPath, phoneNumber, talking,
                   refused, loud, started>>

\* A list that is not understood leads nowhere.
handleModemPath ==
    /\ Receives("modems")
    /\ \/ Got("ok") /\ voiceCallManager' = TRUE /\ Asks("online") /\ StaysAsItIs
       \/ Got("error") /\ Becomes("OfonoError", "Error")
          /\ UNCHANGED <<voiceCallManager, requests>>
       \/ Got("invalid") /\ StaysAsItIs /\ UNCHANGED <<voiceCallManager, requests>>
    /\ UNCHANGED <<resourceStatus, connected, callObjectPath, phoneNumber, talking,
                   refused, loud, started>>

\* An operation in progress is the one of a call that was ended meanwhile.
handleModemOnline ==
    /\ Receives("online")
    /\ \/ Got("ok") /\ Asks("numbers") /\ StaysAsItIs
       \/ Got("in_progress") /\ StaysAsItIs /\ UNCHANGED requests
       \/ Got("error") /\ Becomes("OfonoError", "Error") /\ UNCHANGED requests
    /\ UNCHANGED <<resourceStatus, connected, voiceCallManager, callObjectPath,
                   phoneNumber, talking, refused, loud, started>>

\* The number is one of the list, or there is no list to be read.
NumberAccepted == phoneNumber # "other" \/ Got("error")

\* Mutant: a call that was ended meanwhile is dialled.
NumbersDialEndedCall ==
    /\ Receives("numbers")
    /\ \/ NumberAccepted /\ dial(resourceStatus) /\ UNCHANGED ui_vars
       \/ ~NumberAccepted /\ Becomes("OfonoIdle", "InvalidNumber")
          /\ UNCHANGED <<loud, requests>>
    /\ UNCHANGED <<resourceStatus, connected, voiceCallManager, callObjectPath,
                   phoneNumber, talking, refused, started>>

\* Mutant: the user is told of the wrong number and it is dialled.
NumbersDialAnyway ==
    /\ Receives("numbers")
    /\ IF NumberAccepted THEN UNCHANGED ui_vars
       ELSE setEmergencyCallStatus("InvalidNumber")
    /\ IF ofonoStatus = "OfonoInitializing" THEN dial(resourceStatus)
       ELSE UNCHANGED <<ofonoStatus, loud, requests>>
    /\ UNCHANGED <<resourceStatus, connected, voiceCallManager, callObjectPath,
                   phoneNumber, talking, refused, started>>

\* The number is the one of the last call, whichever call has asked.
handleEmergencyNumbersProperty ==
    /\ Receives("numbers")
    /\ \/ /\ NumberAccepted /\ ofonoStatus = "OfonoInitializing"
          /\ dial(resourceStatus) /\ UNCHANGED ui_vars
       \/ /\ NumberAccepted /\ ofonoStatus # "OfonoInitializing"
          /\ StaysAsItIs /\ UNCHANGED <<loud, requests>>
       \/ /\ ~NumberAccepted /\ Becomes("OfonoIdle", "InvalidNumber")
          /\ UNCHANGED <<loud, requests>>
    /\ UNCHANGED <<resourceStatus, connected, voiceCallManager, callObjectPath,
                   phoneNumber, talking, refused, started>>

\* The answer of Dial
Dialled ==
    /\ Receives("dial")
    /\ \/ /\ Got("ok") /\ callObjectPath' = TRUE
          /\ setEmergencyCallStatus("Calling") /\ UNCHANGED <<ofonoStatus, loud>>
       \/ /\ Got("error") /\ loud' = FALSE
          /\ Becomes("OfonoError", "Error") /\ UNCHANGED callObjectPath
    /\ UNCHANGED <<resourceStatus, connected, voiceCallManager, phoneNumber,
                   requests, talking, refused, started>>

\* The answer of HangupAll
HungUp ==
    /\ Receives("hangup")
    /\ callObjectPath' = FALSE
    /\ \/ Got("ok") /\ Becomes("OfonoIdle", "Ended")
       \/ Got("error") /\ Becomes("OfonoError", "Error")
    /\ UNCHANGED <<resourceStatus, connected, voiceCallManager, phoneNumber,
                   requests, talking, refused, loud, started>>

CallRemoved ==
    /\ Receives("CallRemoved")
    /\ \/ /\ calling /\ callObjectPath
          /\ releaseResources /\ callObjectPath' = FALSE /\ loud' = FALSE
          /\ Becomes("OfonoIdle", "Ended")
       \/ /\ ~(calling /\ callObjectPath)
          /\ StaysAsItIs
          /\ UNCHANGED <<resourceStatus, callObjectPath, loud>>
    /\ UNCHANGED <<connected, voiceCallManager, phoneNumber, requests, talking,
                   refused, started>>

CallMessage ==
    \/ handleModemPath \/ handleModemOnline \/ handleEmergencyNumbersProperty
    \/ Dialled \/ HungUp \/ CallRemoved

\* The resource manager answers the registration; an error is not looked at.
Registering == resourceStatus = "ResourcesConnecting" /\ ~refused

\* Mutant: the call is dialled by the answer of ofono only.
AcquiredWithoutDial ==
    /\ Registering
    /\ resourceStatus' = "ResourcesAcquired"
    /\ UNCHANGED <<ofonoStatus, loud, requests, ui_vars, refused>>
    /\ UNCHANGED <<connected, voiceCallManager, callObjectPath, phoneNumber,
                   messages, talking, started>>

\* The registration is answered: the resources are asked for, and a call that
\* was waiting for them is dialled.
ResourcesRegistered ==
    /\ Registering
    /\ \/ /\ resourceStatus' = "ResourcesAcquired"
          /\ IF ofonoStatus = "OfonoReady" THEN dial("ResourcesAcquired")
             ELSE UNCHANGED <<ofonoStatus, loud, requests>>
          /\ UNCHANGED <<ui_vars, refused>>
       \/ /\ "acquire" \in Fault
          /\ resourceStatus' = "ResourcesError"
          /\ setEmergencyCallStatus("Error")
          /\ UNCHANGED <<ofonoStatus, loud, requests, refused>>
       \/ /\ "register" \in Fault
          /\ refused' = TRUE
          /\ UNCHANGED <<resourceStatus, ofonoStatus, loud, requests, ui_vars>>
    /\ UNCHANGED <<connected, voiceCallManager, callObjectPath, phoneNumber,
                   messages, talking, started>>

\* What is answered while the resources are being released releases them, the
\* answer to a registration too; any other answer changes nothing.
ResourcesReleased ==
    /\ resourceStatus = "ResourcesReleasing"
    /\ resourceStatus' = "ResourcesIdle"
    /\ UNCHANGED <<ofonoStatus, connected, voiceCallManager, callObjectPath,
                   phoneNumber, ui_vars, modem_vars, refused, loud, started>>

-----------------------------------------------------------------------------
(* ofono and the modem *)

Sends(list) ==
    /\ messages' = messages \o list
    /\ UNCHANGED <<call_vars, ui_vars, refused, loud, started>>

Reply(of, result) == [of |-> of, result |-> result]

Removal == <<Reply("CallRemoved", "ok")>>

\* The next request is answered; a modem has one emergency call at a time.
OfonoAnswers ==
    /\ requests # <<>>
    /\ requests' = Tail(requests)
    /\ LET request == Head(requests).of
       IN  \/ /\ request = "dial" /\ talking = "none"
              /\ talking' = Head(requests).number
              /\ Sends(<<Reply(request, "ok")>>)
           \/ /\ request = "hangup"
              /\ talking' = "none"
              /\ Sends((IF talking = "none" THEN <<>> ELSE Removal)
                       \o <<Reply(request, "ok")>>)
           \/ /\ request \in {"modems", "online", "numbers"}
              /\ UNCHANGED talking
              /\ Sends(<<Reply(request, "ok")>>)
           \/ /\ request \in Fault \/ (request = "dial" /\ talking # "none")
              /\ UNCHANGED talking
              /\ Sends(<<Reply(request, "error")>>)
           \/ /\ request = "modems" /\ "no_modems" \in Fault
              /\ UNCHANGED talking
              /\ Sends(<<Reply(request, "invalid")>>)

\* The modem is being brought online already.
OfonoIsBusy ==
    \E i, j \in DOMAIN requests :
        /\ i < j /\ requests[i].of = "online" /\ requests[j].of = "online"
        /\ requests' = SubSeq(requests, 1, j - 1)
                       \o SubSeq(requests, j + 1, Len(requests))
        /\ UNCHANGED talking
        /\ Sends(<<Reply("online", "in_progress")>>)

\* The other end hangs up, or the connection is lost.
OtherEndEnds ==
    /\ talking # "none"
    /\ talking' = "none"
    /\ UNCHANGED requests
    /\ Sends(Removal)

-----------------------------------------------------------------------------

Next ==
    \/ User \/ TimerLeaves
    \/ CallMessage \/ ResourcesRegistered \/ ResourcesReleased
    \/ OfonoAnswers \/ OfonoIsBusy \/ OtherEndEnds

Spec == Init /\ [][Next]_vars

\* ofono and the resource manager answer and the event loop dispatches.
Fairness ==
    /\ WF_vars(OfonoAnswers) /\ WF_vars(CallMessage)
    /\ WF_vars(ResourcesRegistered)

FairSpec == Spec /\ Fairness

-----------------------------------------------------------------------------
(* Properties *)

\* A call in the modem is a call for Call too, so that "End" ends it, unless its
\* removal is on its way; the loud audio route is for a call only (call.cpp hangUp,
\* endCall).
CallUnderControl ==
    /\ talking # "none" => ofonoStatus = "OfonoCalling"
    /\ loud => ofonoStatus = "OfonoCalling"

\* Whoever leaves the emergency mode leaves no call behind: none goes on and
\* none is dialled afterwards by an answer that was still on its way (pin.cpp
\* setEmergencyMode, call.cpp dial).
NoCallLeftBehind ==
    ~emergencyMode /\ (talking # "none" \/ ofonoStatus = "OfonoCalling")
    => HangingUp

\* Only an emergency number is dialled when the list of them can be read, even
\* when calls are ended and started with other numbers while answers are due
\* (call.cpp handleEmergencyNumbersProperty).
OnlyEmergencyNumbers == talking # "other" \/ "numbers" \in Fault

\* The timer that leaves the emergency mode never ends a new call (pin.cpp:700).
TimerEndsNoCall == leaveTimer => ~calling

\* What the user is told last is so: "Error" and "InvalidNumber" mean that there is
\* no call, and so does "Ended" (call.h:52).
ErrorMeansNotCalling ==
    shown \in {"Error", "InvalidNumber", "Ended"} => talking = "none"

\* A call that is started does not stay in its preparations: whichever of ofono and
\* the resource manager is ready last dials (call.cpp:409).
CallGoesOn ==
    (ofonoStatus \in {"OfonoInitializing", "OfonoReady"})
    ~> (ofonoStatus \notin {"OfonoInitializing", "OfonoReady"})
=============================================================================
