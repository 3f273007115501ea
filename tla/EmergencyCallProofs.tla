------------------------- MODULE EmergencyCallProofs -------------------------
(***************************************************************************)
(* Theorems about the emergency call for any number of calls and any bound *)
(* on what is due, and their proofs.                                       *)
(*                                                                         *)
(* What is on its way between Call and ofono is first in "messages" and    *)
(* then in "requests".  OrderInv says what may not follow what on that     *)
(* way, and StateInv what each of them means for the call.                 *)
(***************************************************************************)
EXTENDS EmergencyCall, SequenceTheorems, TLAPS

-----------------------------------------------------------------------------
(* The invariants *)

\* An online request that is refused as busy leads to nothing.
Part(message) == IF message.result = "in_progress" THEN "busy" ELSE message.of

Sent(of) == \E i \in DOMAIN messages : Part(messages[i]) = of

Due(of) == \E i \in DOMAIN requests : requests[i].of = of

OnItsWay(of) == Sent(of) \/ Due(of)

\* What never follows: the modems are asked for first; one call is dialled and
\* removed at a time, and nothing of it follows its end.
Clash(first, second) ==
    \/ second = "modems" /\ first \notin {"modems", "busy"}
    \/ second = "dial" /\ first \in {"dial", "hangup", "CallRemoved"}
    \/ second = "CallRemoved" /\ first \in {"hangup", "CallRemoved"}

OrderInv ==
    /\ \A i, j \in DOMAIN messages :
          i < j => ~Clash(Part(messages[i]), Part(messages[j]))
    /\ \A i, j \in DOMAIN requests : i < j => ~Clash(requests[i].of, requests[j].of)
    /\ \A i \in DOMAIN messages, j \in DOMAIN requests :
          ~Clash(Part(messages[i]), requests[j].of)

\* What ofono may answer when it neither fails nor loses the call.
AnswerInv ==
    \A i \in DOMAIN messages :
        /\ messages[i].result = "in_progress" => messages[i].of = "online"
        /\ messages[i].result = "error" => messages[i].of \in {"modems", "dial"}
        /\ messages[i].result = "invalid" => messages[i].of = "modems"

\* A call is not dialled.
DialFails ==
    \E i \in DOMAIN messages : messages[i].of = "dial" /\ messages[i].result = "error"

Preparing == ofonoStatus \in {"OfonoInitializing", "OfonoReady"}

Calling == ofonoStatus = "OfonoCalling"

\* A call has a path, or the answer that brings it is on its way.
HasPath == callObjectPath \/ Sent("dial")

ModemInv ==
    /\ ~voiceCallManager =>
        \A of \in RequestKind \cup {"CallRemoved", "busy"} : OnItsWay(of) => of = "modems"
    /\ ~voiceCallManager \/ OnItsWay("modems") =>
        ofonoStatus \notin {"OfonoReady", "OfonoCalling"}

StateInv ==
    /\ ofonoStatus \in {"OfonoReady", "OfonoCalling"} => phoneNumber # "other"
    /\ OnItsWay("hangup") => ~Preparing /\ ~loud
    /\ OnItsWay("dial") => Calling /\ ~callObjectPath
    /\ Due("dial") => talking = "none"
    /\ DialFails => talking = "none" /\ ~Sent("CallRemoved")
    /\ talking # "none" =>
        Calling /\ HasPath /\ ~Sent("CallRemoved") /\ ~Sent("hangup")
    /\ Sent("CallRemoved") => Calling /\ HasPath
    /\ loud \/ callObjectPath => Calling
    /\ ~emergencyMode => ~Preparing /\ (Calling => OnItsWay("hangup"))

ControlInv == OrderInv /\ AnswerInv /\ ModemInv /\ StateInv

\* The number a call is prepared with, is dialled with and has.
NumberInv ==
    /\ ofonoStatus = "OfonoReady" => phoneNumber # "other"
    /\ talking # "other"
    /\ \A i \in DOMAIN requests : requests[i].number # "other"
    /\ \A i \in DOMAIN messages :
          messages[i].of = "numbers" => messages[i].result # "error"

\* The failures after which Call takes a call for ended that is not, or takes the
\* end of one for the end of the next.
LosesCall == {"online", "numbers", "hangup", "early_call"}

-----------------------------------------------------------------------------
(* Queues *)

LEMMA TailFacts ==
    ASSUME NEW S, NEW queue \in Seq(S), queue # <<>>
    PROVE  /\ Tail(queue) \in Seq(S)
           /\ Head(queue) = queue[1] /\ 1 \in DOMAIN queue /\ Head(queue) \in S
           /\ \A i \in DOMAIN Tail(queue) :
                 i + 1 \in DOMAIN queue /\ 1 < i + 1 /\ Tail(queue)[i] = queue[i + 1]
           /\ \A i \in DOMAIN queue :
                 i # 1 => i - 1 \in DOMAIN Tail(queue) /\ Tail(queue)[i - 1] = queue[i]
<1>1. Len(queue) \in Nat /\ Len(queue) # 0 /\ DOMAIN queue = 1 .. Len(queue)
  OBVIOUS
<1>2. Tail(queue) \in Seq(S) /\ DOMAIN Tail(queue) = 1 .. Len(queue) - 1
  BY <1>1
<1>3. \A i \in 1 .. Len(queue) - 1 : Tail(queue)[i] = queue[i + 1]
  BY <1>1
<1> QED
  BY <1>1, <1>2, <1>3

LEMMA ConcatFacts ==
    ASSUME NEW S, NEW s \in Seq(S), NEW t \in Seq(S)
    PROVE  /\ s \o t \in Seq(S)
           /\ \A i \in DOMAIN s : i \in DOMAIN (s \o t) /\ (s \o t)[i] = s[i]
           /\ \A i \in DOMAIN (s \o t) : i \notin DOMAIN s =>
                 Len(s) < i /\ i - Len(s) \in DOMAIN t /\ (s \o t)[i] = t[i - Len(s)]
           /\ \A i \in DOMAIN t :
                 Len(s) + i \in DOMAIN (s \o t) /\ (s \o t)[Len(s) + i] = t[i]
  OBVIOUS

LEMMA AppendFacts ==
    ASSUME NEW S, NEW queue \in Seq(S), NEW m \in S
    PROVE  /\ Append(queue, m) \in Seq(S)
           /\ DOMAIN queue = 1 .. Len(queue) /\ Len(queue) \in Nat
           /\ DOMAIN Append(queue, m) = 1 .. Len(queue) + 1
           /\ \A i \in DOMAIN queue : Append(queue, m)[i] = queue[i]
           /\ Append(queue, m)[Len(queue) + 1] = m
  OBVIOUS

\* What Asks adds, and what the requests are then.
Asked(of) ==
    [of |-> of, number |-> IF of = "dial" THEN phoneNumber ELSE "default"]

LEMMA AskFacts ==
    ASSUME EmergencyTypeOK, NEW of \in RequestKind, Asks(of)
    PROVE  /\ requests' \in Seq(Request)
           /\ requests' = Append(requests, Asked(of)) /\ Asked(of) \in Request
           /\ \A x : Due(x)' <=> Due(x) \/ x = of
<1>1. Asked(of) \in Request
  BY DEF Asked, Request, Number, EmergencyTypeOK
<1>2. requests' = Append(requests, Asked(of)) /\ Asked(of).of = of
  BY DEF Asks, Asked
<1>3. requests \in Seq(Request)
  BY DEF EmergencyTypeOK
<1>4. /\ requests' \in Seq(Request)
      /\ DOMAIN requests = 1 .. Len(requests) /\ Len(requests) \in Nat
      /\ DOMAIN requests' = 1 .. Len(requests) + 1
      /\ \A i \in DOMAIN requests : requests'[i] = requests[i]
      /\ requests'[Len(requests) + 1] = Asked(of)
  BY <1>1, <1>2, <1>3, AppendFacts
<1>5. ASSUME NEW x PROVE Due(x)' <=> Due(x) \/ x = of
  <2>1. Due(x)' => Due(x) \/ x = of
    BY <1>2, <1>4 DEF Due
  <2>2. Due(x) => Due(x)'
    BY <1>4 DEF Due
  <2>3. x = of => Due(x)'
    BY <1>2, <1>4 DEF Due
  <2> QED
    BY <2>1, <2>2, <2>3
<1> QED
  BY <1>1, <1>2, <1>4, <1>5

LEMMA ReceivesFacts ==
    ASSUME EmergencyTypeOK, NEW of, Receives(of)
    PROVE  /\ messages' \in Seq(Message)
           /\ 1 \in DOMAIN messages /\ messages[1] = Head(messages)
           /\ Head(messages) \in Message /\ Head(messages).of = of
           /\ \A i \in DOMAIN messages' :
                 i + 1 \in DOMAIN messages /\ 1 < i + 1
                 /\ messages'[i] = messages[i + 1]
           /\ \A i \in DOMAIN messages :
                 i # 1 => i - 1 \in DOMAIN messages' /\ messages'[i - 1] = messages[i]
<1>1. messages \in Seq(Message) /\ messages # <<>> /\ messages' = Tail(messages)
      /\ Head(messages).of = of
  BY DEF EmergencyTypeOK, Receives
<1>2. Head(messages) = messages[1]
  BY <1>1, TailFacts
<1> QED
  BY <1>1, <1>2, TailFacts

-----------------------------------------------------------------------------
(* Types and the timer *)

\* The requests stay, or one is added.
AsksAtMost == requests' = requests \/ \E of \in RequestKind : Asks(of)

\* The state of Call and of PinUi, whose types do not depend on the queues.
ScalarsOK ==
    /\ ofonoStatus \in OfonoStatus /\ resourceStatus \in ResourceStatus
    /\ connected \in BOOLEAN /\ voiceCallManager \in BOOLEAN
    /\ callObjectPath \in BOOLEAN /\ phoneNumber \in Number
    /\ emergencyMode \in BOOLEAN /\ leaveTimer \in BOOLEAN
    /\ shown \in CallStatus \cup {"none"}
    /\ refused \in BOOLEAN
    /\ loud \in BOOLEAN
    /\ started \in 0 .. MaxCalls

RestOK ==
    /\ requests \in Seq(Request) /\ messages \in Seq(Message)
    /\ talking \in Number \cup {"none"}

LEMMA TypeParts == EmergencyTypeOK <=> ScalarsOK /\ RestOK
  BY DEF EmergencyTypeOK, ScalarsOK, RestOK

LEMMA TypePartsNext == EmergencyTypeOK' <=> ScalarsOK' /\ RestOK'
  BY DEF EmergencyTypeOK, ScalarsOK, RestOK

LEMMA AsksKeepsType ==
    ASSUME EmergencyTypeOK, AsksAtMost PROVE requests' \in Seq(Request)
  BY AskFacts DEF AsksAtMost, EmergencyTypeOK

LEMMA UserType ==
    ASSUME EmergencyTypeOK, User \/ TimerLeaves PROVE EmergencyTypeOK'
<1>1. ScalarsOK
  BY TypeParts
<1>2. /\ AsksAtMost /\ UNCHANGED <<messages, talking>> /\ ScalarsOK'
  <2>1. CASE EnterEmergencyMode
    BY <1>1, <2>1 DEF EnterEmergencyMode, ScalarsOK, call_vars, modem_vars, AsksAtMost
  <2>2. CASE KeyEndsCall
    BY <1>1, <2>2 DEF KeyEndsCall, endCall, hangUp, releaseResources, ui_vars,
      setEmergencyCallStatus, ScalarsOK, AsksAtMost, RequestKind, OfonoStatus,
      ResourceStatus, CallStatus
  <2>3. CASE LeaveEmergencyMode
    BY <1>1, <2>3 DEF LeaveEmergencyMode, endCall, hangUp, releaseResources,
      ScalarsOK, AsksAtMost, RequestKind, OfonoStatus, ResourceStatus
  <2>4. CASE KeyTypes
    BY <1>1, <2>4 DEF KeyTypes, ScalarsOK, call_vars, modem_vars, AsksAtMost
  <2>5. ASSUME NEW number \in Number, KeyStartsCall(number)
        PROVE  AsksAtMost /\ UNCHANGED <<messages, talking>> /\ ScalarsOK'
    <3>1. started' \in 0 .. MaxCalls
      BY <1>1, <2>5, EmergencyBoundAssumption DEF KeyStartsCall, ScalarsOK
    <3> QED
      BY <1>1, <2>5, <3>1 DEF KeyStartsCall, makeCall, startAcquiringResources,
        Becomes, setEmergencyCallStatus, ScalarsOK, AsksAtMost, RequestKind,
        OfonoStatus, ResourceStatus, CallStatus
  <2> QED
    BY <2>1, <2>2, <2>3, <2>4, <2>5 DEF User, TimerLeaves, KeyLeaves
<1> QED
  BY <1>2, AsksKeepsType, TypePartsNext DEF EmergencyTypeOK, RestOK

\* What a message of ofono does to the queues.
LEMMA CallMessageQueues ==
    ASSUME EmergencyTypeOK, CallMessage
    PROVE  AsksAtMost /\ messages' \in Seq(Message) /\ UNCHANGED talking
<1>1. CASE handleModemPath
  BY <1>1, ReceivesFacts DEF handleModemPath, AsksAtMost, RequestKind
<1>2. CASE handleModemOnline
  BY <1>2, ReceivesFacts DEF handleModemOnline, AsksAtMost, RequestKind
<1>3. CASE handleEmergencyNumbersProperty
  BY <1>3, ReceivesFacts
    DEF handleEmergencyNumbersProperty, dial, AsksAtMost, RequestKind
<1>4. CASE Dialled
  BY <1>4, ReceivesFacts DEF Dialled, AsksAtMost
<1>5. CASE HungUp
  BY <1>5, ReceivesFacts DEF HungUp, AsksAtMost
<1>6. CASE CallRemoved
  BY <1>6, ReceivesFacts DEF CallRemoved, AsksAtMost
<1> QED
  BY <1>1, <1>2, <1>3, <1>4, <1>5, <1>6 DEF CallMessage

\* The status of ofono and what PinUi shows of it.
StatusOK ==
    /\ ofonoStatus \in OfonoStatus
    /\ emergencyMode \in BOOLEAN /\ leaveTimer \in BOOLEAN
    /\ shown \in CallStatus \cup {"none"}

\* Call, its resources and the counter.
CallPartOK ==
    /\ resourceStatus \in ResourceStatus
    /\ connected \in BOOLEAN /\ voiceCallManager \in BOOLEAN
    /\ callObjectPath \in BOOLEAN /\ phoneNumber \in Number
    /\ refused \in BOOLEAN /\ loud \in BOOLEAN /\ started \in 0 .. MaxCalls

LEMMA ScalarParts ==
    /\ ScalarsOK <=> StatusOK /\ CallPartOK
    /\ ScalarsOK' <=> StatusOK' /\ CallPartOK'
  BY DEF ScalarsOK, StatusOK, CallPartOK

LEMMA TellsTyped ==
    ASSUME StatusOK, NEW status \in CallStatus, setEmergencyCallStatus(status)
    PROVE  /\ emergencyMode' \in BOOLEAN /\ leaveTimer' \in BOOLEAN
           /\ shown' \in CallStatus \cup {"none"}
  BY DEF setEmergencyCallStatus, StatusOK

LEMMA BecomesTyped ==
    ASSUME StatusOK, NEW ofono \in OfonoStatus, NEW status \in CallStatus,
           Becomes(ofono, status)
    PROVE  StatusOK'
<1>1. ofonoStatus' = ofono /\ setEmergencyCallStatus(status)
  BY DEF Becomes
<1> QED
  BY <1>1, TellsTyped DEF StatusOK

LEMMA StaysTyped == ASSUME StatusOK, StaysAsItIs PROVE StatusOK'
  BY DEF StaysAsItIs, ui_vars, StatusOK

LEMMA CallMessageType ==
    ASSUME EmergencyTypeOK, CallMessage PROVE EmergencyTypeOK'
<1>1. ScalarsOK /\ StatusOK /\ CallPartOK
  BY TypeParts, ScalarParts
<1>k. /\ {"OfonoIdle", "OfonoReady", "OfonoCalling", "OfonoError"} \subseteq OfonoStatus
      /\ {"Ended", "Error", "InvalidNumber", "Calling"} \subseteq CallStatus
  BY DEF OfonoStatus, CallStatus
<1>2. ScalarsOK'
  <2>1. CASE handleModemPath
    <3>1. CallPartOK'
      BY <1>1, <2>1 DEF handleModemPath, CallPartOK
    <3>2. StaysAsItIs \/ Becomes("OfonoError", "Error")
      BY <2>1 DEF handleModemPath
    <3> QED
      BY <1>1, <1>k, <3>1, <3>2, BecomesTyped, StaysTyped, ScalarParts
  <2>2. CASE handleModemOnline
    <3>1. CallPartOK'
      BY <1>1, <2>2 DEF handleModemOnline, CallPartOK
    <3>2. StaysAsItIs \/ Becomes("OfonoError", "Error")
      BY <2>2 DEF handleModemOnline
    <3> QED
      BY <1>1, <1>k, <3>1, <3>2, BecomesTyped, StaysTyped, ScalarParts
  <2>3. CASE handleEmergencyNumbersProperty
    <3>1. CallPartOK'
      BY <1>1, <2>3 DEF handleEmergencyNumbersProperty, dial, CallPartOK
    <3>2. CASE dial(resourceStatus) /\ UNCHANGED ui_vars
      <4>1. ofonoStatus' \in {"OfonoCalling", "OfonoReady"}
        BY <3>2 DEF dial
      <4>2. StatusOK'
        BY <1>1, <1>k, <3>2, <4>1 DEF ui_vars, StatusOK
      <4> QED
        BY <3>1, <4>2, ScalarParts
    <3>3. CASE StaysAsItIs \/ Becomes("OfonoIdle", "InvalidNumber")
      BY <1>1, <1>k, <3>1, <3>3, BecomesTyped, StaysTyped, ScalarParts
    <3> QED
      BY <2>3, <3>2, <3>3 DEF handleEmergencyNumbersProperty
  <2>4. CASE Dialled
    <3>1. CallPartOK'
      BY <1>1, <2>4 DEF Dialled, CallPartOK
    <3>2. CASE setEmergencyCallStatus("Calling") /\ UNCHANGED ofonoStatus
      <4>1. StatusOK'
        BY <1>1, <1>k, <3>2, TellsTyped DEF StatusOK
      <4> QED
        BY <3>1, <4>1, ScalarParts
    <3>3. CASE Becomes("OfonoError", "Error")
      BY <1>1, <1>k, <3>1, <3>3, BecomesTyped, ScalarParts
    <3> QED
      BY <2>4, <3>2, <3>3 DEF Dialled
  <2>5. CASE HungUp
    <3>1. CallPartOK'
      BY <1>1, <2>5 DEF HungUp, CallPartOK
    <3>2. Becomes("OfonoIdle", "Ended") \/ Becomes("OfonoError", "Error")
      BY <2>5 DEF HungUp
    <3> QED
      BY <1>1, <1>k, <3>1, <3>2, BecomesTyped, ScalarParts
  <2>6. CASE CallRemoved
    <3>1. resourceStatus' \in ResourceStatus
      BY <1>1, <2>6 DEF CallRemoved, releaseResources, CallPartOK, ResourceStatus
    <3>2. CallPartOK'
      BY <1>1, <2>6, <3>1 DEF CallRemoved, CallPartOK
    <3>3. StaysAsItIs \/ Becomes("OfonoIdle", "Ended")
      BY <2>6 DEF CallRemoved
    <3> QED
      BY <1>1, <1>k, <3>2, <3>3, BecomesTyped, StaysTyped, ScalarParts
  <2> QED
    BY <2>1, <2>2, <2>3, <2>4, <2>5, <2>6 DEF CallMessage
<1> QED
  BY <1>2, CallMessageQueues, AsksKeepsType, TypePartsNext DEF EmergencyTypeOK, RestOK

LEMMA ResourcesType ==
    ASSUME EmergencyTypeOK, ResourcesRegistered \/ ResourcesReleased
    PROVE  EmergencyTypeOK'
<1>1. ScalarsOK
  BY TypeParts
<1>2. AsksAtMost /\ UNCHANGED <<messages, talking>> /\ ScalarsOK'
  <2>1. CASE ResourcesRegistered
    <3>1. /\ UNCHANGED <<messages, talking>>
          /\ UNCHANGED <<connected, voiceCallManager, callObjectPath, phoneNumber, started>>
      BY <2>1 DEF ResourcesRegistered
    <3>2. AsksAtMost
      BY <2>1 DEF ResourcesRegistered, dial, AsksAtMost, RequestKind
    <3>3. CallPartOK'
      BY <1>1, <2>1, <3>1, ScalarParts
      DEF ResourcesRegistered, dial, CallPartOK, ResourceStatus
    <3>4. /\ ofonoStatus' \in {ofonoStatus, "OfonoCalling", "OfonoReady"}
          /\ UNCHANGED ui_vars \/ setEmergencyCallStatus("Error")
      BY <2>1 DEF ResourcesRegistered, dial
    <3>5. ofonoStatus' \in OfonoStatus /\ "Error" \in CallStatus
      BY <1>1, <3>4 DEF ScalarsOK, OfonoStatus, CallStatus
    <3>6. StatusOK'
      BY <1>1, <3>4, <3>5, ScalarParts, TellsTyped DEF StatusOK, ui_vars
    <3> QED
      BY <3>1, <3>2, <3>3, <3>6, ScalarParts
  <2>2. CASE ResourcesReleased
    BY <1>1, <2>2 DEF ResourcesReleased, ui_vars, modem_vars, ScalarsOK, AsksAtMost,
      ResourceStatus
  <2> QED
    BY <2>1, <2>2
<1> QED
  BY <1>2, AsksKeepsType, TypePartsNext DEF EmergencyTypeOK, RestOK

-----------------------------------------------------------------------------
(* What ofono does to the queues *)

LEMMA Lists ==
    ASSUME NEW m \in Message, NEW n \in Message
    PROVE  /\ <<m>> \in Seq(Message) /\ DOMAIN <<m>> = {1} /\ <<m>>[1] = m
           /\ <<m, n>> \in Seq(Message) /\ DOMAIN <<m, n>> = {1, 2}
           /\ <<m, n>>[1] = m /\ <<m, n>>[2] = n
           /\ <<m>> \o <<n>> = <<m, n>> /\ <<>> \o <<n>> = <<n>>
<1>1. <<m>> \in Seq(Message) /\ Len(<<m>>) = 1 /\ DOMAIN <<m>> = {1} /\ <<m>>[1] = m
  OBVIOUS
<1>2. <<m, n>> \in Seq(Message) /\ <<m, n>>[1] = m /\ <<m, n>>[2] = n
  OBVIOUS
<1>3. Len(<<m, n>>) = 2 /\ DOMAIN <<m, n>> = {1, 2}
  <2>1. Len(<<m, n>>) = 2 /\ DOMAIN <<m, n>> = 1 .. 2
    OBVIOUS
  <2> QED
    BY <2>1
<1>4. <<m>> \o <<n>> = <<m, n>>
  <2>1. <<n>> \in Seq(Message) /\ Len(<<n>>) = 1 /\ <<n>>[1] = n
    OBVIOUS
  <2>2. /\ <<m>> \o <<n>> \in Seq(Message) /\ Len(<<m>> \o <<n>>) = 2
        /\ (<<m>> \o <<n>>)[1] = m /\ (<<m>> \o <<n>>)[2] = n
    BY <1>1, <2>1
  <2> DEFINE s == <<m>> \o <<n>>  t == <<m, n>>
  <2>3. s \in Seq(Message) /\ t \in Seq(Message) /\ Len(s) = 2 /\ Len(t) = 2
        /\ s[1] = t[1] /\ s[2] = t[2]
    BY <1>2, <1>3, <2>2
  <2> HIDE DEF s, t
  <2>4. \A i \in 1 .. Len(s) : s[i] = t[i]
    BY <2>3
  <2>5. s = t
    BY <2>3, <2>4, SeqEqual
  <2> QED
    BY <2>5 DEF s, t
<1>5. <<>> \o <<n>> = <<n>>
  OBVIOUS
<1> QED
  BY <1>1, <1>2, <1>3, <1>4, <1>5

LEMMA Replies ==
    ASSUME NEW of \in RequestKind \cup {"CallRemoved"}, NEW result \in Result
    PROVE  /\ Reply(of, result) \in Message
           /\ Reply(of, result).of = of /\ Reply(of, result).result = result
  BY DEF Reply, Message

\* The next request leaves the queue.
Taken ==
    /\ requests # <<>> /\ requests' = Tail(requests)
    /\ Head(requests) = requests[1] /\ 1 \in DOMAIN requests
    /\ Head(requests) \in Request

LEMMA TakenFacts ==
    ASSUME EmergencyTypeOK, OfonoAnswers
    PROVE  /\ Taken /\ requests' \in Seq(Request)
           /\ \A i \in DOMAIN requests' :
                 i + 1 \in DOMAIN requests /\ 1 < i + 1
                 /\ requests'[i] = requests[i + 1]
<1>1. requests \in Seq(Request) /\ requests # <<>> /\ requests' = Tail(requests)
  BY DEF EmergencyTypeOK, OfonoAnswers
<1> QED
  BY <1>1, TailFacts DEF Taken

\* What ofono answers to the next request, and what the modem does then.
Dials ==
    /\ Head(requests).of = "dial" /\ talking = "none"
    /\ talking' = Head(requests).number
    /\ messages' = messages \o <<Reply("dial", "ok")>>

HangsUp ==
    /\ Head(requests).of = "hangup" /\ talking' = "none"
    /\ messages' = messages \o <<Reply("hangup", "ok")>>

HangsUpCall ==
    /\ Head(requests).of = "hangup" /\ talking # "none" /\ talking' = "none"
    /\ messages' = messages \o <<Reply("CallRemoved", "ok"), Reply("hangup", "ok")>>

Serves ==
    /\ Head(requests).of \in {"modems", "online", "numbers"} /\ UNCHANGED talking
    /\ messages' = messages \o <<Reply(Head(requests).of, "ok")>>

Refuses ==
    /\ Head(requests).of \in Fault \/ (Head(requests).of = "dial" /\ talking # "none")
    /\ UNCHANGED talking
    /\ messages' = messages \o <<Reply(Head(requests).of, "error")>>

HasNoModem ==
    /\ Head(requests).of = "modems" /\ UNCHANGED talking
    /\ messages' = messages \o <<Reply("modems", "invalid")>>

LEMMA Outcomes ==
    ASSUME EmergencyTypeOK, OfonoAnswers
    PROVE  /\ Dials \/ HangsUp \/ HangsUpCall \/ Serves \/ Refuses \/ HasNoModem
           /\ UNCHANGED <<call_vars, ui_vars, refused, loud, started>>
<1>1. Reply("CallRemoved", "ok") \in Message /\ Reply("hangup", "ok") \in Message
  BY Replies DEF RequestKind, Result
<1>2. /\ Removal \o <<Reply("hangup", "ok")>>
           = <<Reply("CallRemoved", "ok"), Reply("hangup", "ok")>>
      /\ <<>> \o <<Reply("hangup", "ok")>> = <<Reply("hangup", "ok")>>
  BY <1>1, Lists DEF Removal
<1>3. ASSUME Head(requests).of = "hangup", talking' = "none",
             Sends((IF talking = "none" THEN <<>> ELSE Removal)
                   \o <<Reply(Head(requests).of, "ok")>>)
      PROVE  HangsUp \/ HangsUpCall
  <2>1. CASE talking = "none"
    BY <1>2, <1>3, <2>1 DEF HangsUp, Sends
  <2>2. CASE talking # "none"
    BY <1>2, <1>3, <2>2 DEF HangsUpCall, Sends
  <2> QED
    BY <2>1, <2>2
<1>4. UNCHANGED <<call_vars, ui_vars, refused, loud, started>>
  BY DEF OfonoAnswers, Sends
<1>5. CASE /\ Head(requests).of = "dial" /\ talking = "none"
           /\ talking' = Head(requests).number
           /\ Sends(<<Reply(Head(requests).of, "ok")>>)
  BY <1>4, <1>5 DEF Dials, Sends
<1>6. CASE /\ Head(requests).of \in {"modems", "online", "numbers"}
           /\ UNCHANGED talking
           /\ Sends(<<Reply(Head(requests).of, "ok")>>)
  BY <1>4, <1>6 DEF Serves, Sends
<1>7. CASE /\ \/ Head(requests).of \in Fault
              \/ Head(requests).of = "dial" /\ talking # "none"
           /\ UNCHANGED talking
           /\ Sends(<<Reply(Head(requests).of, "error")>>)
  BY <1>4, <1>7 DEF Refuses, Sends
<1>8. CASE /\ Head(requests).of = "modems" /\ "no_modems" \in Fault
           /\ UNCHANGED talking
           /\ Sends(<<Reply(Head(requests).of, "invalid")>>)
  BY <1>4, <1>8 DEF HasNoModem, Sends
<1>9. CASE /\ Head(requests).of = "hangup" /\ talking' = "none"
           /\ Sends((IF talking = "none" THEN <<>> ELSE Removal)
                    \o <<Reply(Head(requests).of, "ok")>>)
  BY <1>3, <1>4, <1>9
<1> QED
  BY <1>5, <1>6, <1>7, <1>8, <1>9 DEF OfonoAnswers

\* What is sent is added at the end.
LEMMA SendsFacts ==
    ASSUME EmergencyTypeOK, NEW list \in Seq(Message), messages' = messages \o list
    PROVE  /\ messages' \in Seq(Message)
           /\ \A i \in DOMAIN messages :
                 i \in DOMAIN messages' /\ messages'[i] = messages[i]
           /\ \A i \in DOMAIN messages' : i \notin DOMAIN messages =>
                 /\ Len(messages) < i /\ i - Len(messages) \in DOMAIN list
                 /\ messages'[i] = list[i - Len(messages)]
           /\ \A i \in DOMAIN list :
                 /\ Len(messages) + i \in DOMAIN messages'
                 /\ messages'[Len(messages) + i] = list[i]
           /\ \A x : Sent(x)' <=> Sent(x) \/ \E i \in DOMAIN list : Part(list[i]) = x
<1>1. messages \in Seq(Message)
  BY DEF EmergencyTypeOK
<1>2. /\ messages' \in Seq(Message)
      /\ \A i \in DOMAIN messages :
            i \in DOMAIN messages' /\ messages'[i] = messages[i]
      /\ \A i \in DOMAIN messages' : i \notin DOMAIN messages =>
            /\ Len(messages) < i /\ i - Len(messages) \in DOMAIN list
            /\ messages'[i] = list[i - Len(messages)]
      /\ \A i \in DOMAIN list :
            /\ Len(messages) + i \in DOMAIN messages'
            /\ messages'[Len(messages) + i] = list[i]
  BY <1>1, ConcatFacts
<1>3. ASSUME NEW x
      PROVE  Sent(x)' <=> Sent(x) \/ \E i \in DOMAIN list : Part(list[i]) = x
  <2>1. Sent(x) => Sent(x)'
    BY <1>2 DEF Sent
  <2>2. ASSUME NEW i \in DOMAIN list, Part(list[i]) = x PROVE Sent(x)'
    BY <1>2, <2>2 DEF Sent
  <2>3. Sent(x)' => Sent(x) \/ \E i \in DOMAIN list : Part(list[i]) = x
    BY <1>2 DEF Sent
  <2> QED
    BY <2>1, <2>2, <2>3
<1> QED
  BY <1>2, <1>3

LEMMA OneSent ==
    ASSUME EmergencyTypeOK, NEW m \in Message, messages' = messages \o <<m>>
    PROVE  \A x : Sent(x)' <=> Sent(x) \/ x = Part(m)
<1>1. <<m>> \in Seq(Message) /\ DOMAIN <<m>> = {1} /\ <<m>>[1] = m
  BY Lists
<1>2. \A x : Sent(x)' <=> Sent(x) \/ \E i \in DOMAIN <<m>> : Part(<<m>>[i]) = x
  BY <1>1, SendsFacts
<1>3. ASSUME NEW x
      PROVE  (\E i \in DOMAIN <<m>> : Part(<<m>>[i]) = x) <=> x = Part(m)
  BY <1>1
<1>4. ASSUME NEW x PROVE Sent(x)' <=> Sent(x) \/ x = Part(m)
  BY <1>2, <1>3
<1> QED
  BY <1>4

LEMMA TwoSent ==
    ASSUME EmergencyTypeOK, NEW m \in Message, NEW n \in Message,
           messages' = messages \o <<m, n>>
    PROVE  \A x : Sent(x)' <=> Sent(x) \/ x \in {Part(m), Part(n)}
<1>1. /\ <<m, n>> \in Seq(Message) /\ DOMAIN <<m, n>> = {1, 2}
      /\ <<m, n>>[1] = m /\ <<m, n>>[2] = n
  BY Lists
<1>2. \A x : Sent(x)' <=> Sent(x) \/ \E i \in DOMAIN <<m, n>> : Part(<<m, n>>[i]) = x
  BY <1>1, SendsFacts
<1>3. ASSUME NEW x
      PROVE  (\E i \in DOMAIN <<m, n>> : Part(<<m, n>>[i]) = x)
             <=> x \in {Part(m), Part(n)}
  BY <1>1
<1>4. ASSUME NEW x PROVE Sent(x)' <=> Sent(x) \/ x \in {Part(m), Part(n)}
  BY <1>2, <1>3
<1> QED
  BY <1>4

\* A request that is refused as busy leaves from the middle.
LEMMA BusyFacts ==
    ASSUME EmergencyTypeOK, OfonoIsBusy
    PROVE  /\ requests' \in Seq(Request)
           /\ messages' = messages \o <<Reply("online", "in_progress")>>
           /\ UNCHANGED <<talking, call_vars, ui_vars, refused, loud, started>>
           /\ \E j \in DOMAIN requests :
                 /\ requests[j].of = "online"
                 /\ \A k \in DOMAIN requests' :
                       /\ k < j => k \in DOMAIN requests /\ requests'[k] = requests[k]
                       /\ k >= j => k + 1 \in DOMAIN requests
                                    /\ requests'[k] = requests[k + 1]
                 /\ \A k \in DOMAIN requests :
                       /\ k < j => k \in DOMAIN requests' /\ requests'[k] = requests[k]
                       /\ k > j => k - 1 \in DOMAIN requests'
                                   /\ requests'[k - 1] = requests[k]
<1>1. requests \in Seq(Request)
  BY DEF EmergencyTypeOK
<1>2. PICK i, j \in DOMAIN requests :
        /\ i < j /\ requests[i].of = "online" /\ requests[j].of = "online"
        /\ requests' = SubSeq(requests, 1, j - 1)
                       \o SubSeq(requests, j + 1, Len(requests))
        /\ UNCHANGED talking
        /\ Sends(<<Reply("online", "in_progress")>>)
  BY DEF OfonoIsBusy
<1> DEFINE s == SubSeq(requests, 1, j - 1)
           t == SubSeq(requests, j + 1, Len(requests))
<1>3. Len(requests) \in Nat /\ DOMAIN requests = 1 .. Len(requests) /\ j \in 1 .. Len(requests)
  BY <1>1
<1>4. /\ s \in Seq(Request) /\ Len(s) = j - 1 /\ DOMAIN s = 1 .. j - 1
      /\ \A k \in 1 .. j - 1 : s[k] = requests[k]
  BY <1>1, <1>3
<1>5. /\ t \in Seq(Request) /\ Len(t) = Len(requests) - j
      /\ DOMAIN t = 1 .. Len(requests) - j
      /\ \A k \in 1 .. Len(requests) - j : t[k] = requests[j + k]
  <2>1. t \in Seq(Request)
    BY <1>1, <1>3
  <2>2. Len(t) = Len(requests) - j
    BY <1>1, <1>3
  <2>3. \A k \in 1 .. Len(requests) - j : t[k] = requests[j + 1 + k - 1]
    BY <1>1, <1>3
  <2>4. \A k \in 1 .. Len(requests) - j : j + 1 + k - 1 = j + k
    BY <1>3
  <2> QED
    BY <2>1, <2>2, <2>3, <2>4
<1> HIDE DEF s, t
<1>6. requests' = s \o t
  BY <1>2 DEF s, t
<1>7. /\ requests' \in Seq(Request)
      /\ \A k \in DOMAIN s : k \in DOMAIN requests' /\ requests'[k] = s[k]
      /\ \A k \in DOMAIN requests' : k \notin DOMAIN s =>
            Len(s) < k /\ k - Len(s) \in DOMAIN t /\ requests'[k] = t[k - Len(s)]
      /\ \A k \in DOMAIN t :
            Len(s) + k \in DOMAIN requests' /\ requests'[Len(s) + k] = t[k]
  <2>1. s \in Seq(Request) /\ t \in Seq(Request)
    BY <1>4, <1>5
  <2> QED
    BY <1>6, <2>1, ConcatFacts
<1>8. DOMAIN requests' \subseteq Nat \ {0}
  BY <1>7
<1>9. ASSUME NEW k \in DOMAIN requests'
      PROVE  /\ k < j => k \in DOMAIN requests /\ requests'[k] = requests[k]
             /\ k >= j => k + 1 \in DOMAIN requests /\ requests'[k] = requests[k + 1]
  <2>1. CASE k \in DOMAIN s
    BY <1>3, <1>4, <1>7, <2>1
  <2>2. CASE k \notin DOMAIN s
    <3>1. k >= j /\ k - (j - 1) \in 1 .. Len(requests) - j
          /\ requests'[k] = t[k - (j - 1)]
      BY <1>3, <1>4, <1>5, <1>7, <1>8, <2>2
    <3>2. j + (k - (j - 1)) = k + 1 /\ k \in Nat
      BY <1>3, <1>8
    <3>3. t[k - (j - 1)] = requests[j + (k - (j - 1))]
      BY <1>5, <3>1
    <3> QED
      BY <1>3, <3>1, <3>2, <3>3
  <2> QED
    BY <2>1, <2>2
<1>10. ASSUME NEW k \in DOMAIN requests
       PROVE  /\ k < j => k \in DOMAIN requests' /\ requests'[k] = requests[k]
              /\ k > j => k - 1 \in DOMAIN requests' /\ requests'[k - 1] = requests[k]
  <2>1. ASSUME k < j PROVE k \in DOMAIN requests' /\ requests'[k] = requests[k]
    BY <1>3, <1>4, <1>7, <2>1
  <2>2. ASSUME k > j PROVE k - 1 \in DOMAIN requests' /\ requests'[k - 1] = requests[k]
    <3>1. k - j \in DOMAIN t /\ t[k - j] = requests[j + (k - j)]
      BY <1>3, <1>5, <2>2
    <3>2. j + (k - j) = k /\ (j - 1) + (k - j) = k - 1
      BY <1>3
    <3> QED
      BY <1>4, <1>7, <3>1, <3>2
  <2> QED
    BY <2>1, <2>2
<1>11. messages' = messages \o <<Reply("online", "in_progress")>>
       /\ UNCHANGED <<talking, call_vars, ui_vars, refused, loud, started>>
  BY <1>2 DEF Sends
<1>12. requests[j].of = "online"
  BY <1>2
<1> QED
  BY <1>7, <1>9, <1>10, <1>11, <1>12

\* Types after a step of ofono.
LEMMA OfonoType ==
    ASSUME EmergencyTypeOK, OfonoAnswers \/ OfonoIsBusy \/ OtherEndEnds
    PROVE  EmergencyTypeOK'
<1>1. ScalarsOK /\ requests \in Seq(Request) /\ talking \in Number \cup {"none"}
  BY TypeParts DEF EmergencyTypeOK
<1>2. CASE OfonoAnswers
  <2>1. UNCHANGED <<call_vars, ui_vars, refused, loud, started>>
    BY <1>2, Outcomes
  <2>2. ScalarsOK'
    BY <1>1, <2>1 DEF ScalarsOK, call_vars, ui_vars
  <2>3. requests' \in Seq(Request) /\ Head(requests) \in Request
    BY <1>2, TakenFacts DEF Taken
  <2>4. Head(requests).of \in RequestKind /\ Head(requests).number \in Number
    BY <2>3 DEF Request
  <2>5. ASSUME NEW r \in Result, messages' = messages \o <<Reply(Head(requests).of, r)>>
        PROVE  messages' \in Seq(Message)
    <3>1. Reply(Head(requests).of, r) \in Message
      BY <2>4, Replies
    <3>2. <<Reply(Head(requests).of, r)>> \in Seq(Message)
      BY <3>1, Lists
    <3> QED
      BY <2>5, <3>2, SendsFacts
  <2>6. ASSUME messages' = messages
                   \o <<Reply("CallRemoved", "ok"), Reply("hangup", "ok")>>
        PROVE  messages' \in Seq(Message)
    <3>1. Reply("CallRemoved", "ok") \in Message /\ Reply("hangup", "ok") \in Message
      BY Replies DEF RequestKind, Result
    <3>2. <<Reply("CallRemoved", "ok"), Reply("hangup", "ok")>> \in Seq(Message)
      BY <3>1, Lists
    <3> QED
      BY <2>6, <3>2, SendsFacts
  <2>7. messages' \in Seq(Message) /\ talking' \in Number \cup {"none"}
    <3>1. Dials \/ HangsUp \/ HangsUpCall \/ Serves \/ Refuses \/ HasNoModem
      BY <1>2, Outcomes
    <3>2. "ok" \in Result /\ "error" \in Result /\ "invalid" \in Result
      BY DEF Result
    <3> QED
      BY <1>1, <2>4, <2>5, <2>6, <3>1, <3>2
        DEF Dials, HangsUp, HangsUpCall, Serves, Refuses, HasNoModem
  <2> QED
    BY <2>2, <2>3, <2>7, TypePartsNext DEF RestOK
<1>3. CASE OfonoIsBusy
  <2>1. /\ requests' \in Seq(Request)
        /\ messages' = messages \o <<Reply("online", "in_progress")>>
        /\ UNCHANGED <<talking, call_vars, ui_vars, refused, loud, started>>
    BY <1>3, BusyFacts
  <2>2. ScalarsOK'
    BY <1>1, <2>1 DEF ScalarsOK, call_vars, ui_vars
  <2>3. Reply("online", "in_progress") \in Message
    BY Replies DEF RequestKind, Result
  <2>4. <<Reply("online", "in_progress")>> \in Seq(Message)
    BY <2>3, Lists
  <2>5. messages' \in Seq(Message)
    BY <2>1, <2>4, SendsFacts
  <2> QED
    BY <1>1, <2>1, <2>2, <2>5, TypePartsNext DEF RestOK
<1>4. CASE OtherEndEnds
  <2>1. /\ UNCHANGED requests /\ talking' = "none"
        /\ messages' = messages \o <<Reply("CallRemoved", "ok")>>
        /\ UNCHANGED <<call_vars, ui_vars, refused, loud, started>>
    BY <1>4 DEF OtherEndEnds, Sends, Removal
  <2>2. ScalarsOK'
    BY <1>1, <2>1 DEF ScalarsOK, call_vars, ui_vars
  <2>3. Reply("CallRemoved", "ok") \in Message
    BY Replies DEF RequestKind, Result
  <2>4. <<Reply("CallRemoved", "ok")>> \in Seq(Message)
    BY <2>3, Lists
  <2>5. messages' \in Seq(Message)
    BY <2>1, <2>4, SendsFacts
  <2> QED
    BY <1>1, <2>1, <2>2, <2>5, TypePartsNext DEF RestOK
<1> QED
  BY <1>2, <1>3, <1>4

LEMMA TypeInit == ASSUME Init PROVE EmergencyTypeOK
<1>1. <<>> \in Seq(Request) /\ <<>> \in Seq(Message)
  OBVIOUS
<1>2. requests \in Seq(Request) /\ messages \in Seq(Message)
  BY <1>1 DEF Init
<1>3. 0 \in 0 .. MaxCalls
  BY EmergencyBoundAssumption
<1>4. started \in 0 .. MaxCalls
  BY <1>3 DEF Init
<1>5. RestOK
  BY <1>2 DEF Init, RestOK
<1>6. ScalarsOK
  BY <1>4 DEF Init, ScalarsOK, OfonoStatus, ResourceStatus, Number
<1> QED
  BY <1>5, <1>6, TypeParts

LEMMA TypeStep == EmergencyTypeOK /\ [Next]_vars => EmergencyTypeOK'
<1>1. SUFFICES ASSUME EmergencyTypeOK, [Next]_vars PROVE EmergencyTypeOK'
  OBVIOUS
<1>2. CASE UNCHANGED vars
  BY <1>1, <1>2 DEF vars, call_vars, ui_vars, modem_vars, EmergencyTypeOK
<1> QED
  BY <1>1, <1>2, UserType, CallMessageType, ResourcesType, OfonoType DEF Next

\* Every variable keeps its type: among others, Call takes on a status of ofono
\* only, never one of those that PinUi is told (call.h:52, call.h:124).
THEOREM EmergencyTyped == Spec => []EmergencyTypeOK
<1>1. Init => EmergencyTypeOK
  BY TypeInit
<1> QED
  BY <1>1, TypeStep, PTL DEF Spec

\* The timer runs only when no call does.
LEMMA TimerStep ==
    EmergencyTypeOK /\ TimerEndsNoCall /\ [Next]_vars => TimerEndsNoCall'
<1>1. SUFFICES ASSUME EmergencyTypeOK, TimerEndsNoCall, [Next]_vars
               PROVE  TimerEndsNoCall'
  OBVIOUS
<1> USE DEF TimerEndsNoCall, calling
<1>2. CASE UNCHANGED vars
  BY <1>1, <1>2 DEF vars, call_vars, ui_vars
<1>3. CASE User \/ TimerLeaves
  <2>1. CASE EnterEmergencyMode
    BY <2>1 DEF EnterEmergencyMode
  <2>2. CASE KeyEndsCall
    BY <1>1, <2>2 DEF KeyEndsCall, endCall, hangUp, ui_vars, setEmergencyCallStatus
  <2>3. CASE LeaveEmergencyMode
    BY <2>3 DEF LeaveEmergencyMode
  <2>4. CASE KeyTypes
    BY <2>4 DEF KeyTypes
  <2>5. ASSUME NEW number \in Number, KeyStartsCall(number) PROVE TimerEndsNoCall'
    BY <2>5 DEF KeyStartsCall, makeCall, Becomes, setEmergencyCallStatus
  <2> QED
    BY <1>3, <2>1, <2>2, <2>3, <2>4, <2>5 DEF User, TimerLeaves, KeyLeaves
<1>4. CASE CallMessage
  <2>1. CASE handleModemPath
    BY <1>1, <2>1 DEF handleModemPath, Becomes, StaysAsItIs, ui_vars,
      setEmergencyCallStatus
  <2>2. CASE handleModemOnline
    BY <1>1, <2>2 DEF handleModemOnline, Becomes, StaysAsItIs, ui_vars,
      setEmergencyCallStatus
  <2>3. CASE handleEmergencyNumbersProperty
    BY <1>1, <2>3 DEF handleEmergencyNumbersProperty, dial, Becomes, StaysAsItIs,
      ui_vars, setEmergencyCallStatus
  <2>4. CASE Dialled
    BY <1>1, <2>4 DEF Dialled, Becomes, setEmergencyCallStatus
  <2>5. CASE HungUp
    BY <1>1, <2>5 DEF HungUp, Becomes, setEmergencyCallStatus
  <2>6. CASE CallRemoved
    BY <1>1, <2>6 DEF CallRemoved, Becomes, StaysAsItIs, ui_vars,
      setEmergencyCallStatus
  <2> QED
    BY <1>4, <2>1, <2>2, <2>3, <2>4, <2>5, <2>6 DEF CallMessage
<1>5. CASE ResourcesRegistered
  BY <1>1, <1>5 DEF ResourcesRegistered, dial, ui_vars, setEmergencyCallStatus
<1>6. CASE ResourcesReleased
  BY <1>1, <1>6 DEF ResourcesReleased, ui_vars
<1>7. CASE OfonoAnswers
  BY <1>1, <1>7, Outcomes DEF call_vars, ui_vars
<1>8. CASE OfonoIsBusy
  BY <1>1, <1>8, BusyFacts DEF call_vars, ui_vars
<1>9. CASE OtherEndEnds
  BY <1>1, <1>9 DEF OtherEndEnds, Sends, call_vars, ui_vars
<1> QED
  BY <1>1, <1>2, <1>3, <1>4, <1>5, <1>6, <1>7, <1>8, <1>9 DEF Next

\* The timer with which the emergency mode ends after a call is not running during
\* another one, whatever fails (pin.cpp:700).
THEOREM TimerSparesCalls == Spec => []TimerEndsNoCall
<1>1. Init => TimerEndsNoCall
  BY DEF Init, TimerEndsNoCall
<1>2. Init => EmergencyTypeOK
  BY TypeInit
<1> QED
  BY <1>1, <1>2, TypeStep, TimerStep, PTL DEF Spec

-----------------------------------------------------------------------------
(* Numbers *)

\* What a new request asks to dial is the number that was accepted.
LEMMA NumberAsks ==
    ASSUME EmergencyTypeOK, NumberInv, NEW of \in RequestKind, Asks(of),
           of = "dial" => phoneNumber # "other"
    PROVE  \A i \in DOMAIN requests' : requests'[i].number # "other"
<1>1. requests' = Append(requests, Asked(of)) /\ Asked(of) \in Request
  BY AskFacts
<1>2. Asked(of).number # "other"
  BY DEF Asked
<1>3. /\ DOMAIN requests = 1 .. Len(requests)
      /\ DOMAIN requests' = 1 .. Len(requests) + 1
      /\ \A i \in DOMAIN requests : requests'[i] = requests[i]
      /\ requests'[Len(requests) + 1] = Asked(of) /\ Len(requests) \in Nat
  BY <1>1, AppendFacts DEF EmergencyTypeOK
<1>4. \A i \in DOMAIN requests' : i \in DOMAIN requests \/ i = Len(requests) + 1
  BY <1>3
<1> QED
  BY <1>2, <1>3, <1>4 DEF NumberInv

LEMMA NumberUser ==
    ASSUME EmergencyTypeOK, NumberInv, User \/ TimerLeaves PROVE NumberInv'
<1>1. /\ requests' = requests \/ \E of \in RequestKind \ {"dial"} : Asks(of)
      /\ UNCHANGED <<messages, talking>>
      /\ ofonoStatus' = "OfonoReady" => UNCHANGED <<ofonoStatus, phoneNumber>>
  <2>1. CASE EnterEmergencyMode
    BY <2>1 DEF EnterEmergencyMode, call_vars, modem_vars
  <2>2. CASE KeyEndsCall
    BY <2>2 DEF KeyEndsCall, endCall, hangUp, RequestKind
  <2>3. CASE LeaveEmergencyMode
    BY <2>3 DEF LeaveEmergencyMode, endCall, hangUp, RequestKind
  <2>4. CASE KeyTypes
    BY <2>4 DEF KeyTypes, call_vars, modem_vars
  <2>5. ASSUME NEW number \in Number, KeyStartsCall(number)
        PROVE  /\ \E of \in RequestKind \ {"dial"} : Asks(of)
               /\ UNCHANGED <<messages, talking>> /\ ofonoStatus' # "OfonoReady"
    BY <2>5 DEF KeyStartsCall, makeCall, Becomes, RequestKind
  <2> QED
    BY <2>1, <2>2, <2>3, <2>4, <2>5 DEF User, TimerLeaves, KeyLeaves
<1>2. \A of \in RequestKind \ {"dial"} : Asks(of) =>
        \A i \in DOMAIN requests' : requests'[i].number # "other"
  BY NumberAsks
<1> QED
  BY <1>1, <1>2 DEF NumberInv

LEMMA NumberMessage ==
    ASSUME EmergencyTypeOK, NumberInv, CallMessage PROVE NumberInv'
<1>1. UNCHANGED talking
  BY CallMessageQueues
<1>2. ASSUME NEW of, Receives(of)
      PROVE  /\ \A i \in DOMAIN messages' :
                   messages'[i].of = "numbers" => messages'[i].result # "error"
             /\ of = "numbers" => ~Got("error")
  BY <1>2, ReceivesFacts DEF NumberInv, Got
<1>3. CASE handleModemPath
  BY <1>1, <1>2, <1>3, NumberAsks
    DEF handleModemPath, NumberInv, Becomes, StaysAsItIs, RequestKind
<1>4. CASE handleModemOnline
  BY <1>1, <1>2, <1>4, NumberAsks
    DEF handleModemOnline, NumberInv, Becomes, StaysAsItIs, RequestKind
<1>5. CASE handleEmergencyNumbersProperty
  <2>1. /\ \A i \in DOMAIN messages' :
              messages'[i].of = "numbers" => messages'[i].result # "error"
        /\ ~Got("error") /\ UNCHANGED phoneNumber
    BY <1>2, <1>5 DEF handleEmergencyNumbersProperty
  <2>2. ASSUME NumberAccepted, dial(resourceStatus) PROVE NumberInv'
    <3>1. phoneNumber # "other"
      BY <2>1, <2>2 DEF NumberAccepted
    <3>2. requests' = requests \/ Asks("dial")
      BY <2>2 DEF dial
    <3>3. \A i \in DOMAIN requests' : requests'[i].number # "other"
      BY <3>1, <3>2, NumberAsks DEF NumberInv, RequestKind
    <3> QED
      BY <1>1, <2>1, <3>1, <3>3 DEF NumberInv
  <2>3. ASSUME UNCHANGED requests,
               ofonoStatus' = "OfonoReady" => UNCHANGED ofonoStatus
        PROVE  NumberInv'
    BY <1>1, <2>1, <2>3 DEF NumberInv
  <2> QED
    BY <1>5, <2>2, <2>3 DEF handleEmergencyNumbersProperty, Becomes, StaysAsItIs
<1>6. CASE Dialled
  BY <1>1, <1>2, <1>6 DEF Dialled, NumberInv, Becomes
<1>7. CASE HungUp
  BY <1>1, <1>2, <1>7 DEF HungUp, NumberInv, Becomes
<1>8. CASE CallRemoved
  BY <1>1, <1>2, <1>8 DEF CallRemoved, NumberInv, Becomes, StaysAsItIs
<1> QED
  BY <1>3, <1>4, <1>5, <1>6, <1>7, <1>8 DEF CallMessage

LEMMA NumberResources ==
    ASSUME EmergencyTypeOK, NumberInv, ResourcesRegistered \/ ResourcesReleased
    PROVE  NumberInv'
<1>1. /\ UNCHANGED <<phoneNumber, messages, talking>>
      /\ \/ UNCHANGED <<ofonoStatus, requests>>
         \/ /\ ofonoStatus = "OfonoReady" /\ Asks("dial")
            /\ ofonoStatus' = "OfonoCalling"
  BY DEF ResourcesRegistered, ResourcesReleased, dial, modem_vars
<1>2. ofonoStatus = "OfonoReady" /\ Asks("dial") =>
        \A i \in DOMAIN requests' : requests'[i].number # "other"
  BY NumberAsks DEF NumberInv, RequestKind
<1> QED
  BY <1>1, <1>2 DEF NumberInv

LEMMA NumberOfono ==
    ASSUME "numbers" \notin Fault, EmergencyTypeOK, NumberInv,
           OfonoAnswers \/ OfonoIsBusy \/ OtherEndEnds
    PROVE  NumberInv'
<1>1. ASSUME NEW m \in Message, messages' = messages \o <<m>>,
             m.of = "numbers" => m.result # "error"
      PROVE  \A i \in DOMAIN messages' :
                messages'[i].of = "numbers" => messages'[i].result # "error"
  <2>1. <<m>> \in Seq(Message) /\ DOMAIN <<m>> = {1} /\ <<m>>[1] = m
    BY Lists
  <2> QED
    BY <1>1, <2>1, SendsFacts DEF NumberInv
<1>2. ASSUME messages' = messages
                 \o <<Reply("CallRemoved", "ok"), Reply("hangup", "ok")>>
      PROVE  \A i \in DOMAIN messages' :
                messages'[i].of = "numbers" => messages'[i].result # "error"
  <2> DEFINE m == Reply("CallRemoved", "ok")  n == Reply("hangup", "ok")
  <2>1. m \in Message /\ n \in Message /\ m.of # "numbers" /\ n.of # "numbers"
    BY Replies DEF RequestKind, Result
  <2> HIDE DEF m, n
  <2>2. messages' = messages \o <<m, n>>
    BY <1>2 DEF m, n
  <2>3. <<m, n>> \in Seq(Message) /\ DOMAIN <<m, n>> = {1, 2}
        /\ <<m, n>>[1] = m /\ <<m, n>>[2] = n
    BY <2>1, Lists
  <2> QED
    BY <2>1, <2>2, <2>3, SendsFacts DEF NumberInv
<1>3. CASE OfonoAnswers
  <2>1. /\ Taken /\ UNCHANGED call_vars
        /\ Dials \/ HangsUp \/ HangsUpCall \/ Serves \/ Refuses \/ HasNoModem
    BY <1>3, Outcomes, TakenFacts
  <2>2. \A i \in DOMAIN requests' : requests'[i].number # "other"
    BY <1>3, TakenFacts DEF NumberInv
  <2>3. Head(requests).of \in RequestKind /\ Head(requests).number # "other"
    BY <2>1 DEF Taken, NumberInv, Request
  <2>4. talking' # "other"
    BY <2>1, <2>3
      DEF Dials, HangsUp, HangsUpCall, Serves, Refuses, HasNoModem, NumberInv
  <2>5. \A of \in RequestKind, result \in Result :
          /\ Reply(of, result) \in Message
          /\ Reply(of, result).of = of /\ Reply(of, result).result = result
    BY Replies
  <2>6. "ok" \in Result /\ "error" \in Result /\ "invalid" \in Result
    BY DEF Result
  <2>7. CASE HangsUpCall
    BY <1>2, <2>1, <2>2, <2>4, <2>7 DEF NumberInv, HangsUpCall, call_vars
  <2>8. ASSUME NEW result \in Result,
               messages' = messages \o <<Reply(Head(requests).of, result)>>,
               Head(requests).of = "numbers" => result # "error"
        PROVE  NumberInv'
    BY <1>1, <2>1, <2>2, <2>3, <2>4, <2>5, <2>8 DEF NumberInv, call_vars
  <2>9. CASE Dials
    BY <2>6, <2>8, <2>9 DEF Dials
  <2>10. CASE HangsUp
    BY <2>6, <2>8, <2>10 DEF HangsUp
  <2>11. CASE Serves
    BY <2>6, <2>8, <2>11 DEF Serves
  <2>12. CASE Refuses
    BY <2>6, <2>8, <2>12 DEF Refuses
  <2>13. CASE HasNoModem
    BY <2>6, <2>8, <2>13 DEF HasNoModem
  <2> QED
    BY <2>1, <2>7, <2>9, <2>10, <2>11, <2>12, <2>13
<1>4. CASE OfonoIsBusy
  <2>1. \A i \in DOMAIN requests' : requests'[i].number # "other"
    <3>1. PICK j \in DOMAIN requests : \A k \in DOMAIN requests' :
            /\ k < j => k \in DOMAIN requests /\ requests'[k] = requests[k]
            /\ k >= j => k + 1 \in DOMAIN requests /\ requests'[k] = requests[k + 1]
      BY <1>4, BusyFacts
    <3>2. j \in Nat /\ \A k \in DOMAIN requests' : k \in Nat
      BY <1>4, BusyFacts DEF EmergencyTypeOK
    <3>3. \A k \in DOMAIN requests' : k < j \/ k >= j
      BY <3>2
    <3> QED
      BY <3>1, <3>3 DEF NumberInv
  <2>2. Reply("online", "in_progress") \in Message
        /\ Reply("online", "in_progress").of = "online"
    BY Replies DEF RequestKind, Result
  <2>3. /\ messages' = messages \o <<Reply("online", "in_progress")>>
        /\ UNCHANGED <<talking, call_vars>>
    BY <1>4, BusyFacts
  <2> QED
    BY <1>1, <2>1, <2>2, <2>3 DEF NumberInv, call_vars
<1>5. CASE OtherEndEnds
  <2>1. /\ UNCHANGED <<requests, call_vars>> /\ talking' = "none"
        /\ messages' = messages \o <<Reply("CallRemoved", "ok")>>
    BY <1>5 DEF OtherEndEnds, Sends, Removal
  <2>2. Reply("CallRemoved", "ok") \in Message
        /\ Reply("CallRemoved", "ok").of = "CallRemoved"
    BY Replies DEF RequestKind, Result
  <2> QED
    BY <1>1, <2>1, <2>2 DEF NumberInv, call_vars
<1> QED
  BY <1>3, <1>4, <1>5

\* When the list of emergency numbers can be read, no other number is in the modem,
\* whatever else fails and however calls are ended and started while answers are
\* due (call.cpp handleEmergencyNumbersProperty).
THEOREM NumbersKept == Spec => []OnlyEmergencyNumbers
<1>1. CASE "numbers" \in Fault
  <2>1. OnlyEmergencyNumbers
    BY <1>1 DEF OnlyEmergencyNumbers
  <2> QED
    BY <2>1, PTL
<1>2. CASE "numbers" \notin Fault
  <2>1. Init => EmergencyTypeOK /\ NumberInv
    <3>1. SUFFICES ASSUME Init PROVE EmergencyTypeOK /\ NumberInv
      OBVIOUS
    <3>2. EmergencyTypeOK
      BY <3>1, TypeInit
    <3>3. DOMAIN requests = {} /\ DOMAIN messages = {}
      BY <3>1 DEF Init
    <3>4. NumberInv
      BY <3>1, <3>3 DEF Init, NumberInv
    <3> QED
      BY <3>2, <3>4
  <2>2. EmergencyTypeOK /\ NumberInv /\ [Next]_vars => NumberInv'
    <3>1. SUFFICES ASSUME EmergencyTypeOK, NumberInv, [Next]_vars PROVE NumberInv'
      OBVIOUS
    <3>2. CASE UNCHANGED vars
      BY <3>1, <3>2 DEF vars, call_vars, modem_vars, NumberInv
    <3> QED
      BY <1>2, <3>1, <3>2, NumberUser, NumberMessage, NumberResources, NumberOfono
        DEF Next
  <2>3. NumberInv => OnlyEmergencyNumbers
    BY DEF NumberInv, OnlyEmergencyNumbers
  <2> QED
    BY <2>1, <2>2, <2>3, TypeStep, PTL DEF Spec
<1> QED
  BY <1>1, <1>2

-----------------------------------------------------------------------------
(* The order of what is on its way *)

\* The first message is handled: what it was on the way before, and what is left.
LEMMA HandledFacts ==
    ASSUME EmergencyTypeOK, OrderInv, NEW of, Receives(of)
    PROVE  /\ Sent(Part(Head(messages)))
           /\ \A x : Sent(x)' => Sent(x) /\ ~Clash(Part(Head(messages)), x)
           /\ \A x : Sent(x) /\ x # Part(Head(messages)) => Sent(x)'
           /\ \A x : Due(x) => ~Clash(Part(Head(messages)), x)
<1>1. /\ 1 \in DOMAIN messages /\ messages[1] = Head(messages)
      /\ \A i \in DOMAIN messages' :
            i + 1 \in DOMAIN messages /\ 1 < i + 1
            /\ messages'[i] = messages[i + 1]
      /\ \A i \in DOMAIN messages :
            i # 1 => i - 1 \in DOMAIN messages' /\ messages'[i - 1] = messages[i]
  BY ReceivesFacts
<1>2. Sent(Part(Head(messages)))
  BY <1>1 DEF Sent
<1>3. ASSUME NEW x, Sent(x)' PROVE Sent(x) /\ ~Clash(Part(Head(messages)), x)
  <2>1. PICK i \in DOMAIN messages' : Part(messages'[i]) = x
    BY <1>3 DEF Sent, Part
  <2>2. i + 1 \in DOMAIN messages /\ 1 < i + 1 /\ Part(messages[i + 1]) = x
    BY <1>1, <2>1
  <2> QED
    BY <1>1, <2>2 DEF Sent, OrderInv
<1>4. ASSUME NEW x, Sent(x), x # Part(Head(messages)) PROVE Sent(x)'
  <2>1. PICK i \in DOMAIN messages : Part(messages[i]) = x
    BY <1>4 DEF Sent
  <2>2. i - 1 \in DOMAIN messages' /\ Part(messages'[i - 1]) = x
    BY <1>1, <1>4, <2>1
  <2> QED
    BY <2>2 DEF Sent, Part
<1>5. ASSUME NEW x, Due(x) PROVE ~Clash(Part(Head(messages)), x)
  BY <1>1, <1>5 DEF Due, OrderInv
<1> QED
  BY <1>2, <1>3, <1>4, <1>5

\* What is left of the messages was among them, in the same order.
Shrinks ==
    \E d \in {0, 1} : \A i \in DOMAIN messages' :
        i \in Nat /\ i + d \in DOMAIN messages /\ messages'[i] = messages[i + d]

LEMMA ShrinksWhen ==
    ASSUME EmergencyTypeOK,
           UNCHANGED messages \/ \E of \in RequestKind \cup {"CallRemoved"} : Receives(of)
    PROVE  Shrinks
<1>1. messages \in Seq(Message) /\ DOMAIN messages \subseteq Nat
  BY DEF EmergencyTypeOK
<1>2. CASE UNCHANGED messages
  <2>1. \A i \in DOMAIN messages' :
          i \in Nat /\ i + 0 \in DOMAIN messages /\ messages'[i] = messages[i + 0]
    BY <1>1, <1>2
  <2> QED
    BY <2>1 DEF Shrinks
<1>3. ASSUME NEW of, Receives(of) PROVE Shrinks
  <2>1. /\ messages' \in Seq(Message)
        /\ \A i \in DOMAIN messages' :
              i + 1 \in DOMAIN messages /\ messages'[i] = messages[i + 1]
    BY <1>3, ReceivesFacts
  <2>2. \A i \in DOMAIN messages' :
          i \in Nat /\ i + 1 \in DOMAIN messages /\ messages'[i] = messages[i + 1]
    BY <2>1
  <2> QED
    BY <2>2 DEF Shrinks
<1> QED
  BY <1>2, <1>3

LEMMA OrderShrinks ==
    ASSUME EmergencyTypeOK, OrderInv, Shrinks, UNCHANGED requests PROVE OrderInv'
<1>1. PICK d \in {0, 1} : \A i \in DOMAIN messages' :
        i \in Nat /\ i + d \in DOMAIN messages /\ messages'[i] = messages[i + d]
  BY DEF Shrinks
<1>2. ASSUME NEW i \in DOMAIN messages', NEW j \in DOMAIN messages', i < j
      PROVE  ~Clash(Part(messages'[i]), Part(messages'[j]))
  <2>1. i + d < j + d
    BY <1>1, <1>2
  <2> QED
    BY <1>1, <2>1 DEF OrderInv
<1>3. ASSUME NEW i \in DOMAIN messages', NEW j \in DOMAIN requests'
      PROVE  ~Clash(Part(messages'[i]), requests'[j].of)
  BY <1>1 DEF OrderInv
<1>4. \A i, j \in DOMAIN requests' : i < j => ~Clash(requests'[i].of, requests'[j].of)
  BY DEF OrderInv
<1> QED
  BY <1>2, <1>3, <1>4 DEF OrderInv, Part

LEMMA OrderAsks ==
    ASSUME EmergencyTypeOK, OrderInv, Shrinks, NEW of \in RequestKind, Asks(of),
           \A x : Sent(x)' \/ Due(x) => ~Clash(x, of)
    PROVE  OrderInv'
<1>1. PICK d \in {0, 1} : \A i \in DOMAIN messages' :
        i \in Nat /\ i + d \in DOMAIN messages /\ messages'[i] = messages[i + d]
  BY DEF Shrinks
<1>2. /\ requests' = Append(requests, Asked(of)) /\ Asked(of) \in Request
      /\ Asked(of).of = of
  BY AskFacts DEF Asked
<1>3. /\ DOMAIN requests = 1 .. Len(requests)
      /\ DOMAIN requests' = 1 .. Len(requests) + 1
      /\ \A i \in DOMAIN requests : requests'[i] = requests[i]
      /\ requests'[Len(requests) + 1] = Asked(of) /\ Len(requests) \in Nat
  BY <1>2, AppendFacts DEF EmergencyTypeOK
<1>4. \A j \in DOMAIN requests' :
        \/ j \in DOMAIN requests /\ requests'[j] = requests[j]
        \/ j = Len(requests) + 1 /\ requests'[j].of = of
  BY <1>2, <1>3
<1>5. ASSUME NEW i \in DOMAIN messages', NEW j \in DOMAIN messages', i < j
      PROVE  ~Clash(Part(messages'[i]), Part(messages'[j]))
  <2>1. i + d < j + d
    BY <1>1, <1>5
  <2> QED
    BY <1>1, <2>1 DEF OrderInv
<1>6. ASSUME NEW i \in DOMAIN messages', NEW j \in DOMAIN requests'
      PROVE  ~Clash(Part(messages'[i]), requests'[j].of)
  <2>1. CASE j \in DOMAIN requests /\ requests'[j] = requests[j]
    BY <1>1, <2>1 DEF OrderInv
  <2>2. CASE requests'[j].of = of
    <3>1. PICK x : x = Part(messages'[i])
      OBVIOUS
    <3>2. Sent(x)'
      BY <3>1 DEF Sent, Part
    <3> QED
      BY <2>2, <3>1, <3>2
  <2> QED
    BY <1>4, <2>1, <2>2
<1>7. ASSUME NEW i \in DOMAIN requests', NEW j \in DOMAIN requests', i < j
      PROVE  ~Clash(requests'[i].of, requests'[j].of)
  <2>1. i \in DOMAIN requests /\ requests'[i] = requests[i]
    BY <1>3, <1>7
  <2>2. CASE j \in DOMAIN requests /\ requests'[j] = requests[j]
    BY <1>7, <2>1, <2>2 DEF OrderInv
  <2>3. CASE requests'[j].of = of
    <3>1. Due(requests[i].of)
      BY <2>1 DEF Due
    <3> QED
      BY <2>1, <2>3, <3>1
  <2> QED
    BY <1>4, <2>2, <2>3
<1> QED
  BY <1>5, <1>6, <1>7 DEF OrderInv, Part

\* What ofono sends follows what it has sent and comes before what is left to do.
LEMMA OrderSends ==
    ASSUME EmergencyTypeOK, OrderInv, NEW list \in Seq(Message),
           messages' = messages \o list,
           \A i, j \in DOMAIN requests' :
                i < j => ~Clash(requests'[i].of, requests'[j].of),
           \A i \in DOMAIN messages, j \in DOMAIN requests' :
                ~Clash(Part(messages[i]), requests'[j].of),
           \A i \in DOMAIN messages, j \in DOMAIN list :
                ~Clash(Part(messages[i]), Part(list[j])),
           \A i, j \in DOMAIN list : i < j => ~Clash(Part(list[i]), Part(list[j])),
           \A i \in DOMAIN list, j \in DOMAIN requests' :
                ~Clash(Part(list[i]), requests'[j].of)
    PROVE  OrderInv'
<1>1. /\ \A i \in DOMAIN messages :
            i \in DOMAIN messages' /\ messages'[i] = messages[i]
      /\ \A i \in DOMAIN messages' : i \notin DOMAIN messages =>
            /\ Len(messages) < i /\ i - Len(messages) \in DOMAIN list
            /\ messages'[i] = list[i - Len(messages)]
      /\ messages' \in Seq(Message)
  BY SendsFacts
<1>2. /\ DOMAIN messages = 1 .. Len(messages) /\ Len(messages) \in Nat
      /\ DOMAIN messages' \subseteq Nat
  BY <1>1 DEF EmergencyTypeOK
<1>3. ASSUME NEW i \in DOMAIN messages', NEW j \in DOMAIN messages', i < j
      PROVE  ~Clash(Part(messages'[i]), Part(messages'[j]))
  <2>1. CASE j \in DOMAIN messages
    <3>1. i \in DOMAIN messages
      BY <1>1, <1>2, <1>3, <2>1
    <3> QED
      BY <1>1, <1>3, <2>1, <3>1 DEF OrderInv
  <2>2. CASE j \notin DOMAIN messages /\ i \in DOMAIN messages
    BY <1>1, <2>2
  <2>3. CASE j \notin DOMAIN messages /\ i \notin DOMAIN messages
    <3>1. i - Len(messages) < j - Len(messages)
      BY <1>2, <1>3
    <3> QED
      BY <1>1, <2>3, <3>1
  <2> QED
    BY <2>1, <2>2, <2>3
<1>4. ASSUME NEW i \in DOMAIN messages', NEW j \in DOMAIN requests'
      PROVE  ~Clash(Part(messages'[i]), requests'[j].of)
  <2>1. CASE i \in DOMAIN messages
    BY <1>1, <2>1
  <2>2. CASE i \notin DOMAIN messages
    BY <1>1, <2>2
  <2> QED
    BY <2>1, <2>2
<1> QED
  BY <1>3, <1>4 DEF OrderInv, Part

\* The next request is taken: what was due before, and what still is.
LEMMA TakenOrder ==
    ASSUME EmergencyTypeOK, OrderInv, OfonoAnswers
    PROVE  /\ Due(Head(requests).of)
           /\ \A x : Due(x)' => Due(x) /\ ~Clash(Head(requests).of, x)
           /\ \A x : Due(x) /\ x # Head(requests).of => Due(x)'
           /\ \A x : Sent(x) => ~Clash(x, Head(requests).of)
           /\ \A i, j \in DOMAIN requests' :
                i < j => ~Clash(requests'[i].of, requests'[j].of)
           /\ \A i \in DOMAIN messages, j \in DOMAIN requests' :
                ~Clash(Part(messages[i]), requests'[j].of)
<1>1. /\ 1 \in DOMAIN requests /\ Head(requests) = requests[1]
      /\ \A i \in DOMAIN requests' :
            i + 1 \in DOMAIN requests /\ 1 < i + 1 /\ requests'[i] = requests[i + 1]
      /\ requests' \in Seq(Request)
  BY TakenFacts DEF Taken
<1>2. \A i \in DOMAIN requests : i # 1 =>
        i - 1 \in DOMAIN requests' /\ requests'[i - 1] = requests[i]
  BY TakenFacts, TailFacts DEF Taken, EmergencyTypeOK
<1>3. Due(Head(requests).of)
  BY <1>1 DEF Due
<1>4. ASSUME NEW x, Due(x)' PROVE Due(x) /\ ~Clash(Head(requests).of, x)
  <2>1. PICK i \in DOMAIN requests' : requests'[i].of = x
    BY <1>4 DEF Due
  <2>2. i + 1 \in DOMAIN requests /\ 1 < i + 1 /\ requests[i + 1].of = x
    BY <1>1, <2>1
  <2> QED
    BY <1>1, <2>2 DEF Due, OrderInv
<1>5. ASSUME NEW x, Due(x), x # Head(requests).of PROVE Due(x)'
  <2>1. PICK i \in DOMAIN requests : requests[i].of = x
    BY <1>5 DEF Due
  <2>2. i - 1 \in DOMAIN requests' /\ requests'[i - 1].of = x
    BY <1>1, <1>2, <1>5, <2>1
  <2> QED
    BY <2>2 DEF Due
<1>6. ASSUME NEW x, Sent(x) PROVE ~Clash(x, Head(requests).of)
  BY <1>1, <1>6 DEF Sent, OrderInv
<1>7. ASSUME NEW i \in DOMAIN requests', NEW j \in DOMAIN requests', i < j
      PROVE  ~Clash(requests'[i].of, requests'[j].of)
  <2>1. i + 1 < j + 1
    BY <1>1, <1>7
  <2> QED
    BY <1>1, <2>1 DEF OrderInv
<1>8. ASSUME NEW i \in DOMAIN messages, NEW j \in DOMAIN requests'
      PROVE  ~Clash(Part(messages[i]), requests'[j].of)
  BY <1>1 DEF OrderInv
<1> QED
  BY <1>3, <1>4, <1>5, <1>6, <1>7, <1>8

\* The answer takes the place of the request.
LEMMA OrderAnswers ==
    ASSUME EmergencyTypeOK, OrderInv, OfonoAnswers,
           NEW result \in Result \ {"in_progress"},
           messages' = messages \o <<Reply(Head(requests).of, result)>>
    PROVE  /\ OrderInv'
           /\ \A x : Sent(x)' <=> Sent(x) \/ x = Head(requests).of
<1> DEFINE of == Head(requests).of  m == Reply(of, result)
<1>1. of \in RequestKind
  BY TakenFacts DEF Taken, Request
<1>2. m \in Message /\ Part(m) = of
  BY <1>1, Replies DEF Part
<1>3. /\ \A x : Due(x)' => Due(x) /\ ~Clash(of, x)
      /\ \A x : Sent(x) => ~Clash(x, of)
      /\ \A i, j \in DOMAIN requests' :
            i < j => ~Clash(requests'[i].of, requests'[j].of)
      /\ \A i \in DOMAIN messages, j \in DOMAIN requests' :
            ~Clash(Part(messages[i]), requests'[j].of)
  BY TakenOrder
<1>4. messages' = messages \o <<m>>
  OBVIOUS
<1> HIDE DEF of, m
<1>5. /\ <<m>> \in Seq(Message) /\ DOMAIN <<m>> = {1} /\ <<m>>[1] = m
  BY <1>2, Lists
<1>6. ASSUME NEW j \in DOMAIN requests' PROVE ~Clash(of, requests'[j].of)
  <2>1. PICK x : x = requests'[j].of
    OBVIOUS
  <2>2. Due(x)'
    BY <2>1 DEF Due
  <2> QED
    BY <1>3, <2>1, <2>2
<1>7. \A i \in DOMAIN messages : ~Clash(Part(messages[i]), of)
  BY <1>3 DEF Sent
<1>8. \A i, j \in DOMAIN <<m>> : i < j => ~Clash(Part(<<m>>[i]), Part(<<m>>[j]))
  BY <1>5
<1>9. /\ \A i \in DOMAIN messages, j \in DOMAIN <<m>> :
            ~Clash(Part(messages[i]), Part(<<m>>[j]))
      /\ \A i \in DOMAIN <<m>>, j \in DOMAIN requests' :
            ~Clash(Part(<<m>>[i]), requests'[j].of)
  BY <1>2, <1>5, <1>6, <1>7
<1>10. OrderInv'
  BY <1>3, <1>4, <1>5, <1>8, <1>9, OrderSends
<1>11. \A x : Sent(x)' <=> Sent(x) \/ x = of
  BY <1>2, <1>4, OneSent
<1> QED
  BY <1>10, <1>11 DEF of

\* The end of a call that is hung up comes before the answer.
LEMMA OrderHangsUp ==
    ASSUME EmergencyTypeOK, OrderInv, OfonoAnswers, HangsUpCall,
           ~Sent("CallRemoved"), ~Sent("hangup"), ~Due("dial"), ~Due("modems")
    PROVE  /\ OrderInv'
           /\ \A x : Sent(x)' <=> Sent(x) \/ x \in {"CallRemoved", "hangup"}
<1> DEFINE m == Reply("CallRemoved", "ok")  n == Reply("hangup", "ok")
<1>1. m \in Message /\ n \in Message /\ Part(m) = "CallRemoved" /\ Part(n) = "hangup"
  BY Replies DEF Part, RequestKind, Result
<1>2. messages' = messages \o <<m, n>> /\ Head(requests).of = "hangup"
  BY DEF HangsUpCall
<1> HIDE DEF m, n
<1>3. <<m, n>> \in Seq(Message) /\ DOMAIN <<m, n>> = {1, 2}
      /\ <<m, n>>[1] = m /\ <<m, n>>[2] = n
  BY <1>1, Lists
<1>4. /\ \A x : Due(x)' => Due(x) /\ ~Clash("hangup", x)
      /\ \A x : Sent(x) => ~Clash(x, "hangup")
      /\ \A i, j \in DOMAIN requests' :
            i < j => ~Clash(requests'[i].of, requests'[j].of)
      /\ \A i \in DOMAIN messages, j \in DOMAIN requests' :
            ~Clash(Part(messages[i]), requests'[j].of)
  BY <1>2, TakenOrder
<1>5. ASSUME NEW j \in DOMAIN requests'
      PROVE  ~Clash("hangup", requests'[j].of) /\ ~Clash("CallRemoved", requests'[j].of)
  <2>1. PICK x : x = requests'[j].of
    OBVIOUS
  <2>2. Due(x)'
    BY <2>1 DEF Due
  <2>3. Due(x) /\ ~Clash("hangup", x)
    BY <1>4, <2>2
  <2>4. requests' \in Seq(Request)
    BY TakenFacts
  <2>5. x # "CallRemoved"
    <3>1. requests'[j] \in Request
      BY <2>4
    <3> QED
      BY <2>1, <3>1 DEF Request, RequestKind
  <2> QED
    BY <2>1, <2>3, <2>5 DEF Clash
<1>6. \A i \in DOMAIN messages :
        ~Clash(Part(messages[i]), "hangup") /\ ~Clash(Part(messages[i]), "CallRemoved")
  <2>1. ASSUME NEW i \in DOMAIN messages
        PROVE  Part(messages[i]) # "hangup" /\ Part(messages[i]) # "CallRemoved"
    BY DEF Sent
  <2> QED
    BY <2>1 DEF Clash
<1>7. \A i, j \in DOMAIN <<m, n>> : i < j => ~Clash(Part(<<m, n>>[i]), Part(<<m, n>>[j]))
  <2>1. ~Clash("CallRemoved", "hangup")
    BY DEF Clash
  <2> QED
    BY <1>1, <1>3, <2>1
<1>8. /\ \A i \in DOMAIN messages, j \in DOMAIN <<m, n>> :
            ~Clash(Part(messages[i]), Part(<<m, n>>[j]))
      /\ \A i \in DOMAIN <<m, n>>, j \in DOMAIN requests' :
            ~Clash(Part(<<m, n>>[i]), requests'[j].of)
  BY <1>1, <1>3, <1>5, <1>6
<1>9. OrderInv'
  BY <1>2, <1>3, <1>4, <1>7, <1>8, OrderSends
<1>10. \A x : Sent(x)' <=> Sent(x) \/ x \in {"CallRemoved", "hangup"}
  BY <1>1, <1>2, TwoSent
<1> QED
  BY <1>9, <1>10

\* The end of a call that the other end has ended.
LEMMA OrderEnds ==
    ASSUME EmergencyTypeOK, OrderInv, OtherEndEnds,
           ~Sent("CallRemoved"), ~Sent("hangup"), ~Due("dial"), ~Due("modems")
    PROVE  /\ OrderInv'
           /\ \A x : Sent(x)' <=> Sent(x) \/ x = "CallRemoved"
<1> DEFINE m == Reply("CallRemoved", "ok")
<1>1. m \in Message /\ Part(m) = "CallRemoved"
  BY Replies DEF Part, RequestKind, Result
<1>2. messages' = messages \o <<m>> /\ UNCHANGED requests
  BY DEF OtherEndEnds, Sends, Removal
<1> HIDE DEF m
<1>3. <<m>> \in Seq(Message) /\ DOMAIN <<m>> = {1} /\ <<m>>[1] = m
  BY <1>1, Lists
<1>4. ASSUME NEW j \in DOMAIN requests' PROVE ~Clash("CallRemoved", requests'[j].of)
  <2>1. requests'[j].of # "dial" /\ requests'[j].of # "modems"
    BY <1>2 DEF Due
  <2>2. requests'[j].of # "CallRemoved"
    <3>1. requests'[j] \in Request
      BY <1>2 DEF EmergencyTypeOK
    <3> QED
      BY <3>1 DEF Request, RequestKind
  <2> QED
    BY <2>1, <2>2 DEF Clash
<1>5. \A i \in DOMAIN messages : ~Clash(Part(messages[i]), "CallRemoved")
  <2>1. ASSUME NEW i \in DOMAIN messages
        PROVE  Part(messages[i]) # "hangup" /\ Part(messages[i]) # "CallRemoved"
    BY DEF Sent
  <2> QED
    BY <2>1 DEF Clash
<1>6. /\ \A i, j \in DOMAIN requests' :
            i < j => ~Clash(requests'[i].of, requests'[j].of)
      /\ \A i \in DOMAIN messages, j \in DOMAIN requests' :
            ~Clash(Part(messages[i]), requests'[j].of)
  BY <1>2 DEF OrderInv
<1>7. /\ \A i, j \in DOMAIN <<m>> : i < j => ~Clash(Part(<<m>>[i]), Part(<<m>>[j]))
      /\ \A i \in DOMAIN messages, j \in DOMAIN <<m>> :
            ~Clash(Part(messages[i]), Part(<<m>>[j]))
      /\ \A i \in DOMAIN <<m>>, j \in DOMAIN requests' :
            ~Clash(Part(<<m>>[i]), requests'[j].of)
  BY <1>1, <1>3, <1>4, <1>5
<1>8. OrderInv'
  BY <1>2, <1>3, <1>6, <1>7, OrderSends
<1>9. \A x : Sent(x)' <=> Sent(x) \/ x = "CallRemoved"
  BY <1>1, <1>2, OneSent
<1> QED
  BY <1>8, <1>9

\* A refusal as busy overtakes, and nothing depends on it.
LEMMA OrderBusy ==
    ASSUME EmergencyTypeOK, OrderInv, OfonoIsBusy
    PROVE  /\ OrderInv'
           /\ Due("online")
           /\ \A x : Sent(x)' <=> Sent(x) \/ x = "busy"
           /\ \A x : Due(x)' => Due(x)
           /\ \A x : Due(x) /\ x # "online" => Due(x)'
<1> DEFINE m == Reply("online", "in_progress")
<1>1. m \in Message /\ Part(m) = "busy"
  BY Replies DEF Part, RequestKind, Result
<1>2. messages' = messages \o <<m>> /\ requests' \in Seq(Request)
  BY BusyFacts
<1> HIDE DEF m
<1>3. <<m>> \in Seq(Message) /\ DOMAIN <<m>> = {1} /\ <<m>>[1] = m
  BY <1>1, Lists
<1>4. PICK j \in DOMAIN requests :
        /\ requests[j].of = "online"
        /\ \A k \in DOMAIN requests' :
              /\ k < j => k \in DOMAIN requests /\ requests'[k] = requests[k]
              /\ k >= j => k + 1 \in DOMAIN requests /\ requests'[k] = requests[k + 1]
        /\ \A k \in DOMAIN requests :
              /\ k < j => k \in DOMAIN requests' /\ requests'[k] = requests[k]
              /\ k > j => k - 1 \in DOMAIN requests' /\ requests'[k - 1] = requests[k]
  BY BusyFacts
<1>5. j \in Nat /\ DOMAIN requests' \subseteq Nat /\ DOMAIN requests \subseteq Nat
  BY <1>2 DEF EmergencyTypeOK
<1> DEFINE f(k) == IF k < j THEN k ELSE k + 1
<1>6. /\ \A k \in DOMAIN requests' : f(k) \in DOMAIN requests /\ requests'[k] = requests[f(k)]
      /\ \A k, l \in DOMAIN requests' : k < l => f(k) < f(l)
  BY <1>4, <1>5
<1> HIDE DEF f
<1>7. /\ \A k, l \in DOMAIN requests' :
            k < l => ~Clash(requests'[k].of, requests'[l].of)
      /\ \A k \in DOMAIN messages, l \in DOMAIN requests' :
            ~Clash(Part(messages[k]), requests'[l].of)
  BY <1>6 DEF OrderInv
<1>8. \A x : ~Clash(x, "busy")
  BY DEF Clash
<1>9. \A k \in DOMAIN requests' : ~Clash("busy", requests'[k].of)
  BY DEF Clash
<1>10. /\ \A k, l \in DOMAIN <<m>> : k < l => ~Clash(Part(<<m>>[k]), Part(<<m>>[l]))
       /\ \A k \in DOMAIN messages, l \in DOMAIN <<m>> :
             ~Clash(Part(messages[k]), Part(<<m>>[l]))
       /\ \A k \in DOMAIN <<m>>, l \in DOMAIN requests' :
             ~Clash(Part(<<m>>[k]), requests'[l].of)
  BY <1>1, <1>3, <1>8, <1>9
<1>11. OrderInv'
  BY <1>2, <1>3, <1>7, <1>10, OrderSends
<1>12. \A x : Sent(x)' <=> Sent(x) \/ x = "busy"
  BY <1>1, <1>2, OneSent
<1>13. \A x : Due(x)' => Due(x)
  BY <1>6 DEF Due
<1>14. ASSUME NEW x, Due(x), x # "online" PROVE Due(x)'
  <2>1. PICK k \in DOMAIN requests : requests[k].of = x
    BY <1>14 DEF Due
  <2>2. k # j /\ (k < j \/ k > j)
    BY <1>4, <1>5, <1>14, <2>1
  <2> QED
    BY <1>4, <2>1, <2>2 DEF Due
<1>15. Due("online")
  BY <1>4 DEF Due
<1> QED
  BY <1>11, <1>12, <1>13, <1>14, <1>15

-----------------------------------------------------------------------------
(* What ofono may answer *)

LEMMA AnswerShrinks ==
    ASSUME AnswerInv, Shrinks
    PROVE  AnswerInv' /\ (DialFails' => DialFails)
<1>1. PICK d \in {0, 1} : \A i \in DOMAIN messages' :
        i \in Nat /\ i + d \in DOMAIN messages /\ messages'[i] = messages[i + d]
  BY DEF Shrinks
<1>2. AnswerInv'
  BY <1>1 DEF AnswerInv
<1>3. DialFails' => DialFails
  BY <1>1 DEF DialFails
<1> QED
  BY <1>2, <1>3

\* A message that ofono may send.
Answers(m) ==
    /\ m.result = "in_progress" => m.of = "online"
    /\ m.result = "error" => m.of \in {"modems", "dial"}
    /\ m.result = "invalid" => m.of = "modems"

LEMMA AnswerSends ==
    ASSUME EmergencyTypeOK, AnswerInv, NEW m \in Message, Answers(m),
           messages' = messages \o <<m>>
    PROVE  /\ AnswerInv'
           /\ DialFails' => DialFails \/ (m.of = "dial" /\ m.result = "error")
<1>1. <<m>> \in Seq(Message) /\ DOMAIN <<m>> = {1} /\ <<m>>[1] = m
  BY Lists
<1>2. \A i \in DOMAIN messages' :
        \/ i \in DOMAIN messages /\ messages'[i] = messages[i]
        \/ messages'[i] = m
  BY <1>1, SendsFacts
<1>3. AnswerInv'
  BY <1>2 DEF AnswerInv, Answers
<1>4. DialFails' => DialFails \/ (m.of = "dial" /\ m.result = "error")
  BY <1>2 DEF DialFails
<1> QED
  BY <1>3, <1>4

LEMMA AnswerSendsTwo ==
    ASSUME EmergencyTypeOK, AnswerInv, HangsUpCall
    PROVE  AnswerInv' /\ (DialFails' => DialFails)
<1> DEFINE m == Reply("CallRemoved", "ok")  n == Reply("hangup", "ok")
<1>1. m \in Message /\ n \in Message /\ m.result = "ok" /\ n.result = "ok"
  BY Replies DEF RequestKind, Result
<1>2. messages' = messages \o <<m, n>>
  BY DEF HangsUpCall
<1> HIDE DEF m, n
<1>3. <<m, n>> \in Seq(Message) /\ DOMAIN <<m, n>> = {1, 2}
      /\ <<m, n>>[1] = m /\ <<m, n>>[2] = n
  BY <1>1, Lists
<1>4. \A i \in DOMAIN messages' :
        \/ i \in DOMAIN messages /\ messages'[i] = messages[i]
        \/ messages'[i].result = "ok"
  BY <1>1, <1>2, <1>3, SendsFacts
<1>5. AnswerInv'
  BY <1>4 DEF AnswerInv
<1>6. DialFails' => DialFails
  BY <1>4 DEF DialFails
<1> QED
  BY <1>5, <1>6

\* What the first message may be.
LEMMA HeadAnswers ==
    ASSUME EmergencyTypeOK, AnswerInv, NEW of, Receives(of)
    PROVE  /\ of \in {"online", "numbers", "hangup", "CallRemoved"} => ~Got("error")
           /\ Part(Head(messages)) = IF Got("in_progress") THEN "busy" ELSE of
           /\ of # "online" => ~Got("in_progress")
           /\ of = "dial" /\ Got("error") => DialFails
<1>1. 1 \in DOMAIN messages /\ messages[1] = Head(messages) /\ Head(messages).of = of
  BY ReceivesFacts
<1> QED
  BY <1>1 DEF AnswerInv, Got, Part, DialFails

LEMMA HangingUpIs ==
    ASSUME AnswerInv PROVE HangingUp <=> OnItsWay("hangup")
  BY DEF AnswerInv, HangingUp, OnItsWay, Sent, Due, Part

\* What does not change on the way.
LEMMA SameWay ==
    /\ UNCHANGED messages =>
        (\A x : Sent(x)' <=> Sent(x)) /\ (AnswerInv' <=> AnswerInv)
        /\ (DialFails' <=> DialFails)
    /\ UNCHANGED requests => \A x : Due(x)' <=> Due(x)
<1>1. ASSUME UNCHANGED messages
      PROVE  (\A x : Sent(x)' <=> Sent(x)) /\ (AnswerInv' <=> AnswerInv)
             /\ (DialFails' <=> DialFails)
  BY <1>1 DEF Sent, Part, AnswerInv, DialFails
<1>2. ASSUME UNCHANGED requests PROVE \A x : Due(x)' <=> Due(x)
  BY <1>2 DEF Due
<1> QED
  BY <1>1, <1>2

-----------------------------------------------------------------------------
(* The call is under control *)


\* A call is ended: it is to be hung up, or its preparations are stopped.
LEMMA ControlEnds ==
    ASSUME EmergencyTypeOK, ControlInv, UNCHANGED messages, endCall,
           UNCHANGED <<voiceCallManager, callObjectPath, phoneNumber, talking>>,
           emergencyMode' => emergencyMode
    PROVE  ControlInv'
<1>1. /\ \A x : Sent(x)' <=> Sent(x)
      /\ AnswerInv' /\ (DialFails' <=> DialFails)
  BY SameWay DEF ControlInv
<1>2. CASE Calling
  <2>1. Asks("hangup") /\ UNCHANGED ofonoStatus /\ loud' = FALSE
    BY <1>2 DEF endCall, hangUp, calling, Calling
  <2>2. /\ OrderInv' /\ \A x : Due(x)' <=> Due(x) \/ x = "hangup"
    <3>1. \A x : ~Clash(x, "hangup")
      BY DEF Clash
    <3> QED
      BY <2>1, <3>1, ShrinksWhen, OrderAsks, AskFacts DEF ControlInv, RequestKind
  <2>3. voiceCallManager /\ ~OnItsWay("modems")
    BY <1>2 DEF ControlInv, ModemInv, Calling
  <2>4. ModemInv'
    BY <1>1, <2>1, <2>2, <2>3 DEF ModemInv, OnItsWay
  <2>5. StateInv'
    BY <1>1, <1>2, <2>1, <2>2
      DEF ControlInv, StateInv, OnItsWay, HasPath, Calling, Preparing
  <2> QED
    BY <1>1, <2>2, <2>4, <2>5 DEF ControlInv
<1>3. CASE ~Calling
  <2>1. /\ UNCHANGED requests
        /\ ofonoStatus' = IF Preparing THEN "OfonoIdle" ELSE ofonoStatus
        /\ loud' = IF Preparing THEN FALSE ELSE loud
    BY <1>3 DEF endCall, hangUp, calling, Calling, Preparing
  <2>2. OrderInv' /\ \A x : Due(x)' <=> Due(x)
    BY <2>1, ShrinksWhen, OrderShrinks, SameWay DEF ControlInv
  <2>3. ModemInv'
    BY <1>1, <2>1, <2>2 DEF ControlInv, ModemInv, OnItsWay, Preparing
  <2>4. StateInv'
    BY <1>1, <1>3, <2>1, <2>2
      DEF ControlInv, StateInv, OnItsWay, HasPath, Calling, Preparing
  <2> QED
    BY <1>1, <2>2, <2>3, <2>4 DEF ControlInv
<1> QED
  BY <1>2, <1>3

LEMMA ControlStarts ==
    ASSUME LosesCall \cap Fault = {}, EmergencyTypeOK, ControlInv,
           NEW number \in Number, KeyStartsCall(number)
    PROVE  ControlInv'
<1>1. /\ ~calling /\ ~HangingUp /\ emergencyMode
      /\ ofonoStatus' = "OfonoInitializing"
      /\ Asks(IF voiceCallManager THEN "online" ELSE "modems")
      /\ UNCHANGED <<emergencyMode, voiceCallManager, callObjectPath, messages,
                     talking, loud>>
  BY DEF KeyStartsCall, LosesCall, makeCall, Becomes, setEmergencyCallStatus
<1>2. /\ \A x : Sent(x)' <=> Sent(x)
      /\ AnswerInv' /\ (DialFails' <=> DialFails)
  BY <1>1, SameWay DEF ControlInv
<1>3. /\ ~OnItsWay("hangup") /\ ~Calling
  BY <1>1, HangingUpIs DEF ControlInv, calling, Calling
<1> DEFINE of == IF voiceCallManager THEN "online" ELSE "modems"
<1>4. of \in RequestKind /\ Asks(of)
  BY <1>1 DEF RequestKind
<1>5. \A x : Due(x)' <=> Due(x) \/ x = of
  BY <1>4, AskFacts
<1>6. \A x \in RequestKind \cup {"CallRemoved", "busy"} :
        Sent(x)' \/ Due(x) => ~Clash(x, of)
  BY <1>2 DEF Clash, ControlInv, ModemInv, OnItsWay
<1>7. \A x : Sent(x) \/ Due(x) => x \in RequestKind \cup {"CallRemoved", "busy"}
  <2>1. \A i \in DOMAIN messages : messages[i] \in Message
    BY DEF EmergencyTypeOK
  <2>2. \A i \in DOMAIN requests : requests[i] \in Request
    BY DEF EmergencyTypeOK
  <2>3. \A i \in DOMAIN messages :
          Part(messages[i]) \in RequestKind \cup {"CallRemoved", "busy"}
    BY <2>1 DEF Message, Part
  <2>4. \A i \in DOMAIN requests : requests[i].of \in RequestKind
    BY <2>2 DEF Request
  <2> QED
    BY <2>3, <2>4 DEF Sent, Due
<1>8. OrderInv'
  <2>1. \A x : Sent(x)' \/ Due(x) => ~Clash(x, of)
    BY <1>2, <1>6, <1>7
  <2> QED
    BY <1>1, <1>4, <2>1, ShrinksWhen, OrderAsks DEF ControlInv
<1>9. ModemInv'
  BY <1>1, <1>2, <1>5 DEF ControlInv, ModemInv, OnItsWay
<1>10. StateInv'
  BY <1>1, <1>2, <1>3, <1>5
    DEF ControlInv, StateInv, OnItsWay, HasPath, Calling, Preparing
<1> QED
  BY <1>2, <1>8, <1>9, <1>10 DEF ControlInv

LEMMA ControlUser ==
    ASSUME LosesCall \cap Fault = {}, EmergencyTypeOK, ControlInv, User \/ TimerLeaves
    PROVE  ControlInv'
<1>1. ASSUME UNCHANGED <<call_vars, modem_vars, loud>>,
             emergencyMode' \/ UNCHANGED emergencyMode
      PROVE  ControlInv'
  <2>1. /\ \A x : Sent(x)' <=> Sent(x)
        /\ \A x : Due(x)' <=> Due(x)
        /\ AnswerInv' /\ (DialFails' <=> DialFails)
    BY <1>1, SameWay DEF ControlInv, modem_vars
  <2>2. OrderInv'
    BY <1>1, ShrinksWhen, OrderShrinks DEF ControlInv, modem_vars
  <2>3. ModemInv'
    BY <1>1, <2>1 DEF ControlInv, ModemInv, OnItsWay, call_vars
  <2>4. StateInv'
    BY <1>1, <2>1 DEF ControlInv, StateInv, OnItsWay, HasPath, Calling, Preparing,
      call_vars, modem_vars
  <2> QED
    BY <2>1, <2>2, <2>3, <2>4 DEF ControlInv
<1>2. CASE EnterEmergencyMode
  BY <1>1, <1>2 DEF EnterEmergencyMode
<1>3. CASE KeyEndsCall
  BY <1>3, ControlEnds DEF KeyEndsCall, ui_vars, setEmergencyCallStatus
<1>4. CASE LeaveEmergencyMode
  BY <1>4, ControlEnds DEF LeaveEmergencyMode
<1>5. CASE KeyTypes
  BY <1>1, <1>5 DEF KeyTypes
<1>6. ASSUME NEW number \in Number, KeyStartsCall(number) PROVE ControlInv'
  BY <1>6, ControlStarts
<1> QED
  BY <1>2, <1>3, <1>4, <1>5, <1>6 DEF User, TimerLeaves, KeyLeaves

\* A message is handled.
LEMMA Received ==
    ASSUME EmergencyTypeOK, ControlInv,
           NEW of \in RequestKind \cup {"CallRemoved"}, Receives(of)
    PROVE  /\ Shrinks /\ AnswerInv' /\ (DialFails' => DialFails)
           /\ \A x : Sent(x)' => Sent(x)
           /\ \A x : Sent(x) /\ x \notin {of, "busy"} => Sent(x)'
           /\ ~Got("in_progress") =>
                Sent(of) /\ \A x : Sent(x)' \/ Due(x) => ~Clash(of, x)
           /\ of # "online" => ~Got("in_progress")
           /\ of \in {"online", "numbers", "hangup", "CallRemoved"} => ~Got("error")
           /\ of = "dial" /\ Got("error") => DialFails
<1>1. /\ of \in {"online", "numbers", "hangup", "CallRemoved"} => ~Got("error")
      /\ Part(Head(messages)) = IF Got("in_progress") THEN "busy" ELSE of
      /\ of # "online" => ~Got("in_progress")
      /\ of = "dial" /\ Got("error") => DialFails
  BY HeadAnswers DEF ControlInv
<1>2. /\ Sent(Part(Head(messages)))
      /\ \A x : Sent(x)' => Sent(x) /\ ~Clash(Part(Head(messages)), x)
      /\ \A x : Sent(x) /\ x # Part(Head(messages)) => Sent(x)'
      /\ \A x : Due(x) => ~Clash(Part(Head(messages)), x)
  BY HandledFacts DEF ControlInv
<1>3. Shrinks
  BY ShrinksWhen
<1>4. AnswerInv' /\ (DialFails' => DialFails)
  BY <1>3, AnswerShrinks DEF ControlInv
<1> QED
  BY <1>1, <1>2, <1>3, <1>4

\* A message is handled and nothing is asked for.
LEMMA ReceivedOnly ==
    ASSUME EmergencyTypeOK, ControlInv, UNCHANGED requests,
           NEW of \in RequestKind \cup {"CallRemoved"}, Receives(of)
    PROVE  OrderInv' /\ \A x : Due(x)' <=> Due(x)
  BY Received, OrderShrinks, SameWay DEF ControlInv

LEMMA ControlModem ==
    ASSUME EmergencyTypeOK, ControlInv, handleModemPath PROVE ControlInv'
<1>1. /\ Receives("modems") /\ "modems" \in RequestKind \cup {"CallRemoved"}
      /\ UNCHANGED <<callObjectPath, phoneNumber, talking, loud, emergencyMode>>
  BY DEF handleModemPath, Becomes, StaysAsItIs, ui_vars, setEmergencyCallStatus,
    RequestKind
<1>2. /\ Shrinks /\ AnswerInv' /\ (DialFails' => DialFails)
      /\ \A x : Sent(x)' => Sent(x)
      /\ \A x : Sent(x) /\ x \notin {"modems", "busy"} => Sent(x)'
      /\ Sent("modems")
  BY <1>1, Received
<1>3. ~Calling /\ ofonoStatus # "OfonoReady"
  BY <1>2 DEF ControlInv, ModemInv, OnItsWay, Calling
<1>4. CASE voiceCallManager' = TRUE /\ Asks("online") /\ StaysAsItIs
  <2>1. \A x : ~Clash(x, "online")
    BY DEF Clash
  <2>2. /\ OrderInv' /\ \A x : Due(x)' <=> Due(x) \/ x = "online"
    BY <1>2, <1>4, <2>1, OrderAsks, AskFacts DEF ControlInv, RequestKind
  <2>3. ModemInv'
    BY <1>2, <1>3, <1>4, <2>2 DEF ControlInv, ModemInv, StaysAsItIs, Calling
  <2>4. StateInv'
    BY <1>1, <1>2, <1>3, <1>4, <2>2
      DEF ControlInv, StateInv, OnItsWay, HasPath, Calling, Preparing, StaysAsItIs
  <2> QED
    BY <1>2, <2>2, <2>3, <2>4 DEF ControlInv
<1>5. CASE /\ UNCHANGED <<voiceCallManager, requests>>
           /\ ofonoStatus' \in {ofonoStatus, "OfonoError"}
  <2>1. OrderInv' /\ \A x : Due(x)' <=> Due(x)
    BY <1>1, <1>5, ReceivedOnly
  <2>2. ModemInv'
    BY <1>2, <1>3, <1>5, <2>1 DEF ControlInv, ModemInv, OnItsWay, Calling
  <2>3. StateInv'
    BY <1>1, <1>2, <1>3, <1>5, <2>1
      DEF ControlInv, StateInv, OnItsWay, HasPath, Calling, Preparing
  <2> QED
    BY <1>2, <2>1, <2>2, <2>3 DEF ControlInv
<1> QED
  BY <1>4, <1>5 DEF handleModemPath, Becomes, StaysAsItIs

LEMMA ControlOnline ==
    ASSUME EmergencyTypeOK, ControlInv, handleModemOnline PROVE ControlInv'
<1>1. /\ Receives("online") /\ "online" \in RequestKind \cup {"CallRemoved"}
      /\ UNCHANGED <<voiceCallManager, callObjectPath, phoneNumber, talking, loud>>
  BY DEF handleModemOnline, RequestKind
<1>2. /\ Shrinks /\ AnswerInv' /\ (DialFails' => DialFails)
      /\ \A x : Sent(x)' => Sent(x)
      /\ \A x : Sent(x) /\ x \notin {"online", "busy"} => Sent(x)'
      /\ ~Got("error") /\ (~Got("in_progress") => Sent("online"))
  BY <1>1, Received
<1>3. UNCHANGED <<ofonoStatus, emergencyMode>>
  BY <1>2 DEF handleModemOnline, StaysAsItIs, ui_vars
<1>4. CASE Got("ok") /\ Asks("numbers")
  <2>1. \A x : ~Clash(x, "numbers")
    BY DEF Clash
  <2>2. /\ OrderInv' /\ \A x : Due(x)' <=> Due(x) \/ x = "numbers"
    BY <1>2, <1>4, <2>1, OrderAsks, AskFacts DEF ControlInv, RequestKind
  <2>3. Sent("online")
    BY <1>2, <1>4 DEF Got
  <2>4. voiceCallManager
    BY <2>3 DEF ControlInv, ModemInv, OnItsWay, RequestKind
  <2>5. ModemInv'
    BY <1>1, <1>2, <1>3, <2>2, <2>4 DEF ControlInv, ModemInv, OnItsWay
  <2>6. StateInv'
    BY <1>1, <1>2, <1>3, <2>2
      DEF ControlInv, StateInv, OnItsWay, HasPath, Calling, Preparing
  <2> QED
    BY <1>2, <2>2, <2>5, <2>6 DEF ControlInv
<1>5. CASE UNCHANGED requests
  <2>1. OrderInv' /\ \A x : Due(x)' <=> Due(x)
    BY <1>1, <1>5, ReceivedOnly
  <2>2. ModemInv'
    BY <1>1, <1>2, <1>3, <2>1 DEF ControlInv, ModemInv, OnItsWay
  <2>3. StateInv'
    BY <1>1, <1>2, <1>3, <2>1
      DEF ControlInv, StateInv, OnItsWay, HasPath, Calling, Preparing
  <2> QED
    BY <1>2, <2>1, <2>2, <2>3 DEF ControlInv
<1> QED
  BY <1>4, <1>5 DEF handleModemOnline

\* A call is dialled only while nothing of another one is on its way.
LEMMA ControlDials ==
    ASSUME EmergencyTypeOK, ControlInv, Shrinks, AnswerInv', DialFails' => DialFails,
           \A x : Sent(x)' => Sent(x),
           Preparing, voiceCallManager, phoneNumber # "other",
           ~Sent("modems")', ~Due("modems"),
           ofonoStatus' = "OfonoCalling", Asks("dial"),
           UNCHANGED <<voiceCallManager, callObjectPath, phoneNumber, talking,
                       emergencyMode>>
    PROVE  ControlInv'
<1>1. /\ ~OnItsWay("hangup") /\ ~OnItsWay("dial") /\ ~Sent("CallRemoved")
      /\ talking = "none" /\ ~callObjectPath /\ emergencyMode /\ ~Calling
  BY DEF ControlInv, StateInv, Preparing, Calling
<1>2. ~Due("CallRemoved")
  <2>1. \A i \in DOMAIN requests : requests[i] \in Request
    BY DEF EmergencyTypeOK
  <2> QED
    BY <2>1 DEF Due, Request, RequestKind
<1>3. \A x : Sent(x)' \/ Due(x) => ~Clash(x, "dial")
  BY <1>1, <1>2 DEF OnItsWay, Clash
<1>4. /\ OrderInv' /\ \A x : Due(x)' <=> Due(x) \/ x = "dial"
  BY <1>3, OrderAsks, AskFacts DEF ControlInv, RequestKind
<1>5. ModemInv'
  BY <1>4 DEF ModemInv, OnItsWay
<1>6. StateInv'
  BY <1>1, <1>4 DEF ControlInv, StateInv, OnItsWay, HasPath, Calling, Preparing
<1> QED
  BY <1>4, <1>5, <1>6 DEF ControlInv

LEMMA ControlNumbers ==
    ASSUME EmergencyTypeOK, ControlInv, handleEmergencyNumbersProperty
    PROVE  ControlInv'
<1>1. /\ Receives("numbers") /\ "numbers" \in RequestKind \cup {"CallRemoved"}
      /\ UNCHANGED <<voiceCallManager, callObjectPath, phoneNumber, talking,
                     emergencyMode>>
  BY DEF handleEmergencyNumbersProperty, RequestKind, ui_vars, Becomes, StaysAsItIs,
    setEmergencyCallStatus
<1>2. /\ Shrinks /\ AnswerInv' /\ (DialFails' => DialFails)
      /\ \A x : Sent(x)' => Sent(x)
      /\ \A x : Sent(x) /\ x \notin {"numbers", "busy"} => Sent(x)'
      /\ ~Got("error") /\ Sent("numbers")
      /\ \A x : Sent(x)' \/ Due(x) => ~Clash("numbers", x)
  BY <1>1, Received
<1>3. /\ NumberAccepted <=> phoneNumber # "other"
  BY <1>2 DEF NumberAccepted
<1>4. voiceCallManager /\ ~Sent("modems")' /\ ~Due("modems")
  BY <1>2 DEF ControlInv, ModemInv, OnItsWay, RequestKind, Clash
<1>5. CASE NumberAccepted /\ ofonoStatus = "OfonoInitializing" /\ Asks("dial")
           /\ ofonoStatus' = "OfonoCalling"
  BY <1>1, <1>2, <1>3, <1>4, <1>5, ControlDials DEF Preparing
<1>6. ASSUME UNCHANGED <<requests, loud>>,
             \/ UNCHANGED ofonoStatus
             \/ /\ NumberAccepted /\ ofonoStatus = "OfonoInitializing"
                /\ ofonoStatus' = "OfonoReady"
             \/ ~NumberAccepted /\ ofonoStatus' = "OfonoIdle"
      PROVE  ControlInv'
  <2>1. OrderInv' /\ \A x : Due(x)' <=> Due(x)
    BY <1>1, <1>6, ReceivedOnly
  <2>2. ModemInv'
    BY <1>1, <1>4, <2>1 DEF ModemInv, OnItsWay
  <2>3. CASE UNCHANGED ofonoStatus
    <3>1. StateInv'
      BY <1>1, <1>2, <1>6, <2>1, <2>3
        DEF ControlInv, StateInv, OnItsWay, HasPath, Calling, Preparing
    <3> QED
      BY <1>2, <2>1, <2>2, <3>1 DEF ControlInv
  <2>4. CASE /\ NumberAccepted /\ ofonoStatus = "OfonoInitializing"
             /\ ofonoStatus' = "OfonoReady"
    <3>1. StateInv'
      BY <1>1, <1>2, <1>3, <1>6, <2>1, <2>4
        DEF ControlInv, StateInv, OnItsWay, HasPath, Calling, Preparing
    <3> QED
      BY <1>2, <2>1, <2>2, <3>1 DEF ControlInv
  <2>5. CASE ~NumberAccepted /\ ofonoStatus' = "OfonoIdle"
    <3>1. ~Calling
      BY <1>3, <2>5 DEF ControlInv, StateInv, Calling
    <3>2. StateInv'
      BY <1>1, <1>2, <1>6, <2>1, <2>5, <3>1
        DEF ControlInv, StateInv, OnItsWay, HasPath, Calling, Preparing
    <3> QED
      BY <1>2, <2>1, <2>2, <3>2 DEF ControlInv
  <2> QED
    BY <1>6, <2>3, <2>4, <2>5
<1> QED
  BY <1>5, <1>6 DEF handleEmergencyNumbersProperty, dial, Becomes, StaysAsItIs

LEMMA ControlDialled ==
    ASSUME EmergencyTypeOK, ControlInv, Dialled PROVE ControlInv'
<1>1. /\ Receives("dial") /\ "dial" \in RequestKind \cup {"CallRemoved"}
      /\ UNCHANGED <<voiceCallManager, phoneNumber, requests, talking, emergencyMode>>
  BY DEF Dialled, RequestKind, Becomes, setEmergencyCallStatus
<1>2. /\ AnswerInv' /\ (DialFails' => DialFails)
      /\ \A x : Sent(x)' => Sent(x)
      /\ \A x : Sent(x) /\ x \notin {"dial", "busy"} => Sent(x)'
      /\ Sent("dial")
      /\ \A x : Sent(x)' \/ Due(x) => ~Clash("dial", x)
      /\ Got("error") => DialFails
  BY <1>1, Received
<1>3. OrderInv' /\ \A x : Due(x)' <=> Due(x)
  BY <1>1, ReceivedOnly
<1>4. ~Sent("dial")' /\ ~Due("dial") /\ Calling /\ ~callObjectPath
  BY <1>2 DEF Clash, ControlInv, StateInv, OnItsWay
<1>5. CASE Got("ok") /\ callObjectPath' = TRUE /\ UNCHANGED <<ofonoStatus, loud>>
  <2>1. ModemInv'
    BY <1>1, <1>2, <1>3, <1>5 DEF ControlInv, ModemInv, OnItsWay
  <2>2. StateInv'
    BY <1>1, <1>2, <1>3, <1>4, <1>5
      DEF ControlInv, StateInv, OnItsWay, HasPath, Calling, Preparing
  <2> QED
    BY <1>2, <1>3, <2>1, <2>2 DEF ControlInv
<1>6. CASE Got("error") /\ loud' = FALSE /\ ofonoStatus' = "OfonoError"
           /\ UNCHANGED callObjectPath
  <2>1. talking = "none" /\ ~Sent("CallRemoved")
    BY <1>2, <1>6 DEF ControlInv, StateInv
  <2>2. ModemInv'
    BY <1>1, <1>2, <1>3, <1>6 DEF ControlInv, ModemInv, OnItsWay
  <2>3. StateInv'
    BY <1>1, <1>2, <1>3, <1>4, <1>6, <2>1
      DEF ControlInv, StateInv, OnItsWay, HasPath, Calling, Preparing
  <2> QED
    BY <1>2, <1>3, <2>2, <2>3 DEF ControlInv
<1> QED
  BY <1>5, <1>6 DEF Dialled, Becomes

LEMMA ControlHungUp ==
    ASSUME EmergencyTypeOK, ControlInv, HungUp PROVE ControlInv'
<1>1. /\ Receives("hangup") /\ "hangup" \in RequestKind \cup {"CallRemoved"}
      /\ callObjectPath' = FALSE /\ ofonoStatus' \in {"OfonoIdle", "OfonoError"}
      /\ UNCHANGED <<voiceCallManager, phoneNumber, requests, talking, loud,
                     emergencyMode>>
  BY DEF HungUp, RequestKind, Becomes, setEmergencyCallStatus
<1>2. /\ AnswerInv' /\ (DialFails' => DialFails)
      /\ \A x : Sent(x)' => Sent(x)
      /\ \A x : Sent(x) /\ x \notin {"hangup", "busy"} => Sent(x)'
      /\ Sent("hangup")
      /\ \A x : Sent(x)' \/ Due(x) => ~Clash("hangup", x)
  BY <1>1, Received
<1>3. OrderInv' /\ \A x : Due(x)' <=> Due(x)
  BY <1>1, ReceivedOnly
<1>4. /\ ~Sent("dial")' /\ ~Due("dial") /\ ~Sent("CallRemoved")'
      /\ talking = "none" /\ ~loud
  BY <1>2 DEF Clash, ControlInv, StateInv, OnItsWay
<1>5. ModemInv'
  BY <1>1, <1>2, <1>3 DEF ControlInv, ModemInv, OnItsWay
<1>6. ofonoStatus' \notin {"OfonoReady", "OfonoCalling", "OfonoInitializing"}
  BY <1>1
<1>7. StateInv'
  BY <1>1, <1>2, <1>3, <1>4, <1>6
    DEF ControlInv, StateInv, OnItsWay, HasPath, Calling, Preparing
<1> QED
  BY <1>2, <1>3, <1>5, <1>7 DEF ControlInv

LEMMA ControlRemoved ==
    ASSUME EmergencyTypeOK, ControlInv, CallRemoved PROVE ControlInv'
<1>1. /\ Receives("CallRemoved") /\ "CallRemoved" \in RequestKind \cup {"CallRemoved"}
      /\ UNCHANGED <<voiceCallManager, phoneNumber, requests, talking, emergencyMode>>
  BY DEF CallRemoved, Becomes, setEmergencyCallStatus, StaysAsItIs, ui_vars
<1>2. /\ AnswerInv' /\ (DialFails' => DialFails)
      /\ \A x : Sent(x)' => Sent(x)
      /\ \A x : Sent(x) /\ x \notin {"CallRemoved", "busy"} => Sent(x)'
      /\ Sent("CallRemoved")
      /\ \A x : Sent(x)' \/ Due(x) => ~Clash("CallRemoved", x)
  BY <1>1, Received
<1>3. OrderInv' /\ \A x : Due(x)' <=> Due(x)
  BY <1>1, ReceivedOnly
<1>4. ~Sent("CallRemoved")' /\ ~Sent("dial")' /\ ~Due("dial")
  BY <1>2 DEF Clash
<1>5. Sent("dial") => Sent("dial")'
  BY <1>2
<1>6. Calling /\ callObjectPath /\ talking = "none"
  BY <1>2, <1>4, <1>5 DEF ControlInv, StateInv, HasPath
<1>7. callObjectPath' = FALSE /\ loud' = FALSE /\ ofonoStatus' = "OfonoIdle"
  BY <1>6 DEF CallRemoved, Calling, calling, Becomes
<1>8. ModemInv'
  BY <1>1, <1>2, <1>3, <1>7 DEF ControlInv, ModemInv, OnItsWay
<1>9. StateInv'
  BY <1>1, <1>2, <1>3, <1>4, <1>6, <1>7
    DEF ControlInv, StateInv, OnItsWay, HasPath, Calling, Preparing
<1> QED
  BY <1>2, <1>3, <1>8, <1>9 DEF ControlInv

LEMMA ControlResources ==
    ASSUME EmergencyTypeOK, ControlInv, ResourcesRegistered \/ ResourcesReleased
    PROVE  ControlInv'
<1>1. /\ UNCHANGED <<voiceCallManager, callObjectPath, phoneNumber, messages, talking,
                     emergencyMode>>
      /\ \/ UNCHANGED <<ofonoStatus, requests, loud>>
         \/ /\ ofonoStatus = "OfonoReady" /\ Asks("dial")
            /\ ofonoStatus' = "OfonoCalling"
  BY DEF ResourcesRegistered, ResourcesReleased, dial, modem_vars, ui_vars,
    setEmergencyCallStatus
<1>2. /\ \A x : Sent(x)' <=> Sent(x)
      /\ AnswerInv' /\ (DialFails' <=> DialFails) /\ Shrinks
  BY <1>1, SameWay, ShrinksWhen DEF ControlInv
<1>3. CASE UNCHANGED <<ofonoStatus, requests, loud>>
  <2>1. OrderInv' /\ \A x : Due(x)' <=> Due(x)
    BY <1>2, <1>3, OrderShrinks, SameWay DEF ControlInv
  <2>2. ModemInv'
    BY <1>1, <1>2, <1>3, <2>1 DEF ControlInv, ModemInv, OnItsWay
  <2>3. StateInv'
    BY <1>1, <1>2, <1>3, <2>1
      DEF ControlInv, StateInv, OnItsWay, HasPath, Calling, Preparing
  <2> QED
    BY <1>2, <2>1, <2>2, <2>3 DEF ControlInv
<1>4. CASE /\ ofonoStatus = "OfonoReady" /\ Asks("dial")
           /\ ofonoStatus' = "OfonoCalling"
  <2>1. voiceCallManager /\ ~Sent("modems")' /\ ~Due("modems") /\ phoneNumber # "other"
    BY <1>2, <1>4 DEF ControlInv, ModemInv, StateInv, OnItsWay
  <2> QED
    BY <1>1, <1>2, <1>4, <2>1, ControlDials DEF Preparing
<1> QED
  BY <1>1, <1>3, <1>4

LEMMA ControlAnswers ==
    ASSUME LosesCall \cap Fault = {}, EmergencyTypeOK, ControlInv, OfonoAnswers
    PROVE  ControlInv'
<1> DEFINE of == Head(requests).of
<1>1. /\ Taken /\ of \in RequestKind
      /\ UNCHANGED <<call_vars, ui_vars, refused, loud, started>>
      /\ Dials \/ HangsUp \/ HangsUpCall \/ Serves \/ Refuses \/ HasNoModem
  BY TakenFacts, Outcomes DEF Taken, Request
<1>2. /\ Due(of)
      /\ \A x : Due(x)' => Due(x) /\ ~Clash(of, x)
      /\ \A x : Due(x) /\ x # of => Due(x)'
      /\ \A x : Sent(x) => ~Clash(x, of)
  BY TakenOrder DEF ControlInv
<1>3. ASSUME NEW result \in {"ok", "error", "invalid"},
             messages' = messages \o <<Reply(of, result)>>,
             result = "error" => of \in {"modems", "dial"},
             result = "invalid" => of = "modems"
      PROVE  /\ OrderInv' /\ AnswerInv' /\ ModemInv'
             /\ \A x : Sent(x)' <=> Sent(x) \/ x = of
             /\ DialFails' => DialFails \/ (of = "dial" /\ result = "error")
  <2>1. result \in Result \ {"in_progress"}
    BY DEF Result
  <2>2. OrderInv' /\ \A x : Sent(x)' <=> Sent(x) \/ x = of
    BY <1>3, <2>1, OrderAnswers DEF ControlInv
  <2>3. /\ Reply(of, result) \in Message
        /\ Reply(of, result).of = of /\ Reply(of, result).result = result
    BY <1>1, <2>1, Replies
  <2>4. Answers(Reply(of, result))
    BY <1>3, <2>3 DEF Answers
  <2>5. AnswerInv' /\ (DialFails' => DialFails \/ (of = "dial" /\ result = "error"))
    BY <1>3, <2>3, <2>4, AnswerSends DEF ControlInv
  <2>6. ModemInv'
    BY <1>1, <1>2, <2>2 DEF ControlInv, ModemInv, OnItsWay, call_vars
  <2> QED
    BY <2>2, <2>5, <2>6
<1> HIDE DEF of
<1>4. CASE Dials
  <2>1. of = "dial" /\ talking = "none" /\ talking' # "none"
    BY <1>1, <1>4 DEF Dials, Taken, Request, Number, of
  <2>2. /\ OrderInv' /\ AnswerInv' /\ ModemInv'
        /\ \A x : Sent(x)' <=> Sent(x) \/ x = of
        /\ DialFails' => DialFails
    BY <1>3, <1>4, <2>1 DEF Dials, of
  <2>3. ~Due("dial")' /\ ~Sent("hangup") /\ ~Sent("CallRemoved") /\ ~Sent("dial")
    BY <1>2, <2>1 DEF Clash
  <2>4. ~DialFails
    BY <2>3 DEF ControlInv, AnswerInv, DialFails, Sent, Part
  <2>5. StateInv'
    BY <1>1, <1>2, <2>1, <2>2, <2>3, <2>4 DEF ControlInv, StateInv, OnItsWay, HasPath,
      Calling, Preparing, call_vars, ui_vars
  <2> QED
    BY <2>2, <2>5 DEF ControlInv
<1>5. ASSUME of # "dial", UNCHANGED talking,
             NEW result \in {"ok", "error", "invalid"},
             messages' = messages \o <<Reply(of, result)>>,
             result = "error" => of = "modems",
             result = "invalid" => of = "modems",
             of = "hangup" => talking = "none"
      PROVE  ControlInv'
  <2>1. /\ OrderInv' /\ AnswerInv' /\ ModemInv'
        /\ \A x : Sent(x)' <=> Sent(x) \/ x = of
        /\ DialFails' => DialFails
    BY <1>3, <1>5
  <2>2. of # "CallRemoved"
    BY <1>1 DEF RequestKind, of
  <2>3. StateInv'
    BY <1>1, <1>2, <1>5, <2>1, <2>2 DEF ControlInv, StateInv, OnItsWay, HasPath,
      Calling, Preparing, call_vars, ui_vars
  <2> QED
    BY <2>1, <2>3 DEF ControlInv
<1>6. CASE HangsUp
  <2>1. CASE talking = "none"
    BY <1>5, <1>6, <2>1 DEF HangsUp, of
  <2>2. CASE talking # "none"
    <3>1. /\ of = "hangup" /\ talking' = "none"
          /\ messages' = messages \o <<Reply(of, "ok")>>
      BY <1>6 DEF HangsUp, of
    <3>2. /\ OrderInv' /\ AnswerInv' /\ ModemInv'
          /\ \A x : Sent(x)' <=> Sent(x) \/ x = of
          /\ DialFails' => DialFails
      BY <1>3, <3>1
    <3>3. StateInv'
      BY <1>1, <1>2, <3>1, <3>2 DEF ControlInv, StateInv, OnItsWay, HasPath,
        Calling, Preparing, call_vars, ui_vars
    <3> QED
      BY <3>2, <3>3 DEF ControlInv
  <2> QED
    BY <2>1, <2>2
<1>7. CASE HangsUpCall
  <2>1. of = "hangup" /\ talking # "none" /\ talking' = "none"
    BY <1>7 DEF HangsUpCall, of
  <2>2. Calling /\ HasPath /\ ~Sent("CallRemoved") /\ ~Sent("hangup") /\ ~Due("dial")
    BY <2>1 DEF ControlInv, StateInv
  <2>3. ~OnItsWay("modems") /\ voiceCallManager
    BY <2>2 DEF ControlInv, ModemInv, Calling
  <2>4. OrderInv' /\ \A x : Sent(x)' <=> Sent(x) \/ x \in {"CallRemoved", "hangup"}
    BY <1>7, <2>2, <2>3, OrderHangsUp DEF ControlInv, OnItsWay
  <2>5. AnswerInv' /\ (DialFails' => DialFails)
    BY <1>7, AnswerSendsTwo DEF ControlInv
  <2>6. ModemInv'
    BY <1>1, <1>2, <2>3, <2>4 DEF ModemInv, OnItsWay, call_vars, ControlInv
  <2>7. ~DialFails
    BY <2>1 DEF ControlInv, StateInv
  <2>8. StateInv'
    BY <1>1, <1>2, <2>1, <2>2, <2>4, <2>5, <2>7 DEF ControlInv, StateInv, OnItsWay,
      HasPath, Calling, Preparing, call_vars, ui_vars
  <2> QED
    BY <2>4, <2>5, <2>6, <2>8 DEF ControlInv
<1>8. CASE Serves
  BY <1>5, <1>8 DEF Serves, of
<1>9. CASE Refuses
  <2>1. of # "dial" => of = "modems"
    BY <1>1, <1>9 DEF Refuses, of, RequestKind, LosesCall
  <2>2. CASE of = "modems"
    BY <1>5, <1>9, <2>2 DEF Refuses, of
  <2>3. CASE of = "dial"
    <3>1. /\ talking = "none" /\ UNCHANGED talking
          /\ messages' = messages \o <<Reply(of, "error")>>
      BY <1>2, <1>9, <2>3 DEF Refuses, of, ControlInv, StateInv
    <3>2. /\ OrderInv' /\ AnswerInv' /\ ModemInv'
          /\ \A x : Sent(x)' <=> Sent(x) \/ x = of
      BY <1>3, <2>3, <3>1
    <3>3. ~Sent("CallRemoved")
      BY <1>2, <2>3 DEF Clash
    <3>4. StateInv'
      BY <1>1, <1>2, <2>3, <3>1, <3>2, <3>3 DEF ControlInv, StateInv, OnItsWay,
        HasPath, Calling, Preparing, call_vars, ui_vars
    <3> QED
      BY <3>2, <3>4 DEF ControlInv
  <2> QED
    BY <2>1, <2>2, <2>3
<1>10. CASE HasNoModem
  BY <1>5, <1>10 DEF HasNoModem, of
<1> QED
  BY <1>1, <1>4, <1>6, <1>7, <1>8, <1>9, <1>10

LEMMA ControlBusy ==
    ASSUME EmergencyTypeOK, ControlInv, OfonoIsBusy PROVE ControlInv'
<1>1. /\ OrderInv' /\ Due("online")
      /\ \A x : Sent(x)' <=> Sent(x) \/ x = "busy"
      /\ \A x : Due(x)' => Due(x)
      /\ \A x : Due(x) /\ x # "online" => Due(x)'
  BY OrderBusy DEF ControlInv
<1>2. /\ messages' = messages \o <<Reply("online", "in_progress")>>
      /\ UNCHANGED <<talking, call_vars, ui_vars, refused, loud, started>>
  BY BusyFacts
<1>3. /\ Reply("online", "in_progress") \in Message
      /\ Reply("online", "in_progress").of = "online"
      /\ Reply("online", "in_progress").result = "in_progress"
  BY Replies DEF RequestKind, Result
<1>4. Answers(Reply("online", "in_progress"))
  BY <1>3 DEF Answers
<1>5. AnswerInv' /\ (DialFails' => DialFails)
  BY <1>2, <1>3, <1>4, AnswerSends DEF ControlInv
<1>6. voiceCallManager
  BY <1>1 DEF ControlInv, ModemInv, OnItsWay, RequestKind
<1>7. ModemInv'
  BY <1>1, <1>2, <1>6 DEF ControlInv, ModemInv, OnItsWay, call_vars
<1>8. StateInv'
  BY <1>1, <1>2, <1>5 DEF ControlInv, StateInv, OnItsWay, HasPath, Calling, Preparing,
    call_vars, ui_vars
<1> QED
  BY <1>1, <1>5, <1>7, <1>8 DEF ControlInv

LEMMA ControlOtherEnd ==
    ASSUME EmergencyTypeOK, ControlInv, OtherEndEnds PROVE ControlInv'
<1>1. /\ talking # "none" /\ talking' = "none" /\ UNCHANGED requests
      /\ messages' = messages \o <<Reply("CallRemoved", "ok")>>
      /\ UNCHANGED <<call_vars, ui_vars, refused, loud, started>>
  BY DEF OtherEndEnds, Sends, Removal
<1>2. /\ Calling /\ HasPath /\ ~Sent("CallRemoved") /\ ~Sent("hangup")
      /\ ~Due("dial") /\ ~DialFails
  BY <1>1 DEF ControlInv, StateInv
<1>3. ~OnItsWay("modems") /\ voiceCallManager
  BY <1>2 DEF ControlInv, ModemInv, Calling
<1>4. OrderInv' /\ \A x : Sent(x)' <=> Sent(x) \/ x = "CallRemoved"
  BY <1>2, <1>3, OrderEnds DEF ControlInv, OnItsWay
<1>5. \A x : Due(x)' <=> Due(x)
  BY <1>1, SameWay
<1>6. /\ Reply("CallRemoved", "ok") \in Message
      /\ Reply("CallRemoved", "ok").of = "CallRemoved"
      /\ Reply("CallRemoved", "ok").result = "ok"
  BY Replies DEF RequestKind, Result
<1>7. Answers(Reply("CallRemoved", "ok"))
  BY <1>6 DEF Answers
<1>8. AnswerInv' /\ (DialFails' => DialFails)
  BY <1>1, <1>6, <1>7, AnswerSends DEF ControlInv
<1>9. ModemInv'
  BY <1>1, <1>3, <1>4, <1>5 DEF ControlInv, ModemInv, OnItsWay, call_vars
<1>10. StateInv'
  BY <1>1, <1>2, <1>4, <1>5, <1>8 DEF ControlInv, StateInv, OnItsWay, HasPath, Calling,
    Preparing, call_vars, ui_vars
<1> QED
  BY <1>4, <1>8, <1>9, <1>10 DEF ControlInv

LEMMA ControlInit == ASSUME Init PROVE ControlInv
<1>1. DOMAIN requests = {} /\ DOMAIN messages = {}
  BY DEF Init
<1>2. \A x : ~Sent(x) /\ ~Due(x)
  BY <1>1 DEF Sent, Due
<1>3. OrderInv /\ AnswerInv /\ ~DialFails
  BY <1>1 DEF OrderInv, AnswerInv, DialFails
<1>4. ModemInv
  BY <1>2 DEF Init, ModemInv, OnItsWay
<1>5. StateInv
  BY <1>2, <1>3 DEF Init, StateInv, OnItsWay, HasPath, Calling, Preparing
<1> QED
  BY <1>3, <1>4, <1>5 DEF ControlInv

LEMMA ControlStep ==
    ASSUME LosesCall \cap Fault = {}
    PROVE  EmergencyTypeOK /\ ControlInv /\ [Next]_vars => ControlInv'
<1>1. SUFFICES ASSUME EmergencyTypeOK, ControlInv, [Next]_vars PROVE ControlInv'
  OBVIOUS
<1>2. CASE UNCHANGED vars
  <2>1. UNCHANGED <<call_vars, modem_vars, ui_vars, loud>>
    BY <1>2 DEF vars
  <2>2. /\ \A x : Sent(x)' <=> Sent(x)
        /\ \A x : Due(x)' <=> Due(x)
        /\ AnswerInv' /\ (DialFails' <=> DialFails)
    BY <1>1, <2>1, SameWay DEF ControlInv, modem_vars
  <2>3. OrderInv'
    BY <1>1, <2>1, ShrinksWhen, OrderShrinks DEF ControlInv, modem_vars
  <2>4. ModemInv'
    BY <1>1, <2>1, <2>2 DEF ControlInv, ModemInv, OnItsWay, call_vars
  <2>5. StateInv'
    BY <1>1, <2>1, <2>2 DEF ControlInv, StateInv, OnItsWay, HasPath, Calling,
      Preparing, call_vars, modem_vars, ui_vars
  <2> QED
    BY <2>2, <2>3, <2>4, <2>5 DEF ControlInv
<1>3. CASE CallMessage
  BY <1>1, <1>3, ControlModem, ControlOnline, ControlNumbers, ControlDialled,
    ControlHungUp, ControlRemoved DEF CallMessage
<1> QED
  BY <1>1, <1>2, <1>3, ControlUser, ControlResources, ControlAnswers, ControlBusy,
    ControlOtherEnd DEF Next

\* A call in the modem is a call for Call too, so that the key ends it, and the loud
\* audio route is for a call only, unless ofono fails in a way that Call takes for
\* the end of the call (call.cpp hangUp, endCall).
THEOREM CallsUnderControl ==
    ASSUME LosesCall \cap Fault = {} PROVE Spec => []CallUnderControl
<1>1. Init => EmergencyTypeOK /\ ControlInv
  BY TypeInit, ControlInit
<1>2. EmergencyTypeOK /\ ControlInv /\ [Next]_vars => ControlInv'
  BY ControlStep
<1>3. ControlInv => CallUnderControl
  BY DEF ControlInv, StateInv, CallUnderControl, Calling
<1> QED
  BY <1>1, <1>2, <1>3, TypeStep, PTL DEF Spec

\* When the emergency mode is left, the call that there is, or is being dialled, is
\* to be hung up, and none is dialled later by an answer that was on its way
\* (pin.cpp setEmergencyMode, call.cpp dial).
THEOREM CallsEndWithTheMode ==
    ASSUME LosesCall \cap Fault = {} PROVE Spec => []NoCallLeftBehind
<1>1. Init => EmergencyTypeOK /\ ControlInv
  BY TypeInit, ControlInit
<1>2. EmergencyTypeOK /\ ControlInv /\ [Next]_vars => ControlInv'
  BY ControlStep
<1>3. ControlInv => NoCallLeftBehind
  BY HangingUpIs DEF ControlInv, StateInv, NoCallLeftBehind, Calling
<1> QED
  BY <1>1, <1>2, <1>3, TypeStep, PTL DEF Spec
=============================================================================
