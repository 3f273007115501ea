-------------------------- MODULE UnlockScreenProofs --------------------------
(***************************************************************************)
(* Theorems about the unlock screen for any start, any number of changes   *)
(* and questions and any bound on the messages that wait, and their        *)
(* proofs.                                                                 *)
(*                                                                         *)
(* Four invariants carry them: RulesInv (the shutdown timers), ActiveInv   *)
(* (a home that is mounted stays so, and the messages say so), CodeInv     *)
(* (keys, questions and answers) and KnowsInv (what is on its way settles  *)
(* what is known).                                                         *)
(***************************************************************************)
EXTENDS UnlockScreen, SequenceTheorems, TLAPS

-----------------------------------------------------------------------------
(* Types *)

\* What a state may be.
Known == UNION {Values[s] \cup {Unknown[s]} : s \in State}

\* A message carries a value of the state, or of the owner, that it tells.
Sensible(message) ==
    /\ message.of \in State => message.value \in Values[message.of]
    /\ message.of \in Peer => message.value \in {"owned", "none"}

\* UnlockTypeOK is not inductive: what is dispatched has to be of the state's own
\* values, and what a query is answered with has to be known.
CompositorInv ==
    /\ CompositorTypeOK
    /\ cached \in [State -> Known] /\ actual \in [State -> Known]
    /\ \A i \in DOMAIN bus : Sensible(bus[i])
    /\ \A s \in State \ {"updates"} : actual[s] \in Values[s]

\* A message that comes last keeps the queue as it has to be.
LEMMA ArrivesTyped ==
    ASSUME CompositorInv, NEW of, NEW value, Arrives(of, value),
           \/ of \in State /\ value \in Values[of]
           \/ of \in Peer /\ value \in {"owned", "none"}
           \/ of = "NameLost" /\ value = "none"
    PROVE  /\ bus' \in Seq(Message) /\ Len(bus') <= MaxBus
           /\ \A i \in DOMAIN bus' : Sensible(bus'[i])
<1> DEFINE m == [of |-> of, value |-> value]
<1>1. m \in Message
  <2>1. value \in (UNION {Values[s] : s \in State}) \cup {"owned", "none"}
    OBVIOUS
  <2>2. of \in State \cup Peer \cup {"NameLost"}
    OBVIOUS
  <2> QED
    BY <2>1, <2>2 DEF Message
<1>2. Sensible(m)
  BY DEF Sensible, State, Peer
<1>3. bus \in Seq(Message) /\ Len(bus) < MaxBus /\ bus' = Append(bus, m)
  BY DEF CompositorInv, CompositorTypeOK, Arrives
<1>4. Len(bus') = Len(bus) + 1 /\ bus' \in Seq(Message) /\ MaxBus \in Nat
  BY <1>1, <1>3, BoundAssumption
<1>5. ASSUME NEW i \in DOMAIN bus' PROVE Sensible(bus'[i])
  <2>1. (i \in DOMAIN bus /\ bus'[i] = bus[i]) \/ bus'[i] = m
    BY <1>1, <1>3, <1>5
  <2> QED
    BY <1>2, <2>1 DEF CompositorInv
<1> QED
  BY <1>3, <1>4, <1>5

\* A state that changes outside.
LEMMA BecomesTyped ==
    ASSUME CompositorInv, NEW state \in State, NEW value \in Values[state],
           Becomes(state, value), changes' \in 0 .. MaxChanges,
           UNCHANGED compositor_vars
    PROVE  CompositorInv'
<1>1. value \in Known
  BY DEF Known
<1>2. /\ bus' \in Seq(Message) /\ Len(bus') <= MaxBus
      /\ \A i \in DOMAIN bus' : Sensible(bus'[i])
  <2>2. CASE Arrives(state, value)
    BY <2>2, ArrivesTyped
  <2>3. CASE UNCHANGED bus
    BY <2>3 DEF CompositorInv, CompositorTypeOK
  <2> QED
    BY <2>2, <2>3 DEF Becomes
<1>3. actual' \in [State -> Known] /\ DOMAIN actual' = State
      /\ \A s \in State : actual'[s] = IF s = state THEN value ELSE actual[s]
  BY <1>1 DEF Becomes, CompositorInv
<1> QED
  BY <1>2, <1>3 DEF CompositorInv, CompositorTypeOK, Becomes, compositor_vars

\* What happens outside the unlock screen.
LEMMA OutsideTyped ==
    ASSUME CompositorInv, UNCHANGED compositor_vars,
           Change \/ Proceed \/ Answer \/ NameTaken
    PROVE  CompositorInv'
<1>1. MaxChanges \in Nat /\ MaxBus \in Nat
  BY BoundAssumption
<1>2. ASSUME NEW state \in State, NEW value \in Values[state], Becomes(state, value),
             changes' \in 0 .. MaxChanges
      PROVE  CompositorInv'
  BY <1>2, BecomesTyped
<1>3. ASSUME NEW peer \in Peer, PeerStops(peer) \/ PeerStarts(peer),
             changes' \in 0 .. MaxChanges
      PROVE  CompositorInv'
  <2>1. PICK value \in {"owned", "none"} : Arrives(peer, value)
    BY <1>3 DEF PeerStops, PeerStarts
  <2>3. /\ bus' \in Seq(Message) /\ Len(bus') <= MaxBus
        /\ \A i \in DOMAIN bus' : Sensible(bus'[i])
    BY <2>1, ArrivesTyped
  <2>4. running' \in [Peer -> BOOLEAN] /\ queries' \subseteq Query /\ UNCHANGED actual
    BY <1>3 DEF PeerStops, PeerStarts, CompositorInv, CompositorTypeOK
  <2> QED
    BY <1>3, <2>3, <2>4 DEF CompositorInv, CompositorTypeOK, compositor_vars
<1>4. ASSUME Change PROVE CompositorInv'
  <2>1. changes' \in 0 .. MaxChanges
    BY <1>1, <1>4 DEF Change, CompositorInv, CompositorTypeOK
  <2>2. "charger" \in State /\ "battery" \in State /\ "updates" \in State
        /\ "disabled" \in Values["updates"]
    BY DEF State, Values
  <2> QED
    BY <1>2, <1>3, <1>4, <2>1, <2>2 DEF Change
<1>5. ASSUME Proceed PROVE CompositorInv'
  <2>1. changes' \in 0 .. MaxChanges
    BY <1>5 DEF Proceed, CompositorInv, CompositorTypeOK
  <2>2. "dsmeState" \in State /\ "updates" \in State /\ "enabled" \in Values["updates"]
        /\ "SHUTDOWN" \in Values["dsmeState"]
    BY DEF State, Values
  <2> QED
    BY <1>2, <1>3, <1>5, <2>1, <2>2 DEF Proceed
<1>6. ASSUME NEW query, TakesQuery(query),
             /\ bus' \in Seq(Message) /\ Len(bus') <= MaxBus
             /\ \A i \in DOMAIN bus' : Sensible(bus'[i])
      PROVE  CompositorInv'
  BY <1>6 DEF TakesQuery, CompositorInv, CompositorTypeOK, compositor_vars
<1>7. ASSUME Answer PROVE CompositorInv'
  <2>1. ASSUME NEW peer \in Peer, OwnerAnswered(peer) PROVE CompositorInv'
    <3>1. TakesQuery(peer)
      BY <2>1 DEF OwnerAnswered
    <3>2. CASE Arrives(peer, "owned")
      <4>1. /\ bus' \in Seq(Message) /\ Len(bus') <= MaxBus
            /\ \A i \in DOMAIN bus' : Sensible(bus'[i])
        BY <3>2, ArrivesTyped
      <4> QED
        BY <3>1, <4>1, <1>6
    <3>3. CASE UNCHANGED bus
      BY <2>1, <3>3, <1>6 DEF OwnerAnswered, CompositorInv, CompositorTypeOK
    <3> QED
      BY <2>1, <3>2, <3>3 DEF OwnerAnswered
  <2>2. ASSUME NEW state \in State \cap Query, StateAnswered(state) PROVE CompositorInv'
    <3>1. actual[state] \in Values[state]
      BY DEF State, Query, Peer, CompositorInv
    <3>2. TakesQuery(state) /\ Arrives(state, actual[state])
      BY <2>2 DEF StateAnswered
    <3>3. /\ bus' \in Seq(Message) /\ Len(bus') <= MaxBus
          /\ \A i \in DOMAIN bus' : Sensible(bus'[i])
      BY <3>1, <3>2, ArrivesTyped
    <3> QED
      BY <3>2, <3>3, <1>6
  <2>3. ASSUME Subscribed PROVE CompositorInv'
    BY <2>3, <1>6 DEF Subscribed, CompositorInv, CompositorTypeOK
  <2> QED
    BY <1>7, <2>1, <2>2, <2>3 DEF Answer
<1>8. ASSUME NameTaken PROVE CompositorInv'
  <2>2. /\ bus' \in Seq(Message) /\ Len(bus') <= MaxBus
        /\ \A i \in DOMAIN bus' : Sensible(bus'[i])
    BY <1>8, ArrivesTyped DEF NameTaken
  <2> QED
    BY <1>8, <2>2 DEF NameTaken, CompositorInv, CompositorTypeOK, compositor_vars
<1> QED
  BY <1>4, <1>5, <1>7, <1>8

\* What is left of the queue after its head.
LEMMA TailFacts ==
    ASSUME NEW queue \in Seq(Message), queue # <<>>
    PROVE  /\ Tail(queue) \in Seq(Message) /\ Len(Tail(queue)) = Len(queue) - 1
           /\ Head(queue) = queue[1] /\ 1 \in DOMAIN queue /\ Head(queue) \in Message
           /\ \A i \in DOMAIN Tail(queue) :
                 i + 1 \in DOMAIN queue /\ Tail(queue)[i] = queue[i + 1]
           /\ \A i \in DOMAIN queue :
                 i # 1 => i - 1 \in DOMAIN Tail(queue) /\ Tail(queue)[i - 1] = queue[i]
<1>1. Len(queue) \in Nat /\ Len(queue) # 0 /\ DOMAIN queue = 1 .. Len(queue)
  OBVIOUS
<1>2. Tail(queue) \in Seq(Message) /\ Len(Tail(queue)) = Len(queue) - 1
      /\ DOMAIN Tail(queue) = 1 .. Len(queue) - 1
  BY <1>1
<1>3. \A i \in 1 .. Len(queue) - 1 : Tail(queue)[i] = queue[i + 1]
  BY <1>1
<1> QED
  BY <1>1, <1>2, <1>3

\* A queue with one more message.
LEMMA AppendFacts ==
    ASSUME NEW queue \in Seq(Message), NEW m
    PROVE  /\ DOMAIN Append(queue, m) = 1 .. Len(queue) + 1
           /\ \A i \in DOMAIN queue : Append(queue, m)[i] = queue[i]
           /\ Append(queue, m)[Len(queue) + 1] = m
<1>1. queue \in Seq(Message \cup {m})
  OBVIOUS
<1>2. Append(queue, m) \in Seq(Message \cup {m})
      /\ Len(Append(queue, m)) = Len(queue) + 1
  BY <1>1
<1> QED
  BY <1>1, <1>2

\* A message that is dispatched.
LEMMA DispatchTyped ==
    ASSUME CompositorInv, Dispatched(Head(bus))
    PROVE  CompositorInv'
<1> DEFINE m == Head(bus)
<1>1. bus \in Seq(Message) /\ bus # <<>> /\ bus' = Tail(bus)
  BY DEF Dispatched, CompositorInv, CompositorTypeOK
<1>2. /\ bus' \in Seq(Message) /\ Len(bus') = Len(bus) - 1 /\ Sensible(m)
      /\ \A i \in DOMAIN bus' : Sensible(bus'[i])
  BY <1>1, TailFacts DEF CompositorInv
<1>3. Len(bus') <= MaxBus
  <2>1. Len(bus) <= MaxBus /\ Len(bus) \in Nat /\ MaxBus \in Nat
    BY <1>1, BoundAssumption DEF CompositorInv, CompositorTypeOK
  <2> QED
    BY <1>2, <2>1
<1>4. UNCHANGED <<running, actual, changes>>
  BY DEF Dispatched
<1>5. /\ cached' \in [State -> Known]
      /\ \A s \in State : cached'[s] \in Values[s] \cup {Unknown[s]}
      /\ nameOwner' \in [Peer -> {"owned", "none"}]
      /\ nameOwned' \in BOOLEAN /\ replaceable' \in BOOLEAN
      /\ queries' \subseteq Query
  <2>1. CASE m.of \in State /\ StateChanges(m.of, m.value)
    <3>1. m.value \in Values[m.of] /\ m.value \in Known
      BY <1>2, <2>1 DEF Sensible, Known
    <3>2. /\ cached' \in [State -> Known]
          /\ \A s \in State : cached'[s] = IF s = m.of THEN m.value ELSE cached[s]
      BY <2>1, <3>1 DEF StateChanges, CompositorInv
    <3>3. UNCHANGED <<nameOwner, nameOwned, queries>> /\ replaceable' \in BOOLEAN
      BY <2>1 DEF StateChanges, UnitChanges, evaluateReplacingAllowed, CompositorInv,
                  CompositorTypeOK
    <3> QED
      BY <3>1, <3>2, <3>3 DEF CompositorInv, CompositorTypeOK
  <2>2. CASE /\ m.of \in Peer /\ OwnerChanges(m.of, m.value)
             /\ UNCHANGED <<nameOwned, replaceable>>
    <3>1. m.value \in {"owned", "none"}
      BY <1>2, <2>2 DEF Sensible
    <3>2. nameOwner' \in [Peer -> {"owned", "none"}]
      BY <2>2, <3>1 DEF OwnerChanges, CompositorInv, CompositorTypeOK
    <3>3. /\ cached' \in [State -> Known]
          /\ \A s \in State :
                cached'[s] = cached[s] \/ (s = "dsmeState" /\ cached'[s] = "NOT_SET")
      <4>1. "NOT_SET" = Unknown["dsmeState"] /\ "dsmeState" \in State
        BY DEF Unknown, State
      <4>2. "NOT_SET" \in Known
        BY <4>1 DEF Known
      <4> QED
        BY <2>2, <4>1, <4>2 DEF OwnerChanges, CompositorInv
    <3>4. queries' \subseteq Query
      BY <2>2 DEF OwnerChanges, CompositorInv, CompositorTypeOK, QueriesTo, Query
    <3>5. \A s \in State : cached'[s] \in Values[s] \cup {Unknown[s]}
      <4>1. Unknown["dsmeState"] = "NOT_SET"
        BY DEF Unknown
      <4> QED
        BY <3>3, <4>1 DEF CompositorInv, CompositorTypeOK
    <3> QED
      BY <2>2, <3>2, <3>3, <3>4, <3>5 DEF CompositorInv, CompositorTypeOK
  <2>3. CASE /\ nameOwned' = FALSE
             /\ UNCHANGED <<cached, nameOwner, replaceable, queries>>
    BY <2>3 DEF CompositorInv, CompositorTypeOK
  <2> QED
    BY <2>1, <2>2, <2>3 DEF Dispatched
<1> QED
  BY <1>2, <1>3, <1>4, <1>5 DEF CompositorInv, CompositorTypeOK

\* What UnlockTypeOK says of the agent, the code entry and systemd.
UiTypeOK ==
    /\ ui \in BOOLEAN /\ enabled \in BOOLEAN /\ canShowError \in BOOLEAN
    /\ text \in {"none", "code"} /\ sendTimer \in BOOLEAN
    /\ emergencyMode \in BOOLEAN

RuleTypeOK ==
    /\ inactivityEnabled \in BOOLEAN /\ inactivityTimer \in BOOLEAN
    /\ batteryRequested \in BOOLEAN /\ batteryTimer \in BOOLEAN

AgentTypeOK ==
    /\ process \in {"find", "watch", "temporary", "main", "exited"}
    /\ askFile \in BOOLEAN /\ watching \in BOOLEAN
    /\ question \in BOOLEAN /\ limited \in BOOLEAN /\ newFile \in BOOLEAN
    /\ questions \in 1 .. MaxQuestions
    /\ answer \in {"none", "temporary", "code", "cancel"}

TypeInv == CompositorInv /\ UiTypeOK /\ RuleTypeOK /\ AgentTypeOK

\* The steps that do not come from the bus and not from the outside: keys and timers.
Entry ==
    \/ KeyEdits \/ KeyEnters \/ EmergencyButton \/ EmergencyLeft
    \/ SendTimerFires \/ InactivityTimerFires \/ BatteryTimerFires

LEMMA EntryTyped ==
    ASSUME TypeInv, Entry
    PROVE  TypeInv'
<1>1. UNCHANGED <<compositor_vars, outside_vars, process, askFile, watching, question,
                  limited, questions, newFile>>
  BY DEF Entry, KeyEdits, KeyEnters, EmergencyButton, EmergencyLeft, KeyPressed,
     SendTimerFires, InactivityTimerFires, BatteryTimerFires, agent_vars, question_vars
<1>2. CompositorInv'
  BY <1>1 DEF TypeInv, CompositorInv, CompositorTypeOK, compositor_vars, outside_vars
<1>3. AgentTypeOK'
  <2>1. answer' \in {"none", "temporary", "code", "cancel"}
    BY DEF Entry, KeyEdits, KeyEnters, EmergencyButton, EmergencyLeft, KeyPressed,
       SendTimerFires, InactivityTimerFires, BatteryTimerFires, Answers, question_vars,
       TypeInv, AgentTypeOK
  <2> QED
    BY <1>1, <2>1 DEF TypeInv, AgentTypeOK
<1>4. UiTypeOK'
  BY DEF Entry, KeyEdits, KeyEnters, EmergencyButton, EmergencyLeft, KeyPressed,
     SendTimerFires, InactivityTimerFires, BatteryTimerFires, emergencyModeChanged,
     disableAll, entry_vars, TypeInv, UiTypeOK
<1>5. RuleTypeOK'
  <2>1. MayShutDown(cached', inactivityEnabled', emergencyMode') \in BOOLEAN
        /\ BatteryEmpty(cached', emergencyMode') \in BOOLEAN
    BY DEF MayShutDown, BatteryEmpty
  <2>2. CASE KeyEdits \/ KeyEnters
    BY <2>1, <2>2 DEF KeyEdits, KeyEnters, KeyPressed, restartInactivityShutdownTimer,
       TypeInv, RuleTypeOK
  <2>3. CASE EmergencyButton \/ EmergencyLeft
    BY <2>1, <2>3 DEF EmergencyButton, EmergencyLeft, KeyPressed, emergencyModeChanged,
       startInactivityShutdownTimer, stopInactivityShutdownTimer,
       considerBatteryEmptyShutdown, TypeInv, RuleTypeOK
  <2>4. CASE SendTimerFires \/ InactivityTimerFires \/ BatteryTimerFires
    BY <2>4 DEF SendTimerFires, InactivityTimerFires, BatteryTimerFires, disableAll,
       setInactivityShutdownEnabled, startInactivityShutdownTimer,
       stopInactivityShutdownTimer, TypeInv, RuleTypeOK
  <2> QED
    BY <2>2, <2>3, <2>4 DEF Entry
<1> QED
  BY <1>2, <1>3, <1>4, <1>5 DEF TypeInv

\* A user interface that is there, or is created, or learns of a new question.
LEMMA UiStepTyped ==
    ASSUME UiTypeOK, RuleTypeOK,
           \/ tryToCreateUI
           \/ NewAskFileShown
           \/ UNCHANGED ui_vars
           \/ /\ UNCHANGED <<ui, entry_vars, inactivityEnabled>>
              /\ \E s \in State : StateChanged(s)
    PROVE  UiTypeOK' /\ RuleTypeOK'
<1>1. MayShutDown(cached', inactivityEnabled', emergencyMode') \in BOOLEAN
      /\ BatteryEmpty(cached', emergencyMode') \in BOOLEAN
  BY DEF MayShutDown, BatteryEmpty
<1>2. CASE tryToCreateUI
  BY <1>1, <1>2 DEF tryToCreateUI, PinUi, setInactivityShutdownEnabled,
     startInactivityShutdownTimer, stopInactivityShutdownTimer, ui_vars, entry_vars,
     rule_vars, UiTypeOK, RuleTypeOK
<1>3. CASE NewAskFileShown
  BY <1>1, <1>3 DEF NewAskFileShown, showError, enabledAll,
     setInactivityShutdownEnabled, startInactivityShutdownTimer,
     stopInactivityShutdownTimer, UiTypeOK, RuleTypeOK
<1>4. CASE UNCHANGED ui_vars
  BY <1>4 DEF ui_vars, entry_vars, rule_vars, UiTypeOK, RuleTypeOK
<1>5. CASE /\ UNCHANGED <<ui, entry_vars, inactivityEnabled>>
           /\ \E s \in State : StateChanged(s)
  BY <1>1, <1>5 DEF StateChanged, StopsOrStarts, dsmeStateChanged,
     considerBatteryEmptyShutdown, startInactivityShutdownTimer,
     stopInactivityShutdownTimer, entry_vars, UiTypeOK, RuleTypeOK
<1> QED
  BY <1>2, <1>3, <1>4, <1>5

LEMMA TypeStep ==
    ASSUME TypeInv, [Next]_vars
    PROVE  TypeInv'
<1>1. CASE FindsQuestion \/ StartsLoop
  <2>1. UNCHANGED <<compositor_vars, outside_vars, ui_vars, question, limited, questions,
                    newFile>>
    BY <1>1 DEF FindsQuestion, StartsLoop, question_vars
  <2>2. CompositorInv'
    BY <2>1 DEF TypeInv, CompositorInv, CompositorTypeOK, compositor_vars, outside_vars
  <2>3. UiTypeOK' /\ RuleTypeOK'
    BY <2>1, UiStepTyped DEF TypeInv
  <2>4. AgentTypeOK'
    <3>1. askFile' \in BOOLEAN /\ watching' \in BOOLEAN
      BY <1>1 DEF FindsQuestion, StartsLoop, findAskFile, TypeInv, AgentTypeOK
    <3>2. process' \in {"watch", "temporary", "main"}
          /\ answer' \in {"none", "temporary", "code", "cancel"}
      BY <1>1 DEF FindsQuestion, StartsLoop, Answers, question_vars, TypeInv, AgentTypeOK
    <3> QED
      BY <2>1, <3>1, <3>2 DEF TypeInv, AgentTypeOK
  <2> QED
    BY <2>2, <2>3, <2>4 DEF TypeInv
<1>2. CASE handleNewAskFile
  <2>1. UNCHANGED <<compositor_vars, outside_vars, watching, question, limited, questions,
                    answer>>
    BY <1>2 DEF handleNewAskFile
  <2>2. CompositorInv'
    BY <2>1 DEF TypeInv, CompositorInv, CompositorTypeOK, compositor_vars, outside_vars
  <2>3. tryToCreateUI \/ NewAskFileShown \/ UNCHANGED ui_vars
    BY <1>2 DEF handleNewAskFile
  <2>4. AgentTypeOK'
    BY <1>2, <2>1 DEF handleNewAskFile, findAskFile, LoopEnds, TypeInv, AgentTypeOK
  <2> QED
    BY <2>2, <2>3, <2>4, UiStepTyped DEF TypeInv
<1>3. CASE Dispatch
  <2>1. CompositorInv'
    BY <1>3, DispatchTyped DEF Dispatch, TypeInv
  <2>2. \/ tryToCreateUI
        \/ UNCHANGED ui_vars
        \/ /\ UNCHANGED <<ui, entry_vars, inactivityEnabled>>
           /\ \E s \in State : StateChanged(s)
    BY <1>3 DEF Dispatch
  <2>3. AgentTypeOK'
    BY <1>3 DEF Dispatch, LoopEnds, question_vars, TypeInv, AgentTypeOK
  <2> QED
    BY <2>1, <2>2, <2>3, UiStepTyped DEF TypeInv
<1>4. CASE Entry
  BY <1>4, EntryTyped
<1>5. CASE AnswerTaken \/ CodeRight \/ CodeWrong
  <2>1. UNCHANGED <<compositor_vars, agent_vars, ui_vars>>
    BY <1>5 DEF AnswerTaken, CodeRight, CodeWrong, Outside
  <2>2. CompositorInv'
    <3>1. CASE UNCHANGED outside_vars
      BY <2>1, <3>1 DEF TypeInv, CompositorInv, CompositorTypeOK, compositor_vars,
                        outside_vars
    <3>2. CASE CodeRight
      <4>1. "targetUnit" \in State /\ "active" \in Values["targetUnit"]
        BY DEF State, Values
      <4>2. changes' \in 0 .. MaxChanges
        BY <3>2 DEF CodeRight, TypeInv, CompositorInv, CompositorTypeOK
      <4> QED
        BY <2>1, <3>2, <4>1, <4>2, BecomesTyped DEF CodeRight, TypeInv
    <3> QED
      BY <1>5, <3>1, <3>2 DEF AnswerTaken, CodeWrong
  <2>3. UiTypeOK' /\ RuleTypeOK'
    BY <2>1, UiStepTyped DEF TypeInv
  <2>4. AgentTypeOK'
    <3>1. questions \in Int /\ 1 <= questions /\ questions <= MaxQuestions
          /\ MaxQuestions \in Nat
      BY QuestionsAssumption DEF TypeInv, AgentTypeOK
    <3>2. questions' = questions
          \/ (questions' = questions + 1 /\ questions < MaxQuestions)
      BY <1>5 DEF AnswerTaken, CodeRight, CodeWrong
    <3>3. questions' \in 1 .. MaxQuestions
      BY <3>1, <3>2
    <3>4. /\ question' \in BOOLEAN /\ newFile' \in BOOLEAN /\ limited' \in BOOLEAN
          /\ answer' \in {"none", "temporary", "code", "cancel"}
      <4>1. CASE AnswerTaken \/ CodeRight
        BY <1>5, <4>1 DEF AnswerTaken, CodeRight, TypeInv, AgentTypeOK
      <4>2. CASE CodeWrong
        <5>1. (watching /\ process \in {"temporary", "main"}) \in BOOLEAN
          OBVIOUS
        <5>2. newFile' \in BOOLEAN
          BY <4>2, <5>1, Zenon DEF CodeWrong
        <5> QED
          BY <4>2, <5>2 DEF CodeWrong, TimeLimit
      <4> QED
        BY <1>5, <4>1, <4>2
    <3> QED
      <4>1. process' = process /\ askFile' = askFile /\ watching' = watching
        BY <2>1 DEF agent_vars
      <4>2. process \in {"find", "watch", "temporary", "main", "exited"}
            /\ askFile \in BOOLEAN /\ watching \in BOOLEAN
        BY DEF TypeInv, AgentTypeOK
      <4> QED
        BY <3>3, <3>4, <4>1, <4>2 DEF AgentTypeOK
  <2> QED
    BY <2>2, <2>3, <2>4 DEF TypeInv
<1>6. CASE OthersChange \/ BusAnswers \/ ScreenTaken
  <2>1. /\ UNCHANGED <<compositor_vars, agent_vars, ui_vars, question_vars>>
        /\ Change \/ Proceed \/ Answer \/ NameTaken
    BY <1>6 DEF OthersChange, BusAnswers, ScreenTaken, Elsewhere, Outside
  <2>2. CompositorInv'
    BY <2>1, OutsideTyped DEF TypeInv
  <2>3. UiTypeOK' /\ RuleTypeOK'
    BY <2>1, UiStepTyped DEF TypeInv
  <2>4. AgentTypeOK'
    BY <2>1 DEF agent_vars, question_vars, TypeInv, AgentTypeOK
  <2> QED
    BY <2>2, <2>3, <2>4 DEF TypeInv
<1>7. CASE UNCHANGED vars
  <2>1. UNCHANGED <<compositor_vars, outside_vars, agent_vars, ui_vars, question_vars>>
    BY <1>7 DEF vars
  <2>2. CompositorInv'
    BY <2>1 DEF TypeInv, CompositorInv, CompositorTypeOK, compositor_vars, outside_vars
  <2>3. UiTypeOK' /\ RuleTypeOK'
    BY <2>1, UiStepTyped DEF TypeInv
  <2>4. AgentTypeOK'
    BY <2>1 DEF agent_vars, question_vars, TypeInv, AgentTypeOK
  <2> QED
    BY <2>2, <2>3, <2>4 DEF TypeInv
<1> QED
  BY <1>1, <1>2, <1>3, <1>4, <1>5, <1>6, <1>7 DEF Next, Entry

LEMMA InitTypes == Init => TypeInv
<1> SUFFICES ASSUME Init PROVE TypeInv
  OBVIOUS
<1>1. PICK start \in AtStart :
         /\ running = [p \in Peer |-> p \in start.running]
         /\ actual = [charger |-> start.charger, battery |-> start.battery,
                      updates |-> "unknown", dsmeState |-> "USER",
                      targetUnit |-> "inactive"]
  BY DEF Init, CompositorInit
<1>2. start.charger \in {"on", "off"} /\ start.battery \in {"ok", "empty"}
  BY StartAssumption
<1>3. /\ DOMAIN cached = State /\ \A s \in State : cached[s] = Unknown[s]
      /\ cached = [s \in State |-> cached[s]]
  BY DEF Init, CompositorInit, Unknown, State
<1>4. /\ DOMAIN actual = State
      /\ \A s \in State \ {"updates"} : actual[s] \in Values[s]
      /\ actual["updates"] = Unknown["updates"]
      /\ actual = [s \in State |-> actual[s]]
  BY <1>1, <1>2 DEF State, Values, Unknown
<1>5. cached \in [State -> Known] /\ actual \in [State -> Known]
  BY <1>3, <1>4 DEF Known
<1>6. CompositorTypeOK
  <2>1. bus \in Seq(Message) /\ Len(bus) <= MaxBus /\ changes \in 0 .. MaxChanges
    BY BoundAssumption DEF Init, CompositorInit
  <2>2. queries \subseteq Query /\ running \in [Peer -> BOOLEAN]
    BY <1>1 DEF Init, CompositorInit, Query
  <2>3. nameOwner \in [Peer -> {"owned", "none"}]
        /\ nameOwned \in BOOLEAN /\ replaceable \in BOOLEAN
    BY DEF Init, CompositorInit
  <2> QED
    BY <1>3, <1>4, <2>1, <2>2, <2>3 DEF CompositorTypeOK
<1>7. UiTypeOK /\ RuleTypeOK /\ AgentTypeOK
  <2>1. 1 \in 1 .. MaxQuestions
    BY QuestionsAssumption
  <2> QED
    BY <2>1 DEF Init, TimeLimit, UiTypeOK, RuleTypeOK, AgentTypeOK
<1>8. \A i \in DOMAIN bus : Sensible(bus[i])
  BY DEF Init, CompositorInit
<1> QED
  BY <1>4, <1>5, <1>6, <1>7, <1>8 DEF TypeInv, CompositorInv

\* Every variable of the unlock screen keeps its type: no owner is an empty string and
\* no state gets the value of another one (compositor.cpp, the handlers of the messages).
THEOREM UnlockTyped == Spec => []UnlockTypeOK
<1>1. TypeInv /\ [Next]_vars => TypeInv'
  BY TypeStep
<1>2. TypeInv => UnlockTypeOK
  BY DEF TypeInv, CompositorInv, UiTypeOK, RuleTypeOK, AgentTypeOK, UnlockTypeOK
<1> QED
  BY <1>1, <1>2, InitTypes, PTL DEF Spec

-----------------------------------------------------------------------------
(* The shutdown rules *)

\* ShutdownTimersRight is not inductive: the code entry that is created must find
\* its rules switched off, and it is only created in the main loop.
RulesInv ==
    /\ ui => process \in {"main", "exited"}
    /\ ui => /\ inactivityTimer <=> MayShutDown(cached, inactivityEnabled, emergencyMode)
             /\ batteryTimer => ~batteryRequested /\ BatteryEmpty(cached, emergencyMode)
    /\ ~ui => ~inactivityEnabled /\ ~inactivityTimer /\ ~batteryTimer

\* A timer that is started runs if the rules allow it, provided that it did not run
\* against the rules before.
LEMMA StartedRight ==
    ASSUME RuleTypeOK, startInactivityShutdownTimer,
           inactivityTimer => MayShutDown(cached', inactivityEnabled', emergencyMode')
    PROVE  inactivityTimer' <=> MayShutDown(cached', inactivityEnabled', emergencyMode')
<1>1. MayShutDown(cached', inactivityEnabled', emergencyMode') \in BOOLEAN
  BY DEF MayShutDown
<1> HIDE DEF MayShutDown
<1> QED
  BY <1>1 DEF startInactivityShutdownTimer, RuleTypeOK

\* What the handler of the empty battery leaves is right.
LEMMA ConsideredRight ==
    ASSUME considerBatteryEmptyShutdown, UNCHANGED batteryRequested
    PROVE  batteryTimer' => ~batteryRequested' /\ BatteryEmpty(cached', emergencyMode')
BY DEF considerBatteryEmptyShutdown

\* Switching the inactivity rule on or off.
LEMMA SwitchedRight ==
    ASSUME TypeInv, NEW isEnabled \in BOOLEAN, setInactivityShutdownEnabled(isEnabled),
           \/ ui /\ RulesInv /\ UNCHANGED <<emergencyMode, cached>>
           \/ ~inactivityEnabled /\ ~inactivityTimer /\ isEnabled
    PROVE  inactivityTimer' <=> MayShutDown(cached', inactivityEnabled', emergencyMode')
<1>1. RuleTypeOK /\ inactivityEnabled' = isEnabled
  BY DEF TypeInv, setInactivityShutdownEnabled
<1>2. CASE isEnabled = inactivityEnabled
  BY <1>1, <1>2 DEF RulesInv, setInactivityShutdownEnabled, RuleTypeOK
<1>3. CASE isEnabled # inactivityEnabled /\ isEnabled
  <2>1. ~inactivityTimer /\ startInactivityShutdownTimer
    BY <1>1, <1>3
    DEF RulesInv, MayShutDown, setInactivityShutdownEnabled, RuleTypeOK
  <2> QED
    BY <1>1, <2>1, StartedRight
<1>4. CASE isEnabled # inactivityEnabled /\ ~isEnabled
  BY <1>1, <1>4
  DEF MayShutDown, setInactivityShutdownEnabled, stopInactivityShutdownTimer
<1> QED
  BY <1>2, <1>3, <1>4

\* Keys and timers keep to the rules.
LEMMA EntryRules ==
    ASSUME TypeInv, RulesInv, Entry,
           emergencyMode => ui, sendTimer => ui
    PROVE  RulesInv'
<1>1. RuleTypeOK /\ UNCHANGED <<ui, process, cached>>
  BY DEF TypeInv, Entry, KeyEdits, KeyEnters, EmergencyButton, EmergencyLeft, KeyPressed,
     SendTimerFires, InactivityTimerFires, BatteryTimerFires, agent_vars,
     compositor_vars, ui_vars
<1>2. ui
  BY DEF Entry, KeyEdits, KeyEnters, EmergencyButton, EmergencyLeft, KeyPressed,
     SendTimerFires, InactivityTimerFires, BatteryTimerFires, RulesInv
<1>3. CASE KeyEdits \/ KeyEnters
  BY <1>1, <1>2, <1>3
  DEF KeyEdits, KeyEnters, KeyPressed, restartInactivityShutdownTimer, RulesInv
<1>4. ASSUME NEW emergency \in BOOLEAN, emergencyModeChanged(emergency),
             emergency # emergencyMode, emergencyMode \in BOOLEAN,
             UNCHANGED <<inactivityEnabled, batteryRequested>>
      PROVE  RulesInv'
  <2>1. emergencyMode' = emergency /\ considerBatteryEmptyShutdown
    BY <1>4 DEF emergencyModeChanged
  <2>2. inactivityTimer' <=> MayShutDown(cached', inactivityEnabled', emergencyMode')
    <3>1. CASE emergency
      BY <1>4, <2>1, <3>1
      DEF emergencyModeChanged, stopInactivityShutdownTimer, MayShutDown
    <3>2. CASE ~emergency
      <4>1. startInactivityShutdownTimer /\ ~inactivityTimer
        BY <1>2, <1>4, <3>2 DEF emergencyModeChanged, RulesInv, MayShutDown
      <4> QED
        BY <1>1, <4>1, StartedRight
    <3> QED
      BY <3>1, <3>2
  <2>3. batteryTimer' => ~batteryRequested' /\ BatteryEmpty(cached', emergencyMode')
    BY <1>4, <2>1, ConsideredRight
  <2> QED
    BY <1>1, <1>2, <2>2, <2>3 DEF RulesInv
<1>5. CASE EmergencyButton \/ EmergencyLeft
  <2>1. emergencyMode \in BOOLEAN
    BY DEF TypeInv, UiTypeOK
  <2> QED
    BY <1>4, <1>5, <2>1 DEF EmergencyButton, EmergencyLeft, KeyPressed
<1>6. CASE SendTimerFires
  <2>1. /\ setInactivityShutdownEnabled(FALSE)
        /\ UNCHANGED <<cached, emergencyMode, batteryRequested, batteryTimer>>
    BY <1>1, <1>6 DEF SendTimerFires, disableAll
  <2>2. inactivityTimer' <=> MayShutDown(cached', inactivityEnabled', emergencyMode')
    BY <1>2, <2>1, SwitchedRight
  <2> QED
    BY <1>1, <1>2, <2>1, <2>2 DEF RulesInv
<1>7. CASE InactivityTimerFires
  BY <1>1, <1>2, <1>7
  DEF InactivityTimerFires, stopInactivityShutdownTimer, MayShutDown, RulesInv,
      entry_vars
<1>8. CASE BatteryTimerFires
  BY <1>1, <1>2, <1>8 DEF BatteryTimerFires, RulesInv, entry_vars
<1> QED
  BY <1>3, <1>5, <1>6, <1>7, <1>8 DEF Entry

\* A code entry that is created keeps to the rules.
LEMMA CreatedRules ==
    ASSUME TypeInv, RulesInv, tryToCreateUI, ~ui, process' = "main"
    PROVE  RulesInv'
<1>1. CASE PinUi
  <2>1. /\ ui' = TRUE /\ batteryTimer' = FALSE
        /\ setInactivityShutdownEnabled(TRUE)
    BY <1>1 DEF PinUi
  <2>2. inactivityTimer' <=> MayShutDown(cached', inactivityEnabled', emergencyMode')
    BY <2>1, SwitchedRight DEF RulesInv
  <2> QED
    BY <2>1, <2>2 DEF RulesInv
<1>2. CASE UNCHANGED ui_vars
  BY <1>2 DEF RulesInv, ui_vars, rule_vars
<1> QED
  BY <1>1, <1>2 DEF tryToCreateUI

\* A message changes at most one of the cached states.
LEMMA DispatchOne ==
    ASSUME CompositorInv, Dispatched(Head(bus))
    PROVE  \E s \in State : \A t \in State \ {s} : cached'[t] = cached[t]
<1> DEFINE m == Head(bus)
<1>1. CASE m.of \in State /\ StateChanges(m.of, m.value)
  BY <1>1 DEF StateChanges, CompositorInv
<1>2. CASE OwnerChanges(m.of, m.value)
  BY <1>2 DEF OwnerChanges, CompositorInv, State
<1>3. CASE UNCHANGED cached
  BY <1>3 DEF State
<1> QED
  BY <1>1, <1>2, <1>3 DEF Dispatched

\* The handlers of a state that has changed keep to the rules.
LEMMA StateRules ==
    ASSUME TypeInv, CompositorTypeOK', RulesInv, ui, NEW s \in State, StateChanged(s),
           \A t \in State \ {s} : cached'[t] = cached[t], cached'[s] # cached[s],
           UNCHANGED <<ui, emergencyMode, inactivityEnabled>>
    PROVE  /\ inactivityTimer' <=> MayShutDown(cached', inactivityEnabled', emergencyMode')
           /\ batteryTimer' => ~batteryRequested' /\ BatteryEmpty(cached', emergencyMode')
<1>1. RuleTypeOK
  BY DEF TypeInv
<1>2. CASE s \in {"charger", "targetUnit"}
  <2>1. StopsOrStarts(cached'[s] \in {"on", "active"})
    BY <1>2 DEF StateChanged
  <2>2. batteryTimer' => ~batteryRequested' /\ BatteryEmpty(cached', emergencyMode')
    BY <2>1, ConsideredRight DEF StopsOrStarts
  <2>3. CASE cached'[s] \in {"on", "active"}
    <3>1. cached'[s] \in Values[s] \cup {Unknown[s]}
      BY DEF CompositorTypeOK
    <3>2. (s = "charger" /\ cached'[s] = "on")
          \/ (s = "targetUnit" /\ cached'[s] = "active")
      BY <1>2, <2>3, <3>1 DEF Values, Unknown
    <3>3. inactivityTimer' = FALSE
      BY <2>1, <2>3 DEF StopsOrStarts, stopInactivityShutdownTimer
    <3> QED
      BY <2>2, <3>2, <3>3 DEF MayShutDown
  <2>4. CASE cached'[s] \notin {"on", "active"}
    <3>1. startInactivityShutdownTimer
      BY <2>1, <2>4 DEF StopsOrStarts
    <3>2. inactivityTimer => MayShutDown(cached', inactivityEnabled', emergencyMode')
      BY <1>2, <2>4 DEF RulesInv, MayShutDown, State
    <3> QED
      BY <1>1, <2>2, <3>1, <3>2, StartedRight
  <2> QED
    BY <2>3, <2>4
<1>3. CASE s = "battery"
  <2>1. considerBatteryEmptyShutdown /\ UNCHANGED <<inactivityTimer, batteryRequested>>
    BY <1>3 DEF StateChanged
  <2>2. batteryTimer' => ~batteryRequested' /\ BatteryEmpty(cached', emergencyMode')
    BY <2>1, ConsideredRight
  <2> QED
    BY <1>3, <2>1, <2>2 DEF RulesInv, MayShutDown, State
<1>4. CASE s = "dsmeState"
  <2>1. dsmeStateChanged
    BY <1>4 DEF StateChanged
  <2>2. CASE cached'["dsmeState"] = "USER"
    <3>1. startInactivityShutdownTimer /\ ~inactivityTimer
      BY <1>4, <2>1, <2>2 DEF dsmeStateChanged, RulesInv, MayShutDown
    <3>2. batteryTimer' => ~batteryRequested' /\ BatteryEmpty(cached', emergencyMode')
      BY <2>1, <2>2, ConsideredRight DEF dsmeStateChanged
    <3> QED
      BY <1>1, <3>1, <3>2, StartedRight
  <2>3. CASE cached'["dsmeState"] # "USER"
    BY <2>1, <2>3 DEF dsmeStateChanged, stopInactivityShutdownTimer, MayShutDown
  <2> QED
    BY <2>2, <2>3
<1> QED
  BY <1>2, <1>3, <1>4 DEF StateChanged

\* A message keeps to the rules.
LEMMA DispatchRules ==
    ASSUME TypeInv, RulesInv, Dispatch
    PROVE  RulesInv'
<1> DEFINE changed == {s \in State : cached'[s] # cached[s]}
<1>1. /\ Dispatched(Head(bus)) /\ process \in {"temporary", "main"}
      /\ process' \in {process, "main", "exited"}
  BY DEF Dispatch, LoopEnds
<1>2. CompositorTypeOK'
  BY <1>1, DispatchTyped DEF TypeInv, CompositorInv
<1>3. PICK s \in State : \A t \in State \ {s} : cached'[t] = cached[t]
  BY <1>1, DispatchOne DEF TypeInv
<1>4. ui => process = "main" /\ process' \in {"main", "exited"}
  BY <1>1 DEF RulesInv
<1>5. CASE ui /\ changed \notin {{}, {"updates"}}
  <2>1. UNCHANGED <<ui, entry_vars, inactivityEnabled>>
        /\ \E t \in changed : StateChanged(t)
    BY <1>5 DEF Dispatch
  <2>2. cached'[s] # cached[s] /\ StateChanged(s)
    BY <1>3, <2>1
  <2>3. UNCHANGED <<ui, emergencyMode, inactivityEnabled>>
    BY <2>1 DEF entry_vars
  <2> QED
    BY <1>2, <1>3, <1>4, <1>5, <2>2, <2>3, StateRules DEF RulesInv
<1>6. CASE ui /\ changed \in {{}, {"updates"}}
  <2>1. UNCHANGED ui_vars
    BY <1>6 DEF Dispatch, tryToCreateUI
  <2>2. \A t \in State \ {"updates"} : cached'[t] = cached[t]
    BY <1>6
  <2>3. UNCHANGED <<ui, emergencyMode, inactivityEnabled, inactivityTimer,
                    batteryRequested, batteryTimer>>
    BY <2>1 DEF ui_vars, entry_vars, rule_vars
  <2> QED
    BY <1>4, <1>6, <2>2, <2>3 DEF RulesInv, MayShutDown, BatteryEmpty, State
<1>7. CASE ~ui
  <2>1. CASE process' = "main" /\ tryToCreateUI
    BY <1>7, <2>1, CreatedRules
  <2>2. CASE UNCHANGED ui_vars
    BY <1>7, <2>2 DEF RulesInv, ui_vars, rule_vars
  <2> QED
    BY <1>7, <2>1, <2>2 DEF Dispatch
<1> QED
  BY <1>5, <1>6, <1>7

\* A new question keeps to the rules.
LEMMA QuestionRules ==
    ASSUME TypeInv, RulesInv, handleNewAskFile
    PROVE  RulesInv'
<1>1. UNCHANGED cached
  BY DEF handleNewAskFile, compositor_vars
<1>2. CASE UNCHANGED <<process, ui_vars>>
  BY <1>1, <1>2 DEF RulesInv, ui_vars, entry_vars, rule_vars
<1>3. CASE ui /\ NewAskFileShown /\ UNCHANGED process
  <2>1. UNCHANGED <<ui, emergencyMode, batteryRequested, batteryTimer>>
    BY <1>3 DEF NewAskFileShown
  <2>2. CASE setInactivityShutdownEnabled(TRUE)
    <3>1. inactivityTimer' <=> MayShutDown(cached', inactivityEnabled', emergencyMode')
      BY <1>1, <1>3, <2>1, <2>2, SwitchedRight
    <3> QED
      BY <1>1, <1>3, <2>1, <3>1 DEF RulesInv
  <2>3. CASE UNCHANGED <<inactivityEnabled, inactivityTimer>>
    BY <1>1, <1>3, <2>1, <2>3 DEF RulesInv
  <2> QED
    BY <1>3, <2>2, <2>3 DEF NewAskFileShown, showError, enabledAll
<1>4. CASE ~ui /\ LoopEnds
           /\ IF process' = "main" THEN tryToCreateUI ELSE UNCHANGED ui_vars
  <2>1. CASE process' = "main"
    BY <1>4, <2>1, CreatedRules
  <2>2. CASE process' # "main"
    BY <1>4, <2>2 DEF RulesInv, ui_vars, rule_vars
  <2> QED
    BY <2>1, <2>2
<1> QED
  BY <1>2, <1>3, <1>4 DEF handleNewAskFile

\* Before the code entry is there, nothing of it is on.
EntryOff == ~ui => ~emergencyMode /\ ~sendTimer /\ ~enabled

LEMMA EntryOffStep ==
    ASSUME EntryOff, [Next]_vars
    PROVE  EntryOff'
<1>1. CASE UNCHANGED <<ui, entry_vars>>
  BY <1>1 DEF EntryOff, entry_vars
<1>2. CASE UNCHANGED ui_vars
  BY <1>1, <1>2 DEF ui_vars
<1>3. CASE ui' = TRUE
  BY <1>3 DEF EntryOff
<1>4. CASE ui /\ UNCHANGED ui
  BY <1>4 DEF EntryOff
<1>5. Entry => (ui /\ UNCHANGED ui) \/ UNCHANGED <<ui, entry_vars>>
  BY DEF Entry, KeyEdits, KeyEnters, EmergencyButton, EmergencyLeft, KeyPressed,
     SendTimerFires, InactivityTimerFires, BatteryTimerFires, EntryOff
<1>6. tryToCreateUI => ui' = TRUE \/ UNCHANGED ui_vars
  BY DEF tryToCreateUI, PinUi
<1>7. handleNewAskFile \/ Dispatch
         => UNCHANGED <<ui, entry_vars>> \/ UNCHANGED ui_vars \/ ui' = TRUE
            \/ (ui /\ UNCHANGED ui)
  BY <1>6 DEF handleNewAskFile, Dispatch, NewAskFileShown
<1>8. FindsQuestion \/ StartsLoop \/ AnswerTaken \/ CodeRight \/ CodeWrong
         \/ OthersChange \/ BusAnswers \/ ScreenTaken \/ UNCHANGED vars
         => UNCHANGED ui_vars
  BY DEF FindsQuestion, StartsLoop, AnswerTaken, CodeRight, CodeWrong, OthersChange,
     BusAnswers, ScreenTaken, Elsewhere, Outside, vars
<1> QED
  BY <1>1, <1>2, <1>3, <1>4, <1>5, <1>7, <1>8 DEF Next, Entry

LEMMA RulesStep ==
    ASSUME TypeInv, RulesInv, EntryOff, [Next]_vars
    PROVE  RulesInv'
<1>1. CASE Entry
  BY <1>1, EntryRules DEF EntryOff
<1>2. CASE Dispatch
  BY <1>2, DispatchRules
<1>3. CASE handleNewAskFile
  BY <1>3, QuestionRules
<1>4. CASE FindsQuestion \/ StartsLoop
  <2>1. UNCHANGED ui_vars /\ ~ui
    BY <1>4 DEF FindsQuestion, StartsLoop, RulesInv
  <2> QED
    BY <2>1 DEF RulesInv, ui_vars, rule_vars
<1>5. CASE AnswerTaken \/ CodeRight \/ CodeWrong \/ OthersChange \/ BusAnswers
           \/ ScreenTaken \/ UNCHANGED vars
  <2>1. UNCHANGED <<compositor_vars, agent_vars, ui_vars>>
    BY <1>5 DEF AnswerTaken, CodeRight, CodeWrong, OthersChange, BusAnswers,
       ScreenTaken, Elsewhere, Outside, vars
  <2>2. UNCHANGED <<cached, process, ui, emergencyMode, rule_vars>>
    BY <2>1 DEF compositor_vars, agent_vars, ui_vars, entry_vars
  <2> QED
    BY <2>2 DEF RulesInv, rule_vars
<1> QED
  BY <1>1, <1>2, <1>3, <1>4, <1>5 DEF Next, Entry

\* While the code is waited for, the inactivity timer runs exactly when the rules say
\* so, and a battery timer that runs has a reason to: none of the handlers, which each
\* start or stop the timers on its own, forgets to stop one (pin.cpp:340 and 379).
THEOREM ShutdownRulesKept == Spec => []ShutdownTimersRight
<1>1. Init => RulesInv /\ EntryOff
  BY DEF Init, RulesInv, EntryOff
<1>2. TypeInv /\ RulesInv /\ EntryOff /\ [Next]_vars => (TypeInv /\ RulesInv /\ EntryOff)'
  BY TypeStep, RulesStep, EntryOffStep
<1>3. TypeInv /\ RulesInv => ShutdownTimersRight
  <2>1. SUFFICES ASSUME TypeInv, RulesInv, process = "main", ui
                 PROVE  /\ inactivityTimer
                              = MayShutDown(cached, inactivityEnabled, emergencyMode)
                        /\ batteryTimer =>
                              ~batteryRequested /\ BatteryEmpty(cached, emergencyMode)
    BY DEF ShutdownTimersRight
  <2>2. inactivityTimer \in BOOLEAN
        /\ MayShutDown(cached, inactivityEnabled, emergencyMode) \in BOOLEAN
    BY <2>1 DEF TypeInv, RuleTypeOK, MayShutDown
  <2>3. inactivityTimer = MayShutDown(cached, inactivityEnabled, emergencyMode)
    <3>1. inactivityTimer <=> MayShutDown(cached, inactivityEnabled, emergencyMode)
      BY <2>1 DEF RulesInv
    <3>2. ASSUME NEW a \in BOOLEAN, NEW b \in BOOLEAN, a <=> b PROVE a = b
      BY <3>2
    <3> QED
      BY <2>2, <3>1, <3>2
  <2> QED
    BY <2>1, <2>3 DEF RulesInv
<1> QED
  BY <1>1, <1>2, <1>3, InitTypes, PTL DEF Spec

\* What a handler of the rule of the empty battery leaves behind.
LEMMA FollowsByDispatch ==
    ASSUME TypeInv, RulesInv, ui, Dispatch, BatteryRule' # BatteryRule
    PROVE  batteryTimer' = (~batteryRequested' /\ BatteryEmpty(cached', emergencyMode'))
<1> DEFINE changed == {s \in State : cached'[s] # cached[s]}
<1>1. PICK s \in State : \A t \in State \ {s} : cached'[t] = cached[t]
  BY DispatchOne DEF TypeInv, Dispatch
<1>2. UNCHANGED emergencyMode
  BY DEF Dispatch, tryToCreateUI, ui_vars, entry_vars
<1>3. \E t \in State \ {"updates"} : cached'[t] # cached[t]
  BY <1>2 DEF BatteryRule
<1>4. s # "updates" /\ cached'[s] # cached[s] /\ changed \notin {{}, {"updates"}}
  BY <1>1, <1>3
<1>5. \E t \in changed : StateChanged(t)
  BY <1>4 DEF Dispatch
<1>6. StateChanged(s)
  BY <1>1, <1>5
<1>7. CASE s \in {"charger", "targetUnit"}
  BY <1>6, <1>7 DEF StateChanged, StopsOrStarts, considerBatteryEmptyShutdown
<1>8. CASE s = "battery"
  BY <1>6, <1>8 DEF StateChanged, considerBatteryEmptyShutdown
<1>9. CASE s = "dsmeState"
  <2>1. dsmeStateChanged
    BY <1>6, <1>9 DEF StateChanged
  <2>2. CASE cached'["dsmeState"] = "USER"
    BY <2>1, <2>2 DEF dsmeStateChanged, considerBatteryEmptyShutdown
  <2>3. CASE cached'["dsmeState"] # "USER"
    <3>1. batteryTimer' = FALSE /\ ~BatteryEmpty(cached', emergencyMode')
      BY <2>1, <2>3 DEF dsmeStateChanged, BatteryEmpty
    <3> QED
      BY <3>1
  <2> QED
    BY <2>2, <2>3
<1> QED
  BY <1>4, <1>7, <1>8, <1>9 DEF State

\* Whatever the rule of the empty battery depends on, its change is considered where it
\* is noticed: five handlers start or stop the timer, and none forgets to
\* (pin.cpp:311, 543, 548, 567 and 618).
THEOREM BatteryRuleKept == Spec => BatteryRuleFollowed
<1> DEFINE Followed ==
        ui /\ process' = "main" /\ BatteryRule' # BatteryRule
            => batteryTimer' = (~batteryRequested'
                                   /\ BatteryEmpty(cached', emergencyMode'))
<1>1. Init => RulesInv /\ EntryOff
  BY DEF Init, RulesInv, EntryOff
<1>2. TypeInv /\ RulesInv /\ EntryOff /\ [Next]_vars => (TypeInv /\ RulesInv /\ EntryOff)'
  BY TypeStep, RulesStep, EntryOffStep
<1>3. ASSUME TypeInv, RulesInv, [Next]_vars
      PROVE  Followed
  <2>1. SUFFICES ASSUME ui, BatteryRule' # BatteryRule
                 PROVE  batteryTimer' = (~batteryRequested'
                                            /\ BatteryEmpty(cached', emergencyMode'))
    OBVIOUS
  <2>2. CASE Dispatch
    BY <1>3, <2>1, <2>2, FollowsByDispatch
  <2>3. CASE EmergencyButton \/ EmergencyLeft
    BY <2>3 DEF EmergencyButton, EmergencyLeft, KeyPressed, emergencyModeChanged,
       considerBatteryEmptyShutdown
  <2>4. ~(UNCHANGED <<cached, emergencyMode>>)
    BY <2>1 DEF BatteryRule
  <2>5. CASE KeyEdits \/ KeyEnters \/ SendTimerFires \/ InactivityTimerFires
             \/ BatteryTimerFires
    BY <2>4, <2>5
    DEF KeyEdits, KeyEnters, KeyPressed, SendTimerFires, InactivityTimerFires,
        BatteryTimerFires, compositor_vars, entry_vars
  <2>6. CASE handleNewAskFile
    <3>1. UNCHANGED cached
      BY <2>6 DEF handleNewAskFile, compositor_vars
    <3>2. UNCHANGED emergencyMode
      BY <2>1, <2>6 DEF handleNewAskFile, NewAskFileShown, ui_vars, entry_vars
    <3> QED
      BY <2>4, <3>1, <3>2
  <2>7. CASE FindsQuestion \/ StartsLoop
    BY <2>4, <2>7 DEF FindsQuestion, StartsLoop, compositor_vars, ui_vars, entry_vars
  <2>8. CASE AnswerTaken \/ CodeRight \/ CodeWrong \/ OthersChange \/ BusAnswers
             \/ ScreenTaken \/ UNCHANGED vars
    BY <2>4, <2>8
    DEF AnswerTaken, CodeRight, CodeWrong, OthersChange, BusAnswers, ScreenTaken,
        Elsewhere, Outside, vars, compositor_vars, ui_vars, entry_vars
  <2> QED
    BY <1>3, <2>2, <2>3, <2>5, <2>6, <2>7, <2>8 DEF Next
<1>4. TypeInv /\ RulesInv /\ [Next]_vars => [Followed]_vars
  BY <1>3
<1> HIDE DEF Followed
<1>5. Spec => [][Followed]_vars
  BY <1>1, <1>2, <1>4, InitTypes, PTL DEF Spec
<1> QED
  BY <1>5 DEF Followed, BatteryRuleFollowed

-----------------------------------------------------------------------------
(* Once home is mounted *)

Tells(value) == [of |-> "targetUnit", value |-> value]

\* Home stays mounted, and the unlock screen learns it once and for all: nothing that
\* is still on its way takes it back.  Only then the name may be taken.
ActiveInv ==
    /\ actual["targetUnit"] = "inactive" =>
          /\ cached["targetUnit"] = "inactive"
          /\ \A i \in DOMAIN bus : bus[i] # Tells("active")
    /\ cached["targetUnit"] = "active" =>
          \A i \in DOMAIN bus : bus[i] # Tells("inactive")
    /\ \A i, j \in DOMAIN bus :
          i < j /\ bus[i] = Tells("active") => bus[j] # Tells("inactive")
    /\ replaceable => cached["targetUnit"] = "active"
    /\ (\E i \in DOMAIN bus : bus[i].of = "NameLost") => replaceable

\* Nothing that happens outside takes it back.
LEMMA ActiveArrives ==
    ASSUME CompositorInv, ActiveInv, UNCHANGED compositor_vars,
           actual["targetUnit"] = "active" => actual'["targetUnit"] = "active",
           \/ UNCHANGED bus
           \/ \E of \in State \cup Peer \cup {"NameLost"} : \E value :
                 /\ Arrives(of, value)
                 /\ of = "targetUnit" => value = actual'["targetUnit"]
                 /\ of = "NameLost" => replaceable
    PROVE  ActiveInv'
<1>1. actual["targetUnit"] \in {"active", "inactive"} /\ bus \in Seq(Message)
  BY DEF CompositorInv, CompositorTypeOK, State, Values
<1>2. UNCHANGED <<cached, replaceable>>
  BY DEF compositor_vars
<1>3. CASE UNCHANGED bus
  BY <1>1, <1>2, <1>3 DEF ActiveInv
<1>4. ASSUME NEW of \in State \cup Peer \cup {"NameLost"}, NEW value, Arrives(of, value),
             of = "targetUnit" => value = actual'["targetUnit"],
             of = "NameLost" => replaceable
      PROVE  ActiveInv'
  <2> DEFINE m == [of |-> of, value |-> value]
  <2>1. bus' = Append(bus, m) /\ Len(bus) \in Nat /\ DOMAIN bus = 1 .. Len(bus)
    BY <1>1, <1>4 DEF Arrives
  <2>2. /\ DOMAIN bus' = 1 .. Len(bus) + 1
        /\ \A i \in DOMAIN bus : bus'[i] = bus[i]
        /\ bus'[Len(bus) + 1] = m
    BY <1>1, <2>1, AppendFacts
  <2> DEFINE n == Len(bus)
  <2>3. n \in Nat /\ DOMAIN bus = 1 .. n /\ DOMAIN bus' = 1 .. n + 1
    BY <2>1, <2>2
  <2> HIDE DEF n
  <2>4. \A i \in DOMAIN bus' : i \in DOMAIN bus \/ i = n + 1
    BY <2>3
  <2>5. /\ m = Tells("active") => actual'["targetUnit"] = "active"
        /\ m = Tells("inactive") => actual["targetUnit"] = "inactive"
    BY <1>1, <1>4 DEF Tells
  <2>6. /\ actual'["targetUnit"] = "inactive" =>
              /\ cached'["targetUnit"] = "inactive"
              /\ \A i \in DOMAIN bus' : bus'[i] # Tells("active")
        /\ cached'["targetUnit"] = "active" =>
              \A i \in DOMAIN bus' : bus'[i] # Tells("inactive")
    BY <1>1, <1>2, <2>2, <2>4, <2>5 DEF ActiveInv, n
  <2>7. ASSUME NEW i \in DOMAIN bus', NEW j \in DOMAIN bus',
               i < j, bus'[i] = Tells("active")
        PROVE  bus'[j] # Tells("inactive")
    <3>1. i \in DOMAIN bus
      BY <2>7, <2>3
    <3>2. actual["targetUnit"] = "active"
      BY <1>1, <2>2, <2>7, <3>1 DEF ActiveInv
    <3>3. CASE j \in DOMAIN bus
      BY <2>2, <2>7, <3>1, <3>3 DEF ActiveInv
    <3>4. CASE j = n + 1
      BY <2>2, <2>5, <3>2, <3>4 DEF n
    <3> QED
      BY <2>4, <3>3, <3>4
  <2>8. (\E i \in DOMAIN bus' : bus'[i].of = "NameLost") => replaceable'
    BY <1>2, <1>4, <2>2, <2>4 DEF ActiveInv, n
  <2> QED
    BY <1>2, <2>6, <2>7, <2>8 DEF ActiveInv
<1> QED
  BY <1>3, <1>4

LEMMA ActiveOutside ==
    ASSUME CompositorInv, ActiveInv, UNCHANGED compositor_vars,
           Change \/ Proceed \/ Answer \/ NameTaken \/ Becomes("targetUnit", "active")
    PROVE  ActiveInv'
<1>1. State \cup Peer \cup {"NameLost"}
         = {"charger", "battery", "updates", "dsmeState", "targetUnit", "mce", "dsme",
            "NameLost"}
  BY DEF State, Peer
<1>2. ASSUME NEW state \in State, NEW value, Becomes(state, value),
             state # "targetUnit" \/ value = "active"
      PROVE  ActiveInv'
  <2>1. /\ actual["targetUnit"] = "active" => actual'["targetUnit"] = "active"
        /\ state = "targetUnit" => value = actual'["targetUnit"]
        /\ state # "NameLost"
    BY <1>2 DEF Becomes, CompositorInv, State
  <2>2. UNCHANGED bus \/ Arrives(state, value)
    BY <1>2 DEF Becomes
  <2> QED
    BY <1>1, <2>1, <2>2, ActiveArrives
<1>3. ASSUME NEW peer \in Peer, NEW value, UNCHANGED actual,
             UNCHANGED bus \/ Arrives(peer, value)
      PROVE  ActiveInv'
  <2>1. peer # "targetUnit" /\ peer # "NameLost"
    BY DEF Peer
  <2> QED
    BY <1>1, <1>3, <2>1, ActiveArrives
<1>4. CASE Change
  <2>1. "charger" \in State /\ "battery" \in State /\ "updates" \in State
    BY DEF State
  <2>2. ASSUME NEW peer \in Peer, PeerStops(peer) PROVE ActiveInv'
    BY <2>2, <1>3 DEF PeerStops
  <2> QED
    BY <1>4, <1>2, <2>1, <2>2 DEF Change
<1>5. CASE Proceed
  <2>1. "dsmeState" \in State /\ "updates" \in State
    BY DEF State
  <2>2. ASSUME NEW peer \in Peer, PeerStarts(peer) PROVE ActiveInv'
    BY <2>2, <1>3 DEF PeerStarts
  <2> QED
    BY <1>5, <1>2, <2>1, <2>2 DEF Proceed
<1>6. CASE Answer
  <2>1. ASSUME NEW peer \in Peer, OwnerAnswered(peer) PROVE ActiveInv'
    BY <2>1, <1>3 DEF OwnerAnswered, TakesQuery
  <2>2. ASSUME NEW state \in State \cap Query, StateAnswered(state) PROVE ActiveInv'
    <3>1. UNCHANGED actual /\ Arrives(state, actual[state]) /\ state # "NameLost"
      BY <2>2 DEF StateAnswered, TakesQuery, State
    <3>2. state = "targetUnit" => actual[state] = actual'["targetUnit"]
      BY <3>1
    <3> QED
      BY <1>1, <3>1, <3>2, ActiveArrives
  <2>3. CASE Subscribed
    BY <2>3, ActiveArrives DEF Subscribed, TakesQuery
  <2> QED
    BY <1>6, <2>1, <2>2, <2>3 DEF Answer
<1>7. CASE NameTaken
  <2>1. UNCHANGED actual /\ Arrives("NameLost", "none") /\ replaceable
    BY <1>7 DEF NameTaken
  <2> QED
    BY <1>1, <2>1, ActiveArrives
<1>8. CASE Becomes("targetUnit", "active")
  BY <1>2, <1>8 DEF State
<1> QED
  BY <1>4, <1>5, <1>6, <1>7, <1>8

\* What is dispatched does not take it back, and the unlock screen leaves its event
\* loop only when home is mounted.
LEMMA ActiveDispatch ==
    ASSUME CompositorInv, ActiveInv, Dispatched(Head(bus))
    PROVE  /\ ActiveInv'
           /\ LeavesLoop => cached'["targetUnit"] = "active"
<1> DEFINE m == Head(bus)
<1>1. /\ bus' = Tail(bus) /\ bus' \in Seq(Message) /\ Sensible(m)
      /\ m = bus[1] /\ 1 \in DOMAIN bus
      /\ \A i \in DOMAIN bus' : i + 1 \in DOMAIN bus /\ bus'[i] = bus[i + 1]
      /\ DOMAIN bus' \subseteq Nat /\ m \in Message
  BY TailFacts DEF Dispatched, CompositorInv, CompositorTypeOK
<1>2. UNCHANGED actual /\ actual["targetUnit"] \in {"active", "inactive"}
      /\ cached["targetUnit"] \in {"active", "inactive"}
  BY DEF Dispatched, CompositorInv, CompositorTypeOK, State, Values, Unknown
<1>3. m = [of |-> m.of, value |-> m.value]
  BY <1>1 DEF Message
<1>4. \A i \in DOMAIN bus' : 1 < i + 1 /\ \A j \in DOMAIN bus' : i < j => i + 1 < j + 1
  BY <1>1
<1>5. /\ actual["targetUnit"] = "inactive" =>
            \A i \in DOMAIN bus' : bus'[i] # Tells("active")
      /\ \A i, j \in DOMAIN bus' :
            i < j /\ bus'[i] = Tells("active") => bus'[j] # Tells("inactive")
      /\ (\E i \in DOMAIN bus' : bus'[i].of = "NameLost") => replaceable
  BY <1>1, <1>4 DEF ActiveInv
<1>6. CASE m.of \in State /\ StateChanges(m.of, m.value)
  <2>1. UNCHANGED nameOwned /\ UnitChanges
    BY <1>6 DEF StateChanges
  <2>2. CASE m.of = "targetUnit"
    <3>1. cached'["targetUnit"] = m.value /\ m.value \in {"active", "inactive"}
      BY <1>1, <1>6, <2>2
      DEF StateChanges, CompositorInv, Sensible, State, Values
    <3>2. m = Tells(m.value)
      BY <1>3, <2>2 DEF Tells
    <3>3. actual["targetUnit"] = "inactive" => cached'["targetUnit"] = "inactive"
      BY <1>1, <3>1, <3>2 DEF ActiveInv
    <3>4. cached["targetUnit"] = "active" => cached'["targetUnit"] = "active"
      BY <1>1, <3>1, <3>2 DEF ActiveInv
    <3>5. cached'["targetUnit"] = "active" =>
             \A i \in DOMAIN bus' : bus'[i] # Tells("inactive")
      BY <1>1, <1>4, <3>1, <3>2 DEF ActiveInv
    <3>6. (replaceable' => cached'["targetUnit"] = "active")
          /\ (replaceable => replaceable')
      BY <2>1, <3>4
      DEF UnitChanges, evaluateReplacingAllowed, ActiveInv, CompositorInv,
          CompositorTypeOK
    <3>7. ActiveInv'
      BY <1>2, <1>5, <3>3, <3>5, <3>6 DEF ActiveInv
    <3> QED
      BY <2>1, <3>7 DEF LeavesLoop
  <2>3. CASE m.of # "targetUnit"
    <3>1. cached'["targetUnit"] = cached["targetUnit"]
      BY <1>6, <2>3 DEF StateChanges, CompositorInv, State
    <3>2. replaceable' = replaceable
      BY <2>1, <3>1 DEF UnitChanges
    <3>3. ActiveInv'
      BY <1>1, <1>2, <1>5, <3>1, <3>2 DEF ActiveInv
    <3> QED
      BY <2>1, <3>1, <3>3 DEF LeavesLoop
  <2> QED
    BY <2>2, <2>3
<1>7. CASE OwnerChanges(m.of, m.value) /\ UNCHANGED <<nameOwned, replaceable>>
  <2>1. cached'["targetUnit"] = cached["targetUnit"]
    BY <1>7 DEF OwnerChanges, CompositorInv, State
  <2>2. ActiveInv'
    BY <1>1, <1>2, <1>5, <1>7, <2>1 DEF ActiveInv
  <2> QED
    BY <1>7, <2>1, <2>2 DEF LeavesLoop
<1>8. CASE m.of = "NameLost" /\ UNCHANGED <<cached, replaceable>>
  <2>1. ActiveInv'
    BY <1>1, <1>2, <1>5, <1>8 DEF ActiveInv
  <2>2. cached["targetUnit"] = "active"
    BY <1>1, <1>8 DEF ActiveInv
  <2> QED
    BY <1>8, <2>1, <2>2
<1> QED
  BY <1>6, <1>7, <1>8 DEF Dispatched

LEMMA ActiveStep ==
    ASSUME TypeInv, ActiveInv, [Next]_vars
    PROVE  ActiveInv'
<1>1. CASE Dispatch
  BY <1>1, ActiveDispatch DEF Dispatch, TypeInv
<1>2. CASE CodeRight \/ OthersChange \/ BusAnswers \/ ScreenTaken
  BY <1>2, ActiveOutside
  DEF CodeRight, OthersChange, BusAnswers, ScreenTaken, Elsewhere, Outside, TypeInv
<1>3. ASSUME UNCHANGED <<compositor_vars, outside_vars>> PROVE ActiveInv'
  BY <1>3 DEF ActiveInv, compositor_vars, outside_vars
<1>4. CASE FindsQuestion \/ StartsLoop \/ handleNewAskFile \/ Entry \/ AnswerTaken
           \/ CodeWrong \/ UNCHANGED vars
  BY <1>3, <1>4
  DEF FindsQuestion, StartsLoop, handleNewAskFile, Entry, KeyEdits, KeyEnters,
      EmergencyButton, EmergencyLeft, KeyPressed, SendTimerFires,
      InactivityTimerFires, BatteryTimerFires, AnswerTaken, CodeWrong, Outside, vars
<1> QED
  BY <1>1, <1>2, <1>4 DEF Next, Entry

-----------------------------------------------------------------------------
(* The code *)

\* As long as keys can be pressed the question waits, nothing is being tried and no
\* new question is unread.  A code that is going to be sent has not been cleared.
CodeInv ==
    /\ answer # "cancel"
    /\ process \in {"find", "watch"} =>
          ~newFile /\ answer = "none" /\ question /\ ~ui
    /\ newFile => question /\ answer = "none"
    /\ process = "temporary" => answer # "code"
    /\ process = "main" =>
          /\ answer # "temporary"
          /\ ~ui => question /\ answer = "none" /\ ~newFile
          /\ enabled => question /\ answer = "none" /\ ~newFile
          /\ ui /\ ~enabled => ~sendTimer /\ canShowError /\ ~emergencyMode
          /\ sendTimer => text = "code" /\ canShowError /\ ~emergencyMode

AnswerInv == TypeInv /\ RulesInv /\ EntryOff /\ ActiveInv /\ CodeInv

\* The keys are disabled while a code is being tried or the keys are about to be
\* enabled, which takes a directory that is watched and a question that is found.
DeadInv ==
    /\ process \in {"temporary", "main"} => watching
    /\ ~limited
    /\ process = "main" /\ ui /\ ~enabled =>
           answer = "code" \/ newFile \/ actual["targetUnit"] = "active"

\* The main loop is entered from the temporary passphrase only with a new question.
LEMMA DispatchProcess ==
    ASSUME AnswerInv, Dispatch
    PROVE  /\ process' # process => process' = "exited"
           /\ \/ UNCHANGED <<ui, entry_vars>>
              \/ process = "main" /\ ~ui /\ PinUi
<1>1. /\ Dispatched(Head(bus)) /\ process \in {"temporary", "main"}
      /\ LeavesLoop => LoopEnds
      /\ ~LeavesLoop => UNCHANGED process
  BY DEF Dispatch
<1>2. LeavesLoop => process' = "exited"
  BY <1>1, ActiveDispatch DEF AnswerInv, TypeInv, LoopEnds
<1>3. process = "temporary" => ~ui /\ process' # "main"
  BY <1>1, <1>2 DEF AnswerInv, RulesInv
<1>4. \/ UNCHANGED ui_vars
      \/ UNCHANGED <<ui, entry_vars, inactivityEnabled>>
      \/ process' = "main" /\ ~ui /\ PinUi
  BY DEF Dispatch, tryToCreateUI
<1> QED
  BY <1>1, <1>2, <1>3, <1>4 DEF ui_vars

LEMMA CodeEntry ==
    ASSUME AnswerInv, Entry
    PROVE  /\ CodeInv'
           /\ Fault \cap KeyFaults = {} /\ DeadInv => DeadInv'
<1>1. /\ process = "main"
      /\ UNCHANGED <<process, watching, ui, question, limited, newFile, actual>>
      /\ ui
      /\ sendTimer \in BOOLEAN /\ emergencyMode \in BOOLEAN /\ enabled \in BOOLEAN
  BY DEF Entry, KeyEdits, KeyEnters, EmergencyButton, EmergencyLeft, KeyPressed,
     SendTimerFires, InactivityTimerFires, BatteryTimerFires, agent_vars, ui_vars,
     question_vars, outside_vars, AnswerInv, EntryOff, RulesInv, TypeInv, UiTypeOK
<1>2. CASE KeyEdits \/ KeyEnters \/ EmergencyButton \/ EmergencyLeft
  <2>1. enabled /\ UNCHANGED <<enabled, answer>>
    BY <1>1, <1>2
    DEF KeyEdits, KeyEnters, EmergencyButton, EmergencyLeft, KeyPressed,
        question_vars, AnswerInv, CodeInv
  <2>2. sendTimer' => text' = "code" /\ canShowError' /\ ~emergencyMode'
    BY <1>1, <1>2
    DEF KeyEdits, KeyEnters, EmergencyButton, EmergencyLeft, KeyPressed,
        emergencyModeChanged, AnswerInv, CodeInv
  <2> QED
    BY <1>1, <2>1, <2>2 DEF AnswerInv, CodeInv, DeadInv
<1>3. CASE SendTimerFires
  <2>1. /\ sendTimer /\ sendTimer' = FALSE /\ enabled' = FALSE
        /\ UNCHANGED <<canShowError, emergencyMode>>
        /\ Answers(IF text = "code" THEN "code" ELSE "cancel")
    BY <1>3 DEF SendTimerFires, disableAll
  <2>2. text = "code" /\ canShowError /\ enabled /\ ~emergencyMode
        /\ question /\ answer = "none" /\ ~newFile
    BY <1>1, <2>1 DEF AnswerInv, CodeInv
  <2>3. answer' = "code" \/ (Fault \cap KeyFaults # {} /\ answer' = "none")
    BY <2>1, <2>2 DEF Answers, KeyFaults
  <2> QED
    BY <1>1, <2>1, <2>2, <2>3 DEF AnswerInv, CodeInv, DeadInv
<1>4. CASE InactivityTimerFires \/ BatteryTimerFires
  <2>1. UNCHANGED <<answer, enabled, sendTimer, canShowError, text, emergencyMode>>
    BY <1>4 DEF InactivityTimerFires, BatteryTimerFires, entry_vars, question_vars
  <2> QED
    BY <1>1, <2>1 DEF AnswerInv, CodeInv, DeadInv
<1> QED
  BY <1>2, <1>3, <1>4 DEF Entry

LEMMA CodeDispatch ==
    ASSUME AnswerInv, Dispatch
    PROVE  CodeInv' /\ (DeadInv => DeadInv')
<1>1. UNCHANGED <<watching, question, limited, newFile, answer, actual>>
      /\ process \in {"temporary", "main"}
  BY DEF Dispatch, question_vars, Dispatched
<1>2. CASE process' # process
  BY <1>1, <1>2, DispatchProcess DEF AnswerInv, CodeInv, DeadInv
<1>3. CASE process' = process /\ UNCHANGED <<ui, entry_vars>>
  BY <1>1, <1>3 DEF entry_vars, AnswerInv, CodeInv, DeadInv
<1>4. CASE process' = process /\ process = "main" /\ ~ui /\ PinUi
  <2>1. ui' = TRUE /\ enabled' = TRUE /\ sendTimer' = FALSE
    BY <1>4 DEF PinUi
  <2>2. question /\ answer = "none" /\ ~newFile
    BY <1>4 DEF AnswerInv, CodeInv
  <2> QED
    BY <1>1, <1>4, <2>1, <2>2 DEF AnswerInv, CodeInv, DeadInv
<1> QED
  BY <1>2, <1>3, <1>4, DispatchProcess

LEMMA CodeQuestion ==
    ASSUME AnswerInv, handleNewAskFile
    PROVE  /\ CodeInv'
           /\ Fault \cap KeyFaults = {} /\ DeadInv => DeadInv'
<1>1. /\ newFile /\ newFile' = FALSE /\ question /\ answer = "none"
      /\ UNCHANGED <<watching, question, limited, answer, actual>>
      /\ process \in {"temporary", "main"}
  BY DEF handleNewAskFile, outside_vars, AnswerInv, CodeInv
<1>2. CASE ui /\ NewAskFileShown /\ UNCHANGED process
  <2>1. process = "main" /\ ~enabled
    BY <1>1, <1>2 DEF AnswerInv, RulesInv, CodeInv
  <2>2. ~sendTimer /\ canShowError /\ ~emergencyMode
    BY <1>2, <2>1 DEF AnswerInv, CodeInv
  <2>3. UNCHANGED <<ui, sendTimer>> /\ enabled' = TRUE
    BY <1>2, <2>2 DEF NewAskFileShown, showError, enabledAll
  <2> QED
    BY <1>1, <1>2, <2>2, <2>3 DEF AnswerInv, CodeInv, DeadInv
<1>3. CASE /\ ~ui /\ LoopEnds
           /\ IF process' = "main" THEN tryToCreateUI ELSE UNCHANGED ui_vars
  <2>1. process' \in {"main", "exited"}
    BY <1>3 DEF LoopEnds
  <2>2. CASE process' = "main" /\ PinUi
    <3>1. ui' = TRUE /\ enabled' = TRUE /\ sendTimer' = FALSE
      BY <2>2 DEF PinUi
    <3> QED
      BY <1>1, <2>2, <3>1 DEF AnswerInv, CodeInv, DeadInv
  <2>3. CASE UNCHANGED ui_vars
    <3>1. ~ui' /\ ~enabled' /\ ~sendTimer'
      BY <1>3, <2>3 DEF ui_vars, entry_vars, AnswerInv, EntryOff
    <3> QED
      BY <1>1, <2>1, <3>1 DEF AnswerInv, CodeInv, DeadInv
  <2> QED
    BY <1>3, <2>1, <2>2, <2>3 DEF tryToCreateUI
<1>4. CASE findAskFile(FALSE) /\ UNCHANGED <<process, ui_vars>>
  <2>1. CodeInv'
    BY <1>1, <1>4 DEF ui_vars, entry_vars, AnswerInv, CodeInv
  <2>2. Fault \cap KeyFaults = {} => limited
    BY <1>1, <1>4 DEF findAskFile, KeyFaults
  <2> QED
    BY <2>1, <2>2 DEF DeadInv
<1> QED
  BY <1>2, <1>3, <1>4 DEF handleNewAskFile

LEMMA CodeStep ==
    ASSUME AnswerInv, [Next]_vars
    PROVE  /\ CodeInv'
           /\ Fault \cap KeyFaults = {} /\ DeadInv => DeadInv'
<1>1. CASE Entry
  BY <1>1, CodeEntry
<1>2. CASE Dispatch
  BY <1>2, CodeDispatch
<1>3. CASE handleNewAskFile
  BY <1>3, CodeQuestion
<1>4. CASE FindsQuestion \/ StartsLoop
  <2>1. /\ process \in {"find", "watch"} /\ process' \in {"watch", "temporary", "main"}
        /\ UNCHANGED <<ui, enabled, sendTimer, question, limited, newFile>>
        /\ process' = "temporary" => answer' \in {answer, "temporary"}
        /\ process' # "temporary" => answer' = answer
    BY <1>4 DEF FindsQuestion, StartsLoop, Answers, ui_vars, entry_vars, question_vars
  <2>2. ~newFile /\ answer = "none" /\ question /\ ~ui /\ ~enabled /\ ~sendTimer
    BY <2>1 DEF AnswerInv, CodeInv, EntryOff
  <2>3. Fault \cap KeyFaults = {} => (process' \in {"temporary", "main"} => watching')
    BY <1>4 DEF FindsQuestion, StartsLoop, KeyFaults
  <2> QED
    BY <2>1, <2>2, <2>3 DEF CodeInv, DeadInv
<1>5. CASE AnswerTaken \/ CodeRight \/ CodeWrong
  <2>1. UNCHANGED <<process, watching, ui, enabled, sendTimer, canShowError, text,
                    emergencyMode>>
    BY <1>5 DEF AnswerTaken, CodeRight, CodeWrong, Outside, agent_vars, ui_vars,
                entry_vars
  <2>2. answer # "none" /\ process \notin {"find", "watch"} /\ ~newFile
    BY <1>5 DEF AnswerTaken, CodeRight, CodeWrong, AnswerInv, CodeInv
  <2>3. CASE AnswerTaken
    <3>1. question' = FALSE /\ UNCHANGED <<limited, newFile, answer, actual>>
      BY <2>3 DEF AnswerTaken, outside_vars
    <3> QED
      BY <2>1, <2>2, <3>1 DEF AnswerInv, CodeInv, DeadInv
  <2>4. CASE CodeRight
    <3>1. answer' = "none" /\ UNCHANGED <<limited, newFile, question>>
          /\ actual'["targetUnit"] = "active"
      BY <2>4 DEF CodeRight, Becomes, AnswerInv, TypeInv, CompositorInv, State
    <3> QED
      BY <2>1, <2>2, <3>1 DEF AnswerInv, CodeInv, DeadInv
  <2>5. CASE CodeWrong
    <3>1. answer' = "none" /\ question' = TRUE /\ UNCHANGED actual
          /\ newFile' = (watching /\ process \in {"temporary", "main"})
          /\ limited' \in TimeLimit
      BY <2>5 DEF CodeWrong, outside_vars
    <3>2. CodeInv'
      BY <2>1, <2>2, <3>1 DEF AnswerInv, CodeInv
    <3>3. Fault \cap KeyFaults = {} => ~limited'
      BY <3>1 DEF TimeLimit, KeyFaults
    <3>4. DeadInv /\ ~limited' => DeadInv'
      BY <2>1, <3>1 DEF DeadInv
    <3> QED
      BY <3>2, <3>3, <3>4
  <2> QED
    BY <1>5, <2>3, <2>4, <2>5
<1>6. CASE OthersChange \/ BusAnswers \/ ScreenTaken
  <2>1. /\ UNCHANGED <<agent_vars, ui_vars, question_vars>>
        /\ Change \/ Proceed \/ Answer \/ NameTaken
    BY <1>6 DEF OthersChange, BusAnswers, ScreenTaken, Elsewhere, Outside
  <2>2. actual["targetUnit"] = "active" => actual'["targetUnit"] = "active"
    <3>1. ASSUME NEW state \in State \ {"targetUnit"}, NEW value, Becomes(state, value)
          PROVE  actual'["targetUnit"] = actual["targetUnit"]
      BY <3>1 DEF Becomes, AnswerInv, TypeInv, CompositorInv, State
    <3>2. CASE Change
      BY <3>1, <3>2 DEF Change, PeerStops, State
    <3>3. CASE Proceed
      BY <3>1, <3>3 DEF Proceed, PeerStarts, State
    <3>4. CASE Answer \/ NameTaken
      BY <3>4 DEF Answer, NameTaken, OwnerAnswered, StateAnswered, Subscribed, TakesQuery
    <3> QED
      BY <2>1, <3>2, <3>3, <3>4
  <2>3. UNCHANGED <<process, watching, ui, entry_vars, question, limited, newFile, answer>>
    BY <2>1 DEF agent_vars, ui_vars, question_vars
  <2>4. CodeInv'
    BY <2>3 DEF entry_vars, AnswerInv, CodeInv
  <2>5. DeadInv => DeadInv'
    BY <2>2, <2>3 DEF entry_vars, DeadInv
  <2> QED
    BY <2>4, <2>5
<1>7. CASE UNCHANGED vars
  BY <1>7
  DEF vars, agent_vars, ui_vars, entry_vars, question_vars, outside_vars, AnswerInv,
      CodeInv, DeadInv
<1> QED
  BY <1>1, <1>2, <1>3, <1>4, <1>5, <1>6, <1>7 DEF Next, Entry

LEMMA AnswerInvStep == AnswerInv /\ [Next]_vars => AnswerInv'
BY TypeStep, RulesStep, EntryOffStep, ActiveStep, CodeStep DEF AnswerInv

LEMMA InitAnswer == Init => AnswerInv /\ (Fault \cap KeyFaults = {} => DeadInv)
<1> SUFFICES ASSUME Init PROVE AnswerInv /\ (Fault \cap KeyFaults = {} => DeadInv)
  OBVIOUS
<1>1. TypeInv
  BY InitTypes
<1>2. RulesInv /\ EntryOff /\ CodeInv
  BY DEF Init, RulesInv, EntryOff, CodeInv
<1>4. Fault \cap KeyFaults = {} => DeadInv
  BY DEF Init, TimeLimit, KeyFaults, DeadInv
<1>3. ActiveInv
  BY DEF Init, CompositorInit, ActiveInv, Unknown
<1> QED
  BY <1>1, <1>2, <1>3, <1>4 DEF AnswerInv

\* An empty text, which would cancel the mount of home, is never sent, whatever
\* happens in the time between the key and the sending (pin.cpp:770).
THEOREM EmptyNeverSent == Spec => []NeverCancels
<1>1. AnswerInv => NeverCancels
  BY DEF AnswerInv, CodeInv, NeverCancels
<1> QED
  BY <1>1, InitAnswer, AnswerInvStep, PTL DEF Spec

\* Nobody is left in front of dead keys (pin.cpp:479 and 770), provided that the
\* socket of the question takes the code, the directory of the questions is watched,
\* and a new question is read and not rejected: nobody looks at these failures
\* (agent.cpp:131-140, 190-287 and pin.cpp:773).
THEOREM KeysComeBack ==
    ASSUME Fault \cap KeyFaults = {}
    PROVE  Spec => []DisabledOnlyWhileAnswered
<1>1. AnswerInv /\ DeadInv /\ [Next]_vars => (AnswerInv /\ DeadInv)'
  BY AnswerInvStep, CodeStep
<1>2. DeadInv => DisabledOnlyWhileAnswered
  BY DEF DeadInv, DisabledOnlyWhileAnswered
<1> QED
  BY <1>1, <1>2, InitAnswer, PTL DEF Spec

-----------------------------------------------------------------------------
(* What is known when everything has been dispatched *)

\* What is known of k, "now", is v as soon as the messages of the queue have been
\* dispatched: the last one about k says so, or there is none and it is already.
Settles(queue, k, now, v) ==
    \/ \E i \in DOMAIN queue :
          /\ queue[i].of = k /\ queue[i].value = v
          /\ \A j \in DOMAIN queue : i < j => queue[j].of # k
    \/ /\ now = v
       /\ \A j \in DOMAIN queue : queue[j].of # k

LEMMA SettlesAppend ==
    ASSUME NEW queue \in Seq(Message), NEW of, NEW value, NEW k, NEW now, NEW v,
           \/ of = k /\ value = v
           \/ of # k /\ Settles(queue, k, now, v)
    PROVE  Settles(Append(queue, [of |-> of, value |-> value]), k, now, v)
<1> DEFINE m == [of |-> of, value |-> value]
           n == Len(queue)
           longer == Append(queue, m)
<1>1. /\ n \in Nat /\ DOMAIN queue = 1 .. n /\ DOMAIN longer = 1 .. n + 1
      /\ longer[n + 1] = m
      /\ \A i \in DOMAIN queue : longer[i] = queue[i]
  BY AppendFacts
<1>2. m.of = of /\ m.value = value
  OBVIOUS
<1> HIDE DEF m, n, longer
<1>3. /\ n + 1 \in DOMAIN longer
      /\ \A i \in DOMAIN longer : i \in DOMAIN queue \/ i = n + 1
      /\ \A i \in DOMAIN queue : i \in DOMAIN longer
      /\ \A i \in DOMAIN longer : ~(n + 1 < i)
  BY <1>1
<1>4. CASE of = k /\ value = v
  BY <1>1, <1>2, <1>3, <1>4 DEF Settles, longer, m
<1>5. CASE of # k /\ Settles(queue, k, now, v)
  <2>1. CASE now = v /\ \A j \in DOMAIN queue : queue[j].of # k
    BY <1>1, <1>2, <1>3, <1>5, <2>1 DEF Settles, longer, m
  <2>2. ASSUME NEW i \in DOMAIN queue, queue[i].of = k, queue[i].value = v,
               \A j \in DOMAIN queue : i < j => queue[j].of # k
        PROVE  Settles(longer, k, now, v)
    BY <1>1, <1>2, <1>3, <1>5, <2>2 DEF Settles
  <2> QED
    BY <1>5, <2>1, <2>2 DEF Settles, longer, m
<1> QED
  BY <1>4, <1>5

LEMMA SettlesTail ==
    ASSUME NEW queue \in Seq(Message), queue # <<>>,
           NEW k, NEW now, NEW v, Settles(queue, k, now, v)
    PROVE  Settles(Tail(queue), k,
                   IF Head(queue).of = k THEN Head(queue).value ELSE now, v)
<1> DEFINE rest == Tail(queue)
           head == Head(queue)
           next == IF head.of = k THEN head.value ELSE now
<1>1. /\ head = queue[1] /\ 1 \in DOMAIN queue
      /\ \A i \in DOMAIN rest : i + 1 \in DOMAIN queue /\ rest[i] = queue[i + 1]
      /\ \A i \in DOMAIN queue :
            i # 1 => i - 1 \in DOMAIN rest /\ rest[i - 1] = queue[i]
      /\ DOMAIN queue = 1 .. Len(queue) /\ Len(queue) \in Nat
      /\ DOMAIN rest = 1 .. Len(rest) /\ Len(rest) \in Nat
  BY TailFacts
<1> HIDE DEF rest, head
<1>2. CASE now = v /\ \A j \in DOMAIN queue : queue[j].of # k
  BY <1>1, <1>2 DEF Settles, rest, head
<1>3. ASSUME NEW i \in DOMAIN queue, queue[i].of = k, queue[i].value = v,
             \A j \in DOMAIN queue : i < j => queue[j].of # k
      PROVE  Settles(rest, k, next, v)
  <2>1. \A j \in DOMAIN rest : i - 1 < j => rest[j].of # k
    BY <1>1, <1>3
  <2>2. CASE i = 1
    <3>1. next = v /\ \A j \in DOMAIN rest : rest[j].of # k
      BY <1>1, <1>3, <2>1, <2>2
    <3> QED
      BY <3>1 DEF Settles
  <2>3. CASE i # 1
    BY <1>1, <1>3, <2>1, <2>3 DEF Settles
  <2> QED
    BY <2>2, <2>3
<1> QED
  BY <1>2, <1>3 DEF Settles, rest, head

\* The unlock screen has not seen yet that the peer has been gone.  It will ask again.
Renewed(peer) ==
    \/ nameOwner[peer] = "none"
    \/ \E i \in DOMAIN bus : bus[i].of = peer /\ bus[i].value = "none"

\* Whether a peer runs is known in the end, or the bus is still asked for it.
OwnerKnown(peer) ==
    IF running[peer]
    THEN peer \in queries \/ Settles(bus, peer, nameOwner[peer], "owned")
    ELSE Settles(bus, peer, nameOwner[peer], "none")

\* A state is known in the end, or it is asked for, or it will be.  Nobody asks for
\* the updates: whenever they change, mce is there to tell it.
StateKnown(s) ==
    \/ s \in queries
    \/ /\ s # "updates" /\ Provider[s] \in Peer
       /\ ~running[Provider[s]] \/ Renewed(Provider[s])
    \/ Settles(bus, s, cached[s], actual[s])

\* CachesAgree says nothing as long as anything is on its way; this does.
KnowsInv ==
    /\ "subscribe" \in queries => "targetUnit" \in queries
    /\ \A peer \in Peer : OwnerKnown(peer)
    /\ \A s \in State : StateKnown(s)

LEMMA Providers ==
    /\ \A s \in State : s \notin Peer /\ s # "NameLost" /\ s # "subscribe"
    /\ \A peer \in Peer : peer # "NameLost" /\ peer # "subscribe"
    /\ \A s \in State : Provider[s] = "systemd" <=> s = "targetUnit"
    /\ \A s \in State : s = "targetUnit" \/ Provider[s] \in Peer
    /\ "systemd" \notin Peer /\ "updates" \notin Query
    /\ \A peer \in Peer : \A s \in QueriesTo(peer) :
          s \in State /\ Provider[s] = peer /\ s # "targetUnit"
    /\ \A s \in State :
          s # "updates" /\ Provider[s] \in Peer => s \in QueriesTo(Provider[s])
    /\ Provider["dsmeState"] = "dsme" /\ Provider["updates"] = "mce"
BY DEF State, Peer, Provider, Query, QueriesTo

\* A message that comes last settles what it tells and leaves the rest alone.
LEMMA ArrivesSettles ==
    ASSUME CompositorInv, NEW of, NEW value, Arrives(of, value)
    PROVE  /\ \A now : Settles(bus', of, now, value)
           /\ \A k, now, v :
                 k # of /\ Settles(bus, k, now, v) => Settles(bus', k, now, v)
           /\ \A k : (\E i \in DOMAIN bus : bus[i].of = k /\ bus[i].value = "none")
                  => \E i \in DOMAIN bus' : bus'[i].of = k /\ bus'[i].value = "none"
<1> DEFINE m == [of |-> of, value |-> value]
<1>1. bus \in Seq(Message) /\ bus' = Append(bus, m)
  BY DEF CompositorInv, CompositorTypeOK, Arrives
<1>2. \A now : Settles(bus', of, now, value)
  BY <1>1, SettlesAppend
<1>3. ASSUME NEW k, NEW now, NEW v, k # of, Settles(bus, k, now, v)
      PROVE  Settles(bus', k, now, v)
  BY <1>1, <1>3, SettlesAppend
<1>4. \A i \in DOMAIN bus : i \in DOMAIN bus' /\ bus'[i] = bus[i]
  <2>1. Len(bus) \in Nat /\ DOMAIN bus = 1 .. Len(bus)
        /\ DOMAIN bus' = 1 .. Len(bus) + 1
        /\ \A i \in DOMAIN bus : bus'[i] = bus[i]
    BY <1>1, AppendFacts
  <2> DEFINE n == Len(bus)
  <2> HIDE DEF n
  <2>2. n \in Nat => \A i \in 1 .. n : i \in 1 .. n + 1
    OBVIOUS
  <2> QED
    BY <2>1, <2>2 DEF n
<1> QED
  BY <1>2, <1>3, <1>4

LEMMA KnowsBecomes ==
    ASSUME CompositorInv, KnowsInv, UNCHANGED compositor_vars,
           NEW state \in State, NEW value, Becomes(state, value),
           state = "updates" => running["mce"]
    PROVE  KnowsInv'
<1>1. /\ UNCHANGED <<queries, running, cached, nameOwner>>
      /\ \A s \in State : actual'[s] = IF s = state THEN value ELSE actual[s]
  BY DEF Becomes, compositor_vars, CompositorInv
<1>2. CASE Told(state)
  <2>1. Arrives(state, value)
    BY <1>2 DEF Becomes
  <2>2. ASSUME NEW peer \in Peer PROVE OwnerKnown(peer)'
    BY <1>1, <2>1, ArrivesSettles, Providers DEF OwnerKnown, KnowsInv
  <2>3. \A peer \in Peer : Renewed(peer) => Renewed(peer)'
    BY <1>1, <2>1, ArrivesSettles DEF Renewed
  <2>4. ASSUME NEW s \in State PROVE StateKnown(s)'
    <3>1. CASE s = state
      BY <1>1, <2>1, <3>1, ArrivesSettles DEF StateKnown
    <3>2. CASE s # state
      BY <1>1, <2>1, <2>3, <3>2, ArrivesSettles DEF StateKnown, KnowsInv
    <3> QED
      BY <3>1, <3>2
  <2> QED
    BY <1>1, <2>2, <2>4 DEF KnowsInv
<1>3. CASE ~Told(state)
  <2>1. UNCHANGED bus
    BY <1>3 DEF Becomes
  <2>2. \A peer \in Peer : OwnerKnown(peer)' /\ (Renewed(peer) => Renewed(peer)')
    BY <1>1, <2>1 DEF OwnerKnown, Renewed, KnowsInv
  <2>3. ASSUME NEW s \in State PROVE StateKnown(s)'
    <3>1. CASE s = state /\ s = "targetUnit"
      <4>1. "targetUnit" \in queries
        BY <1>3, <3>1, Providers DEF Told, KnowsInv
      <4> QED
        BY <1>1, <3>1, <4>1 DEF StateKnown
    <3>2. CASE s = state /\ s # "targetUnit"
      <4>1. Provider[s] \in Peer /\ ~running[Provider[s]] /\ s # "updates"
        BY <1>3, <3>2, Providers DEF Told
      <4> QED
        BY <1>1, <4>1 DEF StateKnown
    <3>3. CASE s # state
      BY <1>1, <2>1, <2>2, <3>3 DEF StateKnown, KnowsInv
    <3> QED
      BY <3>1, <3>2, <3>3
  <2> QED
    BY <1>1, <2>2, <2>3 DEF KnowsInv
<1> QED
  BY <1>2, <1>3

LEMMA KnowsPeers ==
    ASSUME CompositorInv, KnowsInv, UNCHANGED compositor_vars,
           NEW peer \in Peer, PeerStops(peer) \/ PeerStarts(peer)
    PROVE  KnowsInv'
<1>1. /\ UNCHANGED <<cached, nameOwner, actual>>
      /\ running \in [Peer -> BOOLEAN] /\ running' \in [Peer -> BOOLEAN]
      /\ \A other \in Peer \ {peer} : running'[other] = running[other]
      /\ queries \subseteq Query
  BY DEF PeerStops, PeerStarts, compositor_vars, CompositorInv, CompositorTypeOK
<1>2. PICK value \in {"owned", "none"} : Arrives(peer, value)
  BY DEF PeerStops, PeerStarts
<1>3. \A k, now, v : k # peer /\ Settles(bus, k, now, v) => Settles(bus', k, now, v)
  BY <1>2, ArrivesSettles
<1>4. \A p \in Peer : Renewed(p) => Renewed(p)'
  BY <1>1, <1>2, ArrivesSettles DEF Renewed
<1>5. queries \ QueriesTo(peer) \subseteq queries' /\ queries' \subseteq queries
  BY DEF PeerStops, PeerStarts
<1>6. "subscribe" \in queries' => "targetUnit" \in queries'
  BY <1>5, Providers DEF KnowsInv
<1>7. ASSUME NEW p \in Peer PROVE OwnerKnown(p)'
  <2>1. CASE p # peer
    <3>1. p \in queries => p \in queries'
      BY <1>5, Providers
    <3> QED
      BY <1>1, <1>3, <2>1, <3>1 DEF OwnerKnown, KnowsInv
  <2>2. CASE p = peer /\ PeerStops(peer)
    <3>1. Arrives(peer, "none") /\ ~running'[peer]
      BY <1>1, <2>2 DEF PeerStops, CompositorInv, CompositorTypeOK
    <3> QED
      BY <2>2, <3>1, ArrivesSettles DEF OwnerKnown
  <2>3. CASE p = peer /\ PeerStarts(peer)
    <3>1. Arrives(peer, "owned") /\ running'[peer]
      BY <1>1, <2>3 DEF PeerStarts, CompositorInv, CompositorTypeOK
    <3> QED
      BY <2>3, <3>1, ArrivesSettles DEF OwnerKnown
  <2> QED
    BY <2>1, <2>2, <2>3
<1>8. ASSUME NEW s \in State PROVE StateKnown(s)'
  <2>1. s # peer /\ (Provider[s] # peer => s \notin QueriesTo(peer))
    BY Providers
  <2>2. CASE Settles(bus, s, cached[s], actual[s])
    BY <1>1, <1>3, <2>1, <2>2 DEF StateKnown
  <2>3. CASE s # "updates" /\ Provider[s] = peer /\ PeerStops(peer)
    BY <1>1, <2>3 DEF StateKnown, PeerStops
  <2>4. CASE s # "updates" /\ Provider[s] = peer /\ PeerStarts(peer)
    <3>1. Settles(bus, peer, nameOwner[peer], "none")
      BY <2>4 DEF PeerStarts, KnowsInv, OwnerKnown
    <3>2. Renewed(peer)
      BY <3>1 DEF Settles, Renewed
    <3> QED
      BY <1>4, <2>4, <3>2 DEF StateKnown
  <2>5. CASE Provider[s] # peer /\ s \in queries
    BY <1>5, <2>1, <2>5 DEF StateKnown
  <2>6. CASE /\ Provider[s] # peer /\ s # "updates" /\ Provider[s] \in Peer
             /\ ~running[Provider[s]] \/ Renewed(Provider[s])
    BY <1>1, <1>4, <2>6 DEF StateKnown
  <2>7. s = "updates" => s \notin queries
    BY <1>1, Providers
  <2>8. StateKnown(s)
    BY DEF KnowsInv
  <2> QED
    BY <2>2, <2>3, <2>4, <2>5, <2>6, <2>7, <2>8 DEF StateKnown
<1> QED
  BY <1>6, <1>7, <1>8 DEF KnowsInv

LEMMA KnowsAnswer ==
    ASSUME CompositorInv, KnowsInv, UNCHANGED compositor_vars, Answer \/ NameTaken
    PROVE  KnowsInv'
<1>1. UNCHANGED <<cached, nameOwner, running, actual>> /\ queries \subseteq Query
  BY DEF Answer, NameTaken, OwnerAnswered, StateAnswered, Subscribed, TakesQuery,
     compositor_vars, CompositorInv, CompositorTypeOK
<1>2. ASSUME NEW query, queries' = queries \ {query}, NEW value,
             \/ Arrives(query, value)
             \/ UNCHANGED bus,
             query = "targetUnit" => "subscribe" \notin queries,
             query \in Peer =>
                (running[query] /\ Arrives(query, value) /\ value = "owned")
                \/ (~running[query] /\ UNCHANGED bus),
             query \in State => Arrives(query, value) /\ value = actual[query]
      PROVE  KnowsInv'
  <2>1. "subscribe" \in queries' => "targetUnit" \in queries'
    BY <1>2 DEF KnowsInv
  <2>2. \A k, now, v : k # query /\ Settles(bus, k, now, v) => Settles(bus', k, now, v)
    BY <1>2, ArrivesSettles
  <2>3. \A p \in Peer : Renewed(p) => Renewed(p)'
    BY <1>1, <1>2, ArrivesSettles DEF Renewed
  <2>4. ASSUME NEW p \in Peer PROVE OwnerKnown(p)'
    <3>1. CASE p = query /\ running[p]
      BY <1>1, <1>2, <3>1, ArrivesSettles DEF OwnerKnown
    <3>2. CASE p = query /\ ~running[p]
      BY <1>1, <1>2, <3>2 DEF OwnerKnown, KnowsInv
    <3>3. CASE p # query
      BY <1>1, <1>2, <2>2, <3>3 DEF OwnerKnown, KnowsInv
    <3> QED
      BY <3>1, <3>2, <3>3
  <2>5. ASSUME NEW s \in State PROVE StateKnown(s)'
    <3>1. CASE s = query
      <4>1. Settles(bus', s, cached'[s], actual'[s])
        BY <1>1, <1>2, <3>1, ArrivesSettles
      <4> QED
        BY <4>1 DEF StateKnown
    <3>2. CASE s # query
      BY <1>1, <1>2, <2>2, <2>3, <3>2 DEF StateKnown, KnowsInv
    <3> QED
      BY <3>1, <3>2
  <2> QED
    BY <2>1, <2>4, <2>5 DEF KnowsInv
<1>3. ASSUME NEW peer \in Peer, OwnerAnswered(peer) PROVE KnowsInv'
  <2>1. /\ queries' = queries \ {peer} /\ peer \notin State /\ peer # "targetUnit"
        /\ \/ running[peer] /\ Arrives(peer, "owned")
           \/ ~running[peer] /\ UNCHANGED bus
    BY <1>3, Providers DEF OwnerAnswered, TakesQuery, State, Peer
  <2> QED
    BY <1>2, <2>1
<1>4. ASSUME NEW state \in State \cap Query, StateAnswered(state) PROVE KnowsInv'
  <2>1. /\ queries' = queries \ {state} /\ Arrives(state, actual[state])
        /\ state \notin Peer /\ state \in State
        /\ Earlier[state] \cap queries = {}
    BY <1>4, Providers DEF StateAnswered, TakesQuery
  <2>2. state = "targetUnit" => "subscribe" \notin queries
    BY <2>1 DEF Earlier
  <2> QED
    BY <1>2, <2>1, <2>2
<1>5. ASSUME Subscribed PROVE KnowsInv'
  <2>1. queries' = queries \ {"subscribe"} /\ UNCHANGED bus
        /\ "subscribe" \notin State /\ "subscribe" \notin Peer
    BY <1>5, Providers DEF Subscribed, TakesQuery
  <2> QED
    BY <1>2, <2>1
<1>6. ASSUME NameTaken PROVE KnowsInv'
  <2>1. /\ UNCHANGED queries /\ Arrives("NameLost", "none")
        /\ "NameLost" \notin State /\ "NameLost" \notin Peer
    BY <1>6, Providers DEF NameTaken
  <2>2. "NameLost" \notin queries
    BY <1>1 DEF Query, Peer
  <2>3. queries' = queries \ {"NameLost"}
    BY <2>1, <2>2
  <2> QED
    BY <1>2, <2>1, <2>3
<1> QED
  BY <1>3, <1>4, <1>5, <1>6 DEF Answer

\* What is left of the queue settles the rest.
LEMMA DispatchSettles ==
    ASSUME CompositorInv, Dispatched(Head(bus))
    PROVE  /\ \A k, now, v :
                 Settles(bus, k, now, v) =>
                    Settles(bus', k,
                            IF Head(bus).of = k THEN Head(bus).value ELSE now, v)
           /\ \A k :
                 /\ \E i \in DOMAIN bus : bus[i].of = k /\ bus[i].value = "none"
                 /\ Head(bus).of # k \/ Head(bus).value # "none"
                 => \E i \in DOMAIN bus' : bus'[i].of = k /\ bus'[i].value = "none"
<1>1. bus \in Seq(Message) /\ bus # <<>> /\ bus' = Tail(bus)
  BY DEF Dispatched, CompositorInv, CompositorTypeOK
<1>2. ASSUME NEW k, NEW now, NEW v, Settles(bus, k, now, v)
      PROVE  Settles(bus', k, IF Head(bus).of = k THEN Head(bus).value ELSE now, v)
  BY <1>1, <1>2, SettlesTail
<1>3. ASSUME NEW k, NEW i \in DOMAIN bus, bus[i].of = k, bus[i].value = "none",
             Head(bus).of # k \/ Head(bus).value # "none"
      PROVE  \E j \in DOMAIN bus' : bus'[j].of = k /\ bus'[j].value = "none"
  <2>1. i # 1
    BY <1>1, <1>3, TailFacts
  <2>2. i - 1 \in DOMAIN bus' /\ bus'[i - 1] = bus[i]
    BY <1>1, <2>1, TailFacts
  <2> QED
    BY <1>3, <2>2
<1> QED
  BY <1>2, <1>3

LEMMA KnowsDispatch ==
    ASSUME CompositorInv, KnowsInv, Dispatched(Head(bus))
    PROVE  KnowsInv'
<1> DEFINE m == Head(bus)
<1>1. UNCHANGED <<running, actual>> /\ Sensible(m) /\ queries \subseteq Query
  BY TailFacts DEF Dispatched, CompositorInv, CompositorTypeOK
<1>2. \A k, now, v : Settles(bus, k, now, v) =>
                        Settles(bus', k, IF m.of = k THEN m.value ELSE now, v)
  BY DispatchSettles
<1>3. CASE m.of \in State /\ StateChanges(m.of, m.value)
  <2>1. /\ UNCHANGED <<nameOwner, queries>>
        /\ \A s \in State : cached'[s] = IF m.of = s THEN m.value ELSE cached[s]
        /\ \A p \in Peer : m.of # p
    BY <1>3, Providers DEF StateChanges, CompositorInv
  <2>2. \A p \in Peer : Renewed(p) => Renewed(p)'
    BY <2>1, DispatchSettles DEF Renewed
  <2>3. ASSUME NEW p \in Peer PROVE OwnerKnown(p)'
    BY <1>1, <1>2, <2>1 DEF OwnerKnown, KnowsInv
  <2>4. ASSUME NEW s \in State PROVE StateKnown(s)'
    BY <1>1, <1>2, <2>1, <2>2 DEF StateKnown, KnowsInv
  <2> QED
    BY <2>1, <2>3, <2>4 DEF KnowsInv
<1>4. CASE m.of \in Peer /\ OwnerChanges(m.of, m.value)
  <2> DEFINE peer == m.of
             owner == m.value
  <2>1. owner \in {"owned", "none"} /\ nameOwner \in [Peer -> {"owned", "none"}]
    BY <1>1, <1>4 DEF Sensible, CompositorInv, CompositorTypeOK
  <2>2. /\ \A p \in Peer : nameOwner'[p] = IF m.of = p THEN owner ELSE nameOwner[p]
        /\ \A s \in State : cached'[s] = cached[s]
              \/ (s = "dsmeState" /\ peer = "dsme" /\ owner = "none")
    BY <1>4, <2>1 DEF OwnerChanges, DsmeGone, CompositorInv
  <2>3. /\ queries \subseteq queries' /\ queries' \subseteq queries \cup QueriesTo(peer)
        /\ owner = "owned" /\ nameOwner[peer] = "none" /\ running[peer]
             => QueriesTo(peer) \subseteq queries'
    BY <1>4 DEF OwnerChanges
  <2>4. "subscribe" \in queries' => "targetUnit" \in queries'
    BY <1>4, <2>3, Providers DEF KnowsInv
  <2>5. ASSUME NEW p \in Peer PROVE OwnerKnown(p)'
    BY <1>1, <1>2, <2>2, <2>3 DEF OwnerKnown, KnowsInv
  <2>6. ASSUME NEW p \in Peer, Renewed(p), running[p]
        PROVE  Renewed(p)' \/ QueriesTo(p) \subseteq queries'
    <3>1. CASE p # peer
      BY <2>2, <2>6, <3>1, DispatchSettles DEF Renewed
    <3>2. CASE p = peer /\ owner = "none"
      BY <2>2, <3>2 DEF Renewed
    <3>3. CASE p = peer /\ owner # "none" /\ nameOwner[p] = "none"
      BY <2>1, <2>3, <2>6, <3>3
    <3>4. CASE p = peer /\ owner # "none" /\ nameOwner[p] # "none"
      BY <2>6, <3>4, DispatchSettles DEF Renewed
    <3> QED
      BY <3>1, <3>2, <3>3, <3>4
  <2>7. ASSUME NEW s \in State PROVE StateKnown(s)'
    <3>1. CASE s \in queries
      BY <2>3, <3>1 DEF StateKnown
    <3>2. CASE s # "updates" /\ Provider[s] \in Peer /\ ~running[Provider[s]]
      BY <1>1, <3>2 DEF StateKnown
    <3>3. CASE /\ s # "updates" /\ Provider[s] \in Peer
               /\ running[Provider[s]] /\ Renewed(Provider[s])
      <4>1. s \in QueriesTo(Provider[s])
        BY <3>3, Providers
      <4> QED
        BY <2>6, <3>3, <4>1 DEF StateKnown
    <3>4. CASE Settles(bus, s, cached[s], actual[s]) /\ cached'[s] = cached[s]
      <4>1. m.of # s
        BY <1>4, Providers
      <4> QED
        BY <1>1, <1>2, <3>4, <4>1 DEF StateKnown
    <3>5. CASE s = "dsmeState" /\ peer = "dsme" /\ owner = "none"
      <4>1. Renewed("dsme")' /\ Provider[s] = "dsme" /\ "dsme" \in Peer
        BY <1>4, <2>2, <3>5, Providers DEF Renewed
      <4> QED
        BY <3>5, <4>1 DEF StateKnown
    <3> QED
      BY <2>2, <3>1, <3>2, <3>3, <3>4, <3>5 DEF StateKnown, KnowsInv
  <2> QED
    BY <2>4, <2>5, <2>7 DEF KnowsInv
<1>5. CASE m.of = "NameLost" /\ UNCHANGED <<cached, nameOwner, queries>>
  <2>1. (\A p \in Peer : m.of # p) /\ (\A s \in State : m.of # s)
    BY <1>5, Providers
  <2>2. \A p \in Peer : Renewed(p) => Renewed(p)'
    BY <1>5, <2>1, DispatchSettles DEF Renewed
  <2>3. ASSUME NEW p \in Peer PROVE OwnerKnown(p)'
    BY <1>1, <1>2, <1>5, <2>1 DEF OwnerKnown, KnowsInv
  <2>4. ASSUME NEW s \in State PROVE StateKnown(s)'
    BY <1>1, <1>2, <1>5, <2>1, <2>2 DEF StateKnown, KnowsInv
  <2> QED
    BY <1>5, <2>3, <2>4 DEF KnowsInv
<1> QED
  BY <1>3, <1>4, <1>5 DEF Dispatched

LEMMA KnowsStep ==
    ASSUME TypeInv, KnowsInv, [Next]_vars
    PROVE  KnowsInv'
<1>1. CASE Dispatch
  BY <1>1, KnowsDispatch DEF Dispatch, TypeInv
<1>2. CASE CodeRight
  <2>1. "targetUnit" \in State /\ "targetUnit" # "updates"
    BY DEF State
  <2> QED
    BY <1>2, <2>1, KnowsBecomes DEF CodeRight, Outside, TypeInv
<1>3. ASSUME Change, UNCHANGED compositor_vars PROVE KnowsInv'
  <2>1. "charger" \in State /\ "battery" \in State /\ "updates" \in State
    BY DEF State
  <2> QED
    BY <1>3, <2>1, KnowsBecomes, KnowsPeers DEF Change, TypeInv
<1>4. ASSUME Proceed, UNCHANGED compositor_vars PROVE KnowsInv'
  <2>1. "dsmeState" \in State /\ "updates" \in State
    BY DEF State
  <2> QED
    BY <1>4, <2>1, KnowsBecomes, KnowsPeers DEF Proceed, TypeInv
<1>5. CASE OthersChange \/ BusAnswers \/ ScreenTaken
  BY <1>3, <1>4, <1>5, KnowsAnswer
  DEF OthersChange, BusAnswers, ScreenTaken, Elsewhere, Outside, TypeInv
<1>6. ASSUME UNCHANGED <<compositor_vars, outside_vars>> PROVE KnowsInv'
  BY <1>6
  DEF KnowsInv, OwnerKnown, StateKnown, Renewed, Settles, compositor_vars,
      outside_vars
<1>7. CASE FindsQuestion \/ StartsLoop \/ handleNewAskFile \/ Entry \/ AnswerTaken
           \/ CodeWrong \/ UNCHANGED vars
  BY <1>6, <1>7
  DEF FindsQuestion, StartsLoop, handleNewAskFile, Entry, KeyEdits, KeyEnters,
      EmergencyButton, EmergencyLeft, KeyPressed, SendTimerFires,
      InactivityTimerFires, BatteryTimerFires, AnswerTaken, CodeWrong, Outside, vars
<1> QED
  BY <1>1, <1>2, <1>5, <1>7 DEF Next, Entry

\* When nothing is on its way any more the unlock screen knows what is the case,
\* however often mce and dsme stopped and started and in whichever order their
\* signals and the answers to its queries came (compositor.cpp:840 and 1257).
THEOREM CachesSettle == Spec => []CachesAgree
<1>1. Init => KnowsInv
  <2> SUFFICES ASSUME Init PROVE KnowsInv
    OBVIOUS
  <2>1. /\ queries = Peer \cup {"subscribe", "targetUnit"} /\ bus = <<>>
        /\ \A p \in Peer : nameOwner[p] = "none"
        /\ cached["updates"] = actual["updates"]
    BY DEF Init, CompositorInit, Unknown
  <2>2. \A k, v : Settles(bus, k, v, v)
    BY <2>1 DEF Settles
  <2>3. ASSUME NEW p \in Peer PROVE OwnerKnown(p)
    BY <2>1, <2>2 DEF OwnerKnown
  <2>4. ASSUME NEW s \in State PROVE StateKnown(s)
    BY <2>1, <2>2, Providers DEF StateKnown, Renewed
  <2> QED
    BY <2>1, <2>3, <2>4 DEF KnowsInv
<1>2. TypeInv /\ KnowsInv /\ [Next]_vars => (TypeInv /\ KnowsInv)'
  BY TypeStep, KnowsStep
<1>3. TypeInv /\ KnowsInv => CachesAgree
  <2> SUFFICES ASSUME TypeInv, KnowsInv, bus = <<>>, queries = {}
               PROVE  /\ \A p \in Peer : (nameOwner[p] = "owned") = running[p]
                      /\ \A s \in State :
                            (Provider[s] \in Peer => running[Provider[s]])
                               => cached[s] = actual[s]
    BY DEF CachesAgree
  <2>1. \A k, now, v : Settles(bus, k, now, v) => now = v
    BY DEF Settles
  <2>2. ASSUME NEW p \in Peer PROVE (nameOwner[p] = "owned") = running[p]
    <3>1. OwnerKnown(p) /\ running[p] \in BOOLEAN
      BY DEF KnowsInv, TypeInv, CompositorInv, CompositorTypeOK
    <3>2. CASE running[p]
      BY <2>1, <3>1, <3>2 DEF OwnerKnown
    <3>3. CASE ~running[p]
      BY <2>1, <3>1, <3>3 DEF OwnerKnown
    <3> QED
      BY <3>2, <3>3
  <2>3. ASSUME NEW s \in State, Provider[s] \in Peer => running[Provider[s]]
        PROVE  cached[s] = actual[s]
    <3>1. StateKnown(s)
      BY DEF KnowsInv
    <3>2. Provider[s] \in Peer => ~Renewed(Provider[s])
      BY <2>1, <2>3 DEF KnowsInv, OwnerKnown, Renewed
    <3> QED
      BY <2>1, <2>3, <3>1, <3>2 DEF StateKnown
  <2> QED
    BY <2>2, <2>3
<1> QED
  BY <1>1, <1>2, <1>3, InitTypes, PTL DEF Spec

=============================================================================
