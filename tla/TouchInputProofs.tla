--------------------------- MODULE TouchInputProofs ---------------------------
(***************************************************************************)
(* Theorems about the wait for a touch device for every set of nodes,      *)
(* every set of faults and any number of changes, and their proofs.        *)
(*                                                                         *)
(* NothingMissed is not inductive: the probing overwrites have_touch, so   *)
(* it has to be known that nothing was found before.                       *)
(***************************************************************************)
EXTENDS TouchInput, SequenceTheorems, TLAPS

\* As long as the process waits or probes the existing nodes, it found none.
NotFoundYet ==
    process \in {"check", "watch", "glob", "probe", "poll"} => ~have_touch

TouchInv == TouchTypeOK /\ NotFoundYet /\ NothingMissed

\* What is in a queue is its head or waits behind it.
LEMMA HeadOrTail ==
    ASSUME NEW S, NEW seq \in Seq(S), seq # <<>>,
           NEW x \in Range(seq), x # Head(seq)
    PROVE  x \in Range(Tail(seq))
<1>1. PICK i \in 1 .. Len(seq) : x = seq[i]
  BY RangeEquality
<1>2. i - 1 \in 1 .. Len(Tail(seq)) /\ Tail(seq)[i - 1] = seq[i]
  BY <1>1
<1>3. Tail(seq) \in Seq(S)
  OBVIOUS
<1> QED
  BY <1>1, <1>2, <1>3, RangeEquality

\* Appending keeps what is in a queue and adds the element.
LEMMA AppendedRange ==
    ASSUME NEW S, NEW seq \in Seq(S), NEW e \in S
    PROVE  Range(Append(seq, e)) = Range(seq) \cup {e}
<1>1. Append(seq, e) = seq \o <<e>> /\ <<e>> \in Seq(S)
  BY AppendIsConcat
<1>2. Range(<<e>>) = {e}
  BY DEF Range
<1>3. Range(seq \o <<e>>) = Range(seq) \cup Range(<<e>>)
  <2>1. <<e>> \in Seq(S)
    BY <1>1
  <2> QED
    BY <2>1, RangeConcatenation, ZenonT(20)
<1>4. Range(Append(seq, e)) = Range(seq \o <<e>>)
  BY <1>1
<1> QED
  BY <1>2, <1>3, <1>4

LEMMA InitTouchInv == Init => TouchInv
<1> SUFFICES ASSUME Init PROVE TouchInv
  OBVIOUS
<1>1. TouchTypeOK
  <2>1. events \in Seq(Node)
    BY DEF Init
  <2>2. plugs \in 0 .. MaxPlugs
    BY PlugsAssumption DEF Init
  <2> QED
    BY <2>1, <2>2 DEF Init, TouchTypeOK
<1> QED
  BY <1>1 DEF Init, TouchInv, NotFoundYet, NothingMissed

\* The types are kept by every step.
LEMMA TypeStep == TouchTypeOK /\ [Next]_vars => TouchTypeOK'
<1> SUFFICES ASSUME TouchTypeOK, [Next]_vars PROVE TouchTypeOK'
  OBVIOUS
<1> USE DEF TouchTypeOK, wait_vars, outside_vars, Ended
<1>1. CASE ChecksLipstick
  BY <1>1 DEF ChecksLipstick
<1>2. CASE AddsWatch
  BY <1>2 DEF AddsWatch
<1>3. CASE Globs
  BY <1>3 DEF Globs, Present
<1>4. CASE ProbesExisting
  BY <1>4 DEF ProbesExisting, Probed
<1>5. CASE StartsWaiting
  BY <1>5 DEF StartsWaiting
<1>6. CASE Polls
  BY <1>6 DEF Polls
<1>7. CASE HandlesEvent
  <2>1. Head(events) \in Node /\ Tail(events) \in Seq(Node)
    BY <1>7 DEF HandlesEvent
  <2> QED
    BY <1>7, <2>1 DEF HandlesEvent, Probed
<1>8. CASE EventsHandled
  BY <1>8 DEF EventsHandled, Done
<1>9. CASE TakesScreen
  BY <1>9 DEF TakesScreen
<1>10. CASE Kernel
  <2>1. CASE NodeAppears
    BY <2>1, PlugsAssumption DEF NodeAppears
  <2>2. CASE NodeDisappears
    BY <2>2, PlugsAssumption DEF NodeDisappears, Present
  <2> QED
    BY <1>10, <2>1, <2>2 DEF Kernel
<1>11. CASE TimePasses
  BY <1>11 DEF TimePasses
<1>12. CASE LipstickStarts
  BY <1>12 DEF LipstickStarts
<1>13. CASE UNCHANGED vars
  BY <1>13 DEF vars
<1> QED
  BY <1>1, <1>2, <1>3, <1>4, <1>5, <1>6, <1>7, <1>8, <1>9, <1>10, <1>11,
     <1>12, <1>13 DEF Next, Proceeds

\* Nothing is found while the process goes on to wait.
LEMMA NotFoundStep == TouchInv /\ [Next]_vars => NotFoundYet'
<1> SUFFICES ASSUME TouchTypeOK, NotFoundYet, [Next]_vars PROVE NotFoundYet'
  BY DEF TouchInv
<1> USE DEF NotFoundYet, wait_vars, outside_vars, TouchTypeOK, Ended
<1>1. CASE ChecksLipstick \/ AddsWatch \/ Globs
  BY <1>1 DEF ChecksLipstick, AddsWatch, Globs
<1>2. CASE ProbesExisting
  BY <1>2 DEF ProbesExisting
<1>3. CASE StartsWaiting \/ Polls \/ TakesScreen
  BY <1>3 DEF StartsWaiting, Polls, TakesScreen
<1>4. CASE HandlesEvent
  BY <1>4 DEF HandlesEvent
<1>5. CASE EventsHandled
  BY <1>5 DEF EventsHandled, Done
<1>6. CASE Kernel \/ TimePasses \/ LipstickStarts
  BY <1>6 DEF Kernel, NodeAppears, NodeDisappears, TimePasses, LipstickStarts
<1>7. CASE UNCHANGED vars
  BY <1>7 DEF vars
<1> QED
  BY <1>1, <1>2, <1>3, <1>4, <1>5, <1>6, <1>7 DEF Next, Proceeds

\* A touch device that can be probed stays due until it is found.
LEMMA NothingMissedStep == TouchInv /\ [Next]_vars => NothingMissed'
<1> SUFFICES ASSUME TouchInv, [Next]_vars,
                    process' \in {"probe", "poll", "read"},
                    NEW n \in Touchable'
             PROVE  (n \in toProbe \/ n \in Range(events) \/ have_touch)'
  BY DEF NothingMissed
<1> USE DEF wait_vars, outside_vars
<1> DEFINE Due == n \in toProbe \/ n \in Range(events) \/ have_touch
<1>a. /\ TouchTypeOK /\ NotFoundYet
      /\ process \in {"probe", "poll", "read"} /\ n \in Touchable => Due
  BY DEF TouchInv, NothingMissed
<1>b. n \in Node /\ n \notin skipped' /\ device'[n] = "touch"
  BY DEF Touchable
<1>1. CASE ChecksLipstick \/ AddsWatch \/ TakesScreen
  BY <1>1 DEF ChecksLipstick, AddsWatch, TakesScreen
<1>2. CASE Globs
  <2>1. n \in Present
    BY <1>2, <1>b DEF Globs, Present
  <2> QED
    BY <1>2, <1>b, <2>1 DEF Globs
<1>3. CASE ProbesExisting
  <2>1. PICK node \in toProbe, is_touchdev \in BOOLEAN :
            /\ Probed(node, is_touchdev)
            /\ toProbe' = toProbe \ {node}
            /\ have_touch' = is_touchdev
            /\ process' = IF is_touchdev THEN "found" ELSE "probe"
    BY <1>3 DEF ProbesExisting
  <2>2. ~is_touchdev /\ process = "probe" /\ ~have_touch
    BY <1>3, <1>a, <2>1 DEF ProbesExisting, NotFoundYet
  <2>3. n \in Touchable /\ n # node
    BY <1>3, <1>b, <2>1, <2>2 DEF ProbesExisting, Probed, Touchable
  <2> QED
    BY <1>3, <1>a, <2>1, <2>2, <2>3 DEF ProbesExisting
<1>4. CASE StartsWaiting \/ Polls \/ EventsHandled
  BY <1>4, <1>a, <1>b DEF StartsWaiting, Polls, EventsHandled, Touchable
<1>5. CASE HandlesEvent
  <2>1. PICK is_touchdev \in BOOLEAN :
            /\ Probed(Head(events), is_touchdev)
            /\ have_touch' = (have_touch \/ is_touchdev)
    BY <1>5 DEF HandlesEvent
  <2>2. n \in Touchable /\ Due
    BY <1>5, <1>a, <1>b, <2>1 DEF HandlesEvent, Probed, Touchable
  <2>3. CASE n = Head(events)
    BY <1>5, <1>b, <2>1, <2>3 DEF HandlesEvent, Probed
  <2>4. CASE n # Head(events) /\ n \in Range(events)
    BY <1>5, <1>a, <2>4, HeadOrTail DEF HandlesEvent, TouchTypeOK
  <2>5. CASE n \in toProbe \/ have_touch
    BY <1>5, <2>1, <2>5 DEF HandlesEvent
  <2> QED
    BY <2>2, <2>3, <2>4, <2>5
<1>6. CASE NodeAppears
  <2>1. PICK node \in Node, kind \in {"other", "touch"} :
            /\ device' = [device EXCEPT ![node] = kind]
            /\ events' = IF Watching THEN Append(events, node) ELSE events
            /\ skipped' = skipped \ {node}
    BY <1>6 DEF NodeAppears
  <2>2. events' = Append(events, node) /\ events \in Seq(Node)
    BY <1>6, <1>a, <2>1 DEF NodeAppears, Watching, TouchTypeOK
  <2>3. CASE n = node
    BY <2>2, <2>3, AppendedRange
  <2>4. CASE n # node
    <3>1. n \in Touchable
      BY <1>a, <1>b, <2>1, <2>4 DEF Touchable, TouchTypeOK
    <3> QED
      BY <1>6, <1>a, <2>2, <3>1, AppendedRange DEF NodeAppears
  <2> QED
    BY <2>3, <2>4
<1>7. CASE NodeDisappears
  BY <1>7, <1>a, <1>b DEF NodeDisappears, Touchable, TouchTypeOK, Present
<1>8. CASE TimePasses \/ LipstickStarts \/ UNCHANGED vars
  BY <1>8, <1>a, <1>b DEF TimePasses, LipstickStarts, vars, Touchable
<1> QED
  BY <1>1, <1>2, <1>3, <1>4, <1>5, <1>6, <1>7, <1>8
     DEF Next, Proceeds, Kernel

\* The variables keep their types, whatever the kernel does and whatever fails.
THEOREM TouchTypeCorrect == Spec => []TouchTypeOK
<1>1. Init => TouchTypeOK
  BY InitTouchInv DEF TouchInv
<1> QED
  BY <1>1, TypeStep, PTL DEF Spec

\* No touch device is missed between the probing of the existing nodes and the
\* notifications of new ones, for any number of nodes that appear, disappear and
\* come back (touchinput.c:299).
THEOREM NoDeviceMissed == Spec => []NothingMissed
<1>1. TouchInv /\ [Next]_vars => TouchInv'
  BY TypeStep, NotFoundStep, NothingMissedStep DEF TouchInv
<1>2. TouchInv => NothingMissed
  BY DEF TouchInv
<1> QED
  BY InitTouchInv, <1>1, <1>2, PTL DEF Spec
=============================================================================
