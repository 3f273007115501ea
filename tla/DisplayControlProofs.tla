------------------------- MODULE DisplayControlProofs -------------------------
(***************************************************************************)
(* Theorems about the unlock screen and mce for any number of starts and   *)
(* stops of mce and any bound on the messages that wait, and their proofs. *)
(*                                                                         *)
(* Three invariants carry them: CallInv (one call of the mce that runs, or *)
(* its answer, is on its way), with StoppedInv and WindowInv (the window   *)
(* follows the last call), and AgreeInv (what is on its way settles who    *)
(* owns mce's name, what it allows and whether the blanking is paused).    *)
(***************************************************************************)
EXTENDS DisplayControl, SequenceTheorems, TLAPS

-----------------------------------------------------------------------------
(* The invariants *)

\* A call that says whether the unlock screen may draw.
Draws(message) == message.of \in {"enable", "disable", "malformed"}

IsCall(message) == message.of = "requirements" \/ Draws(message)

\* What mce asked for with it.
Kind(message) == IF message.of = "malformed" THEN "disable" ELSE message.of

\* A call of the mce that runs, and an answer to it.
OwnCall(message) == IsCall(message) /\ message.from = run

OwnReply(request) == request.of = "reply" /\ request.to = run

\* The calls of one mce come before those of the next.
FromInv ==
    /\ \A i \in DOMAIN bus : bus[i].from <= run
    /\ \A i, j \in DOMAIN bus : i <= j => bus[i].from <= bus[j].from
    /\ \A i \in DOMAIN sent : sent[i].of = "reply" => sent[i].to <= run

\* mce waits for one answer at a time.
CallInv ==
    /\ FromInv
    /\ ~running => call = "none" /\ permits = "unknown"
    /\ running =>
        /\ \A i \in DOMAIN bus : OwnCall(bus[i]) => call = Kind(bus[i])
        /\ \A i \in DOMAIN sent : OwnReply(sent[i]) => call # "none"
        /\ \A i, j \in DOMAIN bus : OwnCall(bus[i]) /\ OwnCall(bus[j]) => i = j
        /\ \A i, j \in DOMAIN sent : OwnReply(sent[i]) /\ OwnReply(sent[j]) => i = j
        /\ \A i \in DOMAIN bus, j \in DOMAIN sent :
              ~(OwnCall(bus[i]) /\ OwnReply(sent[j]))

\* The call to stop drawing was handled last, and its answer was not overtaken.
Answered ==
    /\ running
    /\ \/ call = "none" /\ permits = "disable"
       \/ call = "disable" /\ \E i \in DOMAIN sent : OwnReply(sent[i])

StoppedInv ==
    Answered => updates = "disabled" /\ \A i \in DOMAIN bus : ~IsCall(bus[i])

\* The window and the display follow what mce said last.
WindowInv ==
    /\ ui => uiAllowed /\ updates # "unknown"
    /\ displayOn = (ui /\ updates = "enabled") /\ visible = displayOn
    /\ ui /\ ~displayOn => blanked

\* Where the owner of mce's name is "known" to run, position "i" of the queue is
\* reached while it still is, or is again.
Owned(queue, known, i) ==
    \/ /\ known
       /\ \A j \in DOMAIN queue : j < i /\ queue[j].of = "owner" => queue[j].value
    \/ \E k \in DOMAIN queue :
          /\ k < i /\ queue[k].of = "owner" /\ queue[k].value
          /\ \A j \in DOMAIN queue :
                k < j /\ j < i /\ queue[j].of = "owner" => queue[j].value

\* Nothing that mce said before position "i" lets the unlock screen draw.
Nothing(queue, known, i) ==
    /\ ~known
    /\ \A j \in DOMAIN queue :
          j < i => ~Draws(queue[j]) /\ ~(queue[j].of = "owner" /\ queue[j].value)

\* The unlock screen is told to draw after it learned who mce is, and what mce allows
\* too, unless it may not draw yet.
BusInv ==
    \A i \in DOMAIN bus :
        /\ Draws(bus[i]) => Owned(bus, mceIsRunning, i)
        /\ bus[i].of = "allowed" /\ bus[i].value =>
              \/ Owned(bus, mceIsRunning, i)
              \/ updates = "unknown" /\ Nothing(bus, mceIsRunning, i)

\* The question of the constructor has not been taken.
FirstQuestion ==
    /\ sent # <<>> /\ Head(sent).of = "owner"
    /\ permits = "unknown" /\ updates = "unknown"
    /\ Nothing(bus, mceIsRunning, Len(bus) + 1)

EndInv == running => Owned(bus, mceIsRunning, Len(bus) + 1) \/ FirstQuestion

RenewInv ==
    /\ updates # "unknown" /\ allowed => mceIsRunning
    /\ renewTimer = (ui /\ allowed)

\* What is on its way says "last" last, or nothing of the kind is on its way and
\* "known" is it.
Settles(queue, of, known, last) ==
    \/ /\ known = last /\ \A i \in DOMAIN queue : queue[i].of # of
    \/ \E k \in DOMAIN queue :
          /\ queue[k].of = of /\ queue[k].value = last
          /\ \A j \in DOMAIN queue : k < j => queue[j].of # of

Asked(of) == \E i \in DOMAIN sent : sent[i].of = of

\* mce is asked when the owner of its name becomes known, again.
AsksAgain == ~mceIsRunning \/ \E i \in DOMAIN bus : bus[i].of = "owner" /\ ~bus[i].value

KnowsInv ==
    /\ Settles(bus, "owner", mceIsRunning, running) \/ (running /\ Asked("owner"))
    /\ running =>
          Asked("allowed") \/ AsksAgain \/ Settles(bus, "allowed", allowed, mceAllows)

\* mce has not stopped so far.
FirstRun == run = 0 \/ (run = 1 /\ running)

\* A pause that is not wanted any more is about to be stopped.
StartsInv ==
    \A i \in DOMAIN sent : sent[i].of = "start" =>
        renewTimer \/ \E j \in DOMAIN sent : i < j /\ sent[j].of = "stop"

PauseInv ==
    /\ paused => running
    /\ running => run # 0
    /\ FirstRun =>
        /\ \A i \in DOMAIN bus : bus[i].of = "owner" => bus[i].value
        /\ paused => renewTimer \/ Asked("stop")
        /\ StartsInv

AgreeInv == BusInv /\ EndInv /\ RenewInv /\ KnowsInv /\ PauseInv

-----------------------------------------------------------------------------
(* Queues *)

\* What is left of a queue after its head.
LEMMA TailFacts ==
    ASSUME NEW S, NEW queue \in Seq(S), queue # <<>>
    PROVE  /\ Tail(queue) \in Seq(S) /\ Len(Tail(queue)) = Len(queue) - 1
           /\ Head(queue) = queue[1] /\ 1 \in DOMAIN queue /\ Head(queue) \in S
           /\ \A i \in DOMAIN Tail(queue) :
                 i + 1 \in DOMAIN queue /\ Tail(queue)[i] = queue[i + 1]
           /\ \A i \in DOMAIN queue :
                 i # 1 => i - 1 \in DOMAIN Tail(queue) /\ Tail(queue)[i - 1] = queue[i]
<1>1. Len(queue) \in Nat /\ Len(queue) # 0 /\ DOMAIN queue = 1 .. Len(queue)
  OBVIOUS
<1>2. Tail(queue) \in Seq(S) /\ Len(Tail(queue)) = Len(queue) - 1
      /\ DOMAIN Tail(queue) = 1 .. Len(queue) - 1
  BY <1>1
<1>3. \A i \in 1 .. Len(queue) - 1 : Tail(queue)[i] = queue[i + 1]
  BY <1>1
<1> QED
  BY <1>1, <1>2, <1>3

\* A queue with one more message.
LEMMA AppendFacts ==
    ASSUME NEW S, NEW queue \in Seq(S), NEW m \in S
    PROVE  /\ Append(queue, m) \in Seq(S) /\ Len(Append(queue, m)) = Len(queue) + 1
           /\ DOMAIN Append(queue, m) = 1 .. Len(queue) + 1
           /\ DOMAIN queue = 1 .. Len(queue)
           /\ \A i \in DOMAIN queue : Append(queue, m)[i] = queue[i]
           /\ Append(queue, m)[Len(queue) + 1] = m
  OBVIOUS

\* Requests are added to those that wait.
Grows ==
    /\ sent' \in Seq(Request) /\ Len(sent) <= Len(sent')
    /\ \A i \in DOMAIN sent : i \in DOMAIN sent' /\ sent'[i] = sent[i]
    /\ \A i \in DOMAIN sent' : i \notin DOMAIN sent =>
          /\ Len(sent) < i /\ sent'[i].of # "owner"
          /\ sent'[i].of = "start" => renewTimer'

AsksAllowed == \E i \in DOMAIN sent' : i \notin DOMAIN sent /\ sent'[i].of = "allowed"

Stops == \E i \in DOMAIN sent' : i \notin DOMAIN sent /\ sent'[i].of = "stop"

\* No answer is added, or one, to the message.
NoReply ==
    \A i \in DOMAIN sent' : i \notin DOMAIN sent => sent'[i].of # "reply"

OneReply(message) ==
    /\ \A i \in DOMAIN sent' : i \notin DOMAIN sent /\ sent'[i].of = "reply" =>
          i = Len(sent') /\ sent'[i].to = message.from
    /\ Len(sent') \in DOMAIN sent' /\ Len(sent') \notin DOMAIN sent
    /\ sent'[Len(sent')] = ReplyTo(message)[1]

\* Two queues in a row.
LEMMA ConcatFacts ==
    ASSUME NEW S, NEW s \in Seq(S), NEW t \in Seq(S)
    PROVE  /\ s \o t \in Seq(S) /\ Len(s \o t) = Len(s) + Len(t)
           /\ \A i \in DOMAIN s : i \in DOMAIN (s \o t) /\ (s \o t)[i] = s[i]
           /\ \A i \in DOMAIN (s \o t) : i \notin DOMAIN s =>
                 Len(s) < i /\ i - Len(s) \in DOMAIN t /\ (s \o t)[i] = t[i - Len(s)]
           /\ \A i \in DOMAIN t :
                 /\ Len(s) + i \in DOMAIN (s \o t) /\ Len(s) + i \notin DOMAIN s
                 /\ (s \o t)[Len(s) + i] = t[i]
  OBVIOUS

LEMMA NoMore == ASSUME NEW S PROVE <<>> \in Seq(S) /\ Len(<<>>) = 0 /\ DOMAIN <<>> = {}
  OBVIOUS

LEMMA OneMore ==
    ASSUME NEW S, NEW m \in S
    PROVE  /\ <<m>> \in Seq(S) /\ Len(<<m>>) = 1 /\ DOMAIN <<m>> = {1} /\ <<m>>[1] = m
           /\ \A s \in Seq(S) : Append(s, m) = s \o <<m>> /\ s \o <<>> = s
  OBVIOUS

\* Queue "t" is queue "s" with three more parts.
Parts(s, b, p, a, t) ==
    /\ t \in Seq(Request) /\ Len(s) <= Len(t)
    /\ \A i \in DOMAIN s : i \in DOMAIN t /\ t[i] = s[i]
    /\ \A i \in DOMAIN t : i \notin DOMAIN s =>
          /\ Len(s) < i
          /\ \/ \E j \in DOMAIN b : t[i] = b[j]
             \/ \E j \in DOMAIN p : t[i] = p[j]
             \/ \E j \in DOMAIN a : t[i] = a[j] /\ i = Len(t) - Len(a) + j
    /\ \A j \in DOMAIN b : \E i \in DOMAIN t : i \notin DOMAIN s /\ t[i] = b[j]
    /\ \A j \in DOMAIN p : \E i \in DOMAIN t : i \notin DOMAIN s /\ t[i] = p[j]
    /\ \A j \in DOMAIN a :
          LET i == Len(t) - Len(a) + j IN
          i \in DOMAIN t /\ i \notin DOMAIN s /\ t[i] = a[j]

\* What a handler sends before the pause, for the pause and after it.
LEMMA ThreeParts ==
    ASSUME NEW s \in Seq(Request), NEW b \in Seq(Request), NEW p \in Seq(Request),
           NEW a \in Seq(Request)
    PROVE  Parts(s, b, p, a, ((s \o b) \o p) \o a)
<1> DEFINE t == ((s \o b) \o p) \o a
<1> DEFINE x == s \o b
           y == x \o p
<1>1. /\ x \in Seq(Request) /\ Len(x) = Len(s) + Len(b)
      /\ \A i \in DOMAIN s : i \in DOMAIN x /\ x[i] = s[i]
      /\ \A i \in DOMAIN x : i \notin DOMAIN s =>
            Len(s) < i /\ i - Len(s) \in DOMAIN b /\ x[i] = b[i - Len(s)]
      /\ \A i \in DOMAIN b :
            Len(s) + i \in DOMAIN x /\ Len(s) + i \notin DOMAIN s /\ x[Len(s) + i] = b[i]
  BY ConcatFacts
<1> HIDE DEF x
<1>2. /\ y \in Seq(Request) /\ Len(y) = Len(x) + Len(p)
      /\ \A i \in DOMAIN x : i \in DOMAIN y /\ y[i] = x[i]
      /\ \A i \in DOMAIN y : i \notin DOMAIN x =>
            Len(x) < i /\ i - Len(x) \in DOMAIN p /\ y[i] = p[i - Len(x)]
      /\ \A i \in DOMAIN p :
            Len(x) + i \in DOMAIN y /\ Len(x) + i \notin DOMAIN x /\ y[Len(x) + i] = p[i]
  BY <1>1, ConcatFacts
<1> HIDE DEF y
<1>3. /\ t \in Seq(Request) /\ Len(t) = Len(y) + Len(a)
      /\ \A i \in DOMAIN y : i \in DOMAIN t /\ t[i] = y[i]
      /\ \A i \in DOMAIN t : i \notin DOMAIN y =>
            Len(y) < i /\ i - Len(y) \in DOMAIN a /\ t[i] = a[i - Len(y)]
      /\ \A i \in DOMAIN a :
            Len(y) + i \in DOMAIN t /\ Len(y) + i \notin DOMAIN y /\ t[Len(y) + i] = a[i]
  <2>1. t = y \o a
    BY DEF x, y
  <2>2. y \in Seq(Request)
    BY <1>2
  <2>3. /\ y \o a \in Seq(Request) /\ Len(y \o a) = Len(y) + Len(a)
        /\ \A i \in DOMAIN y : i \in DOMAIN (y \o a) /\ (y \o a)[i] = y[i]
        /\ \A i \in DOMAIN (y \o a) : i \notin DOMAIN y =>
              Len(y) < i /\ i - Len(y) \in DOMAIN a /\ (y \o a)[i] = a[i - Len(y)]
        /\ \A i \in DOMAIN a :
              /\ Len(y) + i \in DOMAIN (y \o a) /\ Len(y) + i \notin DOMAIN y
              /\ (y \o a)[Len(y) + i] = a[i]
    BY <2>2, ConcatFacts
  <2> HIDE DEF t
  <2> QED
    BY <2>1, <2>3
<1> HIDE DEF t
<1>4. Len(s) \in Nat /\ Len(b) \in Nat /\ Len(p) \in Nat /\ Len(a) \in Nat
      /\ Len(x) \in Nat /\ Len(y) \in Nat /\ Len(t) \in Nat
      /\ DOMAIN s = 1 .. Len(s) /\ DOMAIN x = 1 .. Len(x) /\ DOMAIN y = 1 .. Len(y)
      /\ DOMAIN t = 1 .. Len(t) /\ DOMAIN a = 1 .. Len(a)
  BY <1>1, <1>2, <1>3
<1>5. ASSUME NEW i \in DOMAIN t, i \notin DOMAIN s
      PROVE  /\ Len(s) < i
             /\ \/ \E j \in DOMAIN b : t[i] = b[j]
                \/ \E j \in DOMAIN p : t[i] = p[j]
                \/ \E j \in DOMAIN a : t[i] = a[j] /\ i = Len(t) - Len(a) + j
  <2>0. Len(s) < i
    BY <1>4, <1>5
  <2>1. CASE i \in DOMAIN x
    BY <1>1, <1>2, <1>3, <1>5, <2>0, <2>1
  <2>2. CASE i \in DOMAIN y /\ i \notin DOMAIN x
    BY <1>2, <1>3, <2>0, <2>2
  <2>3. CASE i \notin DOMAIN y
    <3>1. i - Len(y) \in DOMAIN a /\ t[i] = a[i - Len(y)]
      BY <1>3, <1>5, <2>3
    <3>2. i = Len(t) - Len(a) + (i - Len(y))
      BY <1>3, <1>4, <1>5
    <3> QED
      BY <2>0, <3>1, <3>2
  <2> QED
    BY <2>1, <2>2, <2>3
<1>6. \A j \in DOMAIN b : \E i \in DOMAIN t : i \notin DOMAIN s /\ t[i] = b[j]
  BY <1>1, <1>2, <1>3
<1>7. \A j \in DOMAIN p : \E i \in DOMAIN t : i \notin DOMAIN s /\ t[i] = p[j]
  BY <1>1, <1>2, <1>3
<1>8. ASSUME NEW j \in DOMAIN a
      PROVE  LET i == Len(t) - Len(a) + j IN
             i \in DOMAIN t /\ i \notin DOMAIN s /\ t[i] = a[j]
  <2>1. Len(t) - Len(a) + j = Len(y) + j
    BY <1>3, <1>4, <1>8
  <2>2. Len(y) + j \notin DOMAIN s
    BY <1>1, <1>2, <1>3, <1>8
  <2> QED
    BY <1>3, <1>8, <2>1, <2>2
<1>9. /\ Len(s) <= Len(t)
      /\ \A i \in DOMAIN s : i \in DOMAIN t /\ t[i] = s[i]
  BY <1>1, <1>2, <1>3, <1>4
<1> QED
  BY <1>3, <1>5, <1>6, <1>7, <1>8, <1>9 DEF Parts, t

\* What evaluateNeedForBlankingPauseTimer and its caller send.
LEMMA PauseSends ==
    ASSUME DisplayTypeOK, NEW b \in {<<>>, <<To("allowed")>>}, NEW m,
           NEW a \in {<<>>, ReplyTo(m)}, m.from \in Nat,
           EvaluatePause(sent \o b, a)
    PROVE  /\ Grows
           /\ b # <<>> => AsksAllowed
           /\ renewTimer /\ ~renewTimer' /\ mceIsRunning' => Stops
           /\ a = <<>> => NoReply
           /\ a = ReplyTo(m) => OneReply(m)
<1> DEFINE prevent == ui' /\ allowed'
           p == IF prevent /\ ~renewTimer THEN <<To("start")>>
                ELSE IF renewTimer /\ ~prevent /\ mceIsRunning' THEN <<To("stop")>>
                ELSE <<>>
<1>1. sent' = ((sent \o b) \o p) \o a /\ (renewTimer' <=> prevent)
  BY DEF EvaluatePause
<1>2. To("allowed") \in Request /\ To("start") \in Request /\ To("stop") \in Request
      /\ To("allowed").of = "allowed" /\ To("start").of = "start" /\ To("stop").of = "stop"
  BY DEF To, Request
<1>3. /\ p \in Seq(Request)
      /\ \A j \in DOMAIN p : p[j].of \in {"start", "stop"} /\ (p[j].of = "start" => renewTimer')
      /\ renewTimer /\ ~renewTimer' /\ mceIsRunning' => 1 \in DOMAIN p /\ p[1].of = "stop"
  <2>1. CASE prevent /\ ~renewTimer
    BY <1>1, <1>2, <2>1, OneMore
  <2>2. CASE ~(prevent /\ ~renewTimer) /\ renewTimer /\ ~prevent /\ mceIsRunning'
    BY <1>1, <1>2, <2>2, OneMore
  <2>3. CASE ~(prevent /\ ~renewTimer) /\ ~(renewTimer /\ ~prevent /\ mceIsRunning')
    BY <1>1, <2>3, NoMore
  <2> QED
    BY <2>1, <2>2, <2>3
<1>4. /\ b \in Seq(Request) /\ \A j \in DOMAIN b : b[j].of = "allowed"
      /\ b # <<>> => 1 \in DOMAIN b
  <2>1. CASE b = <<>>
    BY <2>1, NoMore
  <2>2. CASE b = <<To("allowed")>>
    BY <1>2, <2>2, OneMore
  <2> QED
    BY <2>1, <2>2
<1>5. /\ ReplyTo(m) \in Seq(Request) /\ Len(ReplyTo(m)) = 1 /\ DOMAIN ReplyTo(m) = {1}
      /\ ReplyTo(m)[1].of = "reply" /\ ReplyTo(m)[1].to = m.from
  <2>1. [of |-> "reply", to |-> m.from] \in Request
    BY DEF Request
  <2> QED
    BY <2>1, OneMore DEF ReplyTo
<1>6. a \in Seq(Request) /\ (a = <<>> => Len(a) = 0 /\ DOMAIN a = {})
  BY <1>5, NoMore
<1>7. sent \in Seq(Request)
  BY DEF DisplayTypeOK
<1> HIDE DEF p, prevent
<1>8. Parts(sent, b, p, a, sent')
  <2>1. p \in Seq(Request) /\ b \in Seq(Request) /\ a \in Seq(Request)
        /\ sent' = ((sent \o b) \o p) \o a
    BY <1>1, <1>3, <1>4, <1>6
  <2> QED
    BY <1>7, <2>1, ThreeParts
<1> DEFINE New(i) == i \in DOMAIN sent' /\ i \notin DOMAIN sent
<1>9. \A i : New(i) =>
         /\ Len(sent) < i /\ sent'[i].of # "owner"
         /\ sent'[i].of = "start" => renewTimer'
         /\ sent'[i].of = "reply" =>
               \E j \in DOMAIN a : sent'[i] = a[j] /\ i = Len(sent') - Len(a) + j
  <2> SUFFICES ASSUME NEW i, New(i)
               PROVE  /\ Len(sent) < i /\ sent'[i].of # "owner"
                      /\ sent'[i].of = "start" => renewTimer'
                      /\ sent'[i].of = "reply" =>
                            \E j \in DOMAIN a :
                                sent'[i] = a[j] /\ i = Len(sent') - Len(a) + j
    OBVIOUS
  <2>0. Len(sent) < i
    BY <1>8 DEF Parts
  <2>1. CASE \E j \in DOMAIN b : sent'[i] = b[j]
    BY <1>4, <2>0, <2>1
  <2>2. CASE \E j \in DOMAIN p : sent'[i] = p[j]
    BY <1>3, <2>0, <2>2
  <2>3. CASE \E j \in DOMAIN a : sent'[i] = a[j] /\ i = Len(sent') - Len(a) + j
    <3>1. sent'[i].of = "reply"
      BY <1>5, <1>6, <2>3, NoMore
    <3> QED
      BY <2>0, <2>3, <3>1
  <2> QED
    BY <1>8, <2>1, <2>2, <2>3 DEF Parts
<1>10. Grows
  BY <1>8, <1>9 DEF Parts, Grows
<1>11. ASSUME b # <<>> PROVE AsksAllowed
  <2>1. 1 \in DOMAIN b /\ b[1].of = "allowed"
    BY <1>4, <1>11
  <2>2. PICK i \in DOMAIN sent' : i \notin DOMAIN sent /\ sent'[i] = b[1]
    BY <1>8, <2>1 DEF Parts
  <2> QED
    BY <2>1, <2>2 DEF AsksAllowed
<1>12. ASSUME renewTimer, ~renewTimer', mceIsRunning' PROVE Stops
  <2>1. 1 \in DOMAIN p /\ p[1].of = "stop"
    BY <1>3, <1>12
  <2>2. PICK i \in DOMAIN sent' : i \notin DOMAIN sent /\ sent'[i] = p[1]
    BY <1>8, <2>1 DEF Parts
  <2> QED
    BY <2>1, <2>2 DEF Stops
<1>13. ASSUME a = <<>> PROVE NoReply
  <2>1. DOMAIN a = {}
    BY <1>6, <1>13
  <2> QED
    BY <1>9, <2>1 DEF NoReply
<1>14. ASSUME a = ReplyTo(m) PROVE OneReply(m)
  <2>1. Len(a) = 1 /\ DOMAIN a = {1} /\ a[1] = ReplyTo(m)[1]
    BY <1>5, <1>14
  <2>2. Len(sent') \in Nat
    BY <1>8 DEF Parts
  <2>3. Len(sent') - Len(a) + 1 = Len(sent')
    BY <2>1, <2>2
  <2>4. \A i : New(i) /\ sent'[i].of = "reply" =>
           i = Len(sent') /\ sent'[i] = ReplyTo(m)[1]
    BY <1>9, <2>1, <2>3
  <2>5. New(Len(sent')) /\ sent'[Len(sent')] = ReplyTo(m)[1]
    BY <1>8, <2>1, <2>3 DEF Parts
  <2> QED
    BY <1>5, <2>4, <2>5 DEF OneReply
<1> QED
  BY <1>10, <1>11, <1>12, <1>13, <1>14

-----------------------------------------------------------------------------
(* What the handlers do *)

\* One request is sent.
LEMMA OneSent ==
    ASSUME DisplayTypeOK, NEW r \in Request, sent' = sent \o <<r>>,
           r.of # "owner", r.of = "start" => renewTimer'
    PROVE  /\ Grows /\ Len(sent') = Len(sent) + 1
           /\ \A i \in DOMAIN sent' : i \notin DOMAIN sent => i = Len(sent')
           /\ Len(sent') \in DOMAIN sent' /\ Len(sent') \notin DOMAIN sent
           /\ sent'[Len(sent')] = r
<1>1. sent \in Seq(Request)
  BY DEF DisplayTypeOK
<1>2. <<r>> \in Seq(Request) /\ Len(<<r>>) = 1 /\ DOMAIN <<r>> = {1} /\ <<r>>[1] = r
  BY OneMore
<1> DEFINE t == <<r>>
<1> HIDE DEF t
<1>3. /\ sent' \in Seq(Request) /\ Len(sent') = Len(sent) + Len(t)
      /\ \A i \in DOMAIN sent : i \in DOMAIN sent' /\ sent'[i] = sent[i]
      /\ \A i \in DOMAIN sent' : i \notin DOMAIN sent =>
            Len(sent) < i /\ i - Len(sent) \in DOMAIN t /\ sent'[i] = t[i - Len(sent)]
      /\ \A i \in DOMAIN t :
            /\ Len(sent) + i \in DOMAIN sent' /\ Len(sent) + i \notin DOMAIN sent
            /\ sent'[Len(sent) + i] = t[i]
  <2>1. t \in Seq(Request)
    BY <1>2 DEF t
  <2>2. sent' = sent \o t
    BY DEF t
  <2> QED
    BY <1>1, <2>1, <2>2, ConcatFacts
<1>4. Len(t) = 1 /\ DOMAIN t = {1} /\ t[1] = r /\ Len(sent) \in Nat /\ Len(sent') \in Nat
      /\ DOMAIN sent' = 1 .. Len(sent')
  BY <1>1, <1>2, <1>3 DEF t
<1>5. \A i \in DOMAIN sent' : i \notin DOMAIN sent => i = Len(sent') /\ sent'[i] = r
  BY <1>3, <1>4
<1>6. Len(sent') \in DOMAIN sent' /\ Len(sent') \notin DOMAIN sent /\ sent'[Len(sent')] = r
  BY <1>3, <1>4
<1>7. Grows
  BY <1>3, <1>4, <1>5 DEF Grows
<1> QED
  BY <1>3, <1>4, <1>5, <1>6, <1>7

\* A pause that is evaluated before or after a reply, or on its own.
LEMMA Evaluated ==
    ASSUME DisplayTypeOK, EvaluatePause(sent, <<>>)
    PROVE  /\ Grows /\ NoReply /\ renewTimer' = (ui' /\ allowed')
           /\ renewTimer /\ ~renewTimer' /\ mceIsRunning' => Stops
<1>1. sent \o <<>> = sent
  BY OneMore DEF DisplayTypeOK
<1>2. EvaluatePause(sent \o <<>>, <<>>)
  BY <1>1
<1> DEFINE m == [from |-> 0]
<1>3. m.from \in Nat
  OBVIOUS
<1> HIDE DEF m
<1>4. Grows /\ NoReply /\ (renewTimer /\ ~renewTimer' /\ mceIsRunning' => Stops)
  BY <1>2, <1>3, PauseSends
<1> QED
  BY <1>4 DEF EvaluatePause

LEMMA EvaluatedReply ==
    ASSUME DisplayTypeOK, NEW m \in Message, EvaluatePause(sent, ReplyTo(m))
    PROVE  /\ Grows /\ OneReply(m) /\ renewTimer' = (ui' /\ allowed')
           /\ renewTimer /\ ~renewTimer' /\ mceIsRunning' => Stops
<1>1. sent \o <<>> = sent
  BY OneMore DEF DisplayTypeOK
<1>2. EvaluatePause(sent \o <<>>, ReplyTo(m))
  BY <1>1
<1>3. m.from \in Nat
  BY DEF Message
<1>4. Grows /\ OneReply(m) /\ (renewTimer /\ ~renewTimer' /\ mceIsRunning' => Stops)
  BY <1>2, <1>3, PauseSends
<1> QED
  BY <1>4 DEF EvaluatePause

\* What becomes of the requests when message "m" is handled.
Handled(m) ==
    /\ Grows
    /\ IsCall(m) => OneReply(m)
    /\ ~IsCall(m) => NoReply
    /\ renewTimer /\ ~renewTimer' /\ mceIsRunning' => Stops
    /\ m.of = "owner" /\ m.value /\ ~mceIsRunning => AsksAllowed
    /\ m.of # "requirements" => renewTimer' = (ui' /\ allowed')

\* What becomes of the states.
Learns(m) ==
    /\ Draws(m) =>
        /\ updates' = (IF m.of = "enable" THEN "enabled" ELSE "disabled")
        /\ UNCHANGED <<uiAllowed, mceIsRunning, allowed>>
        /\ IF updates' # updates THEN UpdatesEnabledChanged
           ELSE UNCHANGED <<ui, displayOn, visible, blanked>>
    /\ ~Draws(m) => UNCHANGED <<ui_vars, updates>>
    /\ m.of = "requirements" => UNCHANGED pause_vars
    /\ m.of = "owner" =>
        /\ mceIsRunning' = m.value
        /\ allowed' = (IF mceIsRunning /\ ~m.value THEN FALSE ELSE allowed)
    /\ m.of = "allowed" => allowed' = m.value /\ UNCHANGED mceIsRunning

LEMMA DispatchFacts ==
    ASSUME DisplayTypeOK, Dispatch
    PROVE  /\ bus # <<>> /\ bus' = Tail(bus) /\ Head(bus) \in Message
           /\ UNCHANGED mce_vars
           /\ Handled(Head(bus)) /\ Learns(Head(bus))
<1> DEFINE m == Head(bus)
<1>1. bus # <<>> /\ bus' = Tail(bus) /\ UNCHANGED mce_vars
  BY DEF Dispatch
<1>2. m \in Message
  BY <1>1 DEF DisplayTypeOK
<1> HIDE DEF m
<1>3. ASSUME m.of \in {"enable", "disable", "malformed"}, SetUpdatesEnabled(m) PROVE Handled(m) /\ Learns(m)
  <2>1. /\ Grows /\ OneReply(m) /\ renewTimer' = (ui' /\ allowed')
        /\ renewTimer /\ ~renewTimer' /\ mceIsRunning' => Stops
    BY <1>2, <1>3, EvaluatedReply DEF SetUpdatesEnabled
  <2>2. Draws(m) /\ IsCall(m) /\ m.of \notin {"requirements", "owner", "allowed"}
    BY <1>3 DEF Draws, IsCall
  <2>3. Handled(m)
    BY <2>1, <2>2 DEF Handled
  <2>4. Learns(m)
    BY <1>3, <2>2 DEF Learns, SetUpdatesEnabled
  <2> QED
    BY <2>3, <2>4
<1>4. ASSUME m.of = "requirements", GetSetupActions(m) PROVE Handled(m) /\ Learns(m)
  <2>1. ReplyTo(m)[1] \in Request /\ ReplyTo(m) = <<ReplyTo(m)[1]>>
        /\ ReplyTo(m)[1].of = "reply" /\ ReplyTo(m)[1].to = m.from
    BY <1>2 DEF ReplyTo, Request, Message
  <2>2. sent' = sent \o <<ReplyTo(m)[1]>>
    BY <1>4, <2>1 DEF GetSetupActions
  <2>3. /\ Grows /\ Len(sent') = Len(sent) + 1
        /\ \A i \in DOMAIN sent' : i \notin DOMAIN sent => i = Len(sent')
        /\ Len(sent') \in DOMAIN sent' /\ Len(sent') \notin DOMAIN sent
        /\ sent'[Len(sent')] = ReplyTo(m)[1]
    BY <2>1, <2>2, OneSent
  <2>4. OneReply(m)
    BY <2>1, <2>3 DEF OneReply
  <2>5. ~Draws(m) /\ IsCall(m)
    BY <1>4 DEF Draws, IsCall
  <2>6. Handled(m)
    BY <1>4, <2>3, <2>4, <2>5 DEF Handled, GetSetupActions, pause_vars
  <2>7. Learns(m)
    BY <1>4, <2>5 DEF Learns, GetSetupActions
  <2> QED
    BY <2>6, <2>7
<1>5. ASSUME m.of = "owner", OwnerChanges(m.value) PROVE Handled(m) /\ Learns(m)
  <2>0. sent \in Seq(Request) /\ To("allowed") \in Request
    BY DEF DisplayTypeOK, To, Request
  <2>1. /\ Grows /\ NoReply
        /\ m.value /\ ~mceIsRunning => AsksAllowed
        /\ renewTimer /\ ~renewTimer' /\ mceIsRunning' => Stops
    <3>1. CASE m.value /\ ~mceIsRunning
      <4>1. Append(sent, To("allowed")) = sent \o <<To("allowed")>>
        BY <2>0, OneMore
      <4>2. EvaluatePause(sent \o <<To("allowed")>>, <<>>)
        BY <1>5, <3>1, <4>1 DEF OwnerChanges
      <4>3. <<To("allowed")>> # <<>>
        OBVIOUS
      <4>4. m.from \in Nat
        BY <1>2 DEF Message
      <4> QED
        BY <4>2, <4>3, <4>4, PauseSends
    <3>2. CASE ~(m.value /\ ~mceIsRunning)
      <4>1. EvaluatePause(sent, <<>>)
        BY <1>5, <3>2 DEF OwnerChanges
      <4> QED
        BY <3>2, <4>1, Evaluated
    <3> QED
      BY <3>1, <3>2
  <2>2. renewTimer' = (ui' /\ allowed')
    BY <1>5 DEF OwnerChanges, EvaluatePause
  <2>3. ~Draws(m) /\ ~IsCall(m)
    BY <1>5 DEF Draws, IsCall
  <2>4. Handled(m)
    BY <2>1, <2>2, <2>3 DEF Handled
  <2>5. Learns(m)
    BY <1>5, <2>3 DEF Learns, OwnerChanges
  <2> QED
    BY <2>4, <2>5
<1>6. ASSUME m.of = "allowed", AllowedChanges(m.value) PROVE Handled(m) /\ Learns(m)
  <2>1. /\ Grows /\ NoReply /\ renewTimer' = (ui' /\ allowed')
        /\ renewTimer /\ ~renewTimer' /\ mceIsRunning' => Stops
    BY <1>6, Evaluated DEF AllowedChanges
  <2>2. ~Draws(m) /\ ~IsCall(m)
    BY <1>6 DEF Draws, IsCall
  <2>3. Handled(m)
    BY <1>6, <2>1, <2>2 DEF Handled
  <2>4. Learns(m)
    BY <1>6, <2>2 DEF Learns, AllowedChanges
  <2> QED
    BY <2>3, <2>4
<1>7. Handled(m) /\ Learns(m)
  BY <1>3, <1>4, <1>5, <1>6 DEF Dispatch, m
<1> QED
  BY <1>1, <1>2, <1>7 DEF m

-----------------------------------------------------------------------------
(* Types, and one answer at a time *)

\* A message that arrives comes last.
LEMMA ArrivesFacts ==
    ASSUME DisplayTypeOK, NEW of \in Call \cup {"malformed", "owner", "allowed"},
           NEW value \in BOOLEAN, run' \in Nat, Arrives(of, value)
    PROVE  LET m == [of |-> of, from |-> run', value |-> value] IN
           /\ m \in Message /\ bus' \in Seq(Message) /\ Len(bus') = Len(bus) + 1
           /\ DOMAIN bus' = 1 .. Len(bus) + 1 /\ DOMAIN bus = 1 .. Len(bus)
           /\ Len(bus) \in Nat
           /\ \A i \in DOMAIN bus : bus'[i] = bus[i]
           /\ bus'[Len(bus) + 1] = m
<1> DEFINE m == [of |-> of, from |-> run', value |-> value]
<1>1. m \in Message
  BY DEF Message
<1>2. bus \in Seq(Message) /\ bus' = Append(bus, m) /\ Len(bus) \in Nat
  BY DEF DisplayTypeOK, Arrives
<1> HIDE DEF m
<1>3. /\ bus' \in Seq(Message) /\ Len(bus') = Len(bus) + 1
      /\ DOMAIN bus' = 1 .. Len(bus) + 1 /\ DOMAIN bus = 1 .. Len(bus)
      /\ \A i \in DOMAIN bus : bus'[i] = bus[i]
      /\ bus'[Len(bus) + 1] = m
  BY <1>1, <1>2, AppendFacts
<1> QED
  BY <1>1, <1>2, <1>3 DEF m

\* What is sent, taken or called next is typed.
LEMMA TypeStep ==
    ASSUME DisplayTypeOK, CallInv, Next
    PROVE  DisplayTypeOK'
<1>0. MaxChanges \in Nat
  BY DisplayBoundAssumption
<1>1. ASSUME Dispatch PROVE DisplayTypeOK'
  <2> DEFINE m == Head(bus)
  <2>1. /\ bus # <<>> /\ bus' = Tail(bus) /\ m \in Message /\ UNCHANGED mce_vars
        /\ Handled(m) /\ Learns(m)
    BY <1>1, DispatchFacts
  <2>2. bus' \in Seq(Message)
    BY <2>1, TailFacts DEF DisplayTypeOK
  <2> HIDE DEF m
  <2>3. m.of \in Call \cup {"malformed", "owner", "allowed"} /\ m.value \in BOOLEAN
    BY <2>1 DEF Message
  <2>4. /\ uiAllowed' \in BOOLEAN /\ ui' \in BOOLEAN /\ displayOn' \in BOOLEAN
        /\ visible' \in BOOLEAN /\ blanked' \in BOOLEAN
        /\ updates' \in {"unknown", "enabled", "disabled"}
    <3>1. CASE Draws(m)
      BY <2>1, <3>1 DEF Learns, UpdatesEnabledChanged, ShowsOrHides, CreatesUi,
         DisplayTypeOK
    <3>2. CASE ~Draws(m)
      BY <2>1, <3>2 DEF Learns, ui_vars, DisplayTypeOK
    <3> QED
      BY <3>1, <3>2
  <2>5. mceIsRunning' \in BOOLEAN /\ allowed' \in BOOLEAN
    BY <2>1, <2>3 DEF Learns, Draws, Call, pause_vars, DisplayTypeOK
  <2>6. renewTimer' \in BOOLEAN
    BY <2>1, <2>4, <2>5 DEF Handled, Learns, pause_vars, DisplayTypeOK
  <2> QED
    BY <2>1, <2>2, <2>4, <2>5, <2>6 DEF Handled, Grows, mce_vars, DisplayTypeOK
<1>2. ASSUME AllowsUi PROVE DisplayTypeOK'
  <2>1. EvaluatePause(sent, <<>>)
    BY <1>2 DEF AllowsUi
  <2>2. Grows /\ renewTimer' = (ui' /\ allowed')
    BY <2>1, Evaluated
  <2>3. ui' \in BOOLEAN /\ displayOn' \in BOOLEAN /\ visible' \in BOOLEAN
    BY <1>2 DEF AllowsUi, CreatesUi
  <2> QED
    BY <1>2, <2>2, <2>3 DEF AllowsUi, Grows, mce_vars, DisplayTypeOK
<1>3. ASSUME Renews PROVE DisplayTypeOK'
  <2>1. sent' \in Seq(Request)
    BY <1>3 DEF Renews, To, Request, DisplayTypeOK
  <2> QED
    BY <1>3, <2>1 DEF Renews, ui_vars, pause_vars, mce_vars, DisplayTypeOK
<1>4. ASSUME RequestTaken PROVE DisplayTypeOK'
  <2> DEFINE request == Head(sent)
  <2>1. sent' \in Seq(Request) /\ request \in Request /\ request = sent[1]
        /\ 1 \in DOMAIN sent
    BY <1>4, TailFacts DEF RequestTaken, DisplayTypeOK
  <2>2. bus' \in Seq(Message)
    <3>1. CASE UNCHANGED bus
      BY <3>1 DEF DisplayTypeOK
    <3>2. ASSUME request.of \in {"owner", "allowed"},
                 Arrives(request.of, request.of = "owner" \/ mceAllows)
          PROVE  bus' \in Seq(Message)
      <4>1. (request.of = "owner" \/ mceAllows) \in BOOLEAN /\ run' \in Nat
        BY <1>4 DEF RequestTaken, DisplayTypeOK
      <4>2. request.of \in Call \cup {"malformed", "owner", "allowed"}
        BY <3>2
      <4> HIDE DEF request
      <4> QED
        BY <3>2, <4>1, <4>2, ArrivesFacts
    <3> QED
      BY <1>4, <3>1, <3>2 DEF RequestTaken
  <2>3. paused' \in BOOLEAN
    BY <1>4 DEF RequestTaken, DisplayTypeOK
  <2>4. call' \in Call \cup {"none"}
        /\ permits' \in {"unknown", "enable", "disable", "ready"}
    <3>1. CASE running /\ request.of = "reply" /\ request.to = run
      <4>1. call # "none"
        BY <2>1, <3>1 DEF CallInv, OwnReply
      <4>2. call \in {"requirements", "enable", "disable"}
        BY <4>1 DEF DisplayTypeOK, Call
      <4>3. call' = "none" /\ permits' = (IF call = "requirements" THEN "ready" ELSE call)
        BY <1>4, <3>1 DEF RequestTaken
      <4> QED
        BY <4>2, <4>3
    <3>2. CASE ~(running /\ request.of = "reply" /\ request.to = run)
      BY <1>4, <3>2 DEF RequestTaken, DisplayTypeOK
    <3> QED
      BY <3>1, <3>2
  <2> QED
    BY <1>4, <2>1, <2>2, <2>3, <2>4 DEF RequestTaken, ui_vars, pause_vars, DisplayTypeOK
<1>5. ASSUME MceStep PROVE changes' \in 0 .. MaxChanges
  BY <1>0, <1>5 DEF MceStep, DisplayTypeOK
<1>6. ASSUME NEW kind \in Call, Calls(kind) PROVE DisplayTypeOK'
  <2>1. bus' \in Seq(Message)
    <3>1. run' \in Nat
      BY <1>6 DEF Calls, DisplayTypeOK
    <3>2. ASSUME Arrives(kind, TRUE) PROVE bus' \in Seq(Message)
      BY <3>1, <3>2, ArrivesFacts
    <3>3. ASSUME Arrives("malformed", TRUE) PROVE bus' \in Seq(Message)
      BY <3>1, <3>3, ArrivesFacts
    <3> QED
      BY <1>6, <3>2, <3>3 DEF Calls
  <2>2. changes' \in 0 .. MaxChanges
    BY <1>5, <1>6 DEF Calls
  <2> QED
    BY <1>6, <2>1, <2>2 DEF Calls, MceStep, ui_vars, pause_vars, DisplayTypeOK
<1>7. ASSUME MceChangesMind PROVE DisplayTypeOK'
  <2>1. mceAllows' \in BOOLEAN /\ paused' \in BOOLEAN /\ run' \in Nat
    BY <1>7 DEF MceChangesMind, DisplayTypeOK
  <2>2. bus' \in Seq(Message)
    BY <1>7, <2>1, ArrivesFacts DEF MceChangesMind
  <2>3. changes' \in 0 .. MaxChanges
    BY <1>5, <1>7 DEF MceChangesMind
  <2> QED
    BY <1>7, <2>1, <2>2, <2>3
    DEF MceChangesMind, MceStep, ui_vars, pause_vars, DisplayTypeOK
<1>8. ASSUME MceStops PROVE DisplayTypeOK'
  <2>1. run' \in Nat
    BY <1>8 DEF MceStops, DisplayTypeOK
  <2>2. bus' \in Seq(Message)
    BY <1>8, <2>1, ArrivesFacts DEF MceStops
  <2>3. changes' \in 0 .. MaxChanges
    BY <1>5, <1>8 DEF MceStops
  <2>4. /\ running' = FALSE /\ permits' = "unknown" /\ call' = "none" /\ paused' = FALSE
        /\ UNCHANGED <<mceAllows, sent, updates>>
        /\ UNCHANGED ui_vars /\ UNCHANGED pause_vars
    BY <1>8 DEF MceStops, MceStep
  <2>5. /\ uiAllowed' \in BOOLEAN /\ ui' \in BOOLEAN /\ displayOn' \in BOOLEAN
        /\ visible' \in BOOLEAN /\ blanked' \in BOOLEAN
        /\ updates' \in {"unknown", "enabled", "disabled"}
    BY <2>4 DEF ui_vars, DisplayTypeOK
  <2>6. /\ mceIsRunning' \in BOOLEAN /\ allowed' \in BOOLEAN /\ renewTimer' \in BOOLEAN
        /\ sent' \in Seq(Request) /\ mceAllows' \in BOOLEAN
    BY <2>4 DEF pause_vars, DisplayTypeOK
  <2> QED
    BY <2>1, <2>2, <2>3, <2>4, <2>5, <2>6 DEF DisplayTypeOK
<1>9. ASSUME MceStarts PROVE DisplayTypeOK'
  <2>1. run' \in Nat
    BY <1>9 DEF MceStarts, DisplayTypeOK
  <2>2. bus' \in Seq(Message)
    BY <1>9, <2>1, ArrivesFacts DEF MceStarts
  <2> QED
    BY <1>9, <2>1, <2>2 DEF MceStarts, ui_vars, pause_vars, DisplayTypeOK
<1>10. ASSUME PauseExpires PROVE DisplayTypeOK'
  <2>1. /\ UNCHANGED <<uiAllowed, ui, displayOn, visible, blanked, updates,
                        mceIsRunning, allowed, renewTimer, bus, sent, run, running,
                        permits, call, mceAllows, changes>>
        /\ paused' \in BOOLEAN
    BY <1>10 DEF PauseExpires, ui_vars, pause_vars
  <2> QED
    BY <2>1 DEF DisplayTypeOK
<1> QED
  BY <1>1, <1>2, <1>3, <1>4, <1>6, <1>7, <1>8, <1>9, <1>10 DEF Next

\* A message of the mce that runs last keeps the order of the calls.
LEMMA ArrivesInOrder ==
    ASSUME DisplayTypeOK, FromInv, run' \in Nat, run <= run', UNCHANGED sent,
           NEW of \in Call \cup {"malformed", "owner", "allowed"},
           NEW value \in BOOLEAN, Arrives(of, value)
    PROVE  FromInv'
<1> DEFINE m == [of |-> of, from |-> run', value |-> value]
           n == Len(bus)
<1>1. /\ m \in Message /\ bus' \in Seq(Message) /\ n \in Nat
      /\ DOMAIN bus' = 1 .. n + 1 /\ DOMAIN bus = 1 .. n
      /\ \A i \in DOMAIN bus : bus'[i] = bus[i]
      /\ bus'[n + 1] = m
  BY ArrivesFacts
<1>2. m.from = run'
  OBVIOUS
<1> HIDE DEF m, n
<1>3. \A i \in DOMAIN bus : bus[i].from \in Nat /\ bus[i].from <= run /\ run \in Nat
  <2>1. \A i \in DOMAIN bus : bus[i] \in Message
    BY DEF DisplayTypeOK
  <2>2. \A i \in DOMAIN bus : bus[i].from \in Nat
    BY <2>1 DEF Message
  <2> QED
    BY <2>2 DEF FromInv, DisplayTypeOK
<1>4. \A i \in DOMAIN bus' : bus'[i].from <= run'
  BY <1>1, <1>2, <1>3
<1>5. ASSUME NEW i \in DOMAIN bus', NEW j \in DOMAIN bus', i <= j
      PROVE  bus'[i].from <= bus'[j].from
  <2>1. CASE j = n + 1
    BY <1>1, <1>2, <1>4, <2>1
  <2>2. CASE j # n + 1
    <3>1. i \in DOMAIN bus /\ j \in DOMAIN bus
      BY <1>1, <1>5, <2>2
    <3> QED
      BY <1>1, <1>5, <3>1 DEF FromInv
  <2> QED
    BY <2>1, <2>2
<1>6. \A i \in DOMAIN sent' : sent'[i].of = "reply" => sent'[i].to <= run'
  <2>0. \A i \in DOMAIN sent : sent[i] \in Request
    BY DEF DisplayTypeOK
  <2>1. \A i \in DOMAIN sent : sent[i].to \in Nat /\ run \in Nat
    BY <2>0 DEF DisplayTypeOK, Request
  <2> QED
    BY <2>1 DEF FromInv
<1> QED
  BY <1>4, <1>5, <1>6 DEF FromInv

\* Requests without an answer change nothing between the unlock screen and mce.
LEMMA NoReplyKeepsCall ==
    ASSUME DisplayTypeOK, CallInv, Grows, NoReply,
           UNCHANGED <<bus, run, running, permits, call>>
    PROVE  CallInv'
<1>1. \A i \in DOMAIN sent' : sent'[i].of = "reply" => i \in DOMAIN sent /\ sent'[i] = sent[i]
  BY DEF Grows, NoReply
<1>2. FromInv'
  BY <1>1 DEF CallInv, FromInv
<1>3. \A i \in DOMAIN sent' : OwnReply(sent[i])' =>
          i \in DOMAIN sent /\ OwnReply(sent[i])
  BY <1>1 DEF OwnReply
<1>4. \A i \in DOMAIN bus : OwnCall(bus[i])' <=> OwnCall(bus[i])
  BY DEF OwnCall
<1> QED
  BY <1>2, <1>3, <1>4 DEF CallInv

LEMMA DispatchKeepsCall ==
    ASSUME DisplayTypeOK, CallInv, Dispatch
    PROVE  CallInv'
<1> DEFINE m == Head(bus)
<1>1. /\ bus # <<>> /\ bus' = Tail(bus) /\ m \in Message /\ UNCHANGED mce_vars
      /\ Handled(m)
  BY DispatchFacts
<1>2. /\ m = bus[1] /\ 1 \in DOMAIN bus
      /\ \A i \in DOMAIN bus' : i + 1 \in DOMAIN bus /\ bus'[i] = bus[i + 1] /\ i + 1 # 1
                                /\ i \in Int
  <2>1. /\ m = bus[1] /\ 1 \in DOMAIN bus /\ bus' \in Seq(Message)
        /\ \A i \in DOMAIN bus' : i + 1 \in DOMAIN bus /\ bus'[i] = bus[i + 1]
    BY <1>1, TailFacts DEF DisplayTypeOK
  <2>2. \A i \in DOMAIN bus' : i \in Int /\ i + 1 # 1
    BY <2>1
  <2> QED
    BY <2>1, <2>2
<1> HIDE DEF m
<1>3. \A i \in DOMAIN sent' :
          \/ i \in DOMAIN sent /\ sent'[i] = sent[i]
          \/ sent'[i].of # "reply"
          \/ IsCall(m) /\ i = Len(sent') /\ sent'[i].to = m.from
  BY <1>1 DEF Handled, Grows, NoReply, OneReply
<1>4. UNCHANGED <<run, running, permits, call>>
  BY <1>1 DEF mce_vars
<1>5. FromInv'
  <2>1. \A i \in DOMAIN bus' : bus'[i].from <= run'
    BY <1>2, <1>4 DEF CallInv, FromInv
  <2>2. ASSUME NEW i \in DOMAIN bus', NEW j \in DOMAIN bus', i <= j
        PROVE  bus'[i].from <= bus'[j].from
    <3>1. i + 1 <= j + 1 /\ i + 1 \in DOMAIN bus /\ j + 1 \in DOMAIN bus
      BY <1>2, <2>2
    <3>2. bus[i + 1].from <= bus[j + 1].from
      BY <3>1 DEF CallInv, FromInv
    <3> QED
      BY <1>2, <3>2
  <2>3. \A i \in DOMAIN sent' : sent'[i].of = "reply" => sent'[i].to <= run'
    BY <1>2, <1>3, <1>4 DEF CallInv, FromInv
  <2> QED
    BY <2>1, <2>2, <2>3 DEF FromInv
<1>6. \A i \in DOMAIN bus' : OwnCall(bus[i])' =>
          i + 1 \in DOMAIN bus /\ OwnCall(bus[i + 1]) /\ i + 1 # 1 /\ i \in Int
  BY <1>2, <1>4 DEF OwnCall, IsCall, Draws
<1>7. \A i \in DOMAIN sent' : OwnReply(sent[i])' =>
          \/ i \in DOMAIN sent /\ OwnReply(sent[i])
          \/ i = Len(sent') /\ OwnCall(bus[1])
  BY <1>2, <1>3, <1>4 DEF OwnReply, OwnCall
<1>8. ASSUME running
      PROVE  /\ \A i \in DOMAIN bus' : OwnCall(bus[i])' => call = Kind(bus'[i])
             /\ \A i \in DOMAIN sent' : OwnReply(sent[i])' => call # "none"
             /\ \A i, j \in DOMAIN bus' :
                   OwnCall(bus[i])' /\ OwnCall(bus[j])' => i = j
             /\ \A i, j \in DOMAIN sent' :
                   OwnReply(sent[i])' /\ OwnReply(sent[j])' => i = j
             /\ \A i \in DOMAIN bus', j \in DOMAIN sent' :
                   ~(OwnCall(bus[i])' /\ OwnReply(sent[j])')
  <2>1. \A i \in DOMAIN bus' : OwnCall(bus[i])' => call = Kind(bus'[i])
    BY <1>2, <1>6, <1>8 DEF CallInv
  <2>2. OwnCall(bus[1]) => call # "none"
    <3>1. OwnCall(bus[1]) => call = Kind(bus[1])
      BY <1>2, <1>8 DEF CallInv
    <3>2. IsCall(bus[1]) => Kind(bus[1]) # "none"
      BY DEF IsCall, Draws, Kind
    <3> QED
      BY <3>1, <3>2 DEF OwnCall
  <2>3. \A i \in DOMAIN sent' : OwnReply(sent[i])' => call # "none"
    BY <1>7, <1>8, <2>2 DEF CallInv
  <2>4. ASSUME NEW i \in DOMAIN bus', NEW j \in DOMAIN bus',
               OwnCall(bus[i])', OwnCall(bus[j])'
        PROVE  i = j
    <3>1. i + 1 = j + 1
      BY <1>6, <1>8, <2>4 DEF CallInv
    <3> QED
      BY <1>6, <2>4, <3>1
  <2>5. \A i, j \in DOMAIN sent' : OwnReply(sent[i])' /\ OwnReply(sent[j])' => i = j
    BY <1>2, <1>7, <1>8 DEF CallInv
  <2>6. \A i \in DOMAIN bus', j \in DOMAIN sent' :
            ~(OwnCall(bus[i])' /\ OwnReply(sent[j])')
    BY <1>2, <1>6, <1>7, <1>8 DEF CallInv
  <2> QED
    BY <2>1, <2>3, <2>4, <2>5, <2>6
<1> QED
  BY <1>4, <1>5, <1>8 DEF CallInv

\* mce takes a request: its call is answered, or it answers with what is no call.
LEMMA TakenKeepsCall ==
    ASSUME DisplayTypeOK, CallInv, RequestTaken
    PROVE  CallInv'
<1> DEFINE request == Head(sent)
<1>1. /\ request \in Request /\ request = sent[1] /\ 1 \in DOMAIN sent
      /\ \A i \in DOMAIN sent' :
            i + 1 \in DOMAIN sent /\ sent'[i] = sent[i + 1] /\ i + 1 # 1 /\ i \in Int
  <2>1. /\ request \in Request /\ request = sent[1] /\ 1 \in DOMAIN sent
        /\ sent' \in Seq(Request)
        /\ \A i \in DOMAIN sent' : i + 1 \in DOMAIN sent /\ sent'[i] = sent[i + 1]
    BY TailFacts DEF RequestTaken, DisplayTypeOK
  <2>2. \A i \in DOMAIN sent' : i \in Int /\ i + 1 # 1
    BY <2>1
  <2> QED
    BY <2>1, <2>2
<1>2. UNCHANGED <<run, running>> /\ run' \in Nat
  BY DEF RequestTaken, DisplayTypeOK
<1>3. \A i \in DOMAIN sent' : sent'[i].of = "reply" => sent'[i].to <= run'
  BY <1>1, <1>2 DEF CallInv, FromInv
<1>4. /\ \A i \in DOMAIN bus' : bus'[i].from <= run'
      /\ \A i, j \in DOMAIN bus' : i <= j => bus'[i].from <= bus'[j].from
      /\ \A i \in DOMAIN bus' : OwnCall(bus[i])' => i \in DOMAIN bus /\ bus'[i] = bus[i]
                                                  /\ OwnCall(bus[i])
  <2>1. CASE UNCHANGED bus
    BY <1>2, <2>1 DEF CallInv, FromInv, OwnCall
  <2>2. CASE /\ request.of \in {"owner", "allowed"}
             /\ Arrives(request.of, request.of = "owner" \/ mceAllows)
    <3> DEFINE value == request.of = "owner" \/ mceAllows
               of == request.of
               m == [of |-> of, from |-> run', value |-> value]
               n == Len(bus)
    <3>1. value \in BOOLEAN
      BY DEF DisplayTypeOK
    <3>2. of \in {"owner", "allowed"} /\ Arrives(of, value)
      BY <2>2
    <3> HIDE DEF value, of, request
    <3>3. /\ m \in Message /\ bus' \in Seq(Message) /\ n \in Nat
          /\ DOMAIN bus' = 1 .. n + 1 /\ DOMAIN bus = 1 .. n
          /\ \A i \in DOMAIN bus : bus'[i] = bus[i]
          /\ bus'[n + 1] = m
      BY <1>2, <3>1, <3>2, ArrivesFacts
    <3>4. m.from = run' /\ m.of \in {"owner", "allowed"}
      BY <3>2
    <3> HIDE DEF m, n
    <3>5. \A i \in DOMAIN bus' : i \in DOMAIN bus \/ (i = n + 1 /\ bus'[i] = m)
      BY <3>3
    <3>6. \A i \in DOMAIN bus' : OwnCall(bus[i])' => i \in DOMAIN bus
      BY <3>4, <3>5 DEF OwnCall, IsCall, Draws
    <3>7. \A i \in DOMAIN bus' : OwnCall(bus[i])' => OwnCall(bus[i]) /\ bus'[i] = bus[i]
      BY <1>2, <3>3, <3>6 DEF OwnCall
    <3>8. \A i \in DOMAIN bus' : bus'[i].from <= run'
      BY <1>2, <3>3, <3>4, <3>5 DEF CallInv, FromInv
    <3>9. ASSUME NEW i \in DOMAIN bus', NEW j \in DOMAIN bus', i <= j
          PROVE  bus'[i].from <= bus'[j].from
      <4>1. CASE j = n + 1
        BY <3>3, <3>4, <3>8, <4>1
      <4>2. CASE j # n + 1
        <5>1. i \in DOMAIN bus /\ j \in DOMAIN bus
          BY <3>3, <3>9, <4>2
        <5> QED
          BY <3>3, <3>9, <5>1 DEF CallInv, FromInv
      <4> QED
        BY <4>1, <4>2
    <3> QED
      BY <3>6, <3>7, <3>8, <3>9
  <2> QED
    BY <2>1, <2>2 DEF RequestTaken
<1>5. FromInv'
  BY <1>3, <1>4 DEF FromInv
<1>6. \A i \in DOMAIN sent' : OwnReply(sent[i])' =>
          i + 1 \in DOMAIN sent /\ OwnReply(sent[i + 1]) /\ i + 1 # 1 /\ i \in Int
  BY <1>1, <1>2 DEF OwnReply
<1> HIDE DEF request
<1>7. ASSUME running
      PROVE  /\ \A i \in DOMAIN bus' : OwnCall(bus[i])' => call' = Kind(bus'[i])
             /\ \A i \in DOMAIN sent' : OwnReply(sent[i])' => call' # "none"
             /\ \A i, j \in DOMAIN bus' :
                   OwnCall(bus[i])' /\ OwnCall(bus[j])' => i = j
             /\ \A i, j \in DOMAIN sent' :
                   OwnReply(sent[i])' /\ OwnReply(sent[j])' => i = j
             /\ \A i \in DOMAIN bus', j \in DOMAIN sent' :
                   ~(OwnCall(bus[i])' /\ OwnReply(sent[j])')
  <2>1. ASSUME NEW i \in DOMAIN sent', NEW j \in DOMAIN sent',
               OwnReply(sent[i])', OwnReply(sent[j])'
        PROVE  i = j
    <3>1. i + 1 = j + 1
      BY <1>6, <1>7, <2>1 DEF CallInv
    <3> QED
      BY <1>6, <2>1, <3>1
  <2>2. \A i, j \in DOMAIN bus' : OwnCall(bus[i])' /\ OwnCall(bus[j])' => i = j
    BY <1>4, <1>7 DEF CallInv
  <2>3. \A i \in DOMAIN bus', j \in DOMAIN sent' :
            ~(OwnCall(bus[i])' /\ OwnReply(sent[j])')
    BY <1>4, <1>6, <1>7 DEF CallInv
  <2>4. CASE OwnReply(request)
    <3>1. \A i \in DOMAIN bus' : ~OwnCall(bus[i])'
      BY <1>1, <1>4, <1>7, <2>4 DEF CallInv
    <3>2. \A i \in DOMAIN sent' : ~OwnReply(sent[i])'
      BY <1>1, <1>6, <1>7, <2>4 DEF CallInv
    <3> QED
      BY <2>1, <2>2, <2>3, <3>1, <3>2
  <2>5. CASE ~OwnReply(request)
    <3>1. UNCHANGED call
      BY <2>5 DEF RequestTaken, OwnReply, request
    <3>2. \A i \in DOMAIN bus' : OwnCall(bus[i])' => call' = Kind(bus'[i])
      BY <1>4, <1>7, <3>1 DEF CallInv
    <3>3. \A i \in DOMAIN sent' : OwnReply(sent[i])' => call' # "none"
      BY <1>6, <1>7, <3>1 DEF CallInv
    <3> QED
      BY <2>1, <2>2, <2>3, <3>2, <3>3
  <2> QED
    BY <2>4, <2>5
<1>8. ~running => UNCHANGED <<call, permits>>
  BY DEF RequestTaken
<1> QED
  BY <1>2, <1>5, <1>7, <1>8 DEF CallInv

\* A message of mce that is no call.
LEMMA TellsKeepsCall ==
    ASSUME DisplayTypeOK, CallInv, UNCHANGED <<run, running, permits, call, sent>>,
           NEW of \in {"owner", "allowed"}, NEW value \in BOOLEAN, Arrives(of, value)
    PROVE  CallInv'
<1> DEFINE m == [of |-> of, from |-> run', value |-> value]
           n == Len(bus)
<1>0. run' \in Nat /\ run <= run'
  BY DEF DisplayTypeOK
<1>1. /\ m \in Message /\ bus' \in Seq(Message) /\ n \in Nat
      /\ DOMAIN bus' = 1 .. n + 1 /\ DOMAIN bus = 1 .. n
      /\ \A i \in DOMAIN bus : bus'[i] = bus[i]
      /\ bus'[n + 1] = m
  BY <1>0, ArrivesFacts
<1>2. FromInv'
  BY <1>0, ArrivesInOrder DEF CallInv
<1>3. m.of \in {"owner", "allowed"}
  OBVIOUS
<1> HIDE DEF m, n
<1>4. \A i \in DOMAIN bus' : i \in DOMAIN bus \/ (i = n + 1 /\ bus'[i] = m)
  BY <1>1
<1>5. \A i \in DOMAIN bus' : OwnCall(bus[i])' => i \in DOMAIN bus
  BY <1>3, <1>4 DEF OwnCall, IsCall, Draws
<1>6. \A i \in DOMAIN bus' : OwnCall(bus[i])' =>
          i \in DOMAIN bus /\ OwnCall(bus[i]) /\ bus'[i] = bus[i]
  BY <1>1, <1>5 DEF OwnCall
<1>7. \A i \in DOMAIN sent' : OwnReply(sent[i])' <=> OwnReply(sent[i])
  BY DEF OwnReply
<1> QED
  BY <1>2, <1>6, <1>7 DEF CallInv

\* mce calls when it waits for nothing.
LEMMA CallsKeepsCall ==
    ASSUME DisplayTypeOK, CallInv, NEW kind \in Call, Calls(kind)
    PROVE  CallInv'
<1>0. run' \in Nat /\ run <= run' /\ UNCHANGED <<run, running, permits, sent>> /\ running
      /\ call = "none" /\ call' = kind
  BY DEF Calls, MceStep, DisplayTypeOK
<1>1. PICK of \in Call \cup {"malformed"} :
          Arrives(of, TRUE) /\ (IF of = "malformed" THEN kind = "disable" ELSE kind = of)
  BY DEF Calls, Call
<1> DEFINE m == [of |-> of, from |-> run', value |-> TRUE]
           n == Len(bus)
<1>2. /\ m \in Message /\ bus' \in Seq(Message) /\ n \in Nat
      /\ DOMAIN bus' = 1 .. n + 1 /\ DOMAIN bus = 1 .. n
      /\ \A i \in DOMAIN bus : bus'[i] = bus[i]
      /\ bus'[n + 1] = m
  BY <1>0, <1>1, ArrivesFacts
<1>3. FromInv'
  BY <1>0, <1>1, ArrivesInOrder DEF CallInv
<1>4. kind # "none" /\ Kind(m) = kind
  BY <1>1 DEF Call, Kind
<1> HIDE DEF m, n
<1>5. \A i \in DOMAIN bus : ~OwnCall(bus[i])
  <2>1. \A i \in DOMAIN bus : IsCall(bus[i]) => Kind(bus[i]) # "none"
    BY DEF IsCall, Draws, Kind
  <2> QED
    BY <1>0, <2>1 DEF CallInv, OwnCall
<1>6. \A i \in DOMAIN bus' : OwnCall(bus[i])' => i = n + 1 /\ bus'[i] = m
  <2>1. \A i \in DOMAIN bus' : i \in DOMAIN bus \/ (i = n + 1 /\ bus'[i] = m)
    BY <1>2
  <2>2. \A i \in DOMAIN bus : ~OwnCall(bus[i])'
    BY <1>0, <1>2, <1>5 DEF OwnCall
  <2> QED
    BY <2>1, <2>2
<1>7. \A i \in DOMAIN sent' : ~OwnReply(sent[i])'
  BY <1>0 DEF OwnReply, CallInv
<1>8. /\ \A i \in DOMAIN bus' : OwnCall(bus[i])' => call' = Kind(bus'[i])
      /\ \A i, j \in DOMAIN bus' : OwnCall(bus[i])' /\ OwnCall(bus[j])' => i = j
  BY <1>0, <1>4, <1>6
<1> QED
  BY <1>0, <1>3, <1>7, <1>8 DEF CallInv

LEMMA CallStep ==
    ASSUME DisplayTypeOK, CallInv, [Next]_vars
    PROVE  CallInv'
<1>1. CASE Dispatch
  BY <1>1, DispatchKeepsCall
<1>2. CASE AllowsUi
  <2>1. EvaluatePause(sent, <<>>)
    BY <1>2 DEF AllowsUi
  <2> QED
    BY <1>2, <2>1, Evaluated, NoReplyKeepsCall DEF AllowsUi, mce_vars
<1>3. CASE Renews
  <2>1. To("start") \in Request /\ To("start").of = "start"
    BY DEF To, Request
  <2>2. sent' = sent \o <<To("start")>> /\ renewTimer'
    BY <1>3, <2>1, OneMore DEF Renews, pause_vars, DisplayTypeOK
  <2>3. Grows /\ NoReply
    BY <2>1, <2>2, OneSent DEF NoReply
  <2> QED
    BY <1>3, <2>3, NoReplyKeepsCall DEF Renews, mce_vars
<1>4. CASE RequestTaken
  BY <1>4, TakenKeepsCall
<1>5. ASSUME NEW kind \in Call, Calls(kind) PROVE CallInv'
  BY <1>5, CallsKeepsCall
<1>6. CASE MceChangesMind
  <2>1. mceAllows' \in BOOLEAN
    BY <1>6 DEF MceChangesMind, DisplayTypeOK
  <2> QED
    BY <1>6, <2>1, TellsKeepsCall DEF MceChangesMind, MceStep
<1>7. CASE MceStops
  <2>1. run' \in Nat /\ run <= run' /\ UNCHANGED sent
    BY <1>7 DEF MceStops, MceStep, DisplayTypeOK
  <2>2. FromInv'
    BY <1>7, <2>1, ArrivesInOrder DEF MceStops, CallInv
  <2> QED
    BY <1>7, <2>2 DEF MceStops, CallInv
<1>8. CASE MceStarts
  <2>1. run \in Nat /\ run' = run + 1 /\ run' \in Nat /\ run <= run' /\ UNCHANGED sent
    BY <1>8 DEF MceStarts, DisplayTypeOK
  <2>2. FromInv'
    BY <1>8, <2>1, ArrivesInOrder DEF MceStarts, CallInv
  <2>3. \A i \in DOMAIN bus' : ~OwnCall(bus[i])'
    <3> DEFINE m == [of |-> "owner", from |-> run', value |-> TRUE]
               n == Len(bus)
    <3>1. /\ DOMAIN bus' = 1 .. n + 1 /\ DOMAIN bus = 1 .. n /\ n \in Nat
          /\ \A i \in DOMAIN bus : bus'[i] = bus[i]
          /\ bus'[n + 1] = m
      BY <1>8, <2>1, ArrivesFacts DEF MceStarts
    <3>2. m.of = "owner"
      OBVIOUS
    <3> HIDE DEF m, n
    <3>3. \A i \in DOMAIN bus' : i \in DOMAIN bus \/ bus'[i] = m
      BY <3>1
    <3>4. \A i \in DOMAIN bus : bus[i].from # run'
      <4>1. \A i \in DOMAIN bus : bus[i] \in Message
        BY DEF DisplayTypeOK
      <4>2. \A i \in DOMAIN bus : bus[i].from \in Nat /\ bus[i].from <= run
        BY <4>1 DEF CallInv, FromInv, Message
      <4> QED
        BY <2>1, <4>2
    <3> QED
      BY <3>1, <3>2, <3>3, <3>4 DEF OwnCall, IsCall, Draws
  <2>4. \A i \in DOMAIN sent' : ~OwnReply(sent[i])'
    <3>1. \A i \in DOMAIN sent : sent[i] \in Request
      BY DEF DisplayTypeOK
    <3>2. \A i \in DOMAIN sent : sent[i].to \in Nat
      BY <3>1 DEF Request
    <3>3. \A i \in DOMAIN sent : OwnReply(sent[i])' => sent[i].to <= run
      BY <2>1 DEF OwnReply, CallInv, FromInv
    <3> QED
      BY <2>1, <3>2, <3>3 DEF OwnReply
  <2> QED
    BY <1>8, <2>2, <2>3, <2>4 DEF CallInv, MceStarts
<1>9. CASE UNCHANGED <<bus, sent, run, running, permits, call>>
  BY <1>9 DEF CallInv, FromInv, OwnCall, OwnReply
<1> QED
  BY <1>1, <1>2, <1>3, <1>4, <1>5, <1>6, <1>7, <1>8, <1>9
  DEF Next, vars, mce_vars, PauseExpires

-----------------------------------------------------------------------------
(* The window is hidden once mce was told so *)

LEMMA WindowStep ==
    ASSUME DisplayTypeOK, WindowInv, [Next]_vars
    PROVE  WindowInv'
<1>1. CASE Dispatch
  <2> DEFINE m == Head(bus)
  <2>1. Learns(m)
    BY <1>1, DispatchFacts
  <2> HIDE DEF m
  <2>2. CASE Draws(m) /\ updates' # updates
    <3>1. UpdatesEnabledChanged /\ UNCHANGED uiAllowed
      BY <2>1, <2>2 DEF Learns
    <3>0. updates' # "unknown"
      BY <2>1, <2>2 DEF Learns
    <3>2. ui' = (ui \/ CreatesUi) /\ (ui' => uiAllowed')
      BY <3>1 DEF UpdatesEnabledChanged, CreatesUi, WindowInv
    <3>3. CASE ui'
      <4>1. ShowsOrHides(updates' = "enabled", displayOn \/ CreatesUi)
        BY <3>1, <3>3 DEF UpdatesEnabledChanged
      <4>2. displayOn' = (updates' = "enabled") /\ visible' = displayOn'
        BY <4>1 DEF ShowsOrHides
      <4>3. updates' # "enabled" => blanked'
        <5>1. CASE displayOn \/ CreatesUi
          BY <4>1, <5>1 DEF ShowsOrHides
        <5>2. CASE ~displayOn /\ ~CreatesUi
          <6>1. ui /\ blanked
            BY <3>2, <3>3, <5>2 DEF WindowInv
          <6> QED
            BY <4>1, <5>2, <6>1 DEF ShowsOrHides
        <5> QED
          BY <5>1, <5>2
      <4> QED
        BY <3>0, <3>2, <3>3, <4>2, <4>3 DEF WindowInv
    <3>4. CASE ~ui'
      <4>1. ~ui /\ UNCHANGED <<displayOn, visible, blanked>>
        BY <3>1, <3>2, <3>4 DEF UpdatesEnabledChanged, DisplayTypeOK
      <4> QED
        BY <3>4, <4>1 DEF WindowInv
    <3> QED
      BY <3>3, <3>4
  <2>3. CASE ~(Draws(m) /\ updates' # updates)
    BY <2>1, <2>3 DEF Learns, ui_vars, WindowInv
  <2> QED
    BY <2>2, <2>3
<1>2. CASE AllowsUi
  <2>1. ~ui /\ updates' = updates /\ uiAllowed' /\ displayOn' = ui' /\ visible' = ui'
        /\ ui' = CreatesUi
    BY <1>2 DEF AllowsUi, WindowInv
  <2>2. displayOn' = (ui' /\ updates' = "enabled") /\ (ui' => updates' # "unknown")
    BY <2>1 DEF CreatesUi
  <2> QED
    BY <2>1, <2>2 DEF WindowInv
<1>3. CASE UNCHANGED <<ui_vars, updates>>
  BY <1>3 DEF WindowInv, ui_vars
<1> QED
  BY <1>1, <1>2, <1>3
  DEF Next, vars, Renews, RequestTaken, Calls, MceChangesMind, MceStops, MceStarts,
      PauseExpires, MceStep

\* A message of the unlock screen's bus that is told and not called.
LEMMA TellsNoCall ==
    ASSUME DisplayTypeOK, run' \in Nat,
           NEW of \in {"owner", "allowed"}, NEW value \in BOOLEAN, Arrives(of, value)
    PROVE  /\ \A i \in DOMAIN bus : i \in DOMAIN bus' /\ bus'[i] = bus[i]
           /\ \A i \in DOMAIN bus' :
                 (i \in DOMAIN bus /\ bus'[i] = bus[i]) \/ ~IsCall(bus'[i])
<1> DEFINE m == [of |-> of, from |-> run', value |-> value]
           n == Len(bus)
<1>1. /\ DOMAIN bus' = 1 .. n + 1 /\ DOMAIN bus = 1 .. n /\ n \in Nat
      /\ \A i \in DOMAIN bus : bus'[i] = bus[i]
      /\ bus'[n + 1] = m
  BY ArrivesFacts
<1>2. m.of \in {"owner", "allowed"}
  OBVIOUS
<1> HIDE DEF m, n
<1>3. ~IsCall(m)
  BY <1>2 DEF IsCall, Draws
<1> QED
  BY <1>1, <1>3

LEMMA StoppedStep ==
    ASSUME DisplayTypeOK, CallInv, StoppedInv, [Next]_vars
    PROVE  StoppedInv'
<1> SUFFICES ASSUME Answered'
             PROVE  updates' = "disabled" /\ \A i \in DOMAIN bus' : ~IsCall(bus'[i])
  BY DEF StoppedInv, IsCall, Draws
<1> DEFINE Goal == updates' = "disabled" /\ \A i \in DOMAIN bus' : ~IsCall(bus'[i])
<1>0. /\ Answered => updates = "disabled" /\ \A i \in DOMAIN bus : ~IsCall(bus[i])
      /\ running'
      /\ \/ call' = "none" /\ permits' = "disable"
         \/ call' = "disable" /\ \E i \in DOMAIN sent' : OwnReply(sent[i])'
  BY DEF StoppedInv, Answered
<1>1. CASE Dispatch
  <2> DEFINE m == Head(bus)
  <2>1. /\ bus # <<>> /\ bus' = Tail(bus) /\ m \in Message
        /\ UNCHANGED <<run, running, permits, call>>
        /\ Handled(m) /\ Learns(m)
    BY <1>1, DispatchFacts DEF mce_vars
  <2>2. /\ m = bus[1] /\ 1 \in DOMAIN bus
        /\ \A i \in DOMAIN bus' : i \in Nat \ {0} /\ i + 1 \in DOMAIN bus /\ bus'[i] = bus[i + 1]
    <3>1. /\ m = bus[1] /\ 1 \in DOMAIN bus /\ bus' \in Seq(Message)
          /\ \A i \in DOMAIN bus' : i + 1 \in DOMAIN bus /\ bus'[i] = bus[i + 1]
      BY <2>1, TailFacts DEF DisplayTypeOK
    <3> QED
      BY <3>1
  <2> HIDE DEF m
  <2>3. CASE Answered
    <3>1. ~IsCall(m) /\ ~Draws(m)
      BY <1>0, <2>2, <2>3 DEF IsCall
    <3>2. updates' = updates
      BY <2>1, <3>1 DEF Learns
    <3> QED
      BY <1>0, <2>2, <2>3, <3>2
  <2>4. CASE ~Answered
    <3>1. call = "disable" /\ running
      BY <1>0, <2>1, <2>4 DEF Answered
    <3>2. PICK i \in DOMAIN sent' : OwnReply(sent[i])'
      BY <1>0, <2>1, <2>4, <3>1 DEF Answered
    <3>3. i \notin DOMAIN sent
      <4>1. i \in DOMAIN sent => OwnReply(sent[i])
        BY <2>1, <3>2 DEF Handled, Grows, OwnReply
      <4> QED
        BY <2>4, <3>1, <4>1 DEF Answered
    <3>4. IsCall(m) /\ m.from = run
      BY <2>1, <3>2, <3>3 DEF Handled, NoReply, OneReply, OwnReply
    <3>5. Kind(m) = "disable"
      BY <2>2, <3>1, <3>4 DEF CallInv, OwnCall
    <3>6. Draws(m) /\ m.of # "enable"
      BY <3>4, <3>5 DEF Kind, IsCall, Draws
    <3>7. updates' = "disabled"
      BY <2>1, <3>6 DEF Learns
    <3>8. ASSUME NEW j \in DOMAIN bus', IsCall(bus'[j]) PROVE FALSE
      <4>1. j + 1 \in DOMAIN bus /\ bus'[j] = bus[j + 1] /\ j \in Nat \ {0} /\ 1 <= j + 1
        BY <2>2
      <4>2. bus[1].from <= bus[j + 1].from /\ bus[j + 1].from <= run
        BY <2>2, <4>1 DEF CallInv, FromInv
      <4>3. bus[j + 1] \in Message
        BY <4>1 DEF DisplayTypeOK
      <4>4. bus[j + 1].from = run
        BY <2>2, <3>4, <4>2, <4>3 DEF Message, DisplayTypeOK
      <4>5. OwnCall(bus[j + 1]) /\ OwnCall(bus[1])
        BY <2>2, <3>4, <3>8, <4>1, <4>4 DEF OwnCall
      <4>6. j + 1 = 1
        BY <2>2, <3>1, <4>1, <4>5 DEF CallInv
      <4> QED
        BY <4>1, <4>6
    <3> QED
      BY <3>7, <3>8
  <2> QED
    BY <2>3, <2>4
<1>2. ASSUME UNCHANGED <<run, running, permits, call, updates, bus>>, Grows, NoReply
      PROVE  Goal
  <2>1. \A i \in DOMAIN sent' : OwnReply(sent[i])' => i \in DOMAIN sent /\ OwnReply(sent[i])
    BY <1>2 DEF Grows, NoReply, OwnReply
  <2>2. Answered
    BY <1>0, <1>2, <2>1 DEF Answered
  <2> QED
    BY <1>0, <1>2, <2>2
<1>3. CASE AllowsUi
  <2>1. EvaluatePause(sent, <<>>)
    BY <1>3 DEF AllowsUi
  <2> QED
    BY <1>2, <1>3, <2>1, Evaluated DEF AllowsUi, mce_vars
<1>4. CASE Renews
  <2>1. To("start") \in Request /\ To("start").of = "start"
    BY DEF To, Request
  <2>2. sent' = sent \o <<To("start")>> /\ renewTimer'
    BY <1>4, <2>1, OneMore DEF Renews, pause_vars, DisplayTypeOK
  <2>3. Grows /\ NoReply
    BY <2>1, <2>2, OneSent DEF NoReply
  <2> QED
    BY <1>2, <1>4, <2>3 DEF Renews, mce_vars
<1>5. ASSUME UNCHANGED updates, Answered,
             \A i \in DOMAIN bus' :
                (i \in DOMAIN bus /\ bus'[i] = bus[i]) \/ ~IsCall(bus'[i])
      PROVE  Goal
  BY <1>0, <1>5
<1>6. CASE RequestTaken
  <2> DEFINE request == Head(sent)
  <2>1. /\ request = sent[1] /\ 1 \in DOMAIN sent
        /\ \A i \in DOMAIN sent' : i + 1 \in DOMAIN sent /\ sent'[i] = sent[i + 1]
    BY <1>6, TailFacts DEF RequestTaken, DisplayTypeOK
  <2>2. UNCHANGED <<run, running, updates>> /\ run' \in Nat
    BY <1>6 DEF RequestTaken, DisplayTypeOK
  <2>3. \A i \in DOMAIN sent' : OwnReply(sent[i])' =>
            i + 1 \in DOMAIN sent /\ OwnReply(sent[i + 1])
    BY <2>1, <2>2 DEF OwnReply
  <2>4. \A i \in DOMAIN bus' :
            (i \in DOMAIN bus /\ bus'[i] = bus[i]) \/ ~IsCall(bus'[i])
    <3>1. CASE UNCHANGED bus
      BY <3>1
    <3>2. CASE /\ request.of \in {"owner", "allowed"}
               /\ Arrives(request.of, request.of = "owner" \/ mceAllows)
      <4>1. (request.of = "owner" \/ mceAllows) \in BOOLEAN
        BY DEF DisplayTypeOK
      <4> HIDE DEF request
      <4> QED
        BY <2>2, <3>2, <4>1, TellsNoCall
    <3> QED
      BY <1>6, <3>1, <3>2 DEF RequestTaken
  <2> HIDE DEF request
  <2>5. CASE OwnReply(request)
    <3>1. call' = "none" /\ permits' = (IF call = "requirements" THEN "ready" ELSE call)
      BY <1>0, <1>6, <2>2, <2>5 DEF RequestTaken, OwnReply, request
    <3>2. call = "disable" /\ running
      BY <1>0, <2>2, <3>1
    <3>3. Answered
      BY <2>1, <2>5, <3>2 DEF Answered
    <3> QED
      BY <1>5, <2>2, <2>4, <3>3
  <2>6. CASE ~OwnReply(request)
    <3>1. UNCHANGED <<call, permits>>
      BY <1>0, <1>6, <2>2, <2>6 DEF RequestTaken, OwnReply, request
    <3>2. Answered
      BY <1>0, <2>2, <2>3, <3>1 DEF Answered
    <3> QED
      BY <1>5, <2>2, <2>4, <3>2
  <2> QED
    BY <2>5, <2>6
<1>7. ASSUME NEW kind \in Call, Calls(kind) PROVE Goal
  <2>1. call = "none" /\ call' = kind /\ kind # "none" /\ running
        /\ UNCHANGED <<run, sent>>
    BY <1>7 DEF Calls, MceStep, Call
  <2>2. \A i \in DOMAIN sent' : ~OwnReply(sent[i])'
    BY <2>1 DEF CallInv, OwnReply
  <2> QED
    BY <1>0, <2>1, <2>2
<1>8. CASE MceChangesMind
  <2>1. /\ UNCHANGED <<run, running, permits, call, updates, sent>>
        /\ run' \in Nat /\ mceAllows' \in BOOLEAN
    BY <1>8 DEF MceChangesMind, MceStep, DisplayTypeOK
  <2>2. Answered
    BY <1>0, <2>1 DEF Answered, OwnReply
  <2>3. Arrives("allowed", mceAllows')
    BY <1>8 DEF MceChangesMind
  <2> QED
    BY <1>5, <2>1, <2>2, <2>3, TellsNoCall
<1>9. CASE MceStops
  BY <1>0, <1>9 DEF MceStops
<1>10. CASE MceStarts
  <2>1. call' = "none" /\ permits' = "unknown"
    BY <1>10 DEF MceStarts, CallInv
  <2> QED
    BY <1>0, <2>1
<1>11. CASE UNCHANGED <<run, running, permits, call, updates, bus, sent>>
  BY <1>0, <1>11 DEF Answered, OwnReply
<1> QED
  BY <1>1, <1>3, <1>4, <1>6, <1>7, <1>8, <1>9, <1>10, <1>11
  DEF Next, vars, mce_vars, PauseExpires

Inv == DisplayTypeOK /\ CallInv /\ StoppedInv /\ WindowInv

LEMMA InvInit == Init => Inv
<1> SUFFICES ASSUME Init PROVE Inv
  OBVIOUS
<1> DEFINE r == [of |-> "owner", to |-> 0]
<1>0. r \in Request /\ r.of = "owner" /\ sent = <<r>>
  BY DEF Init, Request
<1>1. sent \in Seq(Request) /\ DOMAIN sent = {1} /\ sent[1].of = "owner"
  BY <1>0, OneMore
<1>2. bus = <<>> /\ bus \in Seq(Message) /\ DOMAIN bus = {}
  BY NoMore DEF Init
<1>3. DisplayTypeOK
  <2>1. run \in Nat /\ running \in BOOLEAN /\ mceAllows \in BOOLEAN
    BY DEF Init
  <2>2. changes \in 0 .. MaxChanges
    BY DisplayBoundAssumption DEF Init
  <2>3. /\ uiAllowed = FALSE /\ ui = FALSE /\ displayOn = FALSE /\ visible = FALSE
        /\ blanked = FALSE /\ updates = "unknown" /\ mceIsRunning = FALSE
        /\ allowed = FALSE /\ renewTimer = FALSE /\ permits = "unknown"
        /\ call = "none" /\ paused = FALSE
    BY DEF Init
  <2> QED
    BY <1>1, <1>2, <2>1, <2>2, <2>3 DEF DisplayTypeOK
<1>4. CallInv
  BY <1>1, <1>2 DEF Init, CallInv, FromInv, OwnReply
<1>5. StoppedInv
  BY DEF Init, StoppedInv, Answered
<1>6. WindowInv
  BY DEF Init, WindowInv
<1> QED
  BY <1>3, <1>4, <1>5, <1>6 DEF Inv

LEMMA InvStep == Inv /\ [Next]_vars => Inv'
<1> SUFFICES ASSUME Inv, [Next]_vars PROVE Inv'
  OBVIOUS
<1>1. DisplayTypeOK'
  <2>1. CASE UNCHANGED vars
    BY <2>1 DEF Inv, DisplayTypeOK, vars, ui_vars, pause_vars, mce_vars
  <2> QED
    BY <2>1, TypeStep DEF Inv
<1> QED
  BY <1>1, CallStep, StoppedStep, WindowStep DEF Inv

\* Every state of DisplayControl has its type, whatever mce does.
THEOREM DisplayTyped == Spec => []DisplayTypeOK
<1>1. Inv => DisplayTypeOK
  BY DEF Inv
<1> QED
  BY <1>1, InvInit, InvStep, PTL DEF Spec

\* Once mce has the answer that the unlock screen does not draw, the window is hidden
\* and the display blanked, for any number of mces whose calls are on their way.
THEOREM HiddenWhenAnswered == Spec => []HiddenOnceAnswered
<1>1. Inv => HiddenOnceAnswered
  <2> SUFFICES ASSUME Inv, running, permits = "disable", call = "none"
               PROVE  ~visible /\ (ui => blanked)
    BY DEF HiddenOnceAnswered
  <2>1. updates = "disabled"
    BY DEF Inv, StoppedInv, Answered
  <2> QED
    BY <2>1 DEF Inv, WindowInv
<1> QED
  BY <1>1, InvInit, InvStep, PTL DEF Spec

-----------------------------------------------------------------------------
(* What is known of mce in the end *)

\* The owner that is known after the head of the queue, and what follows the head.
After(of, head, known) == IF head.of = of THEN head.value ELSE known

\* Positions of the queue and of what is left of it.
LEMMA TailAt ==
    ASSUME NEW queue \in Seq(Message), queue # <<>>
    PROVE  LET rest == Tail(queue) IN
           /\ Head(queue) = queue[1] /\ 1 \in DOMAIN queue /\ Len(rest) + 1 = Len(queue)
           /\ \A j \in DOMAIN rest :
                 j \in Int /\ j + 1 \in DOMAIN queue /\ rest[j] = queue[j + 1] /\ 1 < j + 1
           /\ \A j \in DOMAIN queue :
                 /\ j \in Int /\ 1 <= j
                 /\ j # 1 => j - 1 \in DOMAIN rest /\ rest[j - 1] = queue[j]
<1> DEFINE rest == Tail(queue)
<1>1. /\ rest \in Seq(Message) /\ Len(rest) = Len(queue) - 1
      /\ Head(queue) = queue[1] /\ 1 \in DOMAIN queue
      /\ \A i \in DOMAIN rest : i + 1 \in DOMAIN queue /\ rest[i] = queue[i + 1]
      /\ \A i \in DOMAIN queue :
            i # 1 => i - 1 \in DOMAIN rest /\ rest[i - 1] = queue[i]
  BY TailFacts
<1>2. DOMAIN rest = 1 .. Len(rest) /\ Len(rest) \in Nat
      /\ DOMAIN queue = 1 .. Len(queue) /\ Len(queue) \in Nat
  BY <1>1
<1> HIDE DEF rest
<1>3. \A j \in DOMAIN rest : j \in Int /\ 1 < j + 1
  BY <1>2
<1>4. \A j \in DOMAIN queue : j \in Int /\ 1 <= j
  BY <1>2
<1>5. Len(rest) + 1 = Len(queue)
  BY <1>1, <1>2
<1> QED
  BY <1>1, <1>3, <1>4, <1>5 DEF rest

LEMMA OwnedTail ==
    ASSUME NEW queue \in Seq(Message), queue # <<>>, NEW known, NEW i \in Int, 1 < i,
           Owned(queue, known, i)
    PROVE  Owned(Tail(queue), After("owner", Head(queue), known), i - 1)
<1> DEFINE rest == Tail(queue)
           head == Head(queue)
           next == After("owner", head, known)
<1>1. /\ head = queue[1] /\ 1 \in DOMAIN queue
      /\ \A j \in DOMAIN rest :
            j \in Int /\ j + 1 \in DOMAIN queue /\ rest[j] = queue[j + 1] /\ 1 < j + 1
      /\ \A j \in DOMAIN queue :
            /\ j \in Int /\ 1 <= j
            /\ j # 1 => j - 1 \in DOMAIN rest /\ rest[j - 1] = queue[j]
  BY TailAt
<1> HIDE DEF rest, head, next
<1>2. CASE /\ known
           /\ \A j \in DOMAIN queue : j < i /\ queue[j].of = "owner" => queue[j].value
  <2>1. next
    BY <1>1, <1>2 DEF next, After
  <2>2. \A j \in DOMAIN rest : j < i - 1 /\ rest[j].of = "owner" => rest[j].value
    <3>1. \A j \in DOMAIN rest : j < i - 1 => j + 1 < i
      BY <1>1
    <3> QED
      BY <1>1, <1>2, <3>1
  <2> QED
    BY <2>1, <2>2 DEF Owned, rest, next, head
<1>3. ASSUME NEW k \in DOMAIN queue, k < i, queue[k].of = "owner", queue[k].value,
             \A j \in DOMAIN queue :
                k < j /\ j < i /\ queue[j].of = "owner" => queue[j].value
      PROVE  Owned(rest, next, i - 1)
  <2>1. ASSUME NEW j \in DOMAIN rest, k - 1 < j, j < i - 1, rest[j].of = "owner"
        PROVE  rest[j].value
    <3>1. k < j + 1 /\ j + 1 < i
      BY <1>1, <2>1
    <3>2. j + 1 \in DOMAIN queue /\ rest[j] = queue[j + 1]
      BY <1>1, <2>1
    <3> QED
      BY <1>3, <2>1, <3>1, <3>2
  <2>2. CASE k = 1
    <3>1. next
      BY <1>1, <1>3, <2>2 DEF next, After
    <3>2. \A j \in DOMAIN rest : k - 1 < j
      BY <1>1, <2>2
    <3>3. \A j \in DOMAIN rest : j < i - 1 /\ rest[j].of = "owner" => rest[j].value
      BY <2>1, <3>2
    <3> QED
      BY <3>1, <3>3 DEF Owned
  <2>3. CASE k # 1
    <3>1. k - 1 \in DOMAIN rest /\ rest[k - 1] = queue[k] /\ k - 1 < i - 1
      BY <1>1, <1>3, <2>3
    <3>2. rest[k - 1].of = "owner" /\ rest[k - 1].value
      BY <1>3, <3>1
    <3> QED
      BY <2>1, <3>1, <3>2 DEF Owned
  <2> QED
    BY <2>2, <2>3
<1>4. Owned(rest, next, i - 1)
  BY <1>2, <1>3 DEF Owned, rest, head, next
<1> QED
  BY <1>4 DEF rest, head, next

LEMMA NothingTail ==
    ASSUME NEW queue \in Seq(Message), queue # <<>>, NEW known, NEW i \in Int, 1 < i,
           Nothing(queue, known, i)
    PROVE  /\ Nothing(Tail(queue), After("owner", Head(queue), known), i - 1)
           /\ ~Draws(Head(queue))
<1> DEFINE rest == Tail(queue)
           head == Head(queue)
           next == After("owner", head, known)
<1>1. /\ head = queue[1] /\ 1 \in DOMAIN queue
      /\ \A j \in DOMAIN rest :
            j \in Int /\ j + 1 \in DOMAIN queue /\ rest[j] = queue[j + 1] /\ 1 < j + 1
  BY TailAt
<1> HIDE DEF rest, head, next
<1>2. ~next /\ ~Draws(head)
  BY <1>1 DEF Nothing, next, After
<1>3. ASSUME NEW j \in DOMAIN rest, j < i - 1
      PROVE  ~Draws(rest[j]) /\ ~(rest[j].of = "owner" /\ rest[j].value)
  <2>1. j + 1 < i /\ j + 1 \in DOMAIN queue /\ rest[j] = queue[j + 1]
    BY <1>1, <1>3
  <2> QED
    BY <2>1 DEF Nothing
<1>4. Nothing(rest, next, i - 1)
  BY <1>2, <1>3 DEF Nothing
<1> QED
  BY <1>2, <1>4 DEF rest, head, next

LEMMA SettlesTail ==
    ASSUME NEW queue \in Seq(Message), queue # <<>>, NEW of, NEW known, NEW last,
           Settles(queue, of, known, last)
    PROVE  Settles(Tail(queue), of, After(of, Head(queue), known), last)
<1> DEFINE rest == Tail(queue)
           head == Head(queue)
           next == After(of, head, known)
<1>1. /\ head = queue[1] /\ 1 \in DOMAIN queue
      /\ \A j \in DOMAIN rest :
            j \in Int /\ j + 1 \in DOMAIN queue /\ rest[j] = queue[j + 1] /\ 1 < j + 1
      /\ \A j \in DOMAIN queue :
            /\ j \in Int /\ 1 <= j
            /\ j # 1 => j - 1 \in DOMAIN rest /\ rest[j - 1] = queue[j]
  BY TailAt
<1> HIDE DEF rest, head, next
<1>2. CASE known = last /\ \A j \in DOMAIN queue : queue[j].of # of
  <2>1. next = last /\ \A j \in DOMAIN rest : rest[j].of # of
    BY <1>1, <1>2 DEF next, After
  <2> QED
    BY <2>1 DEF Settles, rest, next, head
<1>3. ASSUME NEW k \in DOMAIN queue, queue[k].of = of, queue[k].value = last,
             \A j \in DOMAIN queue : k < j => queue[j].of # of
      PROVE  Settles(rest, of, next, last)
  <2>1. \A j \in DOMAIN rest : k - 1 < j => rest[j].of # of
    <3>1. \A j \in DOMAIN rest : k - 1 < j => k < j + 1
      BY <1>1
    <3> QED
      BY <1>1, <1>3, <3>1
  <2>2. CASE k = 1
    <3>1. \A j \in DOMAIN rest : k - 1 < j
      BY <1>1, <2>2
    <3>2. next = last /\ \A j \in DOMAIN rest : rest[j].of # of
      BY <1>1, <1>3, <2>1, <2>2, <3>1 DEF next, After
    <3> QED
      BY <3>2 DEF Settles
  <2>3. CASE k # 1
    BY <1>1, <1>3, <2>1, <2>3 DEF Settles
  <2> QED
    BY <2>2, <2>3
<1>4. Settles(rest, of, next, last)
  BY <1>2, <1>3 DEF Settles, rest, head, next
<1> QED
  BY <1>4 DEF rest, head, next

\* Positions of a queue with one more message.
LEMMA AppendAt ==
    ASSUME NEW queue \in Seq(Message), NEW m \in Message
    PROVE  LET longer == Append(queue, m)
               n == Len(queue) IN
           /\ n \in Nat /\ Len(longer) = n + 1 /\ n + 1 \in DOMAIN longer
           /\ longer[n + 1] = m
           /\ \A j \in DOMAIN queue : j \in DOMAIN longer /\ longer[j] = queue[j]
           /\ \A j \in DOMAIN longer : j \in Int /\ (j \in DOMAIN queue \/ j = n + 1)
           /\ \A j \in DOMAIN queue : j \in Int /\ 1 <= j /\ j < n + 1
<1>1. /\ Append(queue, m) \in Seq(Message) /\ Len(Append(queue, m)) = Len(queue) + 1
      /\ DOMAIN Append(queue, m) = 1 .. Len(queue) + 1
      /\ DOMAIN queue = 1 .. Len(queue)
      /\ \A i \in DOMAIN queue : Append(queue, m)[i] = queue[i]
      /\ Append(queue, m)[Len(queue) + 1] = m
  BY AppendFacts
<1>2. Len(queue) \in Nat
  OBVIOUS
<1> DEFINE longer == Append(queue, m)
           n == Len(queue)
<1> HIDE DEF longer, n
<1>3. n \in Nat /\ Len(longer) = n + 1 /\ n + 1 \in DOMAIN longer /\ longer[n + 1] = m
  BY <1>1, <1>2 DEF longer, n
<1>4. DOMAIN longer = 1 .. n + 1 /\ DOMAIN queue = 1 .. n
  BY <1>1 DEF longer, n
<1>5. \A j \in DOMAIN queue : j \in DOMAIN longer
  BY <1>3, <1>4
<1>6. /\ \A j \in DOMAIN longer : j \in Int /\ (j \in DOMAIN queue \/ j = n + 1)
      /\ \A j \in DOMAIN queue : j \in Int /\ 1 <= j /\ j < n + 1
  BY <1>3, <1>4
<1> QED
  BY <1>1, <1>3, <1>5, <1>6 DEF longer, n

LEMMA OwnedAppend ==
    ASSUME NEW queue \in Seq(Message), NEW m \in Message, NEW known
    PROVE  /\ \A i \in Int : i <= Len(queue) + 1 /\ Owned(queue, known, i)
                  => Owned(Append(queue, m), known, i)
           /\ \/ m.of = "owner" /\ m.value
              \/ m.of # "owner" /\ Owned(queue, known, Len(queue) + 1)
              => Owned(Append(queue, m), known, Len(Append(queue, m)) + 1)
<1> DEFINE longer == Append(queue, m)
           n == Len(queue)
<1>1. /\ n \in Nat /\ Len(longer) = n + 1 /\ n + 1 \in DOMAIN longer
      /\ longer[n + 1] = m
      /\ \A j \in DOMAIN queue : j \in DOMAIN longer /\ longer[j] = queue[j]
      /\ \A j \in DOMAIN longer : j \in Int /\ (j \in DOMAIN queue \/ j = n + 1)
      /\ \A j \in DOMAIN queue : j \in Int /\ 1 <= j /\ j < n + 1
  BY AppendAt
<1> HIDE DEF longer, n
<1>2. ASSUME NEW i \in Int, i <= n + 1, Owned(queue, known, i)
      PROVE  Owned(longer, known, i)
  <2>1. \A j \in DOMAIN longer : j < i => j \in DOMAIN queue /\ longer[j] = queue[j]
    BY <1>1, <1>2
  <2> QED
    BY <1>1, <1>2, <2>1 DEF Owned
<1>3. ASSUME m.of = "owner", m.value PROVE Owned(longer, known, n + 2)
  <2>1. n + 1 < n + 2 /\ \A j \in DOMAIN longer : ~(n + 1 < j)
    BY <1>1
  <2> QED
    BY <1>1, <1>3, <2>1 DEF Owned
<1>4. ASSUME m.of # "owner", Owned(queue, known, n + 1) PROVE Owned(longer, known, n + 2)
  <2>1. \A j \in DOMAIN longer : longer[j].of = "owner" =>
            j \in DOMAIN queue /\ longer[j] = queue[j] /\ j < n + 1
    BY <1>1, <1>4
  <2>2. \A j \in DOMAIN queue : j < n + 2
    BY <1>1
  <2> QED
    BY <1>1, <1>4, <2>1, <2>2 DEF Owned
<1>5. Len(longer) + 1 = n + 2
  BY <1>1
<1> QED
  BY <1>2, <1>3, <1>4, <1>5 DEF longer, n

LEMMA NothingAppend ==
    ASSUME NEW queue \in Seq(Message), NEW m \in Message, NEW known
    PROVE  /\ \A i \in Int : i <= Len(queue) + 1 /\ Nothing(queue, known, i)
                  => Nothing(Append(queue, m), known, i)
           /\ /\ ~Draws(m) /\ ~(m.of = "owner" /\ m.value)
              /\ Nothing(queue, known, Len(queue) + 1)
              => Nothing(Append(queue, m), known, Len(Append(queue, m)) + 1)
<1> DEFINE longer == Append(queue, m)
           n == Len(queue)
<1>1. /\ n \in Nat /\ Len(longer) = n + 1 /\ n + 1 \in DOMAIN longer
      /\ longer[n + 1] = m
      /\ \A j \in DOMAIN queue : j \in DOMAIN longer /\ longer[j] = queue[j]
      /\ \A j \in DOMAIN longer : j \in Int /\ (j \in DOMAIN queue \/ j = n + 1)
      /\ \A j \in DOMAIN queue : j \in Int /\ 1 <= j /\ j < n + 1
  BY AppendAt
<1> HIDE DEF longer, n
<1>2. ASSUME NEW i \in Int, i <= n + 1, Nothing(queue, known, i)
      PROVE  Nothing(longer, known, i)
  <2>1. \A j \in DOMAIN longer : j < i => j \in DOMAIN queue /\ longer[j] = queue[j]
    BY <1>1, <1>2
  <2> QED
    BY <1>2, <2>1 DEF Nothing
<1>3. ASSUME ~Draws(m), ~(m.of = "owner" /\ m.value), Nothing(queue, known, n + 1)
      PROVE  Nothing(longer, known, n + 2)
  <2>1. \A j \in DOMAIN longer :
            (j \in DOMAIN queue /\ longer[j] = queue[j] /\ j < n + 1) \/ longer[j] = m
    BY <1>1
  <2> QED
    BY <1>3, <2>1 DEF Nothing
<1>4. Len(longer) + 1 = n + 2
  BY <1>1
<1> QED
  BY <1>2, <1>3, <1>4 DEF longer, n

LEMMA SettlesAppend ==
    ASSUME NEW queue \in Seq(Message), NEW m \in Message, NEW of, NEW known, NEW last,
           \/ m.of = of /\ m.value = last
           \/ m.of # of /\ Settles(queue, of, known, last)
    PROVE  Settles(Append(queue, m), of, known, last)
<1> DEFINE longer == Append(queue, m)
           n == Len(queue)
<1>1. /\ n \in Nat /\ Len(longer) = n + 1 /\ n + 1 \in DOMAIN longer
      /\ longer[n + 1] = m
      /\ \A j \in DOMAIN queue : j \in DOMAIN longer /\ longer[j] = queue[j]
      /\ \A j \in DOMAIN longer : j \in Int /\ (j \in DOMAIN queue \/ j = n + 1)
      /\ \A j \in DOMAIN queue : j \in Int /\ 1 <= j /\ j < n + 1
  BY AppendAt
<1> HIDE DEF longer, n
<1>2. ASSUME m.of = of, m.value = last PROVE Settles(longer, of, known, last)
  <2>1. \A j \in DOMAIN longer : ~(n + 1 < j)
    BY <1>1
  <2> QED
    BY <1>1, <1>2, <2>1 DEF Settles
<1>3. ASSUME m.of # of, Settles(queue, of, known, last)
      PROVE  Settles(longer, of, known, last)
  <2>1. \A j \in DOMAIN longer : longer[j].of = of =>
            j \in DOMAIN queue /\ longer[j] = queue[j]
    BY <1>1, <1>3
  <2>2. CASE known = last /\ \A i \in DOMAIN queue : queue[i].of # of
    <3>1. \A j \in DOMAIN longer : longer[j].of # of
      BY <2>1, <2>2
    <3> QED
      BY <2>2, <3>1 DEF Settles
  <2>3. ASSUME NEW k \in DOMAIN queue, queue[k].of = of, queue[k].value = last,
               \A j \in DOMAIN queue : k < j => queue[j].of # of
        PROVE  Settles(longer, of, known, last)
    <3>1. \A j \in DOMAIN longer : k < j => longer[j].of # of
      BY <2>1, <2>3
    <3>2. k \in DOMAIN longer /\ longer[k] = queue[k]
      BY <1>1
    <3> QED
      BY <2>3, <3>1, <3>2 DEF Settles
  <2> QED
    BY <1>3, <2>2, <2>3 DEF Settles
<1> QED
  BY <1>2, <1>3 DEF longer

\* Requests that are added leave those that wait as they are.
LEMMA GrowsFacts ==
    ASSUME DisplayTypeOK, Grows
    PROVE  /\ \A of : Asked(of) => Asked(of)'
           /\ AsksAllowed => Asked("allowed")'
           /\ Stops => Asked("stop")'
           /\ sent # <<>> => sent' # <<>> /\ Head(sent') = Head(sent)
<1>1. \A of : Asked(of) => Asked(of)'
  BY DEF Grows, Asked
<1>2. (AsksAllowed => Asked("allowed")') /\ (Stops => Asked("stop")')
  BY DEF AsksAllowed, Stops, Asked
<1>3. ASSUME sent # <<>> PROVE sent' # <<>> /\ Head(sent') = Head(sent)
  <2>1. sent \in Seq(Request) /\ sent' \in Seq(Request)
    BY DEF DisplayTypeOK, Grows
  <2>2. 1 \in DOMAIN sent /\ Head(sent) = sent[1]
    BY <1>3, <2>1, TailFacts
  <2>3. 1 \in DOMAIN sent' /\ sent'[1] = sent[1]
    BY <2>2 DEF Grows
  <2>4. sent' # <<>>
    BY <2>3
  <2>5. Head(sent') = sent'[1]
    BY <2>1, <2>4, TailFacts
  <2> QED
    BY <2>2, <2>3, <2>4, <2>5
<1> QED
  BY <1>1, <1>2, <1>3

\* A pause that is not wanted any more is stopped by what is added.
LEMMA StartsGrow ==
    ASSUME DisplayTypeOK, StartsInv, paused => renewTimer \/ Asked("stop"),
           UNCHANGED paused, Grows, renewTimer /\ ~renewTimer' => Stops
    PROVE  StartsInv' /\ (paused' => renewTimer' \/ Asked("stop")')
<1>1. paused' => renewTimer' \/ Asked("stop")'
  BY GrowsFacts
<1>2. sent \in Seq(Request) /\ DOMAIN sent = 1 .. Len(sent) /\ Len(sent) \in Nat
      /\ sent' \in Seq(Request) /\ DOMAIN sent' = 1 .. Len(sent') /\ Len(sent') \in Nat
  BY DEF DisplayTypeOK, Grows
<1>3. ASSUME NEW i \in DOMAIN sent', sent'[i].of = "start", ~renewTimer'
      PROVE  \E j \in DOMAIN sent' : i < j /\ sent'[j].of = "stop"
  <2>1. i \in DOMAIN sent /\ sent[i].of = "start"
    BY <1>3 DEF Grows
  <2>2. CASE renewTimer
    <3>1. PICK j \in DOMAIN sent' : j \notin DOMAIN sent /\ sent'[j].of = "stop"
      BY <1>3, <2>2 DEF Stops
    <3>2. i < j
      BY <1>2, <2>1, <3>1
    <3> QED
      BY <3>1, <3>2
  <2>3. CASE ~renewTimer
    <3>1. PICK j \in DOMAIN sent : i < j /\ sent[j].of = "stop"
      BY <2>1, <2>3 DEF StartsInv
    <3> QED
      BY <3>1 DEF Grows
  <2> QED
    BY <2>2, <2>3
<1>4. StartsInv'
  BY <1>3 DEF StartsInv
<1> QED
  BY <1>1, <1>4

\* The pause is only renewed at a mce that is known to run.
LEMMA RenewsAtMce == ASSUME WindowInv, RenewInv, renewTimer PROVE mceIsRunning
  BY DEF WindowInv, RenewInv

\* The user interface appears, or the timer fires, or nothing happens.
LEMMA AgreeGrows ==
    ASSUME DisplayTypeOK, AgreeInv, Grows, renewTimer' = (ui' /\ allowed'),
           renewTimer /\ ~renewTimer' => Stops,
           UNCHANGED <<updates, mceIsRunning, allowed, bus, mce_vars>>
    PROVE  AgreeInv'
<1>0. UNCHANGED <<run, running, permits, call, mceAllows, paused>>
  BY DEF mce_vars
<1>1. BusInv'
  BY DEF AgreeInv, BusInv, Owned, Nothing, Draws
<1>2. FirstQuestion => FirstQuestion'
  BY <1>0, GrowsFacts DEF FirstQuestion, Nothing, Draws
<1>3. EndInv'
  BY <1>0, <1>2 DEF AgreeInv, EndInv, Owned
<1>4. RenewInv'
  BY DEF AgreeInv, RenewInv
<1>5. KnowsInv'
  BY <1>0, GrowsFacts DEF AgreeInv, KnowsInv, Settles, AsksAgain
<1>6. PauseInv'
  BY <1>0, StartsGrow DEF AgreeInv, PauseInv, FirstRun
<1> QED
  BY <1>1, <1>3, <1>4, <1>5, <1>6 DEF AgreeInv

LEMMA AgreeDispatch ==
    ASSUME DisplayTypeOK, WindowInv, AgreeInv, Dispatch
    PROVE  AgreeInv'
<1> DEFINE m == Head(bus)
<1>1. /\ bus # <<>> /\ bus' = Tail(bus) /\ m \in Message
      /\ UNCHANGED <<run, running, permits, call, mceAllows, paused>>
      /\ Handled(m) /\ Learns(m) /\ bus \in Seq(Message)
  BY DispatchFacts DEF mce_vars, DisplayTypeOK
<1>2. /\ m = bus[1] /\ 1 \in DOMAIN bus /\ Len(bus') + 1 = Len(bus)
      /\ \A j \in DOMAIN bus' :
            j \in Int /\ j + 1 \in DOMAIN bus /\ bus'[j] = bus[j + 1] /\ 1 < j + 1
      /\ \A j \in DOMAIN bus :
            /\ j \in Int /\ 1 <= j
            /\ j # 1 => j - 1 \in DOMAIN bus' /\ bus'[j - 1] = bus[j]
  BY <1>1, TailAt
<1>3. m.of \in Call \cup {"malformed", "owner", "allowed"} /\ m.value \in BOOLEAN
  BY <1>1 DEF Message
<1> HIDE DEF m
<1>4. mceIsRunning' = After("owner", m, mceIsRunning)
  BY <1>1, <1>3 DEF Learns, After, Draws, Call, pause_vars
<1>5. ~Draws(m) => updates' = updates
  BY <1>1 DEF Learns
<1>6. ASSUME NEW i \in Int, 1 < i, Owned(bus, mceIsRunning, i)
      PROVE  Owned(bus', mceIsRunning', i - 1)
  <2>1. Owned(Tail(bus), After("owner", Head(bus), mceIsRunning), i - 1)
    BY <1>1, <1>6, OwnedTail
  <2> QED
    BY <1>1, <1>4, <2>1 DEF m
<1>7. ASSUME NEW i \in Int, 1 < i, Nothing(bus, mceIsRunning, i), updates = "unknown"
      PROVE  Nothing(bus', mceIsRunning', i - 1) /\ updates' = "unknown"
  <2>1. /\ Nothing(Tail(bus), After("owner", Head(bus), mceIsRunning), i - 1)
        /\ ~Draws(Head(bus))
    BY <1>1, <1>7, NothingTail
  <2> QED
    BY <1>1, <1>4, <1>5, <1>7, <2>1 DEF m
<1>8. BusInv'
  <2> SUFFICES ASSUME NEW i \in DOMAIN bus'
               PROVE  /\ Draws(bus'[i]) => Owned(bus', mceIsRunning', i)
                      /\ bus'[i].of = "allowed" /\ bus'[i].value =>
                            \/ Owned(bus', mceIsRunning', i)
                            \/ updates' = "unknown" /\ Nothing(bus', mceIsRunning', i)
    BY DEF BusInv, Draws, Owned, Nothing
  <2> DEFINE k == i + 1
  <2>1. k \in Int /\ 1 < k /\ k \in DOMAIN bus /\ bus'[i] = bus[k] /\ k - 1 = i
    BY <1>2
  <2> HIDE DEF k
  <2>2. /\ Draws(bus[k]) => Owned(bus, mceIsRunning, k)
        /\ bus[k].of = "allowed" /\ bus[k].value =>
              \/ Owned(bus, mceIsRunning, k)
              \/ updates = "unknown" /\ Nothing(bus, mceIsRunning, k)
    BY <2>1 DEF AgreeInv, BusInv
  <2>3. Owned(bus, mceIsRunning, k) => Owned(bus', mceIsRunning', i)
    BY <1>6, <2>1
  <2>4. updates = "unknown" /\ Nothing(bus, mceIsRunning, k) =>
            updates' = "unknown" /\ Nothing(bus', mceIsRunning', i)
    BY <1>7, <2>1
  <2> QED
    BY <2>1, <2>2, <2>3, <2>4
<1>9. EndInv'
  <2> DEFINE n == Len(bus) + 1
  <2>1. n \in Int /\ 1 < n /\ n - 1 = Len(bus') + 1
    <3>1. Len(bus) \in Nat /\ Len(bus) # 0
      BY <1>1
    <3>2. Len(bus') \in Nat
      BY <1>1, TailFacts
    <3> QED
      BY <1>2, <3>1, <3>2
  <2> HIDE DEF n
  <2>2. Owned(bus, mceIsRunning, n) => Owned(bus', mceIsRunning', Len(bus') + 1)
    BY <1>6, <2>1
  <2>3. updates = "unknown" /\ Nothing(bus, mceIsRunning, n) =>
            updates' = "unknown" /\ Nothing(bus', mceIsRunning', Len(bus') + 1)
    BY <1>7, <2>1
  <2>4. FirstQuestion => FirstQuestion'
    BY <1>1, <2>3, GrowsFacts DEF FirstQuestion, Handled, n, Nothing, Draws
  <2> QED
    BY <1>1, <2>2, <2>4 DEF AgreeInv, EndInv, n, Owned
<1>10. RenewInv'
  <2>1. renewTimer' = (ui' /\ allowed')
    <3>1. CASE m.of = "requirements"
      <4>1. UNCHANGED <<ui, allowed, renewTimer>>
        BY <1>1, <3>1 DEF Learns, Draws, ui_vars, pause_vars
      <4> QED
        BY <4>1 DEF AgreeInv, RenewInv
    <3> QED
      BY <1>1, <3>1 DEF Handled
  <2>2. ASSUME updates' # "unknown", allowed' PROVE mceIsRunning'
    <3>0. updates # "unknown" /\ allowed => mceIsRunning
      BY DEF AgreeInv, RenewInv
    <3>a. /\ Draws(m) => Owned(bus, mceIsRunning, 1)
          /\ m.of = "allowed" /\ m.value =>
                Owned(bus, mceIsRunning, 1) \/ updates = "unknown"
      BY <1>2 DEF AgreeInv, BusInv
    <3>b. Owned(bus, mceIsRunning, 1) => mceIsRunning
      <4>1. \A k \in DOMAIN bus : ~(k < 1)
        BY <1>2
      <4> QED
        BY <4>1 DEF Owned
    <3>1. CASE Draws(m)
      BY <1>1, <3>1, <3>a, <3>b DEF Learns
    <3>2. CASE m.of = "owner"
      <4>1. mceIsRunning' = m.value
            /\ allowed' = (IF mceIsRunning /\ ~m.value THEN FALSE ELSE allowed)
        BY <1>1, <3>2 DEF Learns
      <4>2. ~Draws(m)
        BY <3>2 DEF Draws
      <4>3. CASE m.value
        BY <4>1, <4>3
      <4>4. CASE ~m.value
        <5>1. ~mceIsRunning /\ allowed
          BY <2>2, <4>1, <4>4
        <5> QED
          BY <1>5, <2>2, <3>0, <4>2, <5>1
      <4> QED
        BY <4>3, <4>4
    <3>3. CASE m.of = "allowed"
      <4>1. m.value /\ UNCHANGED mceIsRunning
        BY <1>1, <2>2, <3>3 DEF Learns
      <4>2. updates # "unknown"
        BY <1>5, <2>2, <3>3 DEF Draws
      <4> QED
        BY <3>3, <3>a, <3>b, <4>1, <4>2
    <3>4. CASE m.of = "requirements"
      <4>1. UNCHANGED <<allowed, mceIsRunning, updates>>
        BY <1>1, <3>4 DEF Learns, Draws, pause_vars
      <4> QED
        BY <2>2, <3>0, <4>1
    <3> QED
      BY <1>3, <3>1, <3>2, <3>3, <3>4 DEF Call, Draws
  <2> QED
    BY <2>1, <2>2 DEF RenewInv
<1>11. Grows /\ (\A of : Asked(of) => Asked(of)') /\ (AsksAllowed => Asked("allowed")')
  BY <1>1, GrowsFacts DEF Handled
<1>12. KnowsInv'
  <2>1. Settles(bus, "owner", mceIsRunning, running) =>
            Settles(bus', "owner", mceIsRunning', running')
    <3>1. ASSUME Settles(bus, "owner", mceIsRunning, running)
          PROVE  Settles(Tail(bus), "owner", After("owner", Head(bus), mceIsRunning),
                         running)
      BY <1>1, <3>1, SettlesTail
    <3> QED
      BY <1>1, <1>4, <3>1 DEF m
  <2>2. AsksAgain => Asked("allowed")' \/ AsksAgain'
    <3>1. CASE ~mceIsRunning
      <4>1. CASE m.of = "owner" /\ m.value
        BY <1>1, <1>11, <3>1, <4>1 DEF Handled
      <4>2. CASE ~(m.of = "owner" /\ m.value)
        BY <1>4, <3>1, <4>2 DEF After, AsksAgain
      <4> QED
        BY <4>1, <4>2
    <3>2. ASSUME NEW i \in DOMAIN bus, bus[i].of = "owner", ~bus[i].value
          PROVE  AsksAgain'
      <4>1. CASE i = 1
        BY <1>2, <1>4, <3>2, <4>1 DEF After, AsksAgain
      <4>2. CASE i # 1
        BY <1>2, <3>2, <4>2 DEF AsksAgain
      <4> QED
        BY <4>1, <4>2
    <3> QED
      BY <3>1, <3>2 DEF AsksAgain
  <2>3. Settles(bus, "allowed", allowed, mceAllows) =>
            AsksAgain' \/ Settles(bus', "allowed", allowed', mceAllows')
    <3>1. ASSUME Settles(bus, "allowed", allowed, mceAllows)
          PROVE  Settles(bus', "allowed", After("allowed", m, allowed), mceAllows')
      <4>1. Settles(Tail(bus), "allowed", After("allowed", Head(bus), allowed), mceAllows)
        BY <1>1, <3>1, SettlesTail
      <4> QED
        BY <1>1, <4>1 DEF m
    <3>2. allowed' = After("allowed", m, allowed) \/ ~mceIsRunning'
      <4>1. CASE m.of = "owner"
        BY <1>1, <1>3, <4>1 DEF Learns, After
      <4>2. CASE m.of # "owner"
        BY <1>1, <1>3, <4>2 DEF Learns, After, Draws, Call, pause_vars
      <4> QED
        BY <4>1, <4>2
    <3> QED
      BY <3>1, <3>2 DEF AsksAgain
  <2> QED
    BY <1>1, <1>11, <2>1, <2>2, <2>3 DEF AgreeInv, KnowsInv
<1>13. PauseInv'
  <2>1. (paused' => running') /\ (running' => run' # 0) /\ (FirstRun' <=> FirstRun)
    BY <1>1 DEF AgreeInv, PauseInv, FirstRun
  <2>2. ASSUME FirstRun
        PROVE  /\ \A i \in DOMAIN bus' : bus'[i].of = "owner" => bus'[i].value
               /\ paused' => renewTimer' \/ Asked("stop")'
               /\ StartsInv'
    <3>1. \A i \in DOMAIN bus' : bus'[i].of = "owner" => bus'[i].value
      BY <1>2, <2>2 DEF AgreeInv, PauseInv
    <3>2. mceIsRunning => mceIsRunning'
      BY <1>2, <1>4, <2>2 DEF AgreeInv, PauseInv, After
    <3>3. renewTimer /\ ~renewTimer' => Stops
      BY <1>1, <3>2, RenewsAtMce DEF Handled, AgreeInv
    <3> QED
      BY <1>1, <1>11, <2>2, <3>1, <3>3, StartsGrow DEF AgreeInv, PauseInv
  <2> QED
    BY <2>1, <2>2 DEF PauseInv
<1> QED
  BY <1>8, <1>9, <1>10, <1>12, <1>13 DEF AgreeInv

\* A message that comes last, where nothing else is learned: what is on its way stays
\* as it was.
LEMMA AgreeArrives ==
    ASSUME DisplayTypeOK, BusInv, NEW m \in Message, bus' = Append(bus, m),
           UNCHANGED <<updates, mceIsRunning>>,
           Draws(m) => Owned(bus, mceIsRunning, Len(bus) + 1),
           m.of = "allowed" /\ m.value =>
              \/ Owned(bus, mceIsRunning, Len(bus) + 1)
              \/ updates = "unknown" /\ Nothing(bus, mceIsRunning, Len(bus) + 1)
    PROVE  BusInv'
<1> DEFINE n == Len(bus)
<1>1. bus \in Seq(Message) /\ n \in Nat
  BY DEF DisplayTypeOK
<1>2. /\ n + 1 \in DOMAIN bus' /\ bus'[n + 1] = m
      /\ \A j \in DOMAIN bus : j \in DOMAIN bus' /\ bus'[j] = bus[j]
      /\ \A j \in DOMAIN bus' : j \in Int /\ (j \in DOMAIN bus \/ j = n + 1)
      /\ \A j \in DOMAIN bus : j \in Int /\ 1 <= j /\ j < n + 1
  BY <1>1, AppendAt
<1>3. \A i \in Int : i <= n + 1 /\ Owned(bus, mceIsRunning, i) =>
          Owned(bus', mceIsRunning', i)
  BY <1>1, OwnedAppend
<1>4. \A i \in Int : i <= n + 1 /\ Nothing(bus, mceIsRunning, i) =>
          Nothing(bus', mceIsRunning', i)
  BY <1>1, NothingAppend
<1> SUFFICES ASSUME NEW i \in DOMAIN bus'
             PROVE  /\ Draws(bus'[i]) => Owned(bus', mceIsRunning', i)
                    /\ bus'[i].of = "allowed" /\ bus'[i].value =>
                          \/ Owned(bus', mceIsRunning', i)
                          \/ updates' = "unknown" /\ Nothing(bus', mceIsRunning', i)
  BY DEF BusInv, Draws, Owned, Nothing
<1>5. i \in Int /\ i <= n + 1
  BY <1>1, <1>2
<1>6. CASE i \in DOMAIN bus
  BY <1>2, <1>3, <1>4, <1>5, <1>6 DEF BusInv
<1>7. CASE i = n + 1
  BY <1>2, <1>3, <1>4, <1>5, <1>7
<1> QED
  BY <1>2, <1>6, <1>7

LEMMA AgreeTaken ==
    ASSUME DisplayTypeOK, AgreeInv, RequestTaken
    PROVE  AgreeInv'
<1> DEFINE request == Head(sent)
           n == Len(bus)
<1>1. /\ sent # <<>> /\ request = sent[1] /\ 1 \in DOMAIN sent
      /\ \A i \in DOMAIN sent' : i + 1 \in DOMAIN sent /\ sent'[i] = sent[i + 1] /\ i \in Int
      /\ \A i \in DOMAIN sent :
            /\ i \in Int /\ 1 <= i
            /\ i # 1 => i - 1 \in DOMAIN sent' /\ sent'[i - 1] = sent[i]
  <2>1. sent \in Seq(Request) /\ sent # <<>> /\ sent' = Tail(sent)
    BY DEF RequestTaken, DisplayTypeOK
  <2>2. /\ request = sent[1] /\ 1 \in DOMAIN sent /\ sent' \in Seq(Request)
        /\ \A i \in DOMAIN sent' : i + 1 \in DOMAIN sent /\ sent'[i] = sent[i + 1]
        /\ \A i \in DOMAIN sent :
              i # 1 => i - 1 \in DOMAIN sent' /\ sent'[i - 1] = sent[i]
    BY <2>1, TailFacts
  <2>3. (\A i \in DOMAIN sent' : i \in Int) /\ \A i \in DOMAIN sent : i \in Int /\ 1 <= i
    BY <2>1, <2>2
  <2> QED
    BY <2>1, <2>2, <2>3
<1>2. /\ UNCHANGED <<ui, updates, mceIsRunning, allowed, renewTimer, run, running, mceAllows>>
      /\ run' \in Nat /\ bus \in Seq(Message) /\ n \in Nat
  BY DEF RequestTaken, DisplayTypeOK, ui_vars, pause_vars
<1>3. /\ paused' = (IF request.of = "start" THEN paused \/ (running /\ mceAllows)
                    ELSE paused /\ request.of # "stop")
      /\ \/ bus' = bus /\ ~(running /\ request.of \in {"owner", "allowed"})
         \/ /\ running /\ request.of \in {"owner", "allowed"}
            /\ Arrives(request.of, request.of = "owner" \/ mceAllows)
  BY DEF RequestTaken
<1>4. \A of : request.of # of /\ Asked(of) => Asked(of)'
  BY <1>1 DEF Asked
<1>5. RenewInv'
  BY <1>2 DEF AgreeInv, RenewInv
<1>6. PauseInv' \/ ~(\A i \in DOMAIN bus' : FirstRun /\ bus'[i].of = "owner" => bus'[i].value)
  <2>1. (paused' => running') /\ (running' => run' # 0) /\ (FirstRun' <=> FirstRun)
    BY <1>2, <1>3 DEF AgreeInv, PauseInv, FirstRun, DisplayTypeOK
  <2>2. ASSUME FirstRun
        PROVE  /\ paused' => renewTimer' \/ Asked("stop")'
               /\ StartsInv'
    <3>1. StartsInv'
      <4>1. ASSUME NEW i \in DOMAIN sent', sent'[i].of = "start", ~renewTimer'
            PROVE  \E j \in DOMAIN sent' : i < j /\ sent'[j].of = "stop"
        <5>1. i + 1 \in DOMAIN sent /\ sent[i + 1].of = "start" /\ i \in Int
          BY <1>1, <4>1
        <5>2. PICK j \in DOMAIN sent : i + 1 < j /\ sent[j].of = "stop"
          BY <1>2, <2>2, <4>1, <5>1 DEF AgreeInv, PauseInv, StartsInv
        <5>3. j \in Int /\ j # 1 /\ i < j - 1
          BY <1>1, <5>1, <5>2
        <5> QED
          BY <1>1, <5>2, <5>3
      <4> QED
        BY <4>1 DEF StartsInv
    <3>2. ASSUME paused', ~renewTimer' PROVE Asked("stop")'
      <4>1. CASE request.of = "start"
        <5>1. PICK j \in DOMAIN sent : 1 < j /\ sent[j].of = "stop"
          BY <1>1, <1>2, <2>2, <3>2, <4>1 DEF AgreeInv, PauseInv, StartsInv
        <5>2. j # 1
          BY <1>1, <5>1
        <5> QED
          BY <1>1, <5>1, <5>2 DEF Asked
      <4>2. CASE request.of # "start"
        <5>1. paused /\ request.of # "stop"
          BY <1>3, <3>2, <4>2
        <5> QED
          BY <1>2, <1>4, <2>2, <3>2, <5>1 DEF AgreeInv, PauseInv
      <4> QED
        BY <4>1, <4>2
    <3> QED
      BY <3>1, <3>2
  <2> QED
    BY <2>1, <2>2 DEF PauseInv
<1>7. CASE bus' = bus /\ ~(running /\ request.of \in {"owner", "allowed"})
  <2>1. BusInv'
    BY <1>2, <1>7 DEF AgreeInv, BusInv, Owned, Nothing, Draws
  <2>2. EndInv'
    <3>1. running => request.of # "owner"
      BY <1>7
    <3>2. running => Owned(bus, mceIsRunning, Len(bus) + 1)
      BY <3>1 DEF AgreeInv, EndInv, FirstQuestion
    <3> QED
      BY <1>2, <1>7, <3>2 DEF EndInv, Owned
  <2>3. KnowsInv'
    <3>1. running => request.of # "owner" /\ request.of # "allowed"
      BY <1>7
    <3> QED
      BY <1>2, <1>4, <1>7, <3>1 DEF AgreeInv, KnowsInv, Settles, AsksAgain
  <2>4. PauseInv'
    BY <1>6, <1>7 DEF AgreeInv, PauseInv
  <2> QED
    BY <1>5, <2>1, <2>2, <2>3, <2>4 DEF AgreeInv
<1>8. CASE /\ running /\ request.of \in {"owner", "allowed"}
           /\ Arrives(request.of, request.of = "owner" \/ mceAllows)
  <2> DEFINE value == request.of = "owner" \/ mceAllows
             of == request.of
             m == [of |-> of, from |-> run', value |-> value]
  <2>1. value \in BOOLEAN /\ (of = "owner" => value) /\ (of = "allowed" => value = mceAllows)
    BY DEF DisplayTypeOK
  <2>2. of \in {"owner", "allowed"} /\ Arrives(of, value) /\ running
    BY <1>8
  <2> HIDE DEF value, of, request
  <2>3. m \in Message
    BY <1>2, <2>1, <2>2, ArrivesFacts
  <2>4. bus' = Append(bus, m)
    BY <2>2 DEF Arrives
  <2>5. m.of = of /\ m.value = value
    OBVIOUS
  <2> HIDE DEF m
  <2>6. Owned(bus, mceIsRunning, n + 1) \/ of = "owner"
    BY <2>2 DEF AgreeInv, EndInv, FirstQuestion, of, request
  <2>7. ~Draws(m)
    BY <2>2, <2>5 DEF Draws
  <2>8. BusInv'
    BY <1>2, <2>2, <2>3, <2>4, <2>5, <2>6, <2>7, AgreeArrives DEF AgreeInv
  <2>9. EndInv'
    <3>1. \/ m.of = "owner" /\ m.value
          \/ m.of # "owner" /\ Owned(bus, mceIsRunning, n + 1)
      BY <2>1, <2>2, <2>5, <2>6
    <3>2. Owned(bus', mceIsRunning', Len(bus') + 1)
      BY <1>2, <2>3, <2>4, <3>1, OwnedAppend
    <3> QED
      BY <3>2 DEF EndInv, Owned
  <2>10. KnowsInv'
    <3>1. Settles(bus', "owner", mceIsRunning', running')
          \/ (running' /\ Asked("owner")')
      <4>1. CASE of = "owner"
        <5>1. m.value = running
          BY <2>1, <2>2, <2>5, <4>1 DEF DisplayTypeOK
        <5> QED
          BY <1>2, <2>3, <2>4, <2>5, <4>1, <5>1, SettlesAppend
      <4>2. CASE of # "owner"
        BY <1>2, <1>4, <2>2, <2>3, <2>4, <2>5, <4>2, SettlesAppend
        DEF AgreeInv, KnowsInv, of
      <4> QED
        BY <4>1, <4>2
    <3>2. AsksAgain => AsksAgain'
      <4>1. \A i \in DOMAIN bus : i \in DOMAIN bus' /\ bus'[i] = bus[i]
        BY <1>2, <2>3, <2>4, AppendAt
      <4> QED
        BY <1>2, <4>1 DEF AsksAgain
    <3>3. Asked("allowed")' \/ AsksAgain'
          \/ Settles(bus', "allowed", allowed', mceAllows')
      <4>1. CASE of = "allowed"
        BY <1>2, <2>1, <2>3, <2>4, <2>5, <4>1, SettlesAppend
      <4>2. CASE of # "allowed"
        <5>1. Settles(bus, "allowed", allowed, mceAllows) =>
                  Settles(bus', "allowed", allowed', mceAllows')
          BY <1>2, <2>3, <2>4, <2>5, <4>2, SettlesAppend
        <5> QED
          BY <1>4, <2>2, <3>2, <4>2, <5>1 DEF AgreeInv, KnowsInv, of
      <4> QED
        BY <4>1, <4>2
    <3> QED
      BY <3>1, <3>3 DEF KnowsInv
  <2>11. PauseInv'
    <3>1. \A i \in DOMAIN bus' : (i \in DOMAIN bus /\ bus'[i] = bus[i]) \/ bus'[i] = m
      BY <1>2, <2>3, <2>4, AppendAt
    <3>2. \A i \in DOMAIN bus' : FirstRun /\ bus'[i].of = "owner" => bus'[i].value
      BY <2>1, <2>5, <3>1 DEF AgreeInv, PauseInv
    <3> QED
      BY <1>6, <3>2
  <2> QED
    BY <1>5, <2>8, <2>9, <2>10, <2>11 DEF AgreeInv
<1> QED
  BY <1>3, <1>7, <1>8

\* What mce calls, tells and does not do any more: it sends nothing else.
LEMMA AgreeMce ==
    ASSUME DisplayTypeOK, CallInv, AgreeInv,
           \/ \E kind \in Call : Calls(kind)
           \/ MceChangesMind \/ MceStops \/ MceStarts
    PROVE  AgreeInv'
<1> DEFINE n == Len(bus)
<1>1. /\ UNCHANGED <<ui, updates, mceIsRunning, allowed, renewTimer, sent>>
      /\ bus \in Seq(Message) /\ n \in Nat /\ run' \in Nat /\ mceAllows' \in BOOLEAN
  <2>1. UNCHANGED <<ui_vars, updates, pause_vars, sent>>
    BY DEF Calls, MceChangesMind, MceStops, MceStarts, MceStep
  <2>2. run' = run \/ run' = run + 1
    BY DEF Calls, MceChangesMind, MceStops, MceStarts
  <2>3. mceAllows' = mceAllows \/ mceAllows' = (~mceAllows) \/ mceAllows' \in BOOLEAN
    BY DEF Calls, MceChangesMind, MceStops, MceStarts
  <2>4. mceAllows' \in BOOLEAN
    BY <2>3 DEF DisplayTypeOK
  <2>5. bus \in Seq(Message) /\ n \in Nat /\ run' \in Nat
    BY <2>2 DEF DisplayTypeOK
  <2> QED
    BY <2>1, <2>4, <2>5 DEF ui_vars, pause_vars
<1>2. RenewInv'
  BY <1>1 DEF AgreeInv, RenewInv
<1>3. \A of : Asked(of) => Asked(of)'
  BY <1>1 DEF Asked
<1>4. ASSUME NEW m \in Message, bus' = Append(bus, m) PROVE AsksAgain => AsksAgain'
  <2>1. \A i \in DOMAIN bus : i \in DOMAIN bus' /\ bus'[i] = bus[i]
    BY <1>1, <1>4, AppendAt
  <2> QED
    BY <1>1, <2>1 DEF AsksAgain
<1>5. ASSUME NEW m \in Message, bus' = Append(bus, m),
             (paused' => paused) /\ (paused' => running') /\ (running' => run' # 0),
             FirstRun' => FirstRun,
             FirstRun' /\ m.of = "owner" => m.value
      PROVE  PauseInv'
  <2>1. \A i \in DOMAIN bus' : (i \in DOMAIN bus /\ bus'[i] = bus[i]) \/ bus'[i] = m
    BY <1>1, <1>5, AppendAt
  <2>2. FirstRun' => \A i \in DOMAIN bus' : bus'[i].of = "owner" => bus'[i].value
    BY <1>5, <2>1 DEF AgreeInv, PauseInv
  <2>3. StartsInv => StartsInv'
    BY <1>1 DEF StartsInv
  <2>4. FirstRun' /\ paused' => renewTimer' \/ Asked("stop")'
    BY <1>1, <1>3, <1>5 DEF AgreeInv, PauseInv
  <2>5. FirstRun' => StartsInv'
    BY <1>5, <2>3 DEF AgreeInv, PauseInv
  <2>6. (paused' => running') /\ (running' => run' # 0)
    BY <1>5
  <2> QED
    BY <2>2, <2>4, <2>5, <2>6 DEF PauseInv
<1>6. ASSUME NEW kind \in Call, Calls(kind) PROVE AgreeInv'
  <2>1. PICK of \in Call \cup {"malformed"} :
            Arrives(of, TRUE) /\ (of = "requirements" <=> kind = "requirements")
    <3>1. CASE Arrives(kind, TRUE)
      BY <3>1
    <3>2. CASE kind = "disable" /\ Arrives("malformed", TRUE)
      <4>1. ("malformed" = "requirements") <=> (kind = "requirements")
        BY <3>2
      <4>2. "malformed" \in Call \cup {"malformed"}
        OBVIOUS
      <4> QED
        BY <3>2, <4>1, <4>2
    <3> QED
      BY <1>6, <3>1, <3>2 DEF Calls
  <2> DEFINE m == [of |-> of, from |-> run', value |-> TRUE]
  <2>2. m \in Message
    BY <1>1, <2>1, ArrivesFacts
  <2>3. bus' = Append(bus, m)
    BY <2>1 DEF Arrives
  <2>4. m.of = of
    OBVIOUS
  <2> HIDE DEF m
  <2>5. /\ running /\ UNCHANGED <<run, running, permits, mceAllows, paused>>
        /\ kind # "requirements" => permits # "unknown"
    BY <1>6 DEF Calls
  <2>6. m.of # "owner" /\ m.of # "allowed" /\ (Draws(m) => kind # "requirements")
    BY <2>1, <2>4 DEF Call, Draws
  <2>7. Owned(bus, mceIsRunning, n + 1) \/ FirstQuestion
    BY <2>5 DEF AgreeInv, EndInv
  <2>8. BusInv'
    <3>1. Draws(m) => Owned(bus, mceIsRunning, n + 1)
      BY <2>5, <2>6, <2>7 DEF FirstQuestion
    <3> QED
      BY <1>1, <2>2, <2>3, <2>6, <3>1, AgreeArrives DEF AgreeInv
  <2>9. EndInv'
    <3>1. CASE Owned(bus, mceIsRunning, n + 1)
      <4>1. Owned(bus', mceIsRunning', Len(bus') + 1)
        BY <1>1, <2>2, <2>3, <2>6, <3>1, OwnedAppend
      <4> QED
        BY <4>1 DEF EndInv, Owned
    <3>2. CASE FirstQuestion
      <4>1. ~Draws(m)
        BY <2>5, <2>6, <3>2 DEF FirstQuestion
      <4>2. Nothing(bus, mceIsRunning, n + 1)
        BY <3>2 DEF FirstQuestion
      <4>3. Nothing(bus', mceIsRunning', Len(bus') + 1)
        BY <1>1, <2>2, <2>3, <2>6, <4>1, <4>2, NothingAppend
      <4>4. FirstQuestion'
        BY <1>1, <2>5, <3>2, <4>3 DEF FirstQuestion, Nothing, Draws
      <4> QED
        BY <4>4 DEF EndInv
    <3> QED
      BY <2>7, <3>1, <3>2
  <2>10. KnowsInv'
    <3>1. Settles(bus, "owner", mceIsRunning, running) =>
              Settles(bus', "owner", mceIsRunning', running')
      BY <1>1, <2>2, <2>3, <2>5, <2>6, SettlesAppend
    <3>2. Settles(bus, "allowed", allowed, mceAllows) =>
              Settles(bus', "allowed", allowed', mceAllows')
      BY <1>1, <2>2, <2>3, <2>5, <2>6, SettlesAppend
    <3> QED
      BY <1>3, <1>4, <2>2, <2>3, <2>5, <3>1, <3>2 DEF AgreeInv, KnowsInv
  <2>11. PauseInv'
    <3>1. (paused' => paused) /\ (paused' => running') /\ (running' => run' # 0)
          /\ (FirstRun' => FirstRun)
      BY <2>5 DEF AgreeInv, PauseInv, FirstRun
    <3> QED
      BY <1>5, <2>2, <2>3, <2>6, <3>1
  <2> QED
    BY <1>2, <2>8, <2>9, <2>10, <2>11 DEF AgreeInv
<1>7. ASSUME NEW of \in {"owner", "allowed"}, NEW value \in BOOLEAN, Arrives(of, value)
      PROVE  \E m \in Message : bus' = Append(bus, m) /\ m.of = of /\ m.value = value
  <2> DEFINE m == [of |-> of, from |-> run', value |-> value]
  <2>1. m \in Message
    BY <1>1, <1>7, ArrivesFacts
  <2>2. bus' = Append(bus, m) /\ m.of = of /\ m.value = value
    BY <1>7 DEF Arrives
  <2> QED
    BY <2>1, <2>2
<1>8. ASSUME MceChangesMind PROVE AgreeInv'
  <2>1. PICK m \in Message :
            bus' = Append(bus, m) /\ m.of = "allowed" /\ m.value = mceAllows'
    BY <1>1, <1>7, <1>8 DEF MceChangesMind
  <2>2. running /\ UNCHANGED <<run, running, permits>> /\ (paused' => paused)
    BY <1>8 DEF MceChangesMind
  <2>3. ~Draws(m)
    BY <2>1 DEF Draws
  <2>4. Owned(bus, mceIsRunning, n + 1) \/ FirstQuestion
    BY <2>2 DEF AgreeInv, EndInv
  <2>5. BusInv'
    BY <1>1, <2>1, <2>3, <2>4, AgreeArrives DEF AgreeInv, FirstQuestion
  <2>6. EndInv'
    <3>1. CASE Owned(bus, mceIsRunning, n + 1)
      <4>1. Owned(bus', mceIsRunning', Len(bus') + 1)
        BY <1>1, <2>1, <3>1, OwnedAppend
      <4> QED
        BY <4>1 DEF EndInv, Owned
    <3>2. CASE FirstQuestion
      <4>1. Nothing(bus, mceIsRunning, n + 1)
        BY <3>2 DEF FirstQuestion
      <4>2. Nothing(bus', mceIsRunning', Len(bus') + 1)
        BY <1>1, <2>1, <2>3, <4>1, NothingAppend
      <4>3. FirstQuestion'
        BY <1>1, <2>2, <3>2, <4>2 DEF FirstQuestion, Nothing, Draws
      <4> QED
        BY <4>3 DEF EndInv
    <3> QED
      BY <2>4, <3>1, <3>2
  <2>7. KnowsInv'
    <3>1. Settles(bus, "owner", mceIsRunning, running) =>
              Settles(bus', "owner", mceIsRunning', running')
      BY <1>1, <2>1, <2>2, SettlesAppend
    <3>2. Settles(bus', "allowed", allowed', mceAllows')
      BY <1>1, <2>1, SettlesAppend
    <3> QED
      BY <1>3, <2>2, <3>1, <3>2 DEF AgreeInv, KnowsInv
  <2>8. PauseInv'
    <3>1. (paused' => running') /\ (running' => run' # 0) /\ (FirstRun' => FirstRun)
      BY <2>2 DEF AgreeInv, PauseInv, FirstRun
    <3> QED
      BY <1>5, <2>1, <2>2, <3>1
  <2> QED
    BY <1>2, <2>5, <2>6, <2>7, <2>8 DEF AgreeInv
<1>9. ASSUME MceStops PROVE AgreeInv'
  <2>1. PICK m \in Message : bus' = Append(bus, m) /\ m.of = "owner" /\ m.value = FALSE
    BY <1>7, <1>9 DEF MceStops
  <2>2. running /\ ~running' /\ run' = run /\ ~paused'
    BY <1>9 DEF MceStops
  <2>3. ~Draws(m)
    BY <2>1 DEF Draws
  <2>4. BusInv'
    BY <1>1, <2>1, <2>3, AgreeArrives DEF AgreeInv
  <2>5. EndInv'
    BY <2>2 DEF EndInv
  <2>6. KnowsInv'
    <3>1. running' = FALSE
      BY <1>9 DEF MceStops
    <3>2. Settles(bus', "owner", mceIsRunning', running')
      BY <1>1, <2>1, <3>1, SettlesAppend
    <3> QED
      BY <2>2, <3>2 DEF KnowsInv
  <2>7. PauseInv'
    BY <1>5, <2>1, <2>2 DEF AgreeInv, PauseInv, FirstRun
  <2> QED
    BY <1>2, <2>4, <2>5, <2>6, <2>7 DEF AgreeInv
<1>10. ASSUME MceStarts PROVE AgreeInv'
  <2>1. PICK m \in Message : bus' = Append(bus, m) /\ m.of = "owner" /\ m.value = TRUE
    BY <1>7, <1>10 DEF MceStarts
  <2>2. ~running /\ running' = TRUE /\ run' = run + 1 /\ paused' = paused /\ run \in Nat
    BY <1>10 DEF MceStarts, DisplayTypeOK
  <2>3. ~Draws(m)
    BY <2>1 DEF Draws
  <2>4. BusInv'
    BY <1>1, <2>1, <2>3, AgreeArrives DEF AgreeInv
  <2>5. EndInv'
    <3>1. Owned(bus', mceIsRunning', Len(bus') + 1)
      BY <1>1, <2>1, OwnedAppend
    <3> QED
      BY <3>1 DEF EndInv, Owned
  <2>6. KnowsInv'
    <3>1. Settles(bus', "owner", mceIsRunning', running')
      BY <1>1, <2>1, <2>2, SettlesAppend
    <3>2. Settles(bus, "owner", mceIsRunning, running) => AsksAgain
      <4>1. CASE mceIsRunning = running
        BY <2>2, <4>1 DEF AsksAgain
      <4>2. ASSUME NEW k \in DOMAIN bus, bus[k].of = "owner", bus[k].value = running
            PROVE  AsksAgain
        BY <2>2, <4>2 DEF AsksAgain
      <4> QED
        BY <4>1, <4>2 DEF Settles
    <3>3. AsksAgain'
      BY <1>4, <2>1, <2>2, <3>2 DEF AgreeInv, KnowsInv
    <3> QED
      BY <3>1, <3>3 DEF KnowsInv
  <2>7. PauseInv'
    <3>1. ~paused' /\ run' # 0 /\ (FirstRun' => run = 0) /\ (run = 0 => FirstRun)
      BY <2>2 DEF AgreeInv, PauseInv, FirstRun
    <3> QED
      BY <1>5, <2>1, <2>2, <3>1
  <2> QED
    BY <1>2, <2>4, <2>5, <2>6, <2>7 DEF AgreeInv
<1> QED
  BY <1>6, <1>8, <1>9, <1>10

LEMMA AgreeStep ==
    ASSUME Inv, AgreeInv, [Next]_vars
    PROVE  AgreeInv'
<1>0. DisplayTypeOK /\ CallInv /\ WindowInv
  BY DEF Inv
<1>1. CASE Dispatch
  BY <1>0, <1>1, AgreeDispatch
<1>2. CASE AllowsUi
  <2>1. EvaluatePause(sent, <<>>)
        /\ UNCHANGED <<updates, mceIsRunning, allowed, bus, mce_vars>>
    BY <1>2 DEF AllowsUi
  <2>2. ~renewTimer
    BY <1>2 DEF AllowsUi, Inv, WindowInv, AgreeInv, RenewInv
  <2> QED
    BY <1>0, <2>1, <2>2, Evaluated, AgreeGrows
<1>3. CASE Renews
  <2>1. To("start") \in Request /\ To("start").of = "start"
    BY DEF To, Request
  <2>2. sent' = sent \o <<To("start")>> /\ renewTimer'
    BY <1>0, <1>3, <2>1, OneMore DEF Renews, pause_vars, DisplayTypeOK
  <2>3. Grows
    BY <1>0, <2>1, <2>2, OneSent
  <2>4. UNCHANGED <<updates, mceIsRunning, allowed, bus, mce_vars>>
        /\ renewTimer' = (ui' /\ allowed')
    BY <1>3 DEF Renews, ui_vars, pause_vars, AgreeInv, RenewInv
  <2> QED
    BY <1>0, <2>2, <2>3, <2>4, AgreeGrows
<1>4. CASE RequestTaken
  BY <1>0, <1>4, AgreeTaken
<1>5. CASE (\E kind \in Call : Calls(kind)) \/ MceChangesMind \/ MceStops \/ MceStarts
  BY <1>0, <1>5, AgreeMce
<1>6. CASE PauseExpires \/ UNCHANGED vars
  <2>1. /\ UNCHANGED <<ui, updates, mceIsRunning, allowed, renewTimer, bus, sent, run,
                       running, permits, mceAllows>>
        /\ paused' => paused
    BY <1>6 DEF PauseExpires, vars, ui_vars, pause_vars, mce_vars
  <2>2. BusInv' /\ EndInv' /\ RenewInv'
    BY <2>1 DEF AgreeInv, BusInv, EndInv, FirstQuestion, RenewInv, Owned, Nothing, Draws
  <2>3. KnowsInv'
    BY <2>1 DEF AgreeInv, KnowsInv, Settles, Asked, AsksAgain
  <2>4. PauseInv'
    BY <2>1 DEF AgreeInv, PauseInv, FirstRun, Asked, StartsInv
  <2> QED
    BY <2>2, <2>3, <2>4 DEF AgreeInv
<1> QED
  BY <1>1, <1>2, <1>3, <1>4, <1>5, <1>6 DEF Next

LEMMA AgreeInit == Init => AgreeInv
<1> SUFFICES ASSUME Init PROVE AgreeInv
  OBVIOUS
<1> DEFINE r == [of |-> "owner", to |-> 0]
<1>0. r \in Request /\ r.of = "owner" /\ sent = <<r>>
  BY DEF Init, Request
<1>1. /\ sent # <<>> /\ DOMAIN sent = {1} /\ sent[1].of = "owner"
      /\ Head(sent).of = "owner"
  BY <1>0, OneMore
<1>2. DOMAIN bus = {}
  BY NoMore DEF Init
<1>3. BusInv /\ RenewInv
  BY <1>2 DEF Init, BusInv, RenewInv
<1>4. EndInv
  BY <1>1, <1>2 DEF Init, EndInv, FirstQuestion, Nothing
<1>5. KnowsInv
  BY <1>1, <1>2 DEF Init, KnowsInv, Settles, Asked, AsksAgain
<1>6. PauseInv
  BY <1>1, <1>2 DEF Init, PauseInv, FirstRun, StartsInv
<1> QED
  BY <1>3, <1>4, <1>5, <1>6 DEF AgreeInv

\* When nothing is on its way, the blanking is paused exactly as the unlock screen needs
\* it and mce allows it, and nothing is renewed at a mce that is gone.
THEOREM PauseSettles == Spec => []PauseIsAgreed
<1>1. Inv /\ AgreeInv => PauseIsAgreed
  <2> SUFFICES ASSUME Inv, AgreeInv PROVE PauseIsAgreed
    OBVIOUS
  <2>1. renewTimer => mceIsRunning
    BY RenewsAtMce DEF Inv, AgreeInv
  <2>2. ASSUME bus = <<>>, sent = <<>>
        PROVE  /\ renewTimer = (ui /\ running /\ mceAllows)
               /\ paused => renewTimer \/ run > 1
    <3>1. DOMAIN bus = {} /\ DOMAIN sent = {}
      BY <2>2, NoMore
    <3>2. mceIsRunning = running
      BY <3>1 DEF AgreeInv, KnowsInv, Settles, Asked
    <3>3. running => allowed = mceAllows
      BY <3>1, <3>2 DEF AgreeInv, KnowsInv, Settles, Asked, AsksAgain
    <3>4. renewTimer = (ui /\ running /\ mceAllows)
      <4>1. CASE running
        <5>1. renewTimer = (ui /\ allowed) /\ allowed = mceAllows
          BY <3>3, <4>1 DEF AgreeInv, RenewInv
        <5>2. (ui /\ allowed) = (ui /\ running /\ mceAllows)
          BY <4>1, <5>1
        <5> QED
          BY <5>1, <5>2
      <4>2. CASE ~running
        <5>1. ~renewTimer
          BY <2>1, <3>2, <4>2
        <5>2. renewTimer = FALSE
          BY <5>1 DEF Inv, DisplayTypeOK
        <5> QED
          BY <4>2, <5>2
      <4> QED
        BY <4>1, <4>2
    <3>5. ASSUME paused, ~renewTimer PROVE run > 1
      <4>1. running /\ run # 0 /\ run \in Nat
        BY <3>5 DEF AgreeInv, PauseInv, Inv, DisplayTypeOK
      <4>2. ~FirstRun
        BY <3>1, <3>5 DEF AgreeInv, PauseInv, Asked
      <4> QED
        BY <4>1, <4>2 DEF FirstRun
    <3> QED
      BY <3>4, <3>5
  <2> QED
    BY <2>1, <2>2 DEF PauseIsAgreed
<1> DEFINE All == Inv /\ AgreeInv
<1>2. Init => All
  BY InvInit, AgreeInit
<1>3. All /\ [Next]_vars => All'
  BY InvStep, AgreeStep
<1>4. All => PauseIsAgreed
  BY <1>1
<1> HIDE DEF All
<1> QED
  BY <1>2, <1>3, <1>4, PTL DEF Spec
=============================================================================
