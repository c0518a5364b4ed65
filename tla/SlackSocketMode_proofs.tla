------------------------ MODULE SlackSocketMode_proofs ------------------------
(***************************************************************************)
(* Proofs about SlackSocketMode, for any events, any number of sessions    *)
(* that overlap, and any number of deliveries.                             *)
(***************************************************************************)
EXTENDS SlackSocketMode, FiniteSetTheorems, TLAPS

-----------------------------------------------------------------------------
(* Types.                                                                  *)

\* A goroutine that is at work has an event.
ItemInv == \A s \in Sessions : consumer[s] \in Works => item[s] \in Events
BaseInv == TypeOK /\ ItemInv

LEMMA BaseInit == Init => BaseInv
<1> SUFFICES ASSUME Init PROVE BaseInv
  OBVIOUS
<1> USE ConstantsAssumption
<1>1. kind \in Mixes /\ sent \in [Events -> 0..MaxDeliveries] /\ handled \in [Events -> Nat]
  BY DEF Init
<1>2. queue \in [Sessions -> Seq(Events)] /\ backoff \in MinBackoff..MaxBackoff
  BY DEF Init
<1>3. TypeOK
  BY <1>1, <1>2 DEF Init, TypeOK
<1>4. ItemInv
  BY DEF Init, ItemInv, Works
<1> QED
  BY <1>3, <1>4 DEF BaseInv

LEMMA RunnerStep ==
  ASSUME BaseInv, Dial \/ Runner \/ Stop
  PROVE  BaseInv'
<1> USE ConstantsAssumption
<1>1. TypeOK /\ ItemInv
  BY DEF BaseInv
<1>2. CASE Dial
  <2>1. /\ loop' \in {"dial", "session", "wait", "ended"} /\ session' \in Sessions \cup {None}
        /\ queue' \in [Sessions -> Seq(Events)]
        /\ consumer' \in [Sessions -> {"none", "select"} \cup Works]
    <3>1. CASE UnlessStopped("wait") /\ UNCHANGED <<session, queue, consumer>>
      BY <1>1, <3>1 DEF UnlessStopped, TypeOK
    <3>2. CASE \E s \in Sessions :
                 /\ session' = s /\ loop' = "session" /\ queue' = [queue EXCEPT ![s] = <<>>]
                 /\ consumer' = [consumer EXCEPT ![s] = "select"]
      BY <1>1, <3>2 DEF TypeOK
    <3> QED
      BY <1>2, <3>1, <3>2 DEF Dial
  <2>2. ItemInv'
    BY <1>1, <1>2 DEF Dial, TypeOK, ItemInv, Works
  <2> QED
    BY <1>1, <1>2, <2>1, <2>2 DEF Dial, slack, BaseInv, TypeOK
<1>3. CASE SessionEnds \/ Stop
  BY <1>1, <1>3 DEF SessionEnds, Stop, UnlessStopped, slack, consumes, BaseInv, TypeOK, ItemInv
<1>4. CASE WaitEnds
  <2>1. backoff' \in MinBackoff..MaxBackoff
    BY <1>1, <1>4 DEF WaitEnds, NextBackoff, TypeOK
  <2> QED
    BY <1>1, <1>4, <2>1 DEF WaitEnds, slack, consumes, BaseInv, TypeOK, ItemInv
<1> QED
  BY <1>2, <1>3, <1>4 DEF Runner

LEMMA DeliverStep ==
  ASSUME BaseInv, NEW e \in Events, Deliver(e)
  PROVE  BaseInv'
<1> USE ConstantsAssumption
<1>1. TypeOK /\ ItemInv /\ session \in Sessions
  BY DEF BaseInv, Deliver, TypeOK
<1>2. sent' \in [Events -> 0..MaxDeliveries]
  <2>1. sent[e] \in Nat /\ sent[e] < MaxDeliveries
    BY <1>1 DEF Deliver, TypeOK
  <2> QED
    BY <1>1, <2>1 DEF Deliver, TypeOK
<1>3. queue' \in [Sessions -> Seq(Events)]
  BY <1>1 DEF Deliver, TypeOK
<1> QED
  BY <1>1, <1>2, <1>3 DEF Deliver, runner, BaseInv, TypeOK, ItemInv

LEMMA ConsumeStep ==
  ASSUME BaseInv, NEW s \in Sessions, Consume(s) \/ Leave(s)
  PROVE  BaseInv'
<1>1. TypeOK /\ ItemInv
  BY DEF BaseInv
<1>2. CASE Take(s)
  <2>1. queue[s] \in Seq(Events) /\ queue[s] # <<>>
    BY <1>1, <1>2 DEF Take, TypeOK
  <2>2. Head(queue[s]) \in Events /\ Tail(queue[s]) \in Seq(Events)
    BY <2>1
  <2>3. /\ queue' \in [Sessions -> Seq(Events)] /\ item' \in [Sessions -> Events \cup {None}]
        /\ consumer' \in [Sessions -> {"none", "select"} \cup Works]
    BY <1>1, <1>2, <2>2 DEF Take, Goto, TypeOK, Works
  <2>4. ItemInv'
    BY <1>1, <1>2, <2>2 DEF Take, Goto, TypeOK, ItemInv
  <2> QED
    BY <1>1, <1>2, <2>3, <2>4 DEF Take, slack, runner, BaseInv, TypeOK
<1>3. CASE Leave(s)
  BY <1>1, <1>3 DEF Leave, Goto, slack, runner, BaseInv, TypeOK, ItemInv, Works
<1>4. CASE ~Take(s) /\ ~Leave(s)
  <2>1. item[s] \in Events
    BY <1>1, <1>4 DEF Consume, AckEvent, AckBadSlash, Handle, AckSlash, Reply, ItemInv, Works
  <2>2. \/ Release(s)
        \/ UNCHANGED item /\ (Goto(s, "acked") \/ Goto(s, "handling"))
    BY <1>4 DEF Consume, AckEvent, AckBadSlash, Handle, AckSlash, Reply
  <2>3. /\ consumer' \in [Sessions -> {"none", "select"} \cup Works]
        /\ item' \in [Sessions -> Events \cup {None}] /\ ItemInv'
    BY <1>1, <2>1, <2>2 DEF Release, Goto, TypeOK, ItemInv, Works
  <2>4. /\ UNCHANGED <<kind, sent, stopped, loop, backoff, session, queue>>
        /\ acked' \in {acked, acked \cup {item[s]}}
        /\ handled' \in {handled, [handled EXCEPT ![item[s]] = @ + 1]}
    BY <1>4 DEF Consume, AckEvent, AckBadSlash, Handle, AckSlash, Reply, Ack, slack, runner
  <2>5. handled' \in [Events -> Nat]
    <3>1. CASE handled' = [handled EXCEPT ![item[s]] = @ + 1]
      BY <1>1, <2>1, <3>1 DEF TypeOK
    <3> QED
      BY <1>1, <2>4, <3>1 DEF TypeOK
  <2> QED
    BY <1>1, <2>1, <2>3, <2>4, <2>5 DEF BaseInv, TypeOK
<1> QED
  BY <1>2, <1>3, <1>4

LEMMA BaseNext == BaseInv /\ [Next]_vars => BaseInv'
<1>1. BaseInv /\ UNCHANGED vars => BaseInv'
  BY DEF BaseInv, TypeOK, ItemInv, vars, slack, runner, consumes
<1> QED
  BY <1>1, RunnerStep, DeliverStep, ConsumeStep DEF Next

\* Every variable keeps its type; a goroutine at work always has an event.
THEOREM TypeCorrect == Spec => []TypeOK
<1>1. BaseInv => TypeOK
  BY DEF BaseInv
<1> QED
  BY <1>1, BaseInit, BaseNext, PTL DEF Spec

-----------------------------------------------------------------------------
(* What is acknowledged is handled.                                        *)

\* How far a goroutine is with its event.
StageInv ==
  \A s \in Sessions :
    /\ consumer[s] = "handling" => handled[item[s]] > 0
    /\ consumer[s] = "acked" => kind[item[s]] = "message"

AckInv == StageInv /\ AckedIsHandled

LEMMA KindType == TypeOK => kind \in [Events -> Kinds]
BY ConstantsAssumption DEF TypeOK

\* Steps that no goroutine takes.
LEMMA AckOther ==
  ASSUME BaseInv, AckInv, UNCHANGED <<kind, acked, item, handled>>,
         \A s \in Sessions : consumer'[s] \in {consumer[s], "none", "select", "took"},
         \A s \in Sessions : consumer[s] = "acked" => consumer'[s] = "acked"
  PROVE  AckInv'
<1>1. StageInv'
  BY DEF AckInv, StageInv
<1>2. AckedIsHandled'
  BY DEF AckInv, AckedIsHandled
<1> QED
  BY <1>1, <1>2 DEF AckInv

LEMMA AckStep ==
  ASSUME BaseInv, AckInv, [Next]_vars
  PROVE  AckInv'
<1>1. TypeOK /\ ItemInv /\ kind \in [Events -> Kinds]
  BY KindType DEF BaseInv
<1>2. CASE Dial
  <2>1. UNCHANGED <<kind, acked, item, handled>>
    BY <1>2 DEF Dial, slack
  <2>2. /\ \A s \in Sessions : consumer'[s] \in {consumer[s], "none", "select", "took"}
        /\ \A s \in Sessions : consumer[s] = "acked" => consumer'[s] = "acked"
    BY <1>1, <1>2 DEF Dial, TypeOK
  <2> QED
    BY <2>1, <2>2, AckOther
<1>3. CASE Runner \/ Stop \/ (\E e \in Events : Deliver(e)) \/ UNCHANGED vars
  <2>1. UNCHANGED <<kind, acked, item, handled, consumer>>
    BY <1>3 DEF Runner, SessionEnds, WaitEnds, Stop, Deliver, vars, slack, runner, consumes
  <2> QED
    BY <2>1, AckOther
<1>4. ASSUME NEW s \in Sessions, Take(s) \/ Leave(s) PROVE AckInv'
  <2>1. UNCHANGED <<kind, acked, handled>> /\ consumer[s] = "select"
    BY <1>4 DEF Take, Leave, slack
  <2>2. /\ \A r \in Sessions : r # s => consumer'[r] = consumer[r] /\ item'[r] = item[r]
        /\ consumer'[s] \in {"took", "none"}
    BY <1>1, <1>4 DEF Take, Leave, Goto, TypeOK
  <2>3. StageInv'
    BY <2>1, <2>2 DEF AckInv, StageInv
  <2>4. AckedIsHandled'
    BY <2>1, <2>2 DEF AckInv, AckedIsHandled
  <2> QED
    BY <2>3, <2>4 DEF AckInv
<1>5. ASSUME NEW s \in Sessions, AckEvent(s) \/ AckBadSlash(s) PROVE AckInv'
  <2>1. UNCHANGED <<kind, handled>> /\ consumer[s] = "took" /\ item[s] \in Events
    BY <1>1, <1>5 DEF AckEvent, AckBadSlash, ItemInv, Works
  <2>2. \/ Release(s) /\ kind[item[s]] \in {"ignored", "badSlash"}
        \/ Goto(s, "acked") /\ UNCHANGED item /\ kind[item[s]] = "message"
    BY <1>1, <1>5, <2>1 DEF AckEvent, AckBadSlash, Slash, Kinds
  <2>3. acked' \subseteq acked \cup {item[s]}
    BY <1>5 DEF AckEvent, AckBadSlash, Ack
  <2>4. /\ \A r \in Sessions : r # s => consumer'[r] = consumer[r] /\ item'[r] = item[r]
        /\ \/ consumer'[s] = "select" /\ kind[item[s]] \in {"ignored", "badSlash"}
           \/ consumer'[s] = "acked" /\ item'[s] = item[s] /\ kind[item[s]] = "message"
    BY <1>1, <2>2 DEF Release, Goto, TypeOK
  <2>5. StageInv'
    BY <2>1, <2>4 DEF AckInv, StageInv
  <2>6. AckedIsHandled'
    BY <2>1, <2>3, <2>4 DEF AckInv, AckedIsHandled
  <2> QED
    BY <2>5, <2>6 DEF AckInv
<1>6. ASSUME NEW s \in Sessions, Handle(s) PROVE AckInv'
  <2>1. UNCHANGED <<kind, acked, item>> /\ item[s] \in Events
    BY <1>1, <1>6 DEF Handle, slack, ItemInv, Works
  <2>2. handled'[item[s]] > 0 /\ \A e \in Events : handled[e] > 0 => handled'[e] > 0
    BY <1>1, <1>6, <2>1 DEF Handle, TypeOK
  <2>3. consumer'[s] = "handling" /\ \A r \in Sessions : r # s => consumer'[r] = consumer[r]
    BY <1>1, <1>6 DEF Handle, Goto, TypeOK
  <2>4. StageInv'
    <3>1. ASSUME NEW r \in Sessions, consumer'[r] = "handling" PROVE handled'[item[r]] > 0
      <4>1. CASE r = s
        BY <2>2, <4>1
      <4>2. CASE r # s
        <5>1. consumer[r] = "handling" /\ item[r] \in Events
          BY <1>1, <2>3, <3>1, <4>2 DEF ItemInv, Works
        <5> QED
          BY <2>2, <5>1 DEF AckInv, StageInv
      <4> QED
        BY <4>1, <4>2
    <3> QED
      BY <2>1, <2>3, <3>1 DEF AckInv, StageInv
  <2>5. AckedIsHandled'
    <3> SUFFICES ASSUME NEW e \in acked, kind[e] \in {"message", "slash"}
                 PROVE  handled'[e] > 0 \/ \E r \in Sessions : consumer'[r] = "acked" /\ item[r] = e
      BY <2>1 DEF AckedIsHandled
    <3>1. e \in Events
      BY <1>1 DEF TypeOK
    <3> QED
      BY <2>2, <2>3, <3>1 DEF AckInv, AckedIsHandled
  <2> QED
    BY <2>4, <2>5 DEF AckInv
<1>7. ASSUME NEW s \in Sessions, AckSlash(s) \/ Reply(s) PROVE AckInv'
  <2>1. UNCHANGED <<kind, handled>> /\ consumer[s] = "handling" /\ Release(s)
    BY <1>7 DEF AckSlash, Reply, slack
  <2>2. acked' \subseteq acked \cup {item[s]} /\ handled[item[s]] > 0
    BY <1>7, <2>1 DEF AckSlash, Reply, Ack, slack, AckInv, StageInv
  <2>3. /\ consumer'[s] = "select"
        /\ \A r \in Sessions : r # s => consumer'[r] = consumer[r] /\ item'[r] = item[r]
    BY <1>1, <2>1 DEF Release, Goto, TypeOK
  <2>4. StageInv'
    BY <2>1, <2>3 DEF AckInv, StageInv
  <2>5. AckedIsHandled'
    BY <2>1, <2>2, <2>3 DEF AckInv, AckedIsHandled
  <2> QED
    BY <2>4, <2>5 DEF AckInv
<1> QED
  BY <1>2, <1>3, <1>4, <1>5, <1>6, <1>7 DEF Next, Consume

\* Slack is not told to forget an event that is going to be dropped.
THEOREM Handled == Spec => []AckedIsHandled
<1>1. Init => AckInv
  BY DEF Init, AckInv, StageInv, AckedIsHandled
<1>2. BaseInv /\ AckInv /\ [Next]_vars => BaseInv' /\ AckInv'
  BY BaseNext, AckStep
<1>3. AckInv => AckedIsHandled
  BY DEF AckInv
<1> QED
  BY <1>1, <1>2, <1>3, BaseInit, PTL DEF Spec

-----------------------------------------------------------------------------
(* A slash command is handled once.                                        *)

Queued(e, s, i) == i \in DOMAIN queue[s] /\ queue[s][i] = e
Taken(e, s)     == consumer[s] = "took" /\ item[s] = e
Nowhere(e)      == \A s \in Sessions : ~Taken(e, s) /\ \A i \in Nat : ~Queued(e, s, i)

\* A slash command is in one queue at one place, or with one goroutine, or handled.
OnceAt(e) ==
  /\ handled[e] <= 1
  /\ handled[e] = 1 => Nowhere(e)
  /\ sent[e] = 0 => handled[e] = 0 /\ Nowhere(e)
  /\ sent[e] <= 1
  /\ \A s, r \in Sessions : Taken(e, s) => /\ Taken(e, r) => r = s
                                           /\ \A i \in Nat : ~Queued(e, r, i)
  /\ \A s, r \in Sessions : \A i, j \in Nat : Queued(e, s, i) /\ Queued(e, r, j) => s = r /\ i = j
OnceInv == \A e \in Events : kind[e] \in Slash => OnceAt(e)

\* An event that only moves on, or is lost, is nowhere new.
LEMMA OnceLess ==
  ASSUME NEW e \in Events, OnceAt(e), handled'[e] = handled[e], sent'[e] = sent[e],
         \A s \in Sessions : consumer'[s] = "took" /\ item'[s] = e => Taken(e, s),
         \A s \in Sessions : \A i \in Nat : i \in DOMAIN queue'[s] /\ queue'[s][i] = e => Queued(e, s, i)
  PROVE  OnceAt(e)'
BY DEF OnceAt, Nowhere, Queued, Taken

LEMMA OnceDeliver ==
  ASSUME BaseInv, NEW e \in Events, OnceAt(e), kind[e] \in Slash, NEW d \in Events, Deliver(d)
  PROVE  OnceAt(e)'
<1>1. /\ TypeOK /\ session \in Sessions /\ UNCHANGED <<consumer, item, handled>>
      /\ sent' = [sent EXCEPT ![d] = @ + 1]
  BY DEF BaseInv, Deliver, TypeOK
<1> DEFINE q == queue[session]
<1>2. /\ q \in Seq(Events) /\ DOMAIN q = 1..Len(q) /\ Len(q) \in Nat
      /\ queue'[session] = Append(q, d) /\ DOMAIN Append(q, d) = 1..(Len(q) + 1)
      /\ \A i \in DOMAIN q : Append(q, d)[i] = q[i]
      /\ Append(q, d)[Len(q) + 1] = d
      /\ \A s \in Sessions : s # session => queue'[s] = queue[s]
  BY <1>1 DEF Deliver, TypeOK
<1> HIDE DEF q
<1>3. \A s \in Sessions : \A i \in Nat : i \in DOMAIN queue'[s] /\ queue'[s][i] = e
        => Queued(e, s, i) \/ (d = e /\ s = session /\ i = Len(q) + 1)
  BY <1>2 DEF Queued, q
<1>4. CASE d # e
  <2>1. sent'[e] = sent[e]
    BY <1>1, <1>4 DEF TypeOK
  <2> QED
    BY <1>1, <1>3, <1>4, <2>1, OnceLess DEF Taken
<1>5. CASE d = e
  <2>1. sent[e] = 0 /\ sent'[e] = 1
    BY <1>1, <1>5 DEF Deliver, TypeOK
  <2>2. handled[e] = 0 /\ Nowhere(e)
    BY <2>1 DEF OnceAt
  <2>3. \A s \in Sessions : ~(consumer'[s] = "took" /\ item'[s] = e)
    BY <1>1, <2>2 DEF Nowhere, Taken
  <2>4. \A s \in Sessions : \A i \in Nat : i \in DOMAIN queue'[s] /\ queue'[s][i] = e
          => s = session /\ i = Len(q) + 1
    BY <1>3, <2>2 DEF Nowhere
  <2> QED
    BY <1>1, <2>1, <2>2, <2>3, <2>4 DEF OnceAt, Taken, Queued
<1> QED
  BY <1>4, <1>5

LEMMA OnceTake ==
  ASSUME BaseInv, NEW e \in Events, OnceAt(e), NEW s \in Sessions, Take(s)
  PROVE  OnceAt(e)'
<1> DEFINE q == queue[s]
<1>1. /\ TypeOK /\ UNCHANGED <<sent, handled>> /\ consumer[s] = "select"
      /\ q \in Seq(Events) /\ q # <<>>
  BY DEF BaseInv, Take, slack, TypeOK
<1>2. /\ queue'[s] = Tail(q) /\ item'[s] = q[1] /\ consumer'[s] = "took"
      /\ \A r \in Sessions : r # s => queue'[r] = queue[r] /\ item'[r] = item[r] /\ consumer'[r] = consumer[r]
  BY <1>1 DEF Take, Goto, TypeOK
<1>3. \A i \in Nat : i \in DOMAIN Tail(q) => i + 1 \in DOMAIN q /\ Tail(q)[i] = q[i + 1] /\ i # 0
  BY <1>1
<1>4. 1 \in DOMAIN q
  BY <1>1
<1> HIDE DEF q
<1>5. \A r \in Sessions : \A i \in Nat : i \in DOMAIN queue'[r] /\ queue'[r][i] = e
        => IF r = s THEN i # 0 /\ Queued(e, s, i + 1) ELSE Queued(e, r, i)
  <2> SUFFICES ASSUME NEW r \in Sessions, NEW i \in Nat, i \in DOMAIN queue'[r], queue'[r][i] = e
               PROVE  IF r = s THEN i # 0 /\ Queued(e, s, i + 1) ELSE Queued(e, r, i)
    OBVIOUS
  <2>1. CASE r = s
    <3>1. i \in DOMAIN Tail(q) /\ Tail(q)[i] = e
      BY <1>2, <2>1
    <3>2. i + 1 \in DOMAIN q /\ q[i + 1] = e /\ i # 0
      BY <1>3, <3>1
    <3> QED
      BY <2>1, <3>2 DEF Queued, q
  <2>2. CASE r # s
    BY <1>2, <2>2 DEF Queued
  <2> QED
    BY <2>1, <2>2
<1>6. \A r \in Sessions : consumer'[r] = "took" /\ item'[r] = e
        => IF r = s THEN Queued(e, s, 1) ELSE Taken(e, r)
  BY <1>2, <1>4 DEF Queued, Taken, q
<1>7. \A i, j \in Nat : i + 1 = j + 1 => i = j
  OBVIOUS
<1>8. \A i \in Nat : i + 1 \in Nat /\ (i # 0 => i + 1 # 1) /\ 1 \in Nat
  OBVIOUS
<1>9. /\ \A r, t \in Sessions : Taken(e, r) => /\ Taken(e, t) => t = r
                                               /\ \A i \in Nat : ~Queued(e, t, i)
      /\ \A r, t \in Sessions : \A i, j \in Nat : Queued(e, r, i) /\ Queued(e, t, j) => r = t /\ i = j
  BY DEF OnceAt
<1>10. Nowhere(e) => Nowhere(e)'
  BY <1>5, <1>6, <1>8 DEF Nowhere, Taken, Queued
<1>11. ASSUME NEW r \in Sessions, consumer'[r] = "took", item'[r] = e
       PROVE  \A t \in Sessions : /\ consumer'[t] = "took" /\ item'[t] = e => t = r
                                  /\ \A i \in Nat : ~(i \in DOMAIN queue'[t] /\ queue'[t][i] = e)
  <2>1. CASE r = s
    <3>1. Queued(e, s, 1)
      BY <1>6, <1>11, <2>1
    <3> QED
      BY <1>5, <1>6, <1>8, <1>9, <2>1, <3>1
  <2>2. CASE r # s
    <3>1. Taken(e, r)
      BY <1>6, <1>11, <2>2
    <3> QED
      BY <1>5, <1>6, <1>8, <1>9, <2>2, <3>1
  <2> QED
    BY <2>1, <2>2
<1>12. ASSUME NEW r \in Sessions, NEW t \in Sessions, NEW i \in Nat, NEW j \in Nat,
              i \in DOMAIN queue'[r], queue'[r][i] = e, j \in DOMAIN queue'[t], queue'[t][j] = e
       PROVE  r = t /\ i = j
  BY <1>5, <1>7, <1>8, <1>9, <1>12
<1>13. handled'[e] <= 1 /\ sent'[e] <= 1 /\ (handled'[e] = 1 => Nowhere(e)')
       /\ (sent'[e] = 0 => handled'[e] = 0 /\ Nowhere(e)')
  BY <1>1, <1>10 DEF OnceAt
<1> QED
  BY <1>11, <1>12, <1>13 DEF OnceAt, Taken, Queued

LEMMA OnceHandle ==
  ASSUME BaseInv, StageInv, NEW e \in Events, OnceAt(e), kind[e] \in Slash, NEW s \in Sessions, Handle(s)
  PROVE  OnceAt(e)'
<1>1. TypeOK /\ UNCHANGED <<sent, queue, item>> /\ item[s] \in Events
  BY DEF BaseInv, Handle, slack, ItemInv, Works
<1>2. consumer'[s] = "handling" /\ \A r \in Sessions : r # s => consumer'[r] = consumer[r]
  BY <1>1 DEF Handle, Goto, TypeOK
<1>3. CASE item[s] # e
  <2>1. handled'[e] = handled[e]
    BY <1>1, <1>3 DEF Handle, TypeOK
  <2> QED
    BY <1>1, <1>2, <2>1, OnceLess DEF Taken, Queued
<1>4. CASE item[s] = e
  <2>1. Taken(e, s)
    BY <1>4 DEF Handle, Taken, StageInv, Slash
  <2>2. handled[e] = 0 /\ sent[e] # 0
    BY <1>1, <2>1 DEF OnceAt, Nowhere, TypeOK
  <2>3. handled'[e] = 1
    BY <1>1, <1>4, <2>2 DEF Handle, TypeOK
  <2>4. \A r \in Sessions : ~(consumer'[r] = "took" /\ item'[r] = e)
    BY <1>1, <1>2, <2>1 DEF OnceAt, Taken
  <2>5. \A r \in Sessions : \A i \in Nat : ~(i \in DOMAIN queue'[r] /\ queue'[r][i] = e)
    BY <1>1, <2>1 DEF OnceAt, Queued
  <2> QED
    BY <1>1, <2>2, <2>3, <2>4, <2>5 DEF OnceAt, Nowhere, Taken, Queued
<1> QED
  BY <1>3, <1>4

LEMMA OnceStep ==
  ASSUME BaseInv, AckInv, OnceInv, [Next]_vars
  PROVE  OnceInv'
<1>1. TypeOK /\ StageInv /\ UNCHANGED kind
  BY DEF BaseInv, AckInv, Next, Runner, Consume, Dial, SessionEnds, WaitEnds, Stop, Deliver, Take, Leave,
         AckEvent, AckBadSlash, Handle, AckSlash, Reply, vars, slack
<1> SUFFICES ASSUME NEW e \in Events, kind[e] \in Slash, OnceAt(e) PROVE OnceAt(e)'
  BY <1>1 DEF OnceInv
<1>2. CASE Dial
  <2>1. UNCHANGED <<sent, handled, item>>
    BY <1>2 DEF Dial, slack
  <2>2. \A s \in Sessions : /\ consumer'[s] \in {consumer[s], "select"}
                            /\ queue'[s] \in {queue[s], <<>>}
    BY <1>1, <1>2 DEF Dial, TypeOK
  <2> QED
    BY <2>1, <2>2, OnceLess DEF Taken, Queued
<1>3. CASE Runner \/ Stop \/ UNCHANGED vars
  <2>1. UNCHANGED <<sent, handled, item, queue, consumer>>
    BY <1>3 DEF Runner, SessionEnds, WaitEnds, Stop, vars, slack, consumes
  <2> QED
    BY <2>1, OnceLess DEF Taken, Queued
<1>4. ASSUME NEW s \in Sessions, Leave(s) \/ AckEvent(s) \/ AckBadSlash(s) \/ AckSlash(s) \/ Reply(s)
      PROVE  OnceAt(e)'
  <2>1. UNCHANGED <<sent, handled, queue>>
    BY <1>4 DEF Leave, AckEvent, AckBadSlash, AckSlash, Reply, slack
  <2>2. \A r \in Sessions : (r # s => consumer'[r] = consumer[r] /\ item'[r] = item[r]) /\ consumer'[s] # "took"
    BY <1>1, <1>4 DEF Leave, AckEvent, AckBadSlash, AckSlash, Reply, Release, Goto, TypeOK
  <2> QED
    BY <2>1, <2>2, OnceLess DEF Taken, Queued
<1> QED
  BY <1>1, <1>2, <1>3, <1>4, OnceDeliver, OnceTake, OnceHandle DEF Next, Consume

LEMMA OnceInit == Init => OnceInv
<1>1. ASSUME Init, NEW e \in Events PROVE OnceAt(e)
  BY <1>1 DEF Init, OnceAt, Nowhere, Taken, Queued
<1> QED
  BY <1>1 DEF OnceInv

\* A slash command is acknowledged once it has been handled, exactly once, and
\* by the goroutine of the session that runs.
THEOREM Answered == Spec => SlashIsAnswered
<1> DEFINE Now == \A e \in Events : e \in acked' \ acked /\ kind[e] = "slash"
                    => handled[e] = 1 /\ item[session] = e /\ consumer[session] = "handling"
<1>1. Init => AckInv /\ OnceInv
  BY OnceInit DEF Init, AckInv, StageInv, AckedIsHandled
<1>2. BaseInv /\ AckInv /\ OnceInv /\ [Next]_vars => BaseInv' /\ AckInv' /\ OnceInv'
  BY BaseNext, AckStep, OnceStep
<1>3. BaseInv /\ AckInv /\ OnceInv /\ [Next]_vars => [Now]_vars
  <2> SUFFICES ASSUME BaseInv, AckInv, OnceInv, Next, NEW e \in Events, e \in acked' \ acked, kind[e] = "slash"
               PROVE  handled[e] = 1 /\ item[session] = e /\ consumer[session] = "handling"
    OBVIOUS
  <2>1. PICK s \in Sessions : AckEvent(s) \/ AckBadSlash(s) \/ AckSlash(s)
    BY DEF Next, Runner, Consume, Dial, SessionEnds, WaitEnds, Stop, Deliver, Take, Leave, Handle, Reply, slack
  <2>2. s = session /\ item[s] = e
    BY <2>1 DEF AckEvent, AckBadSlash, AckSlash, Ack
  <2>3. consumer[s] = "handling"
    BY <2>1, <2>2 DEF AckEvent, AckBadSlash, AckSlash, Slash
  <2>4. handled[e] > 0 /\ handled[e] <= 1 /\ handled[e] \in Nat
    BY <2>2, <2>3 DEF AckInv, StageInv, OnceInv, OnceAt, Slash, BaseInv, TypeOK
  <2> QED
    BY <2>2, <2>3, <2>4
<1> QED
  BY <1>1, <1>2, <1>3, BaseInit, PTL DEF Spec, SlashIsAnswered

-----------------------------------------------------------------------------
(* An event is handled as often as it was sent.                            *)

\* A goroutine has the event and has not handled it yet.
Pending(e, s) == consumer[s] \in {"took", "acked"} /\ item[s] = e

\* Where copies of an event are on the way to being handled: places in the
\* queues, and place 0 for the goroutine, to which the head of its queue moves.
Copies(e) == {c \in Sessions \X Nat : IF c[2] = 0 THEN Pending(e, c[1]) ELSE Queued(e, c[1], c[2])}

CopyAt(e) == IsFiniteSet(Copies(e)) /\ handled[e] + Cardinality(Copies(e)) <= sent[e]
CopyInv   == \A e \in Events : CopyAt(e)

LEMMA CopyCount ==
  ASSUME TypeOK, NEW e \in Events, CopyAt(e)
  PROVE  Cardinality(Copies(e)) \in Nat /\ handled[e] \in Nat /\ sent[e] \in Nat
BY ConstantsAssumption, FS_CardinalityType DEF CopyAt, TypeOK

\* Copies that only move on, or are lost.
LEMMA CopyLess ==
  ASSUME TypeOK, NEW e \in Events, CopyAt(e), handled'[e] = handled[e], sent'[e] = sent[e],
         \A s \in Sessions : consumer'[s] \in {"took", "acked"} /\ item'[s] = e => Pending(e, s),
         \A s \in Sessions : \A i \in Nat : i \in DOMAIN queue'[s] /\ queue'[s][i] = e => Queued(e, s, i)
  PROVE  CopyAt(e)'
<1>1. Copies(e)' \subseteq Copies(e)
  BY DEF Copies, Pending, Queued
<1>2. IsFiniteSet(Copies(e)') /\ Cardinality(Copies(e)') <= Cardinality(Copies(e)) /\ Cardinality(Copies(e)') \in Nat
  BY <1>1, FS_Subset, FS_CardinalityType DEF CopyAt
<1> QED
  BY <1>2, CopyCount DEF CopyAt

LEMMA CopyDeliver ==
  ASSUME BaseInv, NEW e \in Events, CopyAt(e), NEW d \in Events, Deliver(d)
  PROVE  CopyAt(e)'
<1>1. /\ TypeOK /\ session \in Sessions /\ UNCHANGED <<consumer, item, handled>>
      /\ sent' = [sent EXCEPT ![d] = @ + 1]
  BY DEF BaseInv, Deliver, TypeOK
<1> DEFINE q == queue[session]
<1>2. /\ q \in Seq(Events) /\ DOMAIN q = 1..Len(q) /\ Len(q) \in Nat
      /\ queue'[session] = Append(q, d) /\ DOMAIN Append(q, d) = 1..(Len(q) + 1)
      /\ \A i \in DOMAIN q : Append(q, d)[i] = q[i]
      /\ Append(q, d)[Len(q) + 1] = d
      /\ \A s \in Sessions : s # session => queue'[s] = queue[s]
  BY <1>1 DEF Deliver, TypeOK
<1> HIDE DEF q
<1>3. \A s \in Sessions : \A i \in Nat : i \in DOMAIN queue'[s] /\ queue'[s][i] = e
        => Queued(e, s, i) \/ (d = e /\ s = session /\ i = Len(q) + 1)
  BY <1>2 DEF Queued, q
<1>4. CASE d # e
  <2>1. sent'[e] = sent[e]
    BY <1>1, <1>4 DEF TypeOK
  <2> QED
    BY <1>1, <1>3, <1>4, <2>1, CopyLess DEF Pending
<1>5. CASE d = e
  <2> DEFINE new == <<session, Len(q) + 1>>
  <2>1. Copies(e)' \subseteq Copies(e) \cup {new}
    BY <1>1, <1>2, <1>3 DEF Copies, Pending, Queued
  <2>2. /\ IsFiniteSet(Copies(e) \cup {new})
        /\ Cardinality(Copies(e) \cup {new}) <= Cardinality(Copies(e)) + 1
        /\ Cardinality(Copies(e) \cup {new}) \in Nat
    <3>1. IsFiniteSet(Copies(e)) /\ Cardinality(Copies(e)) \in Nat
      BY <1>1, CopyCount DEF CopyAt
    <3>2. /\ IsFiniteSet(Copies(e) \cup {new})
          /\ \/ Cardinality(Copies(e) \cup {new}) = Cardinality(Copies(e))
             \/ Cardinality(Copies(e) \cup {new}) = Cardinality(Copies(e)) + 1
      BY <3>1, FS_AddElement, Zenon
    <3> QED
      BY <3>1, <3>2
  <2>3. /\ IsFiniteSet(Copies(e)') /\ Cardinality(Copies(e)') \in Nat
        /\ Cardinality(Copies(e)') <= Cardinality(Copies(e) \cup {new})
    BY <2>1, <2>2, FS_Subset, FS_CardinalityType
  <2>4. sent'[e] = sent[e] + 1 /\ handled'[e] = handled[e]
    BY <1>1, <1>5 DEF TypeOK
  <2> QED
    BY <1>1, <2>2, <2>3, <2>4, CopyCount DEF CopyAt
<1> QED
  BY <1>4, <1>5

LEMMA CopyTake ==
  ASSUME BaseInv, NEW e \in Events, CopyAt(e), NEW s \in Sessions, Take(s)
  PROVE  CopyAt(e)'
<1> DEFINE q == queue[s]
<1>1. /\ TypeOK /\ UNCHANGED <<sent, handled>> /\ consumer[s] = "select"
      /\ q \in Seq(Events) /\ q # <<>>
  BY DEF BaseInv, Take, slack, TypeOK
<1>2. /\ queue'[s] = Tail(q) /\ item'[s] = q[1] /\ consumer'[s] = "took"
      /\ \A r \in Sessions : r # s => queue'[r] = queue[r] /\ item'[r] = item[r] /\ consumer'[r] = consumer[r]
  BY <1>1 DEF Take, Goto, TypeOK
<1>3. \A i \in Nat : i \in DOMAIN Tail(q) => i + 1 \in DOMAIN q /\ Tail(q)[i] = q[i + 1] /\ i # 0
  BY <1>1
<1>4. 1 \in DOMAIN q
  BY <1>1
<1> HIDE DEF q
<1>5. \A r \in Sessions : \A i \in Nat : i \in DOMAIN queue'[r] /\ queue'[r][i] = e
        => IF r = s THEN Queued(e, s, i + 1) ELSE Queued(e, r, i)
  <2> SUFFICES ASSUME NEW r \in Sessions, NEW i \in Nat, i \in DOMAIN queue'[r], queue'[r][i] = e
               PROVE  IF r = s THEN Queued(e, s, i + 1) ELSE Queued(e, r, i)
    OBVIOUS
  <2>1. CASE r = s
    <3>1. i \in DOMAIN Tail(q) /\ Tail(q)[i] = e
      BY <1>2, <2>1
    <3>2. i + 1 \in DOMAIN q /\ q[i + 1] = e
      BY <1>3, <3>1
    <3> QED
      BY <2>1, <3>2 DEF Queued, q
  <2>2. CASE r # s
    BY <1>2, <2>2 DEF Queued
  <2> QED
    BY <2>1, <2>2
<1>6. \A r \in Sessions : consumer'[r] \in {"took", "acked"} /\ item'[r] = e
        => IF r = s THEN Queued(e, s, 1) ELSE Pending(e, r)
  BY <1>2, <1>4 DEF Queued, Pending, q
<1> DEFINE from == [c \in Copies(e)' |-> IF c[1] = s THEN <<s, c[2] + 1>> ELSE c]
<1>7. ASSUME NEW c \in Copies(e)' PROVE from[c] \in Copies(e)
  <2>1. PICK r \in Sessions, i \in Nat : c = <<r, i>>
    BY DEF Copies
  <2>2. CASE i = 0
    <3>1. consumer'[r] \in {"took", "acked"} /\ item'[r] = e
      BY <2>1, <2>2 DEF Copies, Pending
    <3> QED
      BY <1>6, <2>1, <2>2, <3>1 DEF Copies
  <2>3. CASE i # 0
    <3>1. i \in DOMAIN queue'[r] /\ queue'[r][i] = e
      BY <2>1, <2>3 DEF Copies, Queued
    <3> QED
      BY <1>5, <2>1, <2>3, <3>1 DEF Copies
  <2> QED
    BY <2>2, <2>3
<1>8. ASSUME NEW c \in Copies(e)', NEW d \in Copies(e)', from[c] = from[d] PROVE c = d
  <2>1. PICK r \in Sessions, i \in Nat : c = <<r, i>>
    BY DEF Copies
  <2>2. PICK t \in Sessions, j \in Nat : d = <<t, j>>
    BY DEF Copies
  <2> QED
    BY <1>8, <2>1, <2>2
<1>9. from \in Injection(Copies(e)', Copies(e))
  <2>1. from \in [Copies(e)' -> Copies(e)]
    BY <1>7
  <2> QED
    BY <1>8, <2>1 DEF Injection, IsInjective
<1>10. /\ IsFiniteSet(Copies(e)') /\ Cardinality(Copies(e)') <= Cardinality(Copies(e))
       /\ Cardinality(Copies(e)') \in Nat
  BY <1>9, FS_Injection, FS_CardinalityType DEF CopyAt
<1> QED
  BY <1>1, <1>10, CopyCount DEF CopyAt

LEMMA CopyHandle ==
  ASSUME BaseInv, StageInv, NEW e \in Events, CopyAt(e), NEW s \in Sessions, Handle(s)
  PROVE  CopyAt(e)'
<1>1. TypeOK /\ UNCHANGED <<sent, queue, item>> /\ item[s] \in Events /\ consumer[s] \in {"took", "acked"}
  BY DEF BaseInv, Handle, slack, ItemInv, Works
<1>2. consumer'[s] = "handling" /\ \A r \in Sessions : r # s => consumer'[r] = consumer[r]
  BY <1>1 DEF Handle, Goto, TypeOK
<1>3. CASE item[s] # e
  <2>1. handled'[e] = handled[e]
    BY <1>1, <1>3 DEF Handle, TypeOK
  <2> QED
    BY <1>1, <1>2, <2>1, CopyLess DEF Pending, Queued
<1>4. CASE item[s] = e
  <2>1. <<s, 0>> \in Copies(e) /\ Copies(e)' \subseteq Copies(e) \ {<<s, 0>>}
    BY <1>1, <1>2, <1>4 DEF Copies, Pending, Queued
  <2>2. /\ IsFiniteSet(Copies(e) \ {<<s, 0>>})
        /\ Cardinality(Copies(e) \ {<<s, 0>>}) = Cardinality(Copies(e)) - 1
    BY <2>1, FS_RemoveElement DEF CopyAt
  <2>3. /\ IsFiniteSet(Copies(e)') /\ Cardinality(Copies(e)') \in Nat
        /\ Cardinality(Copies(e)') <= Cardinality(Copies(e)) - 1
    BY <2>1, <2>2, FS_Subset, FS_CardinalityType
  <2>4. handled'[e] = handled[e] + 1
    BY <1>1, <1>4 DEF Handle, TypeOK
  <2> QED
    BY <1>1, <2>3, <2>4, CopyCount DEF CopyAt
<1> QED
  BY <1>3, <1>4

LEMMA CopyStep ==
  ASSUME BaseInv, AckInv, CopyInv, [Next]_vars
  PROVE  CopyInv'
<1>1. TypeOK /\ StageInv
  BY DEF BaseInv, AckInv
<1> SUFFICES ASSUME NEW e \in Events, CopyAt(e) PROVE CopyAt(e)'
  BY DEF CopyInv
<1>2. CASE Dial
  <2>1. UNCHANGED <<sent, handled, item>>
    BY <1>2 DEF Dial, slack
  <2>2. \A s \in Sessions : /\ consumer'[s] \in {consumer[s], "select"}
                            /\ queue'[s] \in {queue[s], <<>>}
    BY <1>1, <1>2 DEF Dial, TypeOK
  <2> QED
    BY <1>1, <2>1, <2>2, CopyLess DEF Pending, Queued
<1>3. CASE Runner \/ Stop \/ UNCHANGED vars
  <2>1. UNCHANGED <<sent, handled, item, queue, consumer>>
    BY <1>3 DEF Runner, SessionEnds, WaitEnds, Stop, vars, slack, consumes
  <2> QED
    BY <1>1, <2>1, CopyLess DEF Pending, Queued
<1>4. ASSUME NEW s \in Sessions, Leave(s) \/ AckEvent(s) \/ AckBadSlash(s) \/ AckSlash(s) \/ Reply(s)
      PROVE  CopyAt(e)'
  <2>1. UNCHANGED <<sent, handled, queue>>
    BY <1>4 DEF Leave, AckEvent, AckBadSlash, AckSlash, Reply, slack
  <2>2. /\ \A r \in Sessions : r # s => consumer'[r] = consumer[r] /\ item'[r] = item[r]
        /\ \/ consumer'[s] \notin {"took", "acked"}
           \/ consumer[s] = "took" /\ UNCHANGED item
    BY <1>1, <1>4 DEF Leave, AckEvent, AckBadSlash, AckSlash, Reply, Release, Goto, TypeOK
  <2> QED
    BY <1>1, <2>1, <2>2, CopyLess DEF Pending, Queued
<1> QED
  BY <1>1, <1>2, <1>3, <1>4, CopyDeliver, CopyTake, CopyHandle DEF Next, Consume

\* However sessions overlap and end, an event is never handled more often than
\* Slack has sent it, a slash command at most once: no copy of an event is
\* taken twice, or handled by two goroutines.
THEOREM NoneHandledTwice == Spec => []HandledAsSent
<1>1. Init => AckInv /\ OnceInv /\ CopyInv
  <2>1. Init => AckInv
    BY DEF Init, AckInv, StageInv, AckedIsHandled
  <2>2. ASSUME Init, NEW e \in Events PROVE CopyAt(e)
    <3>1. Copies(e) = {}
      BY <2>2 DEF Init, Copies, Pending, Queued
    <3> QED
      BY <2>2, <3>1, FS_EmptySet DEF Init, CopyAt
  <2> QED
    BY <2>1, <2>2, OnceInit DEF CopyInv
<1>2. BaseInv /\ AckInv /\ OnceInv /\ CopyInv /\ [Next]_vars
        => BaseInv' /\ AckInv' /\ OnceInv' /\ CopyInv'
  BY BaseNext, AckStep, OnceStep, CopyStep
<1>3. BaseInv /\ OnceInv /\ CopyInv => HandledAsSent
  <2> SUFFICES ASSUME BaseInv, OnceInv, CopyInv, NEW e \in Events
               PROVE  handled[e] <= sent[e] /\ (kind[e] \in Slash => handled[e] <= 1)
    BY DEF HandledAsSent
  <2>1. TypeOK /\ CopyAt(e)
    BY DEF BaseInv, CopyInv
  <2>2. handled[e] <= sent[e]
    BY <2>1, CopyCount DEF CopyAt
  <2> QED
    BY <2>2 DEF OnceInv, OnceAt
<1> QED
  BY <1>1, <1>2, <1>3, BaseInit, PTL DEF Spec
=============================================================================
