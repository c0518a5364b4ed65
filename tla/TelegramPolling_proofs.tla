------------------------ MODULE TelegramPolling_proofs ------------------------
(***************************************************************************)
(* Proofs about TelegramPolling.  The inductive invariant says that some   *)
(* prefix of the updates has been handled, that neither the offsets nor    *)
(* the Bot API are ahead of it, and that the response in hand continues it *)
(* without a gap.                                                          *)
(***************************************************************************)
EXTENDS TelegramPolling, FiniteSetTheorems, WellFoundedInduction, TLAPS

PrefixInv(p) ==
  /\ p \in 0..posted
  /\ \A u \in Updates : u \in handled <=> u <= p
  /\ forgotten <= p /\ next <= p + 1 /\ file <= p + 1

BatchInv(p) ==
  /\ loop = "waiting" => next <= forgotten + 1
  /\ \A u, v \in batch : \A w \in Updates : u <= w /\ w <= v => w \in batch
  /\ \A u \in batch : Current(u) => u <= p + 1 /\ (loop = "advance" => u <= p)

PollInv == \E p \in Nat : PrefixInv(p) /\ BatchInv(p)

-----------------------------------------------------------------------------
LEMMA TypeInit == Init => TypeOK
BY ConstantsAssumption DEF Init, TypeOK, Updates

LEMMA TypeStep == TypeOK /\ [Next]_vars => TypeOK'
<1> SUFFICES ASSUME TypeOK, [Next]_vars PROVE TypeOK'
  OBVIOUS
<1> USE ConstantsAssumption DEF TypeOK, Updates, server, record
<1>1. CASE Post
  BY <1>1 DEF Post
<1>2. CASE Start
  <2>1. next' \in {0, file}
    BY <1>2, Zenon DEF Start, StoredOffset
  <2> QED
    BY <1>2, <2>1 DEF Start, StoredOffset
<1>3. CASE StartFails
  BY <1>3 DEF StartFails
<1>4. CASE Stop
  BY <1>4 DEF Stop
<1>5. CASE Die
  BY <1>5 DEF Die
<1>6. CASE LoopExit
  BY <1>6 DEF LoopExit
<1>7. CASE Request
  BY <1>7 DEF Request
<1>8. CASE Respond
  <2>1. Window \subseteq 1..posted
    BY DEF Window
  <2> QED
    BY <1>8, <2>1 DEF Respond
<1>9. CASE RequestFails
  BY <1>9 DEF RequestFails
<1>10. CASE WakeUp
  BY <1>10 DEF WakeUp
<1>11. CASE Handle
  BY <1>11 DEF Handle
<1>12. CASE Advance
  <2>1. file' \in {file, next'}
    BY <1>12, Zenon DEF Advance, Persist
  <2>2. PICK u \in batch : next' = u + 1 /\ batch' = batch \ {u}
    BY <1>12 DEF Advance
  <2>3. next' \in 0..posted' + 1 /\ file' \in 0..posted' + 1 /\ batch' \subseteq 1..posted'
    BY <1>12, <2>1, <2>2 DEF Advance
  <2>4. loop' = IF batch' = {} THEN "check" ELSE "handle"
    BY <1>12 DEF Advance
  <2>5. UNCHANGED <<config, posted, forgotten, proc, handled, repeats, answered, deaths>>
    BY <1>12 DEF Advance
  <2>6. loop' \in {"handle", "advance"} <=> batch' # {}
    BY <2>4
  <2>7. proc' \notin {"down", "failed"}
    BY <1>12, <2>5 DEF Advance
  <2> QED
    BY <2>3, <2>4, <2>5, <2>6, <2>7
<1>13. CASE UNCHANGED vars
  BY <1>13 DEF vars
<1> QED
  BY <1>1, <1>2, <1>3, <1>4, <1>5, <1>6, <1>7, <1>8, <1>9, <1>10, <1>11, <1>12, <1>13
     DEF Next, LoopStep

\* Type correctness: among the rest, the loop goes through a response exactly
\* while one with updates left is in hand.
THEOREM TypeCorrect == Spec => []TypeOK
<1>1. Init => TypeOK
  BY TypeInit
<1>2. TypeOK /\ [Next]_vars => TypeOK'
  BY TypeStep
<1> QED
  BY <1>1, <1>2, PTL DEF Spec

-----------------------------------------------------------------------------
LEMMA PollInit == Init => PollInv
<1> SUFFICES ASSUME Init PROVE PrefixInv(0) /\ BatchInv(0)
  BY DEF PollInv
<1> QED
  BY ConstantsAssumption DEF Init, PrefixInv, BatchInv, Updates, Current

\* The updates of a response have no gap and start right after the prefix.
LEMMA WindowContinues ==
  ASSUME TypeOK, NEW p \in Nat, PrefixInv(p), next <= forgotten + 1
  PROVE  /\ \A u, v \in Window : \A w \in Updates : u <= w /\ w <= v => w \in Window
         /\ \A u \in Window : (\A v \in Window : u <= v) => u <= p + 1
<1> USE ConstantsAssumption DEF TypeOK, Updates, Window, PrefixInv
<1>1. \A u, v \in Window : \A w \in Updates : u <= w /\ w <= v => w \in Window
  OBVIOUS
<1>2. ASSUME NEW u \in Window, \A v \in Window : u <= v PROVE u <= p + 1
  <2>1. forgotten + 1 \in Window
    BY <1>2
  <2> QED
    BY <1>2, <2>1
<1> QED
  BY <1>1, <1>2

\* A step extends the handled prefix by at most the current update, and keeps
\* the rest of the invariant.
LEMMA PollStep ==
  ASSUME TypeOK, TypeOK', NEW p \in Nat, PrefixInv(p), BatchInv(p), [Next]_vars
  PROVE  \E q \in {p, p + 1} :
           /\ PrefixInv(q)' /\ BatchInv(q)'
           /\ q = p + 1 => posted' = posted /\ forgotten' = forgotten
<1> USE ConstantsAssumption DEF TypeOK, Updates, server, record, PrefixInv, BatchInv, Current
<1>1. CASE Post
  BY <1>1 DEF Post
<1>2. CASE Start
  <2>1. next' \in {0, file}
    BY <1>2, Zenon DEF Start, StoredOffset
  <2> QED
    BY <1>2, <2>1 DEF Start, StoredOffset
<1>3. CASE StartFails
  BY <1>3 DEF StartFails
<1>4. CASE Stop
  BY <1>4 DEF Stop
<1>5. CASE Die
  BY <1>5 DEF Die
<1>6. CASE LoopExit
  BY <1>6 DEF LoopExit
<1>7. CASE Request
  BY <1>7 DEF Request
<1>8. CASE Respond
  <2>1. next <= forgotten + 1
    BY <1>8 DEF Respond
  <2>2. /\ \A u, v \in Window : \A w \in Updates : u <= w /\ w <= v => w \in Window
        /\ \A u \in Window : (\A v \in Window : u <= v) => u <= p + 1
    BY <2>1, WindowContinues
  <2>3. PrefixInv(p)'
    BY <1>8 DEF Respond
  <2>4. BatchInv(p)'
    BY <1>8, <2>2 DEF Respond
  <2>5. posted' = posted /\ forgotten' = forgotten
    BY <1>8 DEF Respond
  <2> QED
    BY <2>3, <2>4, <2>5
<1>9. CASE RequestFails
  BY <1>9 DEF RequestFails
<1>10. CASE WakeUp
  BY <1>10 DEF WakeUp
<1>11. CASE Handle
  <2>1. PICK u \in batch : Current(u) /\ handled' = handled \cup {u}
    BY <1>11 DEF Handle
  <2>2. u <= p + 1
    BY <2>1
  <2> DEFINE q == IF u = p + 1 THEN p + 1 ELSE p
  <2>3. PrefixInv(q)'
    BY <1>11, <2>1, <2>2 DEF Handle
  <2>4. BatchInv(q)'
    BY <1>11, <2>1, <2>2 DEF Handle
  <2> QED
    BY <1>11, <2>3, <2>4 DEF Handle
<1>12. CASE Advance
  <2>1. PICK u \in batch : Current(u) /\ next' = u + 1 /\ batch' = batch \ {u}
    BY <1>12 DEF Advance
  <2>2. u <= p
    BY <1>12, <2>1 DEF Advance
  <2>6. file' \in {file, next'}
    BY <1>12, Zenon DEF Advance, Persist
  <2>3. PrefixInv(p)'
    BY <1>12, <2>1, <2>2, <2>6 DEF Advance
  <2>4. ASSUME NEW v \in batch', \A w \in batch' : v <= w PROVE v <= u + 1
    <3>1. CASE u + 1 \in batch'
      BY <2>4, <3>1
    <3>2. CASE u + 1 \notin batch'
      <4>1. u + 1 \notin batch /\ v \in batch /\ u \in Nat /\ v \in Nat
        BY <2>1, <2>4, <3>2
      <4>2. v > u + 1 => u + 1 \in Updates
        BY <4>1
      <4>3. v > u + 1 => u + 1 \in batch
        BY <2>1, <4>1, <4>2
      <4> QED
        BY <4>1, <4>3
    <3> QED
      BY <3>1, <3>2
  <2>5. BatchInv(p)'
    BY <1>12, <2>1, <2>2, <2>4 DEF Advance
  <2> QED
    BY <1>12, <2>3, <2>5 DEF Advance
<1>13. CASE UNCHANGED vars
  BY <1>13 DEF vars
<1> QED
  BY <1>1, <1>2, <1>3, <1>4, <1>5, <1>6, <1>7, <1>8, <1>9, <1>10, <1>11, <1>12, <1>13
     DEF Next, LoopStep

LEMMA PollInductive == TypeOK /\ TypeOK' /\ PollInv /\ [Next]_vars => PollInv'
<1> SUFFICES ASSUME TypeOK, TypeOK', PollInv, [Next]_vars PROVE PollInv'
  OBVIOUS
<1>1. PICK p \in Nat : PrefixInv(p) /\ BatchInv(p)
  BY DEF PollInv
<1>2. PICK q \in {p, p + 1} : PrefixInv(q)' /\ BatchInv(q)'
  BY <1>1, PollStep
<1> QED
  BY <1>2 DEF PollInv

\* No update is skipped: the offsets the bot sends or has written, and the
\* updates the Bot API has been told to forget, stay within what handleUpdate
\* has seen, for any number of updates, any page size and any deaths.
THEOREM NoUpdateSkipped == Spec => []OffsetNeverSkips
<1>1. TypeOK /\ PollInv => OffsetNeverSkips
  BY ConstantsAssumption DEF PollInv, PrefixInv, OffsetNeverSkips, TypeOK, Updates
<1> QED
  BY <1>1, PollInit, PollInductive, TypeCorrect, PTL DEF Spec

-----------------------------------------------------------------------------
\* The refinement mapping names the one handled prefix.
LEMMA ProcessedIsPrefix ==
  ASSUME TypeOK, NEW p \in Nat, PrefixInv(p) PROVE processed = p
<1>1. ASSUME NEW q \in 0..posted, \A u \in Updates : u \in handled <=> u <= q
      PROVE  q = p
  BY <1>1, ConstantsAssumption DEF TypeOK, Updates, PrefixInv
<1> QED
  BY <1>1 DEF processed, PrefixInv

LEMMA DeliveryInit == Init => Delivery!Init
<1> SUFFICES ASSUME Init PROVE Delivery!Init
  OBVIOUS
<1>1. TypeOK /\ PrefixInv(0)
  BY TypeInit, ConstantsAssumption DEF Init, PrefixInv, Updates
<1> QED
  BY <1>1, ProcessedIsPrefix DEF Init, Delivery!Init

LEMMA DeliveryStep ==
  TypeOK /\ TypeOK' /\ PollInv /\ [Next]_vars => [Delivery!Next]_(Delivery!vars)
<1> SUFFICES ASSUME TypeOK, TypeOK', PollInv, [Next]_vars
             PROVE  [Delivery!Next]_(Delivery!vars)
  OBVIOUS
<1>1. PICK p \in Nat : PrefixInv(p) /\ BatchInv(p)
  BY DEF PollInv
<1>2. PICK q \in {p, p + 1} :
        /\ PrefixInv(q)'
        /\ q = p + 1 => posted' = posted /\ forgotten' = forgotten
  BY <1>1, PollStep
<1>3. processed = p
  BY <1>1, ProcessedIsPrefix
<1>4. processed' = q
  <2>1. ASSUME NEW r \in 0..posted', \A u \in Updates : u \in handled' <=> u <= r
        PROVE  r = q
    <3>1. q \in 0..posted' /\ posted' \in 0..MaxUpdates
      BY <1>2 DEF PrefixInv, TypeOK
    <3>2. \A u \in Updates : u \in handled' <=> u <= q
      BY <1>2 DEF PrefixInv, Updates
    <3>3. \A u \in Updates : u <= r <=> u <= q
      BY <2>1, <3>2
    <3>4. r \in Nat /\ q \in Nat /\ r <= MaxUpdates /\ q <= MaxUpdates
      BY <2>1, <3>1, ConstantsAssumption
    <3>5. r > 0 => r <= q
      BY <3>3, <3>4, ConstantsAssumption DEF Updates
    <3>6. q > 0 => q <= r
      BY <3>3, <3>4, ConstantsAssumption DEF Updates
    <3> QED
      BY <3>4, <3>5, <3>6
  <2> QED
    BY <1>2, <2>1 DEF processed, PrefixInv
<1>5. CASE q = p + 1
  BY <1>1, <1>2, <1>3, <1>4, <1>5
     DEF PrefixInv, TypeOK, Delivery!Next, Delivery!Process
<1>6. CASE q = p /\ Post
  BY <1>3, <1>4, <1>6 DEF Post, server, Delivery!Next, Delivery!Post
<1>7. CASE q = p /\ Request
  BY <1>1, <1>3, <1>4, <1>7
     DEF Request, PrefixInv, TypeOK, Delivery!Next, Delivery!Forget
<1>8. CASE q = p /\ ~Post /\ ~Request
  <2>1. posted' = posted /\ forgotten' = forgotten
    BY <1>8 DEF Next, LoopStep, Start, StoredOffset, StartFails, Stop, Die, LoopExit, Respond,
       RequestFails, WakeUp, Handle, Advance, server, vars
  <2> QED
    BY <1>3, <1>4, <1>8, <2>1 DEF Delivery!vars
<1> QED
  BY <1>2, <1>5, <1>6, <1>7, <1>8

\* Long polling with a persisted offset implements in-order, at-least-once
\* delivery (InboundDelivery), whatever fails and however often it restarts.
THEOREM PollingDelivers == Spec => DeliverySpec
<1>1. Spec => [](TypeOK /\ PollInv)
  BY PollInit, PollInductive, TypeCorrect, PTL DEF Spec
<1>2. Spec => Delivery!Init /\ [][Delivery!Next]_(Delivery!vars)
  BY <1>1, DeliveryInit, DeliveryStep, PTL DEF Spec
<1> QED
  BY <1>2 DEF DeliverySpec, Delivery!Spec
-----------------------------------------------------------------------------
(* How often an update is handled again, and how many are left unanswered. *)

LEMMA MinimalNat ==
  ASSUME NEW S \in SUBSET Nat, S # {}
  PROVE  \E n \in S : \A m \in S : n <= m
<1>1. PICK n \in S : \A m \in S : <<m, n>> \notin OpToRel(<, Nat)
  BY WFMin, NatLessThanWellFounded, Zenon
<1>2. \A m \in S : n \in Nat /\ m \in Nat /\ ~(m < n)
  BY <1>1 DEF OpToRel
<1> QED
  BY <1>2

LEMMA CurrentExists == ASSUME TypeOK, batch # {} PROVE \E u \in batch : Current(u)
<1>1. batch \in SUBSET Nat
  BY DEF TypeOK
<1> QED
  BY <1>1, MinimalNat DEF Current

\* The response in hand, and all that was handled, is within reach of one
\* response from what the Bot API has been told to forget.
ReachInv ==
  /\ \A u \in batch : forgotten < u /\ u <= forgotten + Limit
  /\ \A u \in handled : u <= forgotten + Limit
  /\ proc = "down" => next = 0

\* The update id up to which the Bot API will have forgotten after the next request.
Confirmed == IF next > forgotten + 1 THEN next - 1 ELSE forgotten

\* This life of the process handles no update up to c any more.
Past(c) ==
  /\ \A u \in batch : c < u \/ (loop = "advance" /\ c = u)
  /\ batch = {} => c <= Confirmed

\* Each repeat brings the process nearer to the end of the handled prefix,
\* which a death takes it away from by one response at most.
RepeatInv(p) == \E c \in 0..p : Past(c) /\ repeats + p <= deaths * Limit + c

\* The last update the offset file says is done.
Saved == IF file = 0 THEN 0 ELSE file - 1

\* The same with an offset file: a death takes it away by one update at most.
FileInv(p) ==
  config.file /\ ~config.faulty =>
    /\ proc \in {"up", "stopping"} => next = file
    /\ \A u \in batch : Saved < u
    /\ repeats + p <= deaths + Saved + (IF loop = "advance" THEN 1 ELSE 0)

\* While the process is stopping, what is in hand may be added to what was
\* left unanswered.
AnswerInv ==
  /\ proc # "stopping" => Cardinality(handled \ answered) <= Limit * deaths
  /\ proc = "stopping" => Cardinality((handled \ answered) \cup batch) <= Limit * (deaths + 1)

CountInv == ReachInv /\ AnswerInv /\ \E p \in Nat : PrefixInv(p) /\ BatchInv(p) /\ RepeatInv(p) /\ FileInv(p)

LEMMA Times == ASSUME NEW n \in Nat PROVE (n + 1) * Limit = n * Limit + Limit /\ n * Limit \in Nat
BY ConstantsAssumption

LEMMA ReachStep ==
  ASSUME TypeOK, TypeOK', ReachInv, NEW p \in Nat, PrefixInv(p), BatchInv(p), [Next]_vars
  PROVE  ReachInv'
<1> USE ConstantsAssumption DEF TypeOK, Updates, server, record, ReachInv
<1>1. CASE Start \/ StartFails \/ Stop \/ Post \/ Die \/ LoopExit \/ WakeUp \/ RequestFails \/ UNCHANGED vars
  BY <1>1 DEF Start, StartFails, Stop, Post, Die, LoopExit, WakeUp, RequestFails, vars
<1>2. CASE Request
  <2>1. batch = {} /\ forgotten' >= forgotten /\ UNCHANGED <<batch, handled, proc, next>>
    BY <1>2 DEF Request
  <2> QED
    BY <1>2, <2>1 DEF Request
<1>3. CASE Respond
  BY <1>3 DEF Respond, Window
<1>4. CASE Handle
  BY <1>4 DEF Handle
<1>5. CASE Advance
  BY <1>5 DEF Advance
<1> QED
  BY <1>1, <1>2, <1>3, <1>4, <1>5 DEF Next, LoopStep

\* Only Handle extends the prefix, and only with an update not handled before.
LEMMA PrefixMoves ==
  ASSUME TypeOK, TypeOK', NEW p \in Nat, NEW q \in {p, p + 1}, PrefixInv(p), PrefixInv(q)', [Next]_vars
  PROVE  \/ ~Handle /\ q = p /\ UNCHANGED <<handled, repeats, answered>>
         \/ /\ Handle
            /\ loop = "handle" /\ loop' = "advance" /\ UNCHANGED <<config, server, proc, batch, next, file, deaths>>
            /\ \E u \in batch :
                 /\ Current(u) /\ handled' = handled \cup {u}
                 /\ answered' = IF proc = "up" THEN answered \cup {u} ELSE answered
                 /\ \/ q = p /\ u <= p /\ repeats' = repeats + 1
                    \/ q = p + 1 /\ u = p + 1 /\ repeats' = repeats
<1> USE ConstantsAssumption DEF TypeOK, Updates, PrefixInv
<1>1. CASE Handle
  <2>1. PICK u \in batch : /\ Current(u) /\ handled' = handled \cup {u}
                           /\ answered' = IF proc = "up" THEN answered \cup {u} ELSE answered
                           /\ repeats' = IF u \in handled THEN repeats + 1 ELSE repeats
    BY <1>1 DEF Handle
  <2>2. u \in Updates /\ posted' = posted /\ u \in handled' /\ p \in 0..MaxUpdates
    BY <1>1, <2>1 DEF Handle, server
  <2>3. u <= q /\ (u \in handled <=> u <= p)
    BY <2>2
  <2>4. CASE u <= p
    <3>1. handled' = handled
      BY <2>1, <2>3, <2>4
    <3>2. q # p + 1
      BY <2>2, <3>1
    <3> QED
      BY <1>1, <2>1, <2>3, <2>4, <3>2 DEF Handle
  <2>5. CASE u > p
    <3>1. q = p + 1 /\ u = p + 1 /\ repeats' = repeats
      BY <2>1, <2>2, <2>3, <2>5
    <3> QED
      BY <1>1, <2>1, <3>1 DEF Handle
  <2> QED
    BY <2>2, <2>4, <2>5
<1>2. CASE ~Handle
  <2>1. UNCHANGED <<handled, repeats, answered>>
    BY <1>2 DEF Next, LoopStep, Post, Start, StoredOffset, StartFails, Stop, Die, LoopExit, Request, Respond,
       RequestFails, WakeUp, Advance, record, vars
  <2>2. q # p + 1
    <3> SUFFICES ASSUME q = p + 1 PROVE FALSE
      OBVIOUS
    <3>1. q \in Updates
      OBVIOUS
    <3>2. q \in handled'
      BY <3>1
    <3> QED
      BY <2>1, <3>1, <3>2
  <2> QED
    BY <1>2, <2>1, <2>2
<1> QED
  BY <1>1, <1>2

LEMMA RepeatStep ==
  ASSUME TypeOK, TypeOK', ReachInv, NEW p \in Nat, PrefixInv(p), BatchInv(p), RepeatInv(p),
         NEW q \in {p, p + 1}, PrefixInv(q)', BatchInv(q)', [Next]_vars
  PROVE  RepeatInv(q)'
<1> USE DEF Past, Confirmed
<1>1. PICK c \in 0..p : Past(c) /\ repeats + p <= deaths * Limit + c
  BY DEF RepeatInv
<1>2. /\ next \in Nat /\ forgotten \in Nat /\ Limit \in Nat /\ c \in Nat /\ deaths \in Nat
      /\ batch \subseteq Nat /\ repeats \in Nat
      /\ next' \in Nat /\ forgotten' \in Nat /\ posted \in Nat /\ file \in Nat
  BY ConstantsAssumption DEF TypeOK
<1>3. ASSUME ~Die, UNCHANGED repeats, q = p, Past(c)' PROVE RepeatInv(q)'
  <2>1. deaths' = deaths
    BY <1>3 DEF Next, LoopStep, Post, Start, StartFails, Stop, LoopExit, Request, Respond,
       RequestFails, WakeUp, Handle, Advance, vars
  <2> QED
    BY <1>1, <1>3, <2>1 DEF RepeatInv
<1>4. CASE Handle
  <2>1. PICK u \in batch :
          /\ Current(u) /\ loop = "handle" /\ loop' = "advance" /\ UNCHANGED <<batch, next, forgotten, deaths>>
          /\ \/ q = p /\ u <= p /\ repeats' = repeats + 1
             \/ q = p + 1 /\ u = p + 1 /\ repeats' = repeats
    BY <1>4, PrefixMoves DEF server
  <2>2. c < u /\ u \in Nat
    BY <1>1, <1>2, <2>1
  <2>3. Past(c + 1)'
    BY <1>1, <1>2, <2>1
  <2>4. c + 1 \in 0..q /\ repeats' + q <= deaths * Limit + (c + 1)
    BY <1>1, <1>2, <2>1, <2>2, Times
  <2> QED
    BY <2>1, <2>3, <2>4 DEF RepeatInv
<1>5. CASE Die
  <2>1. q = p /\ repeats' = repeats /\ deaths' = deaths + 1 /\ batch' = {} /\ next' = 0 /\ forgotten' = forgotten
    <3>1. ~Handle
      BY <1>5 DEF Die, Handle
    <3> QED
      BY <1>5, <3>1, PrefixMoves DEF Die, server
  <2>2. Past(forgotten)'
    BY <1>2, <2>1
  <2>3. p <= forgotten + Limit
    <3>1. p > 0 => p \in handled
      BY ConstantsAssumption DEF PrefixInv, TypeOK, Updates
    <3> QED
      BY <1>2, <3>1 DEF ReachInv
  <2>4. forgotten \in 0..p
    BY <1>2 DEF PrefixInv
  <2>5. (deaths + 1) * Limit = deaths * Limit + Limit /\ deaths * Limit \in Nat
    BY <1>2, Times
  <2>6. repeats' + q <= deaths' * Limit + forgotten
    BY <1>1, <1>2, <2>1, <2>3, <2>5
  <2> QED
    BY <2>1, <2>2, <2>4, <2>6 DEF RepeatInv
<1>6. CASE ~Handle /\ ~Die
  <2>1. q = p /\ UNCHANGED repeats
    BY <1>6, PrefixMoves
  <2>2. Past(c)'
    <3>1. CASE Post \/ StartFails \/ Stop \/ LoopExit \/ RequestFails \/ WakeUp \/ UNCHANGED vars
      <4>1. UNCHANGED <<batch, next, forgotten>> /\ (loop' = "advance" <=> loop = "advance")
        BY <3>1 DEF Post, StartFails, Stop, LoopExit, RequestFails, WakeUp, vars, server
      <4> QED
        BY <1>1, <4>1
    <3>2. CASE Start
      BY <1>1, <1>2, <3>2 DEF Start, TypeOK, ReachInv, server
    <3>3. CASE Request
      BY <1>1, <1>2, <3>3 DEF Request, TypeOK
    <3>4. CASE Respond
      <4>1. c <= forgotten /\ batch' = Window /\ UNCHANGED <<next, forgotten>>
        BY <1>1, <1>2, <3>4 DEF Respond, BatchInv, TypeOK, server
      <4>2. \A u \in Window : c < u
        BY <1>2, <4>1 DEF Window
      <4> QED
        BY <1>2, <4>1, <4>2
    <3>5. CASE Advance
      <4>1. PICK u \in batch : Current(u) /\ next' = u + 1 /\ batch' = batch \ {u}
        BY <3>5 DEF Advance
      <4>2. c <= u /\ \A v \in batch' : c < v
        BY <1>1, <1>2, <4>1 DEF Current
      <4>3. forgotten' = forgotten /\ forgotten < u
        BY <3>5, <4>1 DEF Advance, server, ReachInv
      <4> QED
        BY <1>2, <4>1, <4>2, <4>3
    <3> QED
      BY <1>6, <3>1, <3>2, <3>3, <3>4, <3>5 DEF Next, LoopStep
  <2> QED
    BY <1>3, <1>6, <2>1, <2>2
<1> QED
  BY <1>4, <1>5, <1>6

LEMMA FileStep ==
  ASSUME TypeOK, TypeOK', ReachInv, NEW p \in Nat, PrefixInv(p), BatchInv(p), FileInv(p),
         NEW q \in {p, p + 1}, PrefixInv(q)', BatchInv(q)', [Next]_vars
  PROVE  FileInv(q)'
<1> SUFFICES ASSUME (config.file /\ ~config.faulty)' PROVE FileInv(q)'
  BY DEF FileInv
<1> USE DEF Saved
<1>1. config' = config
  BY DEF Next, LoopStep, Post, Start, StartFails, Stop, Die, LoopExit, Request, Respond,
     RequestFails, WakeUp, Handle, Advance, vars
<1>2. /\ config.file /\ ~config.faulty
      /\ proc \in {"up", "stopping"} => next = file
      /\ \A u \in batch : Saved < u
      /\ repeats + p <= deaths + Saved + (IF loop = "advance" THEN 1 ELSE 0)
  BY <1>1 DEF FileInv
<1>3. /\ next \in Nat /\ forgotten \in Nat /\ deaths \in Nat /\ batch \subseteq 1..posted
      /\ repeats \in Nat /\ file \in Nat /\ posted \in Nat
  BY ConstantsAssumption DEF TypeOK
<1>4. CASE Handle
  <2>1. PICK u \in batch :
          /\ loop = "handle" /\ loop' = "advance" /\ UNCHANGED <<batch, next, file, proc, deaths>>
          /\ \/ q = p /\ u <= p /\ repeats' = repeats + 1
             \/ q = p + 1 /\ u = p + 1 /\ repeats' = repeats
    BY <1>4, PrefixMoves DEF server
  <2> QED
    BY <1>2, <1>3, <2>1 DEF FileInv
<1>5. CASE ~Handle
  <2>1. q = p /\ UNCHANGED repeats
    BY <1>5, PrefixMoves
  <2>2. CASE Post \/ StartFails \/ Stop \/ LoopExit \/ Request \/ RequestFails \/ WakeUp \/ UNCHANGED vars
    <3>1. /\ UNCHANGED <<batch, next, file, deaths>> /\ (loop' = "advance" <=> loop = "advance")
          /\ proc' \in {"up", "stopping"} => proc \in {"up", "stopping"}
      BY <2>2 DEF Post, StartFails, Stop, LoopExit, Request, RequestFails, WakeUp, vars
    <3> QED
      BY <1>2, <1>3, <2>1, <3>1 DEF FileInv
  <2>3. CASE Start
    <3>1. next' = file
      BY <1>2, <2>3 DEF Start, StoredOffset
    <3> QED
      BY <1>2, <1>3, <2>1, <2>3, <3>1 DEF Start, FileInv, TypeOK
  <2>4. CASE Die
    BY <1>2, <1>3, <2>1, <2>4 DEF Die, FileInv
  <2>5. CASE Respond
    <3>1. \A u \in Window : Saved < u
      BY <1>2, <1>3, <2>5 DEF Respond, Window
    <3> QED
      BY <1>2, <1>3, <2>1, <2>5, <3>1 DEF Respond, FileInv
  <2>6. CASE Advance
    <3>1. PICK u \in batch : Current(u) /\ next' = u + 1 /\ batch' = batch \ {u}
      BY <2>6 DEF Advance
    <3>2. file' = u + 1
      BY <1>2, <2>6, <3>1 DEF Advance, Persist
    <3>3. /\ u \in Nat /\ Saved < u /\ loop = "advance" /\ loop' # "advance" /\ deaths' = deaths
      BY <1>2, <1>3, <2>6, <3>1 DEF Advance
    <3>4. \A v \in batch' : u < v
      BY <1>3, <3>1 DEF Current
    <3>5. Saved' = u
      BY <3>2, <3>3
    <3> QED
      BY <1>2, <1>3, <2>1, <3>1, <3>2, <3>3, <3>4, <3>5 DEF FileInv
  <2> QED
    BY <1>5, <2>2, <2>3, <2>4, <2>5, <2>6 DEF Next, LoopStep
<1> QED
  BY <1>4, <1>5

-----------------------------------------------------------------------------
LEMMA FiniteUpdates ==
  ASSUME NEW S, S \subseteq Updates
  PROVE  IsFiniteSet(S) /\ Cardinality(S) \in Nat
<1>1. IsFiniteSet(Updates)
  BY ConstantsAssumption, FS_Interval DEF Updates
<1> QED
  BY <1>1, FS_Subset, FS_CardinalityType

LEMMA AnswerStep ==
  ASSUME TypeOK, TypeOK', ReachInv, AnswerInv, NEW p \in Nat, PrefixInv(p),
         NEW q \in {p, p + 1}, PrefixInv(q)', [Next]_vars
  PROVE  AnswerInv'
<1> DEFINE U == handled \ answered
<1>1. /\ U \cup batch \subseteq Updates /\ U' \cup batch' \subseteq Updates /\ batch \subseteq Nat
      /\ forgotten \in Nat /\ deaths \in Nat /\ Limit \in Nat \ {0} /\ Updates \subseteq Nat
  BY ConstantsAssumption DEF TypeOK, Updates
<1>2. /\ \A S, T \in SUBSET Updates : S \subseteq T => Cardinality(S) <= Cardinality(T)
      /\ \A S \in SUBSET Updates : Cardinality(S) \in Nat
  <2>1. ASSUME NEW S \in SUBSET Updates, NEW T \in SUBSET Updates, S \subseteq T
        PROVE  Cardinality(S) <= Cardinality(T)
    BY <2>1, FiniteUpdates, FS_Subset
  <2> QED
    BY <2>1, FiniteUpdates
<1>3. Limit * (deaths + 1) = Limit * deaths + Limit /\ Limit * deaths \in Nat
  BY <1>1, Times
<1>4. ASSUME proc = "up" PROVE Cardinality(U \cup batch) <= Limit * (deaths + 1)
  <2>1. Cardinality(batch) <= Limit
    <3>1. Cardinality(forgotten + 1..forgotten + Limit) = Limit /\ IsFiniteSet(forgotten + 1..forgotten + Limit)
      <4>1. forgotten + 1 \in Int /\ forgotten + Limit \in Int
        BY <1>1
      <4>2. Cardinality(forgotten + 1..forgotten + Limit) =
              IF forgotten + 1 > forgotten + Limit THEN 0 ELSE (forgotten + Limit) - (forgotten + 1) + 1
        BY <4>1, FS_Interval, Zenon
      <4> QED
        BY <1>1, <4>1, <4>2, FS_Interval
    <3>2. batch \subseteq forgotten + 1..forgotten + Limit
      BY <1>1 DEF ReachInv
    <3> QED
      BY <3>1, <3>2, FS_Subset
  <2>2. Cardinality(U \cup batch) <= Cardinality(U) + Cardinality(batch)
    <3>1. IsFiniteSet(U) /\ IsFiniteSet(batch)
      BY <1>1, FiniteUpdates
    <3>2. Cardinality(U \cap batch) \in Nat /\ Cardinality(U) \in Nat /\ Cardinality(batch) \in Nat
      BY <1>1, <1>2
    <3> QED
      BY <3>1, <3>2, FS_Union
  <2>3. Cardinality(U) <= Limit * deaths
    BY <1>4 DEF AnswerInv
  <2> QED
    BY <1>1, <1>2, <1>3, <2>1, <2>2, <2>3
<1>5. CASE Handle
  <2>1. PICK u \in batch : /\ handled' = handled \cup {u}
                           /\ answered' = IF proc = "up" THEN answered \cup {u} ELSE answered
                           /\ UNCHANGED <<proc, batch, deaths>>
    BY <1>5 DEF Handle
  <2>2. proc \in {"up", "stopping"}
    BY <1>5 DEF Handle, TypeOK
  <2>3. CASE proc = "up"
    <3>1. U' \subseteq U
      BY <2>1, <2>3
    <3>2. Cardinality(U') <= Cardinality(U) /\ Cardinality(U') \in Nat /\ Cardinality(U) \in Nat
      BY <1>1, <1>2, <3>1
    <3> QED
      BY <1>3, <2>1, <2>3, <3>2 DEF AnswerInv
  <2>4. CASE proc = "stopping"
    <3>1. U' \cup batch' \subseteq U \cup batch
      BY <2>1, <2>4
    <3>2. /\ Cardinality(U' \cup batch') <= Cardinality(U \cup batch)
          /\ Cardinality(U' \cup batch') \in Nat /\ Cardinality(U \cup batch) \in Nat
      BY <1>1, <1>2, <3>1
    <3> QED
      BY <1>3, <2>1, <2>4, <3>2 DEF AnswerInv
  <2> QED
    BY <2>2, <2>3, <2>4
<1>6. CASE ~Handle
  <2>1. U' = U
    BY <1>6, PrefixMoves
  <2>2. CASE proc' = proc /\ proc # "stopping" /\ deaths' = deaths
    BY <2>1, <2>2 DEF AnswerInv
  <2>3. CASE proc' = proc /\ proc = "stopping" /\ deaths' = deaths
    <3>1. batch' \subseteq batch
      BY <1>6, <2>3 DEF Next, LoopStep, Post, Start, StartFails, Stop, Die, LoopExit, Request, Respond,
         RequestFails, WakeUp, Advance, vars
    <3>2. U' \cup batch' \subseteq U \cup batch
      BY <2>1, <3>1
    <3>3. /\ Cardinality(U' \cup batch') <= Cardinality(U \cup batch)
          /\ Cardinality(U' \cup batch') \in Nat /\ Cardinality(U \cup batch) \in Nat
      BY <1>1, <1>2, <3>2
    <3>4. Cardinality(U \cup batch) <= Limit * (deaths + 1)
      BY <2>3 DEF AnswerInv
    <3>5. Cardinality(U' \cup batch') <= Limit * (deaths + 1)
      BY <1>1, <1>3, <3>3, <3>4
    <3> QED
      BY <2>3, <3>5 DEF AnswerInv
  <2>4. CASE Start \/ StartFails
    <3>1. proc # "stopping" /\ proc' # "stopping" /\ deaths' = deaths
      BY <2>4 DEF Start, StartFails
    <3> QED
      BY <2>1, <3>1 DEF AnswerInv
  <2>5. CASE Stop
    BY <1>4, <2>1, <2>5 DEF Stop, AnswerInv
  <2>6. CASE Die
    <3>1. Cardinality(U) <= Limit * deaths \/ Cardinality(U \cup batch) <= Limit * (deaths + 1)
      BY DEF AnswerInv
    <3>2. Cardinality(U) <= Cardinality(U \cup batch) /\ Cardinality(U) \in Nat /\ Cardinality(U \cup batch) \in Nat
      BY <1>1, <1>2
    <3>3. Cardinality(U) <= Limit * (deaths + 1)
      BY <1>1, <1>3, <3>1, <3>2
    <3> QED
      BY <2>1, <2>6, <3>3 DEF Die, AnswerInv
  <2> QED
    BY <1>6, <2>2, <2>3, <2>4, <2>5, <2>6 DEF Next, LoopStep, Post, LoopExit, Request, Respond,
       RequestFails, WakeUp, Advance, vars
<1> QED
  BY <1>5, <1>6

LEMMA CountInductive == TypeOK /\ TypeOK' /\ CountInv /\ [Next]_vars => CountInv'
<1> SUFFICES ASSUME TypeOK, TypeOK', CountInv, [Next]_vars PROVE CountInv'
  OBVIOUS
<1>1. PICK p \in Nat : PrefixInv(p) /\ BatchInv(p) /\ RepeatInv(p) /\ FileInv(p)
  BY DEF CountInv
<1>2. PICK q \in {p, p + 1} : PrefixInv(q)' /\ BatchInv(q)'
  BY <1>1, PollStep
<1>3. ReachInv' /\ AnswerInv' /\ RepeatInv(q)' /\ FileInv(q)'
  BY <1>1, <1>2, ReachStep, AnswerStep, RepeatStep, FileStep DEF CountInv
<1> QED
  BY <1>2, <1>3 DEF CountInv

LEMMA CountInit == Init => CountInv
<1> SUFFICES ASSUME Init PROVE CountInv
  OBVIOUS
<1> USE ConstantsAssumption DEF Init
<1>1. PrefixInv(0) /\ BatchInv(0)
  BY DEF PrefixInv, BatchInv, Updates, Current
<1>2. ReachInv /\ RepeatInv(0) /\ FileInv(0)
  <2>1. Past(0) /\ 0 * Limit = 0
    BY DEF Past, Confirmed
  <2> QED
    BY <2>1 DEF ReachInv, RepeatInv, FileInv, Saved
<1>3. AnswerInv
  BY FS_EmptySet DEF AnswerInv
<1> QED
  BY <1>1, <1>2, <1>3 DEF CountInv

LEMMA Counted == Spec => [](TypeOK /\ CountInv)
BY CountInit, CountInductive, TypeCorrect, PTL DEF Spec

\* An update is handled again at most once for each death while the offset file
\* works, and at most a response's worth of times for each death if it does not.
THEOREM RepeatsAreFew == Spec => []RepeatsBounded
<1>1. ASSUME TypeOK, CountInv PROVE RepeatsBounded
  <2>1. PICK p \in Nat : PrefixInv(p) /\ BatchInv(p) /\ RepeatInv(p) /\ FileInv(p)
    BY <1>1 DEF CountInv
  <2>2. repeats \in Nat /\ deaths \in Nat /\ file \in Nat /\ batch \subseteq 1..posted /\ posted \in Nat
    BY <1>1, ConstantsAssumption DEF TypeOK
  <2>3. CASE config.file /\ ~config.faulty
    <3>1. repeats + p <= deaths + Saved + (IF loop = "advance" THEN 1 ELSE 0)
      BY <2>1, <2>3 DEF FileInv
    <3>2. Saved \in 0..p /\ (loop = "advance" => Saved < p)
      <4>1. Saved \in 0..p
        BY <2>1, <2>2 DEF Saved, PrefixInv
      <4>2. ASSUME loop = "advance" PROVE Saved < p
        <5>1. PICK u \in batch : Current(u)
          BY <1>1, <4>2, CurrentExists DEF TypeOK
        <5>2. Saved < u /\ u <= p
          BY <2>1, <2>3, <4>2, <5>1 DEF FileInv, BatchInv
        <5> QED
          BY <2>2, <4>1, <5>2
      <4> QED
        BY <4>1, <4>2
    <3> QED
      BY <2>2, <2>3, <3>1, <3>2 DEF RepeatsBounded
  <2>4. CASE ~(config.file /\ ~config.faulty)
    <3>1. PICK c \in 0..p : repeats + p <= deaths * Limit + c
      BY <2>1 DEF RepeatInv
    <3>2. deaths * Limit \in Nat
      BY <2>2, Times
    <3>3. repeats <= deaths * Limit
      BY <2>2, <3>1, <3>2
    <3> QED
      BY <2>4, <3>3 DEF RepeatsBounded
  <2> QED
    BY <2>3, <2>4
<1> QED
  BY <1>1, Counted, PTL

\* However many updates are handled after Stop has cancelled the context, they
\* are one response at most for each life of the process.
THEOREM UnansweredAreFew == Spec => []UnansweredBounded
<1>1. ASSUME TypeOK, CountInv PROVE UnansweredBounded
  <2>1. handled \ answered \subseteq Updates /\ batch \subseteq Updates /\ deaths \in Nat
    BY <1>1, ConstantsAssumption DEF TypeOK, Updates
  <2>2. Limit * (deaths + 1) = Limit * deaths + Limit /\ Limit * deaths \in Nat /\ Limit \in Nat
    BY <2>1, Times, ConstantsAssumption
  <2>3. CASE proc # "stopping"
    <3>1. Cardinality(handled \ answered) <= Limit * deaths /\ Cardinality(handled \ answered) \in Nat
      BY <1>1, <2>1, <2>3, FiniteUpdates DEF CountInv, AnswerInv
    <3> QED
      BY <2>2, <3>1 DEF UnansweredBounded
  <2>4. CASE proc = "stopping"
    <3> DEFINE U == handled \ answered
    <3>1. Cardinality(U \cup batch) <= Limit * (deaths + 1)
      BY <1>1, <2>4 DEF CountInv, AnswerInv
    <3>2. IsFiniteSet(U \cup batch) /\ Cardinality(U \cup batch) \in Nat /\ Cardinality(U) \in Nat
      BY <2>1, FiniteUpdates
    <3>3. Cardinality(U) <= Cardinality(U \cup batch)
      BY <3>2, FS_Subset
    <3> QED
      BY <2>2, <3>1, <3>2, <3>3 DEF UnansweredBounded
  <2> QED
    BY <2>3, <2>4
<1> QED
  BY <1>1, Counted, PTL
=============================================================================
