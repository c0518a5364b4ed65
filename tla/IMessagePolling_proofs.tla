------------------------ MODULE IMessagePolling_proofs ------------------------
(***************************************************************************)
(* Proofs about IMessagePolling, for any number of rows, any page size and *)
(* any choice of the rows without text.                                    *)
(***************************************************************************)
EXTENDS IMessagePolling, FiniteSetTheorems, TLAPS

\* Rows beyond the position have not been handled, and those that have are among
\* the ones reached; a goroutine runs only while the bot is up or being stopped.
SeenInv ==
  /\ \A r \in Rows : r > lastSeen => handled[r] = 0
  /\ \A r \in Rows : handled[r] > 0 => r <= reached
  /\ proc \in {"down", "failed", "stopped"} => loop = "none"

IInv == TypeOK /\ SeenInv /\ EachRowOnce

-----------------------------------------------------------------------------
LEMMA InvInit == Init => IInv
BY ConstantsAssumption DEF Init, IInv, TypeOK, SeenInv, EachRowOnce, Rows

LEMMA InvStep == IInv /\ [Next]_vars => IInv'
<1> SUFFICES ASSUME IInv, [Next]_vars PROVE IInv'
  OBVIOUS
<1> USE ConstantsAssumption DEF IInv, TypeOK, SeenInv, EachRowOnce, Rows
<1>1. CASE Arrive
  BY <1>1 DEF Arrive
<1>2. CASE Start
  BY <1>2 DEF Start
<1>3. CASE StartFails
  BY <1>3 DEF StartFails
<1>4. CASE Stop
  BY <1>4 DEF Stop
<1>5. CASE StopReturns
  BY <1>5 DEF StopReturns
<1>6. CASE Die
  BY <1>6 DEF Die
<1>7. CASE Poll
  <2>1. CASE batch' = {}
    BY <1>7, <2>1 DEF Poll
  <2>2. CASE batch' # {}
    <3>1. batch' = Page \ Blank /\ Page \subseteq 1..rows /\ batch = {}
      BY <1>7 DEF Poll, Page
    <3>2. lastSeen' \in batch' /\ \A q \in batch' : q <= lastSeen'
      BY <1>7, <2>2 DEF Poll
    <3>3. \A r \in Rows : r > lastSeen /\ r <= lastSeen' => r \in Page
      BY <3>1, <3>2 DEF Page
    <3>4. UNCHANGED <<rows, proc, handled, reached, deaths>> /\ loop' = "handle" /\ proc = "up"
      BY <1>7, <2>2 DEF Poll
    <3>5. \A r \in batch' : r > lastSeen
      BY <3>1 DEF Page
    <3> QED
      BY <3>1, <3>2, <3>3, <3>4, <3>5
  <2> QED
    BY <2>1, <2>2
<1>8. CASE PollFails
  BY <1>8 DEF PollFails
<1>9. CASE Handle
  <2>1. PICK r \in batch :
          /\ handled' = [handled EXCEPT ![r] = @ + 1] /\ batch' = batch \ {r}
          /\ reached' = IF r > reached THEN r ELSE reached
    BY <1>9 DEF Handle
  <2>2. /\ UNCHANGED <<rows, proc, lastSeen, deaths>>
        /\ loop' = (IF batch' = {} THEN "idle" ELSE "handle") /\ loop = "handle"
    BY <1>9 DEF Handle
  <2>3. handled[r] = 0 /\ r \in Rows /\ r <= lastSeen
    BY <2>1
  <2>7. loop' \in {"idle", "handle"} /\ (batch' # {} => loop' = "handle")
    BY <2>2, Zenon
  <2>8. handled' \in [Rows -> Nat] /\ reached' \in 0..rows /\ batch' \subseteq 1..lastSeen \ Blank
    BY <2>1, <2>3
  <2>4. TypeOK'
    BY <2>2, <2>7, <2>8
  <2>5. SeenInv'
    BY <2>1, <2>2, <2>3
  <2>6. EachRowOnce'
    BY <2>1, <2>2, <2>3
  <2> QED
    BY <2>4, <2>5, <2>6
<1>10. CASE Tick
  BY <1>10 DEF Tick
<1>11. CASE LoopExit
  BY <1>11 DEF LoopExit
<1>12. CASE UNCHANGED vars
  BY <1>12 DEF vars
<1> QED
  BY <1>1, <1>2, <1>3, <1>4, <1>5, <1>6, <1>7, <1>8, <1>9, <1>10, <1>11, <1>12
     DEF Next, LoopStep

LEMMA InvCorrect == Spec => []IInv
<1> QED
  BY InvInit, InvStep, PTL DEF Spec

\* Type correctness; the page in hand lies below the position.
THEOREM TypeCorrect == Spec => []TypeOK
<1>1. IInv => TypeOK
  BY DEF IInv
<1> QED
  BY <1>1, InvCorrect, PTL

\* Within one process every row with text below the position is either in the
\* page in hand or has been handled exactly once.
THEOREM RowsHandledOnce == Spec => []EachRowOnce
<1>1. IInv => EachRowOnce
  BY DEF IInv
<1> QED
  BY <1>1, InvCorrect, PTL

\* Once Stop has returned the goroutine is gone, and with it every call of the
\* message handler.
THEOREM QuietAfterStop == Spec => StoppedIsQuiet
<1>1. IInv /\ [Next]_vars
        => [proc = "stopped" => UNCHANGED <<handled, lastSeen>> \/ proc' = "down"]_vars
  BY DEF IInv, SeenInv, Next, LoopStep, Arrive, Start, StartFails, Stop, StopReturns, Die,
     Poll, PollFails, Handle, Tick, LoopExit, vars
<1> QED
  BY <1>1, InvCorrect, PTL DEF Spec, StoppedIsQuiet

-----------------------------------------------------------------------------
(* Polling implements in-order, at-least-once delivery.                    *)

\* One row more is one message more, if it has text and all rows with text
\* before it are counted already.
LEMMA OneMore ==
  ASSUME NEW m \in Nat, NEW r \in Rows \ Blank, m < r,
         \A t \in Rows \ Blank : m < t => r <= t
  PROVE  Cardinality(1..r \ Blank) = Cardinality(1..m \ Blank) + 1
<1>1. 1..r \ Blank = (1..m \ Blank) \cup {r} /\ r \notin 1..m \ Blank
  BY ConstantsAssumption DEF Rows
<1>2. IsFiniteSet(1..m \ Blank)
  BY FS_Interval, FS_Subset
<1> QED
  BY <1>1, <1>2, FS_AddElement

\* Fewer rows, fewer messages.
LEMMA Fewer ==
  ASSUME NEW m \in Nat, NEW n \in Nat, m <= n
  PROVE  /\ Cardinality(1..m \ Blank) \in Nat /\ Cardinality(1..n \ Blank) \in Nat
         /\ Cardinality(1..m \ Blank) <= Cardinality(1..n \ Blank)
<1>1. IsFiniteSet(1..n) /\ 1..m \ Blank \subseteq 1..n \ Blank /\ 1..n \ Blank \subseteq 1..n
  BY FS_Interval
<1>2. IsFiniteSet(1..n \ Blank)
  BY <1>1, FS_Subset
<1> QED
  BY <1>1, <1>2, FS_Subset, FS_CardinalityType

LEMMA DeliveryInit == Init => Delivery!Init
<1> SUFFICES ASSUME Init PROVE Delivery!Init
  OBVIOUS
<1>1. 1..rows \ Blank = {} /\ 1..reached \ Blank = {}
  BY DEF Init
<1> QED
  BY <1>1, FS_EmptySet DEF Delivery!Init

LEMMA DeliveryStep == IInv /\ IInv' /\ [Next]_vars => [Delivery!Next]_(Delivery!vars)
<1> SUFFICES ASSUME IInv, IInv', [Next]_vars PROVE [Delivery!Next]_(Delivery!vars)
  OBVIOUS
<1> USE DEF Delivery!Next, Delivery!vars
<1>1. rows \in 0..MaxRows /\ MaxRows \in Nat /\ rows \in Nat /\ reached \in Nat /\ reached <= rows
  BY ConstantsAssumption DEF IInv, TypeOK
<1>2. CASE UNCHANGED <<rows, reached>>
  BY <1>2
<1>3. CASE Arrive
  <2>1. rows' = rows + 1 /\ rows' \in Rows /\ reached' = reached /\ rows' <= MaxRows
    BY <1>1, <1>3 DEF Arrive, Rows
  <2>2. CASE rows' \in Blank
    <3>1. 1..rows' \ Blank = 1..rows \ Blank
      BY <1>1, <2>1, <2>2
    <3> QED
      BY <2>1, <3>1
  <2>3. CASE rows' \notin Blank
    <3>1. Cardinality(1..rows' \ Blank) = Cardinality(1..rows \ Blank) + 1
      BY <1>1, <2>1, <2>3, OneMore DEF Rows
    <3>2. /\ Cardinality(1..rows' \ Blank) <= Cardinality(Rows \ Blank)
          /\ Cardinality(1..rows \ Blank) \in Nat /\ Cardinality(Rows \ Blank) \in Nat
      BY <1>1, <2>1, Fewer DEF Rows
    <3> QED
      BY <2>1, <3>1, <3>2 DEF Delivery!Post
  <2> QED
    BY <2>2, <2>3
<1>4. CASE Handle
  <2>1. PICK r \in batch :
          (\A q \in batch : r <= q) /\ reached' = IF r > reached THEN r ELSE reached
    BY <1>4 DEF Handle
  <2>2. rows' = rows /\ r \in Rows \ Blank /\ r <= lastSeen /\ r <= rows /\ r \in Nat
    BY <1>1, <1>4, <2>1 DEF Handle, IInv, TypeOK, Rows
  <2>3. CASE r <= reached
    BY <1>1, <2>1, <2>2, <2>3
  <2>4. CASE reached < r
    <3>1. ASSUME NEW t \in Rows \ Blank, reached < t, ~(r <= t) PROVE FALSE
      <4>1. t <= lastSeen /\ t \notin batch /\ t \in Nat
        BY <2>1, <2>2, <3>1 DEF IInv, TypeOK, Rows
      <4>2. handled[t] > 0
        BY <4>1, <3>1 DEF IInv, EachRowOnce, TypeOK
      <4> QED
        BY <1>1, <3>1, <4>1, <4>2 DEF IInv, SeenInv
    <3>2. reached' = r
      BY <2>1, <2>2, <2>4, <1>1
    <3>3. Cardinality(1..r \ Blank) = Cardinality(1..reached \ Blank) + 1
      BY <1>1, <2>2, <2>4, <3>1, OneMore
    <3>4. /\ Cardinality(1..r \ Blank) <= Cardinality(1..rows \ Blank)
          /\ Cardinality(1..reached \ Blank) \in Nat /\ Cardinality(1..rows \ Blank) \in Nat
      BY <1>1, <2>2, Fewer
    <3> QED
      BY <2>2, <3>2, <3>3, <3>4 DEF Delivery!Process
  <2> QED
    BY <1>1, <2>2, <2>3, <2>4
<1> QED
  BY <1>2, <1>3, <1>4 DEF Next, LoopStep, Start, StartFails, Stop, StopReturns, Die, Poll,
     PollFails, Tick, LoopExit, vars

\* Polling the Messages database implements in-order, at-least-once delivery of
\* the rows with text (InboundDelivery), whatever rows have none and however
\* often the position is lost.
THEOREM PollingDelivers == Spec => DeliverySpec
<1>1. Spec => Delivery!Init /\ [][Delivery!Next]_(Delivery!vars)
  BY InvCorrect, DeliveryInit, DeliveryStep, PTL DEF Spec
<1> QED
  BY <1>1 DEF DeliverySpec, Delivery!Spec
=============================================================================
