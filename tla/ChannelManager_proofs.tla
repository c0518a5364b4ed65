------------------------ MODULE ChannelManager_proofs ------------------------
(***************************************************************************)
(* Proofs about ChannelManager, for any number of channels, any number of  *)
(* Start calls and any configuration.                                      *)
(***************************************************************************)
EXTENDS ChannelManager, FiniteSetTheorems, TLAPS

Background(c, k) == LoopExit(c, k) \/ Breaks(c, k)
StartGoroutines == \E c \in Channels, k \in Calls : StartGoroutine(c, k) \/ Background(c, k)

LEMMA TypeInit == Init => TypeOK
<1> SUFFICES ASSUME Init PROVE TypeOK
  OBVIOUS
<1>1. starts \in 0..MaxStarts
  BY ConstantsAssumption DEF Init
<1>2. pc \in [Channels -> [Calls -> StartStates]]
  BY DEF Init, StartStates
<1> QED BY <1>1, <1>2 DEF Init, TypeOK, CallerStates, None

LEMMA TypeStep == TypeOK /\ [Next]_vars => TypeOK'
<1> SUFFICES ASSUME TypeOK, [Next]_vars
             PROVE  TypeOK'
  OBVIOUS
<1> USE DEF TypeOK, CallerStates, callerVars, channelVars, startVars
<1>1. CASE CallStart
  BY <1>1, ConstantsAssumption DEF CallStart, Calls, Registrable
<1>2. CASE StartStep
  <2>1. CASE StartSkipRunning
    BY <2>1 DEF StartSkipRunning
  <2>2. CASE StartSeesStopped
    BY <2>2 DEF StartSeesStopped
  <2>3. CASE StartSkipInFlight
    BY <2>3 DEF StartSkipInFlight
  <2>4. CASE StartLaunch
    BY <2>4 DEF StartLaunch, StartStates, InFlightStates
  <2>5. CASE StartReturn
    BY <2>5 DEF StartReturn
  <2> QED BY <1>2, <2>1, <2>2, <2>3, <2>4, <2>5 DEF StartStep
<1>3. CASE CallStop
  BY <1>3 DEF CallStop
<1>4. CASE StopStep
  <2>1. CASE StopCancelStart
    BY <2>1 DEF StopCancelStart
  <2>2. CASE StopVisitChannels
    BY <2>2 DEF StopVisitChannels
  <2>3. CASE StopSkipStopped
    BY <2>3 DEF StopSkipStopped
  <2>4. CASE StopChannelCancel
    BY <2>4 DEF StopChannelCancel, Attempts
  <2>5. CASE StopChannelShut
    BY <2>5 DEF StopChannelShut
  <2>6. CASE StopChannelOk
    BY <2>6 DEF StopChannelOk
  <2>7. CASE StopChannelErr
    BY <2>7 DEF StopChannelErr
  <2>8. CASE StopReturn
    BY <2>8 DEF StopReturn
  <2> QED BY <1>4, <2>1, <2>2, <2>3, <2>4, <2>5, <2>6, <2>7, <2>8 DEF StopStep
<1>5. CASE ShutdownSignal
  BY <1>5 DEF ShutdownSignal
<1>6. CASE StartGoroutines
  <2> SUFFICES ASSUME NEW c \in Channels, NEW k \in Calls,
                      StartGoroutine(c, k) \/ Background(c, k)
               PROVE  TypeOK'
    BY <1>6 DEF StartGoroutines
  <2> USE DEF StartStates, InFlightStates
  <2>1. CASE Enter(c, k)
    BY <2>1 DEF Enter
  <2>2. CASE Spawn(c, k)
    BY <2>2 DEF Spawn, Attempts
  <2>3. CASE Open(c, k)
    BY <2>3 DEF Open
  <2>4. CASE Fail(c, k)
    BY <2>4 DEF Fail
  <2>5. CASE Succeed(c, k)
    BY <2>5 DEF Succeed
  <2>6. CASE Clear(c, k)
    BY <2>6 DEF Clear
  <2>7. CASE LoopExit(c, k)
    BY <2>7 DEF LoopExit
  <2>8. CASE Breaks(c, k)
    BY <2>8 DEF Breaks
  <2> QED BY <2>1, <2>2, <2>3, <2>4, <2>5, <2>6, <2>7, <2>8 DEF StartGoroutine, Background
<1>7. CASE UNCHANGED vars
  BY <1>7 DEF vars
<1> QED BY <1>1, <1>2, <1>3, <1>4, <1>5, <1>6, <1>7 DEF Next, StartGoroutines, Background

\* The variables always hold values of their types, whatever the caller does.
THEOREM TypeCorrect == Spec => []TypeOK
<1> QED BY TypeInit, TypeStep, PTL DEF Spec

-----------------------------------------------------------------------------
(* The safety invariants, for a caller that does not call Start after Stop.*)

\* Where the caller is agrees with the call it last made, and only
\* cancelInFlightStarts holds cancel functions it has not called yet.
PhaseInv ==
  /\ caller \in {"startLoop", "startCheck"} => lastCall = "start"
  /\ caller \in {"stopCancel", "stopLoop", "stopWork", "stopFlag"} => lastCall = "stop"
  /\ toCancel # {} => caller = "stopCancel"
  /\ lastCall # "stop" => toCancel = {} /\ cancelled = {}
  /\ lastCall = "stop" => \A c \in Channels : tracked[c] = None

\* Every start in flight can still be reached by Stop (its cancel function is
\* in startCancels under its channel's name), is about to be cancelled, or has
\* been.
ReachInv ==
  \A c \in Channels, k \in Calls : InFlight(c, k) =>
    IF lastCall = "stop" THEN <<c, k>> \in toCancel \cup cancelled
                         ELSE tracked[c] = k

StartInv == TypeOK /\ PhaseInv /\ ReachInv /\ AtMostOneStartInFlight

LEMMA StartInvInit == Init => StartInv
<1> SUFFICES ASSUME Init PROVE StartInv
  OBVIOUS
<1>1. TypeOK
  BY TypeInit
<1>2. PhaseInv
  BY DEF Init, PhaseInv
<1>3. \A c \in Channels, k \in Calls : ~InFlight(c, k)
  BY DEF Init, InFlight, InFlightStates
<1> QED BY <1>1, <1>2, <1>3 DEF StartInv, ReachInv, AtMostOneStartInFlight

\* A step that leaves startCancels and the contexts alone and puts no start in
\* flight keeps every start reachable.
LEMMA NoNewStart ==
  ASSUME StartInv, UNCHANGED <<tracked, cancelled, toCancel, lastCall>>,
         \A c \in Channels, k \in Calls : InFlight(c, k)' => InFlight(c, k)
  PROVE  ReachInv' /\ AtMostOneStartInFlight'
<1>1. ReachInv'
  BY DEF StartInv, ReachInv
<1>2. AtMostOneStartInFlight'
  BY DEF StartInv, AtMostOneStartInFlight
<1> QED BY <1>1, <1>2

LEMMA StartInvStep ==
  ASSUME ~Restarts, StartInv, [Next]_vars
  PROVE  StartInv'
<1> USE DEF StartInv
<1>1. TypeOK'
  BY TypeStep
<1>2. PhaseInv' /\ ReachInv' /\ AtMostOneStartInFlight'
  <2> USE DEF callerVars, channelVars, startVars
  <2> DEFINE Kept == /\ UNCHANGED <<tracked, cancelled, toCancel, lastCall>>
                     /\ \A c \in Channels, k \in Calls : InFlight(c, k)' => InFlight(c, k)
  <2>1. CASE CallStart
    <3>1. lastCall # "stop" /\ lastCall' = "start" /\ caller' \in {"idle", "startLoop"}
      BY <2>1 DEF CallStart, TypeOK
    <3>2. PhaseInv'
      BY <2>1, <3>1 DEF CallStart, PhaseInv
    <3>3. ReachInv' /\ AtMostOneStartInFlight'
      BY <2>1, <3>1 DEF CallStart, ReachInv, AtMostOneStartInFlight, InFlight
    <3> QED BY <3>2, <3>3
  <2>2. CASE StartLaunch
    <3>1. PhaseInv'
      BY <2>2 DEF StartLaunch, PhaseInv
    <3>2. lastCall = "start" /\ at \in Channels /\ starts \in Calls
      BY <2>2 DEF StartLaunch, PhaseInv, TypeOK
    <3>3. \A k \in Calls : ~InFlight(at, k)
      BY <2>2, <3>2 DEF StartLaunch, ReachInv, None, Calls
    <3>4. \A c \in Channels, k \in Calls :
             InFlight(c, k)' => (c = at /\ k = starts) \/ (c # at /\ InFlight(c, k))
      BY <2>2, <3>2, <3>3 DEF StartLaunch, InFlight, TypeOK
    <3>5. ReachInv'
      BY <2>2, <3>2, <3>4 DEF StartLaunch, ReachInv, TypeOK
    <3>6. AtMostOneStartInFlight'
      BY <2>2, <3>2, <3>4 DEF AtMostOneStartInFlight
    <3> QED BY <3>1, <3>5, <3>6
  <2>3. CASE StartSkipRunning \/ StartSeesStopped \/ StartSkipInFlight \/ StartReturn
    <3>1. PhaseInv'
      BY <2>3 DEF PhaseInv, StartSkipRunning, StartSeesStopped, StartSkipInFlight, StartReturn
    <3>2. Kept
      BY <2>3 DEF InFlight, StartSkipRunning, StartSeesStopped, StartSkipInFlight, StartReturn
    <3> QED BY <3>1, <3>2, NoNewStart
  <2>4. CASE CallStop
    <3>1. PhaseInv'
      BY <2>4 DEF CallStop, PhaseInv
    <3>2. ReachInv'
      BY <2>4 DEF CallStop, PhaseInv, ReachInv, InFlight, Attempts
    <3>3. AtMostOneStartInFlight'
      BY <2>4 DEF CallStop, AtMostOneStartInFlight, InFlight
    <3> QED BY <3>1, <3>2, <3>3
  <2>5. CASE StopCancelStart
    <3>1. PhaseInv'
      BY <2>5 DEF StopCancelStart, PhaseInv
    <3>2. ReachInv'
      BY <2>5 DEF StopCancelStart, PhaseInv, ReachInv, InFlight
    <3>3. AtMostOneStartInFlight'
      BY <2>5 DEF StopCancelStart, AtMostOneStartInFlight, InFlight
    <3> QED BY <3>1, <3>2, <3>3
  <2>6. CASE StopChannelCancel
    <3>1. PhaseInv'
      BY <2>6 DEF StopChannelCancel, PhaseInv
    <3>2. ReachInv'
      BY <2>6 DEF StopChannelCancel, PhaseInv, ReachInv, InFlight
    <3>3. AtMostOneStartInFlight'
      BY <2>6 DEF StopChannelCancel, AtMostOneStartInFlight, InFlight
    <3> QED BY <3>1, <3>2, <3>3
  <2>7. CASE \/ StopVisitChannels \/ StopSkipStopped \/ StopChannelShut \/ StopChannelOk
             \/ StopChannelErr \/ StopReturn
    <3>1. PhaseInv'
      BY <2>7 DEF PhaseInv, StopVisitChannels, StopSkipStopped, StopChannelShut,
                  StopChannelOk, StopChannelErr, StopReturn
    <3>2. Kept
      BY <2>7 DEF InFlight, StopVisitChannels, StopSkipStopped, StopChannelShut,
                  StopChannelOk, StopChannelErr, StopReturn
    <3> QED BY <3>1, <3>2, NoNewStart
  <2>8. CASE ShutdownSignal
    <3>1. PhaseInv'
      BY <2>8 DEF PhaseInv, ShutdownSignal
    <3>2. Kept
      BY <2>8 DEF InFlight, ShutdownSignal
    <3> QED BY <3>1, <3>2, NoNewStart
  <2>9. CASE StartGoroutines
    <3> SUFFICES ASSUME NEW c \in Channels, NEW k \in Calls,
                        StartGoroutine(c, k) \/ Background(c, k)
                 PROVE  PhaseInv' /\ ReachInv' /\ AtMostOneStartInFlight'
      BY <2>9 DEF StartGoroutines
    <3>1. CASE Clear(c, k)
      <4>1. InFlight(c, k)
        BY <3>1 DEF Clear, InFlight, InFlightStates
      <4>2. \A d \in Channels, j \in Calls :
               InFlight(d, j)' => InFlight(d, j) /\ ~(d = c /\ j = k)
        BY <3>1 DEF Clear, InFlight, InFlightStates, TypeOK
      <4>3. PhaseInv'
        BY <3>1 DEF Clear, PhaseInv, TypeOK
      <4>4. AtMostOneStartInFlight'
        BY <4>2 DEF AtMostOneStartInFlight
      <4>5. \A d \in Channels, j \in Calls : InFlight(d, j)' => d # c
        BY <4>1, <4>2 DEF AtMostOneStartInFlight
      <4>6. ReachInv'
        BY <3>1, <4>2, <4>5 DEF Clear, ReachInv, TypeOK
      <4> QED BY <4>3, <4>4, <4>6
    <3>2. CASE \/ Enter(c, k) \/ Spawn(c, k) \/ Open(c, k) \/ Fail(c, k) \/ Succeed(c, k)
               \/ LoopExit(c, k) \/ Breaks(c, k)
      <4>1. PhaseInv'
        BY <3>2 DEF PhaseInv, Enter, Spawn, Open, Fail, Succeed, LoopExit, Breaks
      <4>2. Kept
        <5>1. UNCHANGED <<tracked, cancelled, toCancel, lastCall>>
          BY <3>2 DEF Enter, Spawn, Open, Fail, Succeed, LoopExit, Breaks
        <5>2. /\ \A d \in Channels, j \in Calls : ~(d = c /\ j = k) => pc'[d][j] = pc[d][j]
              /\ InFlight(c, k) \/ pc' = pc
          BY <3>2 DEF InFlight, InFlightStates, TypeOK, Enter, Spawn, Open, Fail, Succeed,
                      LoopExit, Breaks
        <5> QED BY <5>1, <5>2 DEF InFlight
      <4> QED BY <4>1, <4>2, NoNewStart
    <3> QED BY <3>1, <3>2 DEF StartGoroutine, Background
  <2>10. CASE UNCHANGED vars
    <3>1. PhaseInv'
      BY <2>10 DEF PhaseInv, vars
    <3>2. Kept
      BY <2>10 DEF InFlight, vars
    <3> QED BY <3>1, <3>2, NoNewStart
  <2> QED BY <2>1, <2>2, <2>3, <2>4, <2>5, <2>6, <2>7, <2>8, <2>9, <2>10
          DEF Next, StartStep, StopStep, StartGoroutines,
              Background
<1> QED BY <1>1, <1>2

\* Two Start calls never have two starts of one channel in flight together.
THEOREM OneStartInFlight ==
  ASSUME ~Restarts
  PROVE  Spec => []AtMostOneStartInFlight
<1>1. StartInv => AtMostOneStartInFlight
  BY DEF StartInv
<1>2. StartInv /\ [Next]_vars => StartInv'
  BY StartInvStep
<1> QED BY <1>1, <1>2, StartInvInit, PTL DEF Spec

\* When Stop returns, every start still in flight has been cancelled.
THEOREM StopReachesStarts ==
  ASSUME ~Restarts
  PROVE  Spec => []StopCancelsStarts
<1>1. StartInv => StopCancelsStarts
  BY DEF StartInv, PhaseInv, ReachInv, StopCancelsStarts, StopReturned, CtxDone
<1>2. StartInv /\ [Next]_vars => StartInv'
  BY StartInvStep
<1> QED BY <1>1, <1>2, StartInvInit, PTL DEF Spec

-----------------------------------------------------------------------------
(* What the starts leave behind.                                           *)

\* The starts of a channel follow each other in the order of the calls, and one
\* call launches at most one of them.
OrderInv ==
  /\ \A c \in Channels, k \in Calls : k > starts => pc[c][k] = "none"
  /\ \A c \in Channels, j, k \in Calls : InFlight(c, j) /\ k > j => pc[c][k] = "none"
  /\ caller \in {"startLoop", "startCheck"} => \A c \in todo : pc[c][starts] = "none"

\* No iteration is pending between calls; only registered channels are started;
\* Stop clears no flag but that of the channel it visits, a flag is set by a start
\* that succeeded, and so is a session opened by one that is about to.
VisitInv ==
  /\ caller \in {"idle", "stopCancel"} => todo = {}
  /\ \A c \in Channels, k \in Calls : pc[c][k] # "none" => c \in registered
  /\ \A c \in Channels, k \in Calls :
       <<c, k>> \in alive => pc[c][k] \notin {"none", "launched", "working"}
  /\ caller \in {"stopWork", "stopFlag"} => running[at]
  /\ \A c \in Channels : running[c] => \E k \in Calls : pc[c][k] \in {"up", "done"}
  /\ \A c \in open : /\ platform[c] = "session"
                     /\ running[c] \/ \E k \in Calls : pc[c][k] = "opened"

\* b.ctx and b.server belong to the one start that is going on or has succeeded.
OwnInv ==
  \A c \in Channels, k \in Calls : ~Overlaid(c) =>
    /\ pc[c][k] \in {"working", "spawned", "opened", "up", "done"} => owner[c] = k
    /\ platform[c] = "server" /\ <<c, k>> \in alive
         /\ pc[c][k] \in {"spawned", "opened", "up", "done"} => server[c] = k

\* While Stop has not yet dealt with a channel, a start that has succeeded shows
\* in its running flag; afterwards its context is cancelled, and its server is
\* gone before the flag is.
RunInv ==
  \A c \in Channels, k \in Calls :
    (~Overlaid(c) /\ <<c, k>> \in alive /\ pc[c][k] \in {"up", "done"}) =>
      /\ WatchesContext(c) =>
           \/ <<c, k>> \in cancelled \cup toCancel
           \/ /\ running[c] /\ c \in registered
              /\ (lastCall = "stop" /\ caller # "stopCancel") =>
                   c \in todo /\ ~(caller \in {"stopWork", "stopFlag"} /\ at = c)
      /\ platform[c] = "server" => running[c] /\ ~(caller = "stopFlag" /\ at = c)

BaseInv == StartInv /\ OrderInv /\ VisitInv
StopInv == BaseInv /\ OwnInv /\ RunInv

LEMMA StopInvInit == Init => StopInv
<1> SUFFICES ASSUME Init PROVE StopInv
  OBVIOUS
<1>1. \A c \in Channels, k \in Calls : pc[c][k] = "none" /\ <<c, k>> \notin alive
  BY DEF Init
<1>2. OrderInv
  BY <1>1 DEF Init, OrderInv, InFlight, InFlightStates
<1>3. VisitInv
  BY <1>1 DEF Init, VisitInv
<1>4. OwnInv /\ RunInv
  BY <1>1 DEF OwnInv, RunInv
<1> QED BY <1>2, <1>3, <1>4, StartInvInit DEF StopInv, BaseInv

\* What a step of a start goroutine, or of what it left behind, changes.
LEMMA GoroutineEffect ==
  ASSUME TypeOK, NEW c \in Channels, NEW k \in Calls,
         StartGoroutine(c, k) \/ Background(c, k)
  PROVE  /\ UNCHANGED <<platform, caller, lastCall, starts, todo, at, toCancel, registered,
                        cancelled, root>>
         /\ \A d \in Channels, j \in Calls : (d = c /\ j = k) \/ pc'[d][j] = pc[d][j]
         /\ \A d \in Channels, j \in Calls :
              (d = c /\ j = k) \/ (<<d, j>> \in alive' => <<d, j>> \in alive)
         /\ pc' = pc \/ InFlight(c, k)
         /\ pc'[c][k] # "none" => pc[c][k] # "none"
         /\ pc[c][k] # "none" => pc'[c][k] # "none"
<1> USE DEF callerVars, channelVars, startVars, TypeOK, InFlight, InFlightStates
<1>1. CASE Enter(c, k)
  BY <1>1 DEF Enter
<1>2. CASE Spawn(c, k)
  BY <1>2 DEF Spawn
<1>3. CASE Open(c, k)
  BY <1>3 DEF Open
<1>4. CASE Fail(c, k)
  BY <1>4 DEF Fail
<1>5. CASE Succeed(c, k)
  BY <1>5 DEF Succeed
<1>6. CASE Clear(c, k)
  BY <1>6 DEF Clear
<1>7. CASE LoopExit(c, k)
  BY <1>7 DEF LoopExit
<1>8. CASE Breaks(c, k)
  BY <1>8 DEF Breaks
<1> QED BY <1>1, <1>2, <1>3, <1>4, <1>5, <1>6, <1>7, <1>8 DEF StartGoroutine, Background

\* What StartLaunch changes: the start it launches is new.
LEMMA LaunchEffect ==
  ASSUME BaseInv, StartLaunch
  PROVE  /\ at \in todo /\ at \in Channels /\ at \in registered /\ starts \in Calls
         /\ lastCall = "start" /\ caller = "startCheck" /\ caller' = "startLoop"
         /\ todo' = todo \ {at}
         /\ pc[at][starts] = "none" /\ \A k \in Calls : ~InFlight(at, k)
         /\ \A c \in Channels, k \in Calls :
              pc'[c][k] = IF c = at /\ k = starts THEN "launched" ELSE pc[c][k]
         /\ UNCHANGED <<platform, lastCall, starts, toCancel, registered, running, owner,
                        server, open, cancelled, alive, root>>
<1> USE DEF callerVars, channelVars, startVars, BaseInv, StartInv
<1>1. /\ at \in todo /\ at \in Channels /\ at \in registered /\ starts \in Calls
      /\ lastCall = "start" /\ caller = "startCheck" /\ caller' = "startLoop"
      /\ todo' = todo \ {at}
  BY DEF StartLaunch, TypeOK, PhaseInv
<1>2. \A k \in Calls : ~InFlight(at, k)
  BY <1>1 DEF StartLaunch, ReachInv, None, Calls
<1>3. \A c \in Channels, k \in Calls :
         pc'[c][k] = IF c = at /\ k = starts THEN "launched" ELSE pc[c][k]
  BY <1>1 DEF StartLaunch, TypeOK
<1> QED BY <1>1, <1>2, <1>3 DEF StartLaunch, OrderInv

\* The other steps leave the start goroutines where they are.
LEMMA CallerEffect ==
  ASSUME \/ CallStart \/ StartSkipRunning \/ StartSeesStopped \/ StartSkipInFlight \/ StartReturn
         \/ CallStop \/ StopStep \/ ShutdownSignal \/ UNCHANGED vars
  PROVE  UNCHANGED <<platform, pc, owner, server>> /\ alive' \subseteq alive
  BY DEF CallStart, StartSkipRunning, StartSeesStopped, StartSkipInFlight, StartReturn,
         CallStop, StopStep, StopCancelStart, StopVisitChannels, StopSkipStopped,
         StopChannelCancel, StopChannelShut, StopChannelOk, StopChannelErr, StopReturn,
         ShutdownSignal, vars, callerVars, channelVars, startVars

LEMMA OrderInvStep ==
  ASSUME BaseInv, [Next]_vars
  PROVE  OrderInv'
<1> USE DEF BaseInv, StartInv, callerVars, channelVars, startVars
<1>1. CASE CallStart
  <2>1. starts' = starts + 1 /\ starts \in Nat /\ pc' = pc /\ starts' \in Calls
    BY <1>1, ConstantsAssumption DEF CallStart, TypeOK, Calls
  <2>2. \A c \in Channels, k \in Calls : k > starts => pc[c][k] = "none"
    BY DEF OrderInv
  <2>3. todo' \subseteq Channels /\ Calls \subseteq Nat
    BY TypeStep, ConstantsAssumption DEF TypeOK, Calls
  <2>4. \A c \in Channels : pc'[c][starts'] = "none"
    BY <2>1, <2>2
  <2>5. \A c \in Channels, k \in Calls : k > starts' => pc'[c][k] = "none"
    BY <2>1, <2>2, <2>3
  <2> QED BY <2>1, <2>3, <2>4, <2>5 DEF OrderInv, InFlight
<1>2. CASE StartLaunch
  <2>1. Calls \subseteq Nat /\ starts \in Calls
    BY <1>2, LaunchEffect, ConstantsAssumption DEF Calls
  <2>2. \A c \in Channels, k \in Calls : k > starts => pc'[c][k] = "none"
    BY <1>2, <2>1, LaunchEffect DEF OrderInv
  <2>3. \A c \in Channels, j, k \in Calls : InFlight(c, j)' /\ k > j => pc'[c][k] = "none"
    <3> SUFFICES ASSUME NEW c \in Channels, NEW j \in Calls, NEW k \in Calls,
                        InFlight(c, j)', k > j
                 PROVE  pc'[c][k] = "none"
      OBVIOUS
    <3>1. CASE c = at
      <4>1. j = starts
        BY <1>2, <3>1, LaunchEffect DEF InFlight
      <4> QED BY <2>2, <4>1
    <3>2. CASE c # at
      BY <1>2, <3>2, LaunchEffect DEF OrderInv, InFlight
    <3> QED BY <3>1, <3>2
  <2>4. \A c \in todo' : pc'[c][starts'] = "none"
    <3>1. todo \subseteq Channels
      BY DEF TypeOK
    <3> QED BY <1>2, <3>1, LaunchEffect DEF OrderInv
  <2> QED BY <1>2, <2>2, <2>3, <2>4, LaunchEffect DEF OrderInv
<1>3. CASE StartSkipRunning \/ StartSeesStopped \/ StartSkipInFlight \/ StartReturn
  <2>1. /\ UNCHANGED <<pc, starts>> /\ todo' \subseteq todo
        /\ caller \in {"startLoop", "startCheck"}
    BY <1>3 DEF StartSkipRunning, StartSeesStopped, StartSkipInFlight, StartReturn
  <2> QED BY <2>1 DEF OrderInv, InFlight
<1>4. CASE CallStop \/ StopStep
  <2>1. UNCHANGED <<pc, starts>> /\ caller' \notin {"startLoop", "startCheck"}
    BY <1>4 DEF CallStop, StopStep, StopCancelStart, StopVisitChannels, StopSkipStopped,
                StopChannelCancel, StopChannelShut, StopChannelOk, StopChannelErr, StopReturn
  <2> QED BY <2>1 DEF OrderInv, InFlight
<1>5. CASE ShutdownSignal \/ UNCHANGED vars
  <2>1. UNCHANGED <<pc, starts, caller, todo>>
    BY <1>5 DEF ShutdownSignal, vars
  <2> QED BY <2>1 DEF OrderInv, InFlight
<1>6. CASE StartGoroutines
  <2> SUFFICES ASSUME NEW c \in Channels, NEW k \in Calls,
                      StartGoroutine(c, k) \/ Background(c, k)
               PROVE  OrderInv'
    BY <1>6 DEF StartGoroutines
  <2>1. \A d \in Channels, j \in Calls : pc[d][j] = "none" => pc'[d][j] = "none"
    BY GoroutineEffect
  <2>2. \A d \in Channels, j \in Calls : InFlight(d, j)' => InFlight(d, j)
    BY GoroutineEffect DEF InFlight
  <2>3. UNCHANGED <<starts, caller, todo>> /\ todo \subseteq Channels
    BY GoroutineEffect DEF TypeOK
  <2>4. caller \in {"startLoop", "startCheck"} => starts \in Calls
    BY DEF TypeOK
  <2> QED BY <2>1, <2>2, <2>3, <2>4 DEF OrderInv
<1> QED BY <1>1, <1>2, <1>3, <1>4, <1>5, <1>6 DEF Next, StartStep, StartGoroutines, Background

\* In a channel that is not overlaid, one start at most is going on or has
\* succeeded.
LEMMA OneLives ==
  ASSUME StartInv, OrderInv, NEW c \in Channels, ~Overlaid(c), NEW j \in Calls, NEW k \in Calls,
         InFlight(c, j) \/ pc[c][j] = "done", InFlight(c, k) \/ pc[c][k] = "done"
  PROVE  j = k
<1>1. SUFFICES ASSUME j # k PROVE FALSE
  OBVIOUS
<1>2. j \in Nat /\ k \in Nat
  BY ConstantsAssumption DEF Calls
<1>3. pc[c][j] # "none" /\ pc[c][k] # "none"
  BY DEF InFlight, InFlightStates
<1>4. CASE pc[c][j] = "done" /\ pc[c][k] = "done"
  BY <1>1, <1>2, <1>4 DEF Overlaid
<1>5. CASE InFlight(c, j) /\ pc[c][k] = "done"
  BY <1>1, <1>2, <1>3, <1>5 DEF Overlaid, OrderInv
<1>6. CASE InFlight(c, k) /\ pc[c][j] = "done"
  BY <1>1, <1>2, <1>3, <1>6 DEF Overlaid, OrderInv
<1>7. CASE InFlight(c, j) /\ InFlight(c, k)
  BY <1>1, <1>7 DEF StartInv, AtMostOneStartInFlight
<1> QED BY <1>4, <1>5, <1>6, <1>7

\* What a start has overlaid stays so.
LEMMA OverlaidStays ==
  ASSUME BaseInv, [Next]_vars, NEW c \in Channels, Overlaid(c)
  PROVE  Overlaid(c)'
<1>1. PICK j \in Calls, k \in Calls : j < k /\ pc[c][j] = "done" /\ pc[c][k] # "none"
  BY DEF Overlaid
<1> SUFFICES pc'[c][j] = "done" /\ pc'[c][k] # "none"
  BY <1>1 DEF Overlaid
<1>2. ~InFlight(c, j)
  BY <1>1 DEF InFlight, InFlightStates
<1>3. CASE StartLaunch
  BY <1>1, <1>3, LaunchEffect
<1>4. CASE StartGoroutines
  <2> SUFFICES ASSUME NEW d \in Channels, NEW i \in Calls,
                      StartGoroutine(d, i) \/ Background(d, i)
               PROVE  pc'[c][j] = "done" /\ pc'[c][k] # "none"
    BY <1>4 DEF StartGoroutines
  <2>1. TypeOK
    BY DEF BaseInv, StartInv
  <2>2. pc'[c][k] # "none"
    <3>1. pc'[c][k] = pc[c][k] \/ (c = d /\ k = i)
      BY <2>1, GoroutineEffect
    <3>2. pc[d][i] # "none" => pc'[d][i] # "none"
      BY <2>1, GoroutineEffect
    <3> QED BY <1>1, <3>1, <3>2
  <2>3. pc'[c][j] = "done"
    BY <1>1, <1>2, <2>1, GoroutineEffect
  <2> QED BY <2>2, <2>3
<1>5. CASE \/ CallStart \/ StartSkipRunning \/ StartSeesStopped \/ StartSkipInFlight
           \/ StartReturn \/ CallStop \/ StopStep \/ ShutdownSignal \/ UNCHANGED vars
  BY <1>1, <1>5, CallerEffect
<1> QED BY <1>3, <1>4, <1>5 DEF Next, StartStep, StartGoroutines, Background

LEMMA VisitInvStep ==
  ASSUME BaseInv, [Next]_vars
  PROVE  VisitInv'
<1> USE DEF BaseInv, StartInv, callerVars, channelVars, startVars
<1>1. CASE CallStart
  BY <1>1 DEF CallStart, VisitInv
<1>2. CASE StartLaunch
  <2>1. open \subseteq Channels
    BY DEF TypeOK
  <2>2. \A c \in Channels, k \in Calls :
           pc[c][k] \in {"up", "done", "opened"} => pc'[c][k] = pc[c][k]
    BY <1>2, LaunchEffect
  <2>3. \A c \in Channels, k \in Calls : pc'[c][k] # "none" => c \in registered
    BY <1>2, LaunchEffect DEF VisitInv
  <2>4. \A c \in Channels, k \in Calls :
           <<c, k>> \in alive => pc'[c][k] \notin {"none", "launched", "working"}
    <3> SUFFICES ASSUME NEW c \in Channels, NEW k \in Calls, <<c, k>> \in alive
                 PROVE  pc'[c][k] \notin {"none", "launched", "working"}
      OBVIOUS
    <3>1. pc[c][k] \notin {"none", "launched", "working"}
      BY DEF VisitInv
    <3>2. pc[at][starts] = "none"
      BY <1>2, LaunchEffect
    <3>3. pc'[c][k] = pc[c][k]
      BY <1>2, <3>1, <3>2, LaunchEffect
    <3> QED BY <3>1, <3>3
  <2>5. UNCHANGED <<platform, registered, running, open, alive>> /\ caller' = "startLoop"
    BY <1>2, LaunchEffect
  <2> QED BY <2>1, <2>2, <2>3, <2>4, <2>5 DEF VisitInv
<1>3. CASE StartSkipRunning \/ StartSeesStopped \/ StartSkipInFlight \/ StartReturn
  BY <1>3 DEF VisitInv, StartSkipRunning, StartSeesStopped, StartSkipInFlight, StartReturn
<1>4. CASE CallStop
  BY <1>4 DEF VisitInv, CallStop
<1>5. CASE StopStep
  <2>1. CASE StopChannelShut
    BY <2>1 DEF StopChannelShut, VisitInv, TypeOK
  <2>2. CASE StopChannelOk
    <3>1. \A c \in Channels : c # at => running'[c] = running[c]
      BY <2>2 DEF StopChannelOk, TypeOK
    <3>2. \A c \in Channels : running'[c] => running[c]
      BY <2>2 DEF StopChannelOk, TypeOK
    <3>3. \A c \in open : c \in Channels /\ c # at
      BY <2>2 DEF StopChannelOk, VisitInv, TypeOK
    <3>4. UNCHANGED <<platform, pc, alive, registered, open>> /\ caller' = "stopLoop"
      BY <2>2 DEF StopChannelOk
    <3> QED BY <3>1, <3>2, <3>3, <3>4 DEF VisitInv
  <2>3. CASE StopChannelErr \/ StopReturn
    BY <2>3 DEF StopChannelErr, StopReturn, VisitInv
  <2>4. CASE StopCancelStart \/ StopVisitChannels \/ StopSkipStopped
    BY <2>4 DEF StopCancelStart, StopVisitChannels, StopSkipStopped, VisitInv
  <2>5. CASE StopChannelCancel
    <3>1. caller' = "stopWork" /\ running[at'] /\ UNCHANGED running
      BY <2>5 DEF StopChannelCancel
    <3>2. UNCHANGED <<platform, pc, alive, registered, open>>
      BY <2>5 DEF StopChannelCancel
    <3> QED BY <3>1, <3>2 DEF VisitInv
  <2> QED BY <1>5, <2>1, <2>2, <2>3, <2>4, <2>5 DEF StopStep
<1>6. CASE ShutdownSignal \/ UNCHANGED vars
  BY <1>6 DEF ShutdownSignal, vars, VisitInv
<1>7. CASE StartGoroutines
  <2> SUFFICES ASSUME NEW c \in Channels, NEW k \in Calls,
                      StartGoroutine(c, k) \/ Background(c, k)
               PROVE  VisitInv'
    BY <1>7 DEF StartGoroutines
  <2>1. /\ UNCHANGED <<platform, caller, todo, at, registered>>
        /\ \A d \in Channels, j \in Calls : pc'[d][j] # "none" => pc[d][j] # "none"
    BY GoroutineEffect
  <2>2. \A d \in Channels : running[d] => running'[d]
    BY DEF TypeOK, StartGoroutine, Background, Enter, Spawn, Open, Fail, Succeed, Clear,
           LoopExit, Breaks
  <2>3. caller \in {"stopWork", "stopFlag"} => running'[at]
    BY <2>2 DEF VisitInv, TypeOK
  <2>4. <<c, k>> \in alive' => pc'[c][k] \notin {"none", "launched", "working"}
    BY DEF VisitInv, TypeOK, StartGoroutine, Background, Enter, Spawn, Open, Fail, Succeed,
           Clear, LoopExit, Breaks
  <2>5. \A d \in Channels, j \in Calls :
           <<d, j>> \in alive' => pc'[d][j] \notin {"none", "launched", "working"}
    <3> SUFFICES ASSUME NEW d \in Channels, NEW j \in Calls, <<d, j>> \in alive'
                 PROVE  pc'[d][j] \notin {"none", "launched", "working"}
      OBVIOUS
    <3>1. CASE d = c /\ j = k
      BY <2>4, <3>1
    <3>2. CASE ~(d = c /\ j = k)
      BY <3>2, GoroutineEffect DEF VisitInv
    <3> QED BY <3>1, <3>2
  <2>6. \A d \in Channels, j \in Calls :
           pc[d][j] \in {"up", "done"} => pc'[d][j] \in {"up", "done"}
    <3>1. pc[c][k] \in {"up", "done"} => pc'[c][k] \in {"up", "done"}
      BY DEF TypeOK, StartGoroutine, Background, Enter, Spawn, Open, Fail, Succeed, Clear,
             LoopExit, Breaks
    <3> QED BY <3>1, GoroutineEffect
  <2>7. \A d \in Channels : running'[d] => \E j \in Calls : pc'[d][j] \in {"up", "done"}
    <3>1. CASE Succeed(c, k)
      <4>1. pc'[c][k] = "up" /\ \A d \in Channels : d # c => running'[d] = running[d]
        BY <3>1 DEF Succeed, TypeOK
      <4> QED BY <2>6, <4>1 DEF VisitInv
    <3>2. CASE ~Succeed(c, k)
      <4>1. UNCHANGED running
        BY <3>2 DEF StartGoroutine, Background, Enter, Spawn, Open, Fail, Clear, LoopExit, Breaks
      <4> QED BY <2>6, <4>1 DEF VisitInv
    <3> QED BY <3>1, <3>2
  <2>8. \A d \in open' : /\ platform'[d] = "session"
                         /\ running'[d] \/ \E j \in Calls : pc'[d][j] = "opened"
    <3>1. CASE Open(c, k)
      <4>1. platform[c] = "session" /\ pc'[c][k] = "opened" /\ open' = open \cup {c}
        BY <3>1 DEF Open, TypeOK
      <4>2. \A d \in Channels, j \in Calls : pc[d][j] = "opened" => pc'[d][j] = "opened"
        BY <4>1, GoroutineEffect
      <4> QED BY <2>1, <2>2, <4>1, <4>2 DEF VisitInv, TypeOK
    <3>2. CASE Succeed(c, k)
      <4>1. running'[c] /\ UNCHANGED open /\ open \subseteq Channels
        BY <3>2 DEF Succeed, TypeOK
      <4>2. \A d \in Channels, j \in Calls : d # c => pc'[d][j] = pc[d][j]
        BY GoroutineEffect
      <4> QED BY <2>1, <2>2, <4>1, <4>2 DEF VisitInv
    <3>3. CASE ~(Open(c, k) \/ Succeed(c, k))
      <4>1. open' \subseteq open /\ open \subseteq Channels
        BY <3>3 DEF StartGoroutine, Background, Enter, Spawn, Fail, Clear, LoopExit, Breaks,
                    TypeOK
      <4>2. pc[c][k] = "opened" => pc'[c][k] = "opened"
        BY <3>3 DEF StartGoroutine, Background, Enter, Spawn, Fail, Clear, LoopExit, Breaks
      <4>3. \A d \in Channels, j \in Calls : pc[d][j] = "opened" => pc'[d][j] = "opened"
        BY <4>2, GoroutineEffect
      <4> QED BY <2>1, <2>2, <4>1, <4>3 DEF VisitInv
    <3> QED BY <3>1, <3>2, <3>3
  <2> QED BY <2>1, <2>3, <2>5, <2>7, <2>8 DEF VisitInv
<1> QED BY <1>1, <1>2, <1>3, <1>4, <1>5, <1>6, <1>7
        DEF Next, StartStep, StartGoroutines, Background

LEMMA OwnInvStep ==
  ASSUME BaseInv, OwnInv, [Next]_vars
  PROVE  OwnInv'
<1> USE DEF BaseInv, StartInv, callerVars, channelVars, startVars
<1> DEFINE Holding == {"working", "spawned", "opened", "up", "done"}
           Serving == {"spawned", "opened", "up", "done"}
<1> SUFFICES ASSUME NEW c \in Channels, NEW k \in Calls, ~Overlaid(c)'
             PROVE  /\ pc'[c][k] \in Holding => owner'[c] = k
                    /\ platform'[c] = "server" /\ <<c, k>> \in alive'
                         /\ pc'[c][k] \in Serving => server'[c] = k
  BY DEF OwnInv
<1>1. ~Overlaid(c)
  BY OverlaidStays
<1>2. /\ pc[c][k] \in Holding => owner[c] = k
      /\ platform[c] = "server" /\ <<c, k>> \in alive
           /\ pc[c][k] \in Serving => server[c] = k
  BY <1>1 DEF OwnInv
<1>3. CASE StartLaunch
  BY <1>2, <1>3, LaunchEffect
<1>4. CASE \/ CallStart \/ StartSkipRunning \/ StartSeesStopped \/ StartSkipInFlight
           \/ StartReturn \/ CallStop \/ StopStep \/ ShutdownSignal \/ UNCHANGED vars
  BY <1>2, <1>4, CallerEffect
<1>5. CASE StartGoroutines
  <2> PICK d \in Channels, i \in Calls : StartGoroutine(d, i) \/ Background(d, i)
    BY <1>5 DEF StartGoroutines
  <2>1. CASE d # c
    <3>1. /\ owner'[c] = owner[c] /\ server'[c] = server[c] /\ platform' = platform
      BY <2>1 DEF StartGoroutine, Background, Enter, Spawn, Open, Fail, Succeed, Clear,
                  LoopExit, Breaks, TypeOK
    <3>2. pc'[c][k] = pc[c][k] /\ (<<c, k>> \in alive' => <<c, k>> \in alive)
      BY <2>1, GoroutineEffect
    <3> QED BY <1>2, <3>1, <3>2
  <2>2. CASE d = c /\ i = k
    <3>1. pc'[c][k] \in Holding => owner'[c] = k
      BY <1>2, <2>2 DEF StartGoroutine, Background, Enter, Spawn, Open, Fail, Succeed, Clear,
                        LoopExit, Breaks, TypeOK
    <3>2. platform'[c] = "server" /\ <<c, k>> \in alive' /\ pc'[c][k] \in Serving
            => server'[c] = k
      <4>1. CASE Spawn(c, k)
        BY <4>1 DEF Spawn, TypeOK
      <4>2. CASE ~Spawn(c, k)
        <5>1. server' = server /\ platform' = platform
          BY <2>2, <4>2 DEF StartGoroutine, Background, Enter, Open, Fail, Succeed, Clear,
                            LoopExit, Breaks
        <5>2. <<c, k>> \in alive' => <<c, k>> \in alive
          BY <2>2, <4>2 DEF StartGoroutine, Background, Enter, Open, Fail, Succeed, Clear,
                            LoopExit, Breaks
        <5>3. pc[c][k] # "working" \/ <<c, k>> \notin alive
          BY DEF VisitInv
        <5>4. pc[c][k] # "working" /\ pc'[c][k] \in Serving => pc[c][k] \in Serving
          BY <2>2, <4>2 DEF StartGoroutine, Background, Enter, Open, Fail, Succeed, Clear,
                            LoopExit, Breaks, TypeOK
        <5> QED BY <1>2, <5>1, <5>2, <5>3, <5>4
      <4> QED BY <4>1, <4>2
    <3> QED BY <3>1, <3>2
  <2>3. CASE d = c /\ i # k
    <3>1. pc'[c][k] = pc[c][k] /\ (<<c, k>> \in alive' => <<c, k>> \in alive)
      BY <2>3, GoroutineEffect
    <3>2. CASE Enter(c, i) \/ Spawn(c, i)
      <4>1. InFlight(c, i)
        BY <3>2 DEF Enter, Spawn, InFlight, InFlightStates
      <4>2. ~InFlight(c, k) /\ pc[c][k] # "done"
        BY <1>1, <2>3, <4>1, OneLives
      <4>3. pc[c][k] \notin Holding
        BY <4>2 DEF InFlight, InFlightStates
      <4> QED BY <3>1, <4>3
    <3>3. CASE ~(Enter(c, i) \/ Spawn(c, i))
      <4>1. UNCHANGED <<owner, server, platform>>
        BY <2>3, <3>3 DEF StartGoroutine, Background, Open, Fail, Succeed, Clear, LoopExit,
                          Breaks
      <4> QED BY <1>2, <3>1, <4>1
    <3> QED BY <3>2, <3>3
  <2> QED BY <2>1, <2>2, <2>3
<1> QED BY <1>3, <1>4, <1>5 DEF Next, StartStep, StartGoroutines, Background

LEMMA RunInvStep ==
  ASSUME ~Restarts, StopInv, [Next]_vars
  PROVE  RunInv'
<1> USE DEF StopInv, BaseInv, StartInv, callerVars, channelVars, startVars
<1> SUFFICES ASSUME NEW c \in Channels, NEW k \in Calls, ~Overlaid(c)', <<c, k>> \in alive',
                    pc'[c][k] \in {"up", "done"}
             PROVE  /\ WatchesContext(c)' =>
                         \/ <<c, k>> \in cancelled' \cup toCancel'
                         \/ /\ running'[c] /\ c \in registered'
                            /\ (lastCall' = "stop" /\ caller' # "stopCancel") =>
                                 /\ c \in todo'
                                 /\ ~(caller' \in {"stopWork", "stopFlag"} /\ at' = c)
                    /\ platform'[c] = "server" =>
                         running'[c] /\ ~(caller' = "stopFlag" /\ at' = c)
  BY DEF RunInv
<1>1. ~Overlaid(c)
  BY OverlaidStays
<1> DEFINE Told == <<c, k>> \in cancelled \cup toCancel
           Shows == /\ running[c] /\ c \in registered
                    /\ (lastCall = "stop" /\ caller # "stopCancel") =>
                         c \in todo /\ ~(caller \in {"stopWork", "stopFlag"} /\ at = c)
           Serves == running[c] /\ ~(caller = "stopFlag" /\ at = c)
<1>2. /\ <<c, k>> \in alive /\ pc[c][k] \in {"up", "done"} =>
           /\ WatchesContext(c) => Told \/ Shows
           /\ platform[c] = "server" => Serves
  BY <1>1 DEF RunInv
<1>3. platform' = platform /\ (WatchesContext(c)' <=> WatchesContext(c))
  <2>1. platform' = platform
    BY LaunchEffect, CallerEffect, GoroutineEffect
       DEF Next, StartStep, StartGoroutines, Background, vars
  <2> QED BY <2>1 DEF WatchesContext
<1>4. CASE StartLaunch
  <2>1. <<c, k>> \in alive /\ pc[c][k] \in {"up", "done"}
    BY <1>4, LaunchEffect
  <2>2. UNCHANGED <<running, registered, cancelled, toCancel>> /\ lastCall' = "start"
        /\ caller' = "startLoop"
    BY <1>4, LaunchEffect
  <2> QED BY <1>2, <1>3, <2>1, <2>2
<1>5. CASE StartGoroutines
  <2> PICK d \in Channels, i \in Calls : StartGoroutine(d, i) \/ Background(d, i)
    BY <1>5 DEF StartGoroutines
  <2>1. UNCHANGED <<caller, lastCall, todo, at, registered, cancelled, toCancel>>
    BY GoroutineEffect
  <2>2. running[c] => running'[c]
    BY DEF TypeOK, StartGoroutine, Background, Enter, Spawn, Open, Fail, Succeed, Clear,
           LoopExit, Breaks
  <2>3. CASE Succeed(c, k)
    <3>1. InFlight(c, k) /\ pc[c][k] \notin {"none", "up", "done"}
      BY <2>3 DEF Succeed, InFlight, InFlightStates
    <3>2. c \in registered /\ (lastCall = "stop" => Told)
      BY <3>1 DEF VisitInv, ReachInv
    <3>3. running'[c]
      BY <2>3 DEF Succeed, TypeOK
    <3>4. ~running[c]
      <4> SUFFICES ASSUME running[c] PROVE FALSE
        OBVIOUS
      <4>1. PICK j \in Calls : pc[c][j] \in {"up", "done"}
        BY DEF VisitInv
      <4>2. InFlight(c, j) \/ pc[c][j] = "done"
        BY <4>1 DEF InFlight, InFlightStates
      <4>3. j = k
        BY <1>1, <3>1, <4>2, OneLives
      <4> QED BY <3>1, <4>1, <4>3
    <3>5. ~(caller = "stopFlag" /\ at = c)
      BY <3>4 DEF VisitInv
    <3> QED BY <2>1, <3>2, <3>3, <3>5
  <2>4. CASE ~Succeed(c, k)
    <3>1. pc[c][k] \in {"up", "done"}
      <4>1. CASE d = c /\ i = k
        BY <2>4, <4>1 DEF StartGoroutine, Background, Enter, Spawn, Open, Fail, Clear, LoopExit,
                          Breaks, TypeOK
      <4>2. CASE ~(d = c /\ i = k)
        BY <4>2, GoroutineEffect
      <4> QED BY <4>1, <4>2
    <3>2. <<c, k>> \in alive
      <4>1. CASE d = c /\ i = k
        BY <3>1, <4>1 DEF StartGoroutine, Background, Enter, Spawn, Open, Fail, Succeed, Clear,
                          LoopExit, Breaks
      <4>2. CASE ~(d = c /\ i = k)
        BY <4>2, GoroutineEffect
      <4> QED BY <4>1, <4>2
    <3> QED BY <1>2, <1>3, <2>1, <2>2, <3>1, <3>2
  <2> QED BY <2>3, <2>4
<1>6. CASE \/ CallStart \/ StartSkipRunning \/ StartSeesStopped \/ StartSkipInFlight
           \/ StartReturn \/ CallStop \/ StopStep \/ ShutdownSignal \/ UNCHANGED vars
  <2>1. <<c, k>> \in alive /\ pc[c][k] \in {"up", "done"}
    BY <1>6, CallerEffect
  <2>2. (WatchesContext(c) => Told \/ Shows) /\ (platform[c] = "server" => Serves)
    BY <1>2, <2>1
  <2>3. CASE CallStart
    <3>1. lastCall' = "start" /\ registered \subseteq registered' /\ caller' # "stopFlag"
          /\ UNCHANGED <<running, cancelled, toCancel>>
      BY <2>3 DEF CallStart
    <3> QED BY <1>3, <2>2, <3>1
  <2>4. CASE StartSkipRunning \/ StartSeesStopped \/ StartSkipInFlight \/ StartReturn
    <3>1. lastCall = "start" /\ lastCall' = lastCall /\ caller' # "stopFlag"
      BY <2>4 DEF PhaseInv, StartSkipRunning, StartSeesStopped, StartSkipInFlight, StartReturn
    <3>2. UNCHANGED <<running, registered, cancelled, toCancel>>
      BY <2>4 DEF StartSkipRunning, StartSeesStopped, StartSkipInFlight, StartReturn
    <3> QED BY <1>3, <2>2, <3>1, <3>2
  <2>5. CASE CallStop
    <3>1. todo = {} /\ caller = "idle" /\ toCancel = {} /\ caller' = "stopCancel"
      BY <2>5 DEF CallStop, VisitInv, PhaseInv
    <3>2. UNCHANGED <<running, registered, cancelled>>
      BY <2>5 DEF CallStop
    <3> QED BY <1>3, <2>2, <3>1, <3>2
  <2>6. CASE StopStep
    <3>1. CASE StopCancelStart
      BY <1>3, <2>2, <3>1 DEF StopCancelStart
    <3>2. CASE StopVisitChannels
      BY <1>3, <2>2, <3>2 DEF StopVisitChannels
    <3>3. CASE StopSkipStopped
      BY <1>3, <2>2, <3>3 DEF StopSkipStopped, PhaseInv
    <3>4. CASE StopChannelCancel
      <4>1. owner[c] = k /\ k # None
        BY <1>1, <2>1, ConstantsAssumption DEF OwnInv, Calls, None
      <4>2. /\ caller' = "stopWork" /\ caller = "stopLoop" /\ cancelled \subseteq cancelled'
            /\ UNCHANGED <<running, registered, toCancel, lastCall, todo>>
        BY <3>4 DEF StopChannelCancel
      <4>3. at' = c => <<c, k>> \in cancelled'
        BY <3>4, <4>1 DEF StopChannelCancel
      <4> QED BY <1>3, <2>2, <4>2, <4>3
    <3>5. CASE StopChannelShut
      <4>1. /\ caller' = "stopFlag" /\ caller = "stopWork"
            /\ UNCHANGED <<running, registered, cancelled, toCancel, lastCall, todo, at>>
        BY <3>5 DEF StopChannelShut
      <4>2. platform[c] = "server" => at # c
        <5> SUFFICES ASSUME platform[c] = "server", at = c PROVE FALSE
          OBVIOUS
        <5>1. server[c] = k
          BY <1>1, <2>1 DEF OwnInv
        <5> QED BY <3>5, <5>1 DEF StopChannelShut
      <4> QED BY <1>3, <2>2, <4>1, <4>2
    <3>6. CASE StopChannelOk
      <4>1. /\ caller = "stopFlag" /\ caller' = "stopLoop" /\ todo' = todo \ {at}
            /\ UNCHANGED <<registered, cancelled, toCancel, lastCall>>
        BY <3>6 DEF StopChannelOk
      <4>2. lastCall = "stop"
        BY <4>1 DEF PhaseInv
      <4>3. c # at => running'[c] = running[c]
        BY <3>6 DEF StopChannelOk, TypeOK
      <4> QED BY <1>3, <2>2, <4>1, <4>2, <4>3
    <3>7. CASE StopChannelErr
      <4>1. /\ caller = "stopFlag" /\ caller' = "stopLoop" /\ todo' = todo \ {at}
            /\ UNCHANGED <<registered, cancelled, toCancel, lastCall, running>>
        BY <3>7 DEF StopChannelErr
      <4>2. lastCall = "stop"
        BY <4>1 DEF PhaseInv
      <4> QED BY <1>3, <2>2, <4>1, <4>2
    <3>8. CASE StopReturn
      BY <1>3, <2>2, <3>8 DEF StopReturn
    <3> QED BY <2>6, <3>1, <3>2, <3>3, <3>4, <3>5, <3>6, <3>7, <3>8 DEF StopStep
  <2>7. CASE ShutdownSignal \/ UNCHANGED vars
    BY <1>3, <2>2, <2>7 DEF ShutdownSignal, vars
  <2> QED BY <1>6, <2>3, <2>4, <2>5, <2>6, <2>7
<1> QED BY <1>4, <1>5, <1>6 DEF Next, StartStep, StartGoroutines, Background

LEMMA StopInvStep ==
  ASSUME ~Restarts, StopInv, [Next]_vars
  PROVE  StopInv'
<1>1. BaseInv
  BY DEF StopInv
<1>2. BaseInv'
  BY <1>1, StartInvStep, OrderInvStep, VisitInvStep DEF BaseInv
<1>3. OwnInv' /\ RunInv'
  BY <1>1, OwnInvStep, RunInvStep DEF StopInv
<1> QED BY <1>2, <1>3 DEF StopInv

\* When Stop returns, with or without an error, every loop and every goroutine that
\* is to close a session has been told to end.
THEOREM StopReachesLoops ==
  ASSUME ~Restarts
  PROVE  Spec => []StopEndsLoops
<1>1. StopInv => StopEndsLoops
  <2> SUFFICES ASSUME StopInv, StopReturned, NEW c \in Channels, NEW k \in Calls,
                      <<c, k>> \in alive, WatchesContext(c), ~Overlaid(c), ~StartFailed(c, k)
               PROVE  CtxDone(c, k)
    BY DEF StopEndsLoops
  <2> USE DEF StopInv, BaseInv, StartInv
  <2>1. todo = {} /\ toCancel = {} /\ lastCall = "stop" /\ caller = "idle"
    BY DEF VisitInv, PhaseInv, StopReturned
  <2>2. pc[c][k] \in StartStates /\ pc[c][k] \notin {"none", "failing", "failed"}
    BY DEF TypeOK, VisitInv, StartFailed
  <2>3. CASE InFlight(c, k)
    BY <2>1, <2>3 DEF ReachInv, CtxDone
  <2>4. CASE pc[c][k] = "done"
    BY <2>1, <2>4 DEF RunInv, CtxDone
  <2> QED BY <2>2, <2>3, <2>4 DEF StartStates, InFlight
<1>2. StopInv /\ [Next]_vars => StopInv'
  BY StopInvStep
<1> QED BY <1>1, <1>2, StopInvInit, PTL DEF Spec

\* A channel that does not report running and is not starting has no session open
\* and no server left of a start that succeeded.
THEOREM FlagTellsTheTruth ==
  ASSUME ~Restarts
  PROVE  Spec => []StoppedIsClosed
<1>1. StopInv => StoppedIsClosed
  <2> SUFFICES ASSUME StopInv, NEW c \in Channels, ~running[c], \A k \in Calls : ~InFlight(c, k)
               PROVE  /\ c \notin open
                      /\ platform[c] = "server" /\ ~Overlaid(c) =>
                           \A k \in Calls : pc[c][k] = "done" => <<c, k>> \notin alive
    BY DEF StoppedIsClosed
  <2>1. \A k \in Calls : pc[c][k] # "opened"
    BY DEF InFlight, InFlightStates
  <2>2. c \notin open
    BY <2>1 DEF StopInv, BaseInv, VisitInv
  <2> QED BY <2>2 DEF StopInv, RunInv
<1>2. StopInv /\ [Next]_vars => StopInv'
  BY StopInvStep
<1> QED BY <1>1, <1>2, StopInvInit, PTL DEF Spec

-----------------------------------------------------------------------------
(* How long a call of the manager can be.                                  *)

\* The steps the current call can still take: one per cancel function held, three
\* per channel to be visited (Start makes two), and the return.
StepsLeft ==
  CASE caller = "stopCancel"                -> Cardinality(toCancel) + 3 * N + 2
    [] caller \in {"startLoop", "stopLoop"}  -> 3 * Cardinality(todo) + 1
    [] caller \in {"startCheck", "stopWork"} -> 3 * Cardinality(todo)
    [] caller = "stopFlag"                  -> 3 * Cardinality(todo) - 1
    [] OTHER                                -> 0

\* Between CallStart or CallStop and the return, every step of the call brings
\* the return nearer and nothing the channels do puts it off.
CallAdvances ==
  /\ StartStep \/ StopStep => StepsLeft' < StepsLeft
  /\ caller # "idle" => StepsLeft' <= StepsLeft

\* startCancels is a map from names: there is at most one cancel function per
\* channel to call.
HeldInv == IsFiniteSet(toCancel) /\ Cardinality(toCancel) <= N

LEMMA ChannelSets ==
  ASSUME NEW S \in SUBSET Channels
  PROVE  IsFiniteSet(S) /\ Cardinality(S) \in 0..N
<1>1. IsFiniteSet(Channels) /\ Cardinality(Channels) = N
  BY ConstantsAssumption, FS_Interval DEF Channels
<1> QED BY <1>1, FS_Subset, FS_CardinalityType, ConstantsAssumption

LEMMA OneCancelPerChannel ==
  ASSUME TypeOK
  PROVE  LET held == {a \in Attempts : tracked[a[1]] = a[2]}
         IN  IsFiniteSet(held) /\ Cardinality(held) <= N
<1> DEFINE held == {a \in Attempts : tracked[a[1]] = a[2]}
           f == [a \in held |-> a[1]]
<1>1. f \in Injection(held, Channels)
  <2>1. f \in [held -> Channels]
    BY DEF Attempts
  <2>2. ASSUME NEW a \in held, NEW b \in held, f[a] = f[b]
        PROVE  a = b
    <3>1. a[1] = b[1] /\ a[2] = b[2]
      BY <2>2
    <3> QED BY <3>1 DEF Attempts
  <2> QED BY <2>1, <2>2 DEF Injection, IsInjective
<1>2. IsFiniteSet(Channels) /\ Cardinality(Channels) <= N
  BY ChannelSets, ConstantsAssumption
<1>3. IsFiniteSet(held) /\ Cardinality(held) <= Cardinality(Channels)
  BY <1>1, <1>2, FS_Injection
<1> HIDE DEF held
<1>4. Cardinality(held) \in Nat /\ Cardinality(Channels) \in Nat
  BY <1>2, <1>3, FS_CardinalityType
<1> QED BY <1>2, <1>3, <1>4, ConstantsAssumption DEF held

LEMMA HeldStep == TypeOK /\ HeldInv /\ [Next]_vars => HeldInv'
<1> SUFFICES ASSUME TypeOK, HeldInv, [Next]_vars PROVE HeldInv'
  OBVIOUS
<1>1. CASE CallStop
  BY <1>1, OneCancelPerChannel DEF CallStop, HeldInv
<1>2. CASE StopCancelStart
  <2>1. PICK a \in toCancel : toCancel' = toCancel \ {a}
    BY <1>2 DEF StopCancelStart
  <2>2. /\ IsFiniteSet(toCancel \ {a})
        /\ Cardinality(toCancel \ {a}) = Cardinality(toCancel) - 1
        /\ Cardinality(toCancel) \in Nat
    BY FS_RemoveElement, FS_CardinalityType DEF HeldInv
  <2> QED BY <2>1, <2>2, ConstantsAssumption DEF HeldInv
<1>3. CASE UNCHANGED toCancel
  BY <1>3 DEF HeldInv
<1>4. CASE StartStep
  BY <1>3, <1>4 DEF StartStep, StartSkipRunning, StartSeesStopped, StartSkipInFlight,
                    StartLaunch, StartReturn
<1>5. CASE StopStep
  BY <1>2, <1>3, <1>5 DEF StopStep, StopVisitChannels, StopSkipStopped, StopChannelCancel,
                          StopChannelShut, StopChannelOk, StopChannelErr, StopReturn
<1>6. CASE StartGoroutines
  BY <1>3, <1>6 DEF StartGoroutines, StartGoroutine, Background, callerVars, Enter, Spawn,
                    Open, Fail, Succeed, Clear, LoopExit, Breaks
<1>7. CASE CallStart \/ ShutdownSignal \/ UNCHANGED vars
  BY <1>3, <1>7 DEF CallStart, ShutdownSignal, vars, callerVars
<1> QED BY <1>1, <1>4, <1>5, <1>6, <1>7 DEF Next, StartGoroutines, Background

\* StepsLeft is a number of steps, and no call begins with more than this.
LEMMA StepsBounded == TypeOK /\ HeldInv => StepsLeft \in 0..(4 * N + 2)
<1> SUFFICES ASSUME TypeOK, HeldInv PROVE StepsLeft \in 0..(4 * N + 2)
  OBVIOUS
<1>1. Cardinality(todo) \in 0..N
  BY ChannelSets DEF TypeOK
<1>2. Cardinality(toCancel) \in 0..N
  BY FS_CardinalityType, ConstantsAssumption DEF HeldInv
<1>3. CASE caller = "stopFlag"
  <2>1. IsFiniteSet(todo) /\ todo # {}
    BY <1>3, ChannelSets DEF TypeOK
  <2>2. Cardinality(todo) # 0
    BY <2>1, FS_EmptySet
  <2> QED BY <1>1, <1>3, <2>2, ConstantsAssumption DEF StepsLeft
<1>4. CASE caller # "stopFlag"
  BY <1>1, <1>2, <1>4, ConstantsAssumption DEF StepsLeft
<1> QED BY <1>3, <1>4

LEMMA CallStepAdvances ==
  ASSUME TypeOK, HeldInv, StartStep \/ StopStep
  PROVE  StepsLeft' < StepsLeft
<1>1. Cardinality(todo) \in 0..N /\ IsFiniteSet(todo)
  BY ChannelSets DEF TypeOK
<1>2. Cardinality(toCancel) \in 0..N /\ IsFiniteSet(toCancel)
  BY FS_CardinalityType, ConstantsAssumption DEF HeldInv
<1>3. ASSUME NEW c \in todo
      PROVE  Cardinality(todo \ {c}) = Cardinality(todo) - 1
  BY <1>1, FS_RemoveElement
<1>4. ASSUME NEW c \in todo, todo' = todo \ {c}
      PROVE  Cardinality(todo') = Cardinality(todo) - 1
  BY <1>3, <1>4
<1> USE ConstantsAssumption DEF StepsLeft
<1>5. CASE StartSkipRunning \/ StopSkipStopped
  BY <1>1, <1>4, <1>5 DEF StartSkipRunning, StopSkipStopped
<1>6. CASE StartSeesStopped \/ StopChannelCancel
  BY <1>1, <1>6 DEF StartSeesStopped, StopChannelCancel
<1>7. CASE StartSkipInFlight \/ StartLaunch \/ StopChannelOk \/ StopChannelErr
  <2>1. at \in todo /\ todo' = todo \ {at} /\ caller \in {"startCheck", "stopFlag"}
        /\ caller' \in {"startLoop", "stopLoop"}
    BY <1>7 DEF TypeOK, StartSkipInFlight, StartLaunch, StopChannelOk, StopChannelErr
  <2>2. Cardinality(todo') = Cardinality(todo) - 1
    BY <2>1, <1>4
  <2> QED BY <1>1, <2>1, <2>2
<1>8. CASE StartReturn \/ StopReturn
  BY <1>1, <1>8 DEF StartReturn, StopReturn
<1>9. CASE StopCancelStart
  <2>1. PICK a \in toCancel : toCancel' = toCancel \ {a}
    BY <1>9 DEF StopCancelStart
  <2>2. Cardinality(toCancel') = Cardinality(toCancel) - 1
    BY <1>2, <2>1, FS_RemoveElement
  <2> QED BY <1>2, <1>9, <2>2 DEF StopCancelStart
<1>10. CASE StopVisitChannels
  <2>1. Cardinality(todo') \in 0..N
    BY <1>10, ChannelSets DEF StopVisitChannels, TypeOK
  <2> QED BY <1>2, <1>10, <2>1 DEF StopVisitChannels
<1>11. CASE StopChannelShut
  BY <1>1, <1>11 DEF StopChannelShut
<1> QED BY <1>5, <1>6, <1>7, <1>8, <1>9, <1>10, <1>11 DEF StartStep, StopStep

LEMMA OtherStepsWait ==
  ASSUME [Next]_vars, ~(StartStep \/ StopStep), caller # "idle"
  PROVE  StepsLeft' = StepsLeft
<1>1. UNCHANGED <<caller, todo, toCancel>>
  <2> USE DEF callerVars
  <2>1. CASE StartGoroutines
    BY <2>1 DEF StartGoroutines, StartGoroutine, Background, Enter, Spawn, Open, Fail, Succeed,
                Clear, LoopExit, Breaks
  <2>2. CASE CallStart \/ CallStop \/ ShutdownSignal \/ UNCHANGED vars
    BY <2>2 DEF CallStart, CallStop, ShutdownSignal, vars
  <2> QED BY <2>1, <2>2 DEF Next, StartGoroutines, Background
<1> QED BY <1>1 DEF StepsLeft

\* A call of Start or Stop makes at most 4N + 2 steps of its own, however the
\* channels behave meanwhile: none of its steps waits for a platform, repeats
\* or is undone.  With the fairness of these steps this is why CallsReturn
\* holds.
THEOREM CallsAreShort ==
  Spec => [](StepsLeft \in 0..(4 * N + 2)) /\ [][CallAdvances]_vars
<1>1. Init => TypeOK /\ HeldInv
  BY TypeInit, FS_EmptySet, ConstantsAssumption DEF Init, HeldInv
<1>2. TypeOK /\ HeldInv /\ [Next]_vars => (TypeOK /\ HeldInv)'
  BY TypeStep, HeldStep
<1>3. (TypeOK /\ HeldInv)' => (StepsLeft \in Nat)'
  <2>1. TypeOK /\ HeldInv => StepsLeft \in Nat
    BY StepsBounded
  <2> QED BY <2>1, PTL
<1>4. TypeOK /\ HeldInv /\ [Next]_vars => [CallAdvances]_vars
  <2> SUFFICES ASSUME TypeOK, HeldInv, [Next]_vars PROVE CallAdvances
    OBVIOUS
  <2>1. StepsLeft \in Nat
    BY StepsBounded
  <2> HIDE DEF StepsLeft
  <2>2. StartStep \/ StopStep => StepsLeft' < StepsLeft
    BY CallStepAdvances
  <2>3. StepsLeft' \in Nat
    BY <1>2, <1>3
  <2> QED BY <2>1, <2>2, <2>3, OtherStepsWait DEF CallAdvances
<1> QED BY <1>1, <1>2, <1>4, StepsBounded, PTL DEF Spec
=============================================================================
