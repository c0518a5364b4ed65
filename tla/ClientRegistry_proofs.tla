------------------------- MODULE ClientRegistry_proofs -------------------------
(***************************************************************************)
(* Proofs about ClientRegistry and GatewayLifecycle.  What a client id, an *)
(* entry of the map and a Close under way say of each other is inductive;  *)
(* from it follow the two facts about the map, for any number of           *)
(* connections and sessions.  A run of the gateway is one of ClientRegistry*)
(* with steps of the main goroutine in between, so it inherits them.       *)
(***************************************************************************)
EXTENDS GatewayLifecycle, TLAPS

\* A connection that has not been accepted is known to nobody.
NewInv ==
  \A c \in Conns : session[c] = None =>
    /\ reader[c] = "none" /\ pinger[c] = "none" /\ ~closeChan[c] /\ c \notin toClose
    /\ \A k \in Closers : closing[c][k] = "no"
    /\ \A i \in Ids : registry[i] # c

\* A client is listed under its own id, which it shares by session only.
ListInv ==
  /\ \A c \in Conns : session[c] \in Sessions \cup {c, None}
  /\ \A c \in Conns, i \in Ids : registry[i] = c => session[c] = i

\* Whoever is past close(closeChan) finds it closed, and a goroutine that is in
\* Close does nothing else.
CloseInv ==
  \A c \in Conns :
    /\ MidClose(c) => closeChan[c]
    /\ closing[c]["reader"] # "no" => reader[c] = "closing"
    /\ closing[c]["pinger"] # "no" => pinger[c] = "closing"
    /\ reader[c] \in {"none", "start"} => pinger[c] = "none"

BaseInv == TypeOK /\ NewInv /\ ListInv /\ CloseInv

Ghosts == \A c \in Conns : closeChan[c] /\ ~MidClose(c) => \A i \in Ids : registry[i] # c

-----------------------------------------------------------------------------
LEMMA BaseInit == Init => BaseInv /\ Ghosts /\ OwnIdIsListed
<1> SUFFICES ASSUME Init PROVE BaseInv /\ Ghosts /\ OwnIdIsListed
  OBVIOUS
<1> USE ConstantsAssumption DEF Init
<1>1. TypeOK
  BY DEF TypeOK, Ids, None
<1>2. NewInv /\ ListInv
  BY DEF NewInv, ListInv, Ids
<1>3. CloseInv /\ Ghosts
  BY DEF CloseInv, MidClose, Ghosts, Closers
<1>4. OwnIdIsListed
  BY DEF OwnIdIsListed, Serving
<1> QED
  BY <1>1, <1>2, <1>3, <1>4 DEF BaseInv

\* Returning from Close, with or without removeClient.
LEMMA LeftStep ==
  ASSUME BaseInv, NEW c \in Conns, NEW k \in Closers, Left(c, k), session[c] # None,
         registry' = registry \/ registry' = [registry EXCEPT ![session[c]] = None],
         UNCHANGED <<session, peer, conn, closeChan, stop, crashed>>,
         k = "pinger" => reader[c] \notin {"none", "start"}
  PROVE  BaseInv'
<1> USE ConstantsAssumption DEF BaseInv
<1>1. TypeOK'
  <2>1. registry' \in [Ids -> Conns \cup {None}]
    BY DEF TypeOK
  <2>2. closing' \in [Conns -> [Closers -> {"no", "close", "conn", "remove"}]]
    BY DEF TypeOK, Left
  <2>3. /\ reader' \in [Conns -> {"none", "start", "serving", "closing", "done"}]
        /\ pinger' \in [Conns -> {"none", "wait", "closing", "done"}]
        /\ toClose' \subseteq Conns
    BY DEF TypeOK, Left
  <2> QED
    BY <2>1, <2>2, <2>3 DEF TypeOK
<1>2. \A d \in Conns, i \in Ids : registry'[i] = d => registry[i] = d
  BY DEF TypeOK, Ids
<1>3. \A d \in Conns, j \in Closers : closing'[d][j] \in {closing[d][j], "no"}
  BY DEF TypeOK, Left
<1>4. \A d \in Conns : d # c => reader'[d] = reader[d] /\ pinger'[d] = pinger[d]
  BY DEF TypeOK, Left
<1>5. toClose' \subseteq toClose
  BY DEF Left
<1>6. NewInv'
  BY <1>2, <1>3, <1>4, <1>5 DEF NewInv, TypeOK
<1>7. ListInv'
  BY <1>2 DEF ListInv
<1>8. /\ k = "reader" => closing'[c]["reader"] = "no"
      /\ k = "pinger" => closing'[c]["pinger"] = "no"
      /\ k # "reader" => reader' = reader
      /\ k # "pinger" => pinger' = pinger
      /\ k = "reader" => reader'[c] = "done"
  BY DEF TypeOK, Left
<1>9. CloseInv'
  <2>1. ASSUME NEW d \in Conns PROVE MidClose(d)' => closeChan'[d]
    BY <1>3 DEF CloseInv, MidClose
  <2>2. ASSUME NEW d \in Conns PROVE closing'[d]["reader"] # "no" => reader'[d] = "closing"
    BY <1>3, <1>4, <1>8 DEF CloseInv, Closers
  <2>3. ASSUME NEW d \in Conns PROVE closing'[d]["pinger"] # "no" => pinger'[d] = "closing"
    BY <1>3, <1>4, <1>8 DEF CloseInv, Closers
  <2>4. ASSUME NEW d \in Conns PROVE reader'[d] \in {"none", "start"} => pinger'[d] = "none"
    BY <1>4, <1>8 DEF CloseInv, Closers
  <2> QED
    BY <2>1, <2>2, <2>3, <2>4 DEF CloseInv
<1> QED
  BY <1>1, <1>6, <1>7, <1>9

\* Calling Close.
LEMMA CallStep ==
  ASSUME BaseInv, NEW c \in Conns, NEW k \in Closers, CallClose(c, k), session[c] # None,
         UNCHANGED <<session, peer, registry, conn, closeChan, stop, crashed>>,
         k = "pinger" => reader[c] \notin {"none", "start"}
  PROVE  BaseInv'
<1>1. CASE Left(c, k)
  BY <1>1, LeftStep
<1>2. CASE ~Left(c, k)
  <2> USE DEF BaseInv
  <2>1. /\ closing' = [closing EXCEPT ![c][k] = "close"]
        /\ reader' = IF k = "reader" THEN [reader EXCEPT ![c] = "closing"] ELSE reader
        /\ pinger' = IF k = "pinger" THEN [pinger EXCEPT ![c] = "closing"] ELSE pinger
        /\ toClose' = toClose
    BY <1>2 DEF CallClose
  <2>2. TypeOK'
    BY <2>1 DEF TypeOK
  <2>3. NewInv' /\ ListInv'
    BY <2>1 DEF NewInv, ListInv, TypeOK
  <2>4. CloseInv'
    BY <2>1 DEF CloseInv, MidClose, TypeOK, Closers
  <2> QED
    BY <2>2, <2>3, <2>4
<1> QED
  BY <1>1, <1>2

LEMMA BaseStep == BaseInv /\ [Next]_vars => BaseInv'
<1> SUFFICES ASSUME BaseInv, [Next]_vars PROVE BaseInv'
  OBVIOUS
<1> USE ConstantsAssumption
    DEF BaseInv, TypeOK, NewInv, ListInv, CloseInv, MidClose, accept, loops, stopV
<1>1. ASSUME NEW c \in Conns, Connect(c) PROVE BaseInv'
  BY <1>1 DEF Connect, Ids
<1>2. ASSUME NEW c \in Conns, PeerGoes(c) PROVE BaseInv'
  BY <1>2 DEF PeerGoes
<1>3. ASSUME NEW c \in Conns, NEW k \in Closers, CloseChannel(c, k) PROVE BaseInv'
  BY <1>3 DEF CloseChannel
<1>4. ASSUME NEW c \in Conns, NEW k \in Closers, CloseConn(c, k) PROVE BaseInv'
  BY <1>4 DEF CloseConn
<1>5. ASSUME NEW c \in Conns, NEW k \in Closers, CloseRemove(c, k) PROVE BaseInv'
  <2>1. session[c] # None
    BY <1>5 DEF CloseRemove
  <2>2. k = "pinger" => reader[c] \notin {"none", "start"}
    BY <1>5 DEF CloseRemove
  <2> QED
    BY <1>5, <2>1, <2>2, LeftStep DEF CloseRemove
<1>6. ASSUME NEW c \in Conns, Begin(c) PROVE BaseInv'
  BY <1>6 DEF Begin
<1>7. ASSUME NEW c \in Conns, HandleEnds(c) PROVE BaseInv'
  <2>1. session[c] # None /\ "reader" \in Closers
    BY <1>7 DEF HandleEnds, Closers
  <2> QED
    BY <1>7, <2>1, CallStep DEF HandleEnds
<1>8. ASSUME NEW c \in Conns, PingStops(c) PROVE BaseInv'
  BY <1>8 DEF PingStops
<1>9. ASSUME NEW c \in Conns, PingFails(c) PROVE BaseInv'
  <2>1. session[c] # None /\ "pinger" \in Closers /\ reader[c] \notin {"none", "start"}
    BY <1>9 DEF PingFails, Closers
  <2> QED
    BY <1>9, <2>1, CallStep DEF PingFails
<1>10. CASE StopSnapshot
  BY <1>10 DEF StopSnapshot
<1>11. ASSUME NEW c \in Conns, StopCloses(c) PROVE BaseInv'
  <2>1. session[c] # None /\ "server" \in Closers
    BY <1>11 DEF StopCloses, Closers
  <2> QED
    BY <1>11, <2>1, CallStep DEF StopCloses
<1>12. CASE StopShutdown
  BY <1>12 DEF StopShutdown
<1>13. CASE UNCHANGED vars
  BY <1>13 DEF vars
<1>14. {"reader", "pinger", "server"} \subseteq Closers
  BY DEF Closers
<1> QED
  BY <1>1, <1>2, <1>3, <1>4, <1>5, <1>6, <1>7, <1>8, <1>9, <1>10, <1>11, <1>12, <1>13, <1>14
     DEF Next, ReaderStep, PingerStep, StopStep, CloseStep

\* What the process does from Init on keeps BaseInv.
LEMMA BaseCorrect == Spec => []BaseInv
<1>1. Init => BaseInv
  BY BaseInit
<1>2. BaseInv /\ [Next]_vars => BaseInv'
  BY BaseStep
<1> QED
  BY <1>1, <1>2, PTL DEF Spec

\* Type correctness; in particular a connection is closed only after its
\* closeChan, so the reader's error finds the reason.
THEOREM TypeCorrect == Spec => []TypeOK
<1>1. BaseInv => TypeOK
  BY DEF BaseInv
<1> QED
  BY <1>1, BaseCorrect, PTL

-----------------------------------------------------------------------------
\* MidClose goes by where the callers of Close are.
LEMMA MidCloseKept ==
  ASSUME NEW d \in Conns, \A j \in Closers : closing'[d][j] = closing[d][j]
  PROVE  MidClose(d)' <=> MidClose(d)
BY DEF MidClose

\* Only removeClient ends a Close that got past closeChan, and it takes every
\* entry of the client away.
LEMMA GhostStep == BaseInv /\ Ghosts /\ [Next]_vars => Ghosts'
<1> SUFFICES ASSUME BaseInv, Ghosts, [Next]_vars PROVE Ghosts'
  OBVIOUS
<1> USE ConstantsAssumption DEF BaseInv, TypeOK, NewInv, ListInv, Ghosts, MidClose, accept, loops, stopV
<1>1. ASSUME NEW c \in Conns, Connect(c) PROVE Ghosts'
  BY <1>1 DEF Connect
<1>2. ASSUME NEW c \in Conns, PeerGoes(c) PROVE Ghosts'
  BY <1>2 DEF PeerGoes
<1>3. ASSUME NEW c \in Conns, NEW k \in Closers, CloseChannel(c, k) PROVE Ghosts'
  BY <1>3 DEF CloseChannel
<1>4. ASSUME NEW c \in Conns, NEW k \in Closers, CloseConn(c, k) PROVE Ghosts'
  BY <1>4 DEF CloseConn
<1>5. ASSUME NEW c \in Conns, NEW k \in Closers, CloseRemove(c, k) PROVE Ghosts'
  <2>1. \A i \in Ids : registry'[i] # c
    BY <1>5 DEF CloseRemove, Ids
  <2>2. \A d \in Conns, i \in Ids : registry'[i] = d => registry[i] = d
    BY <1>5 DEF CloseRemove, Ids
  <2>3. \A d \in Conns \ {c}, j \in Closers : closing'[d][j] = closing[d][j]
    BY <1>5 DEF CloseRemove, Left
  <2>4. closeChan' = closeChan
    BY <1>5 DEF CloseRemove
  <2>5. \A d \in Conns \ {c} : MidClose(d)' <=> MidClose(d)
    BY <2>3, MidCloseKept
  <2> QED
    BY <2>1, <2>2, <2>4, <2>5
<1>6. ASSUME NEW c \in Conns, Begin(c) PROVE Ghosts'
  BY <1>6 DEF Begin
<1>7. ASSUME NEW c \in Conns, NEW k \in Closers, CallClose(c, k), closing[c][k] = "no",
             UNCHANGED <<registry, closeChan>>
      PROVE  Ghosts'
  <2>1. \A d \in Conns, j \in Closers :
          closing[d][j] \in {"conn", "remove"} => closing'[d][j] = closing[d][j]
    <3>1. PICK x \in {"no", "close"} : closing' = [closing EXCEPT ![c][k] = x]
      BY <1>7 DEF CallClose, Left
    <3> QED
      BY <1>7, <3>1
  <2>2. \A d \in Conns : MidClose(d) => MidClose(d)'
    BY <2>1 DEF MidClose
  <2> QED
    BY <1>7, <2>2
<1>8. ASSUME NEW c \in Conns, PingStops(c) PROVE Ghosts'
  BY <1>8 DEF PingStops
<1>9. CASE StopSnapshot \/ StopShutdown
  BY <1>9 DEF StopSnapshot, StopShutdown
<1>10. CASE UNCHANGED vars
  BY <1>10 DEF vars
<1>11. ASSUME NEW c \in Conns, HandleEnds(c) PROVE Ghosts'
  <2>1. closing[c]["reader"] = "no" /\ "reader" \in Closers
    BY <1>11 DEF HandleEnds, CloseInv, Closers
  <2> QED
    BY <1>7, <1>11, <2>1 DEF HandleEnds
<1>12. ASSUME NEW c \in Conns, PingFails(c) PROVE Ghosts'
  <2>1. closing[c]["pinger"] = "no" /\ "pinger" \in Closers
    BY <1>12 DEF PingFails, CloseInv, Closers
  <2> QED
    BY <1>7, <1>12, <2>1 DEF PingFails
<1>13. ASSUME NEW c \in Conns, StopCloses(c) PROVE Ghosts'
  <2>1. closing[c]["server"] = "no" /\ "server" \in Closers
    BY <1>13 DEF StopCloses, Closers
  <2> QED
    BY <1>7, <1>13, <2>1 DEF StopCloses
<1>14. {"reader", "pinger", "server"} \subseteq Closers
  BY DEF Closers
<1> QED
  BY <1>1, <1>2, <1>3, <1>4, <1>5, <1>6, <1>8, <1>9, <1>10, <1>11, <1>12, <1>13, <1>14
     DEF Next, ReaderStep, PingerStep, StopStep, CloseStep

\* No entry outlives its client: whichever of the reader, the pinger and Stop
\* close it, and however their Close calls overlap, for any number of clients.
THEOREM NoGhosts == Spec => []NoGhostClients
<1>1. Init => Ghosts
  BY BaseInit
<1>2. BaseInv /\ Ghosts /\ [Next]_vars => Ghosts'
  BY GhostStep
<1>3. Ghosts => NoGhostClients
  BY DEF Ghosts, NoGhostClients
<1> QED
  BY <1>1, <1>2, <1>3, BaseCorrect, PTL DEF Spec

-----------------------------------------------------------------------------
\* Another connection may take or drop an entry only under an id of its own.
LEMMA OwnStep == BaseInv /\ OwnIdIsListed /\ [Next]_vars => OwnIdIsListed'
<1> SUFFICES ASSUME BaseInv, OwnIdIsListed, [Next]_vars,
                    NEW d \in Conns, session'[d] = d, Serving(d)', ~closeChan'[d]
             PROVE  registry'[d] = d
  BY DEF OwnIdIsListed
<1> USE ConstantsAssumption
    DEF BaseInv, TypeOK, ListInv, NewInv, OwnIdIsListed, Serving, Ids, accept, loops, stopV
<1>1. ASSUME NEW c \in Conns, Connect(c) PROVE registry'[d] = d
  <2>1. PICK i \in Sessions \cup {c} :
          session' = [session EXCEPT ![c] = i] /\ registry' = [registry EXCEPT ![i] = c]
    BY <1>1 DEF Connect
  <2>2. CASE d = c
    BY <2>1, <2>2
  <2>3. CASE d # c
    BY <1>1, <2>1, <2>3 DEF Connect
  <2> QED
    BY <2>2, <2>3
<1>2. ASSUME NEW c \in Conns, NEW k \in Closers, CloseRemove(c, k) PROVE registry'[d] = d
  <2>1. MidClose(c) /\ closeChan[c]
    BY <1>2 DEF CloseRemove, MidClose, CloseInv
  <2>2. d # c /\ session[d] = d /\ session[c] # d
    BY <1>2, <2>1 DEF CloseRemove
  <2>3. registry'[d] = registry[d] /\ reader'[d] = reader[d]
    BY <1>2, <2>2 DEF CloseRemove, Left
  <2> QED
    BY <1>2, <2>2, <2>3 DEF CloseRemove
<1>3. ASSUME NEW c \in Conns, NEW k \in Closers, CallClose(c, k), session[c] # None,
             UNCHANGED <<session, registry, closeChan>>,
             k = "reader" => reader[c] = "serving"
      PROVE  registry'[d] = d
  <2>1. reader[d] \notin {"none", "closing", "done"}
    BY <1>3 DEF CallClose, Left
  <2> QED
    BY <1>3, <2>1
<1>4. ASSUME NEW c \in Conns, HandleEnds(c) \/ PingFails(c) \/ StopCloses(c)
      PROVE  registry'[d] = d
  <2>1. session[c] # None
    BY <1>4 DEF HandleEnds, PingFails, StopCloses
  <2> QED
    BY <1>3, <1>4, <2>1 DEF HandleEnds, PingFails, StopCloses, Closers
<1>5. ASSUME NEW c \in Conns, PeerGoes(c) \/ Begin(c) \/ PingStops(c) PROVE registry'[d] = d
  BY <1>5 DEF PeerGoes, Begin, PingStops
<1>6. ASSUME NEW c \in Conns, NEW k \in Closers, CloseChannel(c, k) \/ CloseConn(c, k)
      PROVE  registry'[d] = d
  BY <1>6 DEF CloseChannel, CloseConn
<1>7. CASE StopSnapshot \/ StopShutdown \/ UNCHANGED vars
  BY <1>7 DEF StopSnapshot, StopShutdown, vars
<1>8. {"reader", "pinger", "server"} \subseteq Closers
  BY DEF Closers
<1> QED
  BY <1>1, <1>2, <1>4, <1>5, <1>6, <1>7, <1>8
     DEF Next, ReaderStep, PingerStep, StopStep, CloseStep

\* A client with an id of its own is listed while it is served.
THEOREM OwnIdsListed == Spec => []OwnIdIsListed
<1>1. Init => OwnIdIsListed
  BY BaseInit
<1>2. BaseInv /\ OwnIdIsListed /\ [Next]_vars => OwnIdIsListed'
  BY OwnStep
<1> QED
  BY <1>1, <1>2, BaseCorrect, PTL DEF Spec

-----------------------------------------------------------------------------
\* The gateway implements ClientRegistry: what main and the HTTP server do
\* besides leaves the clients alone.
LEMMA GatewayStep == [GNext]_gvars => [Next]_vars
<1> SUFFICES ASSUME [GNext]_gvars PROVE [Next]_vars
  OBVIOUS
<1>1. CASE Signal \/ ServerStart \/ Listen \/ StopBegins \/ StopChannels \/ UNCHANGED gvars
  BY <1>1 DEF Signal, ServerStart, Listen, StopBegins, StopChannels, gvars
<1>2. CASE ~crashed /\ (StopClients \/ Shutdown)
  BY <1>2 DEF StopClients, Shutdown, Next, StopStep
<1>3. CASE ~crashed /\ ClientStep
  BY <1>3 DEF ClientStep, Next
<1> QED
  BY <1>1, <1>2, <1>3 DEF GNext

\* Every run of the gateway, from its start to its exit code, is a run of its
\* clients as ClientRegistry describes them.
THEOREM GatewayRefines == GSpec => Spec
<1>1. GInit => Init
  BY DEF GInit
<1> QED
  BY <1>1, GatewayStep, PTL DEF GSpec, Spec

\* So no entry outlives its client in the gateway either.
THEOREM GatewayNoGhosts == GSpec => []NoGhostClients
BY GatewayRefines, NoGhosts

-----------------------------------------------------------------------------
\* What is known of the exit code before the exit: it is 1 only after an error,
\* and otherwise a signal has begun the stop.
LifeInv ==
  /\ LifeTypeOK
  /\ main \in {"start", "serve"} => code = 0
  /\ main # "exited" => code # RestartRequested
  /\ main \in {"stopping", "clients"} /\ code # 1 => signal # None
  /\ ExitTellsShutdown

LEMMA LifeInit == GInit => LifeInv
BY DEF GInit, LifeInv, LifeTypeOK, ExitTellsShutdown, RestartRequested

LEMMA LifeStep == LifeInv /\ [GNext]_gvars => LifeInv'
<1> SUFFICES ASSUME LifeInv, [GNext]_gvars PROVE LifeInv'
  OBVIOUS
<1> USE DEF LifeInv, LifeTypeOK, ExitTellsShutdown, RestartRequested, Signals, None
<1>1. CASE main # "exited" /\ Signal
  BY <1>1 DEF Signal
<1>2. CASE ServerStart
  BY <1>2 DEF ServerStart
<1>3. CASE main # "exited" /\ Listen
  BY <1>3 DEF Listen
<1>4. CASE StopBegins
  BY <1>4 DEF StopBegins
<1>5. CASE StopChannels
  BY <1>5 DEF StopChannels, Exit
<1>6. CASE StopClients
  BY <1>6 DEF StopClients, life
<1>7. CASE Shutdown
  BY <1>7 DEF Shutdown, StopShutdown, Exit
<1>8. CASE main # "exited" /\ ClientStep
  BY <1>8 DEF ClientStep, life
<1>9. CASE UNCHANGED gvars
  BY <1>9 DEF gvars, vars, life, stopV
<1> QED
  BY <1>1, <1>2, <1>3, <1>4, <1>5, <1>6, <1>7, <1>8, <1>9 DEF GNext

\* A restart is requested only by SIGHUP, and only by a process that has closed
\* every client its Stop listed and shut the HTTP server down.
THEOREM ExitTells == GSpec => []ExitTellsShutdown
<1>1. GInit => LifeInv
  BY LifeInit
<1>2. LifeInv /\ [GNext]_gvars => LifeInv'
  BY LifeStep
<1>3. LifeInv => ExitTellsShutdown
  BY DEF LifeInv
<1> QED
  BY <1>1, <1>2, <1>3, PTL DEF GSpec
=============================================================================
