---------------------------- MODULE ClientRegistry ----------------------------
(***************************************************************************)
(* WebSocket clients of the gateway (internal/gateway/client.go, the       *)
(* clients map of server.go): for each connection a reader and a pinger    *)
(* goroutine, either of which may close it, while Server.Stop closes all   *)
(* the clients it has listed.  Close may be entered by the three at once.  *)
(***************************************************************************)
EXTENDS FiniteSets, Naturals

CONSTANTS
  Conns,       \* connections that may be accepted
  Sessions     \* values of the "session" query parameter clients share

None    == "none"
Closers == {"reader", "pinger", "server"}
\* A connection without a session gets an id of its own, here its own name.
Ids     == Sessions \cup Conns

ASSUME ConstantsAssumption == Sessions \cap Conns = {} /\ None \notin Ids

VARIABLES
  session,     \* Client.ID
  registry,    \* Server.clients
  conn,        \* the network connection
  peer,        \* TRUE while the peer answers
  closeChan,   \* TRUE once closeChan is closed
  reader,      \* the goroutine in Handle
  pinger,      \* the goroutine in pingLoop
  closing,     \* where in Close each possible caller of it is
  stop,        \* Server.Stop
  toClose,     \* clients of its snapshot it has not closed yet
  crashed      \* a goroutine closed a closed channel: the process has died

accept == <<session, peer>>
loops  == <<reader, pinger>>
stopV  == <<stop, toClose>>
vars   == <<accept, registry, conn, closeChan, loops, closing, stopV, crashed>>

TypeOK ==
  /\ session \in [Conns -> Ids \cup {None}]
  /\ registry \in [Ids -> Conns \cup {None}]
  /\ conn \in [Conns -> {"new", "open", "closed"}] /\ peer \in [Conns -> BOOLEAN]
  /\ closeChan \in [Conns -> BOOLEAN]
  /\ reader \in [Conns -> {"none", "start", "serving", "closing", "done"}]
  /\ pinger \in [Conns -> {"none", "wait", "closing", "done"}]
  /\ closing \in [Conns -> [Closers -> {"no", "close", "conn", "remove"}]]
  /\ stop \in {"no", "closing", "shut"} /\ toClose \subseteq Conns
  /\ crashed \in BOOLEAN
  /\ \A c \in Conns :
       /\ conn[c] = "new" <=> session[c] = None
       /\ conn[c] = "closed" => closeChan[c]

Init ==
  /\ session = [c \in Conns |-> None] /\ registry = [i \in Ids |-> None]
  /\ conn = [c \in Conns |-> "new"] /\ peer = [c \in Conns |-> TRUE]
  /\ closeChan = [c \in Conns |-> FALSE]
  /\ reader = [c \in Conns |-> "none"] /\ pinger = [c \in Conns |-> "none"]
  /\ closing = [c \in Conns |-> [k \in Closers |-> "no"]]
  /\ stop = "no" /\ toClose = {} /\ crashed = FALSE

-----------------------------------------------------------------------------
(* Connections.                                                            *)

\* Mutant: the entry is made under the raw query parameter, which is the same
\* for every connection without a session.
ConnectRawKey(c) ==
  /\ conn[c] = "new" /\ stop # "shut"
  /\ \E i \in Sessions \cup {c} :
       /\ session' = [session EXCEPT ![c] = i]
       /\ \E j \in Sessions : (i = c \/ j = i) /\ registry' = [registry EXCEPT ![j] = c]
  /\ conn' = [conn EXCEPT ![c] = "open"] /\ reader' = [reader EXCEPT ![c] = "start"]
  /\ UNCHANGED <<peer, closeChan, pinger, closing, stopV, crashed>>

\* handleWebSocket: a second connection with the same session takes the entry.
Connect(c) ==
  /\ conn[c] = "new" /\ stop # "shut"
  /\ \E i \in Sessions \cup {c} :
       session' = [session EXCEPT ![c] = i] /\ registry' = [registry EXCEPT ![i] = c]
  /\ conn' = [conn EXCEPT ![c] = "open"] /\ reader' = [reader EXCEPT ![c] = "start"]
  /\ UNCHANGED <<peer, closeChan, pinger, closing, stopV, crashed>>

\* The peer hangs up or falls silent.
PeerGoes(c) ==
  /\ conn[c] = "open" /\ peer[c] /\ peer' = [peer EXCEPT ![c] = FALSE]
  /\ UNCHANGED <<session, registry, conn, closeChan, loops, closing, stopV, crashed>>

-----------------------------------------------------------------------------
(* Close, called by k for client c.                                        *)

\* What the caller does when Close returns.
Left(c, k) ==
  /\ closing' = [closing EXCEPT ![c][k] = "no"]
  /\ reader' = IF k = "reader" THEN [reader EXCEPT ![c] = "done"] ELSE reader
  /\ pinger' = IF k = "pinger" THEN [pinger EXCEPT ![c] = "done"] ELSE pinger
  /\ toClose' = IF k = "server" THEN toClose \ {c} ELSE toClose

\* The select on closeChan: it is already closed, or this call will close it.
CallClose(c, k) ==
  \/ closeChan[c] /\ Left(c, k)
  \/ /\ ~closeChan[c]
     /\ closing' = [closing EXCEPT ![c][k] = "close"]
     /\ reader' = IF k = "reader" THEN [reader EXCEPT ![c] = "closing"] ELSE reader
     /\ pinger' = IF k = "pinger" THEN [pinger EXCEPT ![c] = "closing"] ELSE pinger
     /\ UNCHANGED toClose

\* Another caller may have closed the channel since the check.
CloseChannel(c, k) ==
  /\ closing[c][k] = "close"
  /\ crashed' = closeChan[c]
  /\ closeChan' = [closeChan EXCEPT ![c] = TRUE]
  /\ closing' = [closing EXCEPT ![c][k] = "conn"]
  /\ UNCHANGED <<accept, registry, conn, loops, stopV>>

\* Mutant: a failing Conn.Close makes Close return before removeClient.
CloseConnGivesUp(c, k) ==
  /\ closing[c][k] = "conn"
  /\ conn' = [conn EXCEPT ![c] = "closed"]
  /\ IF peer[c] THEN closing' = [closing EXCEPT ![c][k] = "remove"]
                     /\ UNCHANGED <<reader, pinger, toClose>>
                ELSE Left(c, k)
  /\ UNCHANGED <<accept, registry, closeChan, stop, crashed>>

CloseConn(c, k) ==
  /\ closing[c][k] = "conn"
  /\ conn' = [conn EXCEPT ![c] = "closed"]
  /\ closing' = [closing EXCEPT ![c][k] = "remove"]
  /\ UNCHANGED <<accept, registry, closeChan, loops, stopV, crashed>>

\* Mutant: Stop holds clientsMutex while it closes the clients.
CloseRemoveWaits(c, k) ==
  /\ closing[c][k] = "remove" /\ stop # "closing"
  /\ registry' = [registry EXCEPT ![session[c]] = None]
  /\ Left(c, k)
  /\ UNCHANGED <<accept, conn, closeChan, stop, crashed>>

\* removeClient goes by id: it may drop the entry of a later connection.
CloseRemove(c, k) ==
  /\ closing[c][k] = "remove"
  /\ registry' = [registry EXCEPT ![session[c]] = None]
  /\ Left(c, k)
  /\ UNCHANGED <<accept, conn, closeChan, stop, crashed>>

CloseStep(c, k) ==
  CloseChannel(c, k) \/ CloseConn(c, k) \/ CloseRemove(c, k)

-----------------------------------------------------------------------------
(* The reader (Handle).                                                    *)

Begin(c) ==
  /\ reader[c] = "start"
  /\ reader' = [reader EXCEPT ![c] = "serving"] /\ pinger' = [pinger EXCEPT ![c] = "wait"]
  /\ UNCHANGED <<accept, registry, conn, closeChan, closing, stopV, crashed>>

\* Handle leaves its loop when it sees closeChan closed or ReadJSON fails, and
\* may do so at any time: the peer may send what is not JSON.  Messages change
\* nothing here: they are answered or logged, and a write ends within writeWait.
HandleEnds(c) ==
  /\ reader[c] = "serving" /\ CallClose(c, "reader")
  /\ UNCHANGED <<accept, registry, conn, closeChan, stop, crashed>>

\* ReadJSON fails for sure on a closed connection, and within pongWait when the
\* peer does not answer pings.
ReadMustFail(c) == reader[c] = "serving" /\ (conn[c] = "closed" \/ ~peer[c])

-----------------------------------------------------------------------------
(* The pinger (pingLoop).                                                  *)

PingStops(c) ==
  /\ pinger[c] = "wait" /\ closeChan[c]
  /\ pinger' = [pinger EXCEPT ![c] = "done"]
  /\ UNCHANGED <<accept, registry, conn, closeChan, reader, closing, stopV, crashed>>

\* A tick finds the connection broken; one that does not changes nothing.  The
\* tick may win the select although closeChan is closed.
PingFails(c) ==
  /\ pinger[c] = "wait" /\ (conn[c] = "closed" \/ ~peer[c])
  /\ CallClose(c, "pinger")
  /\ UNCHANGED <<accept, registry, conn, closeChan, stop, crashed>>

-----------------------------------------------------------------------------
(* Server.Stop, from the snapshot of the clients on.                       *)

StopSnapshot ==
  /\ stop = "no" /\ stop' = "closing"
  /\ toClose' = {c \in Conns : \E i \in Ids : registry[i] = c}
  /\ UNCHANGED <<accept, registry, conn, closeChan, loops, closing, crashed>>

\* One client after the other.
StopCloses(c) ==
  /\ c \in toClose /\ \A d \in toClose : closing[d]["server"] = "no"
  /\ CallClose(c, "server")
  /\ UNCHANGED <<accept, registry, conn, closeChan, stop, crashed>>

\* httpServer.Shutdown ends the accepting; it does not wait for WebSockets.
StopShutdown ==
  /\ stop = "closing" /\ toClose = {} /\ stop' = "shut"
  /\ UNCHANGED <<accept, registry, conn, closeChan, loops, closing, toClose, crashed>>

-----------------------------------------------------------------------------
ReaderStep(c) == Begin(c) \/ CloseStep(c, "reader")
PingerStep(c) == PingStops(c) \/ PingFails(c) \/ CloseStep(c, "pinger")
StopStep      == StopShutdown \/ \E c \in Conns : StopCloses(c) \/ CloseStep(c, "server")

Next ==
  /\ ~crashed
  /\ \/ \E c \in Conns : Connect(c) \/ PeerGoes(c) \/ ReaderStep(c) \/ HandleEnds(c)
                           \/ PingerStep(c)
     \/ StopSnapshot \/ StopStep

Spec == Init /\ [][Next]_vars

-----------------------------------------------------------------------------
(* Properties.                                                             *)

Serving(c)  == reader[c] \notin {"none", "closing", "done"}
MidClose(c) == \E k \in Closers : closing[c][k] \in {"conn", "remove"}

\* /status counts, and Stop closes, no client that is gone: once a Close of it
\* has returned nothing lists a client any more, whoever called it and whoever
\* else was in Close at the time.
NoGhostClients ==
  ~crashed =>
    \A c \in Conns : closeChan[c] /\ ~MidClose(c) => \A i \in Ids : registry[i] # c

\* A client with an id of its own is listed for as long as it is served and
\* nobody has begun to close it: no other client's Close can unlist it.
OwnIdIsListed ==
  \A c \in Conns : session[c] = c /\ Serving(c) /\ ~closeChan[c] => registry[c] = c

\* "Already closing" (client.go 176): Close may be called again, by another
\* goroutine, and the second call does nothing.
CloseIsIdempotent == ~crashed
=============================================================================
