--------------------------- MODULE GatewayLifecycle ---------------------------
(***************************************************************************)
(* The gateway from its start to its exit code (cmd/fractalbot/main.go,    *)
(* Start and Stop of internal/gateway/server.go) around the WebSocket      *)
(* clients of ClientRegistry, which only come while the HTTP server is up  *)
(* and are only closed by a Stop that gets that far.                       *)
(***************************************************************************)
EXTENDS ClientRegistry

Signals    == {"INT", "HUP"}     \* SIGTERM is treated like SIGINT
RestartRequested == 75

VARIABLES
  main,      \* where the main goroutine is
  http,      \* the HTTP server and its goroutine
  signal,    \* the signal that was observed, the first one
  code       \* exit code

life  == <<main, http, signal, code>>
gvars == <<vars, life>>

LifeTypeOK ==
  /\ main \in {"start", "serve", "stopping", "clients", "exited"}
  /\ http \in {"off", "starting", "listening", "failed", "closed"}
  /\ signal \in Signals \cup {None} /\ code \in {0, 1, RestartRequested}

GInit == Init /\ main = "start" /\ http = "off" /\ signal = None /\ code = 0

-----------------------------------------------------------------------------
\* The first signal cancels the context; later ones find nobody who reads them.
Signal ==
  /\ signal = None /\ signal' \in Signals
  /\ UNCHANGED <<vars, main, http, code>>

\* Server.Start: channels, agent manager, and the goroutine of the HTTP server;
\* after an error everything is stopped and the code is 1.
ServerStart ==
  /\ main = "start"
  /\ \/ main' = "serve" /\ http' = "starting" /\ UNCHANGED code
     \/ main' = "stopping" /\ code' = 1 /\ UNCHANGED http
  /\ UNCHANGED <<vars, signal>>

\* ListenAndServe; its error is logged and no more.
Listen ==
  /\ http = "starting" /\ http' \in {"listening", "failed"}
  /\ UNCHANGED <<vars, main, signal, code>>

StopBegins ==
  /\ main = "serve" /\ signal # None /\ main' = "stopping"
  /\ UNCHANGED <<vars, http, signal, code>>

\* exitCodeForShutdown.
Exit(c) == main' = "exited" /\ code' = IF c = 0 /\ signal = "HUP" THEN RestartRequested ELSE c

\* Mutant: the error of the channels is only logged.
StopChannelsGoesOn ==
  /\ main = "stopping"
  /\ \/ Exit(code)
     \/ main' = "clients" /\ UNCHANGED code
  /\ UNCHANGED <<vars, http, signal>>

\* Server.Stop returns at the first error of a channel or of the agent manager.
StopChannels ==
  /\ main = "stopping"
  /\ \/ Exit(1)
     \/ main' = "clients" /\ UNCHANGED code
  /\ UNCHANGED <<vars, http, signal>>

\* Then the clients, and Shutdown, which may give up after five seconds.
StopClients ==
  /\ main = "clients" /\ (StopSnapshot \/ \E c \in Conns : StopCloses(c) \/ CloseStep(c, "server"))
  /\ UNCHANGED life

Shutdown ==
  /\ main = "clients" /\ StopShutdown /\ http' = "closed"
  /\ \/ Exit(code) \/ Exit(1)
  /\ UNCHANGED signal

\* What the clients and their goroutines do meanwhile.
ClientStep ==
  /\ \E c \in Conns :
       \/ http = "listening" /\ Connect(c)
       \/ PeerGoes(c) \/ ReaderStep(c) \/ HandleEnds(c) \/ PingerStep(c)
  /\ UNCHANGED life

GNext ==
  /\ main # "exited" /\ ~crashed
  /\ \/ Signal \/ ServerStart \/ Listen \/ StopBegins \/ StopChannels \/ StopClients \/ Shutdown
     \/ ClientStep

\* Goroutines that can go on do; nothing says that clients come, go or write,
\* that the listener gets its port, or that a signal is sent.
Runs == main # "exited" /\ ~crashed

GFairness ==
  /\ \A c \in Conns :
       /\ WF_gvars(Runs /\ ReaderStep(c) /\ UNCHANGED life)
       /\ WF_gvars(Runs /\ ReadMustFail(c) /\ HandleEnds(c) /\ UNCHANGED life)
       /\ WF_gvars(Runs /\ PingerStep(c) /\ UNCHANGED life)
  /\ WF_gvars(Runs /\ (ServerStart \/ StopBegins \/ StopChannels \/ StopClients \/ Shutdown))

GSpec     == GInit /\ [][GNext]_gvars
GFairSpec == GSpec /\ GFairness

-----------------------------------------------------------------------------
(* Properties.                                                             *)

\* The code tells how the process ended: a restart is requested only after the
\* first signal was SIGHUP, and a code other than 1 means that the start
\* succeeded and all of Stop was done: each client that its snapshot listed was
\* closed, and no client can come any more.
ExitTellsShutdown ==
  main = "exited" =>
    /\ code = RestartRequested => signal = "HUP"
    /\ code = 0 => signal # "HUP"
    /\ code # 1 => signal # None /\ stop = "shut" /\ toClose = {} /\ http = "closed"

\* A signal ends the process, unless a goroutine has crashed it.
SignalEnds == signal # None ~> main = "exited" \/ crashed

\* Goroutines and entries of clients that are gone are cleaned up, unless the
\* process ends.
GoneIsCleanedUpInTime ==
  \A c \in Conns :
    closeChan[c] \/ ~peer[c] ~>
      \/ crashed \/ main = "exited"
      \/ reader[c] = "done" /\ pinger[c] = "done" /\ \A i \in Ids : registry[i] # c
=============================================================================
