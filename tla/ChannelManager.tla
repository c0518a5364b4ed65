--------------------------- MODULE ChannelManager ---------------------------
(***************************************************************************)
(* The lifecycle of the messaging channels: channels.Manager               *)
(* (internal/channels/manager.go) and the part of a channel's own Start    *)
(* and Stop that the manager depends on (slack.go, discord.go, feishu.go,  *)
(* telegram.go, imessage.go).                                              *)
(*                                                                         *)
(* Manager.Start does not wait for a channel: it launches channel.Start in *)
(* a goroutine and remembers how to cancel it under the channel's name     *)
(* (startCancels).  Manager.Stop first cancels every start it remembers    *)
(* and then stops the channels that report running.  Three parties         *)
(* interleave: the caller (one call at a time), the start goroutines and   *)
(* what a start leaves running in the background.  That differs from       *)
(* platform to platform, and so does what ends it:                         *)
(*   loop        a goroutine that watches its context (Slack, Telegram and *)
(*               iMessage polling);                                        *)
(*   server      Telegram's webhook server, which watches no context and   *)
(*               ends when the bot's Stop shuts it down;                   *)
(*   session     Discord's session, which the bot's Stop closes, or a      *)
(*               goroutine that waits for the context to end: closing a    *)
(*               session that is not open yet does nothing;                *)
(*   connection  Feishu's long connection, which nothing ends;             *)
(*   rejected    a configuration that the constructor refuses;             *)
(*   off         a channel that is not enabled.                            *)
(*                                                                         *)
(* The start that call k of Manager.Start launches for channel c is        *)
(* attempt <<c, k>>; it owns one context.                                  *)
(***************************************************************************)
EXTENDS Naturals

CONSTANTS
  N,          \* channels are 1..N, in the order they are registered
  Platforms,  \* the configurations: what each channel is
  MaxStarts,  \* how many times the caller calls Manager.Start (a bound)
  Restarts    \* does the caller ever call Start after Stop?

Kinds == {"loop", "server", "session", "connection", "rejected", "off"}

ASSUME ConstantsAssumption ==
  /\ N \in Nat \ {0}
  /\ MaxStarts \in Nat \ {0}
  /\ Platforms \subseteq [1..N -> Kinds]
  /\ Restarts \in BOOLEAN

Channels == 1..N
Calls    == 1..MaxStarts
Attempts == Channels \X Calls
None     == 0

VARIABLES
  platform,    \* what each channel is
  \* the caller of the manager
  caller,      \* where the caller is inside Manager.Start or Manager.Stop
  lastCall,    \* the last call it made
  starts,      \* Start calls made so far: the current one is call number starts
  todo,        \* channels the current call has yet to visit
  at,          \* the channel it is visiting
  stopErr,     \* the current Stop has collected an error
  toCancel,    \* cancel functions taken out of startCancels, not yet called
  \* the manager
  registered,  \* Manager.channels
  tracked,     \* Manager.startCancels: the attempt whose cancel is remembered
  \* the channels
  running,     \* the running flag IsRunning reports
  owner,       \* the attempt whose context b.ctx and b.cancel belong to
  server,      \* the attempt whose HTTP server is in b.server
  open,        \* channels whose Discord session is open
  \* the start goroutines, their contexts and what they leave behind
  pc,
  cancelled,   \* attempts whose context has been cancelled
  alive,       \* attempts whose loop, server, waiting goroutine or connection lives
  root         \* the context given to Start is cancelled (shutdown signal)

callerVars  == <<caller, lastCall, starts, todo, at, stopErr, toCancel>>
channelVars == <<running, owner, server, open>>
startVars   == <<pc, alive>>
vars == <<platform, callerVars, registered, tracked, channelVars, startVars, cancelled, root>>

InFlightStates == {"launched", "working", "spawned", "opened", "up", "failing"}
StartStates    == {"none", "done", "failed"} \cup InFlightStates
CallerStates   == {"idle", "startLoop", "startCheck",
                   "stopCancel", "stopLoop", "stopWork", "stopFlag"}

InFlight(c, k) == pc[c][k] \in InFlightStates
CtxDone(c, k)  == root \/ <<c, k>> \in cancelled

TypeOK ==
  /\ platform \in Platforms
  /\ caller \in CallerStates
  /\ lastCall \in {"none", "start", "stop"}
  /\ starts \in 0..MaxStarts
  /\ registered \subseteq Channels
  /\ todo \subseteq registered
  /\ at \in Channels \cup {None}
  /\ caller \in {"startCheck", "stopWork", "stopFlag"} => at \in todo
  /\ caller \in {"startLoop", "startCheck"} => starts \in Calls
  /\ stopErr \in BOOLEAN
  /\ toCancel \subseteq Attempts
  /\ tracked \in [Channels -> Calls \cup {None}]
  /\ running \in [Channels -> BOOLEAN]
  /\ owner \in [Channels -> Calls \cup {None}]
  /\ server \in [Channels -> Calls \cup {None}]
  /\ open \subseteq Channels
  /\ pc \in [Channels -> [Calls -> StartStates]]
  /\ cancelled \subseteq Attempts
  /\ alive \subseteq Attempts
  /\ root \in BOOLEAN

Init ==
  /\ platform \in Platforms
  /\ caller = "idle" /\ lastCall = "none" /\ starts = 0
  /\ todo = {} /\ at = None /\ stopErr = FALSE /\ toCancel = {}
  /\ registered = {}
  /\ tracked = [c \in Channels |-> None]
  /\ running = [c \in Channels |-> FALSE]
  /\ owner = [c \in Channels |-> None]
  /\ server = [c \in Channels |-> None] /\ open = {}
  /\ pc = [c \in Channels |-> [k \in Calls |-> "none"]]
  /\ cancelled = {} /\ alive = {} /\ root = FALSE

-----------------------------------------------------------------------------
(* Manager.Start.                                                          *)

\* registerConfiguredChannels walks the enabled channels in order: it returns
\* nil at the first one already registered, an error at the first one whose
\* configuration is rejected, and keeps what it registered before.
Rejected(c)    == platform[c] = "rejected"
Registrable(c) ==
  platform[c] # "off" /\ \A d \in 1..c : d \notin registered /\ ~Rejected(d)
RegistrationFails ==
  \E c \in Channels : Rejected(c) /\ \A d \in 1..c : d \notin registered

CallStart ==
  /\ caller = "idle" /\ starts < MaxStarts
  /\ Restarts \/ lastCall # "stop"
  /\ starts' = starts + 1
  /\ lastCall' = "start"
  /\ registered' = registered \cup {c \in Channels : Registrable(c)}
  /\ IF RegistrationFails
     THEN UNCHANGED <<caller, todo>>
     ELSE caller' = "startLoop" /\ todo' = registered'
  /\ UNCHANGED <<platform, at, stopErr, toCancel, tracked, channelVars, startVars, cancelled, root>>

\* The running flag is read first ...
StartSkipRunning ==
  /\ caller = "startLoop"
  /\ \E c \in todo : running[c] /\ todo' = todo \ {c}
  /\ UNCHANGED <<platform, caller, lastCall, starts, at, stopErr, toCancel, registered,
                 tracked, channelVars, startVars, cancelled, root>>

StartSeesStopped ==
  /\ caller = "startLoop"
  /\ \E c \in todo : ~running[c] /\ at' = c
  /\ caller' = "startCheck"
  /\ UNCHANGED <<platform, lastCall, starts, todo, stopErr, toCancel, registered, tracked,
                 channelVars, startVars, cancelled, root>>

\* ... and startCancels later, under startMu: a start may end in between.
\* (hasInFlightStart and trackInFlightStart lock startMu each for itself; when
\* there is no entry nothing can happen to it between the two.)
StartSkipInFlight ==
  /\ caller = "startCheck" /\ tracked[at] # None
  /\ caller' = "startLoop" /\ todo' = todo \ {at} /\ at' = None
  /\ UNCHANGED <<platform, lastCall, starts, stopErr, toCancel, registered, tracked,
                 channelVars, startVars, cancelled, root>>

\* Mutant: launches without asking hasInFlightStart.
StartLaunchUnchecked ==
  /\ caller = "startCheck"
  /\ tracked' = [tracked EXCEPT ![at] = starts]
  /\ pc' = [pc EXCEPT ![at][starts] = "launched"]
  /\ caller' = "startLoop" /\ todo' = todo \ {at} /\ at' = None
  /\ UNCHANGED <<platform, lastCall, starts, stopErr, toCancel, registered,
                 channelVars, alive, cancelled, root>>

StartLaunch ==
  /\ caller = "startCheck" /\ tracked[at] = None
  /\ tracked' = [tracked EXCEPT ![at] = starts]
  /\ pc' = [pc EXCEPT ![at][starts] = "launched"]
  /\ caller' = "startLoop" /\ todo' = todo \ {at} /\ at' = None
  /\ UNCHANGED <<platform, lastCall, starts, stopErr, toCancel, registered,
                 channelVars, alive, cancelled, root>>

\* Mutant: Start waits until the channels have started.
StartReturnWaits ==
  /\ caller = "startLoop" /\ todo = {}
  /\ \A c \in Channels, k \in Calls : ~InFlight(c, k)
  /\ caller' = "idle"
  /\ UNCHANGED <<platform, lastCall, starts, todo, at, stopErr, toCancel, registered,
                 tracked, channelVars, startVars, cancelled, root>>

StartReturn ==
  /\ caller = "startLoop" /\ todo = {}
  /\ caller' = "idle"
  /\ UNCHANGED <<platform, lastCall, starts, todo, at, stopErr, toCancel, registered,
                 tracked, channelVars, startVars, cancelled, root>>

-----------------------------------------------------------------------------
(* Manager.Stop.                                                           *)

\* Mutant: forgets the remembered starts instead of cancelling them.
CallStopForgets ==
  /\ caller = "idle"
  /\ caller' = "stopCancel" /\ lastCall' = "stop" /\ stopErr' = FALSE
  /\ tracked' = [c \in Channels |-> None]
  /\ UNCHANGED <<platform, starts, todo, at, toCancel, registered, channelVars, startVars,
                 cancelled, root>>

\* cancelInFlightStarts empties startCancels under startMu ...
CallStop ==
  /\ caller = "idle"
  /\ caller' = "stopCancel" /\ lastCall' = "stop" /\ stopErr' = FALSE
  /\ toCancel' = {a \in Attempts : tracked[a[1]] = a[2]}
  /\ tracked' = [c \in Channels |-> None]
  /\ UNCHANGED <<platform, starts, todo, at, registered, channelVars, startVars, cancelled, root>>

\* ... and calls the cancel functions after unlocking, in map order.
StopCancelStart ==
  /\ caller = "stopCancel"
  /\ \E a \in toCancel :
       /\ cancelled' = cancelled \cup {a}
       /\ toCancel' = toCancel \ {a}
  /\ UNCHANGED <<platform, caller, lastCall, starts, todo, at, stopErr, registered, tracked,
                 channelVars, startVars, root>>

StopVisitChannels ==
  /\ caller = "stopCancel" /\ toCancel = {}
  /\ caller' = "stopLoop" /\ todo' = registered
  /\ UNCHANGED <<platform, lastCall, starts, at, stopErr, toCancel, registered, tracked,
                 channelVars, startVars, cancelled, root>>

StopSkipStopped ==
  /\ caller = "stopLoop"
  /\ \E c \in todo : ~running[c] /\ todo' = todo \ {c}
  /\ UNCHANGED <<platform, caller, lastCall, starts, at, stopErr, toCancel, registered,
                 tracked, channelVars, startVars, cancelled, root>>

\* Mutant: the channel's Stop does not cancel its context.
StopChannelNoCancel ==
  /\ caller = "stopLoop"
  /\ \E c \in todo : running[c] /\ at' = c
  /\ caller' = "stopWork"
  /\ UNCHANGED <<platform, lastCall, starts, todo, stopErr, toCancel, registered, tracked,
                 channelVars, startVars, cancelled, root>>

\* The channel's own Stop: b.cancel() first ...
StopChannelCancel ==
  /\ caller = "stopLoop"
  /\ \E c \in todo :
       /\ running[c]
       /\ at' = c
       /\ cancelled' = cancelled \cup {<<c, k>> : k \in {owner[c]} \ {None}}
  /\ caller' = "stopWork"
  /\ UNCHANGED <<platform, lastCall, starts, todo, stopErr, toCancel, registered, tracked,
                 channelVars, startVars, root>>

\* Mutant: the platform is not shut down; cancelling the context must do.
StopChannelShutNothing ==
  /\ caller = "stopWork" /\ caller' = "stopFlag"
  /\ UNCHANGED <<platform, lastCall, starts, todo, at, stopErr, toCancel, registered,
                 tracked, channelVars, startVars, cancelled, root>>

\* ... then the platform's shutdown: b.server.Shutdown, session.Close, wg.Wait; the
\* session may not close ...
StopChannelShut ==
  /\ caller = "stopWork" /\ caller' = "stopFlag"
  /\ alive' = IF platform[at] = "server" THEN alive \ {<<at, server[at]>>} ELSE alive
  /\ open' \in IF platform[at] = "session" THEN {open, open \ {at}} ELSE {open}
  /\ UNCHANGED <<platform, lastCall, starts, todo, at, stopErr, toCancel, registered,
                 tracked, running, owner, server, pc, cancelled, root>>

\* ... after which the flag is cleared ...
StopChannelOk ==
  /\ caller = "stopFlag" /\ (platform[at] = "session" => at \notin open)
  /\ running' = [running EXCEPT ![at] = FALSE]
  /\ caller' = "stopLoop" /\ todo' = todo \ {at} /\ at' = None
  /\ UNCHANGED <<platform, lastCall, starts, stopErr, toCancel, registered, tracked,
                 owner, server, open, startVars, cancelled, root>>

\* ... unless session.Close or deleteWebhook fails: Stop returns the error with
\* running still set.
StopChannelErr ==
  /\ caller = "stopFlag" /\ platform[at] \in {"session", "server"}
  /\ stopErr' = TRUE
  /\ caller' = "stopLoop" /\ todo' = todo \ {at} /\ at' = None
  /\ UNCHANGED <<platform, lastCall, starts, toCancel, registered, tracked,
                 channelVars, startVars, cancelled, root>>

StopReturn ==
  /\ caller = "stopLoop" /\ todo = {}
  /\ caller' = "idle"
  /\ UNCHANGED <<platform, lastCall, starts, todo, at, stopErr, toCancel, registered,
                 tracked, channelVars, startVars, cancelled, root>>

\* newShutdownContext cancels the context given to Start on SIGINT, SIGTERM or
\* SIGHUP.
ShutdownSignal ==
  /\ ~root /\ root' = TRUE
  /\ UNCHANGED <<platform, callerVars, registered, tracked, channelVars, startVars, cancelled>>

-----------------------------------------------------------------------------
(* The start goroutine (startChannel) running channel.Start, and the loop. *)

\* Mutant: clearInFlightStart runs when the goroutine begins (its defer is lost).
EnterNoDefer(c, k) ==
  /\ pc[c][k] = "launched"
  /\ pc' = [pc EXCEPT ![c][k] = "working"]
  /\ owner' = [owner EXCEPT ![c] = k]
  /\ tracked' = [tracked EXCEPT ![c] = None]
  /\ UNCHANGED <<platform, callerVars, registered, running, server, open, alive, cancelled,
                 root>>

\* b.ctx, b.cancel = context.WithCancel(ctx): whoever held them is forgotten.
Enter(c, k) ==
  /\ pc[c][k] = "launched"
  /\ pc' = [pc EXCEPT ![c][k] = "working"]
  /\ owner' = [owner EXCEPT ![c] = k]
  /\ UNCHANGED <<platform, callerVars, registered, tracked, running, server, open, alive,
                 cancelled, root>>

\* The background goroutine: polling loop, socket mode loop, long connection,
\* webhook server (kept in b.server), the goroutine that is to close the session.
Spawn(c, k) ==
  /\ pc[c][k] = "working"
  /\ pc' = [pc EXCEPT ![c][k] = "spawned"]
  /\ alive' = alive \cup {<<c, k>>}
  /\ server' = IF platform[c] = "server" THEN [server EXCEPT ![c] = k] ELSE server
  /\ UNCHANGED <<platform, callerVars, registered, tracked, running, owner, open, cancelled,
                 root>>

\* session.Open, which takes no context and refuses a session that is open.
Open(c, k) ==
  /\ pc[c][k] = "spawned" /\ platform[c] = "session" /\ c \notin open
  /\ pc' = [pc EXCEPT ![c][k] = "opened"]
  /\ open' = open \cup {c}
  /\ UNCHANGED <<platform, callerVars, registered, tracked, running, owner, server, alive,
                 cancelled, root>>

\* Start fails before it spawned anything (deleteWebhook, permissions) or after
\* (setWebhook, session.Open): what it spawned is left behind.
Fail(c, k) ==
  /\ \/ pc[c][k] = "working"
     \/ pc[c][k] = "spawned" /\ platform[c] \in {"server", "session"}
  /\ pc' = [pc EXCEPT ![c][k] = "failing"]
  /\ UNCHANGED <<platform, callerVars, registered, tracked, channelVars, alive, cancelled, root>>

\* The last thing Start does; it does not look at its context again.  Some have
\* nothing to spawn (iMessage without polling, a webhook served elsewhere).
Succeed(c, k) ==
  /\ pc[c][k] \in {"working", "spawned", "opened"}
  /\ platform[c] = "session" <=> pc[c][k] = "opened"
  /\ platform[c] = "connection" => pc[c][k] = "spawned"
  /\ pc' = [pc EXCEPT ![c][k] = "up"]
  /\ running' = [running EXCEPT ![c] = TRUE]
  /\ UNCHANGED <<platform, callerVars, registered, tracked, owner, server, open, alive,
                 cancelled, root>>

\* The deferred clearInFlightStart deletes the entry under the channel's name,
\* whichever attempt it belongs to.
Clear(c, k) ==
  /\ pc[c][k] \in {"up", "failing"}
  /\ pc' = [pc EXCEPT ![c][k] = IF @ = "up" THEN "done" ELSE "failed"]
  /\ tracked' = [tracked EXCEPT ![c] = None]
  /\ UNCHANGED <<platform, callerVars, registered, channelVars, alive, cancelled, root>>

WatchesContext(c) == platform[c] \in {"loop", "session"}

\* A loop ends once its context is done; Discord's goroutine closes the session
\* then, if it is open.
LoopExit(c, k) ==
  /\ <<c, k>> \in alive /\ WatchesContext(c) /\ CtxDone(c, k)
  /\ alive' = alive \ {<<c, k>>}
  /\ open' = open \ {d \in {c} : platform[c] = "session"}
  /\ UNCHANGED <<platform, callerVars, registered, tracked, running, owner, server, pc,
                 cancelled, root>>

\* The address is in use, the connection is refused: ListenAndServe or
\* wsClient.Start returns, and the error is logged.
Breaks(c, k) ==
  /\ <<c, k>> \in alive /\ ~WatchesContext(c)
  /\ alive' = alive \ {<<c, k>>}
  /\ UNCHANGED <<platform, callerVars, registered, tracked, channelVars, pc, cancelled, root>>

-----------------------------------------------------------------------------
StartStep == \/ StartSkipRunning \/ StartSeesStopped \/ StartSkipInFlight
             \/ StartLaunch \/ StartReturn
StopStep  == \/ StopCancelStart \/ StopVisitChannels \/ StopSkipStopped
             \/ StopChannelCancel \/ StopChannelShut \/ StopChannelOk \/ StopChannelErr
             \/ StopReturn
StartGoroutine(c, k) ==
  Enter(c, k) \/ Spawn(c, k) \/ Open(c, k) \/ Fail(c, k) \/ Succeed(c, k) \/ Clear(c, k)

Next ==
  \/ CallStart \/ StartStep
  \/ CallStop \/ StopStep
  \/ ShutdownSignal
  \/ \E c \in Channels, k \in Calls : StartGoroutine(c, k) \/ LoopExit(c, k) \/ Breaks(c, k)

\* session.Open waits for the platform and takes no context.
Opening(c, k) == platform[c] = "session" /\ pc[c][k] = "spawned"

\* A call of the manager always goes on.  A channel's Start may block for as
\* long as it likes, but not once its context is done, unless it is in
\* session.Open; and what watches a context ends after that is done.  (Fairness
\* among them adds nothing: each takes only so many steps.)
Fairness ==
  /\ WF_vars(StartStep \/ StopStep)
  /\ WF_vars(\E c \in Channels, k \in Calls :
               \/ CtxDone(c, k) /\ ~Opening(c, k) /\ StartGoroutine(c, k)
               \/ LoopExit(c, k))

Spec     == Init /\ [][Next]_vars
FairSpec == Spec /\ Fairness

-----------------------------------------------------------------------------
(* What the manager promises.                                              *)

StopReturned == caller = "idle" /\ lastCall = "stop"

\* Two Start calls never have two starts of one channel in flight together
\* (hasInFlightStart guards the launch).
AtMostOneStartInFlight ==
  \A c \in Channels : \A j, k \in Calls :
    InFlight(c, j) /\ InFlight(c, k) => j = k

\* When Stop returns, every channel.Start still in flight has had its context
\* cancelled: none was missed between startCancels and the running flags.
StopCancelsStarts ==
  StopReturned => \A c \in Channels, k \in Calls : InFlight(c, k) => CtxDone(c, k)

\* A second Start was let through to a channel by the two separate looks at its
\* flag and at startCancels, between which the first one completed.
Overlaid(c) ==
  \E j, k \in Calls : j < k /\ pc[c][j] = "done" /\ pc[c][k] # "none"

StartFailed(c, k) == pc[c][k] \in {"failing", "failed"}

\* When Stop returns, with or without an error, every loop and every goroutine
\* that is to close a session has been told to end: a start that completes while
\* Stop runs is caught by cancelInFlightStarts or by IsRunning.  (The goroutine of
\* a session that could not be opened waits for the process to be told.)
StopEndsLoops ==
  StopReturned =>
    \A c \in Channels, k \in Calls :
      (/\ <<c, k>> \in alive /\ WatchesContext(c) /\ ~Overlaid(c)
       /\ ~StartFailed(c, k)) => CtxDone(c, k)

\* A channel that neither reports running nor is starting has no session open and
\* no server left of a start that succeeded: whatever Stop and the start did
\* to each other, the flag does not hide a channel that can still be reached.
StoppedIsClosed ==
  \A c \in Channels :
    (~running[c] /\ \A k \in Calls : ~InFlight(c, k)) =>
      /\ c \notin open
      /\ platform[c] = "server" /\ ~Overlaid(c) =>
           \A k \in Calls : pc[c][k] = "done" => <<c, k>> \notin alive

\* After Stop, everything that watches a context comes to an end, and so does every
\* start that is not in session.Open; what is left of a server or an open session
\* is in a channel that reports running, in which the start overtook Stop.
\* (Nothing ends Feishu's connection, or a server whose setWebhook failed.)
Drained ==
  \A c \in Channels, k \in Calls :
    /\ InFlight(c, k) => Opening(c, k)
    /\ <<c, k>> \in alive /\ ~StartFailed(c, k) /\ ~Overlaid(c) =>
         \/ platform[c] = "connection"
         \/ platform[c] = "server" /\ running[c]
    /\ c \in open => running[c]
StopDrains == StopReturned ~> Drained

\* Neither Start nor Stop waits for a channel that is still starting: a call of
\* the manager returns even if every channel.Start blocks.
CallsReturn == caller # "idle" ~> caller = "idle"

\* "Stop stops configured channels" (manager.go): once Stop has returned
\* without an error and the starts have ended, no channel reports running.
StopLeavesNothingRunning ==
  (StopReturned /\ ~stopErr /\ \A c \in Channels, k \in Calls : ~InFlight(c, k))
    => \A c \in Channels : ~running[c]

=============================================================================
