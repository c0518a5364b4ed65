---------------------------- MODULE TelegramPolling ----------------------------
(***************************************************************************)
(* Telegram long polling (internal/channels/telegram.go): the loop that    *)
(* fetches updates, handles them and persists the next update id, across   *)
(* failures of the network and of the offset file, Stop, and the death and *)
(* restart of the process.                                                 *)
(*                                                                         *)
(* The Bot API is external: updates have increasing ids; getUpdates with   *)
(* an offset makes it forget every smaller id and returns the earliest     *)
(* remaining updates, at most pollingLimit of them.                        *)
(***************************************************************************)
EXTENDS Naturals, FiniteSets, FiniteSetsExt

CONSTANTS
  MaxUpdates,   \* updates users send (a bound)
  Limit,        \* pollingLimit
  Big,          \* updates of twice the size of the others
  BodyCap,      \* how much of a response body getUpdates reads (64 KiB)
  MaxDeaths     \* how often the process dies or is restarted (a bound)

ASSUME ConstantsAssumption ==
  /\ MaxUpdates \in Nat /\ Limit \in Nat \ {0} /\ BodyCap \in Nat /\ MaxDeaths \in Nat
  /\ Big \subseteq 1..MaxUpdates

Updates == 1..MaxUpdates

VARIABLES
  config,      \* .file: an offset file is configured; .faulty: writing it may fail
  posted,      \* Bot API: updates 1..posted have arrived
  forgotten,   \* Bot API: updates 1..forgotten have been dropped
  proc,        \* the process and its bot
  loop,        \* the polling goroutine
  batch,       \* updates of the current response not yet gone through
  next,        \* TelegramBot.nextUpdateID
  file,        \* contents of the offset file, 0 if there is none
  handled,     \* updates that handleUpdate has seen
  repeats,     \* history: times it has seen one of them again
  answered,    \* updates handled while b.ctx was live
  deaths

server == <<posted, forgotten>>
record == <<handled, repeats, answered>>
vars   == <<config, server, proc, loop, batch, next, file, record, deaths>>

TypeOK ==
  /\ config \in [file : BOOLEAN, faulty : BOOLEAN]
  /\ posted \in 0..MaxUpdates /\ forgotten \in 0..posted
  /\ proc \in {"down", "failed", "up", "stopping"}
  /\ loop \in {"none", "check", "waiting", "sleeping", "handle", "advance"}
  /\ batch \subseteq 1..posted
  /\ loop \in {"handle", "advance"} <=> batch # {}
  /\ proc \in {"down", "failed"} => loop = "none"
  /\ next \in 0..posted + 1 /\ file \in 0..posted + 1
  /\ handled \subseteq 1..posted /\ repeats \in Nat /\ answered \subseteq 1..posted
  /\ deaths \in 0..MaxDeaths

Init ==
  /\ config \in [file : BOOLEAN, faulty : BOOLEAN]
  /\ posted = 0 /\ forgotten = 0
  /\ proc = "down" /\ loop = "none" /\ batch = {}
  /\ next = 0 /\ file = 0
  /\ handled = {} /\ repeats = 0 /\ answered = {}
  /\ deaths = 0

-----------------------------------------------------------------------------
(* The Bot API.                                                            *)

Post ==
  /\ posted < MaxUpdates /\ posted' = posted + 1
  /\ UNCHANGED <<config, forgotten, proc, loop, batch, next, file, record, deaths>>

\* Mutant: pollingLimit is not sent.
WindowUnlimited == {u \in forgotten + 1..posted : u >= next}

\* The updates a response holds, and its size.
Window    == {u \in forgotten + 1..posted : u >= next /\ u <= forgotten + Limit}
Weight(S) == Cardinality(S) + Cardinality(S \cap Big)

-----------------------------------------------------------------------------
(* The process.  Manager.Start calls TelegramBot.Start once.               *)

\* Mutant: the offset file is never read back.
OffsetNotRead == 0

\* loadPollingOffset keeps nextUpdateID (0 in a new process) without a file.
StoredOffset == IF config.file THEN file ELSE 0

Start ==
  /\ proc = "down"
  /\ proc' = "up" /\ loop' = "check"
  /\ next' = StoredOffset
  /\ UNCHANGED <<config, server, batch, file, record, deaths>>

\* deleteWebhook or reading the file fails: Start is not tried again.
StartFails ==
  /\ proc = "down" /\ proc' = "failed"
  /\ UNCHANGED <<config, server, loop, batch, next, file, record, deaths>>

\* Stop cancels b.ctx and does not wait for the loop.
Stop ==
  /\ proc = "up" /\ proc' = "stopping"
  /\ UNCHANGED <<config, server, loop, batch, next, file, record, deaths>>

\* The process exits after Stop, or dies; only the offset file survives.
Die ==
  /\ proc # "down" /\ deaths < MaxDeaths
  /\ deaths' = deaths + 1
  /\ proc' = "down" /\ loop' = "none" /\ batch' = {} /\ next' = 0
  /\ UNCHANGED <<config, server, file, record>>

-----------------------------------------------------------------------------
(* The polling loop (startPollingLoop).                                    *)

LoopExit ==
  /\ loop = "check" /\ proc = "stopping"
  /\ loop' = "none"
  /\ UNCHANGED <<config, server, proc, batch, next, file, record, deaths>>

\* The offset is sent only if it is positive; it confirms every smaller id.
Request ==
  /\ loop = "check" /\ proc = "up"
  /\ forgotten' = IF next > forgotten + 1 THEN next - 1 ELSE forgotten
  /\ loop' = "waiting"
  /\ UNCHANGED <<config, posted, proc, batch, next, file, record, deaths>>

Respond ==
  /\ loop = "waiting" /\ proc = "up"
  /\ Weight(Window) <= BodyCap
  /\ batch' = Window
  /\ loop' = IF Window = {} THEN "check" ELSE "handle"
  /\ UNCHANGED <<config, server, proc, next, file, record, deaths>>

\* A network error, a cancelled context, or a body cut off at BodyCap, which
\* does not parse: the loop backs off and asks for the same updates again.
RequestFails ==
  /\ loop = "waiting" /\ loop' = "sleeping"
  /\ UNCHANGED <<config, server, proc, batch, next, file, record, deaths>>

\* Mutant: the loop gives up on an error.
WakeUpExits ==
  /\ loop = "sleeping" /\ loop' = "none"
  /\ UNCHANGED <<config, server, proc, batch, next, file, record, deaths>>

WakeUp ==
  /\ loop = "sleeping" /\ loop' = "check"
  /\ UNCHANGED <<config, server, proc, batch, next, file, record, deaths>>

\* The update the loop over the response is at.
Current(u) == u \in batch /\ \A v \in batch : u <= v

\* handleUpdate runs under b.ctx, cancelled or not.
Handle ==
  /\ loop = "handle" /\ loop' = "advance"
  /\ \E u \in batch :
       /\ Current(u)
       /\ handled' = handled \cup {u}
       /\ repeats' = IF u \in handled THEN repeats + 1 ELSE repeats
       /\ answered' = IF proc = "up" THEN answered \cup {u} ELSE answered
  /\ UNCHANGED <<config, server, proc, batch, next, file, deaths>>

\* persistPollingOffset replaces the file by rename; its error is only logged.
Persist ==
  \/ config.file /\ file' = next'
  \/ (config.faulty \/ ~config.file) /\ file' = file

\* Mutant: the offset is taken from the last update of the response.
AdvanceToLast ==
  /\ loop = "advance"
  /\ \E u \in batch : Current(u) /\ next' = Max(batch) + 1 /\ batch' = batch \ {u}
  /\ Persist
  /\ loop' = IF batch' = {} THEN "check" ELSE "handle"
  /\ UNCHANGED <<config, server, proc, record, deaths>>

Advance ==
  /\ loop = "advance"
  /\ \E u \in batch : Current(u) /\ next' = u + 1 /\ batch' = batch \ {u}
  /\ Persist
  /\ loop' = IF batch' = {} THEN "check" ELSE "handle"
  /\ UNCHANGED <<config, server, proc, record, deaths>>

-----------------------------------------------------------------------------
LoopStep == LoopExit \/ Request \/ WakeUp \/ Handle \/ Advance

Next ==
  \/ Post
  \/ Start \/ StartFails \/ Stop \/ Die
  \/ LoopStep \/ Respond \/ RequestFails

\* The goroutine runs, the supervisor restarts the process (Restart=always in
\* install.sh), and network failures do not go on for ever.
Fairness == WF_vars(LoopStep) /\ SF_vars(Respond) /\ WF_vars(Start)

Spec     == Init /\ [][Next]_vars
FairSpec == Spec /\ Fairness

-----------------------------------------------------------------------------
(* Safety.                                                                 *)

\* The offset that survives a restart, and the one the Bot API is told, never
\* pass an update that handleUpdate has not seen: the order handle, advance,
\* persist (lines 506-511) loses no update, wherever the process dies.
OffsetNeverSkips ==
  \A u \in Updates : u < file \/ u < next \/ u <= forgotten => u \in handled

\* "persists next update offset to avoid re-processing after restart" (line
\* 204): with a working offset file each death costs at most the one update
\* between handling and persisting; without it, at most one response.
RepeatsBounded ==
  repeats <= deaths * (IF config.file /\ ~config.faulty THEN 1 ELSE Limit)

\* Stop does not wait for the loop, which goes on through the response under a
\* cancelled context and moves the offset past updates whose replies were not
\* sent: never more of them than one response for each life of the process.
UnansweredBounded ==
  Cardinality(handled \ answered) <= Limit * (deaths + 1)

-----------------------------------------------------------------------------
(* Refinement and liveness.                                                *)

processed == CHOOSE p \in 0..posted : \A u \in Updates : u \in handled <=> u <= p

Delivery == INSTANCE InboundDelivery

\* Polling delivers in order and at least once, across deaths and failures.
DeliverySpec == Delivery!Spec

\* An update that has been posted is handled, unless Start failed or Stop was
\* called, after which nothing but a restart brings the bot back: failed
\* requests, failed offset writes and deaths do not stall the loop for ever.
PostedIsHandled ==
  \A u \in Updates :
    posted >= u ~> u \in handled \/ proc \in {"failed", "stopping"}
=============================================================================
