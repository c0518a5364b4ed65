--------------------------- MODULE SlackSocketMode ---------------------------
(***************************************************************************)
(* Socket mode of the Slack bot (internal/channels/slack.go): one session  *)
(* after the other, each with a goroutine that takes events from its       *)
(* client, acknowledges and handles them.  Slack sends an event again      *)
(* until it is acknowledged.                                               *)
(***************************************************************************)
EXTENDS Naturals, Sequences

CONSTANTS
  Events,         \* what users send
  Mixes,          \* the kinds these may have
  Sessions,       \* slots for sessions; one is used again when its goroutine has ended
  MaxDeliveries,  \* Slack's attempts to deliver an event
  MinBackoff, MaxBackoff,
  None

\* Direct messages and mentions; commands; commands without a payload; the rest.
Kinds == {"message", "slash", "badSlash", "ignored"}

ASSUME ConstantsAssumption ==
  /\ Mixes \subseteq [Events -> Kinds] /\ None \notin Sessions \cup Events
  /\ MaxDeliveries \in Nat \ {0}
  /\ MinBackoff \in Nat \ {0} /\ MaxBackoff \in Nat /\ MinBackoff <= MaxBackoff

VARIABLES
  kind,      \* what the events are
  sent,      \* times Slack has sent an event
  acked,     \* events whose acknowledgement has reached Slack
  stopped,   \* the bot's context is done
  loop,      \* runSocketModeLoop
  backoff,
  session,   \* session that runs, or None
  queue,     \* events in the clients' channels
  consumer,  \* consumeSocketEvents of each session
  item,      \* event it has taken
  handled    \* history: times an event has reached commands, agents or tools

slack    == <<kind, sent, acked>>
runner   == <<stopped, loop, backoff, session>>
consumes == <<queue, consumer, item>>
vars     == <<slack, runner, consumes, handled>>

Slash == {"slash", "badSlash"}
Works == {"took", "acked", "handling"}

TypeOK ==
  /\ kind \in Mixes /\ sent \in [Events -> 0..MaxDeliveries] /\ acked \subseteq Events
  /\ stopped \in BOOLEAN /\ loop \in {"dial", "session", "wait", "ended"}
  /\ backoff \in MinBackoff..MaxBackoff /\ session \in Sessions \cup {None}
  /\ queue \in [Sessions -> Seq(Events)]
  /\ consumer \in [Sessions -> {"none", "select"} \cup Works]
  /\ item \in [Sessions -> Events \cup {None}]
  /\ handled \in [Events -> Nat]

Init ==
  /\ kind \in Mixes /\ sent = [e \in Events |-> 0] /\ acked = {}
  /\ stopped = FALSE /\ loop = "dial" /\ backoff = MinBackoff /\ session = None
  /\ queue = [s \in Sessions |-> <<>>] /\ consumer = [s \in Sessions |-> "none"]
  /\ item = [s \in Sessions |-> None]
  /\ handled = [e \in Events |-> 0]

\* The session's own context, which its goroutine looks at.
Done(s) == stopped \/ s # session

-----------------------------------------------------------------------------
(* The loop.                                                               *)

\* Mutant: the context is not looked at.
ForgetStop(next) == loop' = next

\* After each session and each wait the context decides.
UnlessStopped(next) == loop' = IF stopped THEN "ended" ELSE next

\* A new client with a channel of its own, and its goroutine; or no client.
Dial ==
  /\ loop = "dial"
  /\ \/ UnlessStopped("wait") /\ UNCHANGED <<session, queue, consumer>>
     \/ \E s \in Sessions :
          /\ consumer[s] = "none" /\ session' = s /\ loop' = "session"
          /\ queue' = [queue EXCEPT ![s] = <<>>] /\ consumer' = [consumer EXCEPT ![s] = "select"]
  /\ UNCHANGED <<slack, stopped, backoff, item, handled>>

\* RunContext returns, with an error or without; the session's context ends.
SessionEnds ==
  /\ loop = "session" /\ session' = None /\ UnlessStopped("wait")
  /\ UNCHANGED <<slack, stopped, backoff, consumes, handled>>

\* nextSlackReconnectBackoff; never reset.
NextBackoff == IF backoff * 2 > MaxBackoff THEN MaxBackoff ELSE backoff * 2

\* The delay is over, or the wait is broken off.
WaitEnds ==
  /\ loop = "wait"
  /\ \/ stopped /\ loop' = "ended" /\ UNCHANGED backoff
     \/ loop' = "dial" /\ backoff' = NextBackoff
  /\ UNCHANGED <<slack, stopped, session, consumes, handled>>

Stop ==
  /\ ~stopped /\ stopped' = TRUE
  /\ UNCHANGED <<slack, loop, backoff, session, consumes, handled>>

-----------------------------------------------------------------------------
(* Slack.                                                                  *)

\* New or not acknowledged in time; a slash command is sent once.
Deliver(e) ==
  /\ session # None /\ e \notin acked
  /\ sent[e] < IF kind[e] \in Slash THEN 1 ELSE MaxDeliveries
  /\ sent' = [sent EXCEPT ![e] = @ + 1]
  /\ queue' = [queue EXCEPT ![session] = Append(@, e)]
  /\ UNCHANGED <<kind, acked, runner, consumer, item, handled>>

\* An acknowledgement goes the way of its event, and is lost with the session.
Ack(s) == acked' = IF s = session THEN acked \cup {item[s]} ELSE acked

-----------------------------------------------------------------------------
(* The goroutine of a session.                                             *)

Goto(s, where) == consumer' = [consumer EXCEPT ![s] = where]

Release(s) == Goto(s, "select") /\ item' = [item EXCEPT ![s] = None]

\* The select may take an event although its context is done.
Take(s) ==
  /\ consumer[s] = "select" /\ queue[s] # <<>>
  /\ item' = [item EXCEPT ![s] = Head(queue[s])] /\ queue' = [queue EXCEPT ![s] = Tail(@)]
  /\ Goto(s, "took")
  /\ UNCHANGED <<slack, runner, handled>>

Leave(s) ==
  /\ consumer[s] = "select" /\ Done(s) /\ Goto(s, "none")
  /\ UNCHANGED <<slack, runner, queue, item, handled>>

\* Mutant: the context is looked at once more, after the acknowledgement.
AckEventDrops(s) ==
  /\ consumer[s] = "took" /\ kind[item[s]] \notin Slash /\ Ack(s)
  /\ IF kind[item[s]] = "ignored" \/ Done(s) THEN Release(s) ELSE Goto(s, "acked") /\ UNCHANGED item
  /\ UNCHANGED <<kind, sent, runner, queue, handled>>

\* Other requests than slash commands are acknowledged first.  What is not a
\* message, or not a direct one, is acknowledged and no more.
AckEvent(s) ==
  /\ consumer[s] = "took" /\ kind[item[s]] \notin Slash /\ Ack(s)
  /\ IF kind[item[s]] = "ignored" THEN Release(s) ELSE Goto(s, "acked") /\ UNCHANGED item
  /\ UNCHANGED <<kind, sent, runner, queue, handled>>

\* A slash command without a command in it is told off at once.
AckBadSlash(s) ==
  /\ consumer[s] = "took" /\ kind[item[s]] = "badSlash" /\ Ack(s) /\ Release(s)
  /\ UNCHANGED <<kind, sent, runner, queue, handled>>

\* Commands, agents, tools; under the session's context.
Handle(s) ==
  /\ \/ consumer[s] = "took" /\ kind[item[s]] = "slash"
     \/ consumer[s] = "acked"
  /\ handled' = [handled EXCEPT ![item[s]] = @ + 1]
  /\ Goto(s, "handling")
  /\ UNCHANGED <<slack, runner, queue, item>>

\* Mutant: a slash command is acknowledged without waiting for its reply.
AckSlashFirst(s) ==
  /\ consumer[s] \in {"took", "handling"} /\ kind[item[s]] = "slash" /\ Ack(s) /\ Release(s)
  /\ UNCHANGED <<kind, sent, runner, queue, handled>>

\* Mutant: a command whose acknowledgement went nowhere is tried again.
AckSlashRetries(s) ==
  /\ consumer[s] = "handling" /\ kind[item[s]] = "slash" /\ Ack(s)
  /\ IF Done(s) THEN Goto(s, "took") /\ UNCHANGED item ELSE Release(s)
  /\ UNCHANGED <<kind, sent, runner, queue, handled>>

\* The reply to a slash command is its acknowledgement.
AckSlash(s) ==
  /\ consumer[s] = "handling" /\ kind[item[s]] = "slash" /\ Ack(s) /\ Release(s)
  /\ UNCHANGED <<kind, sent, runner, queue, handled>>

\* Any other reply is posted, or not: that nothing came is only noted.
Reply(s) ==
  /\ consumer[s] = "handling" /\ kind[item[s]] # "slash" /\ Release(s)
  /\ UNCHANGED <<slack, runner, queue, handled>>

-----------------------------------------------------------------------------
Runner      == SessionEnds \/ WaitEnds
Consume(s)  == Take(s) \/ AckEvent(s) \/ AckBadSlash(s) \/ Handle(s) \/ AckSlash(s) \/ Reply(s)

Next ==
  \/ Dial \/ Runner \/ Stop
  \/ \E e \in Events : Deliver(e)
  \/ \E s \in Sessions : Consume(s) \/ Leave(s)

\* Goroutines go on; RunContext returns when its context is done; handlers
\* return; a select that may leave does so in the end.
Fairness ==
  /\ WF_vars(Dial) /\ WF_vars(WaitEnds) /\ WF_vars(stopped /\ SessionEnds)
  /\ \A s \in Sessions : WF_vars(Consume(s)) /\ SF_vars(Leave(s))

Spec     == Init /\ [][Next]_vars
FairSpec == Spec /\ Fairness

-----------------------------------------------------------------------------
(* Properties.                                                             *)

\* Slack is told that it need not send an event again only when the event has
\* been handled or is about to be, in a goroutine that will not drop it.
AckedIsHandled ==
  \A e \in acked :
    kind[e] \in {"message", "slash"}
      => handled[e] > 0 \/ \E s \in Sessions : consumer[s] = "acked" /\ item[s] = e

\* An event is handled as often as Slack has sent it at most, a slash command
\* once at most, whatever sessions overlap.
HandledAsSent ==
  \A e \in Events : handled[e] <= sent[e] /\ (kind[e] \in Slash => handled[e] <= 1)

\* The user sees the reply to a slash command, not a success in advance: it is
\* acknowledged after it was handled, and by no other session.
SlashIsAnswered ==
  [][\A e \in Events : e \in acked' \ acked /\ kind[e] = "slash"
       => handled[e] = 1 /\ item[session] = e /\ consumer[session] = "handling"]_vars

\* After Stop the loop ends, and all goroutines with it.
StopEnds == stopped ~> loop = "ended" /\ \A s \in Sessions : consumer[s] = "none"
=============================================================================
