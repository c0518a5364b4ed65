---------------------------- MODULE IMessagePolling ----------------------------
(***************************************************************************)
(* iMessage polling (internal/channels/imessage.go): a goroutine reads     *)
(* pages of new rows from the Messages database and hands their text to    *)
(* the message handler.  The position, lastSeenMessageID, is kept in       *)
(* memory only and moves before the page is handled.                       *)
(*                                                                         *)
(* The database is external: rows are appended with increasing ROWIDs; a   *)
(* row may have no text (attachments, tapbacks).  Rows of the user's own   *)
(* are left out by the query and here.                                     *)
(***************************************************************************)
EXTENDS Naturals, FiniteSets

CONSTANTS
  MaxRows,     \* inbound rows (a bound)
  Blank,       \* the rows without text
  Limit,       \* pollingLimit
  MaxDeaths    \* how often the process dies or is restarted (a bound)

ASSUME ConstantsAssumption ==
  /\ MaxRows \in Nat /\ Limit \in Nat \ {0} /\ MaxDeaths \in Nat
  /\ Blank \subseteq 1..MaxRows

Rows == 1..MaxRows

VARIABLES
  rows,        \* the database holds rows 1..rows
  proc,        \* the process and its bot
  loop,        \* the polling goroutine (counted by the WaitGroup)
  batch,       \* messages of the current page not yet handled
  lastSeen,    \* lastSeenMessageID
  handled,     \* how often this process has passed each row to the handler
  reached,     \* history: the last row that any process has passed to it
  deaths

vars == <<rows, proc, loop, batch, lastSeen, handled, reached, deaths>>

TypeOK ==
  /\ rows \in 0..MaxRows
  /\ proc \in {"down", "failed", "up", "stopping", "stopped"}
  /\ loop \in {"none", "poll", "handle", "idle"}
  /\ batch \subseteq 1..lastSeen \ Blank /\ lastSeen \in 0..rows
  /\ batch # {} => loop = "handle"
  /\ handled \in [Rows -> Nat] /\ reached \in 0..rows
  /\ proc = "up" => loop # "none"
  /\ deaths \in 0..MaxDeaths

Init ==
  /\ rows = 0 /\ proc = "down" /\ loop = "none" /\ batch = {} /\ lastSeen = 0
  /\ handled = [r \in Rows |-> 0] /\ reached = 0 /\ deaths = 0

Arrive ==
  /\ rows < MaxRows /\ rows' = rows + 1
  /\ UNCHANGED <<proc, loop, batch, lastSeen, handled, reached, deaths>>

-----------------------------------------------------------------------------
(* The process.                                                            *)

\* pollLoop polls at once; the next polls are the ticker's.
Start ==
  /\ proc = "down" /\ proc' = "up" /\ loop' = "poll"
  /\ UNCHANGED <<rows, batch, lastSeen, handled, reached, deaths>>

\* No access to the database, or the Messages application does not start.
StartFails ==
  /\ proc = "down" /\ proc' = "failed"
  /\ UNCHANGED <<rows, loop, batch, lastSeen, handled, reached, deaths>>

Stop ==
  /\ proc = "up" /\ proc' = "stopping"
  /\ UNCHANGED <<rows, loop, batch, lastSeen, handled, reached, deaths>>

\* Mutant: Stop does not wait for the goroutine.
StopReturnsEarly ==
  /\ proc = "stopping" /\ proc' = "stopped"
  /\ UNCHANGED <<rows, loop, batch, lastSeen, handled, reached, deaths>>

StopReturns ==
  /\ proc = "stopping" /\ loop = "none" /\ proc' = "stopped"
  /\ UNCHANGED <<rows, loop, batch, lastSeen, handled, reached, deaths>>

\* The process exits or dies, and its memory of the position with it.
Die ==
  /\ proc # "down" /\ deaths < MaxDeaths /\ deaths' = deaths + 1
  /\ proc' = "down" /\ loop' = "none" /\ batch' = {} /\ lastSeen' = 0
  /\ handled' = [r \in Rows |-> 0]
  /\ UNCHANGED <<rows, reached>>

-----------------------------------------------------------------------------
(* The polling goroutine.                                                  *)

\* Mutant: the query has no ORDER BY; the newest rows happen to come first.
PageNewest == {r \in lastSeen + 1..rows : Cardinality(r + 1..rows) < Limit}

\* The rows the query returns: blank ones count towards its LIMIT.
Page == {r \in lastSeen + 1..rows : r <= lastSeen + Limit}

\* Mutant: the position moves to the newest row, page or not.
PollToNewest ==
  /\ loop = "poll" /\ proc = "up"
  /\ batch' = Page \ Blank
  /\ lastSeen' = IF batch' = {} THEN lastSeen ELSE rows
  /\ loop' = IF batch' = {} THEN "idle" ELSE "handle"
  /\ UNCHANGED <<rows, proc, handled, reached, deaths>>

\* PollMessages: blank rows are dropped before the largest id is looked for,
\* so they move the position only if a row with text follows in the page.
Poll ==
  /\ loop = "poll" /\ proc = "up"
  /\ batch' = Page \ Blank
  /\ lastSeen' \in IF batch' = {} THEN {lastSeen}
                   ELSE {r \in batch' : \A q \in batch' : q <= r}
  /\ loop' = IF batch' = {} THEN "idle" ELSE "handle"
  /\ UNCHANGED <<rows, proc, handled, reached, deaths>>

PollFails ==
  /\ loop = "poll" /\ loop' = "idle"
  /\ UNCHANGED <<rows, proc, batch, lastSeen, handled, reached, deaths>>

\* Errors of the handler and of the reply are only logged; a cancelled context
\* does not end the page.
Handle ==
  /\ loop = "handle"
  /\ \E r \in batch :
       /\ \A q \in batch : r <= q
       /\ handled' = [handled EXCEPT ![r] = @ + 1] /\ batch' = batch \ {r}
       /\ reached' = IF r > reached THEN r ELSE reached
  /\ loop' = IF batch' = {} THEN "idle" ELSE "handle"
  /\ UNCHANGED <<rows, proc, lastSeen, deaths>>

\* A tick may win the select although the context is done.
Tick ==
  /\ loop = "idle" /\ loop' = "poll"
  /\ UNCHANGED <<rows, proc, batch, lastSeen, handled, reached, deaths>>

\* Mutant: the loop waits for the ticker alone.
LoopExitLate ==
  /\ loop = "poll" /\ proc = "stopped" /\ loop' = "none"
  /\ UNCHANGED <<rows, proc, batch, lastSeen, handled, reached, deaths>>

LoopExit ==
  /\ loop = "idle" /\ proc = "stopping" /\ loop' = "none"
  /\ UNCHANGED <<rows, proc, batch, lastSeen, handled, reached, deaths>>

-----------------------------------------------------------------------------
LoopStep == Handle \/ Tick \/ PollFails

Next ==
  \/ Arrive
  \/ Start \/ StartFails \/ Stop \/ StopReturns \/ Die
  \/ Poll \/ LoopStep \/ LoopExit

\* The goroutine runs, reading the database does not fail for ever, a select
\* with ctx.Done() ready chooses it sooner or later, the supervisor restarts.
Fairness ==
  /\ WF_vars(LoopStep) /\ SF_vars(Poll) /\ SF_vars(LoopExit)
  /\ WF_vars(StopReturns) /\ WF_vars(Start)

Spec     == Init /\ [][Next]_vars
FairSpec == Spec /\ Fairness

-----------------------------------------------------------------------------
(* Properties.                                                             *)

\* The position is ahead of the handling, so within one process a row is
\* handled at most once, and none it has passed is forgotten.
EachRowOnce ==
  \A r \in Rows :
    /\ handled[r] <= 1
    /\ r <= lastSeen /\ r \notin Blank => (handled[r] = 0 <=> r \in batch)

\* The messages are the rows with text, in the order of their ids; the database
\* forgets none.
Delivery == INSTANCE InboundDelivery WITH
  MaxUpdates <- Cardinality(Rows \ Blank),
  posted     <- Cardinality(1..rows \ Blank),
  processed  <- Cardinality(1..reached \ Blank),
  forgotten  <- 0

\* Polling delivers in order and at least once, blank rows or not, although the
\* position moves before the page is handled and is lost when the process dies.
DeliverySpec == Delivery!Spec

\* Stop waits for the goroutine: once it has returned no message reaches the
\* handler, whatever page was in hand when it was called.
StoppedIsQuiet ==
  [][proc = "stopped" => UNCHANGED <<handled, lastSeen>> \/ proc' = "down"]_vars

\* Stop returns, although the goroutine goes through its page first.
StopEnds == proc = "stopping" ~> proc # "stopping"

\* "PollMessages reads new inbound messages from Messages database" (line 247):
\* every row with text is handled, unless Start failed or Stop was called.
ArrivedIsHandled ==
  \A r \in Rows \ Blank :
    rows >= r ~> handled[r] > 0 \/ proc \in {"failed", "stopping", "stopped"}
=============================================================================
