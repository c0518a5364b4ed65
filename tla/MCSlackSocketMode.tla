-------------------------- MODULE MCSlackSocketMode --------------------------
(* Events for TLC.                                                         *)
EXTENDS SlackSocketMode, TLC

CONSTANTS e1, e2

\* Two messages, a message and a command, two commands, one of them without a
\* payload, and a message after an event of no interest.
SomeMixes ==
  {e1 :> "message" @@ e2 :> "message", e1 :> "message" @@ e2 :> "slash",
   e1 :> "slash" @@ e2 :> "badSlash", e1 :> "ignored" @@ e2 :> "message"}
=============================================================================
