--------------------------- MODULE MCMessageRouting ---------------------------
(***************************************************************************)
(* Scenarios for MessageRouting: each single message under each            *)
(* configuration of the agents, and short Telegram conversations that      *)
(* change the user list, by polling and by webhook.                        *)
(***************************************************************************)
EXTENDS MessageRouting

CONSTANTS admin, friend, stranger, main, other, qa1

Config(default, listed, ohMyCode, runtime, webhook) ==
  [default |-> default, listed |-> listed, ohMyCode |-> ohMyCode, runtime |-> runtime,
   webhook |-> webhook, admin |-> admin, allowed |-> {friend}]

Say(chan, user, cmd, arg) == [chan |-> chan, user |-> user, cmd |-> cmd, arg |-> arg]

AgentConfigs == {<<None, {}>>, <<main, {}>>, <<main, {main}>>, <<main, {main, other}>>}

OneMessage ==
  {Say(ch, u, cmd, None) : ch \in Channels, u \in Users,
     cmd \in {"task", "toolText", "short", "safe", "tools", "tool", "doctor", "listusers",
            "adduser", "unknown"}}
  \cup
  {Say(ch, u, cmd, a) : ch \in Channels, u \in Users,
     cmd \in Selections \cup {"monitor", "lifecycle"}, a \in {main, other}}

Gates == {[config |-> Config(ac[1], ac[2], o, r, FALSE), inbox |-> <<m>>] :
            ac \in AgentConfigs, o \in BOOLEAN, r \in BOOLEAN, m \in OneMessage}

Telegram ==
  {Say("telegram", admin, "adduser", stranger), Say("telegram", admin, "removeuser", friend),
   Say("telegram", admin, "removeuser", admin), Say("telegram", admin, "listusers", None),
   Say("telegram", friend, "adduser", stranger), Say("telegram", stranger, "adduser", stranger),
   Say("telegram", friend, "task", None), Say("telegram", stranger, "task", None)}

Conversations == {[config |-> Config(main, {}, TRUE, FALSE, w), inbox |-> <<m1, m2, m3>>] :
                    w \in BOOLEAN, m1 \in Telegram, m2 \in Telegram, m3 \in Telegram}

AllScenarios == Gates \cup Conversations
=============================================================================
