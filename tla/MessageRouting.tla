---------------------------- MODULE MessageRouting ----------------------------
(***************************************************************************)
(* From a chat message to an agent: the gates of the Telegram, Slack,      *)
(* Discord and Feishu bots (who may talk to the bot, which commands it     *)
(* runs, which agent a task is for), agent.Manager.HandleIncoming, which   *)
(* checks the agent again, and the start of the server, which brings the   *)
(* channels up before the agent runtime.                                   *)
(*                                                                         *)
(* Messages are handled concurrently, except for Telegram polling.  They   *)
(* share the runtime and Telegram's user list, a Go map without a lock.    *)
(* Messages that every bot ignores (groups, channels, empty text) are left *)
(* out.                                                                    *)
(***************************************************************************)
EXTENDS Naturals, Sequences

CONSTANTS
  Users,       \* chat users
  Agents,      \* well-formed agent names
  None,        \* no agent, no user
  Fallback,    \* defaultOhMyCodeDefaultAgent
  Scenarios    \* what may happen: configurations with the messages that come in

\* A mention of the Slack bot and a Slack slash command pass the same gate.
Channels == {"telegram", "slack", "mention", "discord", "feishu"}

\* What a message says: a task; a task that reads "tool ..."; /agent or /to with
\* an agent and either of these, or too short; and the other commands.  The
\* safe ones are /help, /whoami, /status, /agents.
Selections == {"select", "selectTool"}
Tasks      == {"task", "toolText"} \cup Selections
UserList   == {"adduser", "removeuser", "listusers"}
Slash      == {"safe", "tools", "tool", "monitor", "lifecycle", "doctor", "unknown"} \cup UserList
Messages   == [chan : Channels, user : Users, cmd : Tasks \cup {"short"} \cup Slash,
               arg : Agents \cup Users \cup {None}]

\* validateOhMyCodeAgentConfig: a configured allowlist holds the default agent.
Configs == {c \in [default : Agents \cup {None}, listed : SUBSET Agents,
                   ohMyCode : BOOLEAN, runtime : BOOLEAN, webhook : BOOLEAN,
                   admin : Users \cup {None}, allowed : SUBSET Users] :
              c.listed # {} => c.default \in c.listed}

ASSUME ConstantsAssumption ==
  /\ None \notin Agents \cup Users /\ Fallback \in Agents
  /\ Scenarios \subseteq [config : Configs, inbox : Seq(Messages)]

VARIABLES
  config,      \* the configuration of the program
  inbox,       \* the messages users send, in the order Telegram numbers them
  boot,        \* Server.Start: are the channels up, is the runtime?
  users,       \* UserManager.allowedIDs of the Telegram bot
  stage,       \* how far the handling of each message has come
  reply,       \* what the message has led to
  calls,       \* runs of the agent-manager script: message and agent
  crashed      \* concurrent map access: the process has died

given == <<config, inbox>>
vars  == <<given, boot, users, stage, reply, calls, crashed>>

Index    == DOMAIN inbox
Outcomes == {"none", "refused", "answered", "denied", "disabled", "runtime", "called",
             "managerRefused", "echo"}

TypeOK ==
  /\ config \in Configs /\ inbox \in Seq(Messages)
  /\ boot \in {"channels", "up", "failed"}
  /\ users \subseteq Users
  /\ stage \in [Index -> {"waiting", "arrived", "admitted", "done"}]
  /\ reply \in [Index -> Outcomes]
  /\ calls \subseteq Index \X (Agents \cup {None})
  /\ crashed \in BOOLEAN
  /\ \A i \in Index : reply[i] # "none" <=> stage[i] = "done"
  /\ \A c \in calls : reply[c[1]] = "called"

InitialUsers == config.allowed \cup ({config.admin} \ {None})

Init ==
  /\ \E s \in Scenarios : config = s.config /\ inbox = s.inbox
  /\ boot = "channels" /\ users = InitialUsers
  /\ stage = [i \in Index |-> "waiting"] /\ reply = [i \in Index |-> "none"]
  /\ calls = {} /\ crashed = FALSE

-----------------------------------------------------------------------------
(* Server.Start: the channels have been told to start; now the runtime.    *)

Boot ==
  /\ boot = "channels" /\ boot' \in IF config.runtime THEN {"up", "failed"} ELSE {"up"}
  /\ UNCHANGED <<given, users, stage, reply, calls, crashed>>

\* m.runtime, which handlers read without a lock.
RuntimeUp == boot = "up" /\ config.runtime

-----------------------------------------------------------------------------
(* Choosing and checking the agent.                                        *)

Specified(m) == m.cmd \in Selections
ToolText(m)  == m.cmd \in {"toolText", "selectTool", "tool", "tools"}

\* AgentAllowlist.Validate.
Validate(a) ==
  IF config.listed # {} THEN a \in config.listed ELSE a = config.default /\ a # None

\* Mutant: any well-formed name will do.
BotAcceptsAny(a) == a # None

\* The bots check: ResolveAgentSelection, validateAgentCommandName.
BotAccepts(a) == Validate(a)

\* Mutant: the manager trusts the bots.
ManagerAcceptsAny(a) == TRUE

\* And so does the manager: validateOhMyCodeAgent.
ManagerAccepts(a) == Validate(a)

\* Telegram passes anything that reads like a tool invocation.
Enforced(m) ==
  /\ Specified(m) \/ config.default # None \/ config.listed # {}
  /\ m.chan = "telegram" => ~ToolText(m)

Chosen(m) == IF Specified(m) THEN m.arg ELSE IF Enforced(m) THEN config.default ELSE None

-----------------------------------------------------------------------------
(* agent.Manager.                                                          *)

Finish(i, outcome) ==
  /\ stage' = [stage EXCEPT ![i] = "done"]
  /\ reply' = [reply EXCEPT ![i] = outcome]

\* The agent-manager script runs for an agent the manager accepts.
CallAgent(i, a) ==
  \/ ManagerAccepts(a) /\ Finish(i, "called") /\ calls' = calls \cup {<<i, a>>}
  \/ ~ManagerAccepts(a) /\ Finish(i, "managerRefused") /\ UNCHANGED calls

HandleIncoming(i, agent) ==
  LET name == IF agent # None THEN agent
              ELSE IF config.default # None THEN config.default ELSE Fallback
  IN  IF ~RuntimeUp /\ ToolText(inbox[i]) THEN Finish(i, "disabled") /\ UNCHANGED calls
      ELSE IF RuntimeUp THEN Finish(i, "runtime") /\ UNCHANGED calls
      ELSE IF config.ohMyCode THEN CallAgent(i, name)
      ELSE Finish(i, "echo") /\ UNCHANGED calls

\* MonitorAgent, StartAgent, StopAgent; Doctor, which is about no agent.
AgentCommand(i, m) ==
  IF ~config.ohMyCode THEN Finish(i, "managerRefused") /\ UNCHANGED calls
  ELSE IF m.cmd = "doctor" THEN Finish(i, "called") /\ calls' = calls \cup {<<i, None>>}
  ELSE CallAgent(i, m.arg)

-----------------------------------------------------------------------------
(* The bots.                                                               *)

\* Mutant: webhook and polling updates alike get a goroutine each.
ArriveAtOnce(i) ==
  /\ stage[i] = "waiting" /\ stage' = [stage EXCEPT ![i] = "arrived"]
  /\ UNCHANGED <<given, boot, users, reply, calls, crashed>>

\* Polling hands over one update after the other, the next when the one before
\* has been handled; everything else gets a goroutine of its own.
Arrive(i) ==
  /\ stage[i] = "waiting" /\ stage' = [stage EXCEPT ![i] = "arrived"]
  /\ inbox[i].chan = "telegram" /\ ~config.webhook =>
       \A j \in 1..i - 1 : inbox[j].chan = "telegram" => stage[j] = "done"
  /\ UNCHANGED <<given, boot, users, reply, calls, crashed>>

\* Mutant: Slack and Discord run every command before the allowlist, as Feishu
\* does.
OpenCommands(m) == m.chan \in {"slack", "discord", "feishu"} /\ m.cmd \in Slash \cup {"short"}

\* What a bot answers to anybody, before it looks at its allowlist.
Open(m) ==
  \/ m.chan \in {"slack", "discord"} /\ m.cmd \in {"safe", "tools", "short"}
  \/ m.chan = "feishu" /\ m.cmd \in Slash

Authorized(m) ==
  IF m.chan = "telegram" THEN m.user \in users ELSE m.user \in config.allowed

Refuse(i) ==
  /\ stage[i] = "arrived" /\ ~Open(inbox[i]) /\ ~Authorized(inbox[i])
  /\ Finish(i, "refused")
  /\ UNCHANGED <<given, boot, users, calls, crashed>>

Admit(i) ==
  /\ stage[i] = "arrived" /\ (Open(inbox[i]) \/ Authorized(inbox[i]))
  /\ stage' = [stage EXCEPT ![i] = "admitted"]
  /\ UNCHANGED <<given, boot, users, reply, calls, crashed>>

\* Commands a bot does not know: Feishu knows the safe ones only, and the user
\* list is Telegram's.
Unknown(m) ==
  \/ m.cmd = "unknown"
  \/ m.chan = "feishu" /\ m.cmd \in Slash \ {"safe"}
  \/ m.chan # "telegram" /\ m.cmd \in UserList

\* Telegram's requireAdmin.
MayCommand(m) ==
  m.chan = "telegram" /\ m.cmd \in UserList \cup {"lifecycle", "doctor"} =>
    config.admin # None /\ m.user = config.admin

\* Everything the bot answers without the manager.
Answer(i) ==
  LET m == inbox[i] IN
  /\ stage[i] = "admitted"
  /\ \/ /\ \/ m.cmd \in {"safe", "short"} \/ Unknown(m)
           \/ m.cmd \in UserList /\ MayCommand(m) /\ (m.cmd = "listusers" \/ m.arg \notin Users)
        /\ Finish(i, "answered")
     \/ /\ ~Unknown(m)
        /\ \/ ~MayCommand(m)
           \/ m.cmd \in {"monitor", "lifecycle"} /\ ~BotAccepts(m.arg)
           \/ m.cmd \in Tasks /\ Enforced(m) /\ ~BotAccepts(Chosen(m))
        /\ Finish(i, "denied")
  /\ UNCHANGED <<given, boot, users, calls, crashed>>

\* /adduser and /removeuser.
ChangeUsers(i) ==
  LET m == inbox[i] IN
  /\ stage[i] = "admitted" /\ m.chan = "telegram" /\ MayCommand(m) /\ m.arg \in Users
  /\ \/ m.cmd = "adduser" /\ users' = users \cup {m.arg}
     \/ m.cmd = "removeuser" /\ users' = users \ {m.arg}
  /\ Finish(i, "answered")
  /\ UNCHANGED <<given, boot, calls, crashed>>

RunCommand(i) ==
  LET m == inbox[i] IN
  /\ stage[i] = "admitted" /\ ~Unknown(m) /\ MayCommand(m)
  /\ \/ m.cmd = "doctor" \/ (m.cmd \in {"monitor", "lifecycle"} /\ BotAccepts(m.arg))
  /\ AgentCommand(i, m)
  /\ UNCHANGED <<given, boot, users, crashed>>

\* A task, or a tool command, which names no agent.
PassOn(i) ==
  LET m == inbox[i] IN
  /\ stage[i] = "admitted" /\ ~Unknown(m)
  /\ \/ m.cmd \in {"tool", "tools"} /\ HandleIncoming(i, None)
     \/ m.cmd \in Tasks /\ (Enforced(m) => BotAccepts(Chosen(m))) /\ HandleIncoming(i, Chosen(m))
  /\ UNCHANGED <<given, boot, users, crashed>>

\* Two goroutines in the user list at once, one of them writing: the Go runtime
\* may notice and end the process; if it does not, the accesses take effect in
\* some order.
ReadsUsers(i) ==
  \/ stage[i] = "arrived" /\ inbox[i].chan = "telegram"
  \/ stage[i] = "admitted" /\ inbox[i].chan = "telegram" /\ inbox[i].cmd = "listusers" /\ MayCommand(inbox[i])
WritesUsers(i) ==
  stage[i] = "admitted" /\ inbox[i].chan = "telegram" /\ inbox[i].cmd \in {"adduser", "removeuser"}
    /\ MayCommand(inbox[i])
MapRace(i, j) ==
  /\ i # j /\ WritesUsers(i) /\ (ReadsUsers(j) \/ WritesUsers(j))
  /\ crashed' = TRUE
  /\ UNCHANGED <<given, boot, users, stage, reply, calls>>

-----------------------------------------------------------------------------
Handle(i) == \/ Refuse(i) \/ Admit(i) \/ Answer(i)
             \/ ChangeUsers(i) \/ RunCommand(i) \/ PassOn(i)

Next ==
  /\ ~crashed
  /\ \/ Boot
     \/ \E i \in Index : Arrive(i) \/ Handle(i) \/ \E j \in Index : MapRace(i, j)

Spec == Init /\ [][Next]_vars

-----------------------------------------------------------------------------
(* Properties.                                                             *)

\* The agent-manager script never runs for an agent that agents.ohMyCode does not
\* allow, whichever bot, command or fallback the name comes from.
AgentsAllowed == \A c \in calls : c[2] # None => Validate(c[2])

\* The two checks agree: with a default agent configured, no task or command
\* that a bot has let through is refused by the manager, which the user would
\* see as "Something went wrong".
GateAgreement ==
  \A i \in Index :
    reply[i] = "managerRefused" => config.default = None \/ ~config.ohMyCode

\* A user outside the allowlist, whom the admin does not add, gets no further
\* than the answers of the bot and the list of tools.
Stranger(m) ==
  IF m.chan = "telegram"
  THEN /\ m.user \notin InitialUsers
       /\ \A j \in Index : inbox[j].cmd = "adduser" /\ inbox[j].arg = m.user
                             => inbox[j].chan # "telegram" \/ inbox[j].user # config.admin
  ELSE m.user \notin config.allowed
StrangersReachNothing ==
  \A i \in Index :
    Stranger(inbox[i]) =>
      \/ reply[i] \in {"none", "refused", "answered"}
      \/ reply[i] \in {"disabled", "runtime"} /\ inbox[i].cmd = "tools"

\* The user list that a message is to leave behind.
Judge(m, before) ==
  IF m.chan # "telegram" \/ m.user # config.admin \/ m.user \notin before THEN before
  ELSE IF m.cmd = "adduser" THEN before \cup ({m.arg} \cap Users)
  ELSE IF m.cmd = "removeuser" THEN before \ {m.arg} ELSE before

\* The user list after the first k messages, if they are handled in order.
standing[k \in 0..Len(inbox)] ==
  IF k = 0 THEN InitialUsers ELSE Judge(inbox[k], standing[k - 1])

\* With polling the user list needs no lock: whoever is added or removed, each
\* message is judged by the list that the messages before it leave behind.
PollingIsSequential ==
  ~config.webhook =>
    /\ ~crashed
    /\ \A i \in Index : inbox[i].chan = "telegram" /\ stage[i] = "done" =>
         (reply[i] = "refused" <=> inbox[i].user \notin standing[i - 1])
=============================================================================
