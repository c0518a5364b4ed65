------------------------- MODULE MessageRouting_proofs -------------------------
(***************************************************************************)
(* Proofs about MessageRouting, for any users, agents, configurations and  *)
(* messages.  What the checks of the bots and of the manager say of each   *)
(* other is a matter of one step; that strangers reach nothing needs what  *)
(* the user list and an admitted message say of earlier messages.          *)
(***************************************************************************)
EXTENDS MessageRouting, WellFoundedInduction, TLAPS

\* Whom the admin's messages could have added.
Addable(u) ==
  \E j \in Index : /\ inbox[j].cmd = "adduser" /\ inbox[j].arg = u
                   /\ inbox[j].chan = "telegram" /\ inbox[j].user = config.admin
UsersInv    == \A u \in users : u \in InitialUsers \/ Addable(u)
AdmittedInv == \A i \in Index : stage[i] = "admitted" /\ Stranger(inbox[i]) => Open(inbox[i])

BaseInv == TypeOK /\ UsersInv /\ AdmittedInv

-----------------------------------------------------------------------------
LEMMA BaseInit == Init => BaseInv
<1> SUFFICES ASSUME Init PROVE BaseInv
  OBVIOUS
<1> USE ConstantsAssumption DEF Init
<1>1. PICK s \in Scenarios : config = s.config /\ inbox = s.inbox
  OBVIOUS
<1>2. config \in Configs /\ inbox \in Seq(Messages)
  BY <1>1
<1>3. InitialUsers \subseteq Users
  BY <1>2 DEF InitialUsers, Configs
<1>4. TypeOK
  BY <1>2, <1>3 DEF TypeOK, Index, Outcomes
<1>5. UsersInv /\ AdmittedInv
  BY DEF UsersInv, AdmittedInv
<1> QED
  BY <1>4, <1>5 DEF BaseInv

LEMMA MessageType ==
  ASSUME TypeOK, NEW i \in Index
  PROVE  inbox[i] \in Messages /\ config \in Configs
BY DEF TypeOK, Index

\* What the manager makes of a message: it is done, with an outcome.
LEMMA HandleOutcome ==
  ASSUME TypeOK, NEW i \in Index, NEW a, HandleIncoming(i, a)
  PROVE  \E o \in {"disabled", "runtime", "called", "managerRefused", "echo"} :
           /\ Finish(i, o)
           /\ calls' = calls \/ \E b \in Agents : /\ o = "called" /\ Validate(b)
                                                  /\ calls' = calls \cup {<<i, b>>}
           /\ ToolText(inbox[i]) => o \in {"disabled", "runtime"}
           /\ o = "managerRefused" => (a # None /\ ~Validate(a)) \/ config.default = None
<1> DEFINE name == IF a # None THEN a
                   ELSE IF config.default # None THEN config.default ELSE Fallback
<1>1. config \in Configs
  BY DEF TypeOK
<1>2. Validate(name) => name \in Agents
  BY <1>1 DEF Configs, Validate
<1>3. name = config.default /\ name # None => Validate(name)
  BY <1>1 DEF Configs, Validate
<1>4. CASE ~RuntimeUp /\ ToolText(inbox[i])
  BY <1>4 DEF HandleIncoming
<1>5. CASE RuntimeUp
  BY <1>5 DEF HandleIncoming
<1>6. CASE ~RuntimeUp /\ ~ToolText(inbox[i]) /\ ~config.ohMyCode
  BY <1>6 DEF HandleIncoming
<1>7. CASE ~RuntimeUp /\ ~ToolText(inbox[i]) /\ config.ohMyCode
  <2>1. CallAgent(i, name)
    BY <1>7 DEF HandleIncoming
  <2>2. CASE Validate(name) /\ Finish(i, "called") /\ calls' = calls \cup {<<i, name>>}
    BY <2>2, <1>2, <1>7
  <2>3. CASE ~Validate(name) /\ Finish(i, "managerRefused") /\ calls' = calls
    BY <2>3, <1>3, <1>7
  <2> QED
    BY <2>1, <2>2, <2>3 DEF CallAgent, ManagerAccepts
<1> QED
  BY <1>4, <1>5, <1>6, <1>7

\* Every way to be done, in one form.
DoneStep(i, o) ==
  /\ stage[i] \in {"arrived", "admitted"} /\ o \in Outcomes \ {"none"}
  /\ Finish(i, o) /\ UNCHANGED <<given, boot, crashed>>
  /\ users' = users \/ \E u \in Users : users' = users \ {u} \/ (users' = users \cup {u} /\ Addable(u))
  /\ calls' = calls \/ \E b \in Agents \cup {None} :
       /\ o = "called" /\ (b # None => Validate(b)) /\ calls' = calls \cup {<<i, b>>}
  /\ o = "managerRefused" => config.default = None \/ ~config.ohMyCode
  /\ \/ o \in {"refused", "answered"}
     \/ stage[i] = "admitted" /\ (Open(inbox[i]) => o \in {"disabled", "runtime"} /\ inbox[i].cmd = "tools")

LEMMA HandleCases ==
  ASSUME BaseInv, NEW i \in Index, Handle(i), ~Admit(i)
  PROVE  \E o \in Outcomes : DoneStep(i, o)
<1> DEFINE m == inbox[i]
<1>1. m \in Messages /\ config \in Configs /\ TypeOK
  BY MessageType DEF BaseInv
<1>2. CASE Refuse(i)
  <2>1. DoneStep(i, "refused")
    BY <1>2 DEF Refuse, DoneStep, Outcomes
  <2> QED
    BY <2>1 DEF Outcomes
<1>3. CASE Answer(i)
  <2>1. CASE Finish(i, "answered")
    <3>1. DoneStep(i, "answered")
      BY <2>1, <1>3 DEF Answer, DoneStep, Outcomes
    <3> QED
      BY <3>1 DEF Outcomes
  <2>2. CASE /\ Finish(i, "denied") /\ ~Unknown(m)
             /\ \/ ~MayCommand(m)
                \/ m.cmd \in {"monitor", "lifecycle"} /\ ~BotAccepts(m.arg)
                \/ m.cmd \in Tasks /\ Enforced(m) /\ ~BotAccepts(Chosen(m))
    <3>1. ~Open(m)
      BY <2>2 DEF Open, Unknown, MayCommand, Tasks, Selections, Slash, UserList
    <3>2. DoneStep(i, "denied")
      BY <2>2, <1>3, <3>1 DEF Answer, DoneStep, Outcomes
    <3> QED
      BY <3>2 DEF Outcomes
  <2> QED
    BY <2>1, <2>2, <1>3 DEF Answer
<1>4. CASE ChangeUsers(i)
  <2>1. m.arg \in Users /\ m.chan = "telegram" /\ MayCommand(m)
    BY <1>4 DEF ChangeUsers
  <2>2. m.cmd = "adduser" => Addable(m.arg)
    BY <2>1 DEF Addable, MayCommand, UserList
  <2>3. DoneStep(i, "answered")
    BY <1>4, <2>1, <2>2 DEF ChangeUsers, DoneStep, Outcomes
  <2> QED
    BY <2>3 DEF Outcomes
<1>5. CASE RunCommand(i)
  <2>1. stage[i] = "admitted" /\ ~Unknown(m) /\ m.cmd \in {"doctor", "monitor", "lifecycle"}
    BY <1>5 DEF RunCommand
  <2>2. ~Open(m)
    BY <2>1 DEF Open, Unknown, Slash
  <2>3. m.cmd # "doctor" => Validate(m.arg)
    BY <1>5 DEF RunCommand, BotAccepts
  <2>4. CASE ~config.ohMyCode
    <3>1. DoneStep(i, "managerRefused")
      BY <2>4, <2>1, <2>2, <1>5 DEF RunCommand, AgentCommand, DoneStep, Outcomes
    <3> QED
      BY <3>1 DEF Outcomes
  <2>5. CASE config.ohMyCode
    <3>1. PICK b \in Agents \cup {None} : /\ b # None => Validate(b)
                                          /\ Finish(i, "called") /\ calls' = calls \cup {<<i, b>>}
      <4>1. CASE m.cmd = "doctor"
        BY <4>1, <2>5, <1>5 DEF RunCommand, AgentCommand
      <4>2. CASE m.cmd # "doctor"
        <5>1. m.arg \in Agents
          BY <4>2, <2>3, <1>1 DEF Validate, Configs
        <5> QED
          BY <4>2, <5>1, <2>3, <2>5, <1>5
          DEF RunCommand, AgentCommand, CallAgent, ManagerAccepts
      <4> QED
        BY <4>1, <4>2
    <3>2. DoneStep(i, "called")
      BY <3>1, <2>1, <2>2, <1>5 DEF RunCommand, DoneStep, Outcomes
    <3> QED
      BY <3>2 DEF Outcomes
  <2> QED
    BY <2>4, <2>5
<1>6. CASE PassOn(i)
  <2>1. PICK a :
          /\ HandleIncoming(i, a)
          /\ \/ m.cmd \in {"tool", "tools"} /\ a = None
             \/ m.cmd \in Tasks /\ a = Chosen(m) /\ (Enforced(m) => Validate(a))
    BY <1>6 DEF PassOn, BotAccepts
  <2>2. PICK o \in {"disabled", "runtime", "called", "managerRefused", "echo"} :
          /\ Finish(i, o)
          /\ calls' = calls \/ \E b \in Agents : /\ o = "called" /\ Validate(b)
                                                 /\ calls' = calls \cup {<<i, b>>}
          /\ ToolText(m) => o \in {"disabled", "runtime"}
          /\ o = "managerRefused" => (a # None /\ ~Validate(a)) \/ config.default = None
    BY <2>1, <1>1, HandleOutcome
  <2>3. o = "managerRefused" => config.default = None
    BY <2>1, <2>2 DEF Chosen, Enforced, Specified
  <2>4. Open(m) => o \in {"disabled", "runtime"} /\ m.cmd = "tools"
    BY <2>1, <2>2, <1>6 DEF Open, PassOn, Unknown, ToolText, Tasks, Selections, Slash, UserList
  <2>5. DoneStep(i, o)
    BY <2>2, <2>3, <2>4, <1>6, ConstantsAssumption DEF PassOn, DoneStep, Outcomes
  <2> QED
    BY <2>5 DEF Outcomes
<1> QED
  BY <1>2, <1>3, <1>4, <1>5, <1>6 DEF Handle

-----------------------------------------------------------------------------
\* Stranger, Open and Addable are about the given things only.
LEMMA GivenFixed ==
  ASSUME UNCHANGED given
  PROVE  /\ Index' = Index /\ InitialUsers' = InitialUsers
         /\ \A i \in Index : (Stranger(inbox[i])' <=> Stranger(inbox[i]))
                              /\ (Open(inbox[i])' <=> Open(inbox[i]))
         /\ \A u : Addable(u)' <=> Addable(u)
<1> USE DEF given
<1>1. Index' = Index /\ InitialUsers' = InitialUsers
  BY DEF Index, InitialUsers
<1>2. \A i \in Index : Open(inbox[i])' <=> Open(inbox[i])
  BY DEF Open
<1>3. \A u : Addable(u)' <=> Addable(u)
  BY <1>1 DEF Addable
<1>4. \A i \in Index : Stranger(inbox[i])' <=> Stranger(inbox[i])
  BY <1>1 DEF Stranger
<1> QED
  BY <1>1, <1>2, <1>3, <1>4

\* A message on its way: Arrive, Admit.
LEMMA WayStep ==
  ASSUME BaseInv, NEW i \in Index, stage[i] \in {"waiting", "arrived"},
         NEW s \in {"arrived", "admitted"}, stage' = [stage EXCEPT ![i] = s],
         s = "admitted" /\ Stranger(inbox[i]) => Open(inbox[i]),
         UNCHANGED <<given, boot, users, reply, calls, crashed>>
  PROVE  BaseInv'
<1> USE DEF BaseInv
<1>1. TypeOK'
  BY DEF TypeOK, Index, given
<1>2. UsersInv'
  BY GivenFixed DEF UsersInv
<1>3. AdmittedInv'
  <2>1. \A j \in Index : stage'[j] = IF j = i THEN s ELSE stage[j]
    BY DEF TypeOK
  <2> QED
    BY <2>1, GivenFixed DEF AdmittedInv
<1> QED
  BY <1>1, <1>2, <1>3

LEMMA DonePreserves ==
  ASSUME BaseInv, NEW i \in Index, NEW o \in Outcomes, DoneStep(i, o)
  PROVE  BaseInv'
<1> USE DEF BaseInv
<1>1. /\ stage' = [stage EXCEPT ![i] = "done"] /\ reply' = [reply EXCEPT ![i] = o]
      /\ UNCHANGED <<given, boot, crashed>> /\ o # "none"
  BY DEF DoneStep, Finish
<1>2. \A j \in Index : /\ stage'[j] = IF j = i THEN "done" ELSE stage[j]
                       /\ reply'[j] = IF j = i THEN o ELSE reply[j]
  BY <1>1 DEF TypeOK
<1>3. TypeOK'
  <2>1. users' \subseteq Users
    BY DEF DoneStep, TypeOK
  <2>2. calls' \subseteq Index \X (Agents \cup {None}) /\ \A c \in calls' : c \in calls \/ (c[1] = i /\ o = "called")
    BY DEF DoneStep, TypeOK
  <2>3. \A c \in calls' : reply'[c[1]] = "called"
    <3> SUFFICES ASSUME NEW c \in calls' PROVE reply'[c[1]] = "called"
      OBVIOUS
    <3>1. c[1] \in Index
      BY <2>2
    <3>2. CASE c \in calls /\ c[1] # i
      BY <3>1, <3>2, <1>2 DEF TypeOK
    <3>3. CASE c \in calls /\ c[1] = i
      <4>1. reply[i] = "called" /\ stage[i] = "done"
        BY <3>3 DEF TypeOK
      <4> QED
        BY <4>1 DEF DoneStep
    <3>4. CASE c[1] = i /\ o = "called"
      BY <3>4, <1>2
    <3> QED
      BY <3>2, <3>3, <3>4, <2>2
  <2>4. stage' \in [Index -> {"waiting", "arrived", "admitted", "done"}] /\ reply' \in [Index -> Outcomes]
    BY <1>1 DEF TypeOK
  <2>5. \A j \in Index : reply'[j] # "none" <=> stage'[j] = "done"
    BY <1>1, <1>2 DEF TypeOK
  <2>6. Index' = Index
    BY <1>1, GivenFixed
  <2>7. config' \in Configs /\ inbox' \in Seq(Messages) /\ boot' \in {"channels", "up", "failed"} /\ crashed' \in BOOLEAN
    BY <1>1 DEF TypeOK, given
  <2> QED
    BY <2>1, <2>2, <2>3, <2>4, <2>5, <2>6, <2>7 DEF TypeOK
<1>4. UsersInv'
  BY <1>1, GivenFixed DEF UsersInv, DoneStep
<1>5. AdmittedInv'
  BY <1>1, <1>2, GivenFixed DEF AdmittedInv
<1> QED
  BY <1>3, <1>4, <1>5

\* Every step is one of these.
LEMMA StepKinds ==
  ASSUME BaseInv, [Next]_vars
  PROVE  \/ UNCHANGED <<given, users, stage, reply, calls>>
         \/ BaseInv' /\ UNCHANGED <<given, reply, calls>>
         \/ \E i \in Index, o \in Outcomes : DoneStep(i, o)
<1>1. CASE UNCHANGED vars
  BY <1>1 DEF vars
<1>2. CASE Boot
  BY <1>2 DEF Boot
<1>3. ASSUME NEW i \in Index, NEW j \in Index, MapRace(i, j)
      PROVE  UNCHANGED <<given, users, stage, reply, calls>>
  BY <1>3 DEF MapRace
<1>4. ASSUME NEW i \in Index, Arrive(i)
      PROVE  BaseInv' /\ UNCHANGED <<given, reply, calls>>
  BY <1>4, WayStep DEF Arrive
<1>5. ASSUME NEW i \in Index, Admit(i)
      PROVE  BaseInv' /\ UNCHANGED <<given, reply, calls>>
  <2>1. Stranger(inbox[i]) => Open(inbox[i])
    <3>1. CASE inbox[i].chan = "telegram"
      BY <3>1, <1>5 DEF Admit, Authorized, Stranger, BaseInv, UsersInv, Addable
    <3>2. CASE inbox[i].chan # "telegram"
      BY <3>2, <1>5 DEF Admit, Authorized, Stranger
    <3> QED
      BY <3>1, <3>2
  <2> QED
    BY <1>5, <2>1, WayStep DEF Admit
<1>6. ASSUME NEW i \in Index, Handle(i), ~Admit(i)
      PROVE  \E o \in Outcomes : DoneStep(i, o)
  BY <1>6, HandleCases
<1> QED
  BY <1>1, <1>2, <1>3, <1>4, <1>5, <1>6 DEF Next, Handle

LEMMA BaseStep == BaseInv /\ [Next]_vars => BaseInv'
<1> SUFFICES ASSUME BaseInv, [Next]_vars PROVE BaseInv'
  OBVIOUS
<1>1. CASE UNCHANGED <<given, users, stage, reply, calls>>
  <2>1. boot' \in {"channels", "up", "failed"} /\ crashed' \in BOOLEAN
    <3>1. CASE UNCHANGED vars
      BY <3>1 DEF vars, BaseInv, TypeOK
    <3>2. CASE Boot
      BY <3>2 DEF Boot, BaseInv, TypeOK
    <3>3. CASE \E i, j \in Index : MapRace(i, j)
      BY <3>3 DEF MapRace, BaseInv, TypeOK
    <3>4. CASE \E i \in Index : Arrive(i) \/ Handle(i)
      BY <3>4 DEF Arrive, Handle, Refuse, Admit, Answer, ChangeUsers, RunCommand, PassOn, BaseInv, TypeOK
    <3> QED
      BY <3>1, <3>2, <3>3, <3>4 DEF Next
  <2>2. TypeOK'
    BY <1>1, <2>1 DEF BaseInv, TypeOK, given, Index
  <2>3. UsersInv' /\ AdmittedInv'
    BY <1>1, GivenFixed DEF BaseInv, UsersInv, AdmittedInv
  <2> QED
    BY <2>2, <2>3 DEF BaseInv
<1> QED
  BY <1>1, StepKinds, DonePreserves

LEMMA BaseAlways == Spec => []BaseInv
BY BaseInit, BaseStep, PTL DEF Spec

-----------------------------------------------------------------------------
(* The theorems.                                                           *)

\* Type correctness, for any scenario.
THEOREM TypeCorrect == Spec => []TypeOK
<1>1. BaseInv => TypeOK
  BY DEF BaseInv
<1> QED
  BY <1>1, BaseAlways, PTL

\* The agent-manager script runs for allowed agents only.
THEOREM OnlyAllowedAgents == Spec => []AgentsAllowed
<1>1. Init => AgentsAllowed
  BY DEF Init, AgentsAllowed
<1>2. BaseInv /\ AgentsAllowed /\ [Next]_vars => AgentsAllowed'
  <2> SUFFICES ASSUME BaseInv, AgentsAllowed, [Next]_vars PROVE AgentsAllowed'
    OBVIOUS
  <2>1. UNCHANGED given => \A a : Validate(a)' <=> Validate(a)
    BY DEF given, Validate
  <2>2. CASE UNCHANGED <<given, calls>>
    BY <2>1, <2>2 DEF AgentsAllowed
  <2>3. CASE \E i \in Index, o \in Outcomes : DoneStep(i, o)
    BY <2>1, <2>3 DEF AgentsAllowed, DoneStep
  <2> QED
    BY <2>2, <2>3, StepKinds
<1> QED
  BY <1>1, <1>2, BaseAlways, PTL DEF Spec

\* Where a default agent is configured, the manager refuses nothing that a bot
\* has let through.
THEOREM ChecksAgree == Spec => []GateAgreement
<1>1. Init => GateAgreement
  BY DEF Init, GateAgreement
<1>2. BaseInv /\ GateAgreement /\ [Next]_vars => GateAgreement'
  <2> SUFFICES ASSUME BaseInv, GateAgreement, [Next]_vars PROVE GateAgreement'
    OBVIOUS
  <2>1. CASE UNCHANGED <<given, reply>>
    BY <2>1 DEF GateAgreement, given, Index
  <2>2. CASE \E i \in Index, o \in Outcomes : DoneStep(i, o)
    BY <2>2 DEF GateAgreement, DoneStep, Finish, given, Index, BaseInv, TypeOK
  <2> QED
    BY <2>1, <2>2, StepKinds
<1> QED
  BY <1>1, <1>2, BaseAlways, PTL DEF Spec

\* A user who is neither allowed nor added by the admin reaches no agent, no
\* runtime and no command.
THEOREM StrangersKeptOut == Spec => []StrangersReachNothing
<1>1. Init => StrangersReachNothing
  BY DEF Init, StrangersReachNothing
<1>2. BaseInv /\ StrangersReachNothing /\ [Next]_vars => StrangersReachNothing'
  <2> SUFFICES ASSUME BaseInv, StrangersReachNothing, [Next]_vars PROVE StrangersReachNothing'
    OBVIOUS
  <2>1. CASE UNCHANGED <<given, reply>>
    BY <2>1, GivenFixed DEF StrangersReachNothing, given
  <2>2. ASSUME NEW i \in Index, NEW o \in Outcomes, DoneStep(i, o)
        PROVE  StrangersReachNothing'
    <3>1. UNCHANGED given /\ \A j \in Index : reply'[j] = IF j = i THEN o ELSE reply[j]
      BY <2>2 DEF DoneStep, Finish, BaseInv, TypeOK
    <3>2. Stranger(inbox[i]) =>
            \/ o \in {"refused", "answered"}
            \/ o \in {"disabled", "runtime"} /\ inbox[i].cmd = "tools"
      BY <2>2 DEF DoneStep, BaseInv, AdmittedInv
    <3> QED
      BY <3>1, <3>2, GivenFixed DEF StrangersReachNothing, given
  <2> QED
    BY <2>1, <2>2, StepKinds
<1> QED
  BY <1>1, <1>2, BaseAlways, PTL DEF Spec

-----------------------------------------------------------------------------
(* The user list under polling.                                            *)

LEMMA MinimalNat ==
  ASSUME NEW S \in SUBSET Nat, S # {}
  PROVE  \E n \in S : \A m \in S : n <= m
<1>1. PICK n \in S : \A m \in S : <<m, n>> \notin OpToRel(<, Nat)
  BY WFMin, NatLessThanWellFounded, Zenon
<1>2. \A m \in S : n \in Nat /\ m \in Nat /\ ~(m < n)
  BY <1>1 DEF OpToRel
<1> QED
  BY <1>2

\* The recursive definition of standing defines what it says: there is a table
\* for every number of messages, by induction on it.
LEMMA StandingDef ==
  ASSUME inbox \in Seq(Messages)
  PROVE  standing = [k \in 0..Len(inbox) |->
                       IF k = 0 THEN InitialUsers ELSE Judge(inbox[k], standing[k - 1])]
<1> DEFINE Entry(f, k) == IF k = 0 THEN InitialUsers ELSE Judge(inbox[k], f[k - 1])
           Table(f, n) == f = [k \in 0..n |-> Entry(f, k)]
<1>1. \A n \in 0..Len(inbox) : \E f : Table(f, n)
  <2> DEFINE Bad == {n \in 0..Len(inbox) : ~\E f : Table(f, n)}
  <2> SUFFICES ASSUME Bad # {} PROVE FALSE
    OBVIOUS
  <2>1. Len(inbox) \in Nat
    OBVIOUS
  <2>2. PICK n \in Bad : \A m \in Bad : n <= m
    <3>1. Bad \in SUBSET Nat
      BY <2>1
    <3> HIDE DEF Bad
    <3> QED
      BY <3>1, MinimalNat
  <2>3. CASE n = 0
    <3> DEFINE g == [k \in 0..0 |-> InitialUsers]
    <3>1. Table(g, 0)
      OBVIOUS
    <3> QED
      BY <2>2, <2>3, <3>1
  <2>4. CASE n # 0
    <3>1. n - 1 \in 0..Len(inbox) /\ n \in Nat /\ n - 1 \notin Bad
      <4>1. n \in 0..Len(inbox)
        BY <2>2
      <4> HIDE DEF Bad
      <4> QED
        BY <2>1, <2>2, <2>4, <4>1
    <3>2. PICK f : Table(f, n - 1)
      BY <3>1
    <3> HIDE DEF Entry
    <3> DEFINE g == [k \in 0..n |-> Entry(f, k)]
    <3>3. ASSUME NEW k \in 0..n - 1 PROVE g[k] = f[k]
      <4>1. f[k] = Entry(f, k)
        BY <3>2, Zenon
      <4>2. k \in 0..n
        BY <3>1
      <4>3. g[k] = Entry(f, k)
        BY <4>2, Zenon
      <4> QED
        BY <4>1, <4>3
    <3>4. ASSUME NEW k \in 0..n PROVE Entry(f, k) = Entry(g, k)
      <4>1. CASE k = 0
        BY <4>1 DEF Entry
      <4>2. CASE k # 0
        <5>1. k - 1 \in 0..n - 1
          BY <3>1, <4>2
        <5>2. f[k - 1] = g[k - 1]
          BY <5>1, <3>3, Zenon
        <5> HIDE DEF g
        <5> QED
          BY <4>2, <5>2, Zenon DEF Entry
      <4> QED
        BY <4>1, <4>2
    <3>5. Table(g, n)
      BY <3>4
    <3> QED
      BY <2>2, <3>5
  <2> QED
    BY <2>3, <2>4
<1>2. PICK f : Table(f, Len(inbox))
  BY <1>1
<1> QED
  BY <1>2 DEF standing

LEMMA StandingStep ==
  ASSUME TypeOK
  PROVE  /\ standing[0] = InitialUsers
         /\ \A k \in Index : standing[k] = Judge(inbox[k], standing[k - 1])
<1>1. inbox \in Seq(Messages) /\ Len(inbox) \in Nat /\ Index = 1..Len(inbox)
  BY DEF TypeOK, Index
<1>2. standing = [k \in 0..Len(inbox) |->
                    IF k = 0 THEN InitialUsers ELSE Judge(inbox[k], standing[k - 1])]
  BY <1>1, StandingDef
<1> DEFINE f == standing
<1>3. f = [k \in 0..Len(inbox) |-> IF k = 0 THEN InitialUsers ELSE Judge(inbox[k], f[k - 1])]
  BY <1>2
<1> HIDE DEF f
<1>4. f[0] = InitialUsers /\ \A k \in Index : f[k] = Judge(inbox[k], f[k - 1])
  BY <1>1, <1>3
<1> QED
  BY <1>4 DEF f

\* Messages of Telegram, and the ones that are about to be handled.
Tele      == {i \in Index : inbox[i].chan = "telegram"}
InHand(i) == stage[i] \in {"arrived", "admitted"}

\* Messages of the other platforms leave the list alone.
LEMMA Gap ==
  ASSUME TypeOK, NEW a \in 0..Len(inbox), NEW b \in 0..Len(inbox), a <= b,
         \A i \in Tele : ~(a < i /\ i <= b)
  PROVE  standing[b] = standing[a]
<1> DEFINE Bad == {k \in a..b : standing[k] # standing[a]}
<1>1. Index = 1..Len(inbox) /\ Len(inbox) \in Nat
  BY DEF TypeOK, Index
<1> SUFFICES ASSUME Bad # {} PROVE FALSE
  BY <1>1
<1>2. PICK n \in Bad : \A m \in Bad : n <= m
  <2>1. Bad \in SUBSET Nat
    BY <1>1
  <2> HIDE DEF Bad
  <2> QED
    BY <2>1, MinimalNat
<1>3. n \in Index /\ n - 1 \in a..b /\ n # a /\ n \in a..b
  BY <1>1, <1>2
<1>4. n - 1 \notin Bad
  <2> HIDE DEF Bad
  <2> QED
    BY <1>1, <1>2, <1>3
<1>5. inbox[n].chan # "telegram"
  BY <1>1, <1>3 DEF Tele
<1>6. standing[n] = standing[n - 1]
  BY <1>3, <1>5, StandingStep DEF Judge
<1> QED
  BY <1>2, <1>3, <1>4, <1>6

LEMMA StandingFixed == ASSUME UNCHANGED given PROVE standing' = standing
<1>1. config' = config /\ inbox' = inbox /\ InitialUsers' = InitialUsers
  BY GivenFixed DEF given
<1> QED
  BY <1>1 DEF standing, Judge

\* Who is handled comes after those who are done and before those who wait.
OrderInv == \A i, j \in Tele : i < j /\ stage[j] # "waiting" => stage[i] = "done"

\* The list is what the messages done leave behind.
ListInv ==
  \A k \in 0..Len(inbox) :
    (\A i \in Tele : stage[i] = "done" <=> i <= k) => users = standing[k]

\* What each message was judged by.
JudgedInv ==
  \A i \in Tele :
    /\ stage[i] = "admitted" => inbox[i].user \in standing[i - 1]
    /\ stage[i] = "done" => (reply[i] = "refused" <=> inbox[i].user \notin standing[i - 1])

SeqInv == ~config.webhook => ~crashed /\ OrderInv /\ ListInv /\ JudgedInv

LEMMA SeqInit == Init => SeqInv
<1> SUFFICES ASSUME Init PROVE SeqInv
  OBVIOUS
<1>1. TypeOK
  BY BaseInit DEF BaseInv
<1>2. ASSUME NEW k \in 0..Len(inbox), \A i \in Tele : stage[i] = "done" <=> i <= k
      PROVE  users = standing[k]
  <2>1. Len(inbox) \in Nat /\ 0 \in 0..Len(inbox) /\ 0 <= k
    BY <1>1 DEF TypeOK
  <2>2. \A i \in Tele : ~(i <= k)
    BY <1>2 DEF Init, Tele
  <2>3. standing[k] = standing[0]
    BY <1>1, <2>1, <2>2, Gap
  <2> QED
    BY <1>1, <2>3, StandingStep DEF Init
<1> QED
  BY <1>2 DEF Init, SeqInv, OrderInv, ListInv, JudgedInv, Tele

\* A message in hand finds the list that the messages before it have left.
LEMMA Turn ==
  ASSUME TypeOK, OrderInv, ListInv, NEW i \in Tele, InHand(i)
  PROVE  users = standing[i - 1]
<1>1. Index = 1..Len(inbox) /\ Len(inbox) \in Nat /\ i \in Index
  BY DEF TypeOK, Index, Tele
<1>2. ASSUME NEW j \in Tele PROVE stage[j] = "done" <=> j <= i - 1
  <2>1. j \in Index /\ j \in Nat /\ i \in Nat
    BY <1>1 DEF Tele
  <2>2. CASE j < i
    BY <2>1, <2>2 DEF OrderInv, InHand
  <2>3. CASE j = i
    BY <2>1, <2>3 DEF InHand
  <2>4. CASE i < j
    BY <2>1, <2>4 DEF OrderInv, InHand
  <2> QED
    BY <2>1, <2>2, <2>3, <2>4
<1>3. i - 1 \in 0..Len(inbox)
  BY <1>1
<1> QED
  BY <1>2, <1>3 DEF ListInv

\* A message that has been judged by the list in force leaves behind the list
\* that it should.
LEMMA SeqDone ==
  ASSUME TypeOK, TypeOK', OrderInv, ListInv, JudgedInv, NEW i \in Tele, InHand(i), NEW o,
         Finish(i, o), UNCHANGED given,
         users' = Judge(inbox[i], users), o = "refused" <=> inbox[i].user \notin users
  PROVE  OrderInv' /\ ListInv' /\ JudgedInv'
<1>1. /\ Index = 1..Len(inbox) /\ Len(inbox) \in Nat /\ i \in Index /\ Tele \subseteq Nat
      /\ users = standing[i - 1]
  BY Turn DEF TypeOK, Index, Tele
<1>2. /\ Tele' = Tele /\ standing' = standing /\ inbox' = inbox
      /\ \A j \in Index : /\ stage'[j] = IF j = i THEN "done" ELSE stage[j]
                          /\ reply'[j] = IF j = i THEN o ELSE reply[j]
  BY StandingFixed DEF given, Tele, Index, Finish, TypeOK
<1>3. OrderInv'
  BY <1>2 DEF OrderInv, Tele, InHand
<1>4. JudgedInv'
  BY <1>1, <1>2 DEF JudgedInv, Tele
<1>5. ListInv'
  <2> SUFFICES ASSUME NEW k \in 0..Len(inbox), \A j \in Tele : stage'[j] = "done" <=> j <= k
               PROVE  users' = standing[k]
    BY <1>2 DEF ListInv
  <2>1. i <= k /\ i \in 0..Len(inbox)
    BY <1>1, <1>2
  <2>2. ASSUME NEW j \in Tele, i < j, j <= k PROVE FALSE
    <3>1. stage[j] = "done"
      BY <1>1, <1>2, <2>2 DEF Tele
    <3> QED
      BY <2>2, <3>1 DEF OrderInv, InHand
  <2>3. standing[k] = standing[i]
    BY <2>1, <2>2, Gap
  <2>4. standing[i] = Judge(inbox[i], standing[i - 1])
    BY <1>1, StandingStep
  <2> QED
    BY <1>1, <2>3, <2>4
<1> QED
  BY <1>3, <1>4, <1>5

\* A message that arrives or is admitted.
LEMMA SeqWay ==
  ASSUME TypeOK, TypeOK', OrderInv, ListInv, JudgedInv, NEW i \in Index,
         NEW s \in {"arrived", "admitted"}, stage[i] # "done", stage' = [stage EXCEPT ![i] = s],
         UNCHANGED <<given, users, reply>>,
         i \in Tele => \A j \in Tele : j < i => stage[j] = "done",
         i \in Tele /\ s = "admitted" => InHand(i) /\ inbox[i].user \in users
  PROVE  OrderInv' /\ ListInv' /\ JudgedInv'
<1>1. /\ Tele' = Tele /\ standing' = standing /\ inbox' = inbox /\ Tele \subseteq Index
      /\ \A j \in Index : stage'[j] = IF j = i THEN s ELSE stage[j]
  BY StandingFixed DEF given, Tele, Index, TypeOK
<1>2. \A j \in Index : stage'[j] = "done" <=> stage[j] = "done"
  BY <1>1
<1>3. OrderInv'
  BY <1>1, <1>2 DEF OrderInv
<1>4. ListInv'
  BY <1>1, <1>2 DEF ListInv, Tele
<1>5. JudgedInv'
  <2>1. i \in Tele /\ s = "admitted" => inbox[i].user \in standing[i - 1]
    BY Turn
  <2> QED
    BY <1>1, <1>2, <2>1 DEF JudgedInv, given
<1> QED
  BY <1>3, <1>4, <1>5

\* What handling a Telegram message means for the list.
LEMMA TelegramDone ==
  ASSUME TypeOK, NEW i \in Tele, Handle(i), ~Admit(i),
         stage[i] = "admitted" => inbox[i].user \in users
  PROVE  /\ InHand(i) /\ users' = Judge(inbox[i], users) /\ UNCHANGED given
         /\ \E o \in Outcomes : Finish(i, o) /\ (o = "refused" <=> inbox[i].user \notin users)
<1> DEFINE m == inbox[i]
<1>1. m \in Messages /\ m.chan = "telegram" /\ config \in Configs /\ users \subseteq Users
  BY MessageType DEF Tele, TypeOK
<1>2. CASE Refuse(i)
  <2>1. m.user \notin users
    BY <1>1, <1>2 DEF Refuse, Authorized
  <2> QED
    BY <1>2, <2>1 DEF Refuse, InHand, Judge, Outcomes
<1>3. ASSUME ~Refuse(i) PROVE InHand(i) /\ UNCHANGED given /\ m.user \in users
  BY <1>3 DEF Handle, Answer, ChangeUsers, RunCommand, PassOn, InHand
<1>4. CASE Answer(i)
  <2>1. ~Refuse(i)
    BY <1>4 DEF Answer, Refuse
  <2>2. \E o \in {"answered", "denied"} : Finish(i, o)
    BY <1>4 DEF Answer
  <2>3. users' = users /\ Judge(m, users) = users
    <3>1. CASE m.cmd \notin {"adduser", "removeuser"} \/ m.arg \notin Users
      BY <1>1, <1>4, <3>1 DEF Answer, Judge
    <3>2. CASE m.cmd \in {"adduser", "removeuser"} /\ m.arg \in Users
      <4>1. ~MayCommand(m)
        BY <1>1, <1>4, <3>2 DEF Answer, Unknown, UserList, Tasks, Selections
      <4>2. m.user # config.admin
        BY <1>1, <4>1, ConstantsAssumption DEF MayCommand, Messages
      <4> QED
        BY <1>4, <4>2 DEF Answer, Judge
    <3> QED
      BY <3>1, <3>2
  <2> QED
    BY <1>3, <2>1, <2>2, <2>3 DEF Outcomes
<1>5. CASE ChangeUsers(i)
  <2>1. ~Refuse(i)
    BY <1>5 DEF ChangeUsers, Refuse
  <2>2. m.cmd \in {"adduser", "removeuser"} /\ m.arg \in Users /\ m.user = config.admin
    BY <1>5 DEF ChangeUsers, MayCommand, UserList
  <2>3. users' = Judge(m, users)
    BY <1>1, <1>3, <1>5, <2>1, <2>2 DEF ChangeUsers, Judge
  <2>4. Finish(i, "answered")
    BY <1>5 DEF ChangeUsers
  <2> QED
    BY <1>3, <2>1, <2>3, <2>4 DEF Outcomes
<1>6. CASE RunCommand(i)
  <2>1. ~Refuse(i) /\ users' = users /\ Judge(m, users) = users
    BY <1>6 DEF RunCommand, Refuse, Judge
  <2>2. Finish(i, "managerRefused") \/ Finish(i, "called")
    BY <1>6 DEF RunCommand, AgentCommand, CallAgent
  <2> QED
    BY <1>3, <2>1, <2>2 DEF Outcomes
<1>7. CASE PassOn(i)
  <2>1. ~Refuse(i) /\ users' = users /\ Judge(m, users) = users
    BY <1>7 DEF PassOn, Refuse, Judge, Tasks, Selections
  <2>2. PICK a : HandleIncoming(i, a)
    BY <1>7 DEF PassOn
  <2>3. \E o \in {"disabled", "runtime", "called", "managerRefused", "echo"} : Finish(i, o)
    BY <2>2, HandleOutcome DEF Tele
  <2> QED
    BY <1>3, <2>1, <2>3 DEF Outcomes
<1> QED
  BY <1>2, <1>4, <1>5, <1>6, <1>7 DEF Handle

LEMMA SeqStep ==
  ASSUME BaseInv, BaseInv', SeqInv, [Next]_vars
  PROVE  SeqInv'
<1>1. TypeOK /\ TypeOK' /\ UNCHANGED given
  <2>1. UNCHANGED given
    BY StepKinds DEF DoneStep
  <2> QED
    BY <2>1 DEF BaseInv
<1> SUFFICES ASSUME ~config.webhook PROVE ~crashed' /\ OrderInv' /\ ListInv' /\ JudgedInv'
  BY <1>1 DEF SeqInv, given
<1>2. ~crashed /\ OrderInv /\ ListInv /\ JudgedInv
  BY DEF SeqInv
<1>3. ASSUME UNCHANGED <<users, stage, reply>> PROVE OrderInv' /\ ListInv' /\ JudgedInv'
  <2>1. Tele' = Tele /\ standing' = standing /\ inbox' = inbox
    BY <1>1, StandingFixed DEF given, Tele, Index
  <2> QED
    BY <1>2, <1>3, <2>1 DEF OrderInv, ListInv, JudgedInv
<1>4. CASE UNCHANGED vars \/ Boot
  BY <1>2, <1>3, <1>4 DEF vars, Boot
<1>5. ASSUME NEW i \in Index, NEW j \in Index, MapRace(i, j) PROVE FALSE
  <2>1. i \in Tele /\ j \in Tele /\ i # j /\ InHand(i) /\ InHand(j)
    BY <1>5 DEF MapRace, WritesUsers, ReadsUsers, Tele, InHand
  <2>2. i \in Nat /\ j \in Nat
    BY <1>1 DEF TypeOK, Index
  <2> QED
    BY <1>2, <2>1, <2>2 DEF OrderInv, InHand
<1>6. ASSUME NEW i \in Index, Arrive(i) PROVE SeqInv'
  <2>1. ASSUME i \in Tele, NEW j \in Tele, j < i PROVE stage[j] = "done"
    <3>1. i \in Nat /\ j \in Nat /\ 1 <= j
      BY <1>1 DEF TypeOK, Index, Tele
    <3>2. j \in 1..i - 1
      BY <2>1, <3>1
    <3>3. inbox[i].chan = "telegram" /\ inbox[j].chan = "telegram"
      BY <2>1 DEF Tele
    <3> QED
      BY <1>6, <3>2, <3>3 DEF Arrive
  <2>2. OrderInv' /\ ListInv' /\ JudgedInv' /\ crashed' = crashed
    BY <1>1, <1>2, <1>6, <2>1, SeqWay DEF Arrive
  <2> QED
    BY <1>2, <2>2 DEF SeqInv
<1>7. ASSUME NEW i \in Index, Admit(i) PROVE SeqInv'
  <2>1. i \in Tele => InHand(i) /\ inbox[i].user \in users
    BY <1>7 DEF Admit, Open, Authorized, Tele, InHand
  <2>2. i \in Tele => \A j \in Tele : j < i => stage[j] = "done"
    BY <1>2, <2>1 DEF OrderInv, InHand
  <2>3. OrderInv' /\ ListInv' /\ JudgedInv' /\ crashed' = crashed
    BY <1>1, <1>2, <1>7, <2>1, <2>2, SeqWay DEF Admit
  <2> QED
    BY <1>2, <2>3 DEF SeqInv
<1>8. ASSUME NEW i \in Index, Handle(i), ~Admit(i) PROVE SeqInv'
  <2>1. crashed' = crashed
    BY <1>8 DEF Handle, Refuse, Answer, ChangeUsers, RunCommand, PassOn
  <2>2. CASE i \in Tele
    <3>1. stage[i] = "admitted" => inbox[i].user \in users
      BY <1>1, <1>2, <2>2, Turn DEF JudgedInv, InHand
    <3>2. /\ InHand(i) /\ users' = Judge(inbox[i], users)
          /\ \E o \in Outcomes : Finish(i, o) /\ (o = "refused" <=> inbox[i].user \notin users)
      BY <1>1, <1>8, <2>2, <3>1, TelegramDone
    <3> QED
      BY <1>1, <1>2, <2>1, <2>2, <3>2, SeqDone DEF SeqInv
  <2>3. CASE i \notin Tele
    <3>1. users' = users
      BY <1>8, <2>3 DEF Handle, Refuse, Answer, ChangeUsers, RunCommand, PassOn, Tele
    <3>2. PICK o \in Outcomes : DoneStep(i, o)
      BY <1>8, HandleCases
    <3>3. \A j \in Tele : stage'[j] = stage[j] /\ reply'[j] = reply[j]
      BY <1>1, <2>3, <3>2 DEF DoneStep, Finish, TypeOK, Tele
    <3>4. Tele' = Tele /\ standing' = standing /\ inbox' = inbox
      BY <1>1, StandingFixed DEF given, Tele, Index
    <3> QED
      BY <1>2, <2>1, <3>1, <3>3, <3>4 DEF SeqInv, OrderInv, ListInv, JudgedInv
  <2> QED
    BY <2>2, <2>3
<1>9. SeqInv' => ~crashed' /\ OrderInv' /\ ListInv' /\ JudgedInv'
  BY <1>1 DEF SeqInv, given
<1>10. CASE UNCHANGED vars \/ Boot
  BY <1>2, <1>4, <1>10 DEF vars, Boot
<1>11. ASSUME NEW i \in Index, Arrive(i) \/ Handle(i) PROVE SeqInv'
  BY <1>6, <1>7, <1>8, <1>11
<1> QED
  BY <1>5, <1>9, <1>10, <1>11 DEF Next

\* With polling, each message is judged by the list that the messages before it
\* leave behind, and no two goroutines meet in the map: for any conversation.
THEOREM PollingNeedsNoLock == Spec => []PollingIsSequential
<1>1. SeqInv => PollingIsSequential
  BY DEF SeqInv, JudgedInv, PollingIsSequential, Tele
<1> QED
  BY <1>1, SeqInit, SeqStep, BaseInit, BaseStep, PTL DEF Spec
=============================================================================
