------------------------- MODULE AgentRuntime_proofs -------------------------
(***************************************************************************)
(* Proofs about AgentRuntime, for any tasks, files, jobs, configurations   *)
(* and planners, and any budget of the loop.                               *)
(***************************************************************************)
EXTENDS AgentRuntime, TLAPS

Replacing == {"temp", "sync", "rename", "replace", "again"}

\* What a place in a tool says of the job in hand and of the configuration.
PlaceAt(t) ==
  /\ pc[t] \in Replacing \cup {"stat", "load", "unlink"} =>
       job[t].path \in Files /\ config.roots /\ job[t].tool \in config.allowed
  /\ pc[t] = "load" => job[t].tool \in {"file.read", "file.edit"}
  /\ pc[t] \in Replacing => job[t].tool \in Writing
  /\ pc[t] = "unlink" => job[t].tool = "file.delete"
  /\ pc[t] \in {"rename", "replace", "again"} => temp[t] = "synced"
  /\ config.mode = "basic" /\ pc[t] \in {"idle", "plan"} => steps[t] = 0
PlaceInv == \A t \in Tasks : PlaceAt(t)

\* No data of a file is ever only in memory.
SyncedInv == \A f \in Files : flushed[f]

BaseInv == TypeOK /\ PlaceInv

-----------------------------------------------------------------------------
(* Types.                                                                  *)

LEMMA BaseInit == Init => BaseInv
<1> SUFFICES ASSUME Init PROVE BaseInv
  OBVIOUS
<1> USE ConstantsAssumption DEF Init
<1>1. (CHOOSE j \in Jobs : TRUE) \in AllJobs
  OBVIOUS
<1>2. disk \in [Files -> Contents] /\ versions \in [Files -> SUBSET Texts]
  <2>1. Marks \in Texts /\ {} \in Texts
    BY DEF Texts
  <2>2. {Missing, {{}}, {Marks}} \subseteq Contents
    BY <2>1 DEF Contents, Missing
  <2>3. {Missing, {{}}, {Marks}} \subseteq SUBSET Texts
    BY <2>1 DEF Missing
  <2> QED
    BY <2>2, <2>3
<1>3. TypeOK
  BY <1>1, <1>2 DEF TypeOK, Where, Results, Replies, Texts
<1>4. PlaceInv
  BY DEF PlaceInv, PlaceAt, Replacing
<1> QED
  BY <1>3, <1>4 DEF BaseInv

ControlType ==
  /\ pc \in [Tasks -> Where] /\ last \in [Tasks -> Results \cup {"none"}]
  /\ reply \in [Tasks -> Replies \cup {"none"}]

\* Only task t moves, and to one of these places.
Moves(t, places) ==
  /\ pc' = [pc EXCEPT ![t] = pc'[t]] /\ pc'[t] \in places

LEMMA AnswerType ==
  ASSUME ControlType, NEW t \in Tasks, NEW r \in Replies, Answer(t, r)
  PROVE  UNCHANGED <<job, steps>> /\ ControlType' /\ Moves(t, {"done"})
BY DEF ControlType, Moves, Answer, Where

\* How a tool returns, in one form for all the modes.
LEMMA ResultType ==
  ASSUME ControlType, NEW t \in Tasks, NEW r \in Results, Result(t, r)
  PROVE  UNCHANGED <<job, steps>> /\ ControlType' /\ Moves(t, {"plan", "done"})
<1>1. CASE Answer(t, r)
  BY <1>1, AnswerType DEF Replies, Moves
<1>2. CASE /\ last' = [last EXCEPT ![t] = r] /\ pc' = [pc EXCEPT ![t] = "plan"]
           /\ UNCHANGED <<job, steps, reply>>
  BY <1>2 DEF ControlType, Moves, Where
<1> QED
  BY <1>1, <1>2 DEF Result

LEMMA GotoType ==
  ASSUME ControlType, NEW t \in Tasks, NEW w \in Where, Goto(t, w)
  PROVE  UNCHANGED <<job, steps>> /\ ControlType' /\ Moves(t, {w})
BY DEF ControlType, Moves, Goto

LEMMA CallType ==
  ASSUME TypeOK, NEW t \in Tasks, NEW j \in AllJobs, Call(t, j), steps[t] < MaxSteps
  PROVE  /\ ControlType' /\ Moves(t, {"execute"})
         /\ job' \in [Tasks -> AllJobs] /\ steps' \in [Tasks -> 0..MaxSteps]
<1> USE ConstantsAssumption
<1>1. ControlType' /\ Moves(t, {"execute"})
  BY DEF TypeOK, ControlType, Moves, Call, Where
<1>2. job' \in [Tasks -> AllJobs]
  BY DEF TypeOK, Call
<1>3. steps' \in [Tasks -> 0..MaxSteps]
  BY DEF TypeOK, Call
<1> QED
  BY <1>1, <1>2, <1>3

LEMMA JobType ==
  ASSUME TypeOK, NEW t \in Tasks
  PROVE  /\ job[t].path \in Files \cup {Outside} /\ job[t].old \in Marks
         /\ ValidPath(job[t].path) => job[t].path \in Files /\ config.roots
BY DEF TypeOK, AllJobs, ValidPath

LEMMA DataType ==
  ASSUME TypeOK, NEW t \in Tasks
  PROVE  Data(t) \in Texts
BY JobType DEF TypeOK, Data, Texts

\* The others' places do not change.
LEMMA PlaceStep ==
  ASSUME TypeOK, PlaceInv, NEW t \in Tasks, Moves(t, Where), PlaceAt(t)',
         job' = [job EXCEPT ![t] = job'[t]], temp' = [temp EXCEPT ![t] = temp'[t]],
         steps' = [steps EXCEPT ![t] = steps'[t]], UNCHANGED config
  PROVE  PlaceInv'
<1> SUFFICES ASSUME NEW u \in Tasks PROVE PlaceAt(u)'
  BY DEF PlaceInv
<1>1. CASE u = t
  BY <1>1
<1>2. CASE u # t
  <2>1. pc'[u] = pc[u] /\ job'[u] = job[u] /\ temp'[u] = temp[u] /\ steps'[u] = steps[u]
    BY <1>2 DEF TypeOK, Moves
  <2> QED
    BY <2>1 DEF PlaceInv, PlaceAt
<1> QED
  BY <1>1, <1>2

LEMMA FreePlace ==
  ASSUME NEW t \in Tasks, Moves(t, {"plan", "done", "execute", "run"}), UNCHANGED config,
         pc'[t] = "plan" => config.mode # "basic"
  PROVE  PlaceAt(t)'
BY DEF Moves, PlaceAt, Replacing

\* The variables that files and processes are about.
WorkType ==
  /\ got \in [Tasks -> Texts] /\ temp \in [Tasks -> {"none", "written", "synced"}]
  /\ child \in [Tasks -> {"none", "running", "ended", "failed"}] /\ held \in [Tasks -> BOOLEAN]
FilesType ==
  /\ disk \in [Files -> Contents] /\ flushed \in [Files -> BOOLEAN]
  /\ versions \in [Files -> SUBSET Texts]
HistoryType ==
  /\ did \in [Tasks -> SUBSET {"installed", "deleted", "removed", "ran"}]
  /\ alone \in [Tasks -> BOOLEAN]
JobsType ==
  config \in Configs /\ job \in [Tasks -> AllJobs] /\ steps \in [Tasks -> 0..MaxSteps] /\ alive \in BOOLEAN

LEMMA TypeParts == TypeOK <=> ControlType /\ WorkType /\ FilesType /\ HistoryType /\ JobsType
BY DEF TypeOK, ControlType, WorkType, FilesType, HistoryType, JobsType

\* A step that leaves files, processes and histories alone.
LEMMA QuietStep ==
  ASSUME TypeOK, PlaceInv, NEW t \in Tasks, Moves(t, Where), PlaceAt(t)', ControlType',
         UNCHANGED <<config, job, steps, temp, files, alive, versions, alone>>,
         WorkType', did' \in [Tasks -> SUBSET {"installed", "deleted", "removed", "ran"}]
  PROVE  BaseInv'
<1>1. FilesType' /\ HistoryType' /\ JobsType'
  BY TypeParts DEF FilesType, HistoryType, JobsType, files
<1>2. TypeOK'
  BY <1>1 DEF TypeOK, ControlType, WorkType, FilesType, HistoryType, JobsType
<1>3. /\ job' = [job EXCEPT ![t] = job'[t]] /\ temp' = [temp EXCEPT ![t] = temp'[t]]
      /\ steps' = [steps EXCEPT ![t] = steps'[t]]
  BY DEF TypeOK
<1>4. PlaceInv'
  BY <1>3, PlaceStep
<1> QED
  BY <1>2, <1>4 DEF BaseInv

-----------------------------------------------------------------------------
(* The steps, one by one.                                                  *)

\* A task that answers or is told to go on, with nothing else changed.
LEMMA ControlStep ==
  ASSUME TypeOK, PlaceInv, NEW t \in Tasks, ControlType', Moves(t, {"plan", "done", "execute", "run"}),
         pc'[t] = "plan" => config.mode # "basic",
         UNCHANGED <<config, job, steps, temp, files, alive, versions, alone>>,
         WorkType', did' \in [Tasks -> SUBSET {"installed", "deleted", "removed", "ran"}]
  PROVE  BaseInv'
<1>1. PlaceAt(t)'
  BY FreePlace
<1>2. Moves(t, Where)
  BY DEF Moves, Where
<1> QED
  BY <1>1, <1>2, QuietStep

LEMMA WorkSame == ASSUME TypeOK, UNCHANGED <<work, did>>
  PROVE WorkType' /\ did' \in [Tasks -> SUBSET {"installed", "deleted", "removed", "ran"}]
BY DEF TypeOK, WorkType, work

LEMMA CallStep ==
  ASSUME TypeOK, PlaceInv, NEW t \in Tasks, NEW j \in AllJobs, Call(t, j), steps[t] < MaxSteps,
         UNCHANGED <<config, work, files, alive, versions, did, alone>>
  PROVE  BaseInv'
<1>1. /\ ControlType' /\ Moves(t, {"execute"})
      /\ job' \in [Tasks -> AllJobs] /\ steps' \in [Tasks -> 0..MaxSteps]
  BY CallType
<1>2. TypeOK'
  BY <1>1 DEF TypeOK, ControlType, work, files
<1>3. Moves(t, {"plan", "done", "execute", "run"}) /\ Moves(t, Where) /\ pc'[t] # "plan"
  BY <1>1 DEF Moves, Where
<1>4. /\ job' = [job EXCEPT ![t] = job'[t]] /\ temp' = [temp EXCEPT ![t] = temp'[t]]
      /\ steps' = [steps EXCEPT ![t] = steps'[t]]
  BY DEF TypeOK, Call, work
<1>5. PlaceInv'
  BY <1>3, <1>4, FreePlace, PlaceStep
<1> QED
  BY <1>2, <1>5 DEF BaseInv

LEMMA ArriveStep ==
  ASSUME BaseInv, NEW t \in Tasks, Arrive(t)
  PROVE  BaseInv'
<1> USE ConstantsAssumption DEF BaseInv, Arrive
<1>1. PICK j \in Jobs : job' = [job EXCEPT ![t] = j]
  OBVIOUS
<1>2. job' \in [Tasks -> AllJobs] /\ pc' \in [Tasks -> Where] /\ alone' \in [Tasks -> BOOLEAN]
  <2>1. job' \in [Tasks -> AllJobs] /\ pc' \in [Tasks -> Where]
    BY <1>1 DEF TypeOK, Where
  <2>2. \A u \in Tasks : alone[u] \in BOOLEAN
    BY DEF TypeOK
  <2>3. alone' \in [Tasks -> BOOLEAN]
    BY <2>2, Zenon
  <2> QED
    BY <2>1, <2>3
<1>3. TypeOK'
  BY <1>2 DEF TypeOK, work, files
<1>4. Moves(t, Where) /\ pc'[t] = "plan"
  BY DEF TypeOK, Moves, Where
<1>5. /\ job' = [job EXCEPT ![t] = job'[t]] /\ temp' = [temp EXCEPT ![t] = temp'[t]]
      /\ steps' = [steps EXCEPT ![t] = steps'[t]] /\ UNCHANGED config
  BY <1>1 DEF TypeOK, work
<1>6. PlaceAt(t)'
  BY <1>4 DEF PlaceInv, PlaceAt, Replacing
<1>7. PlaceInv'
  BY <1>4, <1>5, <1>6, PlaceStep
<1> QED
  BY <1>3, <1>7

LEMMA AnswerStep ==
  ASSUME TypeOK, PlaceInv, NEW t \in Tasks, NEW r \in Replies, Answer(t, r),
         UNCHANGED <<config, work, files, alive, versions, did, alone>>
  PROVE  BaseInv'
<1>1. ControlType
  BY TypeParts
<1>2. UNCHANGED <<job, steps>> /\ ControlType' /\ Moves(t, {"done"})
  BY <1>1, AnswerType
<1>3. Moves(t, {"plan", "done", "execute", "run"}) /\ pc'[t] # "plan" /\ UNCHANGED temp
  BY <1>2 DEF Moves, work
<1> QED
  BY <1>2, <1>3, WorkSame, ControlStep

LEMMA PlanStep ==
  ASSUME BaseInv, NEW t \in Tasks, ContextFails(t) \/ Basic(t) \/ LoopStep(t)
  PROVE  BaseInv'
<1> USE ConstantsAssumption DEF BaseInv
<1>1. CASE ContextFails(t)
  <2>1. "failed" \in Replies
    BY DEF Replies
  <2> QED
    BY <1>1, <2>1, AnswerStep DEF ContextFails
<1>2. CASE Basic(t)
  <2>1. "ack" \in Replies /\ "usage" \in Replies
    BY DEF Replies
  <2>2. CASE Answer(t, "ack") \/ Answer(t, "usage")
    BY <1>2, <2>1, <2>2, AnswerStep DEF Basic
  <2>3. CASE Call(t, job[t])
    <3>1. job[t] \in AllJobs
      BY DEF TypeOK
    <3>2. pc[t] = "plan" /\ config.mode = "basic"
      BY <1>2 DEF Basic
    <3>3. steps[t] = 0
      BY <3>2 DEF PlaceInv, PlaceAt
    <3>4. steps[t] < MaxSteps
      BY <3>3
    <3> QED
      BY <1>2, <2>3, <3>1, <3>4, CallStep DEF Basic
  <2> QED
    BY <1>2, <2>2, <2>3 DEF Basic
<1>3. CASE LoopStep(t)
  <2>1. {"ok", "text", "error", "no action", "usage", "failed", "budget"} \subseteq Replies
    BY DEF Replies, Results
  <2>2. steps[t] \in 0..MaxSteps
    BY DEF TypeOK
  <2>3. job[t] \in AllJobs /\ last[t] \in Results \cup {"none"}
    BY DEF TypeOK
  <2>4. (\E r \in Replies : Answer(t, r)) \/ \E j \in AllJobs : Call(t, j) /\ steps[t] < MaxSteps
    <3>1. CASE Answer(t, "budget")
      BY <3>1, <2>1
    <3>2. CASE NextStep(t) /\ steps[t] < MaxSteps
      BY <3>2, <2>1, <2>3 DEF NextStep
    <3>3. CASE AnyPlanner(t) /\ steps[t] < MaxSteps
      BY <3>3, <2>1 DEF AnyPlanner
    <3> QED
      BY <1>3, <3>1, <3>2, <3>3 DEF LoopStep
  <2> QED
    BY <1>3, <2>4, AnswerStep, CallStep DEF LoopStep
<1> QED
  BY <1>1, <1>2, <1>3

\* A tool has returned, with nothing but the calling task's own work changed.
LEMMA ReturnStep ==
  ASSUME BaseInv, NEW t \in Tasks, NEW r \in Results, Result(t, r),
         UNCHANGED <<config, files, alive, versions, alone>>,
         WorkType', temp' = [temp EXCEPT ![t] = temp'[t]],
         did' \in [Tasks -> SUBSET {"installed", "deleted", "removed", "ran"}]
  PROVE  BaseInv'
<1>1. ControlType /\ TypeOK /\ PlaceInv
  BY TypeParts DEF BaseInv
<1>2. UNCHANGED <<job, steps>> /\ ControlType' /\ Moves(t, {"plan", "done"})
  BY <1>1, ResultType
<1>3. pc'[t] = "plan" => config.mode # "basic"
  BY <1>1 DEF Result, Answer, ControlType
<1>4. Moves(t, {"plan", "done", "execute", "run"})
  BY <1>2 DEF Moves
<1>5. FilesType' /\ HistoryType' /\ JobsType'
  BY <1>1, <1>2, TypeParts DEF FilesType, HistoryType, JobsType, files
<1>6. TypeOK'
  BY <1>2, <1>5 DEF TypeOK, ControlType, WorkType, FilesType, HistoryType, JobsType
<1>7. job' = [job EXCEPT ![t] = job'[t]] /\ steps' = [steps EXCEPT ![t] = steps'[t]]
  BY <1>1, <1>2 DEF TypeOK
<1>8. PlaceAt(t)' /\ Moves(t, Where)
  BY <1>2, <1>3, <1>4, FreePlace DEF Moves, Where
<1>9. PlaceInv'
  BY <1>1, <1>7, <1>8, PlaceStep
<1> QED
  BY <1>6, <1>9 DEF BaseInv

\* A tool goes on to a place whose claims hold, with nothing but the calling
\* task's own work changed.
LEMMA GotoStep ==
  ASSUME BaseInv, NEW t \in Tasks, NEW w \in Where, Goto(t, w), PlaceAt(t)',
         UNCHANGED <<config, files, alive, versions, alone>>,
         WorkType', temp' = [temp EXCEPT ![t] = temp'[t]],
         did' \in [Tasks -> SUBSET {"installed", "deleted", "removed", "ran"}]
  PROVE  BaseInv'
<1>1. ControlType /\ TypeOK /\ PlaceInv
  BY TypeParts DEF BaseInv
<1>2. UNCHANGED <<job, steps>> /\ ControlType' /\ Moves(t, {w})
  BY <1>1, GotoType
<1>3. FilesType' /\ HistoryType' /\ JobsType'
  BY <1>1, <1>2, TypeParts DEF FilesType, HistoryType, JobsType, files
<1>4. TypeOK'
  BY <1>2, <1>3 DEF TypeOK, ControlType, WorkType, FilesType, HistoryType, JobsType
<1>5. job' = [job EXCEPT ![t] = job'[t]] /\ steps' = [steps EXCEPT ![t] = steps'[t]]
  BY <1>1, <1>2 DEF TypeOK
<1>6. Moves(t, Where)
  BY <1>2 DEF Moves
<1>7. PlaceInv'
  BY <1>1, <1>5, <1>6, PlaceStep
<1> QED
  BY <1>4, <1>7 DEF BaseInv

LEMMA SameTemp ==
  ASSUME TypeOK, NEW t \in Tasks, UNCHANGED temp
  PROVE  temp' = [temp EXCEPT ![t] = temp'[t]]
BY DEF TypeOK

LEMMA ExecuteStep ==
  ASSUME BaseInv, NEW t \in Tasks, Execute(t)
  PROVE  BaseInv'
<1> DEFINE name == job[t].tool
<1>1. TypeOK /\ PlaceInv /\ {"error", "text", "blank"} \subseteq Results
  BY DEF BaseInv, Results
<1>2. /\ WorkType' /\ did' \in [Tasks -> SUBSET {"installed", "deleted", "removed", "ran"}]
      /\ temp' = [temp EXCEPT ![t] = temp'[t]]
  <2>1. /\ child' \in [Tasks -> {"none", "running", "ended", "failed"}]
        /\ did' \in [Tasks -> SUBSET {"installed", "deleted", "removed", "ran"}]
    <3>1. CASE UNCHANGED <<child, did>>
      BY <1>1, <3>1 DEF TypeOK
    <3>2. CASE /\ child' = [child EXCEPT ![t] = "running"]
               /\ did' = [did EXCEPT ![t] = @ \cup {"ran"}]
      BY <1>1, <3>2 DEF TypeOK
    <3> QED
      BY <3>1, <3>2 DEF Execute
  <2> QED
    BY <1>1, <2>1, SameTemp DEF Execute, TypeOK, WorkType
<1>3. UNCHANGED <<config, files, alive, versions, alone>>
  BY DEF Execute
<1>4. CASE \E r \in {"error", "text", "blank"} : Result(t, r)
  BY <1>1, <1>2, <1>3, <1>4, ReturnStep
<1>5. CASE name \in FileTools /\ IsAllowed(name) /\ ValidPath(job[t].path) /\ Goto(t, "stat")
  <2>1. job[t].path \in Files /\ config.roots
    BY <1>1, <1>5, JobType
  <2>2. name \in config.allowed
    BY <1>5 DEF IsAllowed, FileTools, Looking, Writing
  <2>3. PlaceAt(t)' /\ "stat" \in Where
    BY <1>1, <1>3, <1>5, <2>1, <2>2 DEF TypeOK, Goto, PlaceAt, Replacing, Where
  <2> QED
    BY <1>2, <1>3, <1>5, <2>3, GotoStep
<1>6. CASE Goto(t, "run")
  <2>1. PlaceAt(t)' /\ "run" \in Where
    BY <1>1, <1>6 DEF TypeOK, Goto, PlaceAt, Replacing, Where
  <2> QED
    BY <1>2, <1>3, <1>6, <2>1, GotoStep
<1> QED
  BY <1>4, <1>5, <1>6 DEF Execute

LEMMA StatStep ==
  ASSUME BaseInv, NEW t \in Tasks, Stat(t)
  PROVE  BaseInv'
<1>1. TypeOK /\ PlaceInv /\ "error" \in Results /\ "text" \in Results
  BY DEF BaseInv, Results
<1>2. /\ WorkType' /\ did' \in [Tasks -> SUBSET {"installed", "deleted", "removed", "ran"}]
      /\ temp' = [temp EXCEPT ![t] = temp'[t]]
  BY <1>1, WorkSame, SameTemp DEF Stat, work
<1>3. UNCHANGED <<config, files, alive, versions, alone>>
  BY DEF Stat
<1>4. job[t].path \in Files /\ config.roots /\ job[t].tool \in config.allowed
  BY <1>1 DEF PlaceInv, PlaceAt, Stat
<1>5. CASE Result(t, "error") \/ Result(t, "text")
  BY <1>1, <1>2, <1>3, <1>5, ReturnStep
<1>6. CASE \/ job[t].tool = "file.write" /\ Goto(t, "temp")
           \/ job[t].tool \in {"file.read", "file.edit"} /\ Goto(t, "load")
           \/ job[t].tool = "file.delete" /\ Goto(t, "unlink")
  <2>1. PICK w \in {"temp", "load", "unlink"} : Goto(t, w) /\ PlaceAt(t)'
    BY <1>1, <1>3, <1>4, <1>6 DEF TypeOK, Goto, PlaceAt, Replacing, Writing
  <2> QED
    BY <1>2, <1>3, <2>1, GotoStep DEF Where
<1> QED
  BY <1>5, <1>6 DEF Stat

LEMMA LoadStep ==
  ASSUME BaseInv, NEW t \in Tasks, Load(t)
  PROVE  BaseInv'
<1>1. TypeOK /\ PlaceInv /\ {"error", "text", "blank"} \subseteq Results
  BY DEF BaseInv, Results
<1>2. job[t].path \in Files /\ config.roots /\ job[t].tool \in config.allowed
  BY <1>1 DEF PlaceInv, PlaceAt, Load
<1>3. File(t) \subseteq Texts
  BY <1>1, <1>2 DEF TypeOK, File, Contents
<1>4. got' \in [Tasks -> Texts]
  <2>1. CASE UNCHANGED got
    BY <1>1, <2>1 DEF TypeOK
  <2>2. CASE \E x \in File(t) : got' = [got EXCEPT ![t] = x]
    BY <1>1, <1>3, <2>2 DEF TypeOK
  <2> QED
    BY <2>1, <2>2 DEF Load
<1>5. /\ WorkType' /\ did' \in [Tasks -> SUBSET {"installed", "deleted", "removed", "ran"}]
      /\ temp' = [temp EXCEPT ![t] = temp'[t]]
  BY <1>1, <1>4, SameTemp DEF Load, TypeOK, WorkType
<1>6. UNCHANGED <<config, files, alive, versions, alone>>
  BY DEF Load
<1>7. CASE Result(t, "error") \/ Result(t, "text") \/ Result(t, "blank")
  BY <1>1, <1>5, <1>6, <1>7, ReturnStep
<1>8. CASE job[t].tool = "file.edit" /\ Goto(t, "temp")
  <2>1. PlaceAt(t)' /\ "temp" \in Where
    BY <1>1, <1>2, <1>6, <1>8 DEF TypeOK, Goto, PlaceAt, Replacing, Writing, Where
  <2> QED
    BY <1>5, <1>6, <1>8, <2>1, GotoStep
<1> QED
  BY <1>7, <1>8 DEF Load

LEMMA TempStep ==
  ASSUME BaseInv, NEW t \in Tasks, WriteTemp(t) \/ Sync(t)
  PROVE  BaseInv'
<1>1. TypeOK /\ PlaceInv /\ "error" \in Results
  BY DEF BaseInv, Results
<1>2. /\ job[t].path \in Files /\ config.roots /\ job[t].tool \in config.allowed
      /\ job[t].tool \in Writing
  BY <1>1 DEF PlaceInv, PlaceAt, WriteTemp, Sync, Replacing
<1>3. temp' \in [Tasks -> {"none", "written", "synced"}] /\ temp' = [temp EXCEPT ![t] = temp'[t]]
  BY <1>1 DEF TypeOK, WriteTemp, Sync
<1>4. WorkType' /\ did' \in [Tasks -> SUBSET {"installed", "deleted", "removed", "ran"}]
  BY <1>1, <1>3 DEF WriteTemp, Sync, TypeOK, WorkType
<1>5. UNCHANGED <<config, files, alive, versions, alone>>
  BY DEF WriteTemp, Sync
<1>6. CASE Result(t, "error")
  BY <1>1, <1>3, <1>4, <1>5, <1>6, ReturnStep
<1>7. CASE Goto(t, "sync") \/ (Goto(t, "rename") /\ temp'[t] = "synced")
  <2>1. PICK w \in {"sync", "rename"} : Goto(t, w) /\ PlaceAt(t)'
    BY <1>1, <1>2, <1>5, <1>7 DEF TypeOK, Goto, PlaceAt, Replacing
  <2> QED
    BY <1>3, <1>4, <1>5, <2>1, GotoStep DEF Where
<1> QED
  BY <1>1, <1>6, <1>7 DEF WriteTemp, Sync, TypeOK

\* A step of task t that may change the files.
LEMMA FilesStep ==
  ASSUME BaseInv, NEW t \in Tasks, ControlType', Moves(t, Where), PlaceAt(t)',
         UNCHANGED <<config, job, steps, alive>>, WorkType', FilesType', HistoryType',
         temp' = [temp EXCEPT ![t] = temp'[t]]
  PROVE  BaseInv'
<1>1. TypeOK /\ PlaceInv /\ JobsType'
  BY TypeParts DEF BaseInv, JobsType
<1>2. TypeOK'
  BY <1>1 DEF TypeOK, ControlType, WorkType, FilesType, HistoryType, JobsType
<1>3. job' = [job EXCEPT ![t] = job'[t]] /\ steps' = [steps EXCEPT ![t] = steps'[t]]
  BY <1>1 DEF TypeOK
<1>4. PlaceInv'
  BY <1>1, <1>3, PlaceStep
<1> QED
  BY <1>2, <1>4 DEF BaseInv

\* A tool returns; whatever it did to files keeps its type.
LEMMA FilesReturn ==
  ASSUME BaseInv, NEW t \in Tasks, NEW r \in Results, Result(t, r),
         UNCHANGED <<config, alive>>, WorkType', FilesType', HistoryType',
         temp' = [temp EXCEPT ![t] = temp'[t]]
  PROVE  BaseInv'
<1>1. ControlType /\ TypeOK
  BY TypeParts DEF BaseInv
<1>2. UNCHANGED <<job, steps>> /\ ControlType' /\ Moves(t, {"plan", "done"})
  BY <1>1, ResultType
<1>3. pc'[t] = "plan" => config.mode # "basic"
  BY <1>1 DEF Result, Answer, ControlType
<1>4. Moves(t, {"plan", "done", "execute", "run"}) /\ Moves(t, Where)
  BY <1>2 DEF Moves, Where
<1>5. PlaceAt(t)'
  BY <1>3, <1>4, FreePlace
<1> QED
  BY <1>2, <1>4, <1>5, FilesStep

LEMMA InstallStep ==
  ASSUME BaseInv, NEW t \in Tasks, Install(t), job[t].path \in Files,
         UNCHANGED <<config, got, child, held, alive, alone>>
  PROVE  BaseInv'
<1>1. TypeOK /\ "ok" \in Results
  BY DEF BaseInv, Results
<1>2. Data(t) \in Texts /\ {Data(t)} \in Contents
  BY <1>1, DataType DEF Contents
<1>3. disk' \in [Files -> Contents] /\ flushed' \in [Files -> BOOLEAN]
  BY <1>1, <1>2 DEF TypeOK, Install
<1>4. versions' \in [Files -> SUBSET Texts]
  BY <1>1, <1>2 DEF TypeOK, Install
<1>5. did' \in [Tasks -> SUBSET {"installed", "deleted", "removed", "ran"}]
  BY <1>1 DEF TypeOK, Install
<1>6. WorkType' /\ HistoryType' /\ temp' = [temp EXCEPT ![t] = temp'[t]]
  BY <1>1, <1>5 DEF TypeOK, Install, WorkType, HistoryType
<1> QED
  BY <1>1, <1>3, <1>4, <1>6, FilesReturn DEF FilesType, Install

LEMMA RenameStep ==
  ASSUME BaseInv, NEW t \in Tasks, Rename(t)
  PROVE  BaseInv'
<1>1. TypeOK /\ PlaceInv
  BY DEF BaseInv
<1>2. job[t].path \in Files /\ config.roots /\ job[t].tool \in config.allowed \cap Writing /\ temp[t] = "synced"
  BY <1>1 DEF PlaceInv, PlaceAt, Replacing, Rename
<1>3. CASE Install(t)
  BY <1>2, <1>3, InstallStep DEF Rename
<1>4. CASE Goto(t, "replace") /\ UNCHANGED <<temp, files, versions, did>>
  <2>1. PlaceAt(t)' /\ "replace" \in Where
    BY <1>1, <1>2, <1>4 DEF TypeOK, Goto, PlaceAt, Replacing, Where, Rename
  <2>2. UNCHANGED <<config, files, alive, versions, alone, work, did>>
    BY <1>4 DEF Rename, work
  <2> QED
    BY <1>1, <1>4, <2>1, <2>2, WorkSame, SameTemp, GotoStep DEF work
<1> QED
  BY <1>3, <1>4 DEF Rename

LEMMA ReplaceStep ==
  ASSUME BaseInv, NEW t \in Tasks, Replace(t)
  PROVE  BaseInv'
<1>1. TypeOK /\ PlaceInv /\ ControlType
  BY TypeParts DEF BaseInv
<1>2. job[t].path \in Files /\ config.roots /\ job[t].tool \in config.allowed \cap Writing /\ temp[t] = "synced"
  BY <1>1 DEF PlaceInv, PlaceAt, Replacing, Replace
<1>3. disk' \in [Files -> Contents] /\ did' \in [Tasks -> SUBSET {"installed", "deleted", "removed", "ran"}]
  BY <1>1 DEF TypeOK, Replace, Contents, Missing
<1>4. /\ FilesType' /\ HistoryType' /\ WorkType' /\ temp' = [temp EXCEPT ![t] = temp'[t]]
      /\ UNCHANGED <<config, alive>>
  BY <1>1, <1>3 DEF TypeOK, FilesType, HistoryType, WorkType, Replace, work
<1>5. PlaceAt(t)'
  BY <1>1, <1>2 DEF TypeOK, Goto, PlaceAt, Replacing, Replace, work
<1>6. UNCHANGED <<job, steps>> /\ ControlType' /\ Moves(t, {"again"})
  BY <1>1, GotoType DEF Replace, Where
<1>7. Moves(t, Where)
  BY <1>6 DEF Moves, Where
<1> QED
  BY <1>4, <1>5, <1>6, <1>7, FilesStep

LEMMA RenameAgainStep ==
  ASSUME BaseInv, NEW t \in Tasks, RenameAgain(t)
  PROVE  BaseInv'
<1>1. TypeOK /\ PlaceInv /\ "error" \in Results
  BY DEF BaseInv, Results
<1>2. job[t].path \in Files
  BY <1>1 DEF PlaceInv, PlaceAt, Replacing, RenameAgain
<1>3. CASE Install(t)
  BY <1>2, <1>3, InstallStep DEF RenameAgain
<1>4. CASE /\ temp' = [temp EXCEPT ![t] = "none"] /\ Result(t, "error")
           /\ UNCHANGED <<files, versions, did>>
  <2>1. WorkType' /\ temp' = [temp EXCEPT ![t] = temp'[t]]
    BY <1>1, <1>4 DEF TypeOK, WorkType, RenameAgain
  <2>2. did' \in [Tasks -> SUBSET {"installed", "deleted", "removed", "ran"}]
    BY <1>1, <1>4 DEF TypeOK
  <2>3. UNCHANGED <<config, files, alive, versions, alone>>
    BY <1>4 DEF RenameAgain
  <2> QED
    BY <1>1, <1>4, <2>1, <2>2, <2>3, ReturnStep
<1> QED
  BY <1>3, <1>4 DEF RenameAgain

LEMMA UnlinkStep ==
  ASSUME BaseInv, NEW t \in Tasks, Unlink(t)
  PROVE  BaseInv'
<1>1. TypeOK /\ "error" \in Results /\ "ok" \in Results
  BY DEF BaseInv, Results
<1>2. disk' \in [Files -> Contents] /\ did' \in [Tasks -> SUBSET {"installed", "deleted", "removed", "ran"}]
  BY <1>1 DEF TypeOK, Unlink, Contents, Missing
<1>3. /\ FilesType' /\ HistoryType' /\ WorkType' /\ temp' = [temp EXCEPT ![t] = temp'[t]]
      /\ UNCHANGED <<config, alive>>
  BY <1>1, <1>2 DEF TypeOK, FilesType, HistoryType, WorkType, Unlink, work
<1> QED
  BY <1>1, <1>3, FilesReturn DEF Unlink

LEMMA CommandStep ==
  ASSUME BaseInv, NEW t \in Tasks,
         CommandReturns(t) \/ CommandEnds(t) \/ CommandKilled(t) \/ PipeCloses(t)
  PROVE  BaseInv'
<1>1. TypeOK /\ PlaceInv /\ ControlType /\ {"error", "text"} \subseteq Results
  BY TypeParts DEF BaseInv, Results
<1>2. WorkType' /\ UNCHANGED <<config, temp, files, alive, versions, did, alone>>
  <2>1. UNCHANGED <<config, got, temp, files, alive, versions, did, alone>>
    BY DEF CommandReturns, CommandEnds, CommandKilled, PipeCloses
  <2>2. child' \in [Tasks -> {"none", "running", "ended", "failed"}]
    BY <1>1 DEF TypeOK, CommandReturns, CommandEnds, CommandKilled, PipeCloses
  <2>3. held' \in [Tasks -> BOOLEAN]
    BY <1>1 DEF TypeOK, CommandReturns, CommandEnds, CommandKilled, PipeCloses
  <2> QED
    BY <1>1, <2>1, <2>2, <2>3 DEF TypeOK, WorkType
<1>3. did' \in [Tasks -> SUBSET {"installed", "deleted", "removed", "ran"}]
  BY <1>1, <1>2 DEF TypeOK
<1>4. CASE CommandReturns(t)
  BY <1>1, <1>2, <1>3, <1>4, SameTemp, ReturnStep DEF CommandReturns
<1>5. CASE UNCHANGED control
  <2>1. ControlType' /\ UNCHANGED <<job, pc, steps>>
    BY <1>1, <1>5 DEF ControlType, control
  <2>2. FilesType' /\ HistoryType' /\ JobsType'
    BY <1>1, <1>2, <2>1, TypeParts DEF FilesType, HistoryType, JobsType, files
  <2>3. TypeOK'
    BY <1>2, <2>1, <2>2 DEF TypeOK, ControlType, WorkType, FilesType, HistoryType, JobsType
  <2>4. PlaceInv'
    BY <1>1, <1>2, <2>1 DEF PlaceInv, PlaceAt
  <2> QED
    BY <2>3, <2>4 DEF BaseInv
<1> QED
  BY <1>4, <1>5 DEF CommandEnds, CommandKilled, PipeCloses

LEMMA DieStep ==
  ASSUME BaseInv, Die
  PROVE  BaseInv'
<1> USE ConstantsAssumption
<1>1. TypeOK
  BY DEF BaseInv
<1>2. (CHOOSE j \in Jobs : TRUE) \in AllJobs /\ {} \in Texts
  BY DEF Texts
<1>3. ControlType'
  BY DEF Die, ControlType, Where
<1>4. WorkType'
  BY <1>2 DEF Die, WorkType
<1>5. FilesType' /\ HistoryType'
  BY <1>1 DEF Die, TypeOK, FilesType, HistoryType
<1>6. JobsType'
  <2>1. 0 \in 0..MaxSteps
    OBVIOUS
  <2>2. job' \in [Tasks -> AllJobs]
    BY <1>2 DEF Die
  <2>3. steps' \in [Tasks -> 0..MaxSteps]
    BY <2>1 DEF Die
  <2> QED
    BY <1>1, <2>2, <2>3 DEF Die, TypeOK, JobsType
<1>7. TypeOK'
  BY <1>3, <1>4, <1>5, <1>6 DEF TypeOK, ControlType, WorkType, FilesType, HistoryType, JobsType
<1>8. PlaceInv'
  BY DEF Die, PlaceInv, PlaceAt, Replacing
<1> QED
  BY <1>7, <1>8 DEF BaseInv

LEMMA BaseNext == BaseInv /\ [Next]_vars => BaseInv'
<1> SUFFICES ASSUME BaseInv, [Next]_vars PROVE BaseInv'
  OBVIOUS
<1>1. CASE UNCHANGED vars
  BY <1>1 DEF vars, control, work, files, BaseInv, TypeOK, PlaceInv, PlaceAt
<1>2. CASE Die
  BY <1>2, DieStep
<1>3. ASSUME NEW t \in Tasks, Arrive(t) PROVE BaseInv'
  BY <1>3, ArriveStep
<1>4. ASSUME NEW t \in Tasks, ContextFails(t) \/ Basic(t) \/ LoopStep(t) PROVE BaseInv'
  BY <1>4, PlanStep
<1>5. ASSUME NEW t \in Tasks, Execute(t) PROVE BaseInv'
  BY <1>5, ExecuteStep
<1>6. ASSUME NEW t \in Tasks, FileStep(t) PROVE BaseInv'
  BY <1>6, StatStep, LoadStep, TempStep, RenameStep, ReplaceStep, RenameAgainStep, UnlinkStep
  DEF FileStep
<1>7. ASSUME NEW t \in Tasks,
             CommandReturns(t) \/ CommandEnds(t) \/ CommandKilled(t) \/ PipeCloses(t)
      PROVE BaseInv'
  BY <1>7, CommandStep
<1> QED
  BY <1>1, <1>2, <1>3, <1>4, <1>5, <1>6, <1>7 DEF Next, TaskStep

\* Every variable keeps its type, with any number of tasks and files.
THEOREM TypeCorrect == Spec => []TypeOK
<1>1. Init => BaseInv
  BY BaseInit
<1>2. BaseInv /\ [Next]_vars => BaseInv'
  BY BaseNext
<1>3. BaseInv => TypeOK
  BY DEF BaseInv
<1> QED
  BY <1>1, <1>2, <1>3, PTL DEF Spec

-----------------------------------------------------------------------------
(* Deny by default.                                                        *)

\* What one task has done, against the configuration.
MayHave(t) ==
  /\ did[t] # {} => config.roots
  /\ did[t] \cap {"installed", "removed"} # {} => config.allowed \cap Writing # {}
  /\ "deleted" \in did[t] => "file.delete" \in config.allowed
  /\ "ran" \in did[t] => "command.exec" \in config.allowed /\ config.commands

\* The only steps that add to what a task has done.
LEMMA EffectStep ==
  ASSUME BaseInv, [Next]_vars, NEW t \in Tasks
  PROVE  \/ did'[t] = did[t]
         \/ /\ did'[t] = did[t] \cup {"ran"}
            /\ config.roots /\ config.commands /\ "command.exec" \in config.allowed
         \/ /\ did'[t] = did[t] \cup {"installed"} \/ did'[t] = did[t] \cup {"removed"}
            /\ config.roots /\ config.allowed \cap Writing # {}
         \/ did'[t] = did[t] \cup {"deleted"} /\ config.roots /\ "file.delete" \in config.allowed
<1>1. TypeOK /\ PlaceInv
  BY DEF BaseInv
<1>2. CASE UNCHANGED did
  BY <1>2
<1>3. ASSUME NEW u \in Tasks, Execute(u), ~UNCHANGED did
      PROVE  /\ did' = [did EXCEPT ![u] = @ \cup {"ran"}]
             /\ config.roots /\ config.commands /\ "command.exec" \in config.allowed
  BY <1>3 DEF Execute, IsAllowed
<1>4. ASSUME NEW u \in Tasks, Rename(u) \/ RenameAgain(u) \/ Replace(u), ~UNCHANGED did
      PROVE  /\ \/ did' = [did EXCEPT ![u] = @ \cup {"installed"}]
                \/ did' = [did EXCEPT ![u] = @ \cup {"removed"}]
             /\ config.roots /\ config.allowed \cap Writing # {}
  <2>1. config.roots /\ job[u].tool \in config.allowed /\ job[u].tool \in Writing
    BY <1>1, <1>4 DEF PlaceInv, PlaceAt, Replacing, Rename, RenameAgain, Replace
  <2> QED
    BY <1>4, <2>1 DEF Rename, RenameAgain, Replace, Install
<1>5. ASSUME NEW u \in Tasks, Unlink(u), ~UNCHANGED did
      PROVE  /\ did' = [did EXCEPT ![u] = @ \cup {"deleted"}]
             /\ config.roots /\ "file.delete" \in config.allowed
  <2>1. config.roots /\ job[u].tool \in config.allowed /\ job[u].tool = "file.delete"
    BY <1>1, <1>5 DEF PlaceInv, PlaceAt, Unlink
  <2> QED
    BY <1>5, <2>1 DEF Unlink
<1>6. CASE \E u \in Tasks : Execute(u) /\ ~UNCHANGED did
  BY <1>1, <1>3, <1>6 DEF TypeOK
<1>7. CASE \E u \in Tasks : (Rename(u) \/ RenameAgain(u) \/ Replace(u)) /\ ~UNCHANGED did
  BY <1>1, <1>4, <1>7 DEF TypeOK
<1>8. CASE \E u \in Tasks : Unlink(u) /\ ~UNCHANGED did
  BY <1>1, <1>5, <1>8 DEF TypeOK
<1>9. \/ UNCHANGED did
      \/ \E u \in Tasks : Execute(u) \/ Rename(u) \/ RenameAgain(u) \/ Replace(u) \/ Unlink(u)
  BY DEF Next, TaskStep, FileStep, vars, Arrive, ContextFails, Basic, LoopStep, Stat, Load, WriteTemp,
         Sync, CommandReturns, CommandEnds, CommandKilled, PipeCloses, Die
<1> QED
  BY <1>2, <1>6, <1>7, <1>8, <1>9

LEMMA ConfigConstant == [Next]_vars => UNCHANGED config
BY DEF Next, TaskStep, FileStep, vars, Arrive, ContextFails, Basic, LoopStep, Execute, Stat, Load, WriteTemp,
       Sync, Rename, Replace, RenameAgain, Unlink, CommandReturns, CommandEnds, CommandKilled, PipeCloses, Die

\* No effect of any task without its tool on the allowlist and roots, in every
\* mode and with any planner.
THEOREM Denied == Spec => []DenyByDefault
<1>1. Init => BaseInv /\ DenyByDefault
  BY BaseInit DEF Init, DenyByDefault
<1>2. BaseInv /\ DenyByDefault /\ [Next]_vars => BaseInv' /\ DenyByDefault'
  <2> SUFFICES ASSUME BaseInv, DenyByDefault, [Next]_vars PROVE DenyByDefault'
    BY BaseNext
  <2> SUFFICES ASSUME NEW t \in Tasks PROVE MayHave(t)'
    BY DEF DenyByDefault, MayHave
  <2>1. MayHave(t) /\ UNCHANGED config
    BY ConfigConstant DEF DenyByDefault, MayHave
  <2> QED
    BY <2>1, EffectStep DEF MayHave
<1> QED
  BY <1>1, <1>2, PTL DEF Spec

-----------------------------------------------------------------------------
(* Files are whole.                                                        *)

ReadOne(t) ==
  pc[t] \in Replacing /\ job[t].tool = "file.edit" => got[t] \in versions[job[t].path]
ReadInv  == \A t \in Tasks : ReadOne(t)
DiskInv  == \A f \in Files : disk[f] \subseteq versions[f]
WholeInv == BaseInv /\ SyncedInv /\ DiskInv /\ ReadInv

LEMMA WholeDisk ==
  ASSUME WholeInv, [Next]_vars
  PROVE  SyncedInv' /\ DiskInv' /\ \A f \in Files : versions[f] \subseteq versions'[f]
<1>1. TypeOK /\ PlaceInv /\ SyncedInv /\ DiskInv
  BY DEF WholeInv, BaseInv
<1>2. CASE UNCHANGED <<files, versions>>
  BY <1>1, <1>2 DEF files, SyncedInv, DiskInv
<1>3. ASSUME NEW t \in Tasks, Install(t), temp[t] = "synced"
      PROVE  SyncedInv' /\ DiskInv' /\ \A f \in Files : versions[f] \subseteq versions'[f]
  BY <1>1, <1>3 DEF TypeOK, Install, SyncedInv, DiskInv
<1>4. ASSUME NEW t \in Tasks, Rename(t) \/ RenameAgain(t)
      PROVE  SyncedInv' /\ DiskInv' /\ \A f \in Files : versions[f] \subseteq versions'[f]
  <2>1. temp[t] = "synced"
    BY <1>1, <1>4 DEF PlaceInv, PlaceAt, Rename, RenameAgain
  <2> QED
    BY <1>2, <1>3, <1>4, <2>1 DEF Rename, RenameAgain
<1>5. ASSUME NEW t \in Tasks, Replace(t) \/ Unlink(t)
      PROVE  SyncedInv' /\ DiskInv' /\ \A f \in Files : versions[f] \subseteq versions'[f]
  BY <1>1, <1>5 DEF TypeOK, Replace, Unlink, Missing, SyncedInv, DiskInv
<1>6. CASE Die
  BY <1>1, <1>6 DEF TypeOK, Die, Missing, SyncedInv, DiskInv
<1>7. \/ UNCHANGED <<files, versions>> \/ Die
      \/ \E t \in Tasks : Rename(t) \/ RenameAgain(t) \/ Replace(t) \/ Unlink(t)
  BY DEF Next, TaskStep, FileStep, vars, Arrive, ContextFails, Basic, LoopStep, Execute, Stat, Load, WriteTemp,
         Sync, CommandReturns, CommandEnds, CommandKilled, PipeCloses
<1> QED
  BY <1>2, <1>4, <1>5, <1>6, <1>7

\* Nothing that task t remembers changes.
Same(t) ==
  /\ pc'[t] = pc[t] /\ job'[t] = job[t] /\ steps'[t] = steps[t] /\ last'[t] = last[t]
  /\ reply'[t] = reply[t] /\ got'[t] = got[t] /\ did'[t] = did[t]

LEMMA FileControl ==
  ASSUME NEW u \in Tasks, Execute(u) \/ FileStep(u) \/ CommandReturns(u)
  PROVE  \/ \E r \in Results : Result(u, r)
         \/ \E w \in Where : Goto(u, w)
<1>1. Execute(u) => \/ \E r \in {"error", "text", "blank"} : Result(u, r)
                   \/ Goto(u, "stat") \/ Goto(u, "run")
  BY DEF Execute
<1>2. Stat(u) \/ Load(u) =>
        \/ Result(u, "error") \/ Result(u, "text") \/ Result(u, "blank")
        \/ Goto(u, "temp") \/ Goto(u, "load") \/ Goto(u, "unlink")
  BY DEF Stat, Load
<1>3. WriteTemp(u) \/ Sync(u) => Result(u, "error") \/ Goto(u, "sync") \/ Goto(u, "rename")
  BY DEF WriteTemp, Sync
<1>4. Rename(u) \/ Replace(u) \/ RenameAgain(u) \/ Unlink(u) =>
        Result(u, "ok") \/ Result(u, "error") \/ Goto(u, "replace") \/ Goto(u, "again")
  BY DEF Rename, Replace, RenameAgain, Unlink, Install
<1>5. CommandReturns(u) => Result(u, "text") \/ Result(u, "error")
  BY DEF CommandReturns
<1> QED
  BY <1>1, <1>2, <1>3, <1>4, <1>5 DEF FileStep, Results, Where

LEMMA PlanControl ==
  ASSUME TypeOK, NEW u \in Tasks, ContextFails(u) \/ Basic(u) \/ LoopStep(u)
  PROVE  (\E r \in Replies : Answer(u, r)) \/ \E j \in AllJobs : Call(u, j)
<1> USE ConstantsAssumption
<1>1. job[u] \in AllJobs /\ last[u] \in Results \cup {"none"}
  BY DEF TypeOK
<1>2. {"failed", "ack", "usage", "budget", "no action", "ok", "text", "error"} \subseteq Replies
  BY DEF Replies, Results
<1>3. CASE ContextFails(u) \/ Basic(u)
  BY <1>1, <1>2, <1>3 DEF ContextFails, Basic
<1>4. NextStep(u) => (\E r \in Replies : Answer(u, r)) \/ \E j \in AllJobs : Call(u, j)
  BY <1>1, <1>2 DEF NextStep
<1>5. AnyPlanner(u) => (\E r \in Replies : Answer(u, r)) \/ \E j \in AllJobs : Call(u, j)
  BY <1>2 DEF AnyPlanner
<1>6. CASE LoopStep(u)
  BY <1>2, <1>4, <1>5, <1>6 DEF LoopStep
<1> QED
  BY <1>3, <1>6

\* Whatever changes what a task remembers is a step of its own, or the end of
\* the process.
LEMMA OwnStep ==
  ASSUME BaseInv, [Next]_vars, NEW t \in Tasks
  PROVE  Same(t) \/ Arrive(t) \/ ContextFails(t) \/ TaskStep(t) \/ Die
<1>1. TypeOK
  BY DEF BaseInv
<1>2. CASE UNCHANGED <<control, got, did>>
  BY <1>2 DEF Same, control
<1>3. ASSUME NEW u \in Tasks, u # t, Arrive(u) PROVE Same(t)
  BY <1>1, <1>3 DEF TypeOK, Arrive, Same, work
<1>4. ASSUME NEW u \in Tasks, u # t, ContextFails(u) \/ Basic(u) \/ LoopStep(u) PROVE Same(t)
  <2>1. UNCHANGED <<got, did>>
    BY <1>4 DEF ContextFails, Basic, LoopStep, work
  <2>2. (\E r \in Replies : Answer(u, r)) \/ \E j \in AllJobs : Call(u, j)
    BY <1>1, <1>4, PlanControl
  <2>3. /\ pc'[t] = pc[t] /\ job'[t] = job[t] /\ steps'[t] = steps[t] /\ last'[t] = last[t]
        /\ reply'[t] = reply[t]
    BY <1>1, <1>4, <2>2 DEF TypeOK, Answer, Call
  <2> QED
    BY <2>1, <2>3 DEF Same
<1>5. ASSUME NEW u \in Tasks, u # t, Execute(u) \/ FileStep(u) \/ CommandReturns(u) PROVE Same(t)
  <2>1. got'[t] = got[t]
    BY <1>1, <1>5 DEF TypeOK, Execute, FileStep, CommandReturns, Stat, Load, WriteTemp, Sync, Rename,
                      Replace, RenameAgain, Unlink, work
  <2>2. did'[t] = did[t]
    BY <1>1, <1>5 DEF TypeOK, Execute, FileStep, CommandReturns, Stat, Load, WriteTemp, Sync, Rename,
                      Replace, RenameAgain, Unlink, Install
  <2>3. (\E r \in Results : Result(u, r)) \/ \E w \in Where : Goto(u, w)
    BY <1>5, FileControl
  <2>4. /\ pc'[t] = pc[t] /\ job'[t] = job[t] /\ steps'[t] = steps[t] /\ last'[t] = last[t]
        /\ reply'[t] = reply[t]
    BY <1>1, <1>5, <2>3 DEF TypeOK, Answer, Result, Goto
  <2> QED
    BY <2>1, <2>2, <2>4 DEF Same
<1>6. ASSUME NEW u \in Tasks, CommandEnds(u) \/ CommandKilled(u) \/ PipeCloses(u)
      PROVE  UNCHANGED <<control, got, did>>
  BY <1>6 DEF CommandEnds, CommandKilled, PipeCloses
<1>7. CASE UNCHANGED vars
  BY <1>2, <1>7 DEF vars, work
<1> QED
  BY <1>2, <1>3, <1>4, <1>5, <1>6, <1>7 DEF Next, TaskStep

LEMMA WholeRead ==
  ASSUME WholeInv, [Next]_vars
  PROVE  ReadInv'
<1>1. TypeOK /\ PlaceInv /\ DiskInv /\ ReadInv /\ BaseInv
  BY DEF WholeInv, BaseInv
<1>2. \A f \in Files : versions[f] \subseteq versions'[f]
  BY WholeDisk
<1> SUFFICES ASSUME NEW t \in Tasks, pc'[t] \in Replacing, job'[t].tool = "file.edit"
             PROVE  got'[t] \in versions'[job'[t].path]
  BY DEF ReadInv, ReadOne
<1>3. CASE Same(t)
  <2>1. job[t].path \in Files
    BY <1>1, <1>3 DEF Same, PlaceInv, PlaceAt
  <2> QED
    BY <1>1, <1>2, <1>3, <2>1 DEF Same, ReadInv, ReadOne
<1>4. CASE Arrive(t)
  BY <1>1, <1>4 DEF Arrive, TypeOK, Replacing
<1>5. CASE ContextFails(t) \/ Basic(t) \/ LoopStep(t)
  BY <1>1, <1>5, PlanControl DEF Answer, Call, TypeOK, Replacing
<1>6. CASE Execute(t) \/ CommandReturns(t) \/ Unlink(t)
  BY <1>1, <1>6 DEF Execute, CommandReturns, Unlink, Result, Answer, Goto, TypeOK, Replacing
<1>7. CASE Stat(t)
  <2>1. pc'[t] = "temp" => job[t].tool = "file.write"
    BY <1>1, <1>7 DEF Stat, Result, Answer, Goto, TypeOK
  <2>2. pc'[t] \in {"plan", "done", "temp", "load", "unlink"} /\ job' = job
    BY <1>1, <1>7 DEF Stat, Result, Answer, Goto, TypeOK
  <2> QED
    BY <2>1, <2>2 DEF Replacing
<1>8. CASE Load(t)
  <2>1. job[t].path \in Files
    BY <1>1, <1>8 DEF Load, PlaceInv, PlaceAt
  <2>2. ~Result(t, "error") /\ ~Result(t, "text") /\ ~Result(t, "blank")
    BY <1>1 DEF Result, Answer, TypeOK, Replacing
  <2>3. PICK x \in File(t) : got' = [got EXCEPT ![t] = x] /\ Goto(t, "temp")
    BY <1>8, <2>2 DEF Load
  <2> QED
    BY <1>1, <2>1, <2>3, <1>2 DEF DiskInv, File, Goto, TypeOK
<1>9. CASE WriteTemp(t) \/ Sync(t) \/ Rename(t) \/ Replace(t) \/ RenameAgain(t)
  <2>1. job' = job
    BY <1>9 DEF WriteTemp, Sync, Rename, Replace, RenameAgain, Install, Result, Answer, Goto
  <2>2. got' = got /\ pc[t] \in Replacing
    BY <1>9 DEF WriteTemp, Sync, Rename, Replace, RenameAgain, work, Replacing
  <2>3. job[t].path \in Files
    BY <1>1, <2>2 DEF PlaceInv, PlaceAt
  <2> QED
    BY <1>1, <1>2, <2>1, <2>2, <2>3 DEF ReadInv, ReadOne
<1>10. CASE Die
  BY <1>10 DEF Die, Replacing
<1> QED
  BY <1>1, <1>3, <1>4, <1>5, <1>6, <1>7, <1>8, <1>9, <1>10, OwnStep DEF TaskStep, FileStep

\* After any interleaving of writers, failed writes and an end of the process,
\* a file is missing or holds one whole text meant for it.
THEOREM Whole == Spec => []FilesAreWhole
<1>1. Init => WholeInv
  BY BaseInit DEF Init, WholeInv, SyncedInv, DiskInv, ReadInv, ReadOne, Replacing
<1>2. WholeInv /\ [Next]_vars => WholeInv'
  BY BaseNext, WholeDisk, WholeRead DEF WholeInv
<1>3. WholeInv => FilesAreWhole
  BY DEF WholeInv, DiskInv, ReadInv, ReadOne, FilesAreWhole, Replacing
<1> QED
  BY <1>1, <1>2, <1>3, PTL DEF Spec

-----------------------------------------------------------------------------
(* An edit is lost only to a task at work at the same time.                *)

AloneInv == alive => \A t, u \in Tasks : u # t /\ alone[t] /\ Busy(t) => ~Busy(u)

Editing  == {"temp", "sync", "rename", "replace"}
EditOne(t) ==
  alive /\ alone[t] /\ pc[t] \in Editing /\ job[t].tool = "file.edit" => disk[job[t].path] = {got[t]}
EditInv  == \A t \in Tasks : EditOne(t)

\* Only a task at work moves.
LEMMA BusyStep ==
  ASSUME BaseInv, NEW t \in Tasks, ContextFails(t) \/ TaskStep(t)
  PROVE  Busy(t)
BY DEF Busy, ContextFails, TaskStep, Basic, LoopStep, Execute, FileStep, Stat, Load, WriteTemp, Sync,
       Rename, Replace, RenameAgain, Unlink, CommandReturns

LEMMA AloneStep ==
  ASSUME BaseInv, AloneInv, [Next]_vars
  PROVE  AloneInv'
<1> SUFFICES ASSUME alive', NEW t \in Tasks, NEW u \in Tasks, u # t, alone'[t], Busy(t)', Busy(u)'
             PROVE  FALSE
  BY DEF AloneInv
<1>1. TypeOK /\ ~Die
  BY DEF BaseInv, Die
<1>2. alive
  BY <1>1 DEF Next, vars
<1>3. ASSUME NEW v \in Tasks, Arrive(v) PROVE FALSE
  <2>1. pc' = [pc EXCEPT ![v] = "plan"]
    BY <1>3 DEF Arrive
  <2>2. CASE v = t
    <3>1. ~Busy(u)
      BY <1>3, <2>2 DEF Arrive
    <3> QED
      BY <1>1, <2>1, <2>2, <3>1 DEF Busy, TypeOK
  <2>3. CASE v # t
    <3>1. ~Busy(t)
      BY <1>3, <2>3 DEF Arrive
    <3> QED
      BY <1>1, <2>1, <2>3, <3>1 DEF Busy, TypeOK
  <2> QED
    BY <2>2, <2>3
<1>4. UNCHANGED alone
  BY <1>1, <1>3 DEF Next, TaskStep, FileStep, vars, ContextFails, Basic, LoopStep, Execute, Stat, Load,
       WriteTemp, Sync, Rename, Replace, RenameAgain, Unlink, CommandReturns, CommandEnds,
       CommandKilled, PipeCloses
<1>5. Busy(t) /\ Busy(u)
  BY <1>1, <1>3, OwnStep, BusyStep DEF Same, Busy
<1> QED
  BY <1>2, <1>4, <1>5 DEF AloneInv

LEMMA EditStep ==
  ASSUME BaseInv, AloneInv, EditInv, [Next]_vars
  PROVE  EditInv'
<1> SUFFICES ASSUME alive', NEW t \in Tasks, alone'[t], pc'[t] \in Editing, job'[t].tool = "file.edit"
             PROVE  disk'[job'[t].path] = {got'[t]}
  BY DEF EditInv, EditOne
<1>1. TypeOK /\ PlaceInv /\ ~Die
  BY DEF BaseInv, Die
<1>2. alive
  BY <1>1 DEF Next, vars
<1>3. CASE UNCHANGED disk
  <2>1. CASE Same(t)
    <3>1. ASSUME NEW v \in Tasks, Arrive(v) PROVE FALSE
      <4>1. v # t
        BY <1>1, <2>1, <3>1 DEF Same, Arrive, TypeOK, Editing
      <4> QED
        BY <2>1, <3>1, <4>1 DEF Same, Arrive, Busy, Editing
    <3>2. UNCHANGED alone
      BY <1>1, <3>1 DEF Next, TaskStep, FileStep, vars, ContextFails, Basic, LoopStep, Execute, Stat,
           Load, WriteTemp, Sync, Rename, Replace, RenameAgain, Unlink, CommandReturns, CommandEnds,
           CommandKilled, PipeCloses
    <3> QED
      BY <1>2, <1>3, <2>1, <3>2 DEF EditInv, EditOne, Same
  <2>2. CASE Arrive(t)
    BY <1>1, <2>2 DEF Arrive, TypeOK, Editing
  <2>3. CASE ContextFails(t) \/ Basic(t) \/ LoopStep(t)
    BY <1>1, <2>3, PlanControl DEF Answer, Call, TypeOK, Editing
  <2>4. CASE Execute(t) \/ CommandReturns(t) \/ Unlink(t) \/ RenameAgain(t) \/ Replace(t)
    BY <1>1, <2>4 DEF Execute, CommandReturns, Unlink, RenameAgain, Replace, Install, Result, Answer,
                      Goto, TypeOK, Editing
  <2>5. CASE Stat(t)
    <3>1. pc'[t] = "temp" => job[t].tool = "file.write"
      BY <1>1, <2>5 DEF Stat, Result, Answer, Goto, TypeOK
    <3>2. pc'[t] \in {"plan", "done", "temp", "load", "unlink"} /\ job' = job
      BY <1>1, <2>5 DEF Stat, Result, Answer, Goto, TypeOK
    <3> QED
      BY <3>1, <3>2 DEF Editing
  <2>6. CASE Load(t)
    <3>1. job[t].path \in Files
      BY <1>1, <2>6 DEF Load, PlaceInv, PlaceAt
    <3>2. ~Result(t, "error") /\ ~Result(t, "text") /\ ~Result(t, "blank")
      BY <1>1 DEF Result, Answer, TypeOK, Editing
    <3>3. PICK x \in File(t) : got' = [got EXCEPT ![t] = x] /\ Goto(t, "temp")
      BY <2>6, <3>2 DEF Load
    <3>4. File(t) = {x}
      BY <1>1, <3>1, <3>3 DEF TypeOK, File, Contents
    <3> QED
      BY <1>1, <1>3, <3>3, <3>4 DEF Goto, File, TypeOK
  <2>7. CASE WriteTemp(t) \/ Sync(t) \/ Rename(t)
    <3>1. job' = job
      BY <2>7 DEF WriteTemp, Sync, Rename, Install, Result, Answer, Goto
    <3>2. got' = got /\ alone' = alone /\ pc[t] \in Editing
      BY <2>7 DEF WriteTemp, Sync, Rename, Editing
    <3> QED
      BY <1>2, <1>3, <3>1, <3>2 DEF EditInv, EditOne
  <2> QED
    BY <1>1, <2>1, <2>2, <2>3, <2>4, <2>5, <2>6, <2>7, OwnStep DEF TaskStep, FileStep
<1>4. ASSUME NEW u \in Tasks, Rename(u) \/ RenameAgain(u) \/ Replace(u) \/ Unlink(u), ~UNCHANGED disk
      PROVE  FALSE
  <2>1. TaskStep(u) /\ Busy(u)
    BY <1>4, BusyStep DEF TaskStep, FileStep
  <2>2. alone' = alone
    BY <1>4 DEF Rename, RenameAgain, Replace, Unlink
  <2>3. CASE u = t
    BY <1>1, <1>4, <2>3 DEF Rename, RenameAgain, Replace, Unlink, Install, files, Result, Answer, Goto,
                            TypeOK, Editing
  <2>4. CASE u # t
    <3>1. pc'[t] = pc[t]
      BY <1>1, <1>4, <2>4 DEF Rename, RenameAgain, Replace, Unlink, Install, Result, Answer, Goto, TypeOK
    <3>2. Busy(t)
      BY <3>1 DEF Busy, Editing
    <3> QED
      BY <1>2, <2>1, <2>2, <2>4, <3>2 DEF AloneInv
  <2> QED
    BY <2>3, <2>4
<1>5. UNCHANGED disk \/ \E u \in Tasks : Rename(u) \/ RenameAgain(u) \/ Replace(u) \/ Unlink(u)
  BY <1>1 DEF Next, TaskStep, FileStep, vars, Arrive, ContextFails, Basic, LoopStep, Execute, Stat, Load,
       WriteTemp, Sync, CommandReturns, CommandEnds, CommandKilled, PipeCloses, files
<1> QED
  BY <1>3, <1>4, <1>5

\* A task that has been alone since it arrived writes its edit over the very
\* text it has read.
THEOREM EditsKept == Spec => []EditsBuildOnFile
<1>1. Init => BaseInv /\ AloneInv /\ EditInv
  BY BaseInit DEF Init, AloneInv, EditInv, EditOne, Editing, Busy
<1>2. BaseInv /\ AloneInv /\ EditInv /\ [Next]_vars => BaseInv' /\ AloneInv' /\ EditInv'
  BY BaseNext, AloneStep, EditStep
<1>3. EditInv => EditsBuildOnFile
  BY DEF EditInv, EditOne, Editing, EditsBuildOnFile
<1> QED
  BY <1>1, <1>2, <1>3, PTL DEF Spec

-----------------------------------------------------------------------------
(* The reply tells what has been done.                                     *)

Tells(r, done) ==
  /\ r = "ok" => done \cap {"installed", "deleted"} # {}
  /\ r = "error" => done \subseteq {"removed", "ran"}
  /\ r \notin {"ok", "error"} => done \subseteq {"ran"}

Untouched == {"execute", "stat", "load", "temp", "sync", "rename", "replace", "unlink"}

\* At most one tool call, and at each place what it can have done by then.
ReplyOne(t) ==
  /\ pc[t] = "idle" => did[t] = {} /\ steps[t] = 0 /\ last[t] = "none"
  /\ pc[t] = "plan" => \/ did[t] = {} /\ steps[t] = 0 /\ last[t] = "none"
                       \/ Tells(last[t], did[t]) /\ steps[t] = 1 /\ last[t] # "none"
  /\ pc[t] \in Untouched => did[t] = {} /\ steps[t] = 1
  /\ pc[t] = "again" => did[t] \subseteq {"removed"} /\ steps[t] = 1
  /\ pc[t] = "run" => did[t] \subseteq {"ran"} /\ steps[t] = 1
  /\ pc[t] = "done" => Tells(reply[t], did[t])
ReplyInv == config.mode # "planned" => \A t \in Tasks : ReplyOne(t)

LEMMA ResultTells ==
  ASSUME TypeOK, NEW t \in Tasks, NEW r \in Results, Result(t, r), steps[t] = 1, Tells(r, did'[t])
  PROVE  ReplyOne(t)'
BY DEF TypeOK, Result, Answer, ReplyOne, Tells, Untouched, Results

LEMMA GotoTells ==
  ASSUME TypeOK, NEW t \in Tasks, NEW w \in Where, Goto(t, w), steps[t] = 1,
         \/ w \in Untouched /\ did'[t] = {}
         \/ w = "again" /\ did'[t] \subseteq {"removed"}
         \/ w = "run" /\ did'[t] \subseteq {"ran"}
  PROVE  ReplyOne(t)'
BY DEF TypeOK, Goto, ReplyOne, Untouched

LEMMA ReplyStep ==
  ASSUME BaseInv, ReplyInv, [Next]_vars
  PROVE  ReplyInv'
<1>1. TypeOK /\ UNCHANGED config
  BY ConfigConstant DEF BaseInv
<1> SUFFICES ASSUME config.mode # "planned", NEW t \in Tasks PROVE ReplyOne(t)'
  BY <1>1 DEF ReplyInv
<1>2. ReplyOne(t)
  BY DEF ReplyInv
<1>3. {"ok", "text", "blank", "error"} \subseteq Results
  BY DEF Results
<1>4. CASE Same(t)
  BY <1>2, <1>4 DEF Same, ReplyOne, Tells
<1>5. CASE Arrive(t)
  BY <1>1, <1>2, <1>5 DEF Arrive, TypeOK, ReplyOne, Untouched
<1>6. CASE ContextFails(t)
  <2>1. pc[t] = "plan" /\ steps[t] = 0 /\ did' = did /\ Answer(t, "failed")
    BY <1>6 DEF ContextFails
  <2> QED
    BY <1>1, <1>2, <2>1 DEF Answer, TypeOK, ReplyOne, Tells, Untouched
<1>7. CASE Basic(t)
  <2>1. pc[t] = "plan" /\ did' = did /\ steps[t] = 0
    <3>1. pc[t] = "plan" /\ config.mode = "basic" /\ did' = did
      BY <1>7 DEF Basic
    <3> QED
      BY <3>1 DEF BaseInv, PlaceInv, PlaceAt
  <2>2. did[t] = {}
    BY <1>2, <2>1 DEF ReplyOne
  <2>3. CASE Answer(t, "ack") \/ Answer(t, "usage")
    BY <1>1, <2>1, <2>2, <2>3 DEF Answer, TypeOK, ReplyOne, Tells, Untouched
  <2>4. CASE Call(t, job[t])
    BY <1>1, <2>1, <2>2, <2>4 DEF Call, TypeOK, ReplyOne, Untouched
  <2> QED
    BY <1>7, <2>3, <2>4 DEF Basic
<1>8. CASE LoopStep(t)
  <2>1. pc[t] = "plan" /\ did' = did /\ MaxSteps > 1 /\ MaxSteps \in Nat
    BY <1>8, ConstantsAssumption DEF LoopStep
  <2>2. steps[t] # MaxSteps /\ (steps[t] = 0 \/ steps[t] = 1)
    BY <1>2, <2>1 DEF ReplyOne
  <2>3. NextStep(t)
    BY <1>8, <2>2 DEF LoopStep
  <2>4. CASE last[t] \in {"ok", "text", "error"} /\ Answer(t, last[t])
    <3>1. Tells(last[t], did[t])
      BY <1>2, <2>1, <2>4 DEF ReplyOne
    <3> QED
      BY <1>1, <2>1, <2>4, <3>1 DEF Answer, TypeOK, ReplyOne, Tells, Untouched
  <2>5. CASE last[t] = "blank" /\ Answer(t, "no action")
    <3>1. Tells(last[t], did[t])
      BY <1>2, <2>1, <2>5 DEF ReplyOne
    <3> QED
      BY <1>1, <2>1, <2>5, <3>1 DEF Answer, TypeOK, ReplyOne, Tells, Untouched
  <2>6. CASE last[t] = "none" /\ (Answer(t, "usage") \/ Call(t, job[t]))
    <3>1. did[t] = {} /\ steps[t] = 0
      BY <1>2, <2>1, <2>6 DEF ReplyOne
    <3> QED
      BY <1>1, <2>1, <2>6, <3>1 DEF Answer, Call, TypeOK, ReplyOne, Tells, Untouched
  <2> QED
    BY <2>3, <2>4, <2>5, <2>6 DEF NextStep
<1>9. CASE Execute(t)
  <2>1. did[t] = {} /\ steps[t] = 1
    BY <1>2, <1>9 DEF Execute, ReplyOne, Untouched
  <2>2. CASE did' = did
    <3>1. \/ \E r \in {"error", "text", "blank"} : Result(t, r)
          \/ Goto(t, "stat") \/ Goto(t, "run")
      BY <1>9 DEF Execute
    <3>2. \A r \in {"error", "text", "blank"} : r \in Results /\ Tells(r, did'[t])
      BY <2>1, <2>2 DEF Tells, Results
    <3>3. "stat" \in Where /\ "stat" \in Untouched /\ "run" \in Where
      BY DEF Where, Untouched
    <3> QED
      BY <1>1, <1>3, <2>1, <2>2, <3>1, <3>2, <3>3, ResultTells, GotoTells
  <2>3. CASE Goto(t, "run") /\ did' = [did EXCEPT ![t] = @ \cup {"ran"}]
    <3>1. did'[t] \subseteq {"ran"} /\ "run" \in Where
      BY <1>1, <2>1, <2>3 DEF TypeOK, Where
    <3> QED
      BY <1>1, <2>1, <2>3, <3>1, GotoTells
  <2> QED
    BY <1>9, <2>2, <2>3 DEF Execute
<1>10. CASE Stat(t) \/ Load(t) \/ WriteTemp(t) \/ Sync(t)
  <2>1. did[t] = {} /\ steps[t] = 1
    BY <1>2, <1>10 DEF Stat, Load, WriteTemp, Sync, ReplyOne, Untouched
  <2>2. did' = did
    BY <1>10 DEF Stat, Load, WriteTemp, Sync
  <2>3. \/ \E r \in {"error", "text", "blank"} : Result(t, r)
        \/ \E w \in {"temp", "load", "unlink", "sync", "rename"} : Goto(t, w)
    BY <1>10 DEF Stat, Load, WriteTemp, Sync
  <2>4. \A r \in {"error", "text", "blank"} : r \in Results /\ Tells(r, did'[t])
    BY <2>1, <2>2 DEF Tells, Results
  <2>5. \A w \in {"temp", "load", "unlink", "sync", "rename"} : w \in Where /\ w \in Untouched
    BY DEF Where, Untouched
  <2> QED
    BY <1>1, <2>1, <2>2, <2>3, <2>4, <2>5, ResultTells, GotoTells
<1>11. CASE Rename(t) \/ RenameAgain(t)
  <2>1. did[t] \subseteq {"removed"} /\ steps[t] = 1
    BY <1>2, <1>11 DEF Rename, RenameAgain, ReplyOne, Untouched
  <2>2. CASE Install(t)
    <3>1. did'[t] = did[t] \cup {"installed"} /\ Result(t, "ok")
      BY <1>1, <2>2 DEF TypeOK, Install
    <3>2. Tells("ok", did'[t])
      BY <3>1 DEF Tells
    <3> QED
      BY <1>1, <1>3, <2>1, <3>1, <3>2, ResultTells
  <2>3. CASE Goto(t, "replace") /\ did' = did /\ pc[t] = "rename"
    <3>1. "replace" \in Where /\ "replace" \in Untouched /\ did'[t] = {}
      BY <1>2, <2>3 DEF Where, Untouched, ReplyOne
    <3> QED
      BY <1>1, <2>1, <2>3, <3>1, GotoTells
  <2>4. CASE Result(t, "error") /\ did' = did
    <3>1. Tells("error", did'[t])
      BY <2>1, <2>4 DEF Tells
    <3> QED
      BY <1>1, <1>3, <2>1, <2>4, <3>1, ResultTells
  <2> QED
    BY <1>11, <2>2, <2>3, <2>4 DEF Rename, RenameAgain
<1>12. CASE Replace(t)
  <2>1. did[t] = {} /\ steps[t] = 1
    BY <1>2, <1>12 DEF Replace, ReplyOne, Untouched
  <2>2. did'[t] \subseteq {"removed"} /\ Goto(t, "again") /\ "again" \in Where
    BY <1>1, <1>12, <2>1 DEF TypeOK, Replace, Where
  <2> QED
    BY <1>1, <2>1, <2>2, GotoTells
<1>13. CASE Unlink(t)
  <2>1. did[t] = {} /\ steps[t] = 1
    BY <1>2, <1>13 DEF Unlink, ReplyOne, Untouched
  <2>2. CASE Result(t, "error") /\ did' = did
    <3>1. Tells("error", did'[t])
      BY <2>1, <2>2 DEF Tells
    <3> QED
      BY <1>1, <1>3, <2>1, <2>2, <3>1, ResultTells
  <2>3. CASE Result(t, "ok") /\ did' = [did EXCEPT ![t] = @ \cup {"deleted"}]
    <3>1. Tells("ok", did'[t])
      BY <1>1, <2>3 DEF Tells, TypeOK
    <3> QED
      BY <1>1, <1>3, <2>1, <2>3, <3>1, ResultTells
  <2> QED
    BY <1>13, <2>2, <2>3 DEF Unlink
<1>14. CASE CommandReturns(t)
  <2>1. did[t] \subseteq {"ran"} /\ steps[t] = 1 /\ did' = did
    BY <1>2, <1>14 DEF CommandReturns, ReplyOne
  <2>2. Tells("error", did'[t]) /\ Tells("text", did'[t])
    BY <2>1 DEF Tells
  <2>3. Result(t, "error") \/ Result(t, "text")
    BY <1>14 DEF CommandReturns
  <2> QED
    BY <1>1, <1>3, <2>1, <2>2, <2>3, ResultTells
<1>15. CASE Die
  BY <1>15 DEF Die, ReplyOne, Untouched
<1> QED
  BY <1>4, <1>5, <1>6, <1>7, <1>8, <1>9, <1>10, <1>11, <1>12, <1>13, <1>14, <1>15, OwnStep
  DEF TaskStep, FileStep

\* In the basic runtime and in the loop with its own planner, "ok" of a tool that
\* changes files is given for a change, and an error for none but the removal
\* of a file whose replacement failed.
THEOREM Told == Spec => []ReplyTellsEffect
<1>1. Init => BaseInv /\ ReplyInv
  BY BaseInit DEF Init, ReplyInv, ReplyOne, Untouched
<1>2. BaseInv /\ ReplyInv /\ [Next]_vars => BaseInv' /\ ReplyInv'
  BY BaseNext, ReplyStep
<1>3. ReplyInv => ReplyTellsEffect
  BY DEF ReplyInv, ReplyOne, Tells, ReplyTellsEffect
<1> QED
  BY <1>1, <1>2, <1>3, PTL DEF Spec

-----------------------------------------------------------------------------
(* Every task comes nearer to its answer.                                  *)

AtTool == {"execute", "stat", "load", "temp", "sync", "rename", "replace", "again", "unlink", "run"}

LEMMA Nearer ==
  ASSUME TypeOK, NEW t \in Tasks, pc[t] \in AtTool \cup {"plan"},
         \/ pc'[t] = "done"
         \/ /\ steps'[t] = steps[t] /\ pc'[t] \in AtTool \cup {"plan"}
            /\ Left(pc'[t]) < Left(pc[t])
         \/ /\ pc[t] = "plan" /\ pc'[t] = "execute"
            /\ steps[t] < MaxSteps /\ steps'[t] = steps[t] + 1
  PROVE  Distance(t)' \in 0..Distance(t) /\ Distance(t)' < Distance(t)
<1>1. steps[t] \in Nat /\ steps[t] <= MaxSteps /\ MaxSteps \in Nat
  BY ConstantsAssumption DEF TypeOK
<1>2. Left(pc[t]) \in 1..9 /\ Left(pc'[t]) \in 1..9
  BY DEF Left
<1>3. Distance(t) = 10 * (MaxSteps - steps[t]) + Left(pc[t])
  BY DEF Distance, AtTool
<1>4. CASE pc'[t] = "done"
  <2>1. Distance(t)' = 0
    BY <1>4 DEF Distance
  <2> QED
    BY <1>1, <1>2, <1>3, <2>1
<1>5. CASE pc'[t] \in AtTool \cup {"plan"} /\ (steps'[t] = steps[t] \/ steps'[t] = steps[t] + 1)
  <2>1. Distance(t)' = 10 * (MaxSteps - steps'[t]) + Left(pc'[t])
    BY <1>5 DEF Distance, AtTool
  <2>2. CASE steps'[t] = steps[t] /\ Left(pc'[t]) < Left(pc[t])
    BY <1>1, <1>2, <1>3, <2>1, <2>2
  <2>3. CASE pc[t] = "plan" /\ steps[t] < MaxSteps /\ steps'[t] = steps[t] + 1
    <3>1. Left(pc[t]) = 1
      BY <2>3 DEF Left
    <3> QED
      BY <1>1, <1>2, <1>3, <2>1, <2>3, <3>1
  <2>4. CASE pc'[t] = "done"
    BY <1>5, <2>4 DEF AtTool
  <2> QED
    BY <2>2, <2>3, <2>4
<1> QED
  BY <1>4, <1>5 DEF AtTool

\* A tool that returns, from wherever it is.
LEMMA ResultNearer ==
  ASSUME TypeOK, NEW t \in Tasks, pc[t] \in AtTool, NEW r \in Results, Result(t, r)
  PROVE  Distance(t)' \in 0..Distance(t) /\ Distance(t)' < Distance(t)
<1>1. pc'[t] = "done" \/ (pc'[t] = "plan" /\ steps'[t] = steps[t])
  BY DEF TypeOK, Result, Answer
<1>2. Left("plan") < Left(pc[t])
  BY DEF AtTool, Left
<1> QED
  BY <1>1, <1>2, Nearer

\* A tool that goes on.
LEMMA GotoNearer ==
  ASSUME TypeOK, NEW t \in Tasks, pc[t] \in AtTool, NEW w \in AtTool, Goto(t, w),
         Left(w) < Left(pc[t])
  PROVE  Distance(t)' \in 0..Distance(t) /\ Distance(t)' < Distance(t)
<1>1. pc'[t] = w /\ steps'[t] = steps[t]
  BY DEF TypeOK, Goto
<1> QED
  BY <1>1, Nearer

LEMMA PlanNearer ==
  ASSUME BaseInv, NEW t \in Tasks, Basic(t) \/ LoopStep(t)
  PROVE  Distance(t)' \in 0..Distance(t) /\ Distance(t)' < Distance(t)
<1>1. TypeOK /\ PlaceInv /\ pc[t] = "plan"
  BY DEF BaseInv, Basic, LoopStep
<1>2. (\E r \in Replies : Answer(t, r)) \/ \E j \in AllJobs : Call(t, j)
  BY <1>1, PlanControl
<1>3. (\E j \in AllJobs : Call(t, j)) => steps[t] < MaxSteps \/ pc'[t] = "done"
  <2>1. CASE Basic(t)
    <3>1. steps[t] = 0
      BY <1>1, <2>1 DEF PlaceInv, PlaceAt, Basic
    <3> QED
      BY <3>1, ConstantsAssumption
  <2>2. CASE LoopStep(t)
    BY <1>1, <2>2 DEF LoopStep, Answer, TypeOK
  <2> QED
    BY <2>1, <2>2
<1>4. pc'[t] = "done" \/ (pc'[t] = "execute" /\ steps'[t] = steps[t] + 1)
  BY <1>1, <1>2 DEF TypeOK, Answer, Call
<1>5. pc'[t] # "done" => steps[t] < MaxSteps
  BY <1>1, <1>2, <1>3 DEF TypeOK, Answer
<1> QED
  BY <1>1, <1>4, <1>5, Nearer

LEMMA StepNearer ==
  ASSUME BaseInv, NEW t \in Tasks, TaskStep(t)
  PROVE  Distance(t)' \in 0..Distance(t) /\ Distance(t)' < Distance(t)
<1> DEFINE Goal == Distance(t)' \in 0..Distance(t) /\ Distance(t)' < Distance(t)
<1>1. TypeOK /\ {"ok", "text", "blank", "error"} \subseteq Results
  BY DEF BaseInv, Results
<1> SUFFICES Goal
  BY DEF Goal
<1> HIDE DEF Goal
<1>2. ASSUME pc[t] \in AtTool, \E r \in {"ok", "text", "blank", "error"} : Result(t, r) PROVE Goal
  BY <1>1, <1>2, ResultNearer DEF Goal
<1>3. ASSUME NEW w \in AtTool, pc[t] \in AtTool, Goto(t, w), Left(w) < Left(pc[t]) PROVE Goal
  BY <1>1, <1>3, GotoNearer DEF Goal
<1>4. CASE Basic(t) \/ LoopStep(t)
  BY <1>4, PlanNearer DEF Goal
<1>5. CASE Execute(t)
  <2>1. pc[t] = "execute" /\ Left("stat") < Left(pc[t]) /\ Left("run") < Left(pc[t])
    BY <1>5 DEF Execute, Left
  <2>2. \/ \E r \in {"ok", "text", "blank", "error"} : Result(t, r)
        \/ Goto(t, "stat") \/ Goto(t, "run")
    BY <1>5 DEF Execute
  <2> QED
    BY <1>2, <1>3, <2>1, <2>2 DEF AtTool
<1>6. CASE Stat(t)
  <2>1. /\ pc[t] = "stat" /\ Left("temp") < Left(pc[t])
        /\ Left("load") < Left(pc[t]) /\ Left("unlink") < Left(pc[t])
    BY <1>6 DEF Stat, Left
  <2>2. \/ \E r \in {"ok", "text", "blank", "error"} : Result(t, r)
        \/ Goto(t, "temp") \/ Goto(t, "load") \/ Goto(t, "unlink")
    BY <1>6 DEF Stat
  <2> QED
    BY <1>2, <1>3, <2>1, <2>2 DEF AtTool
<1>7. CASE Load(t)
  <2>1. pc[t] = "load" /\ Left("temp") < Left(pc[t])
    BY <1>7 DEF Load, Left
  <2>2. \/ \E r \in {"ok", "text", "blank", "error"} : Result(t, r)
        \/ Goto(t, "temp")
    BY <1>7 DEF Load
  <2> QED
    BY <1>2, <1>3, <2>1, <2>2 DEF AtTool
<1>8. CASE WriteTemp(t) \/ Sync(t)
  <2>1. \/ /\ pc[t] \in {"temp", "sync"}
           /\ \E r \in {"ok", "text", "blank", "error"} : Result(t, r)
        \/ pc[t] = "temp" /\ Goto(t, "sync")
        \/ pc[t] = "sync" /\ Goto(t, "rename")
    BY <1>8 DEF WriteTemp, Sync
  <2>2. Left("sync") < Left("temp") /\ Left("rename") < Left("sync")
    BY DEF Left
  <2> QED
    BY <1>2, <1>3, <2>1, <2>2 DEF AtTool
<1>9. CASE Rename(t) \/ Replace(t)
  <2>1. \/ /\ pc[t] = "rename"
           /\ \E r \in {"ok", "text", "blank", "error"} : Result(t, r)
        \/ pc[t] = "rename" /\ Goto(t, "replace")
        \/ pc[t] = "replace" /\ Goto(t, "again")
    BY <1>9 DEF Rename, Replace, Install
  <2>2. Left("replace") < Left("rename") /\ Left("again") < Left("replace")
    BY DEF Left
  <2> QED
    BY <1>2, <1>3, <2>1, <2>2 DEF AtTool
<1>10. CASE RenameAgain(t) \/ Unlink(t)
  <2>1. /\ pc[t] \in {"again", "unlink"}
        /\ \E r \in {"ok", "text", "blank", "error"} : Result(t, r)
    BY <1>10 DEF RenameAgain, Unlink, Install
  <2> QED
    BY <1>2, <2>1 DEF AtTool
<1>11. CASE CommandReturns(t)
  <2>1. pc[t] = "run" /\ \E r \in {"ok", "text", "blank", "error"} : Result(t, r)
    BY <1>11 DEF CommandReturns
  <2> QED
    BY <1>2, <2>1 DEF AtTool
<1> QED
  BY <1>4, <1>5, <1>6, <1>7, <1>8, <1>9, <1>10, <1>11 DEF TaskStep, FileStep, Goal

\* A task that arrives, or whose context cannot be built.
LEMMA EntryNearer ==
  ASSUME BaseInv, NEW t \in Tasks, Arrive(t) \/ ContextFails(t)
  PROVE  Distance(t)' \in 0..Distance(t)
<1>1. TypeOK /\ MaxSteps \in Nat /\ steps[t] \in Nat /\ steps[t] <= MaxSteps
  BY ConstantsAssumption DEF BaseInv, TypeOK
<1>2. CASE Arrive(t)
  <2>1. pc[t] = "idle" /\ pc'[t] = "plan" /\ steps'[t] = steps[t]
    BY <1>1, <1>2 DEF Arrive, TypeOK
  <2>2. Distance(t) = 10 * MaxSteps + 2 /\ Distance(t)' = 10 * (MaxSteps - steps[t]) + 1
    BY <2>1 DEF Distance, Left
  <2> QED
    BY <1>1, <2>2
<1>3. CASE ContextFails(t)
  <2>1. pc[t] = "plan" /\ pc'[t] = "done"
    BY <1>1, <1>3 DEF ContextFails, Answer, TypeOK
  <2> QED
    BY <1>1, <2>1, Nearer
<1> QED
  BY <1>2, <1>3

LEMMA DistanceType == ASSUME TypeOK, NEW t \in Tasks PROVE Distance(t) \in Nat
<1>1. MaxSteps \in Nat /\ steps[t] \in Nat /\ steps[t] <= MaxSteps
  BY ConstantsAssumption DEF TypeOK
<1>2. Left(pc[t]) \in 1..9
  BY DEF Left
<1> QED
  BY <1>1, <1>2 DEF Distance

\* No task goes round for ever, in any mode, with any planner, whatever fails:
\* each of its steps brings it nearer to its answer, and no step of anybody else
\* throws it back.  A task takes at most 10 * MaxSteps + 2 steps.
THEOREM TasksAdvance == Spec => TaskAdvances
<1>1. ASSUME BaseInv, [Next]_vars, NEW t \in Tasks
      PROVE  /\ Distance(t)' \in 0..Distance(t)
             /\ TaskStep(t) => Distance(t)' < Distance(t)
  <2>1. Distance(t) \in Nat
    BY <1>1, DistanceType DEF BaseInv
  <2>2. CASE TaskStep(t)
    BY <1>1, <2>2, StepNearer
  <2>3. CASE Same(t)
    <3>1. Distance(t)' = Distance(t)
      BY <2>3 DEF Same, Distance
    <3> QED
      BY <2>1, <3>1, <2>2
  <2>4. CASE Arrive(t) \/ ContextFails(t)
    BY <1>1, <2>2, <2>4, EntryNearer
  <2>5. CASE Die
    <3>1. Distance(t)' = 0
      BY <2>5 DEF Die, Distance
    <3> QED
      BY <2>1, <2>2, <3>1
  <2> QED
    BY <1>1, <2>2, <2>3, <2>4, <2>5, OwnStep
<1>2. BaseInv /\ [Next]_vars =>
        [\A t \in Tasks : /\ Distance(t)' \in 0..Distance(t)
                          /\ TaskStep(t) => Distance(t)' < Distance(t)]_vars
  BY <1>1
<1> QED
  BY <1>2, BaseInit, BaseNext, PTL DEF Spec, TaskAdvances

-----------------------------------------------------------------------------
(* Nothing is left behind by a call that has returned.                     *)

\* A command has a process for exactly as long as the task waits for it, and a
\* temporary file lives for exactly the steps between its first byte and the
\* rename or the cleanup.
LeavesNothing(t) ==
  /\ child[t] # "none" <=> pc[t] = "run"
  /\ held[t] => child[t] \in {"ended", "failed"}
  /\ temp[t] # "none" <=> pc[t] \in {"sync", "rename", "replace", "again"}
NothingLeft == \A t \in Tasks : LeavesNothing(t)

LEMMA OthersLeave ==
  ASSUME BaseInv, NEW t \in Tasks, NEW u \in Tasks, u # t, LeavesNothing(t),
         \/ Arrive(u) \/ ContextFails(u) \/ TaskStep(u)
         \/ CommandEnds(u) \/ CommandKilled(u) \/ PipeCloses(u)
  PROVE  LeavesNothing(t)'
<1>1. TypeOK
  BY DEF BaseInv
<1>2. pc'[t] = pc[t]
  <2>1. CASE Arrive(u)
    BY <1>1, <2>1 DEF TypeOK, Arrive
  <2>2. CASE ContextFails(u) \/ Basic(u) \/ LoopStep(u)
    BY <1>1, <2>2, PlanControl DEF TypeOK, Answer, Call
  <2>3. CASE Execute(u) \/ FileStep(u) \/ CommandReturns(u)
    BY <1>1, <2>3, FileControl DEF TypeOK, Answer, Result, Goto
  <2>4. CASE CommandEnds(u) \/ CommandKilled(u) \/ PipeCloses(u)
    BY <2>4 DEF CommandEnds, CommandKilled, PipeCloses, control
  <2> QED
    BY <2>1, <2>2, <2>3, <2>4 DEF TaskStep
<1>3. temp'[t] = temp[t]
  BY <1>1 DEF TypeOK, Arrive, ContextFails, TaskStep, Basic, LoopStep, Execute, FileStep, Stat, Load,
    WriteTemp, Sync, Rename, Replace, RenameAgain, Install, Unlink, CommandReturns, CommandEnds,
    CommandKilled, PipeCloses, work
<1>4. child'[t] = child[t] /\ held'[t] = held[t]
  BY <1>1 DEF TypeOK, Arrive, ContextFails, TaskStep, Basic, LoopStep, Execute, FileStep, Stat, Load,
    WriteTemp, Sync, Rename, Replace, RenameAgain, Unlink, CommandReturns, CommandEnds,
    CommandKilled, PipeCloses, work
<1> QED
  BY <1>2, <1>3, <1>4 DEF LeavesNothing

\* Where a task is after a tool has returned, or has gone on.
LEMMA ResultPlace ==
  ASSUME TypeOK, NEW t \in Tasks, NEW r, Result(t, r)
  PROVE  pc'[t] \in {"plan", "done"}
BY DEF TypeOK, Result, Answer

LEMMA GotoPlace == ASSUME TypeOK, NEW t \in Tasks, NEW w, Goto(t, w) PROVE pc'[t] = w
BY DEF TypeOK, Goto

LEMMA OwnLeaves ==
  ASSUME BaseInv, NEW t \in Tasks, LeavesNothing(t),
         \/ Arrive(t) \/ ContextFails(t) \/ TaskStep(t)
         \/ CommandEnds(t) \/ CommandKilled(t) \/ PipeCloses(t)
  PROVE  LeavesNothing(t)'
<1> USE DEF LeavesNothing
<1>1. TypeOK
  BY DEF BaseInv
<1>2. CASE Arrive(t)
  BY <1>1, <1>2 DEF TypeOK, Arrive, work
<1>3. CASE ContextFails(t) \/ Basic(t) \/ LoopStep(t)
  <2>1. pc[t] = "plan" /\ pc'[t] \in {"done", "execute"}
    <3>1. pc[t] = "plan"
      BY <1>3 DEF ContextFails, Basic, LoopStep
    <3> QED
      BY <1>1, <1>3, <3>1, PlanControl DEF TypeOK, Answer, Call
  <2>2. UNCHANGED work
    BY <1>3 DEF ContextFails, Basic, LoopStep
  <2> QED
    BY <2>1, <2>2 DEF work
<1>4. CASE Execute(t)
  <2>1. \/ pc'[t] \in {"plan", "done", "stat"} /\ UNCHANGED child
        \/ pc'[t] = "run" /\ child' = [child EXCEPT ![t] = "running"]
    BY <1>1, <1>4, ResultPlace, GotoPlace DEF Execute
  <2>2. pc[t] = "execute" /\ UNCHANGED <<temp, held>>
    BY <1>4 DEF Execute
  <2> QED
    BY <1>1, <2>1, <2>2 DEF TypeOK
<1>5. CASE Stat(t) \/ Load(t) \/ Unlink(t)
  <2>1. pc[t] \in {"stat", "load", "unlink"} /\ UNCHANGED <<temp, child, held>>
    BY <1>5 DEF Stat, Load, Unlink, work
  <2>2. pc'[t] \in {"plan", "done", "temp", "load", "unlink"}
    BY <1>1, <1>5, ResultPlace, GotoPlace DEF Stat, Load, Unlink
  <2> QED
    BY <2>1, <2>2
<1>6. CASE WriteTemp(t) \/ Sync(t)
  <2>1. pc[t] \in {"temp", "sync"} /\ UNCHANGED <<child, held>>
    BY <1>6 DEF WriteTemp, Sync
  <2>2. \/ pc'[t] \in {"plan", "done"} /\ temp'[t] = "none"
        \/ pc'[t] \in {"sync", "rename"} /\ temp'[t] # "none"
    BY <1>1, <1>6, ResultPlace, GotoPlace DEF WriteTemp, Sync, TypeOK
  <2> QED
    BY <2>1, <2>2
<1>7. CASE Rename(t) \/ Replace(t) \/ RenameAgain(t)
  <2>1. pc[t] \in {"rename", "replace", "again"} /\ UNCHANGED <<child, held>>
    BY <1>7 DEF Rename, Replace, RenameAgain, work
  <2>2. \/ pc'[t] \in {"plan", "done"} /\ temp'[t] = "none"
        \/ pc'[t] \in {"replace", "again"} /\ UNCHANGED temp
    BY <1>1, <1>7, ResultPlace, GotoPlace DEF Rename, Replace, RenameAgain, Install, TypeOK, work
  <2> QED
    BY <2>1, <2>2
<1>8. CASE CommandReturns(t)
  <2>1. pc'[t] \in {"plan", "done"} /\ pc[t] = "run"
    BY <1>1, <1>8, ResultPlace DEF CommandReturns
  <2> QED
    BY <1>1, <1>8, <2>1 DEF CommandReturns, TypeOK
<1>9. CASE CommandEnds(t) \/ CommandKilled(t)
  <2>1. child[t] = "running" /\ child'[t] \in {"ended", "failed"} /\ UNCHANGED <<pc, temp>>
    BY <1>1, <1>9 DEF CommandEnds, CommandKilled, TypeOK, control
  <2> QED
    BY <2>1
<1>10. CASE PipeCloses(t)
  BY <1>1, <1>10 DEF PipeCloses, TypeOK, control
<1> QED
  BY <1>2, <1>3, <1>4, <1>5, <1>6, <1>7, <1>8, <1>9, <1>10 DEF TaskStep, FileStep

\* Whatever fails on the way (a write, the sync, both renames, the command, its
\* deadline), a call that has returned has removed or renamed its temporary file
\* and has no process, and a task never waits for a command that is not there.
\* (The os.Remove of the cleanup is taken to succeed, and a process that dies
\* forgets its temporary files.)
THEOREM NothingLeftBehind == Spec => []NothingLeft
<1>1. Init => NothingLeft
  BY DEF Init, NothingLeft, LeavesNothing
<1>2. BaseInv /\ NothingLeft /\ [Next]_vars => NothingLeft'
  <2> SUFFICES ASSUME BaseInv, NothingLeft, [Next]_vars, NEW t \in Tasks
               PROVE  LeavesNothing(t)'
    BY DEF NothingLeft
  <2>1. LeavesNothing(t)
    BY DEF NothingLeft
  <2>2. CASE UNCHANGED vars
    BY <2>1, <2>2 DEF vars, control, work, LeavesNothing
  <2>3. CASE Die
    BY <2>3 DEF Die, LeavesNothing
  <2> QED
    BY <2>1, <2>2, <2>3, OthersLeave, OwnLeaves DEF Next
<1> QED
  BY <1>1, <1>2, BaseInit, BaseNext, PTL DEF Spec
=============================================================================
