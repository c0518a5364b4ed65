---------------------------- MODULE AgentRuntime ----------------------------
(***************************************************************************)
(* The in-process runtime (internal/runtime): tasks that run at once, each *)
(* calling tools through a registry with an allowlist, by the basic        *)
(* runtime, by the loop with the tool-command planner, or by the loop with *)
(* any other planner; the file tools on shared files; command.exec.        *)
(* What a command does to the files is outside: they change by the file    *)
(* tools only.                                                             *)
(***************************************************************************)
EXTENDS Naturals

CONSTANTS
  Tasks,       \* tasks, each handled in a goroutine of its own
  Files,       \* paths under the sandbox roots
  Marks,       \* words the files may hold at first
  Jobs,        \* what a task or a planner may ask for
  Configs,     \* configurations of agents.runtime
  MaxSteps     \* step budget of the loop

Outside    == "outside"     \* a path that no root contains
Looking    == {"file.read", "file.stat"}
Writing    == {"file.write", "file.edit"}
FileTools  == Looking \cup Writing \cup {"file.delete"}
Registered == {"echo", "tools.list", "command.exec"} \cup FileTools

\* No tool named: a plain text ("none"), or a tool prefix without a name ("").
Nameless == {"none", ""}

\* "echo" stands for each tool that touches nothing of this module (version,
\* browser.canvas, which may fail); memory.search is in MemoryIndex.  "file.stat" stands for each
\* tool that looks at a file without handing out its text.  A job names a tool, a
\* file and the word that an edit replaces.  The mode "planned" is the loop with
\* any planner (the interface allows others).
AllJobs    == [tool : Registered \cup Nameless \cup {"nosuch"}, path : Files \cup {Outside}, old : Marks]
AllConfigs == [mode : {"basic", "loop", "planned"}, allowed : SUBSET Registered,
               roots : BOOLEAN, commands : BOOLEAN]

ASSUME ConstantsAssumption ==
  /\ Outside \notin Files /\ Jobs \subseteq AllJobs /\ Jobs # {} /\ Configs \subseteq AllConfigs
  /\ Marks \cap Tasks = {}
  /\ MaxSteps \in Nat /\ MaxSteps > 1

\* A text is the set of the words in it; a task's own new text is its name.
Texts == SUBSET (Marks \cup Tasks)
\* A missing file, or one text.
Contents == {{}} \cup {{x} : x \in Texts}
Missing  == {}

VARIABLES
  config,
  job,         \* the tool call in hand
  pc,          \* where the task is
  steps,       \* tool calls it has made
  last,        \* result of its last call, for the planner
  reply,       \* what HandleTask has returned
  got,         \* the text its last call has read
  temp,        \* its temporary file
  child,       \* the process of its command
  held,        \* a descendant of that process holds the output pipe open
  disk,        \* the files
  flushed,     \* the data of the file has reached the disk
  alive,       \* the process runs
  versions,    \* history: texts that each file has held
  did,         \* history: what each task has done to files
  alone        \* history: no other task has been at work since it arrived (or came)

control == <<job, pc, steps, last, reply>>
work    == <<got, temp, child, held>>
files   == <<disk, flushed>>
vars    == <<config, control, work, files, alive, versions, did, alone>>

Where   == {"idle", "plan", "execute", "stat", "load", "temp", "sync", "rename", "replace",
            "again", "unlink", "run", "done", "dead"}
Results == {"ok", "text", "blank", "error"}
Replies == Results \cup {"ack", "usage", "no action", "budget", "failed"}

TypeOK ==
  /\ config \in Configs
  /\ job \in [Tasks -> AllJobs] /\ pc \in [Tasks -> Where] /\ steps \in [Tasks -> 0..MaxSteps]
  /\ last \in [Tasks -> Results \cup {"none"}] /\ reply \in [Tasks -> Replies \cup {"none"}]
  /\ got \in [Tasks -> Texts] /\ temp \in [Tasks -> {"none", "written", "synced"}]
  /\ child \in [Tasks -> {"none", "running", "ended", "failed"}] /\ held \in [Tasks -> BOOLEAN]
  /\ disk \in [Files -> Contents] /\ flushed \in [Files -> BOOLEAN] /\ alive \in BOOLEAN
  /\ versions \in [Files -> SUBSET Texts]
  /\ did \in [Tasks -> SUBSET {"installed", "deleted", "removed", "ran"}]
  /\ alone \in [Tasks -> BOOLEAN]

Init ==
  /\ config \in Configs
  /\ job = [t \in Tasks |-> CHOOSE j \in Jobs : TRUE] /\ pc = [t \in Tasks |-> "idle"]
  /\ steps = [t \in Tasks |-> 0]
  /\ last = [t \in Tasks |-> "none"] /\ reply = [t \in Tasks |-> "none"]
  /\ got = [t \in Tasks |-> {}] /\ temp = [t \in Tasks |-> "none"]
  /\ child = [t \in Tasks |-> "none"] /\ held = [t \in Tasks |-> FALSE]
  /\ disk \in [Files -> {Missing, {{}}, {Marks}}] /\ flushed = [f \in Files |-> TRUE]
  /\ alive = TRUE
  /\ versions = disk
  /\ did = [t \in Tasks |-> {}] /\ alone = [t \in Tasks |-> TRUE]

-----------------------------------------------------------------------------
(* HandleTask, but for the tools.                                          *)

Busy(t) == pc[t] \notin {"idle", "done"}

Answer(t, r) ==
  /\ reply' = [reply EXCEPT ![t] = r] /\ pc' = [pc EXCEPT ![t] = "done"]
  /\ UNCHANGED <<job, steps, last>>

\* A tool has returned: the basic runtime answers with the result, the loop
\* shows it to the planner.
Result(t, r) ==
  \/ config.mode = "basic" /\ Answer(t, r)
  \/ /\ config.mode # "basic"
     /\ last' = [last EXCEPT ![t] = r] /\ pc' = [pc EXCEPT ![t] = "plan"]
     /\ UNCHANGED <<job, steps, reply>>

Goto(t, where) == pc' = [pc EXCEPT ![t] = where] /\ UNCHANGED <<job, steps, last, reply>>

Call(t, j) ==
  /\ job' = [job EXCEPT ![t] = j] /\ pc' = [pc EXCEPT ![t] = "execute"]
  /\ steps' = [steps EXCEPT ![t] = @ + 1] /\ UNCHANGED <<last, reply>>

Arrive(t) ==
  /\ pc[t] = "idle"
  /\ \E j \in Jobs : job' = [job EXCEPT ![t] = j]
  /\ pc' = [pc EXCEPT ![t] = "plan"]
  /\ alone' = [u \in Tasks |-> IF u = t THEN ~\E v \in Tasks : Busy(v) ELSE alone[u] /\ ~Busy(u)]
  /\ UNCHANGED <<config, steps, last, reply, work, files, alive, versions, did>>

\* The loop's context builder reads its files first and may fail.
ContextFails(t) ==
  /\ pc[t] = "plan" /\ steps[t] = 0 /\ config.mode # "basic" /\ Answer(t, "failed")
  /\ UNCHANGED <<config, work, files, alive, versions, did, alone>>

Basic(t) ==
  /\ pc[t] = "plan" /\ config.mode = "basic"
  /\ \/ job[t].tool = "none" /\ Answer(t, "ack")
     \/ job[t].tool = "" /\ Answer(t, "usage")
     \/ job[t].tool \notin Nameless /\ Call(t, job[t])
  /\ UNCHANGED <<config, work, files, alive, versions, did, alone>>

\* ToolCommandPlanner: one call, then its result as the reply.  An output of
\* nothing but space is a reply without text, which the loop takes for none.
NextStep(t) ==
  \/ last[t] \in {"ok", "text", "error"} /\ Answer(t, last[t])
  \/ last[t] = "blank" /\ Answer(t, "no action")
  \/ last[t] = "none" /\ job[t].tool \in Nameless /\ Answer(t, "usage")
  \/ last[t] = "none" /\ job[t].tool \notin Nameless /\ Call(t, job[t])

\* Any other planner: a call, a call without a name, a reply, nothing, an
\* error or both a call and a reply.
AnyPlanner(t) ==
  \/ \E j \in Jobs : j.tool \notin Nameless /\ Call(t, j)
  \/ \E r \in {"usage", "text", "no action", "failed"} : Answer(t, r)

\* Mutant: the budget is compared once too late.
LoopStepBeyond(t) ==
  /\ pc[t] = "plan" /\ config.mode # "basic"
  /\ \/ steps[t] > MaxSteps /\ Answer(t, "budget")
     \/ /\ steps[t] <= MaxSteps
        /\ \/ config.mode = "loop" /\ NextStep(t)
           \/ config.mode = "planned" /\ AnyPlanner(t)
  /\ UNCHANGED <<config, work, files, alive, versions, did, alone>>

LoopStep(t) ==
  /\ pc[t] = "plan" /\ config.mode # "basic"
  /\ \/ steps[t] = MaxSteps /\ Answer(t, "budget")
     \/ /\ steps[t] < MaxSteps
        /\ \/ config.mode = "loop" /\ NextStep(t)
           \/ config.mode = "planned" /\ AnyPlanner(t)
  /\ UNCHANGED <<config, work, files, alive, versions, did, alone>>

-----------------------------------------------------------------------------
(* The registry.                                                           *)

\* Mutant: an empty allowlist allows everything.
IsAllowedByDefault(name) ==
  name = "tools.list" \/ config.allowed = {} \/ name \in config.allowed

\* tools.list needs no entry; with an empty allowlist all the others are denied.
IsAllowed(name) == name = "tools.list" \/ name \in config.allowed

\* PathSandbox.ValidatePath.
ValidPath(path) == config.roots /\ path # Outside

\* Registry.Execute, and the tool up to its first look at the file.  The arguments,
\* the command or its directory may be refused; arguments that a file tool
\* cannot read are like a path outside.
Execute(t) ==
  LET name == job[t].tool IN
  /\ pc[t] = "execute"
  /\ \/ (name \notin Registered \/ ~IsAllowed(name)) /\ Result(t, "error") /\ UNCHANGED <<child, did>>
     \/ name = "tools.list" /\ Result(t, "text") /\ UNCHANGED <<child, did>>
     \/ /\ name = "echo" /\ IsAllowed(name) /\ UNCHANGED <<child, did>>
        /\ \E r \in {"text", "blank", "error"} : Result(t, r)
     \/ /\ name \in FileTools /\ IsAllowed(name) /\ UNCHANGED <<child, did>>
        /\ \/ ~ValidPath(job[t].path) /\ Result(t, "error")
           \/ ValidPath(job[t].path) /\ Goto(t, "stat")
     \/ /\ name = "command.exec" /\ IsAllowed(name)
        /\ \/ Result(t, "error") /\ UNCHANGED <<child, did>>
           \/ /\ config.commands /\ config.roots /\ Goto(t, "run")
              /\ child' = [child EXCEPT ![t] = "running"]
              /\ did' = [did EXCEPT ![t] = @ \cup {"ran"}]
  /\ UNCHANGED <<config, got, temp, held, files, alive, versions, alone>>

-----------------------------------------------------------------------------
(* The file tools.                                                         *)

File(t) == disk[job[t].path]

\* os.Stat: the file may also be a directory, too large or out of reach.
Stat(t) ==
  LET name == job[t].tool IN
  /\ pc[t] = "stat"
  /\ \/ Result(t, "error")
     \/ name = "file.stat" /\ Result(t, "text")
     \/ name = "file.write" /\ Goto(t, "temp")
     \/ File(t) # Missing /\ name \in {"file.read", "file.edit"} /\ Goto(t, "load")
     \/ File(t) # Missing /\ name = "file.delete" /\ Goto(t, "unlink")
  /\ UNCHANGED <<config, work, files, alive, versions, did, alone>>

\* Mutant: the text an earlier call of the task has read is used again.
LoadOnce(t) ==
  /\ pc[t] = "load"
  /\ \/ Result(t, "error") /\ UNCHANGED got
     \/ \E x \in IF got[t] # {} THEN {got[t]} ELSE File(t) :
          /\ got' = [got EXCEPT ![t] = x]
          /\ \/ job[t].tool = "file.read" /\ Result(t, IF x = {} THEN "blank" ELSE "text")
             \/ /\ job[t].tool = "file.edit"
                /\ IF job[t].old \in x THEN Goto(t, "temp") ELSE Result(t, "error")
  /\ UNCHANGED <<config, temp, child, held, files, alive, versions, did, alone>>

\* os.ReadFile; an edit then looks for the text to replace.
Load(t) ==
  /\ pc[t] = "load"
  /\ \/ Result(t, "error") /\ UNCHANGED got
     \/ \E x \in File(t) :
          /\ got' = [got EXCEPT ![t] = x]
          /\ \/ job[t].tool = "file.read" /\ Result(t, IF x = {} THEN "blank" ELSE "text")
             \/ /\ job[t].tool = "file.edit"
                /\ IF job[t].old \in x THEN Goto(t, "temp") ELSE Result(t, "error")
  /\ UNCHANGED <<config, temp, child, held, files, alive, versions, did, alone>>

\* What the task writes: its own text, or the text it has read with one word
\* replaced.
Data(t) == IF job[t].tool = "file.edit" THEN (got[t] \ {job[t].old}) \cup {t} ELSE {t}

\* writeFileAtomic: the data goes to a temporary file,
WriteTemp(t) ==
  /\ pc[t] = "temp"
  /\ \/ Result(t, "error") /\ UNCHANGED temp
     \/ temp' = [temp EXCEPT ![t] = "written"] /\ Goto(t, "sync")
  /\ UNCHANGED <<config, got, child, held, files, alive, versions, did, alone>>

\* Mutant: the temporary file is not synced.
SyncSkipped(t) ==
  /\ pc[t] = "sync" /\ Goto(t, "rename")
  /\ UNCHANGED <<config, work, files, alive, versions, did, alone>>

\* is synced and closed, or removed when that fails,
Sync(t) ==
  /\ pc[t] = "sync"
  /\ \/ temp' = [temp EXCEPT ![t] = "none"] /\ Result(t, "error")
     \/ temp' = [temp EXCEPT ![t] = "synced"] /\ Goto(t, "rename")
  /\ UNCHANGED <<config, got, child, held, files, alive, versions, did, alone>>

\* and takes the place of the file.
Install(t) ==
  /\ disk' = [disk EXCEPT ![job[t].path] = {Data(t)}]
  /\ flushed' = [flushed EXCEPT ![job[t].path] = (temp[t] = "synced")]
  /\ versions' = [versions EXCEPT ![job[t].path] = @ \cup {Data(t)}]
  /\ did' = [did EXCEPT ![t] = @ \cup {"installed"}]
  /\ temp' = [temp EXCEPT ![t] = "none"] /\ Result(t, "ok")

\* Mutant: the error of the rename is dropped.
RenameUnchecked(t) ==
  /\ pc[t] = "rename"
  /\ \/ Install(t)
     \/ temp' = [temp EXCEPT ![t] = "none"] /\ Result(t, "ok") /\ UNCHANGED <<files, versions, did>>
  /\ UNCHANGED <<config, got, child, held, alive, alone>>

Rename(t) ==
  /\ pc[t] = "rename"
  /\ \/ Install(t)
     \/ Goto(t, "replace") /\ UNCHANGED <<temp, files, versions, did>>
  /\ UNCHANGED <<config, got, child, held, alive, alone>>

\* Where a rename cannot replace a file: remove the file (or fail to) ...
Replace(t) ==
  /\ pc[t] = "replace" /\ Goto(t, "again")
  /\ \/ UNCHANGED <<disk, did>>
     \/ /\ disk' = [disk EXCEPT ![job[t].path] = Missing]
        /\ did' = [did EXCEPT ![t] = @ \cup {"removed"}]
  /\ UNCHANGED <<config, work, flushed, alive, versions, alone>>

\* ... and rename once more; after a second failure the deferred cleanup
\* removes the temporary file too.
RenameAgain(t) ==
  /\ pc[t] = "again"
  /\ \/ Install(t)
     \/ /\ temp' = [temp EXCEPT ![t] = "none"] /\ Result(t, "error")
        /\ UNCHANGED <<files, versions, did>>
  /\ UNCHANGED <<config, got, child, held, alive, alone>>

Unlink(t) ==
  /\ pc[t] = "unlink"
  /\ \/ Result(t, "error") /\ UNCHANGED <<disk, did>>
     \/ /\ File(t) # Missing /\ Result(t, "ok")
        /\ disk' = [disk EXCEPT ![job[t].path] = Missing]
        /\ did' = [did EXCEPT ![t] = @ \cup {"deleted"}]
  /\ UNCHANGED <<config, work, flushed, alive, versions, alone>>

-----------------------------------------------------------------------------
(* command.exec.                                                           *)

\* The command ends; a descendant may keep the output pipe.
CommandEnds(t) ==
  /\ child[t] = "running"
  /\ \E end \in {"ended", "failed"}, keep \in BOOLEAN :
       child' = [child EXCEPT ![t] = end] /\ held' = [held EXCEPT ![t] = keep]
  /\ UNCHANGED <<config, control, got, temp, files, alive, versions, did, alone>>

\* Mutant: no deadline.
NotKilled(t) == FALSE /\ UNCHANGED vars

\* The deadline of exec.CommandContext, or the bot's own context, kills the
\* command, but not its descendants.
CommandKilled(t) ==
  /\ child[t] = "running"
  /\ child' = [child EXCEPT ![t] = "failed"]
  /\ \E keep \in BOOLEAN : held' = [held EXCEPT ![t] = keep]
  /\ UNCHANGED <<config, control, got, temp, files, alive, versions, did, alone>>

PipeCloses(t) ==
  /\ held[t] /\ held' = [held EXCEPT ![t] = FALSE]
  /\ UNCHANGED <<config, control, got, temp, child, files, alive, versions, did, alone>>

\* cmd.Run returns when the command has ended and nobody holds the pipe.  It
\* replies "ok" for a command without output.
CommandReturns(t) ==
  /\ pc[t] = "run" /\ child[t] \in {"ended", "failed"} /\ ~held[t]
  /\ Result(t, IF child[t] = "ended" THEN "text" ELSE "error")
  /\ child' = [child EXCEPT ![t] = "none"]
  /\ UNCHANGED <<config, got, temp, held, files, alive, versions, did, alone>>

-----------------------------------------------------------------------------
\* The process dies.  Directory updates that were not yet on the disk may be
\* undone, so that a new file is gone, and a file whose data was not may be found empty.
Die ==
  /\ alive' = FALSE
  /\ disk' \in [Files -> Contents]
  /\ \A f \in Files :
       \/ disk'[f] = disk[f]
       \/ \E x \in versions[f] : disk'[f] = {x}
       \/ disk'[f] = Missing /\ \E t \in Tasks : "installed" \in did[t]
       \/ ~flushed[f] /\ disk'[f] = {{}}
  /\ pc' = [t \in Tasks |-> "dead"] /\ job' = [t \in Tasks |-> CHOOSE j \in Jobs : TRUE]
  /\ steps' = [t \in Tasks |-> 0]
  /\ last' = [t \in Tasks |-> "none"] /\ reply' = [t \in Tasks |-> "none"]
  /\ got' = [t \in Tasks |-> {}] /\ temp' = [t \in Tasks |-> "none"]
  /\ child' = [t \in Tasks |-> "none"] /\ held' = [t \in Tasks |-> FALSE]
  /\ UNCHANGED <<config, flushed, versions, did, alone>>

FileStep(t) ==
  Stat(t) \/ Load(t) \/ WriteTemp(t) \/ Sync(t) \/ Rename(t) \/ Replace(t) \/ RenameAgain(t) \/ Unlink(t)

TaskStep(t) == Basic(t) \/ LoopStep(t) \/ Execute(t) \/ FileStep(t) \/ CommandReturns(t)

Next ==
  /\ alive
  /\ \/ \E t \in Tasks : \/ Arrive(t) \/ ContextFails(t) \/ TaskStep(t)
                         \/ CommandEnds(t) \/ CommandKilled(t) \/ PipeCloses(t)
     \/ Die

\* A task that can go on does, and the deadline of a command comes.
Fairness == \A t \in Tasks : WF_vars(alive /\ TaskStep(t)) /\ WF_vars(alive /\ CommandKilled(t))

Spec     == Init /\ [][Next]_vars
FairSpec == Spec /\ Fairness

-----------------------------------------------------------------------------
(* Properties.                                                             *)

\* Deny by default (README "Security model"): whatever a task does to a file or
\* runs, each kind of its effects needs a tool that is on the allowlist, and
\* roots; in every runtime mode, with any planner.
DenyByDefault ==
  \A t \in Tasks :
    /\ did[t] # {} => config.roots
    /\ did[t] \cap {"installed", "removed"} # {} => config.allowed \cap Writing # {}
    /\ "deleted" \in did[t] => "file.delete" \in config.allowed
    /\ "ran" \in did[t] => "command.exec" \in config.allowed /\ config.commands

\* At any moment, and after the process has died in the middle of a write, a
\* file is missing or holds a text that some writer has meant it to hold as a
\* whole; and no task has read anything else.
FilesAreWhole ==
  /\ \A f \in Files : \A x \in disk[f] : x \in versions[f]
  /\ \A t \in Tasks : pc[t] \in {"temp", "sync", "rename", "replace", "again"} /\ job[t].tool = "file.edit"
                        => got[t] \in versions[job[t].path]

\* An edit is lost only to a task that ran at the same time: the text an edit
\* starts from is still in the file when it writes, if nobody else has been at work.
EditsBuildOnFile ==
  \A t \in Tasks :
    alive /\ alone[t] /\ pc[t] \in {"temp", "sync", "rename", "replace"} /\ job[t].tool = "file.edit"
      => disk[job[t].path] = {got[t]}

\* The reply of the basic runtime, and of the loop with its own planner, tells
\* what has been done: "ok" of a tool that changes files is not given without the
\* change, and an error is not reported of a change that was made.  (A write
\* whose second rename fails as well has removed the file.)
ReplyTellsEffect ==
  \A t \in Tasks :
    config.mode # "planned" /\ pc[t] = "done" =>
      CASE reply[t] = "ok"    -> did[t] \cap {"installed", "deleted"} # {}
        [] reply[t] = "error" -> did[t] \subseteq {"removed", "ran"}
        [] OTHER              -> did[t] \subseteq {"ran"}

\* How far a task is from its answer: the calls it may still make, and the steps
\* that the one in hand may still take.
Left(where) ==
  CASE where = "execute" -> 9 [] where = "stat"    -> 8 [] where = "load"  -> 7
    [] where = "temp"    -> 6 [] where = "sync"    -> 5 [] where = "rename" -> 4
    [] where = "replace" -> 3 [] where \in {"again", "unlink", "run"} -> 2 [] OTHER -> 1
Distance(t) ==
  CASE pc[t] = "idle"            -> 10 * MaxSteps + 2
    [] pc[t] \in {"done", "dead"} -> 0
    [] OTHER                     -> 10 * (MaxSteps - steps[t]) + Left(pc[t])

\* Every step of a task, in any mode and with any planner, whether a tool has
\* failed or not, brings it nearer to its answer, and nothing throws it back: no
\* task goes round for ever.
TaskAdvances ==
  [][\A t \in Tasks :
       /\ Distance(t)' \in 0..Distance(t)
       /\ TaskStep(t) => Distance(t)' < Distance(t)]_vars

\* Every task is answered, within the loop's budget and the commands' deadlines,
\* unless a descendant of a command keeps the output open or the process dies.
TaskAnswered == \A t \in Tasks : pc[t] = "plan" ~> pc[t] = "done" \/ held[t] \/ ~alive
=============================================================================
