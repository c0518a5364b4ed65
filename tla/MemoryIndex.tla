----------------------------- MODULE MemoryIndex -----------------------------
(***************************************************************************)
(* memory.search (internal/runtime/memory_tool.go, internal/memory): the   *)
(* first search of a process fetches and verifies the model, unpacks the   *)
(* library, and indexes the memory files into a database; all searches     *)
(* then share what that one has set up.  The process may die at any point; *)
(* files are edited at any time.                                           *)
(***************************************************************************)
EXTENDS Naturals, Sequences, Functions

CONSTANTS
  Callers,        \* tasks that search
  Files,          \* paths of memory files, each the number of its place in their order
  Versions,       \* what a file may hold: the tokens of its lines, one by one
  MaxTokens,      \* size of a chunk
  OverlapTokens,  \* overlap of chunks
  BatchSize       \* chunks stored in one transaction

Gone      == <<>>                \* no such file; the text of a file has a line at least
Nowhere   == 0
Downloads == {"model", "tokenizer"}
Assets    == Downloads \cup {"library"}

ASSUME ConstantsAssumption ==
  /\ Files \subseteq Nat \ {Nowhere} /\ Versions \subseteq Seq(Nat) \ {Gone}
  /\ MaxTokens \in Nat \ {0} /\ OverlapTokens \in Nat /\ BatchSize \in Nat \ {0}

VARIABLES
  memory,    \* the files
  asset,     \* the files of the model and of the library, in the cache
  rows,      \* the table of chunks
  call,      \* the searches
  once,      \* the sync.Once of the tool
  failed,    \* initErr
  phase,     \* what the first search is at
  temp,      \* its download
  list,      \* files it has found
  todo,      \* those not yet indexed, the first of which it is at
  file,      \* the last one it has read
  text,      \* content of that file
  line,      \* next line to chunk
  from,      \* current is the lines from here to the one before "line"
  chunks,    \* chunks of the file
  start,     \* how many of them are stored
  up,        \* the process runs
  read       \* history: what Index has read of each file

disk    == <<memory, asset, rows>>
chunker == <<text, line, from, chunks, start>>
index   == <<list, todo, file, chunker, read>>
vars    == <<disk, call, once, failed, phase, temp, index, up>>

Phases == Assets \cup {"fetch", "verify", "install", "extract", "open",
                       "find", "reset", "read", "chunk", "insert", "end"}
Rows   == [file : Files, text : Versions, first : Nat, last : Nat]

TypeOK ==
  /\ memory \in [Files -> Versions \cup {Gone}] /\ asset \in [Assets -> {"missing", "bad", "good"}]
  /\ rows \subseteq Rows
  /\ call \in [Callers -> {"idle", "waiting", "found", "error"}]
  /\ once \in {"new", "running", "done"} /\ failed \in BOOLEAN
  /\ phase \in Phases \cup {"none"} /\ temp \in (Downloads \cup {"none"}) \X {"missing", "bad", "good"}
  /\ list \subseteq Files /\ todo \subseteq Files /\ file \in Files \cup {Nowhere}
  /\ text \in Versions \cup {Gone} /\ line \in Nat /\ from \in Nat
  /\ chunks \in Seq(Nat \X Nat) /\ start \in Nat
  /\ up \in BOOLEAN /\ read \in [Files -> Versions \cup {Gone}]

Init ==
  /\ memory \in [Files -> Versions \cup {Gone}]
  /\ asset \in [Assets -> {"missing", "bad", "good"}]
  /\ rows = {} /\ up = TRUE
  /\ call = [c \in Callers |-> "idle"] /\ once = "new" /\ failed = FALSE
  /\ phase = "none" /\ temp = <<"none", "missing">>
  /\ list = {} /\ todo = {} /\ file = Nowhere
  /\ text = Gone /\ line = 1 /\ from = 1 /\ chunks = <<>> /\ start = 0
  /\ read = [f \in Files |-> Gone]

-----------------------------------------------------------------------------
(* Searches.                                                               *)

Usable == once = "done" /\ ~failed

Ask(c) ==
  /\ call[c] = "idle" /\ call' = [call EXCEPT ![c] = "waiting"]
  /\ UNCHANGED <<disk, once, failed, phase, temp, index, up>>

\* Mutant: a search takes over from one that has ended.
BeginAgain(c) ==
  /\ call[c] = "waiting" /\ once # "running"
  /\ once' = "running" /\ phase' = "model" /\ failed' = FALSE
  /\ UNCHANGED <<disk, call, temp, index, up>>

\* The first search does the work; the others wait for it.
Begin(c) ==
  /\ call[c] = "waiting" /\ once = "new"
  /\ once' = "running" /\ phase' = "model"
  /\ UNCHANGED <<disk, call, failed, temp, index, up>>

\* The query is embedded, which may fail, and compared with every row.
Search(c) ==
  /\ call[c] = "waiting" /\ once = "done"
  /\ \/ call' = [call EXCEPT ![c] = "error"]
     \/ ~failed /\ call' = [call EXCEPT ![c] = "found"]
  /\ UNCHANGED <<disk, once, failed, phase, temp, index, up>>

-----------------------------------------------------------------------------
(* Model and library.                                                      *)

Goto(where) == phase' = where /\ UNCHANGED <<once, failed>>

\* Mutant: the searches that wait are not told.
FailSilently == UNCHANGED once /\ failed' = TRUE /\ phase' = "end"

\* Any step may fail, or find its context cancelled; what is left is an error
\* for as long as the process runs.
Fail == once' = "done" /\ failed' = TRUE /\ phase' = "end"

After(a) == CASE a = "model" -> "tokenizer" [] a = "tokenizer" -> "open" [] OTHER -> "find"

\* Mutant: a file that is there is taken as it is.
CheckExists ==
  /\ phase \in Assets
  /\ \/ Fail /\ UNCHANGED temp
     \/ asset[phase] # "missing" /\ Goto(After(phase)) /\ UNCHANGED temp
     \/ /\ asset[phase] = "missing"
        /\ IF phase \in Downloads THEN temp' = <<phase, "missing">> /\ Goto("fetch")
                                  ELSE UNCHANGED temp /\ Goto("extract")
  /\ UNCHANGED <<disk, call, index, up>>

\* Is the file in the cache the one we want?
Check ==
  /\ phase \in Assets
  /\ \/ Fail /\ UNCHANGED temp
     \/ asset[phase] = "good" /\ Goto(After(phase)) /\ UNCHANGED temp
     \/ /\ asset[phase] # "good"
        /\ IF phase \in Downloads THEN temp' = <<phase, "missing">> /\ Goto("fetch")
                                  ELSE UNCHANGED temp /\ Goto("extract")
  /\ UNCHANGED <<disk, call, index, up>>

\* The download comes into a temporary file; the server may send anything.
Fetch ==
  /\ phase = "fetch"
  /\ \/ Fail /\ UNCHANGED temp
     \/ Goto("verify") /\ \E data \in {"good", "bad"} : temp' = <<temp[1], data>>
  /\ UNCHANGED <<disk, call, index, up>>

Verify ==
  /\ phase = "verify"
  /\ \/ Fail
     \/ temp[2] = "good" /\ Goto("install")
  /\ UNCHANGED <<disk, call, temp, index, up>>

\* Rename; when that fails, remove the old file and rename again.
Install ==
  /\ phase = "install"
  /\ \/ asset' = [asset EXCEPT ![temp[1]] = temp[2]] /\ Goto(After(temp[1]))
     \/ asset' \in {asset, [asset EXCEPT ![temp[1]] = "missing"]} /\ Fail
  /\ UNCHANGED <<memory, rows, call, temp, index, up>>

\* The library is written in place: from the first byte to the last one it is bad.
Extract ==
  /\ phase = "extract"
  /\ \/ asset["library"] # "bad" /\ asset' = [asset EXCEPT !["library"] = "bad"] /\ Goto("extract")
     \/ asset' = [asset EXCEPT !["library"] = "good"] /\ Goto("find")
     \/ UNCHANGED asset /\ Fail
  /\ UNCHANGED <<memory, rows, call, temp, index, up>>

\* The tokenizer and the database are opened.
Open ==
  /\ phase = "open" /\ (Goto("library") \/ Fail)
  /\ UNCHANGED <<disk, call, temp, index, up>>

-----------------------------------------------------------------------------
(* Index.                                                                  *)

Exists(f) == memory[f] # Gone

\* Without a file the table is left as it is, and in use.
Find ==
  /\ phase = "find" /\ UNCHANGED <<disk, call, temp, file, chunker, read, up>>
  /\ \/ Fail /\ UNCHANGED <<list, todo>>
     \/ /\ list' = {f \in Files : Exists(f)} /\ todo' = list'
        /\ \/ list' = {} /\ once' = "done" /\ phase' = "end" /\ UNCHANGED failed
           \/ list' # {} /\ Goto("reset")

Reset ==
  /\ phase = "reset"
  /\ \/ Fail /\ UNCHANGED rows
     \/ rows' = {} /\ Goto("read")
  /\ UNCHANGED <<memory, asset, call, temp, index, up>>

\* The next file, which may be gone by now.
Read ==
  /\ phase = "read" /\ UNCHANGED <<disk, call, temp, list, todo, up>>
  /\ \/ Fail /\ UNCHANGED <<file, chunker, read>>
     \/ /\ todo = {}
        /\ once' = "done" /\ phase' = "end" /\ UNCHANGED <<failed, file, chunker, read>>
     \/ \E f \in todo :
          /\ \A g \in todo : f <= g
          /\ Exists(f)
          /\ file' = f /\ text' = memory[f] /\ read' = [read EXCEPT ![f] = memory[f]]
          /\ line' = 1 /\ from' = 1 /\ chunks' = <<>> /\ start' = 0
          /\ Goto("chunk")

Tokens(t, i, j) == FoldFunctionOnSet(+, 0, t, i..j)

\* Mutant: the overlap is not bounded.
OverlapAll(first) == first = from

\* From "first" on, the current lines make no more than the overlap.
Overlap(first) ==
  IF OverlapTokens = 0 THEN first = line
  ELSE /\ first = line \/ Tokens(text, first, line - 1) <= OverlapTokens
       /\ \A i \in from..(first - 1) : Tokens(text, i, line - 1) > OverlapTokens

\* Mutant: a long line is left out.
LongLineLost == from = line /\ text[line] > MaxTokens /\ UNCHANGED chunks /\ from' = line + 1

\* A long line is a chunk when no line is held;
LongLine ==
  /\ from = line /\ text[line] > MaxTokens
  /\ chunks' = Append(chunks, <<line, line>>) /\ from' = line + 1

\* another one is held, and the last one closes the chunk;
Hold(first, closed) ==
  /\ from' = first
  /\ chunks' = IF line = Len(text) THEN Append(closed, <<first, line>>) ELSE closed

Full == ~(from = line \/ Tokens(text, from, line) <= MaxTokens)

\* and before a line that does not fit the chunk is closed, and the next one
\* starts with the overlap (ChunkText, line by line).
ChunkLine ==
  /\ phase = "chunk" /\ UNCHANGED <<disk, call, temp, list, todo, file, text, start, read, up>>
  /\ \/ Fail /\ UNCHANGED <<line, from, chunks>>
     \/ line > Len(text) /\ Goto("insert") /\ UNCHANGED <<line, from, chunks>>
     \/ /\ line <= Len(text) /\ Goto("chunk") /\ line' = line + 1
        /\ \/ LongLine
           \/ ~(from = line /\ text[line] > MaxTokens) /\ ~Full /\ Hold(from, chunks)
           \/ /\ Full
              /\ \E first \in from..line :
                   Overlap(first) /\ Hold(first, Append(chunks, <<from, line - 1>>))

Row(k) == [file |-> file, text |-> text, first |-> chunks[k][1], last |-> chunks[k][2]]

\* One batch is embedded and stored, or nothing of it.
Insert ==
  /\ phase = "insert"
  /\ UNCHANGED <<memory, asset, call, temp, list, file, text, line, from, chunks, read, up>>
  /\ \/ Fail /\ UNCHANGED <<rows, todo, start>>
     \/ /\ start < Len(chunks) /\ Goto("insert") /\ UNCHANGED todo
        /\ start' = start + BatchSize
        /\ rows' = rows \cup {Row(k) : k \in {i \in DOMAIN chunks : start < i /\ i <= start'}}
     \/ /\ start >= Len(chunks) /\ Goto("read")
        /\ todo' = todo \ {file} /\ UNCHANGED <<rows, start>>

-----------------------------------------------------------------------------
\* Files are edited, made and deleted.
Edit(f) ==
  /\ \E v \in Versions \cup {Gone} : memory' = [memory EXCEPT ![f] = v]
  /\ UNCHANGED <<asset, rows, call, once, failed, phase, temp, index, up>>

\* The process dies: the disk is what is left of it.
Crash ==
  /\ up' = FALSE /\ UNCHANGED disk
  /\ call' = [c \in Callers |-> "idle"] /\ once' = "new" /\ failed' = FALSE
  /\ phase' = "none" /\ temp' = <<"none", "missing">>
  /\ list' = {} /\ todo' = {} /\ file' = Nowhere
  /\ text' = Gone /\ line' = 1 /\ from' = 1 /\ chunks' = <<>> /\ start' = 0
  /\ read' = [f \in Files |-> Gone]

Restart == ~up /\ up' = TRUE /\ UNCHANGED <<disk, call, once, failed, phase, temp, index>>

Work == Check \/ Fetch \/ Verify \/ Install \/ Extract \/ Open
          \/ Find \/ Reset \/ Read \/ ChunkLine \/ Insert

Next ==
  \/ up /\ (Work \/ Crash \/ \E c \in Callers : Ask(c) \/ Begin(c) \/ Search(c))
  \/ Restart
  \/ \E f \in Files : Edit(f)

\* A search goes on with its work.
Fairness ==
  /\ WF_vars(up /\ Work)
  /\ \A c \in Callers : WF_vars(up /\ Begin(c)) /\ WF_vars(up /\ Search(c))

Spec     == Init /\ [][Next]_vars
FairSpec == Spec /\ Fairness

-----------------------------------------------------------------------------
(* Properties.                                                             *)

\* No unverified file of the model or of the library is ever loaded, whatever
\* an earlier process has left in the cache.
AssetsVerified ==
  /\ phase \in {"open", "library", "extract"} => \A a \in Downloads : asset[a] = "good"
  /\ phase \in {"find", "reset", "read", "chunk", "insert"} \/ Usable => \A a \in Assets : asset[a] = "good"

\* Every line of the file is in a chunk that is in the table.
Covered(f) ==
  \A i \in DOMAIN read[f] :
    \E r \in rows : r.file = f /\ r.text = read[f] /\ r.first <= i /\ i <= r.last

\* Once searches are answered, the table holds all of each file that was found,
\* as it was read, and nothing an earlier process has stored; when no file was
\* found, the old rows are in use.
IndexComplete ==
  Usable /\ list # {} =>
    /\ \A f \in list : Covered(f)
    /\ \A r \in rows : r.file \in list /\ r.text = read[r.file]

\* Chunks are as large as MaxTokens allows, unless the overlap and one line, or
\* one line alone, are more; each begins no earlier and ends later than the one
\* before it.
ChunkBounds ==
  \A k \in DOMAIN chunks :
    LET first == chunks[k][1] last == chunks[k][2] IN
    /\ \/ first = last
       \/ Tokens(text, first, last) <= MaxTokens
       \/ Tokens(text, first, last - 1) <= OverlapTokens
    /\ k > 1 => chunks[k - 1][1] <= first /\ chunks[k - 1][2] < last

\* As soon as one search has been answered, the table stays as it is for as long as
\* the process runs: the searches that waited, and those that come later, are
\* answered from the same rows, and none of them indexes the files again.
AnswersFromOneTable ==
  [][(\E c \in Callers : call[c] = "found") /\ up' => UNCHANGED rows]_vars

\* Every search is answered, unless the process dies.
Answered == \A c \in Callers : call[c] = "waiting" ~> call[c] \in {"found", "error"} \/ ~up
=============================================================================
