-------------------------- MODULE MemoryIndex_proofs --------------------------
(***************************************************************************)
(* Proofs about MemoryIndex, for any files and texts and any size of       *)
(* chunks, overlaps and batches.                                           *)
(***************************************************************************)
EXTENDS MemoryIndex, TLAPS

-----------------------------------------------------------------------------
(* Types.                                                                  *)

Stages == Phases \cup {"none"}
Flags  == once \in {"new", "running", "done"} /\ failed \in BOOLEAN /\ phase \in Stages

LEMMA GotoFlags ==
  ASSUME Flags, \/ Fail \/ (once' = "done" /\ phase' = "end" /\ UNCHANGED failed)
                \/ \E w \in Stages : Goto(w)
  PROVE  Flags'
BY DEF Flags, Fail, Goto, Stages, Phases

DiskType ==
  /\ memory \in [Files -> Versions \cup {Gone}] /\ asset \in [Assets -> {"missing", "bad", "good"}]
  /\ rows \subseteq Rows
CallType == call \in [Callers -> {"idle", "waiting", "found", "error"}] /\ up \in BOOLEAN
TempType == temp \in (Downloads \cup {"none"}) \X {"missing", "bad", "good"}
ListType ==
  /\ list \subseteq Files /\ todo \subseteq Files /\ file \in Files \cup {Nowhere}
  /\ read \in [Files -> Versions \cup {Gone}]
ChunkType ==
  /\ text \in Versions \cup {Gone} /\ line \in Nat /\ from \in Nat
  /\ chunks \in Seq(Nat \X Nat) /\ start \in Nat

LEMMA TypeParts ==
  TypeOK <=> DiskType /\ CallType /\ TempType /\ ListType /\ ChunkType /\ Flags
BY DEF TypeOK, DiskType, CallType, TempType, ListType, ChunkType, Flags, Stages

LEMMA TypeInit == Init => TypeOK
<1> SUFFICES ASSUME Init PROVE TypeOK
  OBVIOUS
<1>1. DiskType /\ CallType /\ TempType /\ Flags
  BY DEF Init, DiskType, CallType, TempType, Flags, Stages, Downloads
<1>2. ListType /\ ChunkType
  BY DEF Init, ListType, ChunkType
<1> QED
  BY <1>1, <1>2, TypeParts

\* A search that comes, begins or is answered.
LEMMA CallTypes ==
  ASSUME TypeOK, NEW c \in Callers, Ask(c) \/ Begin(c) \/ Search(c)
  PROVE  TypeOK'
<1>1. CallType' /\ Flags'
  <2>1. CASE Ask(c) \/ Search(c)
    BY <2>1, TypeParts DEF CallType, Flags, Ask, Search
  <2>2. CASE Begin(c)
    BY <2>2, TypeParts DEF CallType, Flags, Begin, Stages, Phases, Assets, Downloads
  <2> QED
    BY <2>1, <2>2
<1>2. UNCHANGED <<disk, temp, index>>
  BY DEF Ask, Begin, Search
<1> QED
  BY <1>1, <1>2, TypeParts
  DEF TypeOK, CallType, Flags, Stages, disk, index, chunker

LEMMA AssetTypes ==
  ASSUME TypeOK, Check \/ Fetch \/ Verify \/ Install \/ Extract \/ Open
  PROVE  TypeOK'
<1>1. UNCHANGED <<memory, rows, call, index, up>>
  BY DEF Check, Fetch, Verify, Install, Extract, Open, disk
<1>2. Flags'
  <2>1. \/ Fail
        \/ \E w \in {"tokenizer", "open", "find", "fetch", "extract", "verify", "install", "library"} : Goto(w)
    BY DEF Check, Fetch, Verify, Install, Extract, Open, After
  <2>2. {"tokenizer", "open", "find", "fetch", "extract", "verify", "install", "library"} \subseteq Stages
    BY DEF Stages, Phases, Assets, Downloads
  <2>3. Flags
    BY TypeParts
  <2> QED
    BY <2>1, <2>2, <2>3, GotoFlags
<1>3. TempType'
  BY TypeParts DEF TempType, Check, Fetch, Verify, Install, Extract, Open
<1>4. asset' \in [Assets -> {"missing", "bad", "good"}]
  BY TypeParts DEF TempType, DiskType, Check, Fetch, Verify, Install, Extract, Open, disk
<1> QED
  BY <1>1, <1>2, <1>3, <1>4, TypeParts DEF TypeOK, Flags, TempType, Stages, index, chunker

LEMMA FindTypes ==
  ASSUME TypeOK, Find \/ Reset \/ Read
  PROVE  TypeOK'
<1>1. UNCHANGED <<memory, asset, call, temp, up>> /\ rows' \subseteq rows
  BY DEF Find, Reset, Read, disk
<1>2. Flags'
  <2>1. \/ Fail \/ (once' = "done" /\ phase' = "end" /\ UNCHANGED failed)
        \/ \E w \in {"reset", "read", "chunk"} : Goto(w)
    BY DEF Find, Reset, Read
  <2>2. {"reset", "read", "chunk"} \subseteq Stages
    BY DEF Stages, Phases
  <2>3. Flags
    BY TypeParts
  <2> QED
    BY <2>1, <2>2, <2>3, GotoFlags
<1>3. ListType' /\ ChunkType'
  <2>1. CASE Find
    BY <2>1, TypeParts DEF Find, ListType, ChunkType, chunker
  <2>2. CASE Reset
    BY <2>2, TypeParts DEF Reset, ListType, ChunkType, chunker, index
  <2>3. CASE Read
    <3>1. CASE UNCHANGED <<file, chunker, read>>
      BY <2>3, <3>1, TypeParts DEF Read, ListType, ChunkType, chunker
    <3>2. CASE \E f \in todo : /\ Exists(f) /\ file' = f /\ text' = memory[f]
                               /\ read' = [read EXCEPT ![f] = memory[f]]
                               /\ line' = 1 /\ from' = 1 /\ chunks' = <<>> /\ start' = 0
      BY <2>3, <3>2, TypeParts DEF Read, ListType, ChunkType, DiskType
    <3> QED
      BY <2>3, <3>1, <3>2 DEF Read
  <2> QED
    BY <2>1, <2>2, <2>3
<1>4. DiskType'
  BY <1>1, TypeParts DEF DiskType
<1> QED
  BY <1>1, <1>2, <1>3, <1>4, TypeParts
  DEF TypeOK, DiskType, CallType, TempType, ListType, ChunkType, Flags, Stages

LEMMA ChunkTypes ==
  ASSUME TypeOK, ChunkLine
  PROVE  TypeOK'
<1>1. UNCHANGED <<disk, call, temp, list, todo, file, read, up>> /\ UNCHANGED <<text, start>>
  BY DEF ChunkLine
<1>2. Flags'
  <2>1. Fail \/ \E w \in {"insert", "chunk"} : Goto(w)
    BY DEF ChunkLine
  <2>2. {"insert", "chunk"} \subseteq Stages /\ Flags
    BY TypeParts DEF Stages, Phases
  <2> QED
    BY <2>1, <2>2, GotoFlags
<1>3. ChunkType
  BY TypeParts
<1>4. ChunkType'
  <2>1. CASE UNCHANGED <<line, from, chunks>>
    BY <1>1, <1>3, <2>1 DEF ChunkType
  <2>2. CASE line' = line + 1 /\ LongLine
    BY <1>1, <1>3, <2>2 DEF ChunkType, LongLine
  <2>3. ASSUME line' = line + 1, NEW first \in Nat, NEW closed \in Seq(Nat \X Nat), Hold(first, closed)
        PROVE  ChunkType'
    <3>1. line \in Nat /\ <<first, line>> \in Nat \X Nat
      BY <1>3 DEF ChunkType
    <3>2. Append(closed, <<first, line>>) \in Seq(Nat \X Nat)
      BY <3>1
    <3> QED
      BY <1>1, <1>3, <2>3, <3>1, <3>2 DEF ChunkType, Hold
  <2>4. CASE line' = line + 1 /\ Hold(from, chunks)
    BY <1>3, <2>3, <2>4 DEF ChunkType
  <2>5. CASE /\ line' = line + 1
             /\ \E first \in from..line : Overlap(first) /\ Hold(first, Append(chunks, <<from, line - 1>>))
             /\ Full
    <3>1. PICK first \in from..line : Hold(first, Append(chunks, <<from, line - 1>>))
      BY <2>5
    <3>2. first \in Nat /\ <<from, line - 1>> \in Nat \X Nat
      BY <1>3, <2>5 DEF ChunkType, Full
    <3>3. Append(chunks, <<from, line - 1>>) \in Seq(Nat \X Nat)
      BY <1>3, <3>2 DEF ChunkType
    <3> QED
      BY <2>3, <2>5, <3>1, <3>2, <3>3
  <2> QED
    BY <2>1, <2>2, <2>4, <2>5 DEF ChunkLine
<1> QED
  BY <1>1, <1>2, <1>4, TypeParts
  DEF TypeOK, DiskType, CallType, TempType, ListType, ChunkType, Flags, Stages, disk

LEMMA InsertTypes ==
  ASSUME TypeOK, file \in Files, text # Gone, Insert
  PROVE  TypeOK'
<1>1. UNCHANGED <<memory, asset, call, temp, list, file, text, line, from, chunks, read, up>>
  BY DEF Insert
<1>2. Flags'
  <2>1. Fail \/ \E w \in {"insert", "read"} : Goto(w)
    BY DEF Insert
  <2>2. {"insert", "read"} \subseteq Stages /\ Flags
    BY TypeParts DEF Stages, Phases
  <2> QED
    BY <2>1, <2>2, GotoFlags
<1>3. \A k \in DOMAIN chunks : Row(k) \in Rows
  <2>1. text \in Versions /\ chunks \in Seq(Nat \X Nat)
    BY TypeParts DEF ChunkType
  <2> QED
    BY <2>1 DEF Row, Rows
<1>4. rows' \subseteq Rows /\ todo' \subseteq Files /\ start' \in Nat
  BY <1>3, TypeParts, ConstantsAssumption DEF Insert, DiskType, ListType, ChunkType
<1> QED
  BY <1>1, <1>2, <1>4, TypeParts
  DEF TypeOK, DiskType, CallType, TempType, ListType, ChunkType, Flags, Stages

LEMMA WorldTypes ==
  ASSUME TypeOK, Crash \/ Restart \/ \E f \in Files : Edit(f)
  PROVE  TypeOK'
<1>1. CASE Crash
  <2>1. DiskType' /\ CallType' /\ TempType' /\ Flags'
    BY <1>1, TypeParts DEF Crash, DiskType, CallType, TempType, Flags, Stages, Downloads, disk
  <2>2. ListType' /\ ChunkType'
    BY <1>1 DEF Crash, ListType, ChunkType
  <2> QED
    BY <2>1, <2>2, TypeParts DEF TypeOK, DiskType, CallType, TempType, ListType, ChunkType, Flags, Stages
<1>2. CASE Restart
  BY <1>2 DEF Restart, TypeOK, disk, index, chunker
<1>3. CASE \E f \in Files : Edit(f)
  BY <1>3 DEF Edit, TypeOK, index, chunker
<1> QED
  BY <1>1, <1>2, <1>3

-----------------------------------------------------------------------------
(* The model and the library.                                              *)

Indexing == {"find", "reset", "read", "chunk", "insert"}

\* The assets that the first search has verified when it comes to a phase.
AssetInv ==
  /\ phase = "tokenizer" \/ (phase \in {"fetch", "verify", "install"} /\ temp[1] = "tokenizer")
       => asset["model"] = "good"
  /\ phase \in {"open", "library", "extract"} => \A a \in Downloads : asset[a] = "good"
  /\ phase \in Indexing \/ Usable => \A a \in Assets : asset[a] = "good"
  /\ phase \in {"fetch", "verify", "install"} => temp[1] \in Downloads
  /\ phase = "install" => temp[2] = "good"
  /\ (once = "new") <=> (phase = "none")
  /\ (once = "done") <=> (phase = "end")

LEMMA AssetStep ==
  ASSUME TypeOK, AssetInv, [Next]_vars
  PROVE  AssetInv'
<1> USE DEF AssetInv, Indexing, Usable, Assets, Downloads
<1>1. CASE Check
  BY <1>1, TypeParts DEF Check, Fail, Goto, After, disk, TempType
<1>2. CASE Fetch
  BY <1>2, TypeParts DEF Fetch, Fail, Goto, disk, TempType
<1>3. CASE Verify
  BY <1>3, TypeParts DEF Verify, Fail, Goto, disk, TempType
<1>4. CASE Install
  <2>1. CASE Fail
    BY <1>4, <2>1 DEF Install, Fail
  <2>2. CASE asset' = [asset EXCEPT ![temp[1]] = temp[2]] /\ Goto(After(temp[1]))
    BY <1>4, <2>2, TypeParts DEF Install, Goto, After, DiskType
  <2> QED
    BY <1>4, <2>1, <2>2 DEF Install
<1>5. CASE Extract
  BY <1>5, TypeParts DEF Extract, Fail, Goto, DiskType
<1>6. CASE Open
  BY <1>6 DEF Open, Fail, Goto, disk
<1>7. CASE Find \/ Reset \/ Read \/ ChunkLine \/ Insert
  <2>1. UNCHANGED <<asset, temp>> /\ phase \in Indexing
    BY <1>7 DEF Find, Reset, Read, ChunkLine, Insert, disk
  <2>2. \/ Fail \/ (once' = "done" /\ phase' = "end" /\ UNCHANGED failed)
        \/ \E w \in Indexing : Goto(w)
    BY <1>7 DEF Find, Reset, Read, ChunkLine, Insert
  <2> QED
    BY <2>1, <2>2 DEF Fail, Goto
<1>8. ASSUME NEW c \in Callers, Ask(c) \/ Search(c) PROVE AssetInv'
  BY <1>8 DEF Ask, Search, disk
<1>9. ASSUME NEW c \in Callers, Begin(c) PROVE AssetInv'
  BY <1>9 DEF Begin, disk
<1>10. CASE Crash
  BY <1>10 DEF Crash
<1>11. CASE Restart \/ (\E f \in Files : Edit(f)) \/ UNCHANGED vars
  BY <1>11 DEF Restart, Edit, vars, disk
<1> QED
  BY <1>1, <1>2, <1>3, <1>4, <1>5, <1>6, <1>7, <1>8, <1>9, <1>10, <1>11 DEF Next, Work

-----------------------------------------------------------------------------
(* The chunks of a file.                                                   *)

HeldIn(s, i) == \E k \in DOMAIN s : s[k][1] <= i /\ i <= s[k][2]
HeldBy(i)    == HeldIn(chunks, i)

\* Every line is in a chunk, is held, or is still to come; a stored chunk is a row.
ChunkInv ==
  /\ phase \in {"chunk", "insert"} => file \in todo /\ text # Gone /\ read[file] = text
  /\ phase = "chunk" =>
       /\ 1 <= from /\ from <= line /\ line <= Len(text) + 1 /\ start = 0
       /\ \A i \in 1..(from - 1) : HeldBy(i)
       /\ line = Len(text) + 1 => \A i \in DOMAIN text : HeldBy(i)
  /\ phase = "insert" =>
       /\ \A i \in DOMAIN text : HeldBy(i)
       /\ \A k \in DOMAIN chunks : k <= start => Row(k) \in rows

LEMMA TextType == TypeOK /\ text # Gone => text \in Seq(Nat) /\ Len(text) >= 1
BY ConstantsAssumption DEF TypeOK, Gone

LEMMA AppendFacts ==
  ASSUME NEW s \in Seq(Nat \X Nat), NEW a \in Nat, NEW b \in Nat
  PROVE  /\ Append(s, <<a, b>>) \in Seq(Nat \X Nat) /\ DOMAIN s = 1..Len(s) /\ Len(s) \in Nat
         /\ DOMAIN Append(s, <<a, b>>) = 1..(Len(s) + 1)
         /\ \A k \in DOMAIN s : Append(s, <<a, b>>)[k] = s[k]
         /\ Append(s, <<a, b>>)[Len(s) + 1] = <<a, b>>
OBVIOUS

LEMMA AppendHeld ==
  ASSUME NEW s \in Seq(Nat \X Nat), NEW a \in Nat, NEW b \in Nat, NEW i \in Nat
  PROVE  HeldIn(Append(s, <<a, b>>), i) <=> HeldIn(s, i) \/ (a <= i /\ i <= b)
<1> DEFINE r == Append(s, <<a, b>>)
<1>1. /\ DOMAIN s = 1..Len(s) /\ Len(s) \in Nat /\ DOMAIN r = 1..(Len(s) + 1)
      /\ (\A k \in DOMAIN s : r[k] = s[k]) /\ r[Len(s) + 1] = <<a, b>>
  BY AppendFacts
<1> HIDE DEF r
<1>2. r[Len(s) + 1][1] = a /\ r[Len(s) + 1][2] = b
  BY <1>1
<1>3. \A k \in DOMAIN r : k \in DOMAIN s \/ k = Len(s) + 1
  BY <1>1
<1>4. ASSUME HeldIn(r, i) PROVE HeldIn(s, i) \/ (a <= i /\ i <= b)
  <2>1. PICK k \in DOMAIN r : r[k][1] <= i /\ i <= r[k][2]
    BY <1>4 DEF HeldIn
  <2> QED
    BY <1>1, <1>2, <1>3, <2>1 DEF HeldIn
<1>5. ASSUME HeldIn(s, i) PROVE HeldIn(r, i)
  <2>1. PICK k \in DOMAIN s : s[k][1] <= i /\ i <= s[k][2]
    BY <1>5 DEF HeldIn
  <2>2. k \in DOMAIN r /\ r[k] = s[k]
    BY <1>1, <2>1
  <2> QED
    BY <2>1, <2>2 DEF HeldIn
<1>6. ASSUME a <= i /\ i <= b PROVE HeldIn(r, i)
  <2>1. Len(s) + 1 \in DOMAIN r
    BY <1>1
  <2> QED
    BY <1>2, <1>6, <2>1 DEF HeldIn
<1> QED
  BY <1>4, <1>5, <1>6 DEF r

\* One more line: all the lines before the ones that are held now, and at the
\* end all lines, are in chunks.
LEMMA HeldStep ==
  ASSUME TypeOK, ChunkInv, phase = "chunk", line <= Len(text), line' = line + 1, UNCHANGED text,
         \/ LongLine
         \/ ~Full /\ Hold(from, chunks)
         \/ Full /\ \E first \in from..line : Overlap(first) /\ Hold(first, Append(chunks, <<from, line - 1>>))
  PROVE  /\ from' \in from..(line + 1)
         /\ \A i \in 1..(from' - 1) : HeldBy(i)'
         /\ line = Len(text) => \A i \in 1..line : HeldBy(i)'
<1>1. /\ line \in Nat /\ from \in Nat /\ chunks \in Seq(Nat \X Nat) /\ text \in Seq(Nat)
      /\ 1 <= from /\ from <= line /\ \A i \in 1..(from - 1) : HeldBy(i)
  BY TextType DEF TypeOK, ChunkInv
<1>2. CASE LongLine
  <2>1. from = line /\ from' = line + 1 /\ chunks' = Append(chunks, <<line, line>>)
    BY <1>2 DEF LongLine
  <2>2. \A i \in Nat : HeldIn(chunks', i) <=> HeldIn(chunks, i) \/ (line <= i /\ i <= line)
    BY <1>1, <2>1, AppendHeld
  <2>3. ASSUME NEW i \in 1..line PROVE HeldIn(chunks', i)
    <3>1. i \in Nat /\ (i = line \/ i \in 1..(from - 1))
      BY <1>1, <2>1
    <3>2. i = line \/ HeldIn(chunks, i)
      BY <1>1, <3>1 DEF HeldBy
    <3> QED
      BY <2>2, <3>1, <3>2
  <2>4. \A i \in 1..line : HeldBy(i)'
    BY <2>3 DEF HeldBy
  <2>5. from' - 1 = line /\ from' \in from..(line + 1)
    BY <1>1, <2>1
  <2> QED
    BY <2>4, <2>5
<1>3. CASE Hold(from, chunks)
  <2>1. from' = from
    BY <1>3 DEF Hold
  <2>2. CASE line = Len(text)
    <3>1. \A i \in Nat : HeldIn(chunks', i) <=> HeldIn(chunks, i) \/ (from <= i /\ i <= line)
      BY <1>1, <1>3, <2>2, AppendHeld DEF Hold
    <3> QED
      BY <1>1, <2>1, <3>1 DEF HeldBy
  <2>3. CASE line # Len(text)
    BY <1>1, <1>3, <2>1, <2>3 DEF HeldBy, Hold
  <2> QED
    BY <2>2, <2>3
<1>4. CASE Full /\ \E first \in from..line : Overlap(first) /\ Hold(first, Append(chunks, <<from, line - 1>>))
  <2> DEFINE s == Append(chunks, <<from, line - 1>>)
  <2>1. PICK first \in from..line : Hold(first, s)
    BY <1>4
  <2>2. from # line /\ line - 1 \in Nat
    BY <1>1, <1>4 DEF Full
  <2>3. s \in Seq(Nat \X Nat) /\ first \in Nat
    BY <1>1, <2>2, AppendFacts
  <2>4. \A i \in Nat : HeldIn(s, i) <=> HeldIn(chunks, i) \/ (from <= i /\ i <= line - 1)
    BY <1>1, <2>2, AppendHeld
  <2> HIDE DEF s
  <2>5. from' = first
    BY <2>1 DEF Hold
  <2>6. CASE line = Len(text)
    <3>1. chunks' = Append(s, <<first, line>>)
      BY <2>1, <2>6 DEF Hold
    <3>2. \A i \in Nat : HeldIn(chunks', i) <=> HeldIn(s, i) \/ (first <= i /\ i <= line)
      BY <1>1, <2>3, <3>1, AppendHeld
    <3> QED
      BY <1>1, <2>4, <2>5, <3>2 DEF HeldBy
  <2>7. CASE line # Len(text)
    <3>1. chunks' = s
      BY <2>1, <2>7 DEF Hold
    <3> QED
      BY <1>1, <2>4, <2>5, <2>7, <3>1 DEF HeldBy
  <2> QED
    BY <2>6, <2>7
<1> QED
  BY <1>2, <1>3, <1>4

\* What the first search knows about its file changes with its own steps only.
LEMMA ChunkStep ==
  ASSUME TypeOK, ChunkInv, [Next]_vars
  PROVE  ChunkInv'
<1>1. CASE Check \/ Fetch \/ Verify \/ Install \/ Extract \/ Open
  <2>1. phase' \notin {"chunk", "insert"}
    BY <1>1 DEF Check, Fetch, Verify, Install, Extract, Open, Fail, Goto, After
  <2> QED
    BY <2>1 DEF ChunkInv
<1>2. CASE Find \/ Reset
  <2>1. phase' \notin {"chunk", "insert"}
    BY <1>2 DEF Find, Reset, Fail, Goto
  <2> QED
    BY <2>1 DEF ChunkInv
<1>3. CASE Read
  <2>1. CASE phase' \notin {"chunk", "insert"}
    BY <2>1 DEF ChunkInv
  <2>2. CASE phase' \in {"chunk", "insert"}
    <3>1. PICK f \in todo : /\ Exists(f) /\ file' = f /\ text' = memory[f]
                            /\ read' = [read EXCEPT ![f] = memory[f]]
                            /\ line' = 1 /\ from' = 1 /\ chunks' = <<>> /\ start' = 0 /\ Goto("chunk")
      BY <1>3, <2>2 DEF Read, Fail
    <3>2. f \in Files /\ text' # Gone /\ todo' = todo /\ read'[f] = text'
      BY <1>3, <3>1 DEF TypeOK, Read, Exists
    <3>3. text' \in Versions
      BY <3>1, <3>2 DEF TypeOK, Exists
    <3>4. text' \in Seq(Nat) /\ Len(text') >= 1
      BY <3>3, ConstantsAssumption DEF Gone
    <3> QED
      BY <3>1, <3>2, <3>4 DEF ChunkInv, Goto
  <2> QED
    BY <2>1, <2>2
<1>4. CASE ChunkLine
  <2>1. UNCHANGED <<rows, todo, file, text, start, read>> /\ phase = "chunk"
    BY <1>4 DEF ChunkLine, disk
  <2>2. file \in todo /\ text # Gone /\ read[file] = text /\ start = 0 /\ line <= Len(text) + 1
    BY <2>1 DEF ChunkInv
  <2>3. CASE Fail
    BY <2>3 DEF Fail, ChunkInv
  <2>4. CASE line > Len(text) /\ Goto("insert") /\ UNCHANGED <<line, from, chunks>>
    <3>1. line = Len(text) + 1 /\ chunks \in Seq(Nat \X Nat)
      BY <2>2, <2>4, TextType DEF TypeOK
    <3>2. \A i \in DOMAIN text : HeldBy(i)
      BY <2>1, <3>1 DEF ChunkInv
    <3>3. \A k \in DOMAIN chunks : ~(k <= start)
      BY <2>2, <3>1
    <3> QED
      BY <2>1, <2>2, <2>4, <3>2, <3>3 DEF ChunkInv, Goto, HeldBy
  <2>5. CASE line <= Len(text) /\ Goto("chunk") /\ ~Fail /\ ~Goto("insert")
    <3>1. line' = line + 1 /\ UNCHANGED text
          /\ \/ LongLine
             \/ ~Full /\ Hold(from, chunks)
             \/ Full /\ \E first \in from..line : Overlap(first) /\ Hold(first, Append(chunks, <<from, line - 1>>))
      BY <1>4, <2>5 DEF ChunkLine
    <3>2. /\ from' \in from..(line + 1)
          /\ \A i \in 1..(from' - 1) : HeldBy(i)'
          /\ line = Len(text) => \A i \in 1..line : HeldBy(i)'
      BY <2>1, <2>5, <3>1, HeldStep
    <3>3. text \in Seq(Nat) /\ line \in Nat /\ 1 <= from /\ from \in Nat
      BY <2>1, <2>2, TextType DEF TypeOK, ChunkInv
    <3>4. /\ 1 <= from' /\ from' <= line' /\ line' <= Len(text') + 1 /\ start' = 0
          /\ line' = Len(text') + 1 => \A i \in DOMAIN text' : HeldBy(i)'
      <4>1. text' = text /\ start' = 0 /\ line' = line + 1 /\ DOMAIN text = 1..Len(text) /\ Len(text) \in Nat
        BY <2>1, <2>2, <3>1, <3>3
      <4>0. /\ line' = line + 1 /\ line \in Nat /\ Len(text) \in Nat /\ line <= Len(text)
            /\ from \in Nat /\ 1 <= from /\ from' \in from..(line + 1)
        BY <2>5, <3>2, <3>3, <4>1
      <4>2. 1 <= from' /\ from' <= line' /\ line' <= Len(text) + 1
        BY <4>0
      <4>3. line' = Len(text) + 1 => \A i \in DOMAIN text : HeldBy(i)'
        <5>1. line' = Len(text) + 1 => line = Len(text)
          BY <4>0
        <5> QED
          BY <3>2, <4>1, <5>1
      <4> QED
        BY <4>1, <4>2, <4>3
    <3> QED
      BY <2>1, <2>2, <2>5, <3>2, <3>4 DEF ChunkInv, Goto
  <2> QED
    BY <1>4, <2>3, <2>4, <2>5 DEF ChunkLine, Fail, Goto
<1>5. CASE Insert
  <2>1. UNCHANGED <<file, text, chunks, read>> /\ phase = "insert"
    BY <1>5 DEF Insert
  <2>2. CASE Fail
    BY <2>2 DEF Fail, ChunkInv
  <2>3. CASE Goto("read")
    BY <2>3 DEF Goto, ChunkInv
  <2>4. CASE /\ start < Len(chunks) /\ Goto("insert") /\ UNCHANGED todo
             /\ start' = start + BatchSize
             /\ rows' = rows \cup {Row(k) : k \in {i \in DOMAIN chunks : start < i /\ i <= start'}}
    <3>1. \A k \in DOMAIN chunks : Row(k)' = Row(k)
      BY <2>1 DEF Row
    <3>2. start \in Nat /\ start' \in Nat /\ DOMAIN chunks \subseteq Nat
      BY <2>4, ConstantsAssumption DEF TypeOK
    <3>3. ASSUME NEW k \in DOMAIN chunks, k <= start' PROVE Row(k) \in rows'
      <4>1. CASE k <= start
        BY <2>1, <2>4, <4>1 DEF ChunkInv
      <4>2. CASE start < k
        BY <2>4, <3>3, <4>2
      <4> QED
        BY <3>2, <4>1, <4>2
    <3> QED
      BY <2>1, <2>4, <3>1, <3>3 DEF ChunkInv, Goto, HeldBy
  <2> QED
    BY <1>5, <2>2, <2>3, <2>4 DEF Insert
<1>6. ASSUME NEW c \in Callers, Ask(c) \/ Begin(c) \/ Search(c) PROVE ChunkInv'
  <2>1. CASE Begin(c)
    BY <2>1 DEF Begin, ChunkInv
  <2>2. CASE Ask(c) \/ Search(c)
    BY <2>2 DEF Ask, Search, ChunkInv, HeldBy, Row, index, chunker, disk
  <2> QED
    BY <1>6, <2>1, <2>2
<1>7. CASE Crash
  BY <1>7 DEF Crash, ChunkInv
<1>8. CASE Restart \/ (\E f \in Files : Edit(f)) \/ UNCHANGED vars
  BY <1>8 DEF Restart, Edit, vars, ChunkInv, HeldBy, Row, index, chunker, disk
<1> QED
  BY <1>1, <1>2, <1>3, <1>4, <1>5, <1>6, <1>7, <1>8 DEF Next, Work

-----------------------------------------------------------------------------
(* The table.                                                              *)

Building == phase \in {"read", "chunk", "insert"} \/ (Usable /\ list # {})

\* While it is built, the table has all of the files that are done, and of the
\* others only rows of the one that is being stored.
TableInv ==
  /\ todo \subseteq list
  /\ phase = "reset" => todo = list
  /\ phase \notin Indexing \/ phase = "find" => (once = "new" => list = {}) /\ (Usable => todo = {})
  /\ Building =>
       /\ \A f \in list \ todo : Covered(f)
       /\ \A r \in rows : /\ r.file \in list /\ r.text = read[r.file]
                          /\ r.file \in todo => phase = "insert" /\ r.file = file

\* The file has all its rows once its last batch is stored.
LEMMA StoredIsCovered ==
  ASSUME TypeOK, ChunkInv, phase = "insert", start >= Len(chunks)
  PROVE  Covered(file)
<1>1. /\ read[file] = text /\ \A i \in DOMAIN text : HeldBy(i)
      /\ \A k \in DOMAIN chunks : k <= start => Row(k) \in rows
  BY DEF ChunkInv
<1>2. \A k \in DOMAIN chunks : k <= start
  BY DEF TypeOK
<1> SUFFICES ASSUME NEW i \in DOMAIN text
             PROVE  \E r \in rows : r.file = file /\ r.text = text /\ r.first <= i /\ i <= r.last
  BY <1>1 DEF Covered
<1>3. PICK k \in DOMAIN chunks : chunks[k][1] <= i /\ i <= chunks[k][2]
  BY <1>1 DEF HeldBy, HeldIn
<1>4. Row(k) \in rows
  BY <1>1, <1>2
<1> QED
  BY <1>3, <1>4 DEF Row

LEMMA TableStep ==
  ASSUME TypeOK, AssetInv, ChunkInv, TableInv, [Next]_vars
  PROVE  TableInv'
<1>1. CASE Check \/ Fetch \/ Verify \/ Install \/ Extract \/ Open
  <2>1. UNCHANGED <<rows, index>> /\ phase \notin Indexing \cup {"none", "end"}
    BY <1>1 DEF Check, Fetch, Verify, Install, Extract, Open, Indexing, disk, Assets, Downloads
  <2>2. once' # "new" /\ ~Usable' /\ phase' \notin {"read", "chunk", "insert", "reset"}
    BY <1>1, <2>1 DEF Check, Fetch, Verify, Install, Extract, Open, Fail, Goto, After, AssetInv, Usable
  <2> QED
    BY <2>1, <2>2 DEF TableInv, Building, index
<1>2. CASE Fail /\ UNCHANGED <<rows, list, todo>>
  BY <1>2 DEF Fail, TableInv, Building, Usable
<1>3. CASE Find /\ ~(Fail /\ UNCHANGED <<rows, list, todo>>)
  <2>1. list' = {f \in Files : Exists(f)} /\ todo' = list' /\ phase = "find"
    BY <1>3 DEF Find, disk
  <2>2. CASE list' = {} /\ once' = "done" /\ phase' = "end"
    BY <2>1, <2>2 DEF TableInv, Building, Usable
  <2>3. CASE Goto("reset")
    BY <2>1, <2>3 DEF TableInv, Building, Usable, Goto, Indexing, AssetInv
  <2> QED
    BY <1>3, <2>2, <2>3 DEF Find, disk
<1>4. CASE Reset /\ ~Fail
  <2>1. rows' = {} /\ todo' = todo /\ list' = list /\ todo = list /\ Goto("read")
    BY <1>4 DEF Reset, index, TableInv
  <2> QED
    BY <2>1 DEF TableInv, Goto, Indexing
<1>5. CASE Read /\ ~Fail
  <2>1. UNCHANGED <<rows, list, todo>> /\ phase = "read" /\ ~Usable /\ once # "new"
    BY <1>5 DEF Read, disk, AssetInv, Usable
  <2>2. /\ \A f \in list \ todo : Covered(f)
        /\ \A r \in rows : r.file \in list /\ r.text = read[r.file] /\ r.file \notin todo
    BY <2>1 DEF TableInv, Building
  <2>3. CASE todo = {} /\ once' = "done" /\ phase' = "end" /\ UNCHANGED read
    BY <2>1, <2>2, <2>3 DEF TableInv, Building, Covered
  <2>4. CASE \E f \in todo : read' = [read EXCEPT ![f] = memory[f]] /\ Goto("chunk")
    <3>1. PICK f \in todo : read' = [read EXCEPT ![f] = memory[f]] /\ Goto("chunk")
      BY <2>4
    <3>2. \A g \in Files : g # f => read'[g] = read[g]
      BY <3>1 DEF TypeOK
    <3>3. list \subseteq Files
      BY DEF TypeOK
    <3>4. \A g \in list \ todo : Covered(g)'
      BY <2>1, <2>2, <3>1, <3>2, <3>3 DEF Covered
    <3>5. \A r \in rows' : r.file \in list' /\ r.text = read'[r.file] /\ r.file \notin todo'
      BY <2>1, <2>2, <3>1, <3>2, <3>3
    <3> QED
      BY <2>1, <3>1, <3>4, <3>5 DEF TableInv, Goto, Indexing
  <2> QED
    BY <1>5, <2>3, <2>4 DEF Read
<1>6. CASE ChunkLine /\ ~Fail
  <2>1. /\ UNCHANGED <<rows, list, todo, file, read>> /\ phase = "chunk"
        /\ Goto("insert") \/ Goto("chunk")
    BY <1>6 DEF ChunkLine, disk
  <2> QED
    BY <2>1 DEF TableInv, Building, Goto, Indexing, Covered
<1>7. CASE Insert /\ ~Fail
  <2>1. UNCHANGED <<list, file, text, chunks, read>> /\ phase = "insert"
    BY <1>7 DEF Insert
  <2>2. /\ \A f \in list \ todo : Covered(f)
        /\ \A r \in rows : r.file \in list /\ r.text = read[r.file] /\ (r.file \in todo => r.file = file)
        /\ todo \subseteq list /\ file \in todo /\ read[file] = text
    BY <2>1 DEF TableInv, Building, ChunkInv
  <2>3. CASE /\ Goto("insert") /\ UNCHANGED todo
             /\ rows' = rows \cup {Row(k) : k \in {i \in DOMAIN chunks : start < i /\ i <= start'}}
    <3>1. \A r \in rows' : r.file \in list /\ r.text = read[r.file] /\ (r.file \in todo => r.file = file)
      BY <2>2, <2>3 DEF Row
    <3>2. \A f \in list \ todo : Covered(f)'
      BY <2>1, <2>2, <2>3 DEF Covered
    <3> QED
      BY <2>1, <2>2, <2>3, <3>1, <3>2 DEF TableInv, Goto, Indexing
  <2>4. CASE start >= Len(chunks) /\ Goto("read") /\ todo' = todo \ {file} /\ UNCHANGED rows
    <3>1. Covered(file)
      BY <2>1, <2>4, StoredIsCovered
    <3>2. \A f \in list' \ todo' : Covered(f)'
      BY <2>1, <2>2, <2>4, <3>1 DEF Covered
    <3> QED
      BY <2>1, <2>2, <2>4, <3>2 DEF TableInv, Goto, Indexing
  <2> QED
    BY <1>7, <2>3, <2>4 DEF Insert
<1>8. ASSUME NEW c \in Callers, Ask(c) \/ Begin(c) \/ Search(c) PROVE TableInv'
  <2>1. CASE Begin(c)
    BY <2>1 DEF Begin, TableInv, Building, AssetInv, Usable, index, disk, Indexing
  <2>2. CASE Ask(c) \/ Search(c)
    BY <2>2 DEF Ask, Search, TableInv, Building, Covered, Usable, index, disk
  <2> QED
    BY <1>8, <2>1, <2>2
<1>9. CASE Crash
  BY <1>9 DEF Crash, TableInv, Building, Usable
<1>10. CASE Restart \/ (\E f \in Files : Edit(f)) \/ UNCHANGED vars
  BY <1>10 DEF Restart, Edit, vars, TableInv, Building, Covered, Usable, index, disk
<1>11. (Reset \/ Read \/ ChunkLine \/ Insert) /\ Fail => UNCHANGED <<rows, list, todo>>
  BY DEF Reset, Read, ChunkLine, Insert, Fail, Goto, index, disk
<1> QED
  BY <1>1, <1>2, <1>3, <1>4, <1>5, <1>6, <1>7, <1>8, <1>9, <1>10, <1>11 DEF Next, Work

-----------------------------------------------------------------------------
(* The size of the chunks.                                                 *)

\* A run of lines that ChunkBounds allows, in a text t.
Bounded(t, a, b) ==
  a = b \/ Tokens(t, a, b) <= MaxTokens \/ Tokens(t, a, b - 1) <= OverlapTokens

AllBounded(s, t) == \A k \in DOMAIN s : Bounded(t, s[k][1], s[k][2])
Ordered(s)       == \A k \in DOMAIN s : k > 1 => s[k - 1][1] <= s[k][1] /\ s[k - 1][2] < s[k][2]
Before(s, a, b)  == \A k \in DOMAIN s : s[k][1] <= a /\ s[k][2] < b

\* The lines that are held, but for the last, are within the bounds as well.
BoundsInv ==
  /\ AllBounded(chunks, text) /\ Ordered(chunks)
  /\ phase = "chunk" =>
       /\ Before(chunks, from, line)
       /\ from < line => Bounded(text, from, line - 1)
       /\ from < line /\ line <= Len(text) => Before(chunks, from, line - 1)

\* One more chunk, after and no smaller than the others.
LEMMA AppendBounds ==
  ASSUME NEW s \in Seq(Nat \X Nat), NEW a \in Nat, NEW b \in Nat, Ordered(s), Before(s, a, b),
         NEW t, AllBounded(s, t), Bounded(t, a, b)
  PROVE  /\ Ordered(Append(s, <<a, b>>)) /\ Before(Append(s, <<a, b>>), a, b + 1)
         /\ AllBounded(Append(s, <<a, b>>), t)
<1> DEFINE r == Append(s, <<a, b>>)
<1>1. /\ DOMAIN s = 1..Len(s) /\ Len(s) \in Nat /\ DOMAIN r = 1..(Len(s) + 1)
      /\ (\A k \in DOMAIN s : r[k] = s[k]) /\ r[Len(s) + 1] = <<a, b>>
  BY AppendFacts
<1> HIDE DEF r
<1>2. r[Len(s) + 1][1] = a /\ r[Len(s) + 1][2] = b
  BY <1>1
<1>3. \A k \in DOMAIN r : k \in DOMAIN s \/ k = Len(s) + 1
  BY <1>1
<1>4. \A k \in DOMAIN s : s[k][1] \in Nat /\ s[k][2] \in Nat /\ s[k][1] <= a /\ s[k][2] < b
  BY DEF Before
<1>5. ASSUME NEW k \in DOMAIN r, k > 1
      PROVE  r[k - 1][1] <= r[k][1] /\ r[k - 1][2] < r[k][2]
  <2>1. k - 1 \in DOMAIN s /\ r[k - 1] = s[k - 1]
    BY <1>1, <1>5
  <2>2. CASE k \in DOMAIN s
    BY <1>1, <1>5, <2>1, <2>2 DEF Ordered
  <2>3. CASE k = Len(s) + 1
    BY <1>2, <1>4, <2>1, <2>3
  <2> QED
    BY <1>3, <2>2, <2>3
<1>6. ASSUME NEW k \in DOMAIN r PROVE r[k][1] <= a /\ r[k][2] < b + 1 /\ Bounded(t, r[k][1], r[k][2])
  BY <1>1, <1>2, <1>3, <1>4 DEF AllBounded
<1> QED
  BY <1>5, <1>6 DEF r, Ordered, Before, AllBounded

LEMMA BeforeMore ==
  ASSUME NEW s \in Seq(Nat \X Nat), NEW a \in Nat, NEW b \in Nat, NEW c \in Nat, NEW d \in Nat,
         a <= c, b <= d, Before(s, a, b)
  PROVE  Before(s, c, d)
<1>1. \A k \in DOMAIN s : s[k][1] \in Nat /\ s[k][2] \in Nat
  OBVIOUS
<1> QED
  BY <1>1 DEF Before

\* The last line closes the chunk that is held; another line does not.
LEMMA HoldBounds ==
  ASSUME TypeOK, UNCHANGED text, line <= Len(text), Len(text) \in Nat, line' = line + 1,
         NEW first \in Nat, first <= line, NEW s \in Seq(Nat \X Nat), Hold(first, s),
         AllBounded(s, text), Ordered(s), Before(s, first, line), Bounded(text, first, line)
  PROVE  BoundsInv'
<1>1. line \in Nat /\ from' = first /\ text' = text /\ line' - 1 = line
  BY DEF TypeOK, Hold
<1>2. CASE line = Len(text)
  <2>1. chunks' = Append(s, <<first, line>>)
    BY <1>2 DEF Hold
  <2>2. Ordered(chunks') /\ Before(chunks', first, line + 1) /\ AllBounded(chunks', text)
    BY <1>1, <2>1, AppendBounds
  <2>3. ~(line' <= Len(text'))
    BY <1>1, <1>2
  <2> QED
    BY <1>1, <2>2, <2>3 DEF BoundsInv
<1>3. CASE line # Len(text)
  <2>1. chunks' = s
    BY <1>3 DEF Hold
  <2>2. Before(s, first, line + 1)
    BY <1>1, BeforeMore
  <2> QED
    BY <1>1, <2>1, <2>2 DEF BoundsInv
<1> QED
  BY <1>2, <1>3

LEMMA BoundsStep ==
  ASSUME TypeOK, ChunkInv, BoundsInv, [Next]_vars
  PROVE  BoundsInv'
<1>1. CASE UNCHANGED <<text, chunks>> /\ phase' # "chunk"
  BY <1>1 DEF BoundsInv
<1>2. CASE UNCHANGED <<text, chunks, line, from, phase>>
  BY <1>2 DEF BoundsInv
<1>3. CASE Check \/ Fetch \/ Verify \/ Install \/ Extract \/ Open \/ Find \/ Reset \/ Insert
  <2>1. UNCHANGED <<text, chunks>>
    BY <1>3 DEF Check, Fetch, Verify, Install, Extract, Open, Find, Reset, Insert, index, chunker
  <2>2. phase' # "chunk"
    BY <1>3 DEF Check, Fetch, Verify, Install, Extract, Open, Find, Reset, Insert, Goto, Fail, After
  <2> QED
    BY <1>1, <2>1, <2>2
<1>4. CASE Read
  <2>1. CASE UNCHANGED <<text, chunks>> /\ phase' # "chunk"
    BY <1>1, <2>1
  <2>2. CASE chunks' = <<>> /\ line' = 1 /\ from' = 1
    BY <2>2 DEF BoundsInv, AllBounded, Ordered, Before
  <2> QED
    BY <1>4, <2>1, <2>2 DEF Read, Fail, chunker
<1>5. CASE ChunkLine
  <2>1. UNCHANGED text /\ phase = "chunk" /\ line \in Nat /\ from \in Nat /\ chunks \in Seq(Nat \X Nat)
    BY <1>5 DEF ChunkLine, TypeOK
  <2>2. /\ 1 <= from /\ from <= line /\ Len(text) \in Nat /\ AllBounded(chunks, text) /\ Ordered(chunks)
        /\ Before(chunks, from, line)
        /\ from < line => Bounded(text, from, line - 1)
        /\ from < line /\ line <= Len(text) => Before(chunks, from, line - 1)
    BY <2>1, TextType DEF ChunkInv, BoundsInv
  <2>3. CASE UNCHANGED <<line, from, chunks>> /\ phase' # "chunk"
    BY <1>1, <2>1, <2>3
  <2>4. CASE line <= Len(text) /\ line' = line + 1 /\ LongLine
    <3>1. from = line /\ from' = line + 1 /\ chunks' = Append(chunks, <<line, line>>)
      BY <2>4 DEF LongLine
    <3>2. Bounded(text, line, line)
      BY DEF Bounded
    <3>3. Ordered(chunks') /\ Before(chunks', line, line + 1) /\ AllBounded(chunks', text)
      BY <2>1, <2>2, <3>1, <3>2, AppendBounds
    <3>4. chunks' \in Seq(Nat \X Nat)
      BY <2>1, <3>1, AppendFacts
    <3>5. Before(chunks', line + 1, line + 1)
      BY <2>1, <3>3, <3>4, BeforeMore
    <3>6. ~(from' < line')
      BY <2>1, <2>4, <3>1
    <3> QED
      BY <2>1, <2>4, <3>1, <3>3, <3>5, <3>6 DEF BoundsInv
  <2>5. CASE line <= Len(text) /\ line' = line + 1 /\ ~Full /\ Hold(from, chunks)
    <3>1. Bounded(text, from, line)
      BY <2>5 DEF Full, Bounded
    <3> QED
      BY <2>1, <2>2, <2>5, <3>1, HoldBounds
  <2>6. CASE /\ line <= Len(text) /\ line' = line + 1 /\ Full
             /\ \E first \in from..line : Overlap(first) /\ Hold(first, Append(chunks, <<from, line - 1>>))
    <3> DEFINE s == Append(chunks, <<from, line - 1>>)
    <3>1. PICK first \in from..line : Overlap(first) /\ Hold(first, s)
      BY <2>6
    <3>2. from < line /\ line - 1 \in Nat /\ first \in Nat /\ from <= first /\ first <= line
      BY <2>1, <2>2, <2>6 DEF Full
    <3>3. Bounded(text, from, line - 1) /\ Before(chunks, from, line - 1)
      BY <2>2, <2>6, <3>2
    <3>4. Ordered(s) /\ Before(s, from, line - 1 + 1) /\ AllBounded(s, text)
      BY <2>1, <2>2, <3>2, <3>3, AppendBounds
    <3>5. s \in Seq(Nat \X Nat) /\ line - 1 + 1 = line
      BY <2>1, <3>2, AppendFacts
    <3> HIDE DEF s
    <3>6. Before(s, first, line)
      BY <2>1, <3>2, <3>4, <3>5, BeforeMore
    <3>7. Bounded(text, first, line)
      BY <3>1 DEF Overlap, Bounded
    <3> QED
      BY <2>1, <2>2, <2>6, <3>1, <3>2, <3>4, <3>5, <3>6, <3>7, HoldBounds
  <2> QED
    BY <1>5, <2>3, <2>4, <2>5, <2>6 DEF ChunkLine, Fail, Goto
<1>6. ASSUME NEW c \in Callers, Ask(c) \/ Begin(c) \/ Search(c) PROVE BoundsInv'
  <2>1. CASE Begin(c)
    BY <1>1, <2>1 DEF Begin, index, chunker
  <2>2. CASE Ask(c) \/ Search(c)
    BY <1>2, <2>2 DEF Ask, Search, index, chunker
  <2> QED
    BY <1>6, <2>1, <2>2
<1>7. CASE Crash
  BY <1>7 DEF Crash, BoundsInv, AllBounded, Ordered
<1>8. CASE Restart \/ (\E f \in Files : Edit(f)) \/ UNCHANGED vars
  BY <1>2, <1>8 DEF Restart, Edit, vars, index, chunker
<1> QED
  BY <1>3, <1>4, <1>5, <1>6, <1>7, <1>8 DEF Next, Work

-----------------------------------------------------------------------------
(* The theorems.                                                           *)

BaseInv == TypeOK /\ AssetInv /\ ChunkInv /\ TableInv

LEMMA BaseInit == Init => BaseInv /\ BoundsInv
<1> SUFFICES ASSUME Init PROVE BaseInv /\ BoundsInv
  OBVIOUS
<1>1. TypeOK
  BY TypeInit
<1>2. AssetInv /\ ChunkInv
  BY DEF Init, AssetInv, ChunkInv, Indexing, Usable
<1>3. TableInv
  BY DEF Init, TableInv, Building, Usable
<1>4. BoundsInv
  BY DEF Init, BoundsInv, AllBounded, Ordered
<1> QED
  BY <1>1, <1>2, <1>3, <1>4 DEF BaseInv

LEMMA TypeStep ==
  ASSUME TypeOK, ChunkInv, [Next]_vars
  PROVE  TypeOK'
<1>1. CASE Insert
  <2>1. file \in Files /\ text # Gone
    BY <1>1 DEF Insert, ChunkInv, TypeOK
  <2> QED
    BY <1>1, <2>1, InsertTypes
<1>2. CASE UNCHANGED vars
  BY <1>2 DEF vars, TypeOK, disk, index, chunker
<1> QED
  BY <1>1, <1>2, CallTypes, AssetTypes, FindTypes, ChunkTypes, WorldTypes DEF Next, Work

LEMMA BaseNext == BaseInv /\ [Next]_vars => BaseInv'
BY TypeStep, AssetStep, ChunkStep, TableStep DEF BaseInv

\* Every variable keeps its type, for any files, texts and sizes.
THEOREM TypeCorrect == Spec => []TypeOK
<1>1. BaseInv => TypeOK
  BY DEF BaseInv
<1> QED
  BY <1>1, BaseInit, BaseNext, PTL DEF Spec

\* Nothing is loaded from the cache that has not been verified, whatever was in
\* it when the process began.
THEOREM Verified == Spec => []AssetsVerified
<1>1. BaseInv => AssetsVerified
  BY DEF BaseInv, AssetInv, AssetsVerified, Indexing
<1> QED
  BY <1>1, BaseInit, BaseNext, PTL DEF Spec

\* The table that searches are answered from has every line of every file that
\* was found, and no row of an older text.
THEOREM Complete == Spec => []IndexComplete
<1>1. BaseInv => IndexComplete
  <2> SUFFICES ASSUME BaseInv, Usable, list # {}
               PROVE  /\ \A f \in list : Covered(f)
                      /\ \A r \in rows : r.file \in list /\ r.text = read[r.file]
    BY DEF IndexComplete
  <2>1. phase = "end" /\ Building
    BY DEF BaseInv, AssetInv, Usable, Building
  <2>2. todo = {}
    BY <2>1 DEF BaseInv, TableInv, Indexing
  <2> QED
    BY <2>1, <2>2 DEF BaseInv, TableInv
<1> QED
  BY <1>1, BaseInit, BaseNext, PTL DEF Spec

\* The chunks of any text keep their bounds and their order.
THEOREM Chunked == Spec => []ChunkBounds
<1>1. BaseInv /\ BoundsInv /\ [Next]_vars => BaseInv' /\ BoundsInv'
  BY BaseNext, BoundsStep DEF BaseInv
<1>2. BoundsInv => ChunkBounds
  BY DEF BoundsInv, AllBounded, Ordered, Bounded, ChunkBounds
<1> QED
  BY <1>1, <1>2, BaseInit, PTL DEF Spec

\* Whoever has been answered, the first search has ended.
FoundInv == \A c \in Callers : call[c] = "found" => once = "done"

LEMMA FoundStep ==
  ASSUME BaseInv, FoundInv, [Next]_vars
  PROVE  FoundInv'
<1> SUFFICES ASSUME NEW c \in Callers, call'[c] = "found" PROVE once' = "done"
  BY DEF FoundInv
<1> USE DEF BaseInv, AssetInv, Goto
<1>1. CASE Work
  <2>1. phase # "end" /\ UNCHANGED call
    BY <1>1 DEF Work, Check, Assets, Downloads, Fetch, Verify, Install, Extract, Open, Find, Reset,
                Read, ChunkLine, Insert
  <2> QED
    BY <2>1 DEF FoundInv
<1>2. CASE Crash
  BY <1>2 DEF Crash
<1>3. ASSUME NEW d \in Callers, Ask(d) \/ Begin(d) \/ Search(d) PROVE once' = "done"
  BY <1>3 DEF Ask, Begin, Search, FoundInv, TypeOK
<1>4. CASE Restart \/ (\E f \in Files : Edit(f)) \/ UNCHANGED vars
  BY <1>4 DEF Restart, Edit, vars, FoundInv
<1> QED
  BY <1>1, <1>2, <1>3, <1>4 DEF Next

\* Once a search has been answered, the table stays as it is until the process ends:
\* no search indexes the files under the answers of the others.
THEOREM OneTable == Spec => AnswersFromOneTable
<1> DEFINE Same == (\E c \in Callers : call[c] = "found") /\ up' => UNCHANGED rows
<1>1. Init => FoundInv
  BY DEF Init, FoundInv
<1>2. BaseInv /\ FoundInv /\ [Next]_vars => [Same]_vars
  <2> SUFFICES ASSUME BaseInv, FoundInv, Next, NEW c \in Callers, call[c] = "found", up'
               PROVE  UNCHANGED rows
    OBVIOUS
  <2>1. phase = "end"
    BY DEF BaseInv, AssetInv, FoundInv
  <2>2. ~Work
    BY <2>1 DEF Work, Check, Assets, Downloads, Fetch, Verify, Install, Extract, Open, Find, Reset,
                Read, ChunkLine, Insert
  <2>3. ~Crash
    BY DEF Crash
  <2> QED
    BY <2>2, <2>3 DEF Next, Ask, Begin, Search, Restart, Edit, disk
<1>3. BaseInv /\ [Next]_vars => BaseInv'
  BY BaseNext
<1>4. BaseInv /\ FoundInv /\ [Next]_vars => FoundInv'
  BY FoundStep
<1>5. Init => BaseInv
  BY BaseInit
<1> QED
  BY <1>1, <1>2, <1>3, <1>4, <1>5, PTL DEF Spec, AnswersFromOneTable
=============================================================================
