----------------------------- MODULE LogTail -----------------------------
(***************************************************************************)
(* The file tailer of the log collector: a log file a program appends to   *)
(* and rotates, and the reader that goes over it pass after pass, from the *)
(* start each time, putting lines together to records when a multi-line    *)
(* pattern is configured.                                                  *)
(***************************************************************************)
EXTENDS Integers, FiniteSets, Sequences

CONSTANTS MaxBuf,        \* lines of a file a pass reads, counted from its end
          MaxLines,
          MaxRotations,  \* rotations and truncations, together
          MaxTailDrops

ASSUME TailAssumption ==
    /\ MaxBuf \in Nat \ {0}
    /\ {MaxLines, MaxRotations, MaxTailDrops} \subseteq Nat

VARIABLES
    multiline,  \* a pattern is configured
    files,      \* the files that had the path, the last one has it: their complete lines
    part,       \* the line being written: "none", "short", or "long" (maxLine or more)
    truncations,
    reading,    \* readLoop runs
    inode,      \* the file it reads, an index of files
    offset,     \* the lines of it that are behind the reader
    cutLine,    \* the pass began inside a line, which is read next
    line,       \* the builder: the lines of the record being put together
    told,       \* the record emitted last
    tailDrops

tailVars == <<multiline, files, part, truncations, reading, inode, offset,
              cutLine, line, told, tailDrops>>

TailInit ==
    /\ multiline \in BOOLEAN
    /\ files = << <<>> >> /\ part = "none" /\ truncations = 0
    /\ reading = FALSE /\ inode = 1 /\ offset = 0 /\ cutLine = FALSE
    /\ line = <<>> /\ told = <<>> /\ tailDrops = 0

Lines == Cardinality(UNION {{k} \X DOMAIN files[k] : k \in DOMAIN files})

(* The program that logs (external): a line is begun and ended; head says  *)
(* whether it matches the pattern.  The file is renamed and made anew, or  *)
(* emptied in place.                                                       *)
BeginLine ==
    /\ part = "none" /\ Lines < MaxLines
    /\ part' \in {"short", "long"}
    /\ UNCHANGED <<multiline, files, truncations, reading, inode, offset,
                   cutLine, line, told, tailDrops>>

EndLine(head) ==
    /\ part # "none"
    /\ part' = "none"
    /\ files' = [files EXCEPT ![Len(files)] = Append(@, [id |-> Lines + truncations * MaxLines + 1,
                                                         head |-> head])]
    /\ UNCHANGED <<multiline, truncations, reading, inode, offset, cutLine,
                   line, told, tailDrops>>

Rotate ==
    /\ part = "none" /\ Len(files) + truncations <= MaxRotations
    /\ files' = Append(files, <<>>)
    /\ UNCHANGED <<multiline, part, truncations, reading, inode, offset,
                   cutLine, line, told, tailDrops>>

Truncate ==
    /\ part = "none" /\ Len(files) + truncations <= MaxRotations
    /\ truncations' = truncations + 1
    /\ files' = [files EXCEPT ![Len(files)] = <<>>]
    /\ UNCHANGED <<multiline, part, reading, inode, offset, cutLine, line,
                   told, tailDrops>>

(* run: open the path, go back from its end by maxBuf at most, which may   *)
(* be inside a line.                                                       *)
Open ==
    /\ ~reading
    /\ reading' = TRUE /\ inode' = Len(files) /\ line' = <<>>
    /\ LET size == Len(files[Len(files)])
       IN  IF size > MaxBuf THEN offset' = size - MaxBuf /\ cutLine' \in BOOLEAN
                            ELSE offset' = 0 /\ cutLine' = FALSE
    /\ UNCHANGED <<multiline, files, part, truncations, told, tailDrops>>

(* emitLog: into the channel, or nowhere when it is full. *)
Emit(record) ==
    \/ told' = record /\ UNCHANGED tailDrops
    \/ tailDrops < MaxTailDrops /\ tailDrops' = tailDrops + 1 /\ UNCHANGED told

(* A line in a record: its number, negative when only an end of it was     *)
(* read.                                                                   *)
Read(s) == IF cutLine THEN - s.id ELSE s.id

(* readLoop, a complete line: it continues the record, or the record       *)
(* before it is emitted and the line begins one; a line that begins none   *)
(* is emitted by itself.                                                   *)
ReadLine ==
    /\ reading /\ offset < Len(files[inode])
    /\ offset' = offset + 1 /\ cutLine' = FALSE
    /\ LET s == files[inode][offset + 1]
           begins == multiline /\ s.head /\ ~cutLine
       IN  CASE multiline /\ ~begins /\ line # <<>> ->
                  line' = Append(line, Read(s)) /\ UNCHANGED <<told, tailDrops>>
             [] begins /\ line = <<>> ->
                  line' = <<Read(s)>> /\ UNCHANGED <<told, tailDrops>>
             [] begins /\ line # <<>> ->
                  line' = <<Read(s)>> /\ Emit(line)
             [] OTHER ->
                  line' = <<>> /\ Emit(<<Read(s)>>)
    /\ UNCHANGED <<multiline, files, part, truncations, reading, inode>>

(* Mutant of ReadEnd: the record in the builder is emitted. *)
ReadEndFlushed ==
    /\ reading /\ offset >= Len(files[inode])
    /\ reading' = FALSE /\ line' = <<>>
    /\ IF line # <<>> THEN Emit(line) ELSE UNCHANGED <<told, tailDrops>>
    /\ UNCHANGED <<multiline, files, part, truncations, inode, offset, cutLine>>

(* readLoop, the end of the file: what is in the builder is given up, but  *)
(* for an unfinished line that is too long already.  The file is closed,   *)
(* and a second later run opens the path again.                            *)
ReadEnd ==
    /\ reading /\ offset >= Len(files[inode])
    /\ reading' = FALSE /\ line' = <<>>
    /\ IF part = "long" /\ inode = Len(files) /\ offset = Len(files[inode])
       THEN Emit(line \o <<-(MaxLines * (MaxRotations + 1) + 1)>>)
       ELSE UNCHANGED <<told, tailDrops>>
    /\ UNCHANGED <<multiline, files, part, truncations, inode, offset, cutLine>>

TailNext ==
    \/ BeginLine \/ (\E head \in BOOLEAN : EndLine(head)) \/ Rotate \/ Truncate
    \/ Open \/ ReadLine \/ ReadEnd

----------------------------------------------------------------------------
Ids(s) == [i \in DOMAIN s |-> s[i].id]

(* The records of a file: a line by itself without a pattern; with one, a  *)
(* line that matches and the lines up to the next that does, and each line *)
(* before the first that does.                                             *)
RecordsOf(f) ==
    IF ~multiline THEN {<<f[i].id>> : i \in DOMAIN f}
    ELSE LET heads == {i \in DOMAIN f : f[i].head}
             End(i) == CHOOSE j \in i..Len(f) :
                           /\ j = Len(f) \/ j + 1 \in heads
                           /\ \A k \in i + 1 .. j : k \notin heads
         IN  {Ids(SubSeq(f, i, End(i))) : i \in heads}
             \cup {<<f[i].id>> : i \in {k \in DOMAIN f : \A h \in heads : k < h}}

(* Records come whole: what is emitted is a record of one file, never a    *)
(* piece of one or lines of two, however the writer's lines and rotations  *)
(* fall between the reads of a pass.  Not so for a file a pass starts in   *)
(* the middle of, for an unfinished line beyond maxLine, and when the file *)
(* is emptied under the reader (tailer.go readLoop).                       *)
WholeRecords ==
    truncations = 0 =>
        \/ told = <<>>
        \/ \E i \in DOMAIN told : told[i] < 0
        \/ \E k \in DOMAIN files : Len(files[k]) > MaxBuf
        \/ \E k \in DOMAIN files : told \in RecordsOf(files[k])
=============================================================================
