------------------------------ MODULE AuditTrail ------------------------------
(***************************************************************************)
(* Who changed a file: the audit collector follows auditd's log, puts the  *)
(* lines of one event together and notes who touched which path in a cache *)
(* that expires. The file collector asks the cache when it reports a       *)
(* change, which may be before or after the event's record is complete.    *)
(*                                                                         *)
(* An event is a line with its user and one or two with paths. Events of   *)
(* several processors may mix in the log; a line may be seen before it is  *)
(* written to its end; auditd renames the log and begins another.          *)
(***************************************************************************)
EXTENDS Integers, Sequences, FiniteSets, SequencesExt, FiniteSetsExt

CONSTANTS
    MaxEvents,               \* audit events, numbered by their serial
    Watched, Parent, NoPath, \* names in PATH lines: a file, its directory; none
    FlushAfter, CacheTtl,    \* flushIdle's two seconds, the cache's ttl
    CacheSize,               \* its maxSize
    MaxTrailClock, MaxLogs, MaxAuditFaults  \* bounds

ASSUME AuditAssumption ==
    /\ {MaxEvents, FlushAfter, CacheTtl, CacheSize, MaxTrailClock} \subseteq Nat
    /\ {MaxLogs, MaxAuditFaults} \subseteq Nat
    /\ {Parent, NoPath} \cap Watched = {} /\ NoPath # Parent

VARIABLES
    trailClock,  \* time, in steps of FlushAfter or more
    events,      \* what happened: [names, at], by serial
    written,     \* [serial -> lines of it that auditd has written]
    logs,        \* the logs in the order of their creation: sequences of entries
    tail,        \* the tail goroutine: [step, file, known, pos]
    current,     \* grouper.cur, or NoRecord
    whodata,     \* the cache: [path -> [owner, serial, at]], for some paths
    told,        \* history: the records that were dispatched
    from,        \* history: where the reading of tail.file began
    twice,       \* history: a log was opened that was not the one looked at
    auditFaults

trailVars == <<trailClock, events, written, logs, tail, current, whodata, told, from,
               twice, auditFaults>>

NoRecord == [serial |-> 0]
NobodyKnown == [p \in {} |-> NoRecord]
Down == [step |-> "down", file |-> 0, known |-> 0, pos |-> 0]

\* Every event has a user of its own, who bears its number.
Serials == DOMAIN events
NoOwner == 0
\* The n-th line of an event: its user first, then its paths
LinesOf(serial) == 1 + Len(events[serial].names)
OwnerIn(line) == IF line.n = 1 THEN line.serial ELSE NoOwner
NameIn(line) == IF line.n = 1 THEN NoPath ELSE events[line.serial].names[line.n - 1]

\* What is in a log: a line, the beginning of one, or the rest of it
Entry(part, serial, n) == [part |-> part, serial |-> serial, n |-> n, at |-> trailClock]

-----------------------------------------------------------------------------
(* auditd (external)                                                       *)

Open(log) == log # <<>> /\ Last(log).part = "head"

\* An event happens, and its first line is written.
Happens ==
    /\ Len(events) < MaxEvents /\ ~Open(Last(logs))
    /\ \E names \in {<<f>> : f \in Watched} \cup {<<Parent, f>> : f \in Watched} :
         events' = Append(events, [names |-> names, at |-> trailClock])
    /\ written' = Append(written, 1)
    /\ logs' = [logs EXCEPT ![Len(logs)] = Append(@, Entry("line", Len(events) + 1, 1))]
    /\ UNCHANGED <<trailClock, tail, current, whodata, told, from, twice, auditFaults>>

\* The next line of an event, whole or its beginning, at once or late
WriteLine(serial) ==
    /\ written[serial] < LinesOf(serial) /\ ~Open(Last(logs))
    /\ \E part \in {"line", "head"} :
         /\ IF part = "line" /\ events[serial].at = trailClock THEN UNCHANGED auditFaults
            ELSE auditFaults < MaxAuditFaults /\ auditFaults' = auditFaults + 1
         /\ logs' = [logs EXCEPT ![Len(logs)] =
                       Append(@, Entry(part, serial, written[serial] + 1))]
    /\ written' = [written EXCEPT ![serial] = @ + 1]
    /\ UNCHANGED <<trailClock, events, tail, current, whodata, told, from, twice>>

Passed(file, index) == tail.file = file /\ tail.pos >= index

\* The rest comes behind what was read, or makes the line whole.
FinishLine ==
    LET file == Len(logs)
        head == Last(logs[file])
    IN  /\ Open(logs[file])
        /\ logs' = [logs EXCEPT ![file] =
             IF Passed(file, Len(@)) THEN Append(@, [head EXCEPT !.part = "rest"])
             ELSE [@ EXCEPT ![Len(@)].part = "line"]]
        /\ UNCHANGED <<trailClock, events, written, tail, current, whodata, told,
                       from, twice, auditFaults>>

Rotate ==
    /\ Len(logs) < MaxLogs /\ Last(logs) # <<>> /\ ~Open(Last(logs))
    /\ logs' = Append(logs, <<>>)
    /\ UNCHANGED <<trailClock, events, written, tail, current, whodata, told, from,
                   twice, auditFaults>>

-----------------------------------------------------------------------------
(* The audit collector                                                     *)

\* openAuditLog: from the end, so that history is not replayed.
StartTail ==
    /\ tail.step = "down"
    /\ tail' = [step |-> "reads", file |-> Len(logs), known |-> Len(logs),
                pos |-> Len(Last(logs))]
    /\ from' = Len(Last(logs))
    /\ UNCHANGED <<trailClock, events, written, logs, current, whodata, told, twice,
                   auditFaults>>

NewRecord(line) ==
    [serial |-> line.serial, lines |-> <<line>>, owner |-> OwnerIn(line),
     name |-> NameIn(line), touched |-> trailClock]

\* mergeKVs: later values of a key over earlier ones.
WithLine(record, line) ==
    [record EXCEPT !.lines = Append(@, line), !.touched = trailClock,
       !.owner = IF line.n = 1 THEN OwnerIn(line) ELSE @,
       !.name = IF line.n = 1 THEN @ ELSE NameIn(line)]

\* pruneLocked
PrunedCache(entries) ==
    IF Cardinality(DOMAIN entries) <= CacheSize THEN entries
    ELSE LET young == {p \in DOMAIN entries : entries[p].at >= trailClock - CacheTtl}
         IN  Restrict(entries, young)

\* Record
WithEntry(record) ==
    LET entry == [owner |-> record.owner, serial |-> record.serial,
                  at |-> events[record.serial].at]
    IN  PrunedCache((record.name :> entry) @@ whodata)

\* dispatch, and Record under the path the event named last. A channel that is full
\* loses the point, not the entry.
DispatchRecord(record) ==
    /\ told' = Append(told, [record EXCEPT !.touched = 0])
    /\ whodata' = IF record.name = NoPath THEN whodata ELSE WithEntry(record)

NothingTold == UNCHANGED <<told, whodata>>

\* Mutant: the record before is told with the first line of the next.
FeedLate(line) ==
    CASE current = NoRecord -> current' = NewRecord(line) /\ NothingTold
      [] current # NoRecord /\ current.serial = line.serial ->
           current' = WithLine(current, line) /\ NothingTold
      [] OTHER -> current' = NewRecord(line) /\ DispatchRecord(WithLine(current, line))

\* feed: a line of another event completes the record.
Feed(line) ==
    CASE current = NoRecord -> current' = NewRecord(line) /\ NothingTold
      [] current # NoRecord /\ current.serial = line.serial ->
           current' = WithLine(current, line) /\ NothingTold
      [] OTHER -> current' = NewRecord(line) /\ DispatchRecord(current)

Unread == tail.pos < Len(logs[tail.file])

\* ReadString: what it has of a line at the end of the file is dropped, and the rest of
\* the line, which has no header, is no line.
ReadLine ==
    /\ tail.step = "reads" /\ Unread
    /\ LET entry == logs[tail.file][tail.pos + 1]
       IN  IF entry.part = "line" THEN Feed(entry) ELSE UNCHANGED current /\ NothingTold
    /\ tail' = [tail EXCEPT !.pos = @ + 1]
    /\ UNCHANGED <<trailClock, events, written, logs, from, twice, auditFaults>>

FlushIdle ==
    /\ tail.step = "reads" /\ current # NoRecord
    /\ trailClock - current.touched >= FlushAfter
    /\ current' = NoRecord /\ DispatchRecord(current)
    /\ UNCHANGED <<trailClock, events, written, logs, tail, from, twice, auditFaults>>

\* rotateCheck, every five seconds: the path is another file than the one that is open.
LookAtPath ==
    /\ tail.step = "reads" /\ tail.known # Len(logs)
    /\ tail' = [tail EXCEPT !.step = "reopens", !.known = Len(logs)]
    /\ UNCHANGED <<trailClock, events, written, logs, current, whodata, told, from,
                   twice, auditFaults>>

\* The next read from the file that was closed ends the goroutine.
Reopen ==
    /\ tail.step = "reopens"
    /\ \/ /\ tail' = [tail EXCEPT !.step = "reads", !.file = Len(logs), !.pos = 0]
          /\ from' = 0 /\ twice' = (twice \/ tail.known # Len(logs))
          /\ UNCHANGED auditFaults
       \/ /\ auditFaults < MaxAuditFaults /\ auditFaults' = auditFaults + 1
          /\ tail' = [tail EXCEPT !.step = "ended"] /\ UNCHANGED <<from, twice>>
    /\ UNCHANGED <<trailClock, events, written, logs, current, whodata, told>>

\* The agent dies; what was not told is gone, and the cache.
AuditCrash ==
    /\ tail.step # "down" /\ auditFaults < MaxAuditFaults
    /\ auditFaults' = auditFaults + 1
    /\ tail' = Down /\ current' = NoRecord /\ whodata' = NobodyKnown
    /\ UNCHANGED <<trailClock, events, written, logs, told, from, twice>>

-----------------------------------------------------------------------------
(* The file collector's emit                                               *)

\* Lookup
KnownPath(path) == path \in DOMAIN whodata /\ trailClock - whodata[path].at <= CacheTtl

\* ... deletes an entry that has expired.
AskWho ==
    /\ tail.step # "down"
    /\ \E path \in DOMAIN whodata :
         /\ ~KnownPath(path)
         /\ whodata' = Restrict(whodata, DOMAIN whodata \ {path})
    /\ UNCHANGED <<trailClock, events, written, logs, tail, current, told, from, twice,
                   auditFaults>>

\* Two seconds are enough to read what there is.
AuditClock ==
    /\ trailClock < MaxTrailClock /\ trailClock' = trailClock + 1
    /\ tail.step = "reads" => ~Unread
    /\ UNCHANGED <<events, written, logs, tail, current, whodata, told, from, twice,
                   auditFaults>>

TrailInit ==
    /\ trailClock = 0 /\ events = <<>> /\ written = <<>> /\ logs = <<<<>>>>
    /\ tail = [step |-> "reads", file |-> 1, known |-> 1, pos |-> 0]
    /\ current = NoRecord /\ whodata = NobodyKnown /\ told = <<>>
    /\ from = 0 /\ twice = FALSE /\ auditFaults = 0

TrailStep ==
    \/ Happens \/ FinishLine \/ Rotate
    \/ \E s \in Serials : WriteLine(s)
    \/ StartTail \/ ReadLine \/ FlushIdle \/ LookAtPath \/ Reopen \/ AuditCrash
    \/ AskWho \/ AuditClock

-----------------------------------------------------------------------------

\* Records hold lines of one event, in their order, and no line is told twice, unless
\* the log was rotated between the look at the path and its opening. What was read is
\* told or about to be. Lines of an event that stand side by side and were written at
\* one time are told in one record, whatever flushes, rotations and crashes happen.
RecordsWhole ==
    LET lines(i) == {[serial |-> e.serial, n |-> e.n] : e \in ToSet(told[i].lines)}
        pending == IF current = NoRecord THEN {} ELSE ToSet(current.lines)
        whole(f, i) == i \in DOMAIN logs[f] /\ logs[f][i].part = "line"
    IN  /\ \A i \in DOMAIN told :
             /\ \A e \in ToSet(told[i].lines) : e.serial = told[i].serial
             /\ \A j, k \in DOMAIN told[i].lines :
                  j < k => (twice \/ told[i].lines[j].n < told[i].lines[k].n)
             /\ \A j \in 1..i - 1 : twice \/ lines(i) \cap lines(j) = {}
        /\ tail.step = "reads" =>
             \A i \in from + 1..tail.pos : whole(tail.file, i) =>
               LET e == logs[tail.file][i]
               IN  e \in pending \/ \E r \in DOMAIN told : e \in ToSet(told[r].lines)
        /\ \A f \in DOMAIN logs : \A i \in DOMAIN logs[f] :
             (whole(f, i) /\ whole(f, i + 1)) =>
               LET e == logs[f][i]
                   g == logs[f][i + 1]
                   tellers(x) == {r \in DOMAIN told : x \in ToSet(told[r].lines)}
               IN  (e.serial = g.serial /\ e.at = g.at) =>
                     (tellers(g) = {} \/ tellers(e) \in {{}, tellers(g)})

\* Whom the file collector names for a change is the subject of the record that named the
\* path last, if that event is not older than the ttl; nobody is missing while there is
\* such a record. A record without the line of its user hides the one before.
WhoIsNamed ==
    \A path \in Watched \cup {Parent} :
        LET records == {i \in DOMAIN told : told[i].name = path}
            last    == told[Max(records)]
            fresh   == records # {} /\ trailClock - events[last.serial].at <= CacheTtl
        IN  /\ KnownPath(path) =>
                 /\ fresh /\ whodata[path].owner \in {NoOwner, last.serial}
                 /\ path \in ToSet(events[last.serial].names)
                 /\ (\E e \in ToSet(last.lines) : e.n = 1) =>
                      whodata[path].owner = last.serial
            /\ (fresh /\ auditFaults = 0) => KnownPath(path)
=============================================================================
