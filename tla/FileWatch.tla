---------------------------- MODULE FileWatch ----------------------------
(***************************************************************************)
(* Collectors that watch files: file integrity, and the ransomware canary. *)
(* File integrity: the files, the events the kernel queues about them, the *)
(* baseline the collector keeps, and the scan that makes up for events     *)
(* that were lost.  Events and scans are handled by one goroutine, at a    *)
(* time when the file may have changed again.                              *)
(***************************************************************************)
EXTENDS Integers, Sequences, FiniteSets

CONSTANTS Files, Contents, Modes,
          EventCap,      \* events the kernel queues before it drops
          MaxChanges, MaxFileDrops

ASSUME WatchAssumption ==
    /\ EventCap \in Nat \ {0} /\ {MaxChanges, MaxFileDrops} \subseteq Nat

Gone == "gone"

VARIABLES
    disk,       \* the content of each file, or Gone
    mode,       \* its permissions and owner
    events,     \* the fsnotify queue: [file, op]
    baseline,   \* baseline and its keys: the hash kept for a file, or Gone
    permMap,    \* permMap, ownerMap, groupMap
    changes, fileDrops,
    copy,       \* what a reader of the reports takes each file to be
    copyMode,
    unheard     \* files about which an event was lost or is of a kind not handled

watchVars == <<disk, mode, events, baseline, permMap, changes, fileDrops,
               copy, copyMode, unheard>>

NoMode == "none"

(* Start: the baseline scan reads what is there (ScanOnStart). *)
WatchInit ==
    /\ disk \in [Files -> Contents \cup {Gone}]
    /\ mode \in [Files -> Modes]
    /\ events = <<>>
    /\ baseline = disk
    /\ permMap = [f \in Files |-> IF disk[f] = Gone THEN NoMode ELSE mode[f]]
    /\ changes = 0 /\ fileDrops = 0
    /\ copy = disk /\ copyMode = permMap
    /\ unheard = {}

(* A change of file f by some program (external), and the kernel's event:  *)
(* queued, or lost when the queue is full or the file is in a directory    *)
(* made after the start, which is not watched.                             *)
Notify(f, op) ==
    /\ changes < MaxChanges /\ changes' = changes + 1
    /\ \/ /\ Len(events) < EventCap
          /\ events' = Append(events, [file |-> f, op |-> op])
          /\ UNCHANGED unheard
       \/ /\ events' = events
          /\ unheard' = unheard \cup {f}
    /\ UNCHANGED <<baseline, permMap, fileDrops, copy, copyMode>>

Create(f, c) ==
    /\ disk[f] = Gone
    /\ disk' = [disk EXCEPT ![f] = c] /\ UNCHANGED mode
    /\ Notify(f, "create")

Write(f, c) ==
    /\ disk[f] \notin {Gone, c}
    /\ disk' = [disk EXCEPT ![f] = c] /\ UNCHANGED mode
    /\ Notify(f, "write")

Unlink(f) ==
    /\ disk[f] # Gone
    /\ disk' = [disk EXCEPT ![f] = Gone] /\ UNCHANGED mode
    /\ Notify(f, "remove")

Chmod(f, m) ==
    /\ disk[f] # Gone /\ mode[f] # m
    /\ mode' = [mode EXCEPT ![f] = m] /\ UNCHANGED disk
    /\ Notify(f, "chmod")

(* A file renamed away: handleEvent returns at once on a Rename. *)
RenameAway(f) ==
    /\ disk[f] # Gone
    /\ changes < MaxChanges /\ changes' = changes + 1
    /\ disk' = [disk EXCEPT ![f] = Gone]
    /\ unheard' = unheard \cup {f}
    /\ UNCHANGED <<mode, events, baseline, permMap, fileDrops, copy, copyMode>>

(* emit: the reader has the report, or the channel was full. *)
Reports(newCopy, newMode) ==
    \/ copy' = newCopy /\ copyMode' = newMode /\ UNCHANGED fileDrops
    \/ /\ <<newCopy, newMode>> # <<copy, copyMode>>
       /\ fileDrops < MaxFileDrops /\ fileDrops' = fileDrops + 1
       /\ UNCHANGED <<copy, copyMode>>

NoReport == UNCHANGED <<copy, copyMode, fileDrops>>

(* handleEvent, on the file as it is now.  A removal is reported and       *)
(* forgotten; a change of mode is reported if there is one; a file written *)
(* or made is reported with its content and becomes the baseline.  When it *)
(* cannot be read any more only an error is reported.                      *)
HandleEvent ==
    /\ events # <<>>
    /\ events' = Tail(events)
    /\ LET f == Head(events).file
       IN  CASE Head(events).op = "remove" ->
                  /\ Reports([copy EXCEPT ![f] = Gone], [copyMode EXCEPT ![f] = NoMode])
                  /\ baseline' = [baseline EXCEPT ![f] = Gone]
                  /\ permMap' = [permMap EXCEPT ![f] = NoMode]
             [] disk[f] = Gone /\ Head(events).op # "remove" ->
                  NoReport /\ UNCHANGED <<baseline, permMap>>
             [] disk[f] # Gone /\ Head(events).op = "chmod" ->
                  /\ IF permMap[f] # mode[f]
                     THEN Reports(copy, [copyMode EXCEPT ![f] = mode[f]])
                     ELSE NoReport
                  /\ permMap' = [permMap EXCEPT ![f] = mode[f]]
                  /\ UNCHANGED baseline
             [] disk[f] # Gone /\ Head(events).op \in {"create", "write"} ->
                  /\ Reports([copy EXCEPT ![f] = disk[f]], [copyMode EXCEPT ![f] = mode[f]])
                  /\ baseline' = [baseline EXCEPT ![f] = disk[f]]
                  /\ permMap' = [permMap EXCEPT ![f] = mode[f]]
    /\ UNCHANGED <<disk, mode, changes, unheard>>

(* Mutant of ScanFile: what differs is taken over without a report. *)
ScanFileSilent(f) ==
    /\ disk[f] # Gone
    /\ permMap' = [permMap EXCEPT ![f] = mode[f]]
    /\ baseline' = [baseline EXCEPT ![f] = disk[f]]
    /\ NoReport
    /\ UNCHANGED <<disk, mode, events, changes, unheard>>

(* runIncrementalScan at file f.  A file not in the baseline is taken in   *)
(* without a report; one with another content or mode is reported, and the *)
(* mode is taken over, the content is not.                                 *)
ScanFile(f) ==
    /\ disk[f] # Gone
    /\ permMap' = [permMap EXCEPT ![f] = mode[f]]
    /\ IF baseline[f] = Gone
       THEN NoReport /\ baseline' = [baseline EXCEPT ![f] = disk[f]]
       ELSE /\ Reports(IF baseline[f] # disk[f] THEN [copy EXCEPT ![f] = disk[f]] ELSE copy,
                       IF permMap[f] \notin {NoMode, mode[f]}
                       THEN [copyMode EXCEPT ![f] = mode[f]] ELSE copyMode)
            /\ UNCHANGED baseline
    /\ UNCHANGED <<disk, mode, events, changes, unheard>>

WatchNext ==
    \/ \E f \in Files : \/ \E c \in Contents : Create(f, c) \/ Write(f, c)
                        \/ \E m \in Modes : Chmod(f, m)
                        \/ Unlink(f) \/ RenameAway(f) \/ ScanFile(f)
    \/ HandleEvent

----------------------------------------------------------------------------
(* A change a reader has yet to hear of and the collector can still tell:  *)
(* every event about the file came through, or its content is neither what *)
(* the baseline has nor gone, and no removal waits that would clear the    *)
(* baseline.                                                               *)
Differs(f) ==
    /\ copy[f] # disk[f]
    /\ \/ f \notin unheard
       \/ /\ baseline[f] # Gone /\ disk[f] \notin {Gone, baseline[f]}
          /\ \A i \in DOMAIN events : events[i] # [file |-> f, op |-> "remove"]

(* Every change of content is reported in the end, unless the file changes *)
(* again first or the report meets a full channel, though events are       *)
(* handled late, when the file is another or gone.  That includes a write  *)
(* whose event was lost: the scan reports it (handleEvent,                 *)
(* runIncrementalScan).                                                    *)
ChangeReported ==
    \A f \in Files, c \in Contents \cup {Gone} :
        (Differs(f) /\ disk[f] = c)
            ~> (copy[f] = c \/ disk[f] # c \/ fileDrops > 0)

-----------------------------------------------------------------------------
(***************************************************************************)
(* A decoy file of the ransomware canary: two goroutines, one woken by     *)
(* file events and one by a timer, compare it with its baseline, raise an  *)
(* alarm once per cooldown, and plant it again.  Planting empties the file *)
(* and then writes it, outside the collector's lock.                       *)
(***************************************************************************)

CONSTANTS MaxTampers, MaxPlantFaults

ASSUME CanaryAssumption == {MaxTampers, MaxPlantFaults} \subseteq Nat

Watchers == {"watchLoop", "pollLoop"}

(* What the file holds: the decoy, nothing yet, what an intruder wrote, or *)
(* there is no file.                                                       *)
Decoy == "decoy"
Empty == "empty"
Bad   == "bad"
Away  == "away"

VARIABLES
    file,       \* the file at the canary's path
    base,       \* canaries[path]
    fired,      \* the cooldown runs
    event,      \* fsnotify has an event for watchLoop
    at,         \* where each goroutine is
    got,        \* what it read: the baseline, then the file it planted
    orphan,     \* the file it opened for writing has been removed since
    tampers, plantFaults

canaryVars == <<file, base, fired, event, at, got, orphan, tampers, plantFaults>>

(* plantAll, before the goroutines start. *)
CanaryInit ==
    /\ file = Decoy /\ base = Decoy
    /\ fired = FALSE /\ event = FALSE
    /\ at = [w \in Watchers |-> "idle"]
    /\ got = [w \in Watchers |-> Away]
    /\ orphan = [w \in Watchers |-> FALSE]
    /\ tampers = 0 /\ plantFaults = 0

(* The intruder (external) encrypts, removes or renames the file. *)
Encrypt ==
    /\ tampers < MaxTampers /\ tampers' = tampers + 1
    /\ file # Away /\ file' = Bad
    /\ event' = TRUE
    /\ UNCHANGED <<base, fired, at, got, orphan, plantFaults>>

Delete ==
    /\ tampers < MaxTampers /\ tampers' = tampers + 1
    /\ file # Away /\ file' = Away
    /\ orphan' = [w \in Watchers |-> orphan[w] \/ at[w] = "write"]
    /\ event' = TRUE
    /\ UNCHANGED <<base, fired, at, got, plantFaults>>

(* fireCooldown has passed. *)
CoolDown ==
    /\ fired
    /\ fired' = FALSE
    /\ UNCHANGED <<file, base, event, at, got, orphan, tampers, plantFaults>>

(* evaluate begins: the baseline is read under the lock. *)
Evaluate(w) ==
    /\ at[w] = "idle"
    /\ IF w = "watchLoop" THEN event /\ event' = FALSE ELSE UNCHANGED event
    /\ got' = [got EXCEPT ![w] = base]
    /\ at' = [at EXCEPT ![w] = "compare"]
    /\ UNCHANGED <<file, base, fired, orphan, tampers, plantFaults>>

(* Mutant of Compare: a file that cannot be read is passed over. *)
CompareReadable(w) ==
    /\ at[w] = "compare"
    /\ IF file \in {got[w], Away}
       THEN at' = [at EXCEPT ![w] = "idle"] /\ UNCHANGED fired
       ELSE at' = [at EXCEPT ![w] = "plant"] /\ fired' = TRUE
    /\ UNCHANGED <<file, base, event, got, orphan, tampers, plantFaults>>

(* statOf and tamper: missing or not the baseline, so an alarm, unless one *)
(* was raised within the cooldown, and the file is planted.                *)
Compare(w) ==
    /\ at[w] = "compare"
    /\ IF file = got[w]
       THEN at' = [at EXCEPT ![w] = "idle"] /\ UNCHANGED fired
       ELSE at' = [at EXCEPT ![w] = "plant"] /\ fired' = TRUE
    /\ UNCHANGED <<file, base, event, got, orphan, tampers, plantFaults>>

(* writeCanary: open and truncate, or fail and give up. *)
Plant(w) ==
    /\ at[w] = "plant"
    /\ \/ /\ file' = Empty /\ event' = TRUE
          /\ at' = [at EXCEPT ![w] = "write"]
          /\ orphan' = [orphan EXCEPT ![w] = FALSE]
          /\ UNCHANGED plantFaults
       \/ /\ plantFaults < MaxPlantFaults /\ plantFaults' = plantFaults + 1
          /\ at' = [at EXCEPT ![w] = "idle"]
          /\ UNCHANGED <<file, event, orphan>>
    /\ UNCHANGED <<base, fired, got, tampers>>

(* writeCanary: the bytes, into the file it opened.  Over what an intruder *)
(* wrote meanwhile they leave the decoy or a mixture.                      *)
FillIn(w) ==
    /\ at[w] = "write"
    /\ at' = [at EXCEPT ![w] = "read"]
    /\ IF orphan[w] THEN UNCHANGED <<file, event>>
       ELSE /\ event' = TRUE
            /\ file' \in IF file = Bad THEN {Decoy, Bad} ELSE {Decoy}
    /\ UNCHANGED <<base, fired, got, orphan, tampers, plantFaults>>

(* replant: read the file back, *)
ReadBack(w) ==
    /\ at[w] = "read"
    /\ IF file = Away THEN at' = [at EXCEPT ![w] = "idle"] /\ UNCHANGED got
       ELSE at' = [at EXCEPT ![w] = "keep"] /\ got' = [got EXCEPT ![w] = file]
    /\ UNCHANGED <<file, base, fired, event, orphan, tampers, plantFaults>>

(* and take what was read for the baseline. *)
KeepBaseline(w) ==
    /\ at[w] = "keep"
    /\ at' = [at EXCEPT ![w] = "idle"]
    /\ base' = got[w]
    /\ UNCHANGED <<file, fired, event, got, orphan, tampers, plantFaults>>

Step(w) == Compare(w) \/ Plant(w) \/ FillIn(w) \/ ReadBack(w) \/ KeepBaseline(w)

CanaryNext ==
    \/ Encrypt \/ Delete \/ CoolDown
    \/ \E w \in Watchers : Evaluate(w) \/ Step(w)

----------------------------------------------------------------------------
(* A decoy that was tampered with is planted again, unless what the        *)
(* intruder wrote became the baseline, however the two goroutines cross    *)
(* each other while they compare, truncate, write and read back (evaluate, *)
(* replant).                                                               *)
Replanted == (file # Decoy) ~> (file = Decoy \/ base = Bad)
=============================================================================
