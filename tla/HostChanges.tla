--------------------------- MODULE HostChanges ---------------------------
(***************************************************************************)
(* The collectors that compare the host with what they saw before:         *)
(* registry keys and processes, scanned item by item while the host goes   *)
(* on changing; containers, listed by one goroutine and heard of by         *)
(* another; decoy values in the registry.  Each has a channel that drops   *)
(* what does not fit.                                                      *)
(***************************************************************************)
EXTENDS Integers, FiniteSets, Sequences

CONSTANTS
    MaxHostChanges,  \* bound: changes on the host
    MaxHostFaults    \* bound: failing calls and dropped data points

ASSUME HostAssumption == {MaxHostChanges, MaxHostFaults} \subseteq Nat

NoKey == "no key"
NoValue == "no value"
(* A configured recursive key and a key below it, each with one value.     *)
RegKeys == {"root", "sub"}
Data == {NoValue, "v1", "v2"}

Pids == {"pid 1", "pid 2"}

ContainerStates == {"none", "running", "exited"}
Closed == <<"closed">>

VARIABLES
    reg,        \* the registry
    values,     \* baseline, of the registry collector
    regAt,      \* where its scan is
    visited,    \* seen: the keys this scan has visited
    proc,       \* the processes: for each pid, which one has it (0: none)
    procAt,     \* where the process scan is
    pidList,    \* process.Processes(): the pids, with who had them
    seenPIDs,
    todo,       \* the listed pids the scan has still to go through
    container,  \* the state of a container
    stream,     \* the events on their way, or Closed without a connection
    inventory,  \* the answer of the engine's list call, or "none asked"
    decoy,      \* a planted value: whole, changed or away
    checkAt,    \* check of the decoys
    cooling,    \* fired: within fireCooldown of an alarm
    shown,      \* history: what the data points say of each key, pid, container
    excused,    \* history: what no data point can have told
    touched,    \* history: what changed since the scan began
    alarmed,    \* history: alarms were raised since the decoy was changed
    hostChanges, hostFaults

hostVars == <<reg, values, regAt, visited, proc, procAt, pidList, seenPIDs, todo,
              container, stream, inventory, decoy, checkAt, cooling, shown,
              excused, touched, alarmed, hostChanges, hostFaults>>

regVars == <<reg, values, regAt, visited>>
procVars == <<proc, procAt, pidList, seenPIDs, todo>>
dockerVars == <<container, stream, inventory>>
decoyVars == <<decoy, checkAt, cooling, alarmed>>

Items == RegKeys \cup Pids \cup {"container"}
Absent == [k \in RegKeys |-> NoKey]
Nobody == [p \in Pids |-> 0]

HostInit ==
    /\ reg \in {Absent, [root |-> "v1", sub |-> NoKey], [root |-> NoValue, sub |-> "v1"]}
    /\ values = reg /\ regAt = "idle" /\ visited = {}
    /\ proc = Nobody /\ procAt = "idle" /\ pidList = Nobody /\ seenPIDs = {} /\ todo = {}
    /\ container = "none" /\ stream = Closed /\ inventory = "none asked"
    /\ decoy = "whole" /\ checkAt = "idle" /\ cooling = FALSE /\ alarmed = TRUE
    /\ shown = [i \in Items |-> IF i \in RegKeys THEN reg[i] ELSE IF i \in Pids THEN 0 ELSE "none"]
    /\ excused = {} /\ touched = {} /\ hostChanges = 0 /\ hostFaults = 0

Change(items) ==
    /\ hostChanges < MaxHostChanges /\ hostChanges' = hostChanges + 1
    /\ touched' = touched \cup items

Fault == hostFaults < MaxHostFaults /\ hostFaults' = hostFaults + 1

(* emit: a data point that says v of item i is taken, or dropped.          *)
Told(i, v) ==
    \/ shown' = [shown EXCEPT ![i] = v] /\ excused' = excused \ {i} /\ UNCHANGED hostFaults
    \/ Fault /\ excused' = excused \cup {i} /\ UNCHANGED shown

(* A data point for each of the items that are gone; some may be dropped.  *)
TellGone(gone, v) ==
    \E dropped \in SUBSET gone :
        /\ shown' = [i \in Items |-> IF i \in gone \ dropped THEN v ELSE shown[i]]
        /\ excused' = excused \cup dropped
        /\ IF dropped = {} THEN UNCHANGED hostFaults ELSE Fault

----------------------------------------------------------------------------
(* Registry.  Programs set values and make and delete keys; a key goes     *)
(* with the key above it.                                                  *)
SetKey(k, v) ==
    /\ v # reg[k] /\ (k = "sub" => reg["root"] # NoKey)
    /\ reg' = IF k = "root" /\ v = NoKey THEN Absent ELSE [reg EXCEPT ![k] = v]
    /\ Change({i \in RegKeys : reg'[i] # reg[i]})
    /\ UNCHANGED <<values, regAt, visited, procVars, dockerVars, decoyVars,
                   shown, excused, hostFaults>>

(* scanChanges *)
ScanKeys ==
    /\ regAt = "idle"
    /\ regAt' = "root" /\ visited' = {} /\ touched' = {}
    /\ UNCHANGED <<reg, values, procVars, dockerVars, decoyVars, shown,
                   excused, hostChanges, hostFaults>>

(* walk: a key that cannot be opened is passed over, with those below it.  *)
PassOver ==
    /\ regAt \in RegKeys
    /\ \/ reg[regAt] = NoKey /\ UNCHANGED <<hostFaults, excused>>
       \/ reg[regAt] # NoKey /\ Fault /\ excused' = excused \cup RegKeys
    /\ regAt' = "sweep"
    /\ UNCHANGED <<reg, values, visited, procVars, dockerVars, decoyVars, shown,
                   touched, hostChanges>>

(* checkKey: the values, none when they cannot be read, against the        *)
(* baseline; the values of a key that is new are adopted.                  *)
CheckKey(current) ==
    /\ regAt \in RegKeys /\ reg[regAt] # NoKey
    /\ visited' = visited \cup {regAt}
    /\ regAt' = IF regAt = "root" THEN "sub" ELSE "sweep"
    /\ values' = [values EXCEPT ![regAt] = current]
    /\ \/ current = reg[regAt] /\ values[regAt] = NoKey
          /\ excused' = excused \cup {regAt} /\ UNCHANGED <<shown, hostFaults>>
       \/ current = reg[regAt] /\ values[regAt] = current
          /\ UNCHANGED <<shown, excused, hostFaults>>
       \/ current = reg[regAt] /\ values[regAt] \notin {NoKey, current}
          /\ Told(regAt, current)
       \/ /\ current = NoValue /\ reg[regAt] # NoValue /\ Fault
          /\ shown' = [shown EXCEPT ![regAt] = current] /\ excused' = excused \cup {regAt}
    /\ UNCHANGED <<reg, procVars, dockerVars, decoyVars, touched, hostChanges>>

(* Mutant of Sweep: a key that is gone stays in the baseline. *)
SweepKeeps ==
    /\ regAt = "sweep"
    /\ regAt' = "idle"
    /\ LET gone == {k \in RegKeys \ visited : values[k] # NoKey}
       IN  /\ values' = values
           /\ TellGone(gone, NoKey)
    /\ UNCHANGED <<reg, visited, procVars, dockerVars, decoyVars, touched, hostChanges>>

(* The keys of the baseline that were not visited are reported deleted.    *)
Sweep ==
    /\ regAt = "sweep"
    /\ regAt' = "idle"
    /\ LET gone == {k \in RegKeys \ visited : values[k] # NoKey}
       IN  /\ values' = [k \in RegKeys |-> IF k \in gone THEN NoKey ELSE values[k]]
           /\ TellGone(gone, NoKey)
    /\ UNCHANGED <<reg, visited, procVars, dockerVars, decoyVars, touched, hostChanges>>

RegistryNext ==
    \/ \E k \in RegKeys, v \in Data \cup {NoKey} : SetKey(k, v)
    \/ ScanKeys \/ PassOver \/ (\E v \in Data : CheckKey(v)) \/ Sweep

----------------------------------------------------------------------------
(* Processes.  One begins under a free pid, or ends; a pid that passes to  *)
(* another process between two listings is not noticed.                    *)
Spawn(p) ==
    /\ proc[p] = 0 /\ Change({p})
    /\ proc' = [proc EXCEPT ![p] = hostChanges + 1]
    /\ excused' = IF p \in seenPIDs \/ (procAt = "scan" /\ pidList[p] # 0)
                  THEN excused \cup {p} ELSE excused
    /\ UNCHANGED <<procAt, pidList, seenPIDs, todo, regVars, dockerVars,
                   decoyVars, shown, hostFaults>>

Exit(p) ==
    /\ proc[p] # 0 /\ Change({p})
    /\ proc' = [proc EXCEPT ![p] = 0]
    /\ UNCHANGED <<procAt, pidList, seenPIDs, todo, regVars, dockerVars,
                   decoyVars, shown, excused, hostFaults>>

(* collect: the list of the processes, or an error and no scan.            *)
ListProcesses ==
    /\ procAt = "idle"
    /\ procAt' = "scan" /\ pidList' = proc /\ touched' = {}
    /\ todo' = {p \in Pids : proc[p] # 0}
    /\ UNCHANGED <<proc, seenPIDs, regVars, dockerVars, decoyVars, shown,
                   excused, hostChanges, hostFaults>>

(* A listed pid that was not seen before is new.  Its name is read now, of *)
(* the process that has the pid now, if any.                               *)
Examine(p) ==
    /\ procAt = "scan" /\ p \in todo
    /\ todo' = todo \ {p}
    /\ IF p \in seenPIDs THEN UNCHANGED <<shown, excused, hostFaults>>
       ELSE Told(p, IF proc[p] = 0 THEN pidList[p] ELSE proc[p])
    /\ UNCHANGED <<proc, procAt, pidList, seenPIDs, regVars, dockerVars,
                   decoyVars, touched, hostChanges>>

(* The pids that were seen before and are not listed now are reported      *)
(* terminated, and the listed ones are the seen ones.                      *)
FinishScan ==
    /\ procAt = "scan" /\ todo = {}
    /\ procAt' = "idle"
    /\ LET now == {p \in Pids : pidList[p] # 0}
           ended == seenPIDs \ now
       IN  /\ seenPIDs' = now
           /\ TellGone(ended, 0)
    /\ UNCHANGED <<proc, pidList, todo, regVars, dockerVars, decoyVars, touched,
                   hostChanges>>

ProcessNext ==
    \/ \E p \in Pids : Spawn(p) \/ Exit(p) \/ Examine(p)
    \/ ListProcesses \/ FinishScan

----------------------------------------------------------------------------
(* Containers.  The engine sends an event to whoever listens. *)
Become(s) ==
    /\ s # container /\ Change({"container"})
    /\ container' = s
    /\ stream' = IF stream = Closed THEN stream ELSE Append(stream, s)
    /\ UNCHANGED <<inventory, regVars, procVars, decoyVars, shown, excused, hostFaults>>

(* streamEvents: the connection is made, *)
Listen ==
    /\ stream = Closed /\ stream' = <<>>
    /\ UNCHANGED <<container, inventory, regVars, procVars, decoyVars, shown,
                   excused, touched, hostChanges, hostFaults>>

(* breaks, with what was on its way, *)
Break ==
    /\ stream # Closed /\ Fault /\ stream' = Closed
    /\ UNCHANGED <<container, inventory, regVars, procVars, decoyVars, shown,
                   excused, touched, hostChanges>>

(* or brings an event. *)
Hear ==
    /\ stream \notin {Closed, <<>>}
    /\ stream' = Tail(stream)
    /\ Told("container", Head(stream))
    /\ UNCHANGED <<container, inventory, regVars, procVars, decoyVars, touched, hostChanges>>

(* collectContainers: the list as the engine gives it, *)
AskList ==
    /\ inventory = "none asked" /\ inventory' = container
    /\ UNCHANGED <<container, stream, regVars, procVars, decoyVars, shown,
                   excused, touched, hostChanges, hostFaults>>

(* and a data point for each container on it.                              *)
EmitList ==
    /\ inventory # "none asked" /\ inventory' = "none asked"
    /\ IF inventory = "none" THEN UNCHANGED <<shown, excused, hostFaults>>
       ELSE Told("container", inventory)
    /\ UNCHANGED <<container, stream, regVars, procVars, decoyVars, touched, hostChanges>>

DockerNext ==
    \/ \E s \in ContainerStates : Become(s)
    \/ Listen \/ Break \/ Hear \/ AskList \/ EmitList

----------------------------------------------------------------------------
(* Decoys.  An intruder changes the value or deletes it. *)
Tamper(s) ==
    /\ s # decoy /\ Change({})
    /\ decoy' = s
    /\ alarmed' = (alarmed /\ checkAt = "replant")
    /\ UNCHANGED <<checkAt, cooling, regVars, procVars, dockerVars, shown,
                   excused, hostFaults>>

CooldownEnds ==
    /\ cooling /\ cooling' = FALSE
    /\ UNCHANGED <<decoy, checkAt, alarmed, regVars, procVars, dockerVars,
                   shown, excused, touched, hostChanges, hostFaults>>

(* check: the value is not the planted one, or cannot be read: tamper, an  *)
(* alarm unless there was one within the cooldown,                         *)
CheckDecoy ==
    /\ checkAt = "idle" /\ decoy # "whole"
    /\ checkAt' = "replant" /\ cooling' = TRUE
    /\ \/ ~cooling /\ alarmed' = TRUE
          /\ UNCHANGED <<excused, hostFaults>>
       \/ cooling /\ excused' = excused \cup {"decoy"}
          /\ UNCHANGED <<alarmed, hostFaults>>
       \/ ~cooling /\ Fault /\ excused' = excused \cup {"decoy"}
          /\ UNCHANGED alarmed
    /\ UNCHANGED <<decoy, regVars, procVars, dockerVars, shown, touched, hostChanges>>

(* Mutant of Replant: a deleted value is not planted again. *)
ReplantChanged ==
    /\ checkAt = "replant" /\ checkAt' = "idle"
    /\ \/ decoy' = (IF decoy = "away" THEN decoy ELSE "whole") /\ UNCHANGED hostFaults
       \/ Fault /\ UNCHANGED decoy
    /\ UNCHANGED <<cooling, alarmed, regVars, procVars, dockerVars, shown,
                   excused, touched, hostChanges>>

(* and replant, whose errors are not looked at.                            *)
Replant ==
    /\ checkAt = "replant" /\ checkAt' = "idle"
    /\ \/ decoy' = "whole" /\ UNCHANGED hostFaults
       \/ Fault /\ UNCHANGED decoy
    /\ UNCHANGED <<cooling, alarmed, regVars, procVars, dockerVars, shown,
                   excused, touched, hostChanges>>

DecoyNext ==
    \/ \E s \in {"changed", "away"} : Tamper(s)
    \/ CooldownEnds \/ CheckDecoy \/ Replant

----------------------------------------------------------------------------
(* After a scan, whoever reads the data points knows the registry and the  *)
(* processes as they are: what did not change while the scan was under way *)
(* is shown as it is, however changes fell between the reads of earlier    *)
(* scans; and a decoy is planted again with an alarm.  Not so for a key    *)
(* that came anew or could not be opened, a pid that passed to another     *)
(* process between two lists, a decoy that was tampered with within the    *)
(* cooldown, and what the full channel dropped (scanChanges, checkKey;     *)
(* collect; check).                                                        *)
HostIsTold ==
    /\ regAt = "idle" =>
           \A k \in RegKeys \ (touched \cup excused) : shown[k] = reg[k]
    /\ procAt = "idle" =>
           \A p \in Pids \ (touched \cup excused) : shown[p] = proc[p]
    /\ decoy = "whole" => alarmed \/ "decoy" \in excused

(* What the data points say of a container becomes true of it again, as    *)
(* long as it exists, though two goroutines report it in any order and the *)
(* stream may break (streamEvents, collectContainers); and a decoy that    *)
(* was changed or deleted is planted again (check).                        *)
Behind ==
    \/ container # "none" /\ shown["container"] # container
    \/ decoy # "whole"

HostCatchesUp == Behind ~> ~Behind
=============================================================================
