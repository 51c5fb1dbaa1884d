------------------------------- MODULE RootCheck -------------------------------
(***************************************************************************)
(* The agent's rootkit checks on Linux: processes and ports that one view  *)
(* of the host shows and another hides, and files that have become SUID.   *)
(* The views are read one after the other while processes come and go; the *)
(* SUID files of the last scan are kept in memory and in a file.           *)
(***************************************************************************)
EXTENDS Integers, FiniteSets

CONSTANTS
    Pids, Ports, Families, \* process IDs, ports; tcp and tcp6
    Dirs, FileNames,       \* ScanDirs, and the names of files in them
    MaxEnds, MaxLooks, MaxScans, MaxScanFaults  \* bounds

ASSUME RootCheckAssumption ==
    /\ {MaxEnds, MaxLooks, MaxScans, MaxScanFaults} \subseteq Nat
    /\ Families # {}

VARIABLES
    checks,      \* the check that the configuration enables
    host,        \* [Things -> "none", "shown", "hidden" or "suid"]
    scan,        \* [step, first, suspects, left]
    suidBaseline, baselineFile, \* what the last scan found, in memory and in the file
    reported,    \* history: what the last scan told of
    ends,        \* history: how often each thing ended in it
    was,         \* history: what was what at some time of it
    stayed,      \* history: what was hidden, or SUID, all the time
    before,      \* history: [stayed, gone] of the scan before, where nothing failed
    blind,       \* history: a read or a write failed in the scan, or it was cut
    scans, scanFaults

baselines == <<suidBaseline, baselineFile>>
histories == <<ends, was, stayed, before>>
scanVars == <<checks, host, scan, baselines, reported, histories, blind, scans,
              scanFaults>>

Sockets == Ports \X Families
Paths == Dirs \X FileNames
Things == CASE checks = "processes" -> Pids
            [] checks = "ports"     -> Sockets
            [] checks = "suid"      -> Paths
Marks == IF checks = "suid" THEN {"suid"} ELSE {"shown", "hidden"}
Odd == IF checks = "suid" THEN "suid" ELSE "hidden"

With(mark) == {x \in Things : host[x] = mark}
Running == With("shown") \cup With("hidden")
NoScan == [step |-> "idle", first |-> {}, suspects |-> {}, left |-> {}]
NoHistory == [stayed |-> {}, gone |-> {}]

-----------------------------------------------------------------------------
(* The host (external)                                                     *)

ThingBegins(x, mark) ==
    /\ host[x] = "none" /\ host' = [host EXCEPT ![x] = mark]
    /\ was' = IF scan.step = "idle" THEN was ELSE was \cup {<<x, mark>>}
    /\ UNCHANGED <<checks, scan, baselines, reported, ends, stayed, before, blind,
                   scans, scanFaults>>

\* What ends leaves its PID, its port or its name for another.
ThingEnds(x) ==
    /\ host[x] # "none" /\ host' = [host EXCEPT ![x] = "none"]
    /\ IF scan.step = "idle" THEN UNCHANGED <<ends, stayed>>
       ELSE /\ ends[x] < MaxEnds /\ ends' = [ends EXCEPT ![x] = @ + 1]
            /\ stayed' = stayed \ {x}
    /\ UNCHANGED <<checks, scan, baselines, reported, was, before, blind, scans,
                   scanFaults>>

-----------------------------------------------------------------------------
(* checkHiddenProcesses, checkHiddenPorts                                  *)

\* The histories of a new scan
Begun ==
    /\ scan.step = "idle" /\ scans < MaxScans /\ scans' = scans + 1
    /\ before' = IF blind \/ scans = 0 THEN NoHistory
                 ELSE [stayed |-> stayed, gone |-> Things \ {t[1] : t \in was}]
    /\ reported' = {} /\ ends' = [x \in Things |-> 0] /\ blind' = FALSE
    /\ was' = {<<x, host[x]>> : x \in {y \in Things : host[y] # "none"}}
    /\ stayed' = With(Odd)

ToolFails == scanFaults < MaxScanFaults /\ scanFaults' = scanFaults + 1 /\ blind' = TRUE
ToolWorks == UNCHANGED <<scanFaults, blind>>

BeginScan ==
    /\ checks # "suid" /\ scans < MaxLooks /\ Begun
    /\ scan' = [NoScan EXCEPT !.step = "first",
                  !.left = IF checks = "ports" THEN Families ELSE {"/proc"}]
    /\ UNCHANGED <<checks, host, baselines, scanFaults>>

\* The first view: /proc, without which there is no check, or /proc/net/tcp and tcp6, of
\* which one that cannot be read has no ports
ReadFirst ==
    /\ scan.step = "first"
    /\ LET view == CHOOSE v \in scan.left : TRUE
           shown == {x \in Running : checks = "ports" => x[2] = view}
           read(things) ==
             [scan EXCEPT !.step = IF scan.left = {view} THEN "compare" ELSE "first",
                          !.first = @ \cup things, !.left = @ \ {view}]
       IN  \/ ToolWorks /\ scan' = read(shown)
           \/ ToolFails /\ scan' = (IF checks = "ports" THEN read({}) ELSE NoScan)
    /\ UNCHANGED <<checks, host, baselines, reported, histories, scans>>

Unseen(first, second) ==
    IF checks = "processes" THEN first \ second
    ELSE {s \in first : s[1] \notin {x[1] : x \in second}}

\* ps or ss: ports are told of at once, processes are looked at again after 200 ms.
CompareViews ==
    /\ scan.step = "compare"
    /\ LET missing == Unseen(scan.first, With("shown"))
       IN  \/ ToolFails /\ scan' = NoScan /\ UNCHANGED reported
           \/ /\ ToolWorks /\ (checks = "ports" \/ missing = {})
              /\ scan' = NoScan /\ reported' = missing
           \/ /\ ToolWorks /\ checks = "processes" /\ missing # {}
              /\ scan' = [NoScan EXCEPT !.step = "recheck", !.suspects = missing]
              /\ UNCHANGED reported
    /\ UNCHANGED <<checks, host, baselines, histories, scans>>

\* The second read of /proc; without it nothing is told of.
ReadProcAgain ==
    /\ scan.step = "recheck"
    /\ \/ ToolWorks /\ scan' = [scan EXCEPT !.step = "confirm", !.first = Running]
       \/ ToolFails /\ scan' = [scan EXCEPT !.step = "confirm"]
    /\ UNCHANGED <<checks, host, baselines, reported, histories, scans>>

\* Mutant: processes that are gone are told of too.
ConfirmGone ==
    /\ scan.step = "confirm"
    /\ \/ ToolWorks /\ reported' = scan.suspects \ With("shown")
       \/ ToolFails /\ reported' = scan.suspects \cap scan.first
    /\ scan' = NoScan
    /\ UNCHANGED <<checks, host, baselines, histories, scans>>

\* ... and of ps: where it fails, it shows nothing.
Confirm ==
    /\ scan.step = "confirm"
    /\ \/ ToolWorks /\ reported' = (scan.suspects \cap scan.first) \ With("shown")
       \/ ToolFails /\ reported' = scan.suspects \cap scan.first
    /\ scan' = NoScan
    /\ UNCHANGED <<checks, host, baselines, histories, scans>>

-----------------------------------------------------------------------------
(* checkSUIDFiles                                                          *)

BeginWalk ==
    /\ checks = "suid" /\ Begun
    /\ scan' = [NoScan EXCEPT !.step = "walk", !.left = Dirs]
    /\ UNCHANGED <<checks, host, baselines, scanFaults>>

\* A directory: what is not in the baseline is told of, as far as the channel takes it.
\* One that cannot be read has no files.
WalkDir(dir) ==
    /\ scan.step = "walk" /\ dir \in scan.left
    /\ LET found == {p \in With("suid") : p[1] = dir}
           walked(files) == [scan EXCEPT !.first = @ \cup files, !.left = @ \ {dir}]
           new == found \ suidBaseline
       IN  \/ ToolWorks /\ scan' = walked(found) /\ reported' = reported \cup new
           \/ ToolFails /\ scan' = walked(found) /\ new # {} /\ UNCHANGED reported
           \/ ToolFails /\ scan' = walked({}) /\ UNCHANGED reported
    /\ UNCHANGED <<checks, host, baselines, histories, scans>>

\* The found files are the new baseline, and its file is cut to nothing,
Promote ==
    /\ scan.step = "walk" /\ scan.left = {}
    /\ suidBaseline' = scan.first /\ baselineFile' = {}
    /\ scan' = [NoScan EXCEPT !.step = "save"]
    /\ UNCHANGED <<checks, host, reported, histories, blind, scans, scanFaults>>

\* ... and written. A part of it may be all that is.
SaveBaseline ==
    /\ scan.step = "save" /\ scan' = NoScan
    /\ \/ ToolWorks /\ baselineFile' = suidBaseline
       \/ ToolFails /\ baselineFile' \in SUBSET suidBaseline
    /\ UNCHANGED <<checks, host, suidBaseline, reported, histories, scans>>

\* The agent starts again with what was saved.
RestartScan ==
    /\ checks = "suid" /\ scanFaults < MaxScanFaults /\ scanFaults' = scanFaults + 1
    /\ suidBaseline' = baselineFile /\ scan' = NoScan
    /\ blind' = (blind \/ scan.step # "idle")
    /\ UNCHANGED <<checks, host, baselineFile, reported, histories, scans>>

RootCheckInit(which) ==
    /\ checks \in which /\ host \in [Things -> Marks \cup {"none"}]
    /\ scan = NoScan /\ suidBaseline = {} /\ baselineFile = {}
    /\ reported = {} /\ was = {} /\ stayed = {}
    /\ ends = [x \in Things |-> 0] /\ before = NoHistory /\ blind = FALSE
    /\ scans = 0 /\ scanFaults = 0

RootCheckStep ==
    \/ \E x \in Things : ThingEnds(x) \/ \E mark \in Marks : ThingBegins(x, mark)
    \/ BeginScan \/ ReadFirst \/ CompareViews \/ ReadProcAgain \/ Confirm
    \/ BeginWalk \/ (\E d \in Dirs : WalkDir(d)) \/ Promote \/ SaveBaseline \/ RestartScan

-----------------------------------------------------------------------------

Told(x) == x \in reported
Shown(x) == <<x, "shown">> \in was
Hid(x) == <<x, "hidden">> \in was

\* A process that hides from ps throughout a scan is told of. One that does not hide is
\* told of only if its ID was left by two processes while the scan went on, or by one
\* and ps failed; without the second look (checkHiddenProcesses) one would do.
HiddenProcessTold ==
    (checks = "processes" /\ scan.step = "idle") =>
        /\ ~blind => stayed \subseteq reported
        /\ \A p \in reported : Hid(p) \/ ends[p] >= (IF blind THEN 1 ELSE 2)

\* A port that hides from ss is told of, unless a socket of the same number does not
\* hide; a port that does not hide only if it was closed in the scan.
HiddenPortTold ==
    (checks = "ports" /\ scan.step = "idle") =>
        /\ ~blind => \A s \in stayed : Told(s) \/ \E f \in Families : Shown(<<s[1], f>>)
        /\ \A s \in reported : Hid(s) \/ ends[s] >= 1

\* A file that was SUID throughout two scans is not told of in the second, and one that
\* was not at any time of the first and is throughout the second is, also if the agent
\* was started again between them.
NewSuidTold ==
    (checks = "suid" /\ scan.step = "idle") =>
        /\ reported \subseteq {t[1] : t \in was}
        /\ (before.stayed \cap stayed) \cap reported = {}
        /\ ~blind => (before.gone \cap stayed) \subseteq reported
=============================================================================
