---------------------------- MODULE Collection ----------------------------
(***************************************************************************)
(* The collectors of the agent that keep a state of their own: a cloud     *)
(* source, a tailed file, the watched files, a ransomware canary, registry *)
(* keys, processes, containers, registry decoys.  They share nothing but   *)
(* the process, each with its goroutines and its own channel, so a         *)
(* behaviour follows one of them, the subject; the others rest.            *)
(***************************************************************************)
EXTENDS CloudPoll, LogTail, FileWatch, HostChanges

VARIABLE subject

vars == <<subject, cloudVars, tailVars, watchVars, canaryVars, hostVars>>

HostCollectors == {"registry", "process", "docker", "registry_deception"}
Collectors == {"cloud", "logs", "fim", "ransomware_canary"} \cup HostCollectors

Init ==
    /\ subject \in Collectors
    /\ CloudInit  /\ (subject # "cloud" => api = GuardDuty)
    /\ TailInit   /\ (subject # "logs" => ~multiline)
    /\ WatchInit  /\ (subject # "fim" => /\ disk = [f \in Files |-> Gone]
                                         /\ mode = [f \in Files |-> CHOOSE m \in Modes : TRUE])
    /\ CanaryInit
    /\ HostInit   /\ (subject # "registry" => reg = Absent)

CloudStep == /\ subject = "cloud" /\ CloudNext
             /\ UNCHANGED <<subject, tailVars, watchVars, canaryVars, hostVars>>
TailStep  == /\ subject = "logs" /\ TailNext
             /\ UNCHANGED <<subject, cloudVars, watchVars, canaryVars, hostVars>>
WatchStep == /\ subject = "fim" /\ WatchNext
             /\ UNCHANGED <<subject, cloudVars, tailVars, canaryVars, hostVars>>
CanaryStep == /\ subject = "ransomware_canary" /\ CanaryNext
              /\ UNCHANGED <<subject, cloudVars, tailVars, watchVars, hostVars>>

HostStep == /\ \/ subject = "registry" /\ RegistryNext
               \/ subject = "process" /\ ProcessNext
               \/ subject = "docker" /\ DockerNext
               \/ subject = "registry_deception" /\ DecoyNext
            /\ UNCHANGED <<subject, cloudVars, tailVars, watchVars, canaryVars>>

Next == CloudStep \/ TailStep \/ WatchStep \/ CanaryStep \/ HostStep

Spec == Init /\ [][Next]_vars

(* What the timers and the scheduler give each collector: a poll follows   *)
(* every tick of the cloud collector's timer (Start); the loop of the file *)
(* collector takes events and ticks as they come, and a scan goes through  *)
(* every file (runWatch); the canary's timer fires and a goroutine that is *)
(* inside evaluate runs on (pollLoop); containers are listed and decoys    *)
(* checked at every tick.                                                  *)
Fairness ==
    /\ WF_cloudVars(subject = "cloud" /\ PollSome)
    /\ WF_watchVars(subject = "fim" /\ HandleEvent)
    /\ \A f \in Files : WF_watchVars(subject = "fim" /\ ScanFile(f))
    /\ WF_canaryVars(subject = "ransomware_canary" /\ Evaluate("pollLoop"))
    /\ \A w \in Watchers : WF_canaryVars(subject = "ransomware_canary" /\ Step(w))
    /\ WF_hostVars(subject = "docker" /\ (AskList \/ EmitList))
    /\ WF_hostVars(subject = "registry_deception" /\ (CheckDecoy \/ Replant))

LiveSpec == Spec /\ Fairness

\* A cloud source and the list of containers catch up with what happened while
\* they could not be asked.
AllCatchUp == CatchesUp /\ HostCatchesUp
=============================================================================
