---------------------------- MODULE Enforcement ----------------------------
(***************************************************************************)
(* What the agent does on its host at the manager's or its own bidding:    *)
(* the firewall, quarantined files and forensic bundles, its own binary    *)
(* and configuration file.  These share nothing but the process, so a      *)
(* behaviour follows one of them, the subject; the others rest.            *)
(***************************************************************************)
EXTENDS ActiveResponse, Evidence, SelfUpdate

VARIABLE subject

agentVars == <<subject, responseVars, evidenceVars, updateVars, integrityVars>>

Subjects == {"response", "quarantine", "artifact", "update", "integrity"}

AgentInit ==
    /\ subject \in Subjects
    /\ ResponseInit /\ EvidenceInit
    /\ UpdateInit /\ (subject # "update" => offer = Version + 1)
    /\ IntegrityInit /\ (subject # "integrity" => config = CHOOSE c \in ConfigTexts : TRUE)

ResponseStep ==
    /\ subject = "response" /\ ResponseNext
    /\ UNCHANGED <<subject, evidenceVars, updateVars, integrityVars>>
EvidenceStep ==
    /\ \/ subject = "quarantine" /\ FilesNext
       \/ subject = "artifact" /\ BundlesNext
    /\ UNCHANGED <<subject, responseVars, updateVars, integrityVars>>
UpdateStep ==
    /\ subject = "update" /\ UpdateNext
    /\ UNCHANGED <<subject, responseVars, evidenceVars, integrityVars>>
IntegrityStep ==
    /\ subject = "integrity" /\ IntegrityNext
    /\ UNCHANGED <<subject, responseVars, evidenceVars, updateVars>>

AgentNext == ResponseStep \/ EvidenceStep \/ UpdateStep \/ IntegrityStep

AgentSpec == AgentInit /\ [][AgentNext]_agentVars

(* A goroutine that runs a command goes on, a timer goroutine wakes and    *)
(* gets the lock in the end (Go's mutexes do not starve); the checker's    *)
(* ticker ticks.                                                           *)
Fairness ==
    /\ \A g \in Goroutines : WF_responseVars(subject = "response" /\ Proceed(g))
    /\ WF_integrityVars(subject = "integrity" /\ Checker)

LiveAgentSpec == AgentSpec /\ Fairness
=============================================================================
