------------------------------- MODULE Services -------------------------------
(***************************************************************************)
(* Services of the manager beside the engine: the behaviour analytics, in  *)
(* three independent parts (logins, programs, alert volumes), the token    *)
(* buckets of VirusTotal, the notifier and the API, the comparison of      *)
(* versions and the vulnerability database, the tables of audit records,   *)
(* rule versions, SOC engineers and alerts, the syslog receiver and its    *)
(* decoders, and the matching, addition and conversion of rules; of the    *)
(* agent, the record of who changed a file and the rootkit checks.  These  *)
(* share nothing, so a behaviour follows one of them, the subject.         *)
(***************************************************************************)
EXTENDS Behaviour, Notices, VulnDb, Records, SyslogInput, RuleMatching,
        AuditTrail, RootCheck

CONSTANT FirstAnalyzer   \* the analysis that runs when one is enough

ASSUME FirstAnalyzer \in Analyzers

VARIABLE subject

inputVars == <<decoderVars, receiverVars, ruleVars, trailVars, scanVars>>
vars == <<subject, behaviourVars, noticeVars, vulnVars, recordVars, inputVars>>

Subjects == {"logins", "programs", "volumes", "virustotal", "notifier", "api",
             "versions", "vulnerabilities", "audit", "rules", "roster", "alerts",
             "decoders", "receiver", "matching", "adding", "sigma",
             "whodata", "rootcheck"}

\* What is not the subject starts in one of its states. Additions meet workers over plain
\* rules; what a rule can demand is looked at apart.
If(this, all, one) == IF subject = this THEN all ELSE {one}

\* The feed begins with a pinned version or a range that has a lower end; it may be
\* corrected to any other.
FirstFeeds ==
    {{m} : m \in {n \in CpeMatches : n.os # "any" /\ (n.from # NoBound \/ n.pinned # NoBound)}}

Init ==
    /\ subject \in Subjects
    /\ BehaviourInit
    /\ totals \in If("volumes", [Hosts -> 0..MaxTotal], [h \in Hosts |-> 0])
    /\ NoticesInit
    /\ VulnInit /\ feed \in If("vulnerabilities", FirstFeeds, {Everything})
    /\ RecordsInit
    /\ DecodersInit(If("decoders", ShippedSeqs,
                       [i \in 1..Cardinality(ShippedNames) |-> PlainDecoder(i)]))
    /\ ReceiverInit(If("receiver", Wires, <<>>))
    /\ MatchInit(If("matching", RuleFiles, PlainFiles), If("matching", DecoderSeqs, <<>>))
    /\ TrailInit
    /\ RootCheckInit(If("rootcheck", {"processes", "ports", "suid"}, "suid"))
    /\ subject # "rootcheck" => host = [x \in Things |-> "none"]

\* A window is judged on its own: one analysis follows the events of an agent.
LoginStep ==
    /\ subject = "logins"
    /\ \/ TimePasses
       \/ \E w \in Workers : TrackLogin(w) \/ RecordUser(w)
       \/ AnalysisStep(FirstAnalyzer) /\ analyses' <= 1
    /\ UNCHANGED <<subject, noticeVars, vulnVars, recordVars, inputVars>>

\* Overlapping analyses meet in the hashes that are known.
ProgramStep ==
    /\ subject = "programs"
    /\ \/ TimePasses \/ TrackProgram
       \/ \E a \in Analyzers : AnalysisStep(a)
    /\ UNCHANGED <<subject, noticeVars, vulnVars, recordVars, inputVars>>

VolumeStep ==
    /\ subject = "volumes"
    /\ AnalyzeVolumes \/ \E h \in Hosts : RaiseAlert(h)
    /\ UNCHANGED <<subject, noticeVars, vulnVars, recordVars, inputVars>>

MeterStep ==
    /\ \/ subject \in {"virustotal", "notifier", "api"} /\ Tick
       \/ subject = "virustotal" /\ \E c \in Callers : VirusTotal(c)
       \/ subject = "notifier" /\ \E c \in Callers : Notifier(c)
       \/ subject = "api" /\ (Cleanup \/ \E c \in Callers : ApiClient(c))
    /\ UNCHANGED <<subject, behaviourVars, vulnVars, recordVars, inputVars>>

VulnerabilityStep ==
    /\ \/ subject = "versions" /\ Compare
       \/ subject = "vulnerabilities" /\ VulnStep
    /\ UNCHANGED <<subject, behaviourVars, noticeVars, recordVars, inputVars>>

RecordStep ==
    /\ \/ subject = "audit" /\ AuditStep
       \/ subject = "rules" /\ VersionStep
       \/ subject = "roster" /\ RosterStep
       \/ subject = "alerts" /\ AlertStep
    /\ UNCHANGED <<subject, behaviourVars, noticeVars, vulnVars, inputVars>>

\* The receiver and its decoders
SyslogStep ==
    /\ \/ subject = "decoders" /\ DecoderStep /\ UNCHANGED receiverVars
       \/ subject = "receiver" /\ ReceiverStep /\ UNCHANGED decoderVars
    /\ UNCHANGED <<subject, behaviourVars, noticeVars, vulnVars, recordVars, ruleVars,
                    trailVars, scanVars>>

RuleStep ==
    /\ \/ subject = "matching" /\ \E w \in Matchers : MatchTyped(w) \/ MatchAny(w)
       \/ subject = "adding" /\ MatchStep
       \/ subject = "sigma" /\ ConvertSigma
    /\ UNCHANGED <<subject, behaviourVars, noticeVars, vulnVars, recordVars, decoderVars,
                    receiverVars, trailVars, scanVars>>

AgentStep ==
    /\ \/ subject = "whodata" /\ TrailStep /\ UNCHANGED scanVars
       \/ subject = "rootcheck" /\ RootCheckStep /\ UNCHANGED trailVars
    /\ UNCHANGED <<subject, behaviourVars, noticeVars, vulnVars, recordVars, decoderVars,
                    receiverVars, ruleVars>>

Next ==
    \/ LoginStep \/ ProgramStep \/ VolumeStep \/ MeterStep \/ VulnerabilityStep
    \/ RecordStep \/ SyslogStep \/ RuleStep \/ AgentStep

Spec == Init /\ [][Next]_vars

\* What is out of the ordinary is told, and nothing else: by the analytics of behaviour
\* (AnomaliesTold), and by the agent's search for processes and ports that hide and for
\* files that became SUID (HiddenProcessTold, HiddenPortTold, NewSuidTold).
OddTold ==
    /\ subject \in {"logins", "programs", "volumes"} => AnomaliesTold
    /\ subject = "rootcheck" => HiddenProcessTold /\ HiddenPortTold /\ NewSuidTold

\* What is read from others. Syslog: the decoders in use are those that were accepted,
\* those of a program come before those for any, and the lines of a connection arrive once,
\* in order and whole (DecodersKept, SpecificWins, LinesInOrder). auditd: the records are
\* whole, and the user named for a changed file is the one of the record that named the
\* file last (RecordsWhole, WhoIsNamed).
LogsRead ==
    /\ subject = "decoders" => DecodersKept /\ SpecificWins
    /\ subject = "receiver" => LinesInOrder
    /\ subject = "whodata" => RecordsWhole /\ WhoIsNamed

\* A rule is applied to what it means, exactly once: one from the files or the API by
\* the workers (RulesApplied), one that was converted from Sigma in what its matches
\* demand (SigmaMissesNothing).
RulesMatch ==
    /\ subject \in {"matching", "adding"} => RulesApplied
    /\ subject = "sigma" => SigmaMissesNothing

\* Versions are compared in Debian's order, and what the database reports follows the
\* ranges of the feed (VersionsOrdered, RangesFollowed).
VulnsFollowed ==
    /\ subject = "versions" => VersionsOrdered
    /\ subject = "vulnerabilities" => RangesFollowed
=============================================================================
