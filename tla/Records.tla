-------------------------------- MODULE Records --------------------------------
(***************************************************************************)
(* Tables of the manager that are meant to be kept for long: the chain of  *)
(* audit records, the versions of a rule file, the roster of the SOC with  *)
(* the sync that seeds it from LDAP, and the alerts in monthly partitions  *)
(* with their maintenance. They share nothing.                             *)
(***************************************************************************)
EXTENDS Integers, Sequences, FiniteSets, FiniteSetsExt

CONSTANTS
    Loggers,              \* API handlers and registrations that log
    Savers, Seeder,       \* handlers of SaveVersion, and seedRuleVersions
    Engineers, InGroup,   \* accounts, and those in soc_group
    Syncs,                \* the ticker's sync and the API's
    FirstAhead, MonthsAhead, MonthsKeep, \* of partitions made first, later and kept
    MaxRecords, MaxRuns, MaxSaves, MaxEdits, MaxMonths, MaxRecordFaults  \* bounds

ASSUME RecordsAssumption ==
    /\ {FirstAhead, MonthsAhead, MonthsKeep, MaxRecords, MaxRuns, MaxSaves, MaxEdits,
        MaxMonths, MaxRecordFaults} \subseteq Nat
    /\ MonthsAhead >= 1
    /\ InGroup \subseteq Engineers /\ Seeder \notin Savers

VARIABLES
    prevHash,    \* Logger.prevHash: the record it is the hash of, or Genesis
    manager,     \* the run of the manager that issues records
    issued,      \* all records: [prev, manager]
    logging,     \* [Loggers -> record on its way to the sink, or Genesis]
    indexed,     \* records in the audit index
    erased,      \* history: those removed from it
    ruleVersions, \* rule_versions of a file: sequence of [version, sure, began]
    saving,      \* [Savers \cup {Seeder} -> [pc, max, sure, began]]
    roster,      \* [Engineers -> "none", "default" (as seeded) or "edited"]
    syncing,     \* [Syncs -> [pc, left, listed]]
    edits,       \* how often operators changed the roster
    stale,       \* history: edited since a running sync listed the roster
    reset,       \* history: edits a sync undid that were not stale
    month, serving,  \* the manager runs
    partitions,  \* months of which alerts has a partition
    alerts,      \* all alerts that were inserted: a sequence of months
    live,        \* those still in a partition
    cared,       \* ensure_future_partitions was called in this month
    ensured,     \* history: ensure_future_partitions succeeded when last called
    refused,     \* history: an alert had no partition although it had
    recordFaults

auditVars == <<prevHash, manager, issued, logging, indexed, erased>>
versionVars == <<ruleVersions, saving>>
rosterVars == <<roster, syncing, edits, stale, reset>>
alertVars == <<month, serving, partitions, alerts, live, cared, ensured, refused>>
recordVars == <<auditVars, versionVars, rosterVars, alertVars, recordFaults>>

Genesis == 0
NotSaving == [pc |-> "rest", max |-> 0, sure |-> TRUE, began |-> 0]
NotSyncing == [pc |-> "rest", left |-> {}, listed |-> TRUE]

RecordsInit ==
    /\ prevHash = Genesis /\ manager = 1 /\ issued = <<>> /\ indexed = {} /\ erased = {}
    /\ logging = [c \in Loggers |-> Genesis]
    /\ ruleVersions = <<>> /\ saving = [s \in Savers \cup {Seeder} |-> NotSaving]
    /\ roster = [e \in Engineers |-> "none"] /\ edits = 0 /\ reset = {}
    /\ syncing = [s \in Syncs |-> NotSyncing] /\ stale = [s \in Syncs |-> {}]
    /\ month = 0 /\ serving = TRUE /\ partitions = 0..FirstAhead
    /\ alerts = <<>> /\ live = {} /\ cared = FALSE /\ ensured = TRUE /\ refused = FALSE
    /\ recordFaults = 0

Failing == recordFaults < MaxRecordFaults /\ recordFaults' = recordFaults + 1

-----------------------------------------------------------------------------
(* The audit log: a hash stands for the record that it is of.              *)

\* Mutant: the link is only moved when the record is handed on.
LogAndLinkLater(c) ==
    /\ logging[c] = Genesis /\ Len(issued) < MaxRecords
    /\ issued' = Append(issued, [prev |-> prevHash, manager |-> manager])
    /\ logging' = [logging EXCEPT ![c] = Len(issued')]
    /\ UNCHANGED <<prevHash, manager, indexed, erased>>

\* Log, under its mutex
Log(c) ==
    /\ logging[c] = Genesis /\ Len(issued) < MaxRecords
    /\ issued' = Append(issued, [prev |-> prevHash, manager |-> manager])
    /\ prevHash' = Len(issued')
    /\ logging' = [logging EXCEPT ![c] = Len(issued')]
    /\ UNCHANGED <<manager, indexed, erased>>

\* Without the mutex, in any order of the loggers: the sink takes the record and
\* it is indexed some time, or it is dropped on the way.
Ingest(c) ==
    /\ logging[c] # Genesis /\ logging' = [logging EXCEPT ![c] = Genesis]
    /\ indexed' \in {indexed, indexed \cup {logging[c]}}
    /\ UNCHANGED <<prevHash, manager, issued, erased>>

\* A manager that starts again begins a chain.
RestartLogger ==
    /\ manager < MaxRuns /\ manager' = manager + 1 /\ prevHash' = Genesis
    /\ logging' = [c \in Loggers |-> Genesis]
    /\ UNCHANGED <<issued, indexed, erased>>

\* What the chain is there to tell.
Erase ==
    /\ \E r \in indexed : indexed' = indexed \ {r} /\ erased' = erased \cup {r}
    /\ UNCHANGED <<prevHash, manager, issued, logging>>

AuditStep ==
    /\ \/ \E c \in Loggers : Log(c) \/ Ingest(c)
       \/ RestartLogger \/ Erase
    /\ UNCHANGED <<versionVars, rosterVars, alertVars, recordFaults>>

-----------------------------------------------------------------------------
(* The versions of a rule file                                             *)

\* Mutant: the version of the row that was inserted last.
Latest == IF ruleVersions = <<>> THEN 0 ELSE ruleVersions[Len(ruleVersions)].version

Highest == Max({ruleVersions[i].version : i \in DOMAIN ruleVersions} \cup {0})

\* SaveRuleVersion reads the highest version (0 when that fails)
ReadMax(s) ==
    /\ saving[s].pc = (IF s = Seeder THEN "absent" ELSE "rest")
    /\ Len(ruleVersions) < MaxSaves
    /\ LET Read(m, ok) == saving' = [saving EXCEPT ![s] =
             [pc |-> "insert", max |-> m, sure |-> ok, began |-> Len(ruleVersions)]]
       IN  \/ Read(Highest, TRUE) /\ UNCHANGED recordFaults
           \/ Read(0, FALSE) /\ Failing
    /\ UNCHANGED ruleVersions

\* and inserts its row.
InsertRow(s) ==
    /\ saving[s].pc = "insert"
    /\ ruleVersions' = Append(ruleVersions, [version |-> saving[s].max + 1,
                              sure |-> saving[s].sure, began |-> saving[s].began])
    /\ saving' = [saving EXCEPT ![s] = [NotSaving EXCEPT
                                   !.pc = IF s = Seeder THEN "done" ELSE "rest"]]
    /\ UNCHANGED recordFaults

\* seedRuleVersions imports a file that has no version when it lists them.
SeedLists ==
    /\ saving[Seeder].pc = "rest"
    /\ saving' = [saving EXCEPT ![Seeder].pc = IF ruleVersions = <<>> THEN "absent" ELSE "done"]
    /\ UNCHANGED <<ruleVersions, recordFaults>>

VersionStep ==
    /\ SeedLists \/ \E s \in Savers \cup {Seeder} : ReadMax(s) \/ InsertRow(s)
    /\ UNCHANGED <<auditVars, rosterVars, alertVars>>

-----------------------------------------------------------------------------
(* The roster                                                              *)

\* An operator creates, changes or removes an engineer.
Edit ==
    /\ edits < MaxEdits /\ edits' = edits + 1
    /\ \E e \in Engineers, to \in {"edited", "none"} :
         /\ roster' = [roster EXCEPT ![e] = to]
         /\ stale' = [s \in Syncs |-> IF syncing[s].pc = "seed" THEN stale[s] \cup {e} ELSE {}]
    /\ UNCHANGED <<syncing, reset, recordFaults>>

\* socSeedCandidates
SeedCandidates(existing) == InGroup \ existing

\* sync, once the users were fetched; a roster that cannot be listed counts as
\* empty.
ListRoster(s) ==
    /\ syncing[s].pc = "rest"
    /\ LET Listed(existing, ok) ==
             syncing' = [syncing EXCEPT ![s] = [pc |-> "seed", listed |-> ok,
                                               left |-> SeedCandidates(existing)]]
       IN  \/ /\ Listed({e \in Engineers : roster[e] # "none"}, TRUE)
              /\ UNCHANGED recordFaults
           \/ Listed({}, FALSE) /\ Failing
    /\ stale' = [stale EXCEPT ![s] = {}]
    /\ UNCHANGED <<roster, edits, reset>>

\* UpsertSOCEngineer of a candidate with the defaults; one that fails is left out.
SeedEngineer(s) ==
    /\ \E e \in syncing[s].left :
         /\ syncing' = [syncing EXCEPT ![s].left = @ \ {e}]
         /\ \/ /\ roster' = [roster EXCEPT ![e] = "default"]
               /\ reset' = IF roster[e] = "edited" /\ syncing[s].listed /\ e \notin stale[s]
                           THEN reset \cup {e} ELSE reset
               /\ UNCHANGED recordFaults
            \/ UNCHANGED <<roster, reset>> /\ Failing
    /\ UNCHANGED <<edits, stale>>

SyncEnds(s) ==
    /\ syncing[s].pc = "seed" /\ syncing[s].left = {}
    /\ syncing' = [syncing EXCEPT ![s] = NotSyncing] /\ stale' = [stale EXCEPT ![s] = {}]
    /\ UNCHANGED <<roster, edits, reset, recordFaults>>

RosterStep ==
    /\ Edit \/ \E s \in Syncs : ListRoster(s) \/ SeedEngineer(s) \/ SyncEnds(s)
    /\ UNCHANGED <<auditVars, versionVars, alertVars>>

-----------------------------------------------------------------------------
(* The alerts, in partitions of a month                                    *)

\* drop_empty_old_partitions
Droppable(m) == m < month - MonthsKeep /\ \A a \in live : alerts[a] # m

\* ensure_future_partitions
EnsurePartitions ==
    \/ /\ partitions' = partitions \cup month..(month + MonthsAhead) /\ ensured' = TRUE
       /\ UNCHANGED recordFaults
    \/ ensured' = FALSE /\ UNCHANGED partitions /\ Failing

\* InsertAlert, of an alert of now; the engine goes on without a row for one that
\* is refused.
InsertAlert ==
    /\ serving /\ Len(alerts) < MaxMonths + 1
    /\ IF month \in partitions
       THEN /\ alerts' = Append(alerts, month) /\ live' = live \cup {Len(alerts')}
            /\ UNCHANGED refused
       ELSE refused' = (refused \/ ensured) /\ UNCHANGED <<alerts, live>>
    /\ UNCHANGED <<month, serving, partitions, cared, ensured, recordFaults>>

\* A month ends in which the manager, if it runs, called the maintenance: it does
\* when it starts and every day after.
MonthPasses ==
    /\ month < MaxMonths /\ (serving => cared)
    /\ month' = month + 1 /\ cared' = FALSE
    /\ UNCHANGED <<serving, partitions, alerts, live, ensured, refused, recordFaults>>

\* runMaintenanceLoop, daily: ArchiveOldAlerts finds nothing to move, no alert is
\* ever marked as forwarded.
DailyMaintenance ==
    /\ serving /\ EnsurePartitions /\ cared' = TRUE
    /\ UNCHANGED <<month, serving, alerts, live, refused>>

\* runMaintenanceLoop, after 30 days
MonthlyMaintenance ==
    /\ serving /\ partitions' = {m \in partitions : ~Droppable(m)}
    /\ live' = {a \in live : alerts[a] \in partitions'}
    /\ UNCHANGED <<month, serving, alerts, cared, ensured, refused, recordFaults>>

Stop ==
    /\ serving /\ serving' = FALSE
    /\ UNCHANGED <<month, partitions, alerts, live, cared, ensured, refused, recordFaults>>

\* main, before it serves: a failure is logged, the next try is a day away.
Start ==
    /\ ~serving /\ serving' = TRUE /\ EnsurePartitions /\ cared' = TRUE
    /\ UNCHANGED <<month, alerts, live, refused>>

AlertStep ==
    /\ InsertAlert \/ MonthPasses \/ DailyMaintenance \/ MonthlyMaintenance \/ Stop \/ Start
    /\ UNCHANGED <<auditVars, versionVars, rosterVars>>

-----------------------------------------------------------------------------
\* The tables side by side
RecordsNext == AuditStep \/ VersionStep \/ RosterStep \/ AlertStep
RecordsSpec == RecordsInit /\ [][RecordsNext]_recordVars

-----------------------------------------------------------------------------
(* Properties                                                              *)

\* No two records of a run continue the same one, whatever handlers log at once
\* and in whatever order the sink takes their records; so a record that is
\* removed from the index shows, as the one that some record left there continues
\* is missing, unless nothing of its run was indexed after it.
ChainTellsTampering ==
    LET Missing(r) == issued[r].prev # Genesis /\ issued[r].prev \notin indexed
    IN  /\ \A r, s \in DOMAIN issued :
             r # s /\ issued[r].manager = issued[s].manager => issued[r].prev # issued[s].prev
        /\ \A e \in erased :
             LET after == {r \in indexed : r > e /\ issued[r].manager = issued[e].manager}
             IN  after # {} => \E r \in after : Missing(r)

\* A version saved after another one was saved has a higher number, as long as
\* the query for the highest worked.
VersionsNumbered ==
    \A i, j \in DOMAIN ruleVersions :
        (i <= ruleVersions[j].began /\ ruleVersions[j].sure)
            => ruleVersions[i].version < ruleVersions[j].version

\* "Existing entries are left untouched so operator edits are preserved": a sync
\* that could list the roster undoes no edit made before it did.
RosterKept == reset = {}

\* Every alert inserted is in a partition (nothing is ever archived), and none is
\* refused unless making partitions failed when it was last tried, however long
\* the manager runs or is away.
AlertsKept == ~refused /\ \A a \in DOMAIN alerts : a \in live /\ alerts[a] \in partitions

\* What users and the engine gave these tables is there, in the order they gave it.
TablesKept == VersionsNumbered /\ RosterKept /\ AlertsKept

\* The tables of records: no two logs continue one record of the chain, so that what
\* is removed shows, and versions, roster and partitions are kept.
TablesHold == ChainTellsTampering /\ TablesKept
=============================================================================
