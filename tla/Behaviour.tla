------------------------------ MODULE Behaviour ------------------------------
(***************************************************************************)
(* User and entity behaviour analytics: what the engine's workers note of  *)
(* logins and processes (EventCollector), and what an analysis makes of it *)
(* (Analyzer). Analyses are started by the ticker and by the API, and may  *)
(* overlap. One agent is followed, and the alert volumes of all hosts.     *)
(***************************************************************************)
EXTENDS Integers, Sequences, FiniteSets, FiniteSetsExt, Functions

CONSTANTS
    Addresses, NoAddress,  \* sources of logins; an event may name none
    Users, Hashes,
    Workers, Analyzers,
    Keep, Hour, Quiet,     \* windowDays, an hour, the deduper's window
    Late,                  \* how old an event may be when it arrives
    FailMin, UserFails,    \* bruteForceFailMin, and the limit for a user
    Hosts, Group,          \* Group: the hosts of the one role group
    MinSamples, Sigma,
    MaxClock, MaxTracked, MaxPrograms, MaxTotal, MaxAnalyses   \* bounds

ASSUME BehaviourAssumption ==
    /\ {Keep, Hour, Quiet, Late, UserFails, MinSamples} \subseteq Nat
    /\ {FailMin, Sigma} \subseteq Nat \ {0}
    /\ {MaxClock, MaxTracked, MaxPrograms, MaxTotal, MaxAnalyses} \subseteq Nat
    /\ NoAddress \notin Addresses /\ Group \subseteq Hosts

VARIABLES
    clock,
    logins,     \* loginWindow.entries of the agent: [at, from, failed]
    programs,   \* processWindow.entries of the agent: [at, hash]
    failures,   \* [Users -> Nat]: userWindow.failures
    half,       \* [Workers -> Users \cup {None}]: what trackLoginEvent still records
    analysis,   \* [Analyzers -> [pc, taken, logins, programs, failures, upTo, next]]
    hashMu,     \* its holder, or None
    knownHashes,
    lastSeen,   \* the deduper's entry of a kind (rule, agent and key are its alone)
    totals,     \* [Hosts -> Nat]: alerts of seven days
    analyses,   \* how many were started
    arrived,    \* history: all logins
    attacked,   \* history: [Analyzers -> addresses taken for a successful attack]
    firsts,     \* history: [Hashes -> Nat], first_seen_process anomalies
    outliers,   \* history: the totals an analysis just read and whom it flagged
    unalerted   \* history: anomalies whose row names no alert

signals == <<logins, programs, failures, half, arrived>>
verdicts == <<analysis, hashMu, knownHashes, lastSeen, attacked, firsts, unalerted>>
volumes == <<totals, outliers>>
behaviourVars == <<clock, signals, verdicts, volumes, analyses>>

None == "none"
Kinds == {"brute_force_success", "first_seen_process", "user_multiple_failures"}
Idle == [pc |-> "idle", taken |-> 0, logins |-> <<>>, programs |-> <<>>,
         failures |-> [u \in Users |-> 0], upTo |-> 0, next |-> 0]

Nothing == [read |-> <<>>, told |-> {}, peers |-> {}]

BehaviourInit ==
    /\ clock = 0 /\ analyses = 0
    /\ logins = <<>> /\ programs = <<>> /\ arrived = <<>>
    /\ failures = [u \in Users |-> 0] /\ half = [w \in Workers |-> None]
    /\ analysis = [a \in Analyzers |-> Idle]
    /\ hashMu = None /\ knownHashes = {} /\ lastSeen = [k \in Kinds |-> -Quiet]
    /\ attacked = [a \in Analyzers |-> {}]
    /\ firsts = [h \in Hashes |-> 0] /\ unalerted = {}
    /\ outliers = Nothing

TimePasses ==
    /\ clock < MaxClock /\ clock' = clock + 1
    /\ UNCHANGED <<signals, verdicts, volumes, analyses>>

-----------------------------------------------------------------------------
(* The collector                                                           *)

\* Agents keep events on disk: a timestamp may be old when it arrives.
Stamps == {t \in (clock - Late)..clock : t >= 0}

\* prune: from the front, up to the first entry that is not too old.
Pruned(entries) ==
    LET fresh == {i \in DOMAIN entries : entries[i].at >= clock - Keep}
    IN  IF fresh = {} THEN <<>> ELSE SubSeq(entries, Min(fresh), Len(entries))

\* trackLoginEvent up to the second lookup; w.mu is not c.mu, so a snapshot may
\* be taken at the same time.
TrackLogin(w) ==
    /\ half[w] = None /\ Len(arrived) < MaxTracked
    /\ \E t \in Stamps, ip \in Addresses \cup {NoAddress}, f \in BOOLEAN, u \in Users :
         LET e == [at |-> t, from |-> ip, failed |-> f]
         IN  /\ logins' = Pruned(Append(logins, e)) /\ arrived' = Append(arrived, e)
             /\ half' = [half EXCEPT ![w] = IF f THEN u ELSE None]
    /\ UNCHANGED <<clock, programs, failures, verdicts, volumes, analyses>>

\* A snapshot holds c.mu until it has copied all windows.
Copying == \E a \in Analyzers : analysis[a].pc = "copy"

\* userWindowFor and record. Nothing ever leaves a user's window.
RecordUser(w) ==
    /\ half[w] # None /\ ~Copying
    /\ failures' = [failures EXCEPT ![half[w]] = @ + 1]
    /\ half' = [half EXCEPT ![w] = None]
    /\ UNCHANGED <<clock, logins, programs, arrived, verdicts, volumes, analyses>>

\* The same window holds entries without a hash; they only delay the pruning.
TrackProgram ==
    /\ Len(programs) < MaxPrograms
    /\ \E t \in Stamps, h \in Hashes :
         programs' = Pruned(Append(programs, [at |-> t, hash |-> h]))
    /\ UNCHANGED <<clock, logins, failures, half, arrived, verdicts, volumes, analyses>>

-----------------------------------------------------------------------------
(* An analysis: Snapshot in two steps,                                     *)

CopyLogins(a) ==
    /\ analysis[a].pc = "idle" /\ analyses < MaxAnalyses
    /\ analyses' = analyses + 1
    /\ analysis' = [analysis EXCEPT ![a] = [Idle EXCEPT !.pc = "copy", !.taken = clock,
                                   !.logins = logins, !.upTo = Len(arrived)]]
    /\ UNCHANGED <<clock, signals, hashMu, knownHashes, lastSeen, attacked, firsts,
                   unalerted, volumes>>

CopyRest(a) ==
    /\ analysis[a].pc = "copy"
    /\ analysis' = [analysis EXCEPT ![a].pc = "logins", ![a].programs = programs,
                                    ![a].failures = failures, ![a].next = 1]
    /\ UNCHANGED <<clock, signals, hashMu, knownHashes, lastSeen, attacked, firsts,
                   unalerted, volumes, analyses>>

\* insertAnomaly of the anomalies of one kind, in any order: each is given to
\* the deduper, which lets only the first of them pass, and none when another of
\* the kind came within the window; the row of one that it suppressed names no
\* alert. (An insertion that fails is only logged.)
Insert(kind, found) ==
    IF found = {} THEN UNCHANGED <<lastSeen, unalerted>>
    ELSE /\ lastSeen' = [lastSeen EXCEPT ![kind] = clock]
         /\ IF clock - lastSeen[kind] >= Quiet
            THEN \E first \in found :
                   unalerted' = unalerted \cup {<<kind, x>> : x \in found \ {first}}
            ELSE unalerted' = unalerted \cup {<<kind, x>> : x \in found}

FailuresOf(ip, entries) == {i \in DOMAIN entries : entries[i].from = ip /\ entries[i].failed}

\* Mutant: the failures are counted at the end.
SucceededInAnyOrder(ip, entries) ==
    /\ Cardinality(FailuresOf(ip, entries)) >= FailMin
    /\ \E j \in DOMAIN entries :
         /\ entries[j].from = ip /\ ~entries[j].failed
         /\ entries[j].at > entries[Min(FailuresOf(ip, entries))].at

\* else-branch of detectBruteForceSuccess: enough failures were seen, and the
\* login is later than the first of them.
Succeeded(ip, entries) ==
    \E j \in DOMAIN entries :
        /\ entries[j].from = ip /\ ~entries[j].failed
        /\ Cardinality({i \in FailuresOf(ip, entries) : i < j}) >= FailMin
        /\ entries[j].at > entries[Min(FailuresOf(ip, entries))].at

\* lastFail - firstFail, in the order of arrival
WithinHour(ip, entries) ==
    entries[Max(FailuresOf(ip, entries))].at - entries[Min(FailuresOf(ip, entries))].at <= Hour

BruteForced(entries) ==
    {ip \in Addresses : Succeeded(ip, entries) /\ WithinHour(ip, entries)}

AnalyzeLogins(a) ==
    /\ analysis[a].pc = "logins" /\ analysis' = [analysis EXCEPT ![a].pc = "lock"]
    /\ attacked' = [attacked EXCEPT ![a] = BruteForced(analysis[a].logins)]
    /\ Insert("brute_force_success", BruteForced(analysis[a].logins))
    /\ UNCHANGED <<clock, signals, hashMu, knownHashes, firsts, volumes, analyses>>

\* analyzeProcessBehavior holds hashMu for its whole length,
LockHashes(a) ==
    /\ analysis[a].pc = "lock" /\ hashMu = None /\ hashMu' = a
    /\ analysis' = [analysis EXCEPT ![a].pc = "programs"]
    /\ UNCHANGED <<clock, signals, knownHashes, lastSeen, attacked, firsts, unalerted,
                   volumes, analyses>>

Fresh(a) == {analysis[a].programs[i].hash : i \in DOMAIN analysis[a].programs} \ knownHashes

\* and nobody else reads or writes knownHashes.
AnalyzePrograms(a) ==
    /\ analysis[a].pc = "programs" /\ hashMu' = None
    /\ knownHashes' = knownHashes \cup Fresh(a)
    /\ firsts' = [h \in Hashes |-> firsts[h] + IF h \in Fresh(a) THEN 1 ELSE 0]
    /\ Insert("first_seen_process", Fresh(a))
    /\ analysis' = [analysis EXCEPT ![a].pc = "users"]
    /\ UNCHANGED <<clock, signals, attacked, volumes, analyses>>

AnalyzeUsers(a) ==
    /\ analysis[a].pc = "users" /\ analysis' = [analysis EXCEPT ![a] = Idle]
    /\ Insert("user_multiple_failures",
              {u \in Users : analysis[a].failures[u] > UserFails})
    /\ UNCHANGED <<clock, signals, hashMu, knownHashes, attacked, firsts, volumes,
                   analyses>>

AnalysisStep(a) == CopyLogins(a) \/ CopyRest(a) \/ AnalyzeLogins(a) \/ LockHashes(a)
                   \/ AnalyzePrograms(a) \/ AnalyzeUsers(a)

-----------------------------------------------------------------------------
(* Alert volumes, in integers: with n values of sum S and sum of squares Q,  *)
(* n times the distance of x from the mean is n*x - S, and n times the       *)
(* standard deviation is the root of n*Q - S*S (meanStd).                    *)

Distance(x, f) == Cardinality(DOMAIN f) * x - SumFunction(f)
Variance(f) == Cardinality(DOMAIN f) * SumFunction([i \in DOMAIN f |-> f[i] * f[i]])
               - SumFunction(f) * SumFunction(f)

Beyond(x, f) == Distance(x, f) > 0
                /\ Distance(x, f) * Distance(x, f) > Sigma * Sigma * Variance(f)
Exactly(x, f) == Distance(x, f) > 0
                 /\ Distance(x, f) * Distance(x, f) = Sigma * Sigma * Variance(f)

\* The hosts flagged among those of f. What is exactly Sigma deviations away is
\* flagged or not as the rounding of the floating point numbers has it.
Flagged(f) ==
    LET Of(Test(_, _)) == {h \in DOMAIN f : /\ Cardinality(DOMAIN f) >= MinSamples
                                           /\ Variance(f) > 0 /\ Test(f[h], f)}
    IN  {Of(Beyond) \cup some : some \in SUBSET Of(Exactly)}

GroupOf(f) == [h \in DOMAIN f \cap Group |-> f[h]]

\* alert_spike over the fleet, and peer_group_spike in the group: hosts without
\* alerts are not in the statistics. The alerts raised count in the next totals,
\* unless the deduper drops them.
AnalyzeVolumes ==
    /\ analyses < MaxAnalyses /\ analyses' = analyses + 1
    /\ LET seen == [h \in {g \in Hosts : totals[g] > 0} |-> totals[h]]
       IN  \E told \in Flagged(seen), peers \in Flagged(GroupOf(seen)) :
           \E stored \in SUBSET (told \cup peers) :
             /\ outliers' = [read |-> seen, told |-> told, peers |-> peers]
             /\ totals' = [h \in Hosts |-> totals[h] + IF h \in stored THEN 1 ELSE 0]
    /\ UNCHANGED <<clock, signals, verdicts>>

RaiseAlert(h) ==
    /\ totals[h] < MaxTotal /\ totals' = [totals EXCEPT ![h] = @ + 1]
    /\ outliers' = Nothing
    /\ UNCHANGED <<clock, signals, verdicts, analyses>>

-----------------------------------------------------------------------------
(* Properties                                                              *)

\* An analysis takes an address for one that guessed a password only if the
\* agent had enough failures from it and then a login; and it does whenever all
\* the failures of the window lie within an hour and a login came after them.
BruteForceTold ==
    \A a \in Analyzers : analysis[a].pc = "lock" =>
        LET e == SubSeq(arrived, 1, analysis[a].upTo)
            Failed(ip) == FailuresOf(ip, e)
            Login(ip, j) == e[j].from = ip /\ ~e[j].failed
                            /\ Cardinality({i \in Failed(ip) : i < j}) >= FailMin
        IN  \A ip \in Addresses :
              /\ ip \in attacked[a] => \E j \in DOMAIN e : Login(ip, j)
              /\ /\ \E j \in DOMAIN e : /\ Login(ip, j)
                                         /\ \A i \in Failed(ip) : e[j].at > e[i].at
                 /\ \A i, j \in Failed(ip) : e[i].at - e[j].at <= Hour
                 /\ \A i \in Failed(ip) : e[i].at >= analysis[a].taken - Keep
                 => ip \in attacked[a]

\* An executable is told of once, however often it runs, leaves the window and
\* is in the snapshots of overlapping analyses; and none of a snapshot is missed.
FirstSeenOnce ==
    /\ \A h \in Hashes : firsts[h] <= 1
    /\ \A a \in Analyzers : analysis[a].pc = "users" =>
         \A i \in DOMAIN analysis[a].programs : firsts[analysis[a].programs[i].hash] = 1

\* In the fleet as in a group: where one host alone has more alerts than the
\* others, which are all alike, it is flagged from six hosts on; with four hosts
\* or less nothing is ever flagged, and what is flagged is above the average.
JudgedWell(f, told) ==
    LET n == Cardinality(DOMAIN f)
        Lone(h) == \E x \in 1..(f[h] - 1) : \A g \in DOMAIN f \ {h} : f[g] = x
    IN  /\ n > Sigma * Sigma + 1 => \A h \in DOMAIN f : Lone(h) => h \in told
        /\ n <= Sigma * Sigma => told = {}
        /\ \A h \in told : n * f[h] > SumFunction(f)

LoneOutlierTold ==
    /\ JudgedWell(outliers.read, outliers.told)
    /\ JudgedWell(GroupOf(outliers.read), outliers.peers)

AnomaliesTold == BruteForceTold /\ FirstSeenOnce /\ LoneOutlierTold

\* analyzer.go:781, "user entities still produce a visible alert": every anomaly
\* has its alert.
AnomalyAlerted == unalerted = {}
=============================================================================
