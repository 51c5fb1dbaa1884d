------------------------------ MODULE Ticketing ------------------------------
(***************************************************************************)
(* From an alert to a case. The workers of the detection engine store an   *)
(* alert and call its hooks one after the other, risk-based alerting first *)
(* and the case generator last; the SLA sweeper and the API change the     *)
(* same tables meanwhile, and the process may stop between any two         *)
(* statements. (The playbook hook, which only starts goroutines, is        *)
(* modelled in Response; the notifier's limits in Notices.)                *)
(*                                                                         *)
(* The unit of time is long (deadlines and cooldowns are hours), so the    *)
(* clock moves only while no process is between two of its statements.     *)
(***************************************************************************)
EXTENDS RiskAlerting

CONSTANTS
    Kinds,       \* alerts that come: records of rule, agent and level
    MaxAlerts, MaxRestarts

ASSUME TicketingAssumption ==
    /\ Kinds \subseteq [rule : Nat, agent : Agents, level : 0..15]
    /\ MaxAlerts \in Nat /\ MaxRestarts \in Nat
    /\ \A k \in Kinds : Group(k) \in Groups

VARIABLES
    nextAlert,   \* the id sequence of the alerts table
    restarts

vars == <<workers, sweeper, table, now, edit, caseHistory, risk,
          nextAlert, restarts>>

\* EmitAlert up to the hooks: InsertAlert, whose failure leaves the id 0.
Emit(w) ==
    /\ pc[w] = "idle" /\ nextAlert <= MaxAlerts
    /\ nextAlert' = nextAlert + 1
    /\ Goto(w, "rba")
    /\ \E k \in Kinds :
         \/ /\ alert' = [alert EXCEPT ![w] = [id |-> nextAlert, rule |-> k.rule,
                                       agent |-> k.agent, level |-> k.level]]
            /\ UNCHANGED faults
         \/ /\ Fault
            /\ alert' = [alert EXCEPT ![w] = [id |-> 0, rule |-> k.rule,
                                       agent |-> k.agent, level |-> k.level]]
    /\ UNCHANGED <<found, chosen, sweeper, table, now, edit, handled,
                   touched, told, overlap, edits, risk, restarts>>

Worker(w) ==
    \/ CaseHook(w) /\ UNCHANGED <<risk, nextAlert, restarts>>
    \/ RiskHook(w) /\ UNCHANGED <<nextAlert, restarts>>

AtRest == /\ \A w \in Workers : pc[w] = "idle"
          /\ sPc = "idle" /\ edit = NoEdit /\ thr = Idle

Tick ==
    /\ AtRest /\ now < MaxTime
    /\ now' = now + 1
    /\ UNCHANGED <<workers, sweeper, table, edit, caseHistory, risk, nextAlert,
                   restarts>>

\* The process stops; the tables stay.
Restart ==
    /\ ~AtRest /\ restarts < MaxRestarts
    /\ restarts' = restarts + 1
    /\ raced' = raced \cup {a \in Agents : Held(a)}
    /\ pc' = [w \in Workers |-> "idle"]
    /\ alert' = [w \in Workers |-> NoAlert]
    /\ found' = [w \in Workers |-> 0]
    /\ chosen' = [w \in Workers |-> Nobody]
    /\ score' = [w \in Workers |-> 0]
    /\ ent' = [w \in Workers |-> DefaultEntity]
    /\ sPc' = "idle" /\ sList' = {} /\ sCase' = NoRow
    /\ edit' = NoEdit /\ thr' = Idle
    /\ UNCHANGED <<table, now, caseHistory, riskEvents, entity, notables,
                   nextNotable, nextAlert>>

Init == /\ CasesInit /\ RiskInit
        /\ nextAlert = 1 /\ restarts = 0

Next ==
    \/ \E w \in Workers : Emit(w) \/ Worker(w)
    \/ Sweep /\ UNCHANGED <<risk, nextAlert, restarts>>
    \/ Api /\ UNCHANGED <<risk, nextAlert, restarts>>
    \/ RiskApi /\ UNCHANGED <<nextAlert, restarts>>
    \/ Tick
    \/ Restart

\* The sweeper's goroutine is scheduled and its ticker keeps firing.
Fairness == WF_vars(Sweep /\ UNCHANGED <<risk, nextAlert, restarts>>)

Spec == Init /\ [][Next]_vars
LiveSpec == Spec /\ Fairness

-----------------------------------------------------------------------------

TypeOK ==
    /\ CasesTypeOK /\ RiskTypeOK
    /\ pc \in [Workers -> {"idle", "rba", "score", "load", "notable", "rroute",
                           "rcreate", "upsert", "cases", "append", "route",
                           "create"}]
    /\ nextAlert \in 1..(MaxAlerts + 1) /\ restarts \in 0..MaxRestarts

\* A group has one open case, or one that is about to be opened: only two
\* workers that look for it at once may open two (casegen.go:62), and an API
\* request may reopen one.
OneOpenCase ==
    \A g \in Groups \ (touched \cup overlap) :
        Cardinality({c \in CaseIds : IsOpen(c) /\ cases[c].group = g})
          + Cardinality({w \in Workers : Opening(w, g)}) <= 1

\* An alert that the case hook has put on a case is still on a case of its
\* group, whatever the workers, the sweeper and restarts do, as long as no API
\* request has written a case of the group.
AlertOnCase ==
    \A a \in handled :
        \/ Group(a) \in touched
        \/ \E c \in CaseIds : Exists(c) /\ cases[c].group = Group(a)
                              /\ a.id \in cases[c].alerts

\* The same without the exception: a patch that does not give alert_ids, the
\* status or the owner leaves what others have put there (cases.go:202).
PatchKeepsAlerts ==
    \A a \in handled :
        \/ \E c \in CaseIds : Exists(c) /\ cases[c].group = Group(a)
                              /\ a.id \in cases[c].alerts
        \/ \E c \in 1..(nextCase - 1) : ~Exists(c)

\* A case's breach is notified at most once, over restarts and edits: the row
\* is marked before anybody is told.
BreachToldOnce == \A c \in CaseIds : told[c] <= 1

\* Two notables of an agent are a cooldown apart, and the agent's row counts
\* them, unless the row was once read while somebody else held a copy of it,
\* or a statement on it failed, or the process stopped in between.
NotablesSpaced ==
    \A a \in Agents \ raced :
        /\ \A m, n \in notables : m.agent = a /\ n.agent = a /\ m # n =>
               m.at - n.at >= Cooldown \/ n.at - m.at >= Cooldown
        /\ ~Held(a) => entity[a].fired
                       = Cardinality({n \in notables : n.agent = a})

\* Again and again there is no case that is open past its deadline and not
\* marked as breached: the sweeper catches up, over failed statements, restarts
\* and cases that are closed, deleted or given a new deadline under its hands.
OverdueEscalated == []<>(Overdue = {})
=============================================================================
