-------------------------------- MODULE Cases --------------------------------
(***************************************************************************)
(* The cases table of the manager's PostgreSQL store, and its three        *)
(* writers: the workers of the detection engine, whose case hook opens a   *)
(* case for an alert or appends the alert to the open case of its group    *)
(* (casegen); the sweeper that warns about deadlines and escalates overdue *)
(* cases (casesla); and the requests of the REST API, which read a case,   *)
(* patch it and write it back.                                             *)
(*                                                                         *)
(* Each statement on the table is an operator, and atomic; nothing holds   *)
(* two together: a caller that reads a row and writes it later can meet    *)
(* every other statement in between. Each action is one statement with the *)
(* code around it.                                                         *)
(*                                                                         *)
(* A row keeps the columns that decide something. Title, tags, notes,      *)
(* evidence, history rows and timestamps are written and never read back   *)
(* by the code modelled here; `escalated' is always equal to `breached'.   *)
(***************************************************************************)
EXTENDS Integers, FiniteSets, FiniteSetsExt

CONSTANTS
    MaxCases,    \* bound: rows ever inserted
    MaxTime,     \* bound of the clock
    Groups,      \* (rule, agent) pairs: the group keys of automatic cases
    Sla,         \* [Priorities -> Nat]: SLAFor, 0 for "no deadline"
    Engineers,   \* the active roster, numbered in the order of sam_account
    Tier,        \* [Engineers -> Nat]
    MaxLoad,     \* [Engineers -> Nat]
    Skilled,     \* engineers with the skill that tags of automatic cases name
    Rosters      \* what OnShiftSams may return: [Engineers -> Duty]

Priorities == {"low", "medium", "high", "critical"}
Statuses == {"open", "investigating", "resolved", "closed", "false_positive"}
Duty == {"off", "shift", "oncall"}
NoGroup == <<>>
Nobody == 0
CaseIds == 1..MaxCases

ASSUME CaseTableAssumption ==
    /\ MaxCases \in Nat /\ MaxTime \in Nat
    /\ Sla \in [Priorities -> Nat]
    /\ Engineers \subseteq Nat \ {Nobody} /\ IsFiniteSet(Engineers)
    /\ Tier \in [Engineers -> Nat] /\ MaxLoad \in [Engineers -> Nat]
    /\ Skilled \subseteq Engineers
    /\ Rosters \subseteq [Engineers -> Duty]
    /\ NoGroup \notin Groups

VARIABLES
    cases,       \* [CaseIds -> rows]: the table
    nextCase,    \* the id sequence
    now          \* the clock of the store's callers

NoCase == [status |-> "absent"]
Row == [status : Statuses, prio : Priorities, who : Engineers \cup {Nobody},
        group : Groups \cup {NoGroup}, alerts : SUBSET Nat, due : Nat,
        warn : Nat, breached : BOOLEAN, warned : BOOLEAN]

Exists(c) == cases[c] # NoCase
IsOpen(c) == Exists(c) /\ cases[c].status \in {"open", "investigating"}

-----------------------------------------------------------------------------
(* Routing a case (assign.Engine)                                          *)

TierForSeverity(prio) ==
    CASE prio = "critical" -> 3 [] prio = "high" -> 2 [] OTHER -> 1

OpenLoad(e) == Cardinality({c \in CaseIds : IsOpen(c) /\ cases[c].who = e})

\* The first of the roster's least loaded.
LeastLoaded(S) ==
    LET least == {e \in S : \A f \in S : OpenLoad(e) <= OpenLoad(f)}
    IN  IF S = {} THEN Nobody ELSE Min(least)

\* AssignWithMinTier, for what the shift table answers at this moment. A
\* failed look-up of the shifts is an empty answer.
Route(prio, group, duty) ==
    LET fit       == {e \in Engineers : Tier[e] >= TierForSeverity(prio)}
        onShift   == {e \in fit : duty[e] # "off"}
        underLoad == {e \in onShift : OpenLoad(e) < MaxLoad[e]}
        skilled   == IF group = NoGroup \/ Skilled = {} THEN underLoad
                                                        ELSE underLoad \cap Skilled
        onCall    == {e \in fit : duty[e] = "oncall"}
    IN  CASE skilled # {}   -> LeastLoaded(skilled)
          [] skilled = {} /\ underLoad # {} -> LeastLoaded(underLoad)
          [] OTHER          -> LeastLoaded(onCall)

-----------------------------------------------------------------------------
(* Statements                                                              *)

\* A new row, with the deadlines of its priority.
NewRow(prio, who, group, alerts) ==
    [status |-> "open", prio |-> prio, who |-> who, group |-> group,
     alerts |-> alerts, breached |-> FALSE, warned |-> FALSE,
     due  |-> IF Sla[prio] > 0 THEN now + Sla[prio] ELSE 0,
     warn |-> IF Sla[prio] > 0 THEN now + (Sla[prio] * 8) \div 10 ELSE 0]

CreateCase(row) ==
    /\ nextCase <= MaxCases
    /\ cases' = [cases EXCEPT ![nextCase] = row]
    /\ nextCase' = nextCase + 1

\* An UPDATE ... WHERE id = c: no row, no effect.
UpdateRow(c, row) ==
    cases' = [cases EXCEPT ![c] = IF @ = NoCase THEN NoCase ELSE row]

DeleteCase(c) == cases' = [cases EXCEPT ![c] = NoCase]

\* Looks for cases in progress only.
FindStartedByGroup(g) ==
    Max({0} \cup {c \in CaseIds : Exists(c) /\ cases[c].group = g
                                  /\ cases[c].status = "investigating"})

\* The newest open case of a group, 0 if there is none.
FindOpenCaseByGroup(g) ==
    Max({0} \cup {c \in CaseIds : IsOpen(c) /\ cases[c].group = g})

\* Writes the alerts anew.
WriteAlertToCase(c, alert) ==
    cases' = [cases EXCEPT ![c] = IF @ = NoCase THEN NoCase
                                  ELSE [@ EXCEPT !.alerts = {alert}]]

AppendAlertToCase(c, alert) ==
    UpdateRow(c, [cases[c] EXCEPT !.alerts = @ \cup {alert}])

Warnable ==
    {c \in CaseIds : /\ IsOpen(c) /\ ~cases[c].warned /\ ~cases[c].breached
                     /\ cases[c].warn > 0 /\ cases[c].warn < now}

\* Lists a case again that is marked.
StillOverdue ==
    {c \in CaseIds : IsOpen(c) /\ cases[c].due > 0 /\ cases[c].due < now}

Overdue ==
    {c \in CaseIds : /\ IsOpen(c) /\ ~cases[c].breached
                     /\ cases[c].due > 0 /\ cases[c].due < now}

CaseTableInit ==
    /\ cases = [c \in CaseIds |-> NoCase]
    /\ nextCase = 1
    /\ now = 1             \* a deadline of 0 is no deadline

CaseTableTypeOK ==
    /\ cases \in [CaseIds -> Row \cup {NoCase}]
    /\ nextCase \in 1..(MaxCases + 1)
    /\ now \in 1..MaxTime

-----------------------------------------------------------------------------
(* The writers                                                             *)

CONSTANTS
    Workers,     \* workers of the detection engine
    MinLevel,    \* MinLevelOrDefault: alerts below it open no case
    Patches,     \* what the body of an update may ask for
    MaxEdits,    \* bound: API requests
    MaxFaults    \* bound: statements that fail

Keep == "keep"   \* a field the body of an update does not give
NoRow == [c |-> 0]

ASSUME CasesAssumption ==
    /\ IsFiniteSet(Workers) /\ MinLevel \in Nat
    /\ MaxEdits \in Nat /\ MaxFaults \in Nat
    /\ Patches \subseteq [status : Statuses \cup {Keep},
                          prio : Priorities \cup {Keep},
                          who : Engineers \cup {Nobody}]

VARIABLES
    pc,          \* [Workers -> step]: where the worker is in its hooks
    alert,       \* [Workers -> alert]: the alert it carries
    found,       \* [Workers -> Nat]: the case FindOpenCaseByGroup returned
    chosen,      \* [Workers -> Nat]: the engineer a new case is routed to
    sPc, sList, sCase, \* the sweeper: step, cases still to do, case in hand
    edit,        \* the API request: step, case as it was read, patch
    handled,     \* history: alerts the case hook has put on a case
    touched,     \* history: groups with a case an edit or a delete wrote
    told,        \* history: breach notifications of a case, 2 for more
    overlap,     \* history: groups that two workers looked up at once
    edits, faults

workers == <<pc, alert, found, chosen>>
sweeper == <<sPc, sList, sCase>>
table   == <<cases, nextCase>>
caseHistory == <<handled, touched, told, overlap, edits, faults>>

Group(a) == <<a.rule, a.agent>>

\* A statement fails: the connection is gone, the pool is exhausted.
Fault == faults < MaxFaults /\ faults' = faults + 1

Goto(w, step) == pc' = [pc EXCEPT ![w] = step]

NoAlert == [id |-> 0]

\* OnAlert returns.
Return(w) == Goto(w, "idle") /\ alert' = [alert EXCEPT ![w] = NoAlert]

-----------------------------------------------------------------------------
(* casegen: the case hook of a worker                                      *)

PriorityForLevel(level) ==
    CASE level >= 12 -> "critical" [] level >= 10 -> "high"
      [] level >= 7  -> "medium"   [] OTHER -> "low"

\* The worker has found no open case of the group and is going to open one.
Opening(w, g) == pc[w] \in {"route", "create"} /\ Group(alert[w]) = g

\* OnAlert: nothing for a low alert, else look for the group's open case.
CaseFind(w) ==
    LET g == Group(alert[w])
        c == FindOpenCaseByGroup(g)
    IN  /\ pc[w] = "cases"
        /\ \/ /\ alert[w].level < MinLevel
              /\ Return(w)
              /\ UNCHANGED <<found, overlap, faults>>
           \/ /\ alert[w].level >= MinLevel
              /\ Goto(w, IF c = 0 THEN "route" ELSE "append")
              /\ found' = [found EXCEPT ![w] = c]
              /\ overlap' = IF c = 0 /\ \E v \in Workers : Opening(v, g)
                              THEN overlap \cup {g} ELSE overlap
              /\ UNCHANGED <<alert, faults>>
           \/ /\ alert[w].level >= MinLevel
              /\ Fault /\ Return(w) /\ UNCHANGED <<found, overlap>>
        /\ UNCHANGED <<chosen, table, now, sweeper, edit, handled,
                       touched, told, edits>>

\* appendToCase, with the recurrence note.
CaseAppend(w) ==
    /\ pc[w] = "append"
    /\ Return(w)
    /\ found' = [found EXCEPT ![w] = 0]
    /\ \/ /\ AppendAlertToCase(found[w], alert[w].id)
          /\ handled' = handled \cup {alert[w]}
          /\ UNCHANGED faults
       \/ Fault /\ UNCHANGED <<cases, handled>>
    /\ UNCHANGED <<chosen, nextCase, now, sweeper, edit, touched, told,
                   overlap, edits>>

\* createCase, first half: the assignment engine reads shifts and loads.
CaseRoute(w) ==
    /\ pc[w] = "route"
    /\ Goto(w, "create")
    /\ \E duty \in Rosters :
         chosen' = [chosen EXCEPT ![w] = Route(PriorityForLevel(alert[w].level),
                                               Group(alert[w]), duty)]
    /\ UNCHANGED <<alert, found, table, now, sweeper, edit, caseHistory>>

\* createCase, second half: the insert and the history rows.
CaseCreate(w) ==
    /\ pc[w] = "create"
    /\ Return(w)
    /\ chosen' = [chosen EXCEPT ![w] = Nobody]
    /\ \/ /\ CreateCase(NewRow(PriorityForLevel(alert[w].level), chosen[w],
                               Group(alert[w]), {alert[w].id}))
          /\ handled' = handled \cup {alert[w]}
          /\ UNCHANGED faults
       \/ Fault /\ UNCHANGED <<table, handled>>
    /\ UNCHANGED <<found, now, sweeper, edit, touched, told, overlap, edits>>

CaseHook(w) == CaseFind(w) \/ CaseAppend(w) \/ CaseRoute(w) \/ CaseCreate(w)

-----------------------------------------------------------------------------
(* casesla: the sweeper                                                    *)

\* What a list query hands out: a copy of the rows.
Listed(S) == {[c |-> c, prio |-> cases[c].prio, who |-> cases[c].who,
               group |-> cases[c].group] : c \in S}

EscalatePriority(prio) ==
    CASE prio = "low" -> "medium" [] prio = "medium" -> "high"
      [] OTHER -> "critical"

\* The ticker fires: list the cases to warn about. (A pass that would find
\* nothing to do is left out: it changes nothing.)
SweepStart ==
    /\ sPc = "idle" /\ Warnable \cup Overdue # {} /\ sPc' = "warn"
    /\ \/ sList' = Listed(Warnable) /\ UNCHANGED faults
       \/ Fault /\ sList' = {}
    /\ UNCHANGED <<workers, table, now, sCase, edit, handled, touched, told,
                   overlap, edits>>

\* MarkCaseWarned, whatever the case has become since it was listed.
SweepWarn ==
    /\ sPc = "warn"
    /\ \E s \in sList :
         /\ sList' = sList \ {s}
         /\ \/ UpdateRow(s.c, [cases[s.c] EXCEPT !.warned = TRUE])
               /\ UNCHANGED faults
            \/ Fault /\ UNCHANGED cases
    /\ UNCHANGED <<workers, nextCase, now, sPc, sCase, edit, handled,
                   touched, told, overlap, edits>>

SweepOverdue ==
    /\ sPc = "warn" /\ sList = {}
    /\ \/ sPc' = "breach" /\ sList' = Listed(Overdue) /\ UNCHANGED faults
       \/ Fault /\ sPc' = "idle" /\ UNCHANGED sList
    /\ UNCHANGED <<workers, table, now, sCase, edit, handled, touched, told,
                   overlap, edits>>

\* Only the statement that raises the priority sets the flag.
BreachedIfRaised(row, prio) ==
    IF prio = row.prio THEN row ELSE [row EXCEPT !.breached = TRUE, !.prio = prio]

Breached(row, prio) == [row EXCEPT !.breached = TRUE, !.prio = prio]

\* MarkCaseBreached. The new priority is one above the listed one, not above
\* the one the row has by now.
SweepBreach ==
    /\ sPc = "breach"
    /\ \E s \in sList :
         LET raised == EscalatePriority(s.prio)
             prio   == IF raised # s.prio THEN raised ELSE cases[s.c].prio
         IN  /\ sList' = sList \ {s}
             /\ \/ /\ UpdateRow(s.c, Breached(cases[s.c], prio))
                   /\ sCase' = [s EXCEPT !.prio = raised]
                   /\ sPc' = "reroute"
                   /\ UNCHANGED faults
                \/ Fault /\ UNCHANGED <<cases, sCase, sPc>>
    /\ UNCHANGED <<workers, nextCase, now, edit, handled, touched, told,
                   overlap, edits>>

\* Escalate ownership: route again, with the raised priority.
SweepReroute ==
    /\ sPc = "reroute"
    /\ \E duty \in Rosters :
         LET who == Route(sCase.prio, sCase.group, duty)
         IN  IF who \in {Nobody, sCase.who}
               THEN sPc' = "notify" /\ UNCHANGED sCase
               ELSE sPc' = "reassign" /\ sCase' = [sCase EXCEPT !.who = who]
    /\ UNCHANGED <<workers, table, now, sList, edit, caseHistory>>

SweepReassign ==
    /\ sPc = "reassign" /\ sPc' = "notify"
    /\ \/ UpdateRow(sCase.c, [cases[sCase.c] EXCEPT !.who = sCase.who])
          /\ UNCHANGED faults
       \/ Fault /\ UNCHANGED cases
    /\ UNCHANGED <<workers, nextCase, now, sList, sCase, edit, handled,
                   touched, told, overlap, edits>>

SweepNotify ==
    /\ sPc = "notify" /\ sPc' = "breach"
    /\ told' = [told EXCEPT ![sCase.c] = Min({2, @ + 1})]
    /\ sCase' = NoRow
    /\ UNCHANGED <<workers, table, now, sList, edit, handled, touched,
                   overlap, edits, faults>>

SweepEnd ==
    /\ sPc = "breach" /\ sList = {} /\ sPc' = "idle"
    /\ UNCHANGED <<workers, table, now, sList, sCase, edit, caseHistory>>

Sweep == SweepStart \/ SweepWarn \/ SweepOverdue \/ SweepBreach
           \/ SweepReroute \/ SweepReassign \/ SweepNotify \/ SweepEnd

-----------------------------------------------------------------------------
(* The REST API, one request at a time                                     *)

NoEdit == [step |-> "idle"]
Closed(status) == status \in {"closed", "resolved"}
Touch(c) == touched' = IF Exists(c) THEN touched \cup {cases[c].group}
                                    ELSE touched

\* Update, first statement: the case as it is now.
EditRead ==
    /\ edit = NoEdit /\ edits < MaxEdits
    /\ \E c \in CaseIds, p \in Patches :
         Exists(c) /\ edit' = [step |-> "write", c |-> c, row |-> cases[c],
                               patch |-> p]
    /\ edits' = edits + 1
    /\ UNCHANGED <<workers, table, now, sweeper, handled, touched, told,
                   overlap, faults>>

\* Update, second statement: every column the request could have changed is
\* written, those it did not give with the value that was read.
EditWrite ==
    LET Given(new, old) == IF new = Keep THEN old ELSE new
        c      == edit.c
        row    == edit.row
        status == Given(edit.patch.status, row.status)
        prio   == Given(edit.patch.prio, row.prio)
        who    == IF edit.patch.who = Nobody THEN row.who ELSE edit.patch.who
    IN  /\ edit.step = "write"
        /\ \/ /\ UpdateRow(c, [cases[c] EXCEPT !.status = status, !.prio = prio,
                                    !.who = who, !.alerts = row.alerts])
              /\ Touch(c)
              /\ edit' = IF prio # row.prio /\ ~Closed(status)
                           THEN [step |-> "due", c |-> c, prio |-> prio]
                           ELSE NoEdit
              /\ UNCHANGED faults
           \/ Fault /\ edit' = NoEdit /\ UNCHANGED <<cases, touched>>
        /\ UNCHANGED <<workers, nextCase, now, sweeper, handled, told,
                       overlap, edits>>

\* Update, third statement: a new priority has a new deadline; its warning
\* keeps the old time.
EditDue ==
    LET due == IF Sla[edit.prio] > 0 THEN now + Sla[edit.prio] ELSE 0
    IN  /\ edit.step = "due" /\ edit' = NoEdit
        /\ \/ UpdateRow(edit.c, [cases[edit.c] EXCEPT !.due = due])
              /\ UNCHANGED faults
           \/ Fault /\ UNCHANGED cases
        /\ UNCHANGED <<workers, nextCase, now, sweeper, handled, touched,
                       told, overlap, edits>>

\* Create, first half: a case somebody opens by hand is routed unless the
\* request pins an engineer.
OpenRoute ==
    /\ edit = NoEdit /\ edits < MaxEdits /\ edits' = edits + 1
    /\ \E p \in Patches, duty \in Rosters :
         LET prio == IF p.prio = Keep THEN "medium" ELSE p.prio
             who  == IF p.who = Nobody THEN Route(prio, NoGroup, duty) ELSE p.who
         IN  edit' = [step |-> "open", prio |-> prio, who |-> who]
    /\ UNCHANGED <<workers, table, now, sweeper, handled, touched, told,
                   overlap, faults>>

OpenInsert ==
    /\ edit.step = "open" /\ edit' = NoEdit
    /\ \/ CreateCase(NewRow(edit.prio, edit.who, NoGroup, {})) /\ UNCHANGED faults
       \/ Fault /\ UNCHANGED table
    /\ UNCHANGED <<workers, now, sweeper, handled, touched, told, overlap,
                   edits>>

Delete ==
    /\ edit = NoEdit /\ edits < MaxEdits /\ edits' = edits + 1
    /\ \E c \in CaseIds : Exists(c) /\ DeleteCase(c) /\ Touch(c)
    /\ UNCHANGED <<workers, nextCase, now, sweeper, edit, handled, told, overlap,
                   faults>>

Api == EditRead \/ EditWrite \/ EditDue \/ OpenRoute \/ OpenInsert \/ Delete

-----------------------------------------------------------------------------

CasesInit ==
    /\ CaseTableInit
    /\ pc = [w \in Workers |-> "idle"]
    /\ alert = [w \in Workers |-> NoAlert]
    /\ found = [w \in Workers |-> 0]
    /\ chosen = [w \in Workers |-> Nobody]
    /\ sPc = "idle" /\ sList = {} /\ sCase = NoRow
    /\ edit = NoEdit
    /\ handled = {} /\ touched = {} /\ overlap = {}
    /\ told = [c \in CaseIds |-> 0]
    /\ edits = 0 /\ faults = 0

CasesTypeOK ==
    /\ CaseTableTypeOK
    /\ found \in [Workers -> 0..MaxCases]
    /\ chosen \in [Workers -> Engineers \cup {Nobody}]
    /\ sPc \in {"idle", "warn", "breach", "reroute", "reassign", "notify"}
    /\ \A s \in sList : s.c \in CaseIds /\ s.prio \in Priorities
    /\ edit.step \in {"idle", "write", "due", "open"}
    /\ touched \subseteq Groups \cup {NoGroup} /\ overlap \subseteq Groups
    /\ told \in [CaseIds -> 0..2]
    /\ edits \in 0..MaxEdits /\ faults \in 0..MaxFaults
=============================================================================
