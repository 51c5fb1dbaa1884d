--------------------------- MODULE TicketingProofs ---------------------------
(***************************************************************************)
(* What holds of alerts and cases for any number of workers, rows, requests*)
(* and failed statements. The inductive invariant, TicketInv, has a part   *)
(* for the sweeper (what it has listed is not told yet, what it is about   *)
(* to tell is marked), one for casegen between looking for a case and      *)
(* writing one, and the two that follow from it: a group's one case, and   *)
(* the alert that is on it.                                                *)
(*                                                                         *)
(* Every step of every process does one of two things to the table: it     *)
(* keeps each row, up to columns that the invariant does not read and rows *)
(* that count as touched (TableKept), or it adds one (TableGrows).         *)
(*                                                                         *)
(* RiskInv, on top of it, is about the row that risk-based alerting keeps  *)
(* of an agent, and the one process that holds a copy of it.               *)
(***************************************************************************)
EXTENDS Ticketing, FiniteSetTheorems, WellFoundedInduction, TLAPS

-----------------------------------------------------------------------------
(* The router and the searches on the table                                *)

\* A non-empty set of naturals has a least element.
LEMMA LeastNat ==
    ASSUME NEW S, S \subseteq Nat, S # {}
    PROVE  Min(S) \in S /\ \A y \in S : Min(S) <= y
<1> DEFINE R == {p \in Nat \X Nat : p[1] < p[2]}
<1>1. IsWellFoundedOn(R, Nat)
  BY NatLessThanWellFounded, Zenon DEF OpToRel
<1>2. PICK x \in S : \A y \in S : ~ (<<y, x>> \in R)
  BY <1>1, WFMin
<1>3. ASSUME NEW y \in S PROVE x <= y
  <2>1. y < x => <<y, x>> \in R
    BY <1>2
  <2> QED BY <1>2, <2>1
<1> QED BY <1>3 DEF Min

\* A bounded one has a greatest element.
LEMMA GreatestNat ==
    ASSUME NEW n \in Nat, NEW S, S \subseteq 0..n, S # {}
    PROVE  Max(S) \in S /\ \A y \in S : y <= Max(S)
<1> DEFINE U == {u \in Nat : \A y \in S : y <= u}
<1>1. n \in U
  OBVIOUS
<1>2. Min(U) \in U /\ \A u \in U : Min(U) <= u
  BY <1>1, LeastNat
<1> DEFINE m == Min(U)
<1> HIDE DEF m
<1>3. m \in Nat /\ (\A y \in S : y <= m) /\ \A u \in Nat : (\A y \in S : y <= u) => m <= u
  BY <1>2 DEF m
<1>4. m \in S
  <2> SUFFICES ASSUME m \notin S PROVE FALSE
    OBVIOUS
  <2>1. PICK y \in S : TRUE
    OBVIOUS
  <2>2. m - 1 \in Nat /\ \A z \in S : z <= m - 1
    BY <1>3, <2>1
  <2> QED BY <1>3, <2>2
<1>5. \E x \in S : \A y \in S : x >= y
  BY <1>3, <1>4
<1> QED BY <1>5 DEF Max

-----------------------------------------------------------------------------
(* Types                                                                   *)

Who   == Engineers \cup {Nobody}
Keys  == Groups \cup {NoGroup}
Steps == {"idle", "rba", "score", "load", "notable", "rroute", "rcreate", "upsert",
          "cases", "append", "route", "create"}

\* The alerts that workers carry, the rows the sweeper has listed.
Carried  == {a \in [id : Nat, rule : Nat, agent : Agents, level : 0..15] :
                Group(a) \in Groups}
ListedRow == [c : CaseIds, prio : Priorities, who : Who, group : Keys]

TableType == /\ cases \in [CaseIds -> Row \cup {NoCase}]
             /\ nextCase \in Nat \ {0} /\ now \in Nat

WorkerType ==
    /\ pc \in [Workers -> Steps] /\ alert \in [Workers -> Carried \cup {NoAlert}]
    /\ \A w \in Workers : pc[w] # "idle" => alert[w] \in Carried
    /\ found \in [Workers -> Nat] /\ chosen \in [Workers -> Who]
    /\ nextAlert \in Nat

SweepType ==
    /\ sPc \in {"idle", "warn", "breach", "reroute", "reassign", "notify"}
    /\ sList \subseteq ListedRow
    /\ sPc \in {"reroute", "reassign", "notify"} => sCase \in ListedRow
    /\ told \in [CaseIds -> Nat]

EditType ==
    \/ edit = NoEdit
    \/ /\ edit.step = "write" /\ edit.c \in CaseIds /\ edit.row \in Row
       /\ edit.patch \in Patches
    \/ edit.step = "due" /\ edit.c \in CaseIds /\ edit.prio \in Priorities
    \/ edit.step = "open" /\ edit.prio \in Priorities /\ edit.who \in Who

\* The router names an engineer of the roster, or nobody.
LEMMA RouteType ==
    ASSUME NEW prio, NEW group, NEW duty PROVE Route(prio, group, duty) \in Who
<1>1. \A e : OpenLoad(e) \in Nat
  <2> SUFFICES ASSUME NEW e PROVE OpenLoad(e) \in Nat
    OBVIOUS
  <2> DEFINE S == {c \in CaseIds : IsOpen(c) /\ cases[c].who = e}
  <2>1. IsFiniteSet(CaseIds)
    BY FS_Interval, CaseTableAssumption DEF CaseIds
  <2>2. IsFiniteSet(S)
    BY <2>1, FS_Subset
  <2> QED BY <2>2, FS_CardinalityType DEF OpenLoad
<1>2. ASSUME NEW S, S \subseteq Engineers PROVE LeastLoaded(S) \in Who
  <2> DEFINE least == {e \in S : \A f \in S : OpenLoad(e) <= OpenLoad(f)}
             loads == {OpenLoad(e) : e \in S}
  <2>1. CASE S = {}
    BY <2>1 DEF LeastLoaded, Who
  <2>2. CASE S # {}
    <3>1. loads \subseteq Nat /\ loads # {}
      BY <1>1, <2>2
    <3>2. Min(loads) \in loads /\ \A n \in loads : Min(loads) <= n
      BY <3>1, LeastNat
    <3>3. least # {}
      <4>1. PICK e \in S : Min(loads) = OpenLoad(e)
        BY <3>2
      <4>2. \A f \in S : OpenLoad(f) \in loads
        OBVIOUS
      <4> HIDE DEF loads
      <4>3. e \in least
        BY <3>2, <4>1, <4>2
      <4> QED BY <4>3
    <3>4. least \subseteq Nat
      BY <1>2, CaseTableAssumption
    <3>5. Min(least) \in least
      BY <3>3, <3>4, LeastNat
    <3>6. LeastLoaded(S) = Min(least)
      BY <2>2 DEF LeastLoaded
    <3> QED BY <1>2, <3>5, <3>6 DEF Who
  <2> QED BY <2>1, <2>2
<1> DEFINE fit == {e \in Engineers : Tier[e] >= TierForSeverity(prio)}
           onShift == {e \in fit : duty[e] # "off"}
           underLoad == {e \in onShift : OpenLoad(e) < MaxLoad[e]}
           skilled == IF group = NoGroup \/ Skilled = {} THEN underLoad
                                                         ELSE underLoad \cap Skilled
           onCall == {e \in fit : duty[e] = "oncall"}
<1>3. skilled \subseteq Engineers /\ underLoad \subseteq Engineers /\ onCall \subseteq Engineers
  OBVIOUS
<1>4. Route(prio, group, duty) \in
         {LeastLoaded(skilled), LeastLoaded(underLoad), LeastLoaded(onCall)}
  <2> HIDE DEF fit
  <2>1. Route(prio, group, duty) = CASE skilled # {}   -> LeastLoaded(skilled)
          [] skilled = {} /\ underLoad # {} -> LeastLoaded(underLoad)
          [] OTHER          -> LeastLoaded(onCall)
    BY DEF Route, fit
  <2> HIDE DEF skilled, underLoad, onCall
  <2> QED BY <2>1
<1> HIDE DEF fit, onShift, underLoad, skilled, onCall
<1> QED BY <1>2, <1>3, <1>4

\* The priorities the writers compute.
LEMMA PriorityTypes ==
    /\ \A x : PriorityForLevel(x) \in Priorities /\ RiskToPriority(x) \in Priorities
    /\ \A x \in Priorities : EscalatePriority(x) \in Priorities
<1>1. \A x : PriorityForLevel(x) \in Priorities
  BY DEF PriorityForLevel, Priorities
<1>2. \A x : RiskToPriority(x) \in Priorities
  BY DEF RiskToPriority, Priorities
<1>3. \A x \in Priorities : EscalatePriority(x) \in Priorities
  BY DEF EscalatePriority, Priorities
<1> QED BY <1>1, <1>2, <1>3

\* A new row.
LEMMA NewRowType ==
    ASSUME TableType, NEW prio \in Priorities, NEW who \in Who, NEW group \in Keys,
           NEW alerts \in SUBSET Nat
    PROVE  LET r == NewRow(prio, who, group, alerts)
           IN  /\ r \in Row /\ r.status = "open" /\ r.group = group
               /\ r.alerts = alerts
<1>1. /\ Sla[prio] \in Nat /\ now \in Nat
  BY CaseTableAssumption DEF TableType
<1>2. (Sla[prio] * 8) \div 10 \in Nat
  BY <1>1
<1>3. now + Sla[prio] \in Nat /\ now + (Sla[prio] * 8) \div 10 \in Nat
  BY <1>1, <1>2
<1> QED BY <1>3 DEF NewRow, Row, Who, Keys, Statuses

-----------------------------------------------------------------------------
(* What a statement does to the table                                      *)

\* A row stays, keeps its group and its mark, and unless an API request wrote
\* its group, its status and its alerts; or it is deleted by such a request.
RowKept(c) ==
    \/ cases'[c] = cases[c]
    \/ /\ cases[c] \in Row /\ cases'[c] \in Row
       /\ cases'[c].group = cases[c].group
       /\ cases[c].breached => cases'[c].breached
       /\ \/ cases[c].group \in touched'
          \/ /\ cases'[c].status = cases[c].status
             /\ cases[c].alerts \subseteq cases'[c].alerts
    \/ cases[c] \in Row /\ cases'[c] = NoCase /\ cases[c].group \in touched'

TableKept == /\ cases' \in [CaseIds -> Row \cup {NoCase}] /\ nextCase' = nextCase
             /\ \A c \in CaseIds : RowKept(c)

TableGrows(r) == /\ nextCase \in CaseIds /\ nextCase' = nextCase + 1
                 /\ cases' = [cases EXCEPT ![nextCase] = r]

\* A row that is no row: the "absent" status tells it.
LEMMA RowIsCase == \A r \in Row : r # NoCase /\ r \in Row \cup {NoCase}
  BY DEF Row, NoCase, Statuses

LEMMA RowExists ==
    ASSUME TableType, NEW c \in CaseIds PROVE Exists(c) <=> cases[c] \in Row
  BY RowIsCase DEF TableType, Exists

LEMMA Untouched ==
    ASSUME TableType, UNCHANGED <<cases, nextCase>> PROVE TableKept
  BY DEF TableType, TableKept, RowKept

\* An UPDATE that keeps the group and the mark, and the status and the alerts
\* too unless the group counts as touched.
LEMMA Updated ==
    ASSUME TableType, NEW c \in CaseIds, NEW row, UpdateRow(c, row),
           nextCase' = nextCase,
           cases[c] \in Row =>
              /\ row \in Row /\ row.group = cases[c].group
              /\ cases[c].breached => row.breached
              /\ \/ cases[c].group \in touched'
                 \/ /\ row.status = cases[c].status
                    /\ cases[c].alerts \subseteq row.alerts
    PROVE  TableKept
<1>1. cases' = [cases EXCEPT ![c] = IF cases[c] = NoCase THEN NoCase ELSE row]
  BY DEF UpdateRow
<1>2. /\ cases \in [CaseIds -> Row \cup {NoCase}]
      /\ cases[c] # NoCase => cases[c] \in Row /\ row \in Row
  BY DEF TableType
<1>3. cases' \in [CaseIds -> Row \cup {NoCase}]
  BY <1>1, <1>2
<1>4. \A d \in CaseIds : d # c => cases'[d] = cases[d]
  BY <1>1, <1>2
<1>5. RowKept(c)
  <2>1. CASE cases[c] = NoCase
    BY <1>1, <1>2, <2>1 DEF RowKept
  <2>2. CASE cases[c] # NoCase
    <3>1. cases'[c] = row
      BY <1>1, <1>2, <2>2
    <3> QED BY <1>2, <2>2, <3>1 DEF RowKept
  <2> QED BY <2>1, <2>2
<1> QED BY <1>3, <1>4, <1>5 DEF TableKept, RowKept

\* The updates that only set a flag or a deadline.
LEMMA FieldUpdates ==
    ASSUME NEW r \in Row, NEW prio \in Priorities, NEW who \in Who, NEW due \in Nat
    PROVE  /\ [r EXCEPT !.warned = TRUE] \in Row
           /\ [r EXCEPT !.warned = TRUE].group = r.group
           /\ [r EXCEPT !.warned = TRUE].breached = r.breached
           /\ [r EXCEPT !.warned = TRUE].status = r.status
           /\ [r EXCEPT !.warned = TRUE].alerts = r.alerts
           /\ [r EXCEPT !.who = who] \in Row
           /\ [r EXCEPT !.who = who].group = r.group
           /\ [r EXCEPT !.who = who].breached = r.breached
           /\ [r EXCEPT !.who = who].status = r.status
           /\ [r EXCEPT !.who = who].alerts = r.alerts
           /\ [r EXCEPT !.due = due] \in Row
           /\ [r EXCEPT !.due = due].group = r.group
           /\ [r EXCEPT !.due = due].breached = r.breached
           /\ [r EXCEPT !.due = due].status = r.status
           /\ [r EXCEPT !.due = due].alerts = r.alerts
           /\ Breached(r, prio) \in Row /\ Breached(r, prio).group = r.group
           /\ Breached(r, prio).breached
           /\ Breached(r, prio).status = r.status
           /\ Breached(r, prio).alerts = r.alerts
<1>1. /\ [r EXCEPT !.warned = TRUE] \in Row
      /\ [r EXCEPT !.who = who] \in Row
      /\ [r EXCEPT !.due = due] \in Row
  BY DEF Row, Who
<1>2. Breached(r, prio) \in Row
  BY DEF Row, Breached
<1>3. /\ [r EXCEPT !.warned = TRUE].group = r.group
      /\ [r EXCEPT !.warned = TRUE].breached = r.breached
      /\ [r EXCEPT !.warned = TRUE].status = r.status
      /\ [r EXCEPT !.warned = TRUE].alerts = r.alerts
      /\ [r EXCEPT !.who = who].group = r.group
      /\ [r EXCEPT !.who = who].breached = r.breached
      /\ [r EXCEPT !.who = who].status = r.status
      /\ [r EXCEPT !.who = who].alerts = r.alerts
  BY DEF Row
<1>4. /\ [r EXCEPT !.due = due].group = r.group
      /\ [r EXCEPT !.due = due].breached = r.breached
      /\ [r EXCEPT !.due = due].status = r.status
      /\ [r EXCEPT !.due = due].alerts = r.alerts
  BY DEF Row
<1>5. /\ Breached(r, prio).group = r.group /\ Breached(r, prio).breached
      /\ Breached(r, prio).status = r.status /\ Breached(r, prio).alerts = r.alerts
  BY DEF Row, Breached
<1> QED BY <1>1, <1>2, <1>3, <1>4, <1>5

-----------------------------------------------------------------------------
(* The sweeper: what it lists it marks before it tells                     *)

\* No row exists whose id has not been given out.
FreshInv == \A c \in CaseIds : c >= nextCase => cases[c] = NoCase

Marked(c) == cases[c] \in Row => cases[c].breached

SweepInv ==
    /\ \A s \in sList : s.c < nextCase
    /\ \A s, t \in sList : s.c = t.c => s = t
    /\ sPc \in {"breach", "reroute", "reassign", "notify"} =>
          \A s \in sList : told[s.c] = 0
    /\ sPc \in {"reroute", "reassign", "notify"} =>
          /\ told[sCase.c] = 0 /\ sCase.c < nextCase /\ Marked(sCase.c)
          /\ \A s \in sList : s.c # sCase.c
    /\ \A c \in CaseIds : told[c] = 0 \/ (told[c] = 1 /\ Marked(c) /\ c < nextCase)

\* What the table and the history owe to the sweeper's invariant does not
\* depend on who changes the table.
LEMMA MarkedStays ==
    ASSUME TableType, NEW c \in CaseIds, Marked(c),
           \/ TableKept
           \/ c < nextCase /\ \E r \in Row : TableGrows(r)
    PROVE  Marked(c)'
<1>1. CASE TableKept
  BY <1>1, RowIsCase DEF TableType, TableKept, RowKept, Marked
<1>2. CASE c < nextCase /\ \E r \in Row : TableGrows(r)
  <2>1. cases'[c] = cases[c]
    BY <1>2 DEF TableType, TableGrows
  <2> QED BY <2>1 DEF Marked
<1> QED BY <1>1, <1>2

LEMMA SweepRests ==
    ASSUME TableType, SweepType, SweepInv, UNCHANGED <<sweeper, told>>,
           TableKept \/ \E r \in Row : TableGrows(r)
    PROVE  SweepType' /\ SweepInv'
<1>1. nextCase' \in Nat /\ nextCase' >= nextCase /\ nextCase \in Nat
  BY DEF TableType, TableKept, TableGrows
<1>2. \A c \in CaseIds : c \in Nat
  BY CaseTableAssumption DEF CaseIds
<1>3. \A c \in CaseIds : Marked(c) /\ c < nextCase => Marked(c)' /\ c < nextCase'
  BY <1>1, <1>2, MarkedStays
<1>4. /\ \A s \in sList : s.c \in CaseIds
      /\ sPc \in {"reroute", "reassign", "notify"} => sCase.c \in CaseIds
  BY DEF SweepType, ListedRow
<1>5. SweepType'
  BY DEF SweepType, sweeper
<1>6. SweepInv'
  <2>1. sPc' = sPc /\ sList' = sList /\ sCase' = sCase /\ told' = told
    BY DEF sweeper
  <2>2. \A s \in sList : s.c < nextCase'
    BY <1>1, <1>2, <1>4 DEF SweepInv
  <2>3. \A c \in CaseIds : told[c] = 0 \/ (told[c] = 1 /\ Marked(c)' /\ c < nextCase')
    BY <1>3 DEF SweepInv
  <2>4. sPc \in {"reroute", "reassign", "notify"} =>
          sCase.c < nextCase' /\ Marked(sCase.c)'
    <3>1. sPc \in {"reroute", "reassign", "notify"} =>
             sCase.c \in CaseIds /\ sCase.c < nextCase /\ Marked(sCase.c)
      BY <1>4 DEF SweepInv
    <3>2. ASSUME NEW c \in CaseIds, c = sCase.c, Marked(c)' PROVE Marked(sCase.c)'
      BY <2>1, <3>2 DEF Marked
    <3> QED BY <1>3, <3>1, <3>2
  <2>5. /\ \A s, t \in sList' : s.c = t.c => s = t
        /\ sPc' \in {"breach", "reroute", "reassign", "notify"} =>
              \A s \in sList' : told'[s.c] = 0
        /\ sPc' \in {"reroute", "reassign", "notify"} =>
              told'[sCase'.c] = 0 /\ \A s \in sList' : s.c # sCase'.c
    BY <2>1 DEF SweepInv
  <2> QED BY <2>1, <2>2, <2>3, <2>4, <2>5 DEF SweepInv
<1> QED BY <1>5, <1>6

LEMMA ListedType ==
    ASSUME TableType, FreshInv, NEW S, S \subseteq {c \in CaseIds : Exists(c)}
    PROVE  /\ Listed(S) \subseteq ListedRow
           /\ \A s \in Listed(S) : s.c \in S /\ s.c < nextCase
           /\ \A s, t \in Listed(S) : s.c = t.c => s = t
<1>1. \A c \in S : /\ c \in CaseIds /\ cases[c] \in Row
                   /\ c < nextCase
  BY CaseTableAssumption, RowExists DEF TableType, FreshInv, CaseIds, Exists
<1>2. \A c \in S : [c |-> c, prio |-> cases[c].prio, who |-> cases[c].who,
                    group |-> cases[c].group] \in ListedRow
  BY <1>1 DEF Row, ListedRow, Who, Keys
<1>3. Listed(S) \subseteq ListedRow
  BY <1>2 DEF Listed
<1>4. \A s \in Listed(S) : s.c \in S /\ s.c < nextCase
  BY <1>1 DEF Listed
<1>5. \A s, t \in Listed(S) : s.c = t.c => s = t
  BY DEF Listed
<1> QED BY <1>3, <1>4, <1>5

\* A step of the sweeper: what it may do to the table and to its history.
SweepGood == SweepType' /\ SweepInv' /\ TableKept

SweepFrame == <<pc, alert, found, chosen, edit, handled, touched, overlap, now,
                nextCase>>

LEMMA SweepLeaves == Sweep => UNCHANGED SweepFrame
<1> USE DEF SweepFrame, workers, table, caseHistory, sweeper
<1>1. SweepStart => UNCHANGED SweepFrame
  BY DEF SweepStart, Fault
<1>2. SweepWarn => UNCHANGED SweepFrame
  BY DEF SweepWarn, Fault, UpdateRow
<1>3. SweepOverdue => UNCHANGED SweepFrame
  BY DEF SweepOverdue, Fault
<1>4. SweepBreach => UNCHANGED SweepFrame
  BY DEF SweepBreach, Fault
<1>5. SweepReroute => UNCHANGED SweepFrame
  BY DEF SweepReroute
<1>6. SweepReassign => UNCHANGED SweepFrame
  BY DEF SweepReassign
<1>7. SweepNotify => UNCHANGED SweepFrame
  BY DEF SweepNotify
<1>8. SweepEnd => UNCHANGED SweepFrame
  BY DEF SweepEnd
<1> QED BY <1>1, <1>2, <1>3, <1>4, <1>5, <1>6, <1>7, <1>8 DEF Sweep

\* When the table is not written.
LEMMA MarksRest ==
    ASSUME UNCHANGED <<cases, nextCase>>
    PROVE  \A c : Marked(c)' = Marked(c)
  BY DEF Marked

LEMMA StartStep ==
    ASSUME TableType, SweepType, SweepInv, FreshInv, SweepStart PROVE SweepGood
<1>1. /\ sPc' = "warn" /\ UNCHANGED <<cases, nextCase, told>>
      /\ sList' = Listed(Warnable) \/ sList' = {}
  BY DEF SweepStart, table, Fault
<1>2. Warnable \subseteq {c \in CaseIds : Exists(c)}
  BY DEF Warnable, IsOpen
<1>3. /\ sList' \subseteq ListedRow
      /\ \A s \in sList' : s.c < nextCase
      /\ \A s, t \in sList' : s.c = t.c => s = t
  BY <1>1, <1>2, ListedType
<1>4. SweepType'
  BY <1>1, <1>3 DEF SweepType
<1>5. SweepInv'
  BY <1>1, <1>3, MarksRest DEF SweepInv
<1> QED BY <1>1, <1>4, <1>5, Untouched DEF SweepGood

LEMMA OverdueStep ==
    ASSUME TableType, SweepType, SweepInv, FreshInv, SweepOverdue PROVE SweepGood
<1>1. /\ UNCHANGED <<cases, nextCase, told>>
      /\ \/ sPc' = "breach" /\ sList' = Listed(Overdue)
         \/ sPc' = "idle" /\ sList' = sList
  BY DEF SweepOverdue, table, Fault
<1>2. Overdue \subseteq {c \in CaseIds : Exists(c)}
  BY DEF Overdue, IsOpen
<1>3. \A c \in Overdue : told[c] = 0
  BY RowExists DEF SweepInv, Marked, Overdue, IsOpen
<1>4. /\ sList' \subseteq ListedRow
      /\ \A s \in sList' : s.c < nextCase
      /\ \A s, t \in sList' : s.c = t.c => s = t
      /\ sPc' = "breach" => \A s \in sList' : told[s.c] = 0
  BY <1>1, <1>2, <1>3, ListedType DEF SweepInv, SweepType
<1>5. SweepType'
  BY <1>1, <1>4 DEF SweepType
<1>6. SweepInv'
  BY <1>1, <1>4, MarksRest DEF SweepInv
<1> QED BY <1>1, <1>5, <1>6, Untouched DEF SweepGood

LEMMA WarnStep ==
    ASSUME TableType, SweepType, SweepInv, SweepWarn PROVE SweepGood
<1>1. PICK s \in sList :
         /\ sList' = sList \ {s} /\ UNCHANGED <<sPc, sCase, told, nextCase>>
         /\ \/ UpdateRow(s.c, [cases[s.c] EXCEPT !.warned = TRUE])
            \/ cases' = cases
  BY DEF SweepWarn, Fault
<1>2. s.c \in CaseIds
  BY DEF SweepType, ListedRow
<1>3. TableKept
  <2>1. CASE cases' = cases
    BY <1>1, <2>1, Untouched
  <2>2. CASE UpdateRow(s.c, [cases[s.c] EXCEPT !.warned = TRUE])
    <3> DEFINE row == [cases[s.c] EXCEPT !.warned = TRUE]
    <3>1. ASSUME cases[s.c] \in Row
          PROVE  /\ row \in Row /\ row.group = cases[s.c].group
                 /\ cases[s.c].breached => row.breached
                 /\ row.status = cases[s.c].status
                 /\ cases[s.c].alerts \subseteq row.alerts
      <4>1. "low" \in Priorities /\ Nobody \in Who /\ 0 \in Nat
        BY DEF Priorities, Who
      <4>2. row \in Row
        BY <3>1, <4>1, FieldUpdates
      <4>3. cases[s.c] \in Row
        BY <3>1
      <4> QED BY <4>2, <4>3 DEF Row
    <3> HIDE DEF row
    <3> QED BY <1>1, <1>2, <2>2, <3>1, Updated DEF row
  <2> QED BY <1>1, <2>1, <2>2
<1>4. sPc = "warn" /\ sPc' = "warn"
  BY <1>1 DEF SweepWarn
<1>5. SweepType'
  BY <1>1 DEF SweepType
<1>6. \A c \in CaseIds : Marked(c) => Marked(c)'
  BY <1>3, MarkedStays
<1>7. SweepInv'
  BY <1>1, <1>4, <1>6 DEF SweepInv
<1> QED BY <1>3, <1>5, <1>7 DEF SweepGood

LEMMA BreachStep ==
    ASSUME TableType, SweepType, SweepInv, SweepBreach PROVE SweepGood
<1>1. sPc = "breach"
  BY DEF SweepBreach
<1>2. PICK s \in sList :
         LET raised == EscalatePriority(s.prio)
             prio   == IF raised # s.prio THEN raised ELSE cases[s.c].prio
         IN  /\ sList' = sList \ {s}
             /\ UNCHANGED <<told, nextCase>>
             /\ \/ /\ UpdateRow(s.c, Breached(cases[s.c], prio))
                   /\ sCase' = [s EXCEPT !.prio = raised]
                   /\ sPc' = "reroute"
                \/ UNCHANGED <<cases, sCase, sPc>>
  BY DEF SweepBreach, Fault
<1> DEFINE raised == EscalatePriority(s.prio)
           prio == IF raised # s.prio THEN raised ELSE cases[s.c].prio
<1>3. /\ s.c \in CaseIds /\ s \in ListedRow /\ s.c < nextCase /\ told[s.c] = 0
      /\ \A t \in sList \ {s} : t.c # s.c
  BY <1>1 DEF SweepType, ListedRow, SweepInv
<1>4. raised \in Priorities
  BY <1>3, PriorityTypes DEF ListedRow
<1>5. CASE UNCHANGED <<cases, sCase, sPc>>
  <2>1. SweepType'
    BY <1>1, <1>2, <1>5 DEF SweepType
  <2>2. SweepInv'
    BY <1>1, <1>2, <1>5, MarksRest DEF SweepInv
  <2> QED BY <1>2, <1>5, <2>1, <2>2, Untouched DEF SweepGood
<1>6. CASE /\ UpdateRow(s.c, Breached(cases[s.c], prio))
           /\ sCase' = [s EXCEPT !.prio = raised]
           /\ sPc' = "reroute"
  <2> DEFINE row == Breached(cases[s.c], prio)
  <2>1. ASSUME cases[s.c] \in Row
        PROVE  /\ row \in Row /\ row.group = cases[s.c].group /\ row.breached
               /\ row.status = cases[s.c].status /\ row.alerts = cases[s.c].alerts
    <3>1. prio \in Priorities
      BY <1>4, <2>1 DEF Row
    <3>2. Nobody \in Who /\ 0 \in Nat
      BY DEF Who
    <3> HIDE DEF prio
    <3> QED BY <2>1, <3>1, <3>2, FieldUpdates
  <2> HIDE DEF row
  <2>2. TableKept
    BY <1>2, <1>3, <1>6, <2>1, Updated DEF row
  <2>3. sCase' \in ListedRow /\ sCase'.c = s.c
    BY <1>3, <1>4, <1>6 DEF ListedRow
  <2>4. SweepType'
    BY <1>2, <1>6, <2>3 DEF SweepType
  <2>5. \A c \in CaseIds : Marked(c) => Marked(c)'
    BY <2>2, MarkedStays
  <2>6. cases'[s.c] \in Row => cases'[s.c].breached
    <3>1. cases'[s.c] = IF cases[s.c] = NoCase THEN NoCase ELSE row
      BY <1>3, <1>6 DEF UpdateRow, TableType, row
    <3> QED BY <1>3, <2>1, <3>1, RowIsCase DEF TableType
  <2>7. Marked(sCase.c)'
    BY <2>3, <2>6 DEF Marked
  <2>8. /\ \A t \in sList' : t.c < nextCase'
        /\ \A t, u \in sList' : t.c = u.c => t = u
        /\ \A t \in sList' : told'[t.c] = 0 /\ t.c # sCase'.c
        /\ told'[sCase'.c] = 0 /\ sCase'.c < nextCase'
    BY <1>1, <1>2, <1>3, <2>3 DEF SweepInv
  <2>9. \A c \in CaseIds : told'[c] = 0 \/ (told'[c] = 1 /\ Marked(c)' /\ c < nextCase')
    BY <1>2, <2>5 DEF SweepInv
  <2>10. SweepInv'
    BY <2>7, <2>8, <2>9, <1>6 DEF SweepInv
  <2> QED BY <2>2, <2>4, <2>10 DEF SweepGood
<1> QED BY <1>2, <1>5, <1>6

LEMMA RerouteStep ==
    ASSUME TableType, SweepType, SweepInv, SweepReroute PROVE SweepGood
<1>1. /\ sPc = "reroute" /\ UNCHANGED <<cases, nextCase, sList, told>>
      /\ \/ sPc' = "notify" /\ sCase' = sCase
         \/ /\ sPc' = "reassign"
            /\ \E who \in Who : sCase' = [sCase EXCEPT !.who = who]
  BY RouteType DEF SweepReroute, table, caseHistory
<1>2. sCase \in ListedRow
  BY <1>1 DEF SweepType
<1>3. sCase' \in ListedRow /\ sCase'.c = sCase.c
  BY <1>1, <1>2 DEF ListedRow
<1>4. SweepType'
  BY <1>1, <1>3 DEF SweepType
<1>5. SweepInv'
  BY <1>1, <1>3, MarksRest DEF SweepInv, Marked
<1> QED BY <1>1, <1>4, <1>5, Untouched DEF SweepGood

LEMMA ReassignStep ==
    ASSUME TableType, SweepType, SweepInv, SweepReassign PROVE SweepGood
<1>1. /\ sPc = "reassign" /\ sPc' = "notify"
      /\ UNCHANGED <<nextCase, sList, sCase, told>>
      /\ \/ UpdateRow(sCase.c, [cases[sCase.c] EXCEPT !.who = sCase.who])
         \/ cases' = cases
  BY DEF SweepReassign, Fault
<1>2. sCase \in ListedRow /\ sCase.c \in CaseIds /\ sCase.who \in Who
  BY <1>1 DEF SweepType, ListedRow
<1>3. TableKept
  <2>1. CASE cases' = cases
    BY <1>1, <2>1, Untouched
  <2>2. CASE UpdateRow(sCase.c, [cases[sCase.c] EXCEPT !.who = sCase.who])
    <3> DEFINE row == [cases[sCase.c] EXCEPT !.who = sCase.who]
    <3>1. ASSUME cases[sCase.c] \in Row
          PROVE  /\ row \in Row /\ row.group = cases[sCase.c].group
                 /\ cases[sCase.c].breached => row.breached
                 /\ row.status = cases[sCase.c].status
                 /\ cases[sCase.c].alerts \subseteq row.alerts
      <4>1. "low" \in Priorities /\ 0 \in Nat
        BY DEF Priorities
      <4> QED BY <1>2, <3>1, <4>1, FieldUpdates
    <3> HIDE DEF row
    <3> QED BY <1>1, <1>2, <2>2, <3>1, Updated DEF row
  <2> QED BY <1>1, <2>1, <2>2
<1>4. SweepType'
  BY <1>1, <1>2 DEF SweepType
<1>5. \A c \in CaseIds : Marked(c) => Marked(c)'
  BY <1>3, MarkedStays
<1>6. Marked(sCase.c)'
  <2>1. Marked(sCase.c)
    BY <1>1 DEF SweepInv
  <2>2. ASSUME NEW c \in CaseIds, c = sCase.c, Marked(c)' PROVE Marked(sCase.c)'
    BY <1>1, <2>2 DEF Marked
  <2> QED BY <1>2, <1>5, <2>1, <2>2
<1>7. SweepInv'
  BY <1>1, <1>5, <1>6 DEF SweepInv
<1> QED BY <1>3, <1>4, <1>7 DEF SweepGood

\* The notification is the case's first, and its last: it is marked.
LEMMA NotifyStep ==
    ASSUME TableType, SweepType, SweepInv, SweepNotify PROVE SweepGood
<1>1. /\ sPc = "notify" /\ sPc' = "breach" /\ UNCHANGED <<cases, nextCase, sList>>
      /\ told' = [told EXCEPT ![sCase.c] = Min({2, told[sCase.c] + 1})]
  BY DEF SweepNotify, table
<1>2. /\ sCase.c \in CaseIds /\ told[sCase.c] = 0 /\ Marked(sCase.c)
      /\ sCase.c < nextCase /\ \A s \in sList : s.c # sCase.c
  BY <1>1 DEF SweepType, ListedRow, SweepInv
<1>3. Min({2, 1}) = 1
  <2>1. Min({2, 1}) \in {2, 1} /\ \A y \in {2, 1} : Min({2, 1}) <= y
    BY LeastNat
  <2> QED BY <2>1
<1>4. told' = [told EXCEPT ![sCase.c] = 1]
  <2>1. told[sCase.c] + 1 = 1
    BY <1>2
  <2>2. Min({2, told[sCase.c] + 1}) = 1
    BY <1>3, <2>1
  <2> QED BY <1>1, <2>2
<1>5. /\ told' \in [CaseIds -> Nat] /\ told'[sCase.c] = 1
      /\ \A c \in CaseIds : c # sCase.c => told'[c] = told[c]
  BY <1>2, <1>4 DEF SweepType
<1>6. SweepType'
  BY <1>1, <1>5 DEF SweepType
<1>7. /\ \A s \in sList' : s.c < nextCase' /\ told'[s.c] = 0
      /\ \A s, t \in sList' : s.c = t.c => s = t
  BY <1>1, <1>2, <1>5 DEF SweepInv, SweepType, ListedRow
<1>8. \A c \in CaseIds : told'[c] = 0 \/ (told'[c] = 1 /\ Marked(c)' /\ c < nextCase')
  BY <1>1, <1>2, <1>5, MarksRest DEF SweepInv
<1>9. SweepInv'
  BY <1>1, <1>7, <1>8 DEF SweepInv
<1> QED BY <1>1, <1>6, <1>9, Untouched DEF SweepGood

LEMMA EndStep ==
    ASSUME TableType, SweepType, SweepInv, SweepEnd PROVE SweepGood
<1>1. sPc' = "idle" /\ UNCHANGED <<cases, nextCase, sList, told>>
  BY DEF SweepEnd, table, caseHistory
<1>2. SweepType'
  BY <1>1 DEF SweepType
<1>3. SweepInv'
  BY <1>1, MarksRest DEF SweepInv
<1> QED BY <1>1, <1>2, <1>3, Untouched DEF SweepGood

LEMMA SweepStep ==
    ASSUME TableType, SweepType, SweepInv, FreshInv, Sweep PROVE SweepGood
  BY StartStep, WarnStep, OverdueStep, BreachStep, RerouteStep, ReassignStep,
     NotifyStep, EndStep DEF Sweep

-----------------------------------------------------------------------------
(* The workers and the API                                                 *)

\* Between looking for a group's case and writing it, a worker keeps its
\* alert; the case it found is of the group, or an API request has written it.
AppendInv ==
    \A w \in Workers : pc[w] = "append" =>
        /\ found[w] \in CaseIds
        /\ \/ Group(alert[w]) \in touched
           \/ cases[found[w]] \in Row /\ cases[found[w]].group = Group(alert[w])

\* The groups that nobody looked up at once and no request touched.
Calm == Groups \ (touched \cup overlap)

OpenOf(c, g) == cases[c] \in Row /\ cases[c].status \in {"open", "investigating"}
                /\ cases[c].group = g

\* OneOpenCase, without counting.
GroupInv ==
    \A g \in Calm :
        /\ \A c, d \in CaseIds : OpenOf(c, g) /\ OpenOf(d, g) => c = d
        /\ \A v, w \in Workers : Opening(v, g) /\ Opening(w, g) => v = w
        /\ \A c \in CaseIds, w \in Workers : ~ (OpenOf(c, g) /\ Opening(w, g))

TicketType == TableType /\ WorkerType /\ SweepType /\ EditType

TicketInv == TicketType /\ FreshInv /\ SweepInv /\ AppendInv /\ GroupInv /\ AlertOnCase

\* A worker whose step is none of casegen's.
Elsewhere == Steps \ {"append", "route", "create"}

Rests(w) == \/ pc'[w] \in Elsewhere
            \/ pc'[w] = pc[w] /\ alert'[w] = alert[w] /\ found'[w] = found[w]
            \/ pc'[w] = "create" /\ pc[w] = "route" /\ alert'[w] = alert[w]

HistoryGrows == touched \subseteq touched' /\ overlap \subseteq overlap'

\* The row a group had is there, or a request has touched the group.
LEMMA RowStays ==
    ASSUME TableType, FreshInv, HistoryGrows, NEW c \in CaseIds, cases[c] \in Row,
           TableKept \/ \E r \in Row : TableGrows(r)
    PROVE  \/ cases[c].group \in touched'
           \/ /\ cases'[c] \in Row /\ cases'[c].group = cases[c].group
              /\ cases'[c].status = cases[c].status
              /\ cases[c].alerts \subseteq cases'[c].alerts
<1>1. CASE TableKept
  BY <1>1 DEF TableKept, RowKept
<1>2. CASE \E r \in Row : TableGrows(r)
  <2>1. c # nextCase
    BY RowIsCase DEF FreshInv, TableType
  <2>2. cases'[c] = cases[c]
    BY <1>2, <2>1 DEF TableGrows, TableType
  <2> QED BY <2>2
<1> QED BY <1>1, <1>2

\* What the steps that open no case of a group have in common.
LEMMA GroupsRest ==
    ASSUME TableType, FreshInv, AppendInv, GroupInv, HistoryGrows,
           \A w \in Workers : Rests(w),
           \/ TableKept
           \/ \E r \in Row : TableGrows(r) /\ r.group = NoGroup
    PROVE  FreshInv' /\ AppendInv' /\ GroupInv'
<1>1. TableKept \/ \E r \in Row : TableGrows(r)
  OBVIOUS
<1>2. \A c \in CaseIds : c \in Nat
  BY CaseTableAssumption DEF CaseIds
<1>3. FreshInv'
  <2>1. CASE TableKept
    BY <2>1, RowIsCase DEF FreshInv, TableKept, RowKept
  <2>2. CASE \E r \in Row : TableGrows(r)
    BY <1>2, <2>2 DEF FreshInv, TableGrows, TableType
  <2> QED BY <1>1, <2>1, <2>2
<1>4. AppendInv'
  <2> SUFFICES ASSUME NEW w \in Workers, pc'[w] = "append"
               PROVE  /\ found'[w] \in CaseIds
                      /\ \/ Group(alert'[w]) \in touched'
                         \/ /\ cases'[found'[w]] \in Row
                            /\ cases'[found'[w]].group = Group(alert'[w])
    BY DEF AppendInv, Group
  <2>1. pc[w] = "append" /\ alert'[w] = alert[w] /\ found'[w] = found[w]
    BY DEF Rests, Elsewhere
  <2>2. /\ found[w] \in CaseIds
        /\ \/ Group(alert[w]) \in touched
           \/ cases[found[w]] \in Row /\ cases[found[w]].group = Group(alert[w])
    BY <2>1 DEF AppendInv
  <2> QED BY <1>1, <2>1, <2>2, RowStays DEF HistoryGrows
<1>5. GroupInv'
  <2> SUFFICES ASSUME NEW g \in Calm'
               PROVE  /\ \A c, d \in CaseIds : OpenOf(c, g)' /\ OpenOf(d, g)' => c = d
                      /\ \A v, w \in Workers : Opening(v, g)' /\ Opening(w, g)' => v = w
                      /\ \A c \in CaseIds, w \in Workers :
                            ~ (OpenOf(c, g)' /\ Opening(w, g)')
    BY DEF GroupInv
  <2>1. g \in Calm /\ g \in Groups /\ g \notin touched' /\ g # NoGroup
    BY CaseTableAssumption DEF Calm, HistoryGrows
  <2>2. \A w \in Workers : Opening(w, g)' => Opening(w, g)
    BY DEF Opening, Rests, Elsewhere, Group
  <2>3. \A c \in CaseIds : OpenOf(c, g)' => OpenOf(c, g)
    <3>1. CASE TableKept
      BY <2>1, <3>1, RowIsCase DEF TableKept, RowKept, OpenOf
    <3>2. CASE \E r \in Row : TableGrows(r) /\ r.group = NoGroup
      BY <2>1, <3>2 DEF TableGrows, OpenOf, TableType
    <3> QED BY <3>1, <3>2
  <2> QED BY <2>1, <2>2, <2>3 DEF GroupInv
<1> QED BY <1>3, <1>4, <1>5

\* An alert that is on a case stays on it.
LEMMA AlertsRest ==
    ASSUME TableType, FreshInv, AlertOnCase, HistoryGrows, NEW a \in handled,
           TableKept \/ \E r \in Row : TableGrows(r)
    PROVE  \/ Group(a) \in touched'
           \/ \E c \in CaseIds : /\ cases'[c] # NoCase
                                 /\ cases'[c].group = Group(a)
                                 /\ a.id \in cases'[c].alerts
<1>1. CASE Group(a) \in touched
  BY <1>1 DEF HistoryGrows
<1>2. CASE Group(a) \notin touched
  <2>1. PICK c \in CaseIds : /\ cases[c] \in Row /\ cases[c].group = Group(a)
                             /\ a.id \in cases[c].alerts
    BY <1>2, RowExists DEF AlertOnCase
  <2> QED BY <2>1, RowStays, RowIsCase
<1> QED BY <1>1, <1>2

\* What the steps that put no alert on a case have in common.
LEMMA CasesRest ==
    ASSUME TableType, FreshInv, AppendInv, GroupInv, AlertOnCase,
           HistoryGrows, handled' = handled,
           \A w \in Workers : Rests(w),
           \/ TableKept
           \/ \E r \in Row : TableGrows(r) /\ r.group = NoGroup
    PROVE  FreshInv' /\ AppendInv' /\ GroupInv' /\ AlertOnCase'
<1>1. AlertOnCase'
  <2>1. TableKept \/ \E r \in Row : TableGrows(r)
    OBVIOUS
  <2> QED BY <2>1, AlertsRest DEF AlertOnCase, Exists, Group
<1> QED BY <1>1, GroupsRest

-----------------------------------------------------------------------------
(* One step of a worker, of the API, of the clock                          *)

LEMMA TableStays ==
    ASSUME TableType, now' \in {now, now + 1},
           TableKept \/ \E r \in Row : TableGrows(r)
    PROVE  TableType'
<1>1. CASE TableKept
  BY <1>1 DEF TableType, TableKept
<1>2. CASE \E r \in Row : TableGrows(r)
  BY <1>2 DEF TableType, TableGrows
<1> QED BY <1>1, <1>2

\* A step of one worker leaves the others where they are.
LEMMA WorkerMoves ==
    ASSUME WorkerType, NEW w \in Workers, NEW s \in Steps, Goto(w, s),
           \/ alert' = alert /\ pc[w] # "idle"
           \/ s = "idle" /\ alert' = [alert EXCEPT ![w] = NoAlert]
           \/ \E a \in Carried : alert' = [alert EXCEPT ![w] = a],
           found' = found \/ \E n \in Nat : found' = [found EXCEPT ![w] = n],
           chosen' = chosen \/ \E e \in Who : chosen' = [chosen EXCEPT ![w] = e],
           nextAlert' \in {nextAlert, nextAlert + 1}
    PROVE  /\ WorkerType' /\ pc'[w] = s
           /\ \A v \in Workers \ {w} : /\ pc'[v] = pc[v] /\ alert'[v] = alert[v]
                                        /\ found'[v] = found[v]
<1>1. /\ pc' \in [Workers -> Steps] /\ pc'[w] = s
      /\ \A v \in Workers \ {w} : pc'[v] = pc[v]
  BY DEF WorkerType, Goto
<1>2. /\ alert' \in [Workers -> Carried \cup {NoAlert}]
      /\ \A v \in Workers \ {w} : alert'[v] = alert[v]
      /\ s # "idle" => alert'[w] \in Carried
  <2>1. CASE alert' = alert /\ pc[w] # "idle"
    BY <2>1 DEF WorkerType
  <2>2. CASE s = "idle" /\ alert' = [alert EXCEPT ![w] = NoAlert]
    BY <2>2 DEF WorkerType
  <2>3. CASE \E a \in Carried : alert' = [alert EXCEPT ![w] = a]
    BY <2>3 DEF WorkerType
  <2> QED BY <2>1, <2>2, <2>3
<1>3. /\ found' \in [Workers -> Nat]
      /\ \A v \in Workers \ {w} : found'[v] = found[v]
  BY DEF WorkerType
<1>4. chosen' \in [Workers -> Who] /\ nextAlert' \in Nat
  BY DEF WorkerType
<1> QED BY <1>1, <1>2, <1>3, <1>4 DEF WorkerType

\* The steps that put no alert on a case and are none of the sweeper's.
LEMMA QuietStep ==
    ASSUME TicketInv, UNCHANGED <<sweeper, told, handled>>, HistoryGrows,
           now' \in {now, now + 1}, WorkerType', EditType',
           \A w \in Workers : Rests(w),
           \/ TableKept
           \/ \E r \in Row : TableGrows(r) /\ r.group = NoGroup
    PROVE  TicketInv'
<1>1. TableKept \/ \E r \in Row : TableGrows(r)
  OBVIOUS
<1>2. TableType'
  BY <1>1, TableStays DEF TicketInv, TicketType
<1>3. SweepType' /\ SweepInv'
  BY <1>1, SweepRests DEF TicketInv, TicketType
<1>4. FreshInv' /\ AppendInv' /\ GroupInv' /\ AlertOnCase'
  BY CasesRest DEF TicketInv, TicketType
<1> QED BY <1>2, <1>3, <1>4 DEF TicketInv, TicketType

\* A step of a worker outside casegen.
LEMMA WorkerRests ==
    ASSUME TicketInv, NEW w \in Workers, NEW s \in Steps, Goto(w, s),
           s \in Elsewhere \/ (s = "create" /\ pc[w] = "route" /\ alert' = alert),
           UNCHANGED <<now, edit, sweeper, told, handled, touched>>,
           overlap' = overlap,
           \/ alert' = alert /\ pc[w] # "idle"
           \/ s = "idle" /\ alert' = [alert EXCEPT ![w] = NoAlert]
           \/ \E a \in Carried : alert' = [alert EXCEPT ![w] = a],
           found' = found \/ \E n \in Nat : found' = [found EXCEPT ![w] = n],
           chosen' = chosen \/ \E e \in Who : chosen' = [chosen EXCEPT ![w] = e],
           nextAlert' \in {nextAlert, nextAlert + 1},
           \/ TableKept
           \/ \E r \in Row : TableGrows(r) /\ r.group = NoGroup
    PROVE  TicketInv'
<1>1. WorkerType
  BY DEF TicketInv, TicketType
<1>2. /\ WorkerType' /\ pc'[w] = s
      /\ \A v \in Workers \ {w} : /\ pc'[v] = pc[v] /\ alert'[v] = alert[v]
                                   /\ found'[v] = found[v]
  BY <1>1, WorkerMoves
<1>3. \A v \in Workers : Rests(v)
  BY <1>2 DEF Rests
<1>4. EditType'
  BY DEF TicketInv, TicketType, EditType
<1>5. HistoryGrows
  BY DEF HistoryGrows
<1> QED BY <1>2, <1>3, <1>4, <1>5, QuietStep

LEMMA EmitStep ==
    ASSUME TicketInv, NEW w \in Workers, Emit(w) PROVE TicketInv'
<1>1. /\ Goto(w, "rba") /\ nextAlert' = nextAlert + 1
      /\ UNCHANGED <<found, chosen, sweeper, table, now, edit, handled, touched,
                     told, overlap>>
      /\ \E k \in Kinds :
           \/ alert' = [alert EXCEPT ![w] = [id |-> nextAlert, rule |-> k.rule,
                                       agent |-> k.agent, level |-> k.level]]
           \/ alert' = [alert EXCEPT ![w] = [id |-> 0, rule |-> k.rule,
                                       agent |-> k.agent, level |-> k.level]]
  BY DEF Emit, Fault
<1>2. \A k \in Kinds, n \in Nat : [id |-> n, rule |-> k.rule, agent |-> k.agent,
                                   level |-> k.level] \in Carried
  BY TicketingAssumption DEF Carried, Group
<1>3. \E a \in Carried : alert' = [alert EXCEPT ![w] = a]
  <2>1. nextAlert \in Nat /\ 0 \in Nat
    BY DEF TicketInv, TicketType, WorkerType
  <2> QED BY <1>1, <1>2, <2>1
<1>4. TableKept
  BY <1>1, Untouched DEF table, TicketInv, TicketType
<1>5. "rba" \in Steps /\ "rba" \in Elsewhere
  BY DEF Steps, Elsewhere
<1> QED BY <1>1, <1>3, <1>4, <1>5, WorkerRests

LEMMA RbaStep ==
    ASSUME TicketInv, NEW w \in Workers, RiskHook(w),
           UNCHANGED <<nextAlert, restarts>>
    PROVE  TicketInv'
<1>1. /\ "cases" \in Elsewhere /\ "score" \in Elsewhere /\ "load" \in Elsewhere
      /\ "notable" \in Elsewhere /\ "upsert" \in Elsewhere /\ "rroute" \in Elsewhere
      /\ "rcreate" \in Elsewhere /\ Elsewhere \subseteq Steps
  BY DEF Elsewhere, Steps
<1>2. \A s, t \in Elsewhere : \A b : IF b THEN s \in Elsewhere ELSE t \in Elsewhere
  OBVIOUS
<1>3. CASE RbaEvent(w) \/ RbaScore(w) \/ RbaLoad(w) \/ RbaNotable(w) \/ RbaUpsert(w)
  <2>1. /\ UNCHANGED <<alert, chosen, now, found, sweeper, edit, handled, touched,
                       told, overlap, cases, nextCase>>
        /\ pc[w] # "idle" /\ \E s \in Elsewhere : Goto(w, s)
    <3>1. CASE RbaEvent(w)
      BY <1>1, <3>1 DEF RbaEvent, caseState
    <3>2. CASE RbaScore(w)
      BY <1>1, <3>2 DEF RbaScore, caseState
    <3>3. CASE RbaLoad(w)
      <4>1. Goto(w, "notable") \/ Goto(w, "upsert")
        BY <3>3 DEF RbaLoad
      <4> QED BY <1>1, <3>3, <4>1 DEF RbaLoad, caseState
    <3>4. CASE RbaNotable(w)
      BY <1>1, <3>4 DEF RbaNotable, caseState
    <3>5. CASE RbaUpsert(w)
      BY <1>1, <3>5 DEF RbaUpsert, caseState
    <3> QED BY <1>3, <3>1, <3>2, <3>3, <3>4, <3>5
  <2>2. TableKept
    BY <2>1, Untouched DEF TicketInv, TicketType
  <2> QED BY <1>1, <2>1, <2>2, WorkerRests
<1>4. CASE RbaRoute(w)
  <2>1. /\ UNCHANGED <<alert, now, found, sweeper, edit, handled, touched,
                       told, overlap, cases, nextCase>>
        /\ pc[w] # "idle" /\ Goto(w, "rcreate")
        /\ \E e \in Who : chosen' = [chosen EXCEPT ![w] = e]
    BY <1>4, RouteType DEF RbaRoute, caseState
  <2>2. TableKept
    BY <2>1, Untouched DEF TicketInv, TicketType
  <2> QED BY <1>1, <2>1, <2>2, WorkerRests
<1>5. CASE RbaCreate(w)
  <2> DEFINE row == NewRow(RiskToPriority(score[w]), chosen[w], NoGroup, {})
  <2>1. /\ UNCHANGED <<alert, now, found, sweeper, edit, handled, touched,
                       told, overlap>>
        /\ pc[w] # "idle" /\ Goto(w, "upsert")
        /\ chosen' = [chosen EXCEPT ![w] = Nobody]
        /\ CreateCase(row) \/ UNCHANGED <<cases, nextCase>>
    BY <1>5 DEF RbaCreate, table
  <2>2. Nobody \in Who /\ chosen[w] \in Who /\ NoGroup \in Keys
    BY DEF Who, Keys, TicketInv, TicketType, WorkerType
  <2>3. row \in Row /\ row.group = NoGroup
    BY <2>2, PriorityTypes, NewRowType DEF TicketInv, TicketType
  <2>4. CreateCase(row) => TableGrows(row)
    BY CaseTableAssumption DEF CreateCase, TableGrows, CaseIds, TicketInv, TicketType,
       TableType
  <2> HIDE DEF row
  <2>5. TableKept \/ \E r \in Row : TableGrows(r) /\ r.group = NoGroup
    BY <2>1, <2>3, <2>4, Untouched DEF TicketInv, TicketType
  <2> QED BY <1>1, <2>1, <2>2, <2>5, WorkerRests
<1> QED BY <1>3, <1>4, <1>5 DEF RiskHook

LEMMA RouteStep ==
    ASSUME TicketInv, NEW w \in Workers, CaseRoute(w), UNCHANGED nextAlert
    PROVE  TicketInv'
<1>1. /\ UNCHANGED <<alert, now, found, sweeper, edit, handled, touched,
                     told, overlap, cases, nextCase>>
      /\ pc[w] = "route" /\ Goto(w, "create")
      /\ \E e \in Who : chosen' = [chosen EXCEPT ![w] = e]
  BY RouteType DEF CaseRoute, table, caseHistory
<1>2. TableKept
  BY <1>1, Untouched DEF TicketInv, TicketType
<1>3. "create" \in Steps
  BY DEF Steps
<1> QED BY <1>1, <1>2, <1>3, WorkerRests

\* The group's open case, if it has one, is found.
LEMMA FoundCase ==
    ASSUME TableType, NEW g
    PROVE  LET c == FindOpenCaseByGroup(g)
           IN  \/ c = 0 /\ \A d \in CaseIds : ~ OpenOf(d, g)
               \/ c \in CaseIds /\ OpenOf(c, g)
<1> DEFINE S == {c \in CaseIds : IsOpen(c) /\ cases[c].group = g}
           m == Max({0} \cup S)
<1>1. /\ S \subseteq CaseIds
      /\ CaseIds \subseteq 0..MaxCases /\ 0 \notin CaseIds /\ MaxCases \in Nat
  <2>1. S \subseteq CaseIds
    OBVIOUS
  <2>2. CaseIds \subseteq 0..MaxCases /\ 0 \notin CaseIds /\ MaxCases \in Nat
    BY CaseTableAssumption DEF CaseIds
  <2> QED BY <2>1, <2>2
<1>2. m \in {0} \cup S /\ \A y \in {0} \cup S : y <= m
  <2> DEFINE T == {0} \cup S
  <2> HIDE DEF S
  <2>1. T \subseteq 0..MaxCases /\ T # {}
    BY <1>1
  <2> HIDE DEF T
  <2>2. Max(T) \in T /\ \A y \in T : y <= Max(T)
    BY <1>1, <2>1, GreatestNat
  <2> QED BY <2>2 DEF T
<1>3. \A c \in CaseIds : OpenOf(c, g) <=> c \in S
  BY RowExists DEF OpenOf, IsOpen
<1>4. m = FindOpenCaseByGroup(g)
  BY DEF FindOpenCaseByGroup
<1> HIDE DEF m, S
<1>5. CASE m = 0
  <2>1. \A c \in S : c >= 1 /\ c <= 0
    BY <1>1, <1>2, <1>5, CaseTableAssumption DEF CaseIds
  <2>2. \A d \in CaseIds : d \notin S
    BY <2>1, CaseTableAssumption DEF CaseIds
  <2> QED BY <1>3, <1>4, <1>5, <2>2
<1>6. CASE m # 0
  BY <1>1, <1>2, <1>3, <1>4, <1>6
<1> QED BY <1>5, <1>6

LEMMA FindStep ==
    ASSUME TicketInv, NEW w \in Workers, CaseFind(w), UNCHANGED nextAlert
    PROVE  TicketInv'
<1> DEFINE g == Group(alert[w])
           c == FindOpenCaseByGroup(g)
<1>1. /\ UNCHANGED <<chosen, cases, nextCase, now, sweeper, edit, handled, touched, told>>
      /\ pc[w] = "cases"
      /\ \/ Return(w) /\ UNCHANGED <<found, overlap>>
         \/ /\ Goto(w, IF c = 0 THEN "route" ELSE "append")
            /\ found' = [found EXCEPT ![w] = c]
            /\ overlap' = IF c = 0 /\ \E v \in Workers : Opening(v, g)
                            THEN overlap \cup {g} ELSE overlap
            /\ UNCHANGED alert
  BY DEF CaseFind, table
<1>2. /\ TableType /\ WorkerType /\ FreshInv /\ AppendInv /\ GroupInv /\ AlertOnCase
      /\ SweepType /\ SweepInv /\ EditType
  BY DEF TicketInv, TicketType
<1>3. TableKept
  BY <1>1, <1>2, Untouched
<1>4. CASE Return(w) /\ UNCHANGED <<found, overlap>>
  <2>1. /\ Goto(w, "idle") /\ alert' = [alert EXCEPT ![w] = NoAlert]
        /\ "idle" \in Elsewhere /\ "idle" \in Steps
    BY <1>4 DEF Return, Elsewhere, Steps
  <2> QED BY <1>1, <1>3, <1>4, <2>1, WorkerRests
<1>5. CASE /\ Goto(w, IF c = 0 THEN "route" ELSE "append")
           /\ found' = [found EXCEPT ![w] = c]
           /\ overlap' = IF c = 0 /\ \E v \in Workers : Opening(v, g)
                           THEN overlap \cup {g} ELSE overlap
           /\ UNCHANGED alert
  <2>1. \/ c = 0 /\ \A d \in CaseIds : ~ OpenOf(d, g)
        \/ c \in CaseIds /\ OpenOf(c, g)
    BY <1>2, FoundCase
  <2>2. c \in Nat /\ (c = 0 \/ c \in CaseIds) /\ 0 \notin CaseIds
    BY <2>1, CaseTableAssumption DEF CaseIds
  <2> HIDE DEF g, c
  <2>3. PICK s \in {"route", "append"} : s = IF c = 0 THEN "route" ELSE "append"
    OBVIOUS
  <2>4. s \in Steps /\ Goto(w, s)
    BY <1>5, <2>3 DEF Steps
  <2>5. /\ WorkerType' /\ pc'[w] = s
        /\ \A v \in Workers \ {w} : /\ pc'[v] = pc[v] /\ alert'[v] = alert[v]
                                     /\ found'[v] = found[v]
    BY <1>1, <1>2, <1>5, <2>2, <2>4, WorkerMoves
  <2>6. found'[w] = c /\ alert' = alert /\ cases' = cases /\ touched' = touched
        /\ nextCase' = nextCase
    BY <1>1, <1>2, <1>5 DEF WorkerType
  <2>7. TableType' /\ FreshInv' /\ EditType' /\ SweepType' /\ SweepInv'
    <3>1. SweepType' /\ SweepInv'
      BY <1>1, <1>2, <1>3, SweepRests
    <3> QED BY <1>1, <1>2, <3>1 DEF TableType, FreshInv, EditType
  <2>8. AppendInv'
    <3> SUFFICES ASSUME NEW v \in Workers, pc'[v] = "append"
                 PROVE  /\ found'[v] \in CaseIds
                        /\ \/ Group(alert[v]) \in touched
                           \/ /\ cases[found'[v]] \in Row
                              /\ cases[found'[v]].group = Group(alert[v])
      BY <2>6 DEF AppendInv, Group
    <3>1. CASE v = w
      BY <2>1, <2>2, <2>3, <2>5, <2>6, <3>1 DEF OpenOf, g
    <3>2. CASE v # w
      BY <1>2, <2>5, <3>2 DEF AppendInv
    <3> QED BY <3>1, <3>2
  <2>9. GroupInv'
    <3> SUFFICES ASSUME NEW h \in Calm'
                 PROVE  /\ \A d, e \in CaseIds : OpenOf(d, h) /\ OpenOf(e, h) => d = e
                        /\ \A v, u \in Workers : Opening(v, h)' /\ Opening(u, h)' => v = u
                        /\ \A d \in CaseIds, v \in Workers :
                              ~ (OpenOf(d, h) /\ Opening(v, h)')
      BY <2>6 DEF GroupInv, OpenOf
    <3>1. h \in Calm
      BY <1>5, <2>6 DEF Calm
    <3>2. ASSUME NEW v \in Workers, Opening(v, h)'
          PROVE  \/ Opening(v, h)
                 \/ /\ v = w /\ h = g /\ c = 0
                    /\ \A u \in Workers : ~ Opening(u, h)
      <4>1. CASE v # w
        BY <2>5, <3>2, <4>1 DEF Opening, Group
      <4>2. CASE v = w
        <5>1. h = g /\ c = 0
          BY <2>2, <2>3, <2>5, <2>6, <3>2, <4>2 DEF Opening, Group, g
        <5>2. h \notin overlap'
          BY DEF Calm
        <5> QED BY <1>5, <4>2, <5>1, <5>2
      <4> QED BY <4>1, <4>2
    <3>3. c = 0 => \A d \in CaseIds : ~ OpenOf(d, g)
      BY <2>1, <2>2
    <3> QED BY <1>2, <3>1, <3>2, <3>3 DEF GroupInv
  <2>10. AlertOnCase'
    BY <1>1, <1>2 DEF AlertOnCase, Exists, Group
  <2> QED BY <2>5, <2>7, <2>8, <2>9, <2>10 DEF TicketInv, TicketType
<1> QED BY <1>1, <1>4, <1>5

LEMMA AppendStep ==
    ASSUME TicketInv, NEW w \in Workers, CaseAppend(w), UNCHANGED nextAlert
    PROVE  TicketInv'
<1> DEFINE a == alert[w]
           f == found[w]
           row == [cases[f] EXCEPT !.alerts = @ \cup {a.id}]
<1>1. /\ UNCHANGED <<chosen, nextCase, now, sweeper, edit, touched, told, overlap>>
      /\ pc[w] = "append" /\ Return(w) /\ found' = [found EXCEPT ![w] = 0]
      /\ \/ AppendAlertToCase(f, a.id) /\ handled' = handled \cup {a}
         \/ UNCHANGED <<cases, handled>>
  BY DEF CaseAppend
<1>2. /\ TableType /\ WorkerType /\ FreshInv /\ AppendInv /\ GroupInv /\ AlertOnCase
      /\ SweepType /\ SweepInv /\ EditType
  BY DEF TicketInv, TicketType
<1>3. /\ Goto(w, "idle") /\ alert' = [alert EXCEPT ![w] = NoAlert]
      /\ "idle" \in Elsewhere /\ "idle" \in Steps /\ 0 \in Nat
  BY <1>1 DEF Return, Elsewhere, Steps
<1>4. CASE UNCHANGED <<cases, handled>>
  <2>1. TableKept
    BY <1>1, <1>2, <1>4, Untouched
  <2> QED BY <1>1, <1>3, <1>4, <2>1, WorkerRests
<1>5. CASE AppendAlertToCase(f, a.id) /\ handled' = handled \cup {a}
  <2>1. /\ f \in CaseIds /\ a \in Carried
        /\ \/ Group(a) \in touched
           \/ cases[f] \in Row /\ cases[f].group = Group(a)
    BY <1>1, <1>2 DEF AppendInv, WorkerType
  <2> HIDE DEF a, f
  <2>2. ASSUME cases[f] \in Row
        PROVE  /\ row \in Row /\ row.group = cases[f].group
               /\ row.breached = cases[f].breached
               /\ row.status = cases[f].status /\ row.alerts = cases[f].alerts \cup {a.id}
    <3>1. a.id \in Nat
      BY <2>1 DEF Carried
    <3> QED BY <2>2, <3>1 DEF Row
  <2>3. UpdateRow(f, row)
    BY <1>5 DEF AppendAlertToCase
  <2> HIDE DEF row
  <2>4. TableKept
    BY <1>1, <1>2, <2>1, <2>2, <2>3, Updated
  <2>5. cases[f] \in Row => cases'[f] = row
    BY <1>2, <2>1, <2>3, RowIsCase DEF UpdateRow, TableType
  <2>6. /\ WorkerType' /\ pc'[w] = "idle"
        /\ \A v \in Workers \ {w} : /\ pc'[v] = pc[v] /\ alert'[v] = alert[v]
                                     /\ found'[v] = found[v]
    BY <1>1, <1>2, <1>3, WorkerMoves
  <2>7. \A v \in Workers : Rests(v)
    BY <1>3, <2>6 DEF Rests
  <2>8. HistoryGrows
    BY <1>1 DEF HistoryGrows
  <2>9. TableType' /\ EditType' /\ SweepType' /\ SweepInv'
    <3>1. SweepType' /\ SweepInv'
      BY <1>1, <1>2, <2>4, SweepRests
    <3>2. TableType'
      BY <1>1, <1>2, <2>4, TableStays
    <3> QED BY <1>1, <1>2, <3>1, <3>2 DEF EditType
  <2>10. FreshInv' /\ AppendInv' /\ GroupInv'
    BY <1>2, <2>4, <2>7, <2>8, GroupsRest
  <2>11. AlertOnCase'
    <3> SUFFICES ASSUME NEW b \in handled \cup {a}
                 PROVE  \/ Group(b) \in touched'
                        \/ \E c \in CaseIds : /\ cases'[c] # NoCase
                                              /\ cases'[c].group = Group(b)
                                              /\ b.id \in cases'[c].alerts
      BY <1>5 DEF AlertOnCase, Exists, Group
    <3>1. CASE b = a
      BY <1>1, <2>1, <2>2, <2>5, <3>1, RowIsCase
    <3>2. CASE b \in handled
      BY <1>2, <2>4, <2>8, <3>2, AlertsRest
    <3> QED BY <3>1, <3>2
  <2> QED BY <2>6, <2>9, <2>10, <2>11 DEF TicketInv, TicketType
<1> QED BY <1>1, <1>4, <1>5

LEMMA CreateStep ==
    ASSUME TicketInv, NEW w \in Workers, CaseCreate(w), UNCHANGED nextAlert
    PROVE  TicketInv'
<1> DEFINE a == alert[w]
           row == NewRow(PriorityForLevel(a.level), chosen[w], Group(a), {a.id})
<1>1. /\ UNCHANGED <<found, now, sweeper, edit, touched, told, overlap>>
      /\ pc[w] = "create" /\ Return(w) /\ chosen' = [chosen EXCEPT ![w] = Nobody]
      /\ \/ CreateCase(row) /\ handled' = handled \cup {a}
         \/ UNCHANGED <<cases, nextCase, handled>>
  BY DEF CaseCreate, table
<1>2. /\ TableType /\ WorkerType /\ FreshInv /\ AppendInv /\ GroupInv /\ AlertOnCase
      /\ SweepType /\ SweepInv /\ EditType
  BY DEF TicketInv, TicketType
<1>3. /\ Goto(w, "idle") /\ alert' = [alert EXCEPT ![w] = NoAlert]
      /\ "idle" \in Elsewhere /\ "idle" \in Steps /\ Nobody \in Who
  BY <1>1 DEF Return, Elsewhere, Steps, Who
<1>4. UNCHANGED nextAlert /\ nextAlert' \in {nextAlert, nextAlert + 1}
  OBVIOUS
<1>5. CASE UNCHANGED <<cases, nextCase, handled>>
  <2>1. TableKept
    BY <1>2, <1>5, Untouched
  <2> QED BY <1>1, <1>3, <1>4, <1>5, <2>1, WorkerRests
<1>6. CASE CreateCase(row) /\ handled' = handled \cup {a}
  <2>1. a \in Carried /\ Group(a) \in Keys /\ a.id \in Nat /\ chosen[w] \in Who
    BY <1>1, <1>2 DEF WorkerType, Carried, Keys
  <2>2. /\ row \in Row /\ row.status = "open" /\ row.group = Group(a)
        /\ row.alerts = {a.id}
    BY <1>2, <2>1, PriorityTypes, NewRowType
  <2>3. TableGrows(row) /\ cases'[nextCase] = row
    BY <1>2, <1>6, CaseTableAssumption DEF CreateCase, TableGrows, CaseIds, TableType
  <2> DEFINE g == Group(a)
  <2>4. Opening(w, g)
    BY <1>1 DEF Opening
  <2> HIDE DEF row, a, g
  <2>5. /\ WorkerType' /\ pc'[w] = "idle"
        /\ \A v \in Workers \ {w} : /\ pc'[v] = pc[v] /\ alert'[v] = alert[v]
                                     /\ found'[v] = found[v]
    BY <1>1, <1>2, <1>3, WorkerMoves
  <2>6. HistoryGrows /\ \E r \in Row : TableGrows(r)
    BY <1>1, <2>2, <2>3 DEF HistoryGrows
  <2>7. TableType' /\ EditType' /\ SweepType' /\ SweepInv'
    <3>1. SweepType' /\ SweepInv'
      BY <1>1, <1>2, <2>6, SweepRests
    <3>2. TableType'
      BY <1>1, <1>2, <2>6, TableStays
    <3> QED BY <1>1, <1>2, <3>1, <3>2 DEF EditType
  <2>8. \A c \in CaseIds : c # nextCase => cases'[c] = cases[c]
    BY <1>2, <2>3 DEF TableGrows, TableType
  <2>9. FreshInv'
    <3>1. \A c \in CaseIds : c \in Nat
      BY CaseTableAssumption DEF CaseIds
    <3> QED BY <1>2, <2>3, <2>8, <3>1 DEF FreshInv, TableGrows, TableType
  <2>10. AppendInv'
    <3> SUFFICES ASSUME NEW v \in Workers, pc'[v] = "append"
                 PROVE  /\ found'[v] \in CaseIds
                        /\ \/ Group(alert'[v]) \in touched'
                           \/ /\ cases'[found'[v]] \in Row
                              /\ cases'[found'[v]].group = Group(alert'[v])
      BY DEF AppendInv, Group
    <3>1. /\ pc[v] = "append" /\ alert'[v] = alert[v] /\ found'[v] = found[v]
      BY <2>5
    <3>2. /\ found[v] \in CaseIds
          /\ \/ Group(alert[v]) \in touched
             \/ cases[found[v]] \in Row /\ cases[found[v]].group = Group(alert[v])
      BY <1>2, <3>1 DEF AppendInv
    <3> QED BY <1>2, <2>6, <3>1, <3>2, RowStays DEF HistoryGrows
  <2>11. GroupInv'
    <3> SUFFICES ASSUME NEW h \in Calm'
                 PROVE  /\ \A d, e \in CaseIds : OpenOf(d, h)' /\ OpenOf(e, h)' => d = e
                        /\ \A v, u \in Workers : Opening(v, h)' /\ Opening(u, h)' => v = u
                        /\ \A d \in CaseIds, v \in Workers :
                              ~ (OpenOf(d, h)' /\ Opening(v, h)')
      BY DEF GroupInv
    <3>1. h \in Calm
      BY <1>1 DEF Calm
    <3>2. \A v \in Workers : Opening(v, h)' => v # w /\ Opening(v, h)
      BY <2>5 DEF Opening, Group
    <3>3. \A c \in CaseIds : OpenOf(c, h)' =>
             OpenOf(c, h) \/ (c = nextCase /\ h = g)
      BY <2>2, <2>3, <2>8 DEF OpenOf, g
    <3> QED BY <1>2, <2>4, <3>1, <3>2, <3>3 DEF GroupInv
  <2>12. AlertOnCase'
    <3> SUFFICES ASSUME NEW b \in handled \cup {a}
                 PROVE  \/ Group(b) \in touched'
                        \/ \E c \in CaseIds : /\ cases'[c] # NoCase
                                              /\ cases'[c].group = Group(b)
                                              /\ b.id \in cases'[c].alerts
      BY <1>6 DEF AlertOnCase, Exists, Group
    <3>1. CASE b = a
      BY <2>2, <2>3, <3>1, RowIsCase DEF TableGrows
    <3>2. CASE b \in handled
      BY <1>2, <2>6, <3>2, AlertsRest
    <3> QED BY <3>1, <3>2
  <2> QED BY <2>5, <2>7, <2>9, <2>10, <2>11, <2>12 DEF TicketInv, TicketType
<1> QED BY <1>1, <1>5, <1>6

\* The requests of the API and the clock.
LEMMA WorkersRest ==
    ASSUME TicketInv, UNCHANGED <<workers, nextAlert>>
    PROVE  WorkerType' /\ \A w \in Workers : Rests(w)
  BY DEF workers, TicketInv, TicketType, WorkerType, Rests

\* A request on the cases: it may write one row of a group that now counts as
\* touched, insert one of no group, or write nothing.
LEMMA ApiStep ==
    ASSUME TicketInv, UNCHANGED <<workers, nextAlert, sweeper, told, handled, now>>,
           HistoryGrows, EditType',
           \/ TableKept
           \/ \E r \in Row : TableGrows(r) /\ r.group = NoGroup
    PROVE  TicketInv'
  BY WorkersRest, QuietStep

LEMMA ReadStep == ASSUME TicketInv, EditRead, UNCHANGED nextAlert PROVE TicketInv'
<1>1. /\ UNCHANGED <<workers, cases, nextCase, now, sweeper, handled, touched, told,
                     overlap>>
      /\ \E c \in CaseIds, p \in Patches :
            Exists(c) /\ edit' = [step |-> "write", c |-> c, row |-> cases[c],
                                  patch |-> p]
  BY DEF EditRead, table
<1>2. TableType
  BY DEF TicketInv, TicketType
<1>3. EditType'
  BY <1>1, <1>2, RowExists DEF EditType
<1> QED BY <1>1, <1>2, <1>3, ApiStep, Untouched DEF HistoryGrows

LEMMA OpenStep ==
    ASSUME TicketInv, OpenRoute \/ OpenInsert, UNCHANGED nextAlert PROVE TicketInv'
<1>1. TableType /\ EditType
  BY DEF TicketInv, TicketType
<1>2. CASE OpenRoute
  <2>1. UNCHANGED <<workers, cases, nextCase, now, sweeper, handled, touched, told,
                    overlap>>
    BY <1>2 DEF OpenRoute, table
  <2>2. \E prio \in Priorities, who \in Who :
           edit' = [step |-> "open", prio |-> prio, who |-> who]
    <3>1. PICK p \in Patches, duty \in Rosters :
             LET prio == IF p.prio = Keep THEN "medium" ELSE p.prio
                 who  == IF p.who = Nobody THEN Route(prio, NoGroup, duty) ELSE p.who
             IN  edit' = [step |-> "open", prio |-> prio, who |-> who]
      BY <1>2 DEF OpenRoute
    <3>2. p.prio \in Priorities \cup {Keep} /\ p.who \in Who /\ "medium" \in Priorities
      BY CasesAssumption DEF Who, Priorities
    <3> QED BY <3>1, <3>2, RouteType
  <2>3. EditType'
    BY <2>2 DEF EditType
  <2> QED BY <1>1, <2>1, <2>3, ApiStep, Untouched DEF HistoryGrows
<1>3. CASE OpenInsert
  <2> DEFINE row == NewRow(edit.prio, edit.who, NoGroup, {})
  <2>1. /\ UNCHANGED <<workers, now, sweeper, handled, touched, told, overlap>>
        /\ edit' = NoEdit /\ edit.step = "open"
        /\ CreateCase(row) \/ UNCHANGED <<cases, nextCase>>
    BY <1>3 DEF OpenInsert, table
  <2>2. edit.prio \in Priorities /\ edit.who \in Who /\ NoGroup \in Keys
    BY <1>1, <2>1 DEF EditType, NoEdit, Keys
  <2>3. row \in Row /\ row.group = NoGroup
    BY <1>1, <2>2, NewRowType
  <2>4. CreateCase(row) => TableGrows(row)
    BY <1>1, CaseTableAssumption DEF CreateCase, TableGrows, CaseIds, TableType
  <2> HIDE DEF row
  <2>5. TableKept \/ \E r \in Row : TableGrows(r) /\ r.group = NoGroup
    BY <1>1, <2>1, <2>3, <2>4, Untouched
  <2>6. EditType'
    BY <2>1 DEF EditType
  <2> QED BY <2>1, <2>5, <2>6, ApiStep DEF HistoryGrows
<1> QED BY <1>2, <1>3

LEMMA WriteStep == ASSUME TicketInv, EditWrite, UNCHANGED nextAlert PROVE TicketInv'
<1> DEFINE c == edit.c
           status == IF edit.patch.status = Keep THEN edit.row.status
                                                 ELSE edit.patch.status
           prio == IF edit.patch.prio = Keep THEN edit.row.prio ELSE edit.patch.prio
           who == IF edit.patch.who = Nobody THEN edit.row.who ELSE edit.patch.who
           row == [cases[c] EXCEPT !.status = status, !.prio = prio, !.who = who,
                                   !.alerts = edit.row.alerts]
<1>1. /\ UNCHANGED <<workers, nextCase, now, sweeper, handled, told, overlap>>
      /\ edit.step = "write"
      /\ \/ /\ UpdateRow(c, row) /\ Touch(c)
            /\ edit' = [step |-> "due", c |-> c, prio |-> prio] \/ edit' = NoEdit
         \/ edit' = NoEdit /\ UNCHANGED <<cases, touched>>
  BY DEF EditWrite, Fault
<1>2. TableType /\ EditType
  BY DEF TicketInv, TicketType
<1>3. c \in CaseIds /\ edit.row \in Row /\ edit.patch \in Patches
  BY <1>1, <1>2 DEF EditType, NoEdit
<1>4. status \in Statuses /\ prio \in Priorities /\ who \in Who
      /\ edit.row.alerts \in SUBSET Nat
  <2>1. /\ edit.patch.status \in Statuses \cup {Keep}
        /\ edit.patch.prio \in Priorities \cup {Keep} /\ edit.patch.who \in Who
    BY <1>3, CasesAssumption DEF Who
  <2>2. /\ edit.row.status \in Statuses /\ edit.row.prio \in Priorities
        /\ edit.row.who \in Who /\ edit.row.alerts \in SUBSET Nat
    BY <1>3 DEF Row, Who
  <2> QED BY <2>1, <2>2
<1>5. ASSUME cases[c] \in Row
      PROVE  row \in Row /\ row.group = cases[c].group
             /\ row.breached = cases[c].breached
  <2> HIDE DEF c, status, prio, who
  <2> QED BY <1>4, <1>5 DEF Row, Who
<1> HIDE DEF c, status, prio, who, row
<1>6. CASE edit' = NoEdit /\ UNCHANGED <<cases, touched>>
  <2>1. EditType'
    BY <1>6 DEF EditType
  <2> QED BY <1>1, <1>2, <1>6, <2>1, ApiStep, Untouched DEF HistoryGrows
<1>7. CASE /\ UpdateRow(c, row) /\ Touch(c)
           /\ edit' = [step |-> "due", c |-> c, prio |-> prio] \/ edit' = NoEdit
  <2>1. EditType'
    BY <1>3, <1>4, <1>7 DEF EditType
  <2>2. HistoryGrows /\ (cases[c] \in Row => cases[c].group \in touched')
    BY <1>1, <1>2, <1>3, <1>7, RowExists DEF HistoryGrows, Touch
  <2>3. TableKept
    BY <1>1, <1>2, <1>3, <1>5, <1>7, <2>2, Updated
  <2> QED BY <1>1, <2>1, <2>2, <2>3, ApiStep
<1> QED BY <1>1, <1>6, <1>7

LEMMA DueStep == ASSUME TicketInv, EditDue, UNCHANGED nextAlert PROVE TicketInv'
<1> DEFINE c == edit.c
           due == IF Sla[edit.prio] > 0 THEN now + Sla[edit.prio] ELSE 0
           row == [cases[c] EXCEPT !.due = due]
<1>1. /\ UNCHANGED <<workers, nextCase, now, sweeper, handled, touched, told, overlap>>
      /\ edit.step = "due" /\ edit' = NoEdit
      /\ UpdateRow(c, row) \/ UNCHANGED cases
  BY DEF EditDue, Fault
<1>2. TableType /\ EditType
  BY DEF TicketInv, TicketType
<1>3. c \in CaseIds /\ edit.prio \in Priorities
  BY <1>1, <1>2 DEF EditType, NoEdit
<1>4. due \in Nat
  BY <1>2, <1>3, CaseTableAssumption DEF TableType
<1>5. ASSUME cases[c] \in Row
      PROVE  /\ row \in Row /\ row.group = cases[c].group
             /\ row.breached = cases[c].breached /\ row.status = cases[c].status
             /\ row.alerts = cases[c].alerts
  <2>1. "low" \in Priorities /\ Nobody \in Who
    BY DEF Priorities, Who
  <2> HIDE DEF due, c
  <2> QED BY <1>4, <1>5, <2>1, FieldUpdates
<1> HIDE DEF c, due, row
<1>6. TableKept
  BY <1>1, <1>2, <1>3, <1>5, Untouched, Updated
<1>7. EditType'
  BY <1>1 DEF EditType
<1> QED BY <1>1, <1>6, <1>7, ApiStep DEF HistoryGrows

LEMMA DeleteStep == ASSUME TicketInv, Delete, UNCHANGED nextAlert PROVE TicketInv'
<1>1. PICK c \in CaseIds : Exists(c) /\ DeleteCase(c) /\ Touch(c)
  BY DEF Delete
<1>2. UNCHANGED <<workers, nextCase, now, sweeper, edit, handled, told, overlap>>
  BY DEF Delete
<1>3. TableType /\ EditType /\ cases[c] \in Row
  BY <1>1, RowExists DEF TicketInv, TicketType
<1>4. HistoryGrows /\ cases[c].group \in touched'
  BY <1>1, <1>2 DEF HistoryGrows, Touch
<1>5. TableKept
  BY <1>1, <1>2, <1>3, <1>4 DEF TableKept, RowKept, DeleteCase, TableType
<1>6. EditType'
  BY <1>2, <1>3 DEF EditType
<1> QED BY <1>2, <1>4, <1>5, <1>6, ApiStep

LEMMA RiskApiStep == ASSUME TicketInv, RiskApi, UNCHANGED nextAlert PROVE TicketInv'
<1>1. UNCHANGED <<workers, now, caseState>>
  BY DEF RiskApi, ThresholdRead, ThresholdWrite, Purge
<1>2. EditType' /\ TableKept
  BY <1>1, Untouched DEF caseState, TicketInv, TicketType, EditType
<1> QED BY <1>1, <1>2, ApiStep DEF caseState, HistoryGrows

LEMMA TickStep == ASSUME TicketInv, Tick PROVE TicketInv'
<1>1. UNCHANGED <<workers, nextAlert, sweeper, table, edit, caseHistory>> /\ now' = now + 1
  BY DEF Tick
<1>2. EditType' /\ TableKept
  BY <1>1, Untouched DEF table, TicketInv, TicketType, EditType
<1> QED BY <1>1, <1>2, WorkersRest, QuietStep DEF caseHistory, HistoryGrows

\* A stop forgets what the processes held; the tables stay.
LEMMA RestartStep == ASSUME TicketInv, Restart PROVE TicketInv'
<1>1. /\ pc' = [w \in Workers |-> "idle"] /\ alert' = [w \in Workers |-> NoAlert]
      /\ found' = [w \in Workers |-> 0] /\ chosen' = [w \in Workers |-> Nobody]
      /\ sPc' = "idle" /\ sList' = {} /\ edit' = NoEdit
      /\ UNCHANGED <<cases, nextCase, now, handled, touched, told, overlap, nextAlert>>
  BY DEF Restart, table, caseHistory
<1>2. /\ TableType /\ FreshInv /\ AppendInv /\ GroupInv /\ AlertOnCase /\ SweepType
      /\ SweepInv /\ nextAlert \in Nat
  BY DEF TicketInv, TicketType, WorkerType
<1>3. TableKept
  BY <1>1, <1>2, Untouched
<1>4. TableType'
  BY <1>1, <1>2 DEF TableType
<1>5. WorkerType'
  <2>1. "idle" \in Steps /\ Nobody \in Who
    BY DEF Steps, Who
  <2> QED BY <1>1, <1>2, <2>1 DEF WorkerType
<1>6. SweepType' /\ SweepInv' /\ EditType'
  <2>1. SweepType' /\ EditType'
    BY <1>1, <1>2 DEF SweepType, EditType
  <2>2. SweepInv'
    BY <1>1, <1>2, MarksRest DEF SweepInv
  <2> QED BY <2>1, <2>2
<1>7. \A w \in Workers : Rests(w)
  BY <1>1 DEF Rests, Elsewhere, Steps
<1>8. FreshInv' /\ AppendInv' /\ GroupInv' /\ AlertOnCase'
  BY <1>1, <1>2, <1>3, <1>7, CasesRest DEF HistoryGrows
<1> QED BY <1>4, <1>5, <1>6, <1>8 DEF TicketInv, TicketType

\* A step of the sweeper.
LEMMA SweeperStep == ASSUME TicketInv, Sweep, UNCHANGED nextAlert PROVE TicketInv'
<1>1. /\ TableType /\ FreshInv /\ AppendInv /\ GroupInv /\ AlertOnCase /\ SweepType
      /\ SweepInv /\ WorkerType /\ EditType
  BY DEF TicketInv, TicketType
<1>2. SweepType' /\ SweepInv' /\ TableKept
  BY <1>1, SweepStep DEF SweepGood
<1>3. UNCHANGED <<pc, alert, found, chosen, edit, handled, touched, overlap, now, nextCase>>
  BY SweepLeaves DEF SweepFrame
<1>4. TableType' /\ WorkerType' /\ EditType'
  <2>1. TableType'
    BY <1>1, <1>2, <1>3, TableStays
  <2> QED BY <1>1, <1>3, <2>1 DEF WorkerType, EditType
<1>5. FreshInv' /\ AppendInv' /\ GroupInv' /\ AlertOnCase'
  BY <1>1, <1>2, <1>3, CasesRest DEF HistoryGrows, Rests
<1> QED BY <1>2, <1>4, <1>5 DEF TicketInv, TicketType

-----------------------------------------------------------------------------
(* The theorems                                                            *)

LEMMA TicketInit == Init => TicketInv
<1> SUFFICES ASSUME Init PROVE TicketInv
  OBVIOUS
<1> USE DEF Init, CasesInit, CaseTableInit
<1>1. TableType
  BY DEF TableType
<1>2. WorkerType
  BY DEF WorkerType, Steps, Who
<1>3. SweepType /\ EditType
  BY DEF SweepType, EditType
<1>4. FreshInv /\ AppendInv
  BY DEF FreshInv, AppendInv
<1>5. SweepInv
  BY DEF SweepInv
<1>6. GroupInv
  BY RowIsCase DEF GroupInv, OpenOf, Opening
<1>7. AlertOnCase
  BY DEF AlertOnCase
<1> QED BY <1>1, <1>2, <1>3, <1>4, <1>5, <1>6, <1>7 DEF TicketInv, TicketType

LEMMA TicketStep == TicketInv /\ [Next]_vars => TicketInv'
<1> SUFFICES ASSUME TicketInv, [Next]_vars PROVE TicketInv'
  OBVIOUS
<1>1. ASSUME NEW w \in Workers, Emit(w) \/ Worker(w) PROVE TicketInv'
  <2>1. CASE CaseHook(w) /\ UNCHANGED <<risk, nextAlert, restarts>>
    BY <2>1, FindStep, AppendStep, RouteStep, CreateStep DEF CaseHook
  <2>2. CASE RiskHook(w) /\ UNCHANGED <<nextAlert, restarts>>
    BY <2>2, RbaStep
  <2> QED BY <1>1, <2>1, <2>2, EmitStep DEF Worker
<1>2. CASE Sweep /\ UNCHANGED <<risk, nextAlert, restarts>>
  BY <1>2, SweeperStep
<1>3. CASE Api /\ UNCHANGED <<risk, nextAlert, restarts>>
  BY <1>3, ReadStep, WriteStep, DueStep, OpenStep, DeleteStep DEF Api
<1>4. CASE RiskApi /\ UNCHANGED <<nextAlert, restarts>>
  BY <1>4, RiskApiStep
<1>5. CASE Tick
  BY <1>5, TickStep
<1>6. CASE Restart
  BY <1>6, RestartStep
<1>7. CASE UNCHANGED vars
  <2>1. UNCHANGED <<workers, sweeper, table, now, edit, caseHistory, nextAlert>>
    BY <1>7 DEF vars
  <2>2. EditType' /\ TableKept
    BY <2>1, Untouched DEF table, TicketInv, TicketType, EditType
  <2> QED BY <2>1, <2>2, ApiStep DEF caseHistory, HistoryGrows
<1> QED BY <1>1, <1>2, <1>3, <1>4, <1>5, <1>6, <1>7 DEF Next

LEMMA TicketAlways == Spec => []TicketInv
  BY TicketInit, TicketStep, PTL DEF Spec

\* The breach of a case is notified at most once, for any number of rows,
\* workers and requests, over failed statements and restarts: the sweeper
\* (casesla/sweeper.go:97) lists only rows that are not marked, and marks the
\* row before it tells anybody.
THEOREM BreachOnce == Spec => []BreachToldOnce
<1>1. TicketInv => BreachToldOnce
  BY DEF TicketInv, SweepInv, BreachToldOnce
<1> QED BY <1>1, TicketAlways, PTL

\* A set with at most one member counts at most one.
LEMMA AtMostOne ==
    ASSUME NEW S, \A x, y \in S : x = y
    PROVE  /\ Cardinality(S) \in {0, 1}
           /\ Cardinality(S) = 1 => S # {}
<1>1. CASE S = {}
  BY <1>1, FS_EmptySet
<1>2. CASE S # {}
  <2>1. PICK x \in S : TRUE
    BY <1>2
  <2>2. S = {x}
    BY <2>1
  <2> QED BY <1>2, <2>2, FS_Singleton
<1> QED BY <1>1, <1>2

\* A group has one open case or one that a worker is about to open, unless two
\* workers looked for it at once (casegen.go:62 finds and creates in two
\* statements) or a request wrote one of its cases.
THEOREM OneCasePerGroup == Spec => []OneOpenCase
<1>1. TicketInv => OneOpenCase
  <2> SUFFICES ASSUME TicketInv, NEW g \in Groups \ (touched \cup overlap)
               PROVE  Cardinality({c \in CaseIds : IsOpen(c) /\ cases[c].group = g})
                        + Cardinality({w \in Workers : Opening(w, g)}) <= 1
    BY DEF OneOpenCase
  <2> DEFINE S == {c \in CaseIds : IsOpen(c) /\ cases[c].group = g}
             W == {w \in Workers : Opening(w, g)}
  <2>1. \A c \in CaseIds : c \in S <=> OpenOf(c, g)
    BY RowExists DEF OpenOf, IsOpen, TicketInv, TicketType
  <2>2. g \in Calm
    BY DEF Calm
  <2>3. /\ \A c, d \in S : c = d
        /\ \A v, w \in W : v = w
        /\ S = {} \/ W = {}
    <3> HIDE DEF S
    <3>1. \A c \in S : c \in CaseIds
      BY DEF S
    <3> QED BY <2>1, <2>2, <3>1 DEF TicketInv, GroupInv
  <2> HIDE DEF S, W
  <2>4. Cardinality(S) \in {0, 1} /\ Cardinality(W) \in {0, 1}
        /\ (Cardinality(S) = 1 => S # {}) /\ (Cardinality(W) = 1 => W # {})
    BY <2>3, AtMostOne
  <2>5. Cardinality(S) + Cardinality(W) <= 1
    BY <2>3, <2>4
  <2> QED BY <2>5 DEF S, W
<1> QED BY <1>1, TicketAlways, PTL

\* An alert that the case hook has put on a case (casegen.go:62, create or
\* append) stays on a case of its group until a request writes the group.
THEOREM AlertStaysOnCase == Spec => []AlertOnCase
<1>1. TicketInv => AlertOnCase
  BY DEF TicketInv
<1> QED BY <1>1, TicketAlways, PTL

-----------------------------------------------------------------------------
(* Risk-based alerting: while an agent's row is read and written by one    *)
(* process at a time, the copy in that process's hand is the row, and      *)
(* counts the notables                                                     *)

Writing(w, a) == Holding(w) /\ alert[w].agent = a
Pending(a)    == thr # Idle /\ thr.agent = a
Noted(a)      == {n \in notables : n.agent = a}

\* A row that counts the agent's notables, none of them younger than it says.
Counts(row, a) == /\ row.fired = Cardinality(Noted(a))
                  /\ \A n \in Noted(a) : n.at <= row.last

Spaced(a) == \A m, n \in Noted(a) :
                 m # n => m.at - n.at >= Cooldown \/ n.at - m.at >= Cooldown

Alone(a) == /\ \A v, w \in Workers : Writing(v, a) /\ Writing(w, a) => v = w
            /\ \A w \in Workers : ~ (Writing(w, a) /\ Pending(a))

Copies(a) ==
    /\ (\A w \in Workers : ~ Writing(w, a)) => Counts(entity[a], a)
    /\ Pending(a) => Counts(thr.row, a)
    /\ \A w \in Workers : Writing(w, a) =>
          /\ Counts(ent[w], a)
          /\ pc[w] = "notable" => now - ent[w].last >= Cooldown

RowGood(a) == Spaced(a) /\ Alone(a) /\ Copies(a)

NotesType == /\ IsFiniteSet(notables) /\ nextNotable \in Nat
             /\ \A n \in notables : /\ n.id \in Nat /\ n.id < nextNotable
                                    /\ n.at \in Int /\ n.at <= now

ThrType == thr = Idle \/ (/\ thr.step = "write" /\ thr.agent \in Agents
                          /\ thr.row \in EntityRow)

RiskType == /\ entity \in [Agents -> EntityRow] /\ ent \in [Workers -> EntityRow]
            /\ ThrType /\ NotesType

RiskInv == RiskType /\ \A a \in Agents \ raced : RowGood(a)

LEMMA DefaultRow == DefaultEntity \in EntityRow /\ DefaultEntity.fired = 0
<1>1. NeverFired \in Int /\ DefaultThreshold \in Nat
  BY RiskAssumption DEF NeverFired
<1> QED BY <1>1 DEF DefaultEntity, EntityRow


\* What a worker does that leaves its copy of an agent's row alone.
CopyKept(w, a) ==
    /\ Writing(w, a)' <=> Writing(w, a)
    /\ Writing(w, a) => /\ ent'[w] = ent[w]
                        /\ pc'[w] = "notable" => pc[w] = "notable"

\* A step that leaves the row of an agent, its notables and the copies of it.
LEMMA RowRests ==
    ASSUME NEW a \in Agents, RowGood(a), Noted(a)' = Noted(a), entity'[a] = entity[a],
           Pending(a)' => Pending(a) /\ thr' = thr,
           \A w \in Workers : CopyKept(w, a),
           now' = now \/ \A w \in Workers : ~ Writing(w, a)
    PROVE  RowGood(a)'
<1>1. Spaced(a)'
  BY DEF RowGood, Spaced
<1>2. Alone(a)'
  BY DEF RowGood, Alone, CopyKept
<1>3. \A row : Counts(row, a) => row.fired = Cardinality(Noted(a)')
                                 /\ \A n \in Noted(a)' : n.at <= row.last
  BY DEF Counts
<1>4. (\A w \in Workers : ~ Writing(w, a)') => Counts(entity[a], a)'
  BY <1>3 DEF RowGood, Copies, Counts, CopyKept
<1>5. Pending(a)' => Counts(thr.row, a)'
  BY <1>3 DEF RowGood, Copies, Counts
<1>6. ASSUME NEW w \in Workers, Writing(w, a)'
      PROVE  /\ Counts(ent[w], a)'
             /\ pc'[w] = "notable" => now' - ent'[w].last >= Cooldown
  <2>1. Writing(w, a) /\ ent'[w] = ent[w] /\ (pc'[w] = "notable" => pc[w] = "notable")
        /\ now' = now
    BY <1>6 DEF CopyKept
  <2> QED BY <1>3, <2>1 DEF RowGood, Copies, Counts
<1>7. Copies(a)'
  BY <1>4, <1>5, <1>6 DEF Copies
<1> QED BY <1>1, <1>2, <1>7 DEF RowGood

\* A step that leaves the rows and the notables, and every copy of a row.
LEMMA RiskRests ==
    ASSUME RiskInv, UNCHANGED <<entity, notables, nextNotable, thr, raced>>,
           ent' \in [Workers -> EntityRow],
           \A w \in Workers, a \in Agents : CopyKept(w, a),
           now \in Nat,
           \/ now' = now
           \/ now' = now + 1 /\ \A w \in Workers : pc[w] = "idle"
    PROVE  RiskInv'
<1>1. RiskType'
  BY DEF RiskInv, RiskType, ThrType, NotesType
<1>2. ASSUME NEW a \in Agents \ raced PROVE RowGood(a)'
  <2>1. now' = now \/ \A w \in Workers : ~ Writing(w, a)
    BY DEF Writing, Holding
  <2>2. RowGood(a) /\ Noted(a)' = Noted(a) /\ (Pending(a)' => Pending(a))
    BY DEF RiskInv, Noted, Pending
  <2> QED BY <2>1, <2>2, RowRests
<1> QED BY <1>1, <1>2 DEF RiskInv

\* The steps in which a worker has no copy.
Apart == {"idle", "rba", "score", "load", "cases", "append", "route", "create"}

LEMMA ApartRests ==
    ASSUME RiskInv, TicketInv, NEW w \in Workers, NEW step \in Apart, pc[w] \in Apart,
           Goto(w, step), \A v \in Workers \ {w} : alert'[v] = alert[v],
           UNCHANGED <<entity, notables, nextNotable, ent, thr, raced, now>>
    PROVE  RiskInv'
<1>1. /\ pc \in [Workers -> Steps] /\ now \in Nat
      /\ ent' \in [Workers -> EntityRow]
  BY DEF TicketInv, TicketType, TableType, WorkerType, RiskInv, RiskType
<1>2. ASSUME NEW v \in Workers, NEW a \in Agents PROVE CopyKept(v, a)
  <2>1. CASE v = w
    <3>1. pc'[w] = step
      BY <1>1 DEF Goto
    <3> QED BY <2>1, <3>1 DEF CopyKept, Writing, Holding, Apart
  <2>2. CASE v # w
    <3>1. pc'[v] = pc[v] /\ alert'[v] = alert[v] /\ ent'[v] = ent[v]
      BY <1>1, <2>2 DEF Goto
    <3> QED BY <3>1 DEF CopyKept, Writing, Holding
  <2> QED BY <2>1, <2>2
<1> QED BY <1>1, <1>2, RiskRests

\* Nobody moves but the sweeper, the requests on cases and the clock.
LEMMA WorkersStand ==
    ASSUME RiskInv, TicketInv, UNCHANGED <<workers, risk>>,
           \/ now' = now
           \/ now' = now + 1 /\ \A w \in Workers : pc[w] = "idle"
    PROVE  RiskInv'
<1>1. now \in Nat /\ ent' \in [Workers -> EntityRow]
  BY DEF TicketInv, TicketType, TableType, RiskInv, RiskType, risk
<1>2. \A w \in Workers, a \in Agents : CopyKept(w, a)
  BY DEF CopyKept, Writing, Holding, workers, risk
<1> QED BY <1>1, <1>2, RiskRests DEF risk

LEMMA RiskEmit ==
    ASSUME RiskInv, TicketInv, NEW w \in Workers, Emit(w) PROVE RiskInv'
<1>1. /\ pc[w] = "idle" /\ Goto(w, "rba") /\ UNCHANGED <<risk, now>>
      /\ \E x : alert' = [alert EXCEPT ![w] = x]
  BY DEF Emit
<1>2. \A v \in Workers \ {w} : alert'[v] = alert[v]
  BY <1>1 DEF TicketInv, TicketType, WorkerType
<1> QED BY <1>1, <1>2, ApartRests DEF Apart, risk

LEMMA RiskCaseHook ==
    ASSUME RiskInv, TicketInv, NEW w \in Workers, CaseHook(w), UNCHANGED risk
    PROVE  RiskInv'
<1>1. /\ pc[w] \in Apart /\ now' = now
      /\ \E step \in Apart : Goto(w, step)
      /\ UNCHANGED alert \/ alert' = [alert EXCEPT ![w] = NoAlert]
  BY DEF CaseHook, CaseFind, CaseAppend, CaseRoute, CaseCreate, Apart, Return
<1>2. \A v \in Workers \ {w} : alert'[v] = alert[v]
  BY <1>1 DEF TicketInv, TicketType, WorkerType
<1> QED BY <1>1, <1>2, ApartRests DEF risk

\* The hook's steps before it reads the row, and those that only carry it.
LEMMA RiskBefore ==
    ASSUME RiskInv, TicketInv, NEW w \in Workers, RbaEvent(w) \/ RbaScore(w)
    PROVE  RiskInv'
<1>1. /\ pc[w] \in Apart
      /\ \E step \in Apart : Goto(w, step)
      /\ UNCHANGED <<alert, now, entity, notables, nextNotable, ent, thr, raced>>
  BY DEF RbaEvent, RbaScore, Apart
<1> QED BY <1>1, ApartRests

LEMMA RiskCarries ==
    ASSUME RiskInv, TicketInv, NEW w \in Workers, RbaRoute(w) \/ RbaCreate(w)
    PROVE  RiskInv'
<1>1. /\ pc[w] \in {"rroute", "rcreate"}
      /\ \E step \in {"rcreate", "upsert"} : Goto(w, step)
      /\ UNCHANGED <<alert, now, entity, notables, nextNotable, ent, thr, raced>>
  BY DEF RbaRoute, RbaCreate, risk
<1>2. now \in Nat /\ ent' \in [Workers -> EntityRow] /\ pc \in [Workers -> Steps]
  BY <1>1 DEF TicketInv, TicketType, TableType, WorkerType, RiskInv, RiskType
<1>3. ASSUME NEW v \in Workers, NEW a \in Agents PROVE CopyKept(v, a)
  <2>1. CASE v = w
    <3>1. pc'[w] \in {"rcreate", "upsert"}
      BY <1>1, <1>2 DEF Goto
    <3> QED BY <1>1, <2>1, <3>1 DEF CopyKept, Writing, Holding
  <2>2. CASE v # w
    <3>1. pc'[v] = pc[v]
      BY <1>1, <1>2, <2>2 DEF Goto
    <3> QED BY <1>1, <3>1 DEF CopyKept, Writing, Holding
  <2> QED BY <2>1, <2>2
<1> QED BY <1>1, <1>2, <1>3, RiskRests

\* A worker that moves is no concern of other agents' rows.
LEMMA OthersKept ==
    ASSUME TicketInv, NEW w \in Workers, UNCHANGED alert,
           \A v \in Workers \ {w} : pc'[v] = pc[v] /\ ent'[v] = ent[v]
    PROVE  \A v \in Workers, b \in Agents :
               v # w \/ b # alert[w].agent => CopyKept(v, b)
  BY DEF CopyKept, Writing, Holding

LEMMA RiskLoad ==
    ASSUME RiskInv, TicketInv, NEW w \in Workers, RbaLoad(w) PROVE RiskInv'
<1>0. PICK a \in Agents : a = alert[w].agent
  BY DEF RbaLoad, TicketInv, TicketType, WorkerType, Carried
<1>1. /\ pc[w] = "load" /\ UNCHANGED <<alert, now, entity, notables, nextNotable, thr>>
      /\ Goto(w, IF score[w] >= ent'[w].threshold /\ now - ent'[w].last >= Cooldown
                   THEN "notable" ELSE "upsert")
      /\ \/ /\ ent' = [ent EXCEPT ![w] = entity[a]]
            /\ raced' = IF Held(a) THEN raced \cup {a} ELSE raced
         \/ /\ ent' = [ent EXCEPT ![w] = DefaultEntity]
            /\ raced' = raced \cup {a}
  BY <1>0 DEF RbaLoad
<1>2. /\ pc \in [Workers -> Steps] /\ now \in Nat /\ RiskType
  BY DEF TicketInv, TicketType, TableType, WorkerType, RiskInv
<1>3. RiskType'
  <2>1. ent' \in [Workers -> EntityRow]
    BY <1>1, <1>2, DefaultRow DEF RiskType
  <2> QED BY <1>1, <1>2, <2>1 DEF RiskType, ThrType, NotesType
<1>4. /\ \A v \in Workers \ {w} : pc'[v] = pc[v] /\ ent'[v] = ent[v]
      /\ pc'[w] \in {"notable", "upsert"}
      /\ pc'[w] = "notable" => now - ent'[w].last >= Cooldown
  BY <1>1, <1>2 DEF RiskType, Goto
<1>5. ASSUME NEW b \in Agents \ raced' PROVE RowGood(b)'
  <2>1. RowGood(b) /\ Noted(b)' = Noted(b) /\ (Pending(b)' <=> Pending(b))
    BY <1>1, <1>5 DEF RiskInv, Noted, Pending
  <2>2. CASE b # a
    <3>1. \A v \in Workers : CopyKept(v, b)
      BY <1>1, <1>4, <2>2, OthersKept, <1>0
    <3> QED BY <1>1, <2>1, <3>1, RowRests
  <2>3. CASE b = a
    <3>1. ~ Pending(a) /\ (\A v \in Workers : ~ Writing(v, a)) /\ ent'[w] = entity[a]
      <4>1. ~ Held(a) /\ ent' = [ent EXCEPT ![w] = entity[a]]
        BY <1>1, <1>5, <2>3
      <4> QED BY <1>2, <4>1 DEF Held, Pending, Writing, RiskType
    <3>2. \A v \in Workers : Writing(v, a)' => v = w
      BY <1>1, <1>4, <3>1 DEF Writing, Holding
    <3>3. Counts(entity[a], a)
      BY <2>1, <2>3, <3>1 DEF RowGood, Copies
    <3>4. Counts(entity[a], a)' /\ Counts(ent[w], a)'
      BY <1>1, <2>1, <2>3, <3>1, <3>3 DEF Counts
    <3>5. Copies(a)'
      BY <1>1, <1>4, <2>1, <2>3, <3>1, <3>2, <3>4 DEF Copies
    <3>6. Spaced(a)' /\ Alone(a)'
      BY <2>1, <2>3, <3>1, <3>2 DEF RowGood, Spaced, Alone
    <3> QED BY <2>3, <3>5, <3>6 DEF RowGood
  <2> QED BY <2>2, <2>3
<1> QED BY <1>3, <1>5 DEF RiskInv

\* The one that fires: it holds the only copy, which counts every notable so far
\* and says that the last of them is a cooldown old.
LEMMA NoteSpaced ==
    ASSUME RiskType, NEW w \in Workers, NEW a \in Agents, RowGood(a), now \in Nat,
           pc[w] = "notable", Writing(w, a), nextNotable' = nextNotable + 1,
           now' = now,
           notables' = notables \cup {[id |-> nextNotable, at |-> now, agent |-> a]},
           ent'[w] = Fired(ent[w])
    PROVE  Spaced(a)' /\ Counts(ent[w], a)'
<1> DEFINE note == [id |-> nextNotable, at |-> now, agent |-> a]
<1>1. Noted(a)' = Noted(a) \cup {note} /\ note \notin notables
  BY DEF Noted, RiskType, NotesType
<1>2. /\ ent[w] \in EntityRow /\ Counts(ent[w], a) /\ now - ent[w].last >= Cooldown
      /\ Cooldown \in Nat
  BY RiskAssumption DEF RowGood, Copies, RiskType
<1>3. \A n \in Noted(a) : n.at \in Int /\ n.at <= ent[w].last /\ n.at <= now
  BY <1>2 DEF Counts, Noted, RiskType, NotesType
<1>4. \A n \in Noted(a) : now - n.at >= Cooldown
  BY <1>2, <1>3 DEF EntityRow
<1>5. Cardinality(Noted(a)') = Cardinality(Noted(a)) + 1
  <2>1. IsFiniteSet(Noted(a)) /\ note \notin Noted(a)
    <3>1. IsFiniteSet(notables) /\ Noted(a) \subseteq notables
      BY DEF RiskType, NotesType, Noted
    <3> QED BY <1>1, <3>1, FS_Subset
  <2> HIDE DEF note
  <2> QED BY <1>1, <2>1, FS_AddElement
<1>6. ent'[w].fired = ent[w].fired + 1 /\ ent'[w].last = now
  BY <1>2 DEF Fired, EntityRow
<1>7. Counts(ent[w], a)'
  <2>1. note.at = now
    OBVIOUS
  <2> HIDE DEF note
  <2>2. \A n \in Noted(a)' : n.at <= ent'[w].last
    BY <1>1, <1>3, <1>6, <2>1
  <2> QED BY <1>2, <1>5, <1>6, <2>2 DEF Counts
<1>8. Spaced(a)'
  <2>1. note.at = now
    OBVIOUS
  <2> HIDE DEF note
  <2> QED BY <1>1, <1>4, <2>1 DEF Spaced, RowGood
<1> QED BY <1>7, <1>8

LEMMA FiredRow ==
    ASSUME NEW row \in EntityRow, now \in Nat PROVE Fired(row) \in EntityRow
<1> DEFINE n == row.fired + 1
           counted == [row EXCEPT !.fired = n]
<1>1. n \in Nat
  BY DEF EntityRow
<1> HIDE DEF n
<1>2. counted \in EntityRow
  BY <1>1 DEF EntityRow
<1>3. Fired(row) = [counted EXCEPT !.last = now]
  BY DEF Fired, n
<1> HIDE DEF counted
<1>4. [counted EXCEPT !.last = now] \in EntityRow
  BY <1>2 DEF EntityRow
<1> QED BY <1>3, <1>4

LEMMA RiskNotable ==
    ASSUME RiskInv, TicketInv, NEW w \in Workers, RbaNotable(w) PROVE RiskInv'
<1>0. PICK a \in Agents : a = alert[w].agent
  BY DEF RbaNotable, TicketInv, TicketType, WorkerType, Carried
<1> DEFINE note == [id |-> nextNotable, at |-> now, agent |-> a]
<1>1. /\ pc[w] = "notable" /\ UNCHANGED <<alert, now, entity, thr>>
      /\ ent' = [ent EXCEPT ![w] = Fired(ent[w])]
      /\ \/ /\ notables' = notables \cup {note} /\ nextNotable' = nextNotable + 1
            /\ Goto(w, "rroute") /\ raced' = raced
         \/ /\ UNCHANGED <<notables, nextNotable>>
            /\ Goto(w, "upsert") /\ raced' = raced \cup {a}
  BY <1>0 DEF RbaNotable
<1>2. /\ pc \in [Workers -> Steps] /\ now \in Nat /\ RiskType
  BY DEF TicketInv, TicketType, TableType, WorkerType, RiskInv
<1>3. RiskType'
  <2>1. Fired(ent[w]) \in EntityRow
    BY <1>2, FiredRow DEF RiskType
  <2>2. ent' \in [Workers -> EntityRow] /\ ThrType'
    BY <1>1, <1>2, <2>1 DEF RiskType, ThrType
  <2>3. note.id = nextNotable /\ note.at = now
    OBVIOUS
  <2>4. IsFiniteSet(notables \cup {note})
    BY <1>2, FS_AddElement DEF RiskType, NotesType
  <2> HIDE DEF note
  <2>5. NotesType'
    <3>1. /\ IsFiniteSet(notables) /\ nextNotable \in Nat /\ now' = now /\ now \in Nat
          /\ \A m \in notables : /\ m.id \in Nat /\ m.id < nextNotable
                                 /\ m.at \in Int /\ m.at <= now
      BY <1>1, <1>2 DEF RiskType, NotesType
    <3>2. CASE notables' = notables \cup {note} /\ nextNotable' = nextNotable + 1
      <4>1. IsFiniteSet(notables') /\ nextNotable' \in Nat
        BY <2>4, <3>1, <3>2
      <4>2. ASSUME NEW m \in notables'
            PROVE  /\ m.id \in Nat /\ m.id < nextNotable'
                   /\ m.at \in Int /\ m.at <= now
        <5>1. CASE m \in notables
          <6>1. m.id \in Nat /\ m.id < nextNotable /\ m.at \in Int /\ m.at <= now
            BY <3>1, <5>1
          <6> QED BY <3>1, <3>2, <6>1
        <5>2. CASE m = note
          <6>1. m.id = nextNotable /\ m.at = now
            BY <2>3, <5>2
          <6> QED BY <3>1, <3>2, <6>1
        <5> QED BY <3>2, <5>1, <5>2
      <4> QED BY <3>1, <4>1, <4>2 DEF NotesType
    <3>3. CASE UNCHANGED <<notables, nextNotable>>
      BY <3>1, <3>3 DEF NotesType
    <3> QED BY <1>1, <3>2, <3>3
  <2> QED BY <1>1, <1>2, <2>2, <2>5 DEF RiskType
<1>4. /\ \A v \in Workers \ {w} : pc'[v] = pc[v] /\ ent'[v] = ent[v]
      /\ pc'[w] \in {"rroute", "upsert"} /\ ent'[w] = Fired(ent[w])
  BY <1>1, <1>2 DEF RiskType, Goto
<1>5. ASSUME NEW b \in Agents \ raced', b # a PROVE RowGood(b)'
  <2>1. RowGood(b) /\ Noted(b)' = Noted(b) /\ (Pending(b)' => Pending(b))
    BY <1>1, <1>5 DEF RiskInv, Noted, Pending
  <2>2. \A v \in Workers : CopyKept(v, b)
    BY <1>0, <1>1, <1>4, <1>5, OthersKept
  <2> QED BY <1>1, <2>1, <2>2, RowRests
<1>6. ASSUME a \notin raced' PROVE RowGood(a)'
  <2>1. RowGood(a) /\ Writing(w, a)
    BY <1>0, <1>1, <1>6 DEF RiskInv, Writing, Holding
  <2>2. /\ notables' = notables \cup {note} /\ nextNotable' = nextNotable + 1
        /\ raced' = raced
    BY <1>1, <1>6
  <2>3. Spaced(a)' /\ Counts(ent[w], a)'
    BY <1>1, <1>2, <1>4, <2>1, <2>2, NoteSpaced
  <2>4. ~ Pending(a)' /\ \A v \in Workers : Writing(v, a)' <=> v = w
    BY <1>0, <1>1, <1>4, <2>1 DEF RowGood, Alone, Writing, Holding, Pending
  <2>5. Alone(a)'
    BY <2>4 DEF Alone
  <2>6. Copies(a)'
    BY <1>4, <2>3, <2>4 DEF Copies
  <2> QED BY <2>3, <2>5, <2>6 DEF RowGood
<1>7. ASSUME NEW b \in Agents \ raced' PROVE RowGood(b)'
  BY <1>5, <1>6
<1> QED BY <1>3, <1>7 DEF RiskInv

LEMMA RiskUpsert ==
    ASSUME RiskInv, TicketInv, NEW w \in Workers, RbaUpsert(w) PROVE RiskInv'
<1>0. PICK a \in Agents : a = alert[w].agent
  BY DEF RbaUpsert, TicketInv, TicketType, WorkerType, Carried
<1>1. /\ pc[w] = "upsert" /\ Goto(w, "cases")
      /\ UNCHANGED <<alert, now, notables, nextNotable, thr>>
      /\ ent' = [ent EXCEPT ![w] = DefaultEntity]
      /\ \/ entity' = [entity EXCEPT ![a] = ent[w]] /\ raced' = raced
         \/ UNCHANGED entity /\ raced' = raced \cup {a}
  BY <1>0 DEF RbaUpsert
<1>2. /\ pc \in [Workers -> Steps] /\ RiskType
  BY DEF TicketInv, TicketType, WorkerType, RiskInv
<1>3. RiskType'
  <2>1. ent' \in [Workers -> EntityRow] /\ ent[w] \in EntityRow
    BY <1>1, <1>2, DefaultRow DEF RiskType
  <2>2. entity' \in [Agents -> EntityRow]
    BY <1>1, <1>2, <2>1 DEF RiskType
  <2> QED BY <1>1, <1>2, <2>1, <2>2 DEF RiskType, ThrType, NotesType
<1>4. /\ \A v \in Workers \ {w} : pc'[v] = pc[v] /\ ent'[v] = ent[v]
      /\ pc'[w] = "cases"
  BY <1>1, <1>2 DEF RiskType, Goto
<1>5. ASSUME NEW b \in Agents \ raced', b # a PROVE RowGood(b)'
  <2>1. RowGood(b) /\ Noted(b)' = Noted(b) /\ (Pending(b)' => Pending(b))
    BY <1>1, <1>5 DEF RiskInv, Noted, Pending
  <2>2. \A v \in Workers : CopyKept(v, b)
    BY <1>0, <1>1, <1>4, <1>5, OthersKept
  <2>3. entity'[b] = entity[b]
    BY <1>1, <1>2, <1>5 DEF RiskType
  <2> QED BY <1>1, <2>1, <2>2, <2>3, RowRests
<1>6. ASSUME a \notin raced' PROVE RowGood(a)'
  <2>1. RowGood(a) /\ Writing(w, a)
    BY <1>0, <1>1, <1>6 DEF RiskInv, Writing, Holding
  <2>2. entity'[a] = ent[w]
    BY <1>1, <1>2, <1>6 DEF RiskType
  <2>3. ~ Pending(a)' /\ \A v \in Workers : ~ Writing(v, a)'
    BY <1>0, <1>1, <1>4, <2>1 DEF RowGood, Alone, Writing, Holding, Pending
  <2>4. Noted(a)' = Noted(a) /\ Counts(ent[w], a)
    BY <1>1, <2>1 DEF Noted, RowGood, Copies
  <2>5. Counts(entity[a], a)'
    BY <2>2, <2>4 DEF Counts
  <2>6. Spaced(a)' /\ Alone(a)' /\ Copies(a)'
    BY <2>1, <2>3, <2>4, <2>5 DEF RowGood, Spaced, Alone, Copies
  <2> QED BY <2>6 DEF RowGood
<1>7. ASSUME NEW b \in Agents \ raced' PROVE RowGood(b)'
  BY <1>5, <1>6
<1> QED BY <1>3, <1>7 DEF RiskInv

\* The requests: the workers stand still.
LEMMA StandKept ==
    ASSUME UNCHANGED <<workers, ent>>
    PROVE  \A w \in Workers, a \in Agents : CopyKept(w, a)
  BY DEF CopyKept, Writing, Holding, workers

LEMMA RiskThresholdRead ==
    ASSUME RiskInv, ThresholdRead PROVE RiskInv'
<1>1. PICK a \in Agents, t \in Thresholds :
         \/ /\ thr' = [step |-> "write", agent |-> a,
                       row |-> [entity[a] EXCEPT !.threshold = t]]
            /\ raced' = IF Held(a) THEN raced \cup {a} ELSE raced
         \/ /\ thr' = [step |-> "write", agent |-> a,
                       row |-> [DefaultEntity EXCEPT !.threshold = t]]
            /\ raced' = raced \cup {a}
  BY DEF ThresholdRead
<1>2. thr = Idle /\ UNCHANGED <<workers, now, entity, notables, nextNotable, ent>>
  BY DEF ThresholdRead
<1>3. /\ thr'.step = "write" /\ thr'.agent = a
      /\ thr'.row \in {[entity[a] EXCEPT !.threshold = t],
                       [DefaultEntity EXCEPT !.threshold = t]}
      /\ Idle.step = "idle"
  BY <1>1 DEF Idle
<1>4. /\ [entity[a] EXCEPT !.threshold = t] \in EntityRow
      /\ [DefaultEntity EXCEPT !.threshold = t] \in EntityRow
      /\ [entity[a] EXCEPT !.threshold = t].fired = entity[a].fired
      /\ [entity[a] EXCEPT !.threshold = t].last = entity[a].last
  <2>1. entity[a] \in EntityRow /\ DefaultEntity \in EntityRow /\ t \in Nat
    BY RiskAssumption, DefaultRow DEF RiskInv, RiskType
  <2> QED BY <2>1 DEF EntityRow
<1>5. RiskType'
  <2>1. ThrType'
    BY <1>3, <1>4 DEF ThrType
  <2> QED BY <1>2, <2>1 DEF RiskInv, RiskType, NotesType
<1>6. ASSUME NEW b \in Agents \ raced', b # a PROVE RowGood(b)'
  <2>1. RowGood(b) /\ Noted(b)' = Noted(b) /\ ~ Pending(b)'
    BY <1>1, <1>2, <1>3, <1>6 DEF RiskInv, Noted, Pending
  <2> QED BY <1>2, <2>1, StandKept, RowRests
<1>7. ASSUME a \notin raced' PROVE RowGood(a)'
  <2>1. RowGood(a) /\ ~ Held(a) /\ thr'.row = [entity[a] EXCEPT !.threshold = t]
    BY <1>1, <1>7 DEF RiskInv
  <2>2. \A w \in Workers : ~ Writing(w, a)
    BY <2>1 DEF Held, Writing
  <2>3. \A w \in Workers : ~ Writing(w, a)'
    BY <1>2, <2>2 DEF Writing, Holding, workers
  <2>4. Noted(a)' = Noted(a) /\ Counts(entity[a], a)
    BY <1>2, <2>1, <2>2 DEF Noted, RowGood, Copies
  <2>5. Counts(entity[a], a)' /\ Counts(thr.row, a)'
    BY <1>2, <1>4, <2>1, <2>4 DEF Counts
  <2>6. Spaced(a)' /\ Alone(a)' /\ Copies(a)'
    BY <2>1, <2>3, <2>4, <2>5 DEF RowGood, Spaced, Alone, Copies
  <2> QED BY <2>6 DEF RowGood
<1>8. ASSUME NEW b \in Agents \ raced' PROVE RowGood(b)'
  BY <1>6, <1>7
<1> QED BY <1>5, <1>8 DEF RiskInv

LEMMA RiskThresholdWrite ==
    ASSUME RiskInv, ThresholdWrite PROVE RiskInv'
<1>0. PICK a \in Agents : a = thr.agent
  BY DEF ThresholdWrite, RiskInv, RiskType, ThrType
<1>1. /\ thr # Idle /\ thr' = Idle
      /\ entity' = [entity EXCEPT ![a] = thr.row] \/ UNCHANGED entity
      /\ UNCHANGED <<workers, now, notables, nextNotable, ent, raced>>
  BY <1>0 DEF ThresholdWrite
<1>2. RiskType'
  BY <1>1 DEF RiskInv, RiskType, ThrType, NotesType
<1>3. ASSUME NEW b \in Agents \ raced PROVE RowGood(b)'
  <2>1. RowGood(b) /\ Noted(b)' = Noted(b) /\ ~ Pending(b)'
    BY <1>1, <1>3 DEF RiskInv, Noted, Pending
  <2>2. CASE entity'[b] = entity[b]
    BY <1>1, <2>1, <2>2, StandKept, RowRests
  <2>3. CASE b = a /\ entity'[b] = thr.row
    <3>1. Pending(b)
      BY <1>0, <1>1, <2>3 DEF Pending
    <3>2. Counts(thr.row, b) /\ \A w \in Workers : ~ Writing(w, b)
      BY <2>1, <3>1 DEF RowGood, Alone, Copies
    <3>3. \A w \in Workers : ~ Writing(w, b)'
      BY <1>1, <3>2 DEF Writing, Holding, workers
    <3>4. Counts(entity[b], b)'
      BY <2>1, <2>3, <3>2 DEF Counts
    <3>5. Spaced(b)' /\ Alone(b)' /\ Copies(b)'
      BY <2>1, <3>3, <3>4 DEF RowGood, Spaced, Alone, Copies
    <3> QED BY <3>5 DEF RowGood
  <2>4. entity'[b] = entity[b] \/ (b = a /\ entity'[b] = thr.row)
    BY <1>1 DEF RiskInv, RiskType
  <2> QED BY <2>2, <2>3, <2>4
<1> QED BY <1>1, <1>2, <1>3 DEF RiskInv

LEMMA RiskPurge ==
    ASSUME RiskInv, Purge PROVE RiskInv'
<1>1. PICK a \in Agents :
         /\ notables' = {n \in notables : n.agent # a}
         /\ entity' = [entity EXCEPT ![a] = DefaultEntity]
         /\ raced' = IF Held(a) THEN raced \cup {a} ELSE raced
  BY DEF Purge
<1>2. UNCHANGED <<workers, now, nextNotable, ent, thr>>
  BY DEF Purge
<1>3. RiskType'
  <2>1. IsFiniteSet(notables')
    <3>1. notables' \subseteq notables /\ IsFiniteSet(notables)
      BY <1>1 DEF RiskInv, RiskType, NotesType
    <3> QED BY <3>1, FS_Subset
  <2>2. entity' \in [Agents -> EntityRow]
    BY <1>1, DefaultRow DEF RiskInv, RiskType
  <2> QED BY <1>1, <1>2, <2>1, <2>2 DEF RiskInv, RiskType, ThrType, NotesType
<1>4. ASSUME NEW b \in Agents \ raced', b # a PROVE RowGood(b)'
  <2>1. RowGood(b) /\ (Pending(b)' <=> Pending(b)) /\ entity'[b] = entity[b]
    BY <1>1, <1>2, <1>4 DEF RiskInv, RiskType, Pending
  <2>2. Noted(b)' = Noted(b)
    BY <1>1, <1>4 DEF Noted
  <2> QED BY <1>2, <2>1, <2>2, StandKept, RowRests
<1>5. ASSUME a \notin raced' PROVE RowGood(a)'
  <2>1. ~ Held(a)
    BY <1>1, <1>5
  <2>2. ~ Pending(a)' /\ \A w \in Workers : ~ Writing(w, a)'
    BY <1>2, <2>1 DEF Held, Pending, Writing, Holding, workers
  <2>3. Noted(a)' = {} /\ entity'[a].fired = 0
    BY <1>1, DefaultRow DEF Noted, RiskInv, RiskType
  <2>4. Counts(entity[a], a)'
    BY <2>3, FS_EmptySet DEF Counts
  <2>5. Spaced(a)' /\ Alone(a)' /\ Copies(a)'
    BY <2>2, <2>3, <2>4 DEF Spaced, Alone, Copies
  <2> QED BY <2>5 DEF RowGood
<1>6. ASSUME NEW b \in Agents \ raced' PROVE RowGood(b)'
  BY <1>4, <1>5
<1> QED BY <1>3, <1>6 DEF RiskInv

\* A stop races with every process that holds a copy.
LEMMA RiskRestart ==
    ASSUME RiskInv, Restart PROVE RiskInv'
<1>1. /\ raced' = raced \cup {a \in Agents : Held(a)}
      /\ pc' = [w \in Workers |-> "idle"] /\ ent' = [w \in Workers |-> DefaultEntity]
      /\ thr' = Idle /\ UNCHANGED <<now, entity, notables, nextNotable>>
  BY DEF Restart
<1>2. RiskType'
  BY <1>1, DefaultRow DEF RiskInv, RiskType, ThrType, NotesType
<1>3. ASSUME NEW b \in Agents \ raced' PROVE RowGood(b)'
  <2>1. RowGood(b) /\ Noted(b)' = Noted(b) /\ ~ Pending(b)' /\ ~ Held(b)
    BY <1>1, <1>3 DEF RiskInv, Noted, Pending
  <2>2. \A w \in Workers : ~ Writing(w, b) /\ ~ Writing(w, b)'
    BY <1>1, <2>1 DEF Held, Writing, Holding
  <2>3. \A w \in Workers : CopyKept(w, b)
    BY <2>2 DEF CopyKept
  <2> QED BY <1>1, <2>1, <2>3, RowRests
<1> QED BY <1>2, <1>3 DEF RiskInv

LEMMA RiskStart == Init => RiskInv
<1> SUFFICES ASSUME Init PROVE RiskInv
  OBVIOUS
<1> USE DEF Init, CasesInit, CaseTableInit, RiskInit
<1>1. RiskType
  BY DefaultRow, FS_EmptySet DEF RiskType, ThrType, NotesType
<1>2. ASSUME NEW a \in Agents PROVE RowGood(a)
  <2>1. /\ Noted(a) = {} /\ ~ Pending(a) /\ entity[a].fired = 0
        /\ \A w \in Workers : ~ Writing(w, a)
    BY DefaultRow DEF Noted, Pending, Writing, Holding
  <2>2. Counts(entity[a], a)
    BY <2>1, FS_EmptySet DEF Counts
  <2>3. Spaced(a) /\ Alone(a) /\ Copies(a)
    BY <2>1, <2>2 DEF Spaced, Alone, Copies
  <2> QED BY <2>3 DEF RowGood
<1> QED BY <1>1, <1>2 DEF RiskInv

LEMMA RiskStep == RiskInv /\ TicketInv /\ [Next]_vars => RiskInv'
<1> SUFFICES ASSUME RiskInv, TicketInv, [Next]_vars PROVE RiskInv'
  OBVIOUS
<1>1. ASSUME NEW w \in Workers, Emit(w) \/ Worker(w) PROVE RiskInv'
  BY <1>1, RiskEmit, RiskCaseHook, RiskBefore, RiskLoad, RiskNotable, RiskCarries,
     RiskUpsert DEF Worker, RiskHook
<1>2. CASE Sweep /\ UNCHANGED <<risk, nextAlert, restarts>>
  <2>1. UNCHANGED <<workers, now>>
    BY <1>2, SweepLeaves DEF SweepFrame, workers
  <2> QED BY <1>2, <2>1, WorkersStand
<1>3. CASE Api /\ UNCHANGED <<risk, nextAlert, restarts>>
  <2>1. UNCHANGED <<workers, now>>
    BY <1>3 DEF Api, EditRead, EditWrite, EditDue, OpenRoute, OpenInsert, Delete
  <2> QED BY <1>3, <2>1, WorkersStand
<1>4. CASE RiskApi
  BY <1>4, RiskThresholdRead, RiskThresholdWrite, RiskPurge DEF RiskApi
<1>5. CASE Tick
  BY <1>5, WorkersStand DEF Tick, AtRest
<1>6. CASE Restart
  BY <1>6, RiskRestart
<1>7. CASE UNCHANGED vars
  BY <1>7, WorkersStand DEF vars
<1> QED BY <1>1, <1>2, <1>3, <1>4, <1>5, <1>6, <1>7 DEF Next

\* Two notables of an agent are a cooldown apart and its row counts them (rba's
\* OnAlert and fireNotable), for any number of workers, alerts and requests, unless
\* a second process read the row while one held a copy of it, or a statement on it
\* failed, or the process stopped in between: the check of the cooldown and the
\* write of the row are statements apart, and nothing else keeps them together.
THEOREM NotablesApart == Spec => []NotablesSpaced
<1>1. RiskInv => NotablesSpaced
  <2> SUFFICES ASSUME RiskInv, NEW a \in Agents \ raced
               PROVE  /\ Spaced(a)
                      /\ ~ Held(a) => Counts(entity[a], a)
    BY DEF NotablesSpaced, Spaced, Counts, Noted
  <2> QED BY DEF RiskInv, RowGood, Copies, Held, Writing
<1> QED BY <1>1, RiskStart, RiskStep, TicketAlways, PTL DEF Spec
=============================================================================
