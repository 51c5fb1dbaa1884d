--------------------------- MODULE ResponseProofs ---------------------------
(***************************************************************************)
(* Responses, on both sides of the wire.                                   *)
(*                                                                         *)
(* The manager: its tables tell what playbooks and responses did, and its  *)
(* rules find what playbooks reported as added to a list. PlayInv follows  *)
(* a run from place to place: its results, its effects and its row agree   *)
(* at each, and it holds the object of a list that it took from the map.   *)
(*                                                                         *)
(* The agent: what it does on its host stays safe wherever it is           *)
(* interrupted, for any number of commands, files, bundles, releases and   *)
(* faults. Lifeline rests on the lock: between the rule that lets the      *)
(* manager through and the policy that shuts out the rest, and between the *)
(* policy that lets all through and the end of that rule, no other         *)
(* goroutine changes either. EvidenceKept needs what a move or an upload   *)
(* half way has achieved.                                                  *)
(***************************************************************************)
EXTENDS Response, Enforcement, FiniteSetTheorems, TLAPS

(***************************************************************************)
(* The manager's runs and lists                                            *)
(***************************************************************************)

\* What a goroutine of a run and the row of its execution may hold.
Outcomes  == {"success", "failed"}
RunPlaces == {"none", "create", "count", "act", "add", "append", "finish", "over"}
RunRec    == [pc : RunPlaces, book : Nat, actions : Seq(Action), dry : BOOLEAN,
             results : Seq(Outcomes), failed : BOOLEAN, ver : Nat]
Finals    == {"success", "failed", "partial", "dry_run"}
ExecRow   == [status : {"none", "running"} \cup Finals, results : Seq(Outcomes)]
Report    == [list : Lists, key : Keys, ver : Nat, written : BOOLEAN]

WatchType ==
    /\ sources \in Configs
    /\ lists \in [Lists -> [ver : Nat, keys : SUBSET Keys]]
    /\ appended \in [Lists -> SUBSET Keys]
    /\ feed # NoAnswer => /\ feed.at \in DOMAIN sources /\ feed.page \in Pages
                          /\ feed.part \in 1..4
    /\ replaced \subseteq Lists

BooksType ==
    /\ books \in [BookIds -> Playbook] /\ runCount \in [BookIds -> Nat]
    /\ nextBook \in 1..(MaxBooks + 1)
    /\ edit # NoEdit => edit.book \in Playbook

RunsType ==
    /\ runs \in [RunIds -> RunRec] /\ execs \in [RunIds -> ExecRow]
    /\ effects \in [RunIds -> SUBSET Nat]
    /\ nextRun \in 1..(MaxRuns + 1)

\* Runs that have not started, and those that have.
FreshInv ==
    \A r \in RunIds :
        /\ r >= nextRun =>
              runs[r] = NoRun /\ execs[r] = NoRow /\ effects[r] = {}
        /\ r < nextRun =>
              /\ runs[r].pc # "none"
              /\ runs[r].book \in BookIds /\ runs[r].book < nextBook

\* The results follow the place the run has come to.
StepInv(r) ==
    LET w == runs[r]
        n == Len(w.results)
    IN  /\ n <= Len(w.actions)
        /\ w.pc \in {"none", "create", "count"} => n = 0
        /\ w.pc \in {"act", "add", "append"} =>
              ~w.failed /\ (n < Len(w.actions) \/ w.actions = << >>)
        /\ w.pc \in {"add", "append"} =>
              ~w.dry /\ w.actions # << >> /\ Current(r).type = "add_to_watchlist"
        /\ w.pc = "finish" => w.failed \/ n = Len(w.actions)
        /\ w.failed <=> n > 0 /\ w.results[n] = "failed" /\ ~w.actions[n].cont

\* What was done is what the results say.
EffectInv(r) ==
    LET w == runs[r]
        n == Len(w.results)
    IN  /\ effects[r] \subseteq 1..n
        /\ w.dry => effects[r] = {}
        /\ ~w.dry => \A i \in 1..n : w.results[i] = "success" =>
                        i \in effects[r] \/ w.actions[i].type = "notify_email"
        /\ \A i \in effects[r] :
              w.results[i] = "success" \/ w.actions[i].type \in Requests

\* Whoever acts has a row, or had one; a row with a final status was written at
\* the end of the run.
RowInv(r) ==
    LET w == runs[r]
        Had == execs[r] # NoRow \/ r \in cascaded
    IN  /\ w.pc \in {"count", "act", "add", "append", "finish"} => Had
        /\ effects[r] # {} => Had
        /\ execs[r].status \in Finals =>
              /\ w.pc = "over" /\ execs[r].results = w.results
              /\ execs[r].status = Status(r)
              /\ w.failed \/ Len(w.results) = Len(w.actions)

RunInv == \A r \in RunIds : StepInv(r) /\ EffectInv(r) /\ RowInv(r)

\* Only runs that have come to their actions have counted themselves.
CountInv ==
    /\ counted \subseteq RunIds
    /\ \A r \in counted : runs[r].pc \in {"act", "add", "append", "finish", "over"}
    /\ \A b \in BookIds : b >= nextBook => runCount[b] = 0
    /\ RunsCounted

\* The row of a response that is being sent is pending.
SendInv ==
    /\ responses \in [TriggerIds -> {"none", "refused", "pending", "sent"}]
    /\ trigger = NoTrigger
       \/ /\ trigger \in [id : TriggerIds, pc : {"send", "mark"}]
          /\ responses[trigger.id] = "pending"
          /\ trigger.pc = "mark" => trigger.id \in queued
    /\ \A t \in TriggerIds :
          /\ responses[t] = "sent" => t \in queued
          /\ t \in queued => responses[t] \in {"pending", "sent"}

\* A run that took an object of a list holds the present one or one of those
\* that a feed or a request replaced, and its key is in it after it was added.
Taken(r) ==
    LET l == Current(r).list
    IN  runs[r].pc \in {"add", "append"} =>
          /\ runs[r].ver <= lists[l].ver
          /\ runs[r].ver < lists[l].ver => l \in replaced
          /\ runs[r].pc = "append" /\ runs[r].ver = lists[l].ver =>
                Current(r).key \in lists[l].keys
TakenInv == \A r \in RunIds : Taken(r)

\* What was reported is in the object it was added to, and what was written is
\* in the file, and in the list when it was read from that file.
Stands(rep) ==
    /\ rep.ver <= lists[rep.list].ver
    /\ rep.ver = lists[rep.list].ver => rep.key \in lists[rep.list].keys
    /\ rep.written => rep.key \in appended[rep.list]
    /\ rep.written /\ rep.list \notin replaced /\ Shipped[rep.list] = {}
          /\ rep.key \notin WithColon => rep.key \in lists[rep.list].keys
ReportInv == reports \subseteq Report /\ \A rep \in reports : Stands(rep)

PlayInv == /\ WatchType /\ BooksType /\ RunsType /\ FreshInv /\ RunInv /\ CountInv
           /\ SendInv /\ TakenInv /\ ReportInv

\* A run and what is kept of it.
Kept(r) == runs'[r] = runs[r] /\ execs'[r] = execs[r] /\ effects'[r] = effects[r]

\* The playbook that a run carries out is the one it was started with.
Carries(r) ==
    /\ runs'[r].book = runs[r].book /\ runs'[r].dry = runs[r].dry
    /\ runs'[r].actions = runs[r].actions

LEMMA NoRunTyped ==
    NoRun \in RunRec /\ NoRow \in ExecRow /\ NoBook \in Playbook
<1>1. << >> \in Seq(Action) /\ << >> \in Seq(Outcomes)
  OBVIOUS
<1>2. NoRun \in RunRec
  BY <1>1 DEF NoRun, RunRec, RunPlaces
<1>3. NoRow \in ExecRow
  BY <1>1 DEF NoRow, ExecRow
<1>4. Trigger({}, {}, {}, 0) \in Triggers
  BY DEF Trigger, Triggers
<1>5. NoBook \in Playbook
  BY <1>1, <1>4 DEF NoBook, Playbook
<1> QED BY <1>2, <1>3, <1>5

-----------------------------------------------------------------------------
(* One step of one run                                                     *)

LEMMA GoShape ==
    ASSUME NEW r \in RunIds, runs \in [RunIds -> RunRec], NEW pc \in RunPlaces,
           Go(r, pc)
    PROVE  /\ runs' \in [RunIds -> RunRec]
           /\ Carries(r) /\ runs'[r].pc = pc /\ runs'[r].ver = runs[r].ver
           /\ runs'[r].results = runs[r].results
           /\ runs'[r].failed = runs[r].failed
           /\ \A q \in RunIds \ {r} : runs'[q] = runs[q]
<1> DEFINE new == [runs[r] EXCEPT !.pc = pc]
<1>1. runs[r] \in RunRec
  OBVIOUS
<1>2. new \in RunRec
  BY <1>1 DEF RunRec
<1>3. /\ new.pc = pc /\ new.ver = runs[r].ver /\ new.results = runs[r].results
      /\ new.failed = runs[r].failed /\ new.book = runs[r].book
      /\ new.dry = runs[r].dry /\ new.actions = runs[r].actions
  BY <1>1 DEF RunRec
<1>4. runs' = [runs EXCEPT ![r] = new]
  BY DEF Go
<1> HIDE DEF new
<1>5. runs'[r] = new /\ \A q \in RunIds \ {r} : runs'[q] = runs[q]
  BY <1>4
<1>6. runs' \in [RunIds -> RunRec]
  BY <1>2, <1>4
<1> QED BY <1>3, <1>5, <1>6 DEF Carries

LEMMA TakeShape ==
    ASSUME NEW r \in RunIds, runs \in [RunIds -> RunRec], NEW v \in Nat,
           runs' = [runs EXCEPT ![r].pc = "add", ![r].ver = v]
    PROVE  /\ runs' \in [RunIds -> RunRec]
           /\ Carries(r) /\ runs'[r].pc = "add" /\ runs'[r].ver = v
           /\ runs'[r].results = runs[r].results
           /\ runs'[r].failed = runs[r].failed
           /\ \A q \in RunIds \ {r} : runs'[q] = runs[q]
<1> DEFINE new == [runs[r] EXCEPT !.pc = "add", !.ver = v]
<1>1. runs[r] \in RunRec
  OBVIOUS
<1>2. new \in RunRec
  BY <1>1 DEF RunRec, RunPlaces
<1>3. /\ new.pc = "add" /\ new.ver = v /\ new.results = runs[r].results
      /\ new.failed = runs[r].failed /\ new.book = runs[r].book
      /\ new.dry = runs[r].dry /\ new.actions = runs[r].actions
  BY <1>1 DEF RunRec
<1>4. runs' = [runs EXCEPT ![r] = new]
  OBVIOUS
<1> HIDE DEF new
<1>5. runs'[r] = new /\ \A q \in RunIds \ {r} : runs'[q] = runs[q]
  BY <1>4
<1>6. runs' \in [RunIds -> RunRec]
  BY <1>2, <1>4
<1> QED BY <1>3, <1>5, <1>6 DEF Carries

\* The pc after an action.
After(r, status) ==
    IF Stops(r, status) \/ Len(runs[r].results) + 1 = Len(runs[r].actions)
    THEN "finish" ELSE "act"

LEMMA EndShape ==
    ASSUME NEW r \in RunIds, runs \in [RunIds -> RunRec], NEW status \in Outcomes,
           End(r, status)
    PROVE  /\ runs' \in [RunIds -> RunRec]
           /\ Carries(r) /\ runs'[r].pc = After(r, status)
           /\ runs'[r].results = Append(runs[r].results, status)
           /\ runs'[r].failed = Stops(r, status)
           /\ \A q \in RunIds \ {r} : runs'[q] = runs[q]
<1> DEFINE results == Append(runs[r].results, status)
           new == Finished(r, status)
<1>1. runs[r] \in RunRec /\ runs[r].results \in Seq(Outcomes)
  BY DEF RunRec
<1>2. results \in Seq(Outcomes) /\ Len(results) = Len(runs[r].results) + 1
  BY <1>1
<1>3. Stops(r, status) \in BOOLEAN
  BY DEF Stops
<1>4. /\ new.pc = IF Stops(r, status) \/ Len(results) = Len(runs[r].actions)
                     THEN "finish" ELSE "act"
      /\ new.results = results /\ new.failed = Stops(r, status)
      /\ new.book = runs[r].book /\ new.dry = runs[r].dry
      /\ new.actions = runs[r].actions /\ new.ver = 0
      /\ new = [pc |-> new.pc, book |-> new.book, actions |-> new.actions,
                dry |-> new.dry, results |-> new.results, failed |-> new.failed,
                ver |-> new.ver]
  <2> HIDE DEF results
  <2>1. new = [runs[r] EXCEPT !.results = results, !.ver = 0,
                 !.failed = Stops(r, status),
                 !.pc = IF Stops(r, status) \/ Len(results) = Len(runs[r].actions)
                          THEN "finish" ELSE "act"]
    BY DEF Finished, results
  <2> HIDE DEF new
  <2> QED BY <2>1, <1>1 DEF RunRec
<1>5. runs' = [runs EXCEPT ![r] = new]
  BY DEF End
<1> HIDE DEF new
<1>6. new.pc = After(r, status)
  BY <1>2, <1>4 DEF After
<1> HIDE DEF results
<1>7. new.pc \in RunPlaces
  BY <1>6 DEF After, RunPlaces
<1>8. new \in RunRec
  BY <1>1, <1>2, <1>3, <1>4, <1>7 DEF RunRec
<1>9. runs'[r] = new /\ \A q \in RunIds \ {r} : runs'[q] = runs[q]
  BY <1>5
<1>10. runs' \in [RunIds -> RunRec]
  BY <1>5, <1>8
<1>11. runs'[r].results = Append(runs[r].results, status)
  BY <1>4, <1>9 DEF results
<1> QED BY <1>4, <1>6, <1>9, <1>10, <1>11 DEF Carries

\* The places of a run that has come to its actions.
Active == {"act", "add", "append", "finish", "over"}

\* What every step of a run keeps of that run.
Stepped(r) ==
    /\ RunsType' /\ StepInv(r)' /\ EffectInv(r)' /\ RowInv(r)'
    /\ Carries(r) /\ \A q \in RunIds \ {r} : Kept(q)
    /\ runs[r].pc # "none" /\ runs'[r].pc # "none"
    /\ runs[r].pc \in Active => runs'[r].pc \in Active

LEMMA EndKeeps ==
    ASSUME NEW r \in RunIds, RunsType, StepInv(r), EffectInv(r), RowInv(r),
           runs[r].pc \in {"act", "append"}, runs[r].actions # << >>,
           NEW status \in Outcomes, End(r, status),
           UNCHANGED <<execs, nextRun, cascaded>>,
           effects' \in [RunIds -> SUBSET Nat],
           \A q \in RunIds \ {r} : effects'[q] = effects[q],
           \/ /\ effects'[r] = effects[r] \cup {Position(r)} /\ ~runs[r].dry
              /\ status = "success" \/ Current(r).type \in Requests
           \/ /\ effects'[r] = effects[r]
              /\ \/ runs[r].dry \/ status = "failed"
                 \/ Current(r).type = "notify_email"
    PROVE  Stepped(r)
<1> DEFINE w == runs[r]
           n == Len(w.results)
           v == runs'[r]
<1>1. /\ w \in RunRec /\ w.results \in Seq(Outcomes) /\ w.actions \in Seq(Action)
      /\ n \in Nat /\ Len(w.actions) \in Nat
  BY DEF RunsType, RunRec
<1>2. /\ runs' \in [RunIds -> RunRec] /\ Carries(r)
      /\ v.pc = After(r, status) /\ v.results = Append(w.results, status)
      /\ v.failed = Stops(r, status)
      /\ \A q \in RunIds \ {r} : runs'[q] = runs[q]
  BY EndShape DEF RunsType
<1>3. /\ ~w.failed /\ n < Len(w.actions)
      /\ execs[r].status \notin Finals
      /\ execs[r] # NoRow \/ r \in cascaded
  <2>1. ~w.failed /\ (n < Len(w.actions) \/ w.actions = << >>)
    BY DEF StepInv
  <2>2. execs[r].status \notin Finals /\ (execs[r] # NoRow \/ r \in cascaded)
    BY DEF RowInv
  <2> QED BY <2>1, <2>2
<1>4. /\ Len(v.results) = n + 1 /\ v.results[n + 1] = status
      /\ \A i \in 1..n : v.results[i] = w.results[i]
  BY <1>1, <1>2
<1>5. v.actions = w.actions /\ v.dry = w.dry /\ v.book = w.book
  BY <1>2 DEF Carries
<1>6. Current(r) = w.actions[n + 1] /\ Position(r) = n + 1
  BY DEF Current, Position
<1>7. v.failed <=> status = "failed" /\ ~w.actions[n + 1].cont
  BY <1>2, <1>6 DEF Stops
<1>8. /\ v.pc \in {"finish", "act"}
      /\ v.pc = "act" => ~v.failed /\ n + 1 # Len(w.actions)
      /\ v.pc = "finish" => v.failed \/ n + 1 = Len(w.actions)
  BY <1>2 DEF After
<1> HIDE DEF v
<1>9. StepInv(r)'
  <2>1. /\ Len(v.results) <= Len(v.actions)
        /\ v.pc \in {"none", "create", "count"} => Len(v.results) = 0
        /\ v.pc \in {"act", "add", "append"} =>
              ~v.failed /\ (Len(v.results) < Len(v.actions) \/ v.actions = << >>)
        /\ v.pc = "finish" => v.failed \/ Len(v.results) = Len(v.actions)
    BY <1>1, <1>3, <1>4, <1>5, <1>8
  <2>2. v.pc \notin {"add", "append"}
    BY <1>8
  <2>3. v.failed <=> /\ Len(v.results) > 0 /\ v.results[Len(v.results)] = "failed"
                     /\ ~v.actions[Len(v.results)].cont
    BY <1>1, <1>4, <1>5, <1>7
  <2> QED BY <2>1, <2>2, <2>3 DEF StepInv, v
<1>10. EffectInv(r)'
  <2>1. /\ effects[r] \subseteq 1..n
        /\ w.dry => effects[r] = {}
        /\ ~w.dry => \A i \in 1..n : w.results[i] = "success" =>
                        i \in effects[r] \/ w.actions[i].type = "notify_email"
        /\ \A i \in effects[r] :
              w.results[i] = "success" \/ w.actions[i].type \in Requests
    BY DEF EffectInv
  <2>2. \A i \in 1..(n + 1) : i \in 1..n \/ i = n + 1
    BY <1>1
  <2>3. /\ effects'[r] \subseteq effects[r] \cup {n + 1}
        /\ effects[r] \subseteq effects'[r]
        /\ n + 1 \in effects'[r] =>
              ~w.dry /\ (status = "success" \/ w.actions[n + 1].type \in Requests)
        /\ w.dry => effects'[r] = effects[r]
        /\ ~w.dry /\ status = "success" =>
              n + 1 \in effects'[r] \/ w.actions[n + 1].type = "notify_email"
    <3>1. n + 1 \notin effects[r]
      BY <1>1, <2>1
    <3> QED BY <1>6, <3>1 DEF Outcomes
  <2>4. effects'[r] \subseteq 1..(n + 1)
    BY <1>1, <2>1, <2>3
  <2>5. w.dry => effects'[r] = {}
    BY <2>1, <2>3
  <2>6. ~w.dry => \A i \in 1..(n + 1) : v.results[i] = "success" =>
                     i \in effects'[r] \/ w.actions[i].type = "notify_email"
    BY <1>4, <2>1, <2>2, <2>3
  <2>7. \A i \in effects'[r] :
           v.results[i] = "success" \/ w.actions[i].type \in Requests
    BY <1>4, <2>1, <2>3
  <2> QED BY <1>4, <1>5, <2>4, <2>5, <2>6, <2>7 DEF EffectInv, v
<1>11. RowInv(r)'
  <2>1. execs'[r] = execs[r] /\ cascaded' = cascaded
    OBVIOUS
  <2> QED BY <1>3, <2>1 DEF RowInv
<1>12. RunsType'
  BY <1>2 DEF RunsType
<1>13. \A q \in RunIds \ {r} : Kept(q)
  BY <1>2 DEF Kept
<1> QED BY <1>2, <1>8, <1>9, <1>10, <1>11, <1>12, <1>13 DEF Stepped, Active, v

\* A step that moves a run on from one place to another, with no result.
LEMMA GoKeeps ==
    ASSUME NEW r \in RunIds, RunsType, StepInv(r), EffectInv(r),
           NEW pc \in RunPlaces, Go(r, pc),
           UNCHANGED <<effects, nextRun>>,
           execs' \in [RunIds -> ExecRow],
           \A q \in RunIds \ {r} : execs'[q] = execs[q],
           StepInv(r)', RowInv(r)',
           runs[r].pc # "none", pc # "none", runs[r].pc \in Active => pc \in Active
    PROVE  Stepped(r)
<1>1. /\ runs' \in [RunIds -> RunRec] /\ Carries(r) /\ runs'[r].pc = pc
      /\ runs'[r].results = runs[r].results
      /\ \A q \in RunIds \ {r} : runs'[q] = runs[q]
  BY GoShape DEF RunsType
<1>2. EffectInv(r)'
  BY <1>1 DEF EffectInv, Carries
<1>3. RunsType'
  BY <1>1 DEF RunsType
<1>4. \A q \in RunIds \ {r} : Kept(q)
  BY <1>1 DEF Kept
<1> QED BY <1>1, <1>2, <1>3, <1>4 DEF Stepped

LEMMA StartKeeps ==
    ASSUME NEW r \in RunIds, RunsType, StepInv(r), EffectInv(r), RowInv(r),
           UNCHANGED <<nextRun, cascaded>>, Start(r)
    PROVE  Stepped(r)
<1>1. /\ runs[r].pc = "create" /\ runs[r] \in RunRec /\ UNCHANGED effects
      /\ Len(runs[r].results) = 0 /\ effects[r] = {}
      /\ execs[r].status \notin Finals
  BY DEF Start, RunsType, StepInv, EffectInv, RowInv
<1>2. CASE InsertExecution(r) /\ Go(r, "count")
  <2>1. /\ execs' \in [RunIds -> ExecRow] /\ execs'[r].status = "running"
        /\ \A q \in RunIds \ {r} : execs'[q] = execs[q]
    BY <1>2 DEF InsertExecution, RunsType, ExecRow
  <2>2. execs'[r] # NoRow /\ execs'[r].status \notin Finals
    BY <2>1 DEF NoRow, Finals
  <2>3. /\ runs' \in [RunIds -> RunRec] /\ Carries(r) /\ runs'[r].pc = "count"
        /\ runs'[r].results = runs[r].results /\ runs'[r].failed = runs[r].failed
    BY <1>2, GoShape DEF RunsType, RunPlaces
  <2>4. StepInv(r)'
    BY <1>1, <2>3 DEF StepInv, Carries
  <2>5. RowInv(r)'
    BY <2>2, <2>3 DEF RowInv
  <2> QED BY <1>1, <1>2, <2>1, <2>4, <2>5, GoKeeps DEF RunPlaces, Active
<1>3. CASE UNCHANGED execs /\ Go(r, "over")
  <2>1. /\ runs' \in [RunIds -> RunRec] /\ Carries(r) /\ runs'[r].pc = "over"
        /\ runs'[r].results = runs[r].results /\ runs'[r].failed = runs[r].failed
    BY <1>3, GoShape DEF RunsType, RunPlaces
  <2>2. StepInv(r)'
    BY <1>1, <2>1 DEF StepInv, Carries
  <2>3. RowInv(r)'
    BY <1>1, <1>3, <2>1 DEF RowInv
  <2> QED BY <1>1, <1>3, <2>2, <2>3, GoKeeps DEF RunPlaces, Active, RunsType
<1> QED BY <1>2, <1>3 DEF Start

LEMMA IncrementKeeps ==
    ASSUME NEW r \in RunIds, RunsType, StepInv(r), EffectInv(r), RowInv(r),
           UNCHANGED <<nextRun, cascaded>>, IncrementRunCount(r)
    PROVE  Stepped(r)
<1>1. /\ runs[r].pc = "count" /\ Go(r, "act") /\ UNCHANGED <<execs, effects>>
      /\ runs[r] \in RunRec /\ Len(runs[r].results) = 0
  BY DEF IncrementRunCount, RunsType, StepInv
<1>2. /\ runs' \in [RunIds -> RunRec] /\ Carries(r) /\ runs'[r].pc = "act"
      /\ runs'[r].results = runs[r].results /\ runs'[r].failed = runs[r].failed
  BY <1>1, GoShape DEF RunsType, RunPlaces
<1>3. Len(runs[r].actions) > 0 \/ runs[r].actions = << >>
  BY <1>1 DEF RunRec
<1>4. StepInv(r)'
  BY <1>1, <1>2, <1>3 DEF StepInv, Carries
<1>5. RowInv(r)'
  BY <1>1, <1>2 DEF RowInv
<1> QED BY <1>1, <1>4, <1>5, GoKeeps DEF RunPlaces, Active, RunsType

LEMMA FinishKeeps ==
    ASSUME NEW r \in RunIds, RunsType, StepInv(r), EffectInv(r), RowInv(r),
           UNCHANGED <<nextRun, cascaded>>, Finish(r)
    PROVE  Stepped(r)
<1>1. /\ runs[r].pc = "finish" /\ Go(r, "over") /\ UNCHANGED effects
      /\ runs[r] \in RunRec /\ runs[r].results \in Seq(Outcomes)
      /\ execs[r] \in ExecRow
  BY DEF Finish, RunsType, RunRec
<1>2. /\ execs[r] # NoRow \/ r \in cascaded
      /\ execs[r].status \notin Finals
      /\ runs[r].failed \/ Len(runs[r].results) = Len(runs[r].actions)
  BY <1>1 DEF RowInv, StepInv
<1>3. /\ runs' \in [RunIds -> RunRec] /\ Carries(r) /\ runs'[r].pc = "over"
      /\ runs'[r].results = runs[r].results /\ runs'[r].failed = runs[r].failed
  BY <1>1, GoShape DEF RunsType, RunPlaces
<1>4. StepInv(r)'
  BY <1>1, <1>3 DEF StepInv, Carries
<1>5. Status(r)' = Status(r) /\ Status(r) \in Finals
  BY <1>3 DEF Status, Carries, Finals
<1>6. CASE UNCHANGED execs
  <2>1. RowInv(r)'
    BY <1>1, <1>2, <1>3, <1>6 DEF RowInv
  <2> QED BY <1>1, <1>4, <1>6, <2>1, GoKeeps DEF RunPlaces, Active, RunsType
<1>7. CASE FinishExecution(r)
  <2> DEFINE row == [status |-> Status(r), results |-> runs[r].results]
  <2>1. row \in ExecRow
    BY <1>1, <1>5 DEF ExecRow
  <2>2. execs' = [execs EXCEPT ![r] = IF execs[r] = NoRow THEN execs[r] ELSE row]
    BY <1>7 DEF FinishExecution
  <2>3. row.status = Status(r) /\ row.results = runs[r].results
    OBVIOUS
  <2> HIDE DEF row
  <2>4. /\ execs' \in [RunIds -> ExecRow]
        /\ execs'[r] = IF execs[r] = NoRow THEN execs[r] ELSE row
        /\ \A q \in RunIds \ {r} : execs'[q] = execs[q]
    BY <1>1, <2>1, <2>2 DEF RunsType
  <2>5. row # NoRow
    <3>1. Status(r) # "none" /\ NoRow.status = "none"
      BY <1>5 DEF Finals, NoRow
    <3> QED BY <2>3, <3>1
  <2>6. (execs[r] # NoRow \/ r \in cascaded)'
    BY <1>2, <2>4, <2>5
  <2>7. execs'[r].status \in Finals =>
           execs'[r].results = runs[r].results /\ execs'[r].status = Status(r)
    BY <1>2, <2>3, <2>4
  <2>8. RowInv(r)'
    BY <1>2, <1>3, <1>5, <2>6, <2>7 DEF RowInv, Carries
  <2> QED BY <1>1, <1>4, <2>4, <2>8, GoKeeps DEF RunPlaces, Active
<1> QED BY <1>6, <1>7 DEF Finish

LEMMA NoActionsKeeps ==
    ASSUME NEW r \in RunIds, RunsType, StepInv(r), EffectInv(r), RowInv(r),
           UNCHANGED <<nextRun, cascaded>>, NoActions(r)
    PROVE  Stepped(r)
<1>1. /\ runs[r].pc = "act" /\ Go(r, "finish") /\ UNCHANGED <<execs, effects>>
      /\ runs[r] \in RunRec /\ runs[r].actions = << >>
  BY DEF NoActions, RunsType
<1>2. Len(runs[r].results) = 0 /\ Len(runs[r].actions) = 0
  BY <1>1 DEF StepInv, RunRec
<1>3. /\ runs' \in [RunIds -> RunRec] /\ Carries(r) /\ runs'[r].pc = "finish"
      /\ runs'[r].results = runs[r].results /\ runs'[r].failed = runs[r].failed
  BY <1>1, GoShape DEF RunsType, RunPlaces
<1>4. StepInv(r)'
  BY <1>1, <1>2, <1>3 DEF StepInv, Carries
<1>5. RowInv(r)'
  BY <1>1, <1>3 DEF RowInv
<1> QED BY <1>1, <1>4, <1>5, GoKeeps DEF RunPlaces, Active, RunsType

\* An action that ends without an effect, and one that ends with it.
LEMMA EndQuietly ==
    ASSUME NEW r \in RunIds, RunsType, StepInv(r), EffectInv(r), RowInv(r),
           UNCHANGED <<nextRun, cascaded, execs, effects>>,
           runs[r].pc = "act", runs[r].actions # << >>,
           NEW status \in Outcomes, End(r, status),
           \/ runs[r].dry \/ status = "failed" \/ Current(r).type = "notify_email"
    PROVE  Stepped(r)
<1>1. effects' \in [RunIds -> SUBSET Nat] /\ effects'[r] = effects[r]
  BY DEF RunsType
<1> QED BY <1>1, EndKeeps

LEMMA EndWithEffect ==
    ASSUME NEW r \in RunIds, RunsType, StepInv(r), EffectInv(r), RowInv(r),
           UNCHANGED <<nextRun, cascaded, execs>>, HasEffect(r),
           runs[r].pc \in {"act", "append"}, runs[r].actions # << >>, ~runs[r].dry,
           NEW status \in Outcomes, End(r, status),
           status = "success" \/ Current(r).type \in Requests
    PROVE  Stepped(r)
<1>1. Position(r) \in Nat
  BY DEF Position, RunsType, RunRec
<1>2. effects' = [effects EXCEPT ![r] = effects[r] \cup {Position(r)}]
  BY DEF HasEffect
<1>3. /\ effects' \in [RunIds -> SUBSET Nat]
      /\ effects'[r] = effects[r] \cup {Position(r)}
      /\ \A q \in RunIds \ {r} : effects'[q] = effects[q]
  BY <1>1, <1>2 DEF RunsType
<1> QED BY <1>3, EndKeeps

\* The actions that end in one step.
LEMMA ActionKeeps ==
    ASSUME NEW r \in RunIds, RunsType, StepInv(r), EffectInv(r), RowInv(r),
           UNCHANGED <<nextRun, cascaded>>,
           \/ DryAction(r) \/ RefuseAction(r) \/ LogMail(r) \/ SendCommand(r)
           \/ CreateCase(r) \/ Request(r)
    PROVE  Stepped(r)
<1>1. CASE DryAction(r)
  BY <1>1, EndQuietly DEF DryAction, Outcomes
<1>2. CASE RefuseAction(r)
  BY <1>2, EndQuietly DEF RefuseAction, Outcomes
<1>3. CASE LogMail(r)
  BY <1>3, EndQuietly DEF LogMail, Acting, Outcomes
<1>4. CASE SendCommand(r)
  BY <1>4, EndWithEffect DEF SendCommand, Acting, Outcomes
<1>5. CASE CreateCase(r)
  <2>1. runs[r].pc = "act" /\ runs[r].actions # << >> /\ ~runs[r].dry /\ UNCHANGED execs
    BY <1>5 DEF CreateCase, Acting
  <2>2. CASE HasEffect(r) /\ End(r, "success")
    BY <2>1, <2>2, EndWithEffect DEF Outcomes
  <2>3. CASE End(r, "failed") /\ UNCHANGED effects
    BY <2>1, <2>3, EndQuietly DEF Outcomes
  <2> QED BY <1>5, <2>2, <2>3 DEF CreateCase
<1>6. CASE Request(r)
  <2>1. /\ runs[r].pc = "act" /\ runs[r].actions # << >> /\ ~runs[r].dry
        /\ UNCHANGED execs /\ Current(r).type \in Requests
    BY <1>6 DEF Request, Acting
  <2>2. CASE HasEffect(r) /\ End(r, "success")
    BY <2>1, <2>2, EndWithEffect DEF Outcomes
  <2>3. CASE End(r, "failed") /\ HasEffect(r)
    BY <2>1, <2>3, EndWithEffect DEF Outcomes
  <2>4. CASE End(r, "failed") /\ UNCHANGED effects
    BY <2>1, <2>4, EndQuietly DEF Outcomes
  <2> QED BY <1>6, <2>2, <2>3, <2>4 DEF Request
<1> QED BY <1>1, <1>2, <1>3, <1>4, <1>5, <1>6

\* The three steps of an action that adds to a list.
LEMMA AddKeeps ==
    ASSUME NEW r \in RunIds, WatchType, RunsType, StepInv(r), EffectInv(r), RowInv(r),
           UNCHANGED <<nextRun, cascaded>>,
           TakeList(r) \/ AddToList(r) \/ AppendToFile(r)
    PROVE  Stepped(r)
<1>1. CASE TakeList(r)
  <2> DEFINE v == lists[Current(r).list].ver
  <2>1. /\ runs[r].pc = "act" /\ runs[r].actions # << >> /\ ~runs[r].dry
        /\ Current(r).type = "add_to_watchlist" /\ UNCHANGED <<execs, effects>>
        /\ runs' = [runs EXCEPT ![r].pc = "add", ![r].ver = v]
    BY <1>1 DEF TakeList, Acting
  <2>2. ~runs[r].failed /\ Len(runs[r].results) < Len(runs[r].actions)
    BY <2>1 DEF StepInv
  <2>3. Current(r).list \in Lists
    <3>1. /\ runs[r].actions \in Seq(Action) /\ Len(runs[r].results) \in Nat
          /\ Len(runs[r].actions) \in Nat
      BY DEF RunsType, RunRec
    <3>2. Len(runs[r].results) + 1 \in 1..Len(runs[r].actions)
      BY <2>2, <3>1
    <3>3. Current(r) \in Action
      BY <3>1, <3>2 DEF Current
    <3> QED BY <3>3 DEF Action
  <2>4. v \in Nat
    BY <2>3 DEF WatchType
  <2> HIDE DEF v
  <2>5. /\ runs' \in [RunIds -> RunRec] /\ Carries(r) /\ runs'[r].pc = "add"
        /\ runs'[r].results = runs[r].results /\ runs'[r].failed = runs[r].failed
        /\ \A q \in RunIds \ {r} : runs'[q] = runs[q]
    BY <2>1, <2>4, TakeShape DEF RunsType
  <2>6. Current(r)' = Current(r)
    BY <2>5 DEF Current, Carries
  <2>7. StepInv(r)'
    BY <2>1, <2>2, <2>5, <2>6 DEF StepInv, Carries
  <2>8. RowInv(r)'
    BY <2>1, <2>5 DEF RowInv
  <2>9. EffectInv(r)'
    BY <2>1, <2>5 DEF EffectInv, Carries
  <2>10. RunsType' /\ \A q \in RunIds \ {r} : Kept(q)
    BY <2>1, <2>5 DEF RunsType, Kept
  <2> QED BY <2>1, <2>5, <2>7, <2>8, <2>9, <2>10 DEF Stepped, Active
<1>2. CASE AddToList(r)
  <2>1. runs[r].pc = "add" /\ Go(r, "append") /\ UNCHANGED <<execs, effects>>
    BY <1>2 DEF AddToList
  <2>2. /\ runs' \in [RunIds -> RunRec] /\ Carries(r) /\ runs'[r].pc = "append"
        /\ runs'[r].results = runs[r].results /\ runs'[r].failed = runs[r].failed
    BY <2>1, GoShape DEF RunsType, RunPlaces
  <2>3. Current(r)' = Current(r)
    BY <2>2 DEF Current, Carries
  <2>4. StepInv(r)'
    BY <2>1, <2>2, <2>3 DEF StepInv, Carries
  <2>5. RowInv(r)'
    BY <2>1, <2>2 DEF RowInv
  <2> QED BY <2>1, <2>4, <2>5, GoKeeps DEF RunPlaces, Active, RunsType
<1>3. CASE AppendToFile(r)
  <2>1. /\ runs[r].pc = "append" /\ HasEffect(r) /\ End(r, "success")
        /\ UNCHANGED execs
    BY <1>3 DEF AppendToFile
  <2>2. ~runs[r].dry /\ runs[r].actions # << >>
    BY <2>1 DEF StepInv
  <2> QED BY <2>1, <2>2, EndWithEffect DEF Outcomes
<1> QED BY <1>1, <1>2, <1>3

LEMMA RunStepKeeps ==
    ASSUME NEW r \in RunIds, WatchType, RunsType, RunInv, RunStep(r)
    PROVE  Stepped(r) /\ RunInv'
<1>1. /\ UNCHANGED <<nextRun, cascaded>> /\ StepInv(r) /\ EffectInv(r) /\ RowInv(r)
  BY DEF RunStep, RunInv
<1>2. Stepped(r)
  <2>1. CASE Start(r)
    BY <1>1, <2>1, StartKeeps
  <2>2. CASE IncrementRunCount(r)
    BY <1>1, <2>2, IncrementKeeps
  <2>3. CASE Finish(r)
    BY <1>1, <2>3, FinishKeeps
  <2>4. CASE NoActions(r)
    BY <1>1, <2>4, NoActionsKeeps
  <2>5. CASE \/ DryAction(r) \/ RefuseAction(r) \/ LogMail(r) \/ SendCommand(r)
             \/ CreateCase(r) \/ Request(r)
    BY <1>1, <2>5, ActionKeeps
  <2>6. CASE TakeList(r) \/ AddToList(r) \/ AppendToFile(r)
    BY <1>1, <2>6, AddKeeps
  <2> QED BY <2>1, <2>2, <2>3, <2>4, <2>5, <2>6 DEF RunStep
<1>3. ASSUME NEW q \in RunIds PROVE (StepInv(q) /\ EffectInv(q) /\ RowInv(q))'
  <2>1. CASE q = r
    BY <1>2, <2>1 DEF Stepped
  <2>2. CASE q # r
    <3>1. runs'[q] = runs[q] /\ execs'[q] = execs[q] /\ effects'[q] = effects[q]
      BY <1>2, <2>2 DEF Stepped, Kept
    <3>2. StepInv(q) /\ EffectInv(q) /\ RowInv(q)
      BY DEF RunInv
    <3>3. StepInv(q)'
      BY <3>1, <3>2 DEF StepInv, Current
    <3>4. EffectInv(q)'
      BY <3>1, <3>2 DEF EffectInv
    <3>5. RowInv(q)'
      BY <1>1, <3>1, <3>2 DEF RowInv, Status
    <3> QED BY <3>3, <3>4, <3>5
  <2> QED BY <2>1, <2>2
<1> QED BY <1>2, <1>3 DEF RunInv

-----------------------------------------------------------------------------
(* What else a step of a run changes                                       *)

LEMMA BooksKeep ==
    ASSUME NEW r \in RunIds, FreshInv, RunsType, BooksType, Stepped(r), RunStep(r)
    PROVE  FreshInv' /\ r < nextRun /\ runs[r].book \in BookIds
<1>1. /\ runs[r].pc # "none" /\ Carries(r) /\ \A q \in RunIds \ {r} : Kept(q)
      /\ UNCHANGED <<nextRun, nextBook>>
  BY DEF Stepped, RunStep, bookTable
<1>2. r < nextRun
  <2>1. nextRun \in Nat /\ r \in Nat
    BY DEF RunIds, RunsType
  <2>2. runs[r] # NoRun
    BY <1>1 DEF NoRun
  <2> QED BY <2>1, <2>2 DEF FreshInv
<1>3. nextRun \in Nat /\ \A q \in RunIds : q \in Nat
  BY DEF RunIds, RunsType
<1>4. ASSUME NEW q \in RunIds, q >= nextRun
      PROVE  runs'[q] = NoRun /\ execs'[q] = NoRow /\ effects'[q] = {}
  <2>1. q # r
    BY <1>2, <1>3, <1>4
  <2> QED BY <1>1, <1>4, <2>1 DEF FreshInv, Kept
<1>5. ASSUME NEW q \in RunIds, q < nextRun
      PROVE  /\ runs'[q].pc # "none"
             /\ runs'[q].book \in BookIds /\ runs'[q].book < nextBook
  <2>1. CASE q = r
    <3>1. runs'[r].pc # "none"
      BY DEF Stepped
    <3> QED BY <1>1, <1>5, <2>1, <3>1 DEF FreshInv, Carries
  <2>2. CASE q # r
    BY <1>1, <1>5, <2>2 DEF FreshInv, Kept
  <2> QED BY <2>1, <2>2
<1>6. FreshInv'
  BY <1>1, <1>4, <1>5 DEF FreshInv
<1> QED BY <1>2, <1>6 DEF FreshInv

\* The runs of a book that counted themselves.
Counting(b) == {q \in counted : runs[q].book = b}

LEMMA RunsFinite == ASSUME NEW S \in SUBSET RunIds PROVE IsFiniteSet(S)
<1>1. 1 \in Int /\ MaxRuns \in Int
  BY ResponseAssumption
<1>2. IsFiniteSet(1..MaxRuns)
  BY <1>1, FS_Interval
<1> QED BY <1>2, FS_Subset DEF RunIds

LEMMA RunStepCounts ==
    ASSUME NEW r \in RunIds, BooksType, RunsType, FreshInv, CountInv,
           Stepped(r), RunStep(r)
    PROVE  CountInv' /\ BooksType'
<1>1. /\ UNCHANGED <<books, nextBook, edit>> /\ Carries(r)
      /\ \A q \in RunIds \ {r} : Kept(q)
      /\ runs[r].pc \in Active => runs'[r].pc \in Active
  BY DEF Stepped, RunStep, bookTable
<1>2. \A q \in RunIds : runs'[q].book = runs[q].book
  BY <1>1 DEF Carries, Kept
<1>3. /\ counted \subseteq RunIds /\ \A q \in counted : runs[q].pc \in Active
      /\ \A b \in BookIds : b >= nextBook => runCount[b] = 0
      /\ \A b \in BookIds : Exists(b) => runCount[b] = Cardinality(Counting(b))
  BY DEF CountInv, Active, RunsCounted, Counting
<1>4. \A q \in counted : runs'[q].pc \in Active
  <2>1. ASSUME NEW q \in counted, q # r PROVE runs'[q].pc \in Active
    <3>1. q \in RunIds /\ runs'[q] = runs[q]
      BY <1>1, <1>3, <2>1 DEF Kept
    <3> QED BY <1>3, <3>1
  <2> QED BY <1>1, <1>3, <2>1
<1>5. /\ Exists(runs[r].book)' <=> Exists(runs[r].book)
      /\ \A b \in BookIds : Exists(b)' <=> Exists(b)
  BY <1>1, <1>2 DEF Exists
<1>6. CASE UNCHANGED <<runCount, counted>>
  <2>1. \A b \in BookIds : Counting(b)' = Counting(b)
    BY <1>2, <1>3, <1>6 DEF Counting
  <2>2. RunsCounted'
    BY <1>3, <1>5, <1>6, <2>1 DEF RunsCounted, Counting
  <2>3. CountInv'
    BY <1>1, <1>3, <1>4, <1>6, <2>2 DEF CountInv, Active
  <2>4. BooksType'
    BY <1>1, <1>6 DEF BooksType
  <2> QED BY <2>3, <2>4
<1>7. CASE IncrementRunCount(r) /\ counted' # counted
  <2>0. PICK b \in BookIds : b = runs[r].book
    BY BooksKeep
  <2>1. /\ runs[r].pc = "count" /\ Exists(b) /\ counted' = counted \cup {r}
        /\ runCount' = [runCount EXCEPT ![b] = @ + 1] /\ Go(r, "act")
    BY <1>7, <2>0 DEF IncrementRunCount
  <2>2. r \notin counted
    BY <1>3, <2>1 DEF Active
  <2>3. runs'[r].pc = "act"
    BY <2>1, GoShape DEF RunsType, RunPlaces
  <2>4. b < nextBook
    BY <2>1 DEF Exists
  <2>5. /\ \A c \in BookIds : runCount[c] \in Nat
        /\ runCount \in [BookIds -> Nat]
    BY DEF BooksType
  <2>6. /\ runCount' \in [BookIds -> Nat] /\ runCount'[b] = runCount[b] + 1
        /\ \A c \in BookIds \ {b} : runCount'[c] = runCount[c]
    BY <2>1, <2>5
  <2>7. \A c \in BookIds \ {b} : Counting(c)' = Counting(c)
    BY <1>2, <1>3, <2>0, <2>1 DEF Counting
  <2>8. Counting(b)' = Counting(b) \cup {r} /\ r \notin Counting(b)
    BY <1>2, <1>3, <2>0, <2>1, <2>2 DEF Counting
  <2>9. IsFiniteSet(Counting(b))
    BY <1>3, RunsFinite DEF Counting
  <2>10. Cardinality(Counting(b)') = Cardinality(Counting(b)) + 1
    BY <2>8, <2>9, FS_AddElement
  <2>11. ASSUME NEW c \in BookIds, Exists(c)'
         PROVE  runCount'[c] = Cardinality(Counting(c)')
    <3>1. CASE c = b
      BY <1>3, <2>1, <2>6, <2>10, <3>1
    <3>2. CASE c # b
      <4>1. Exists(c)
        BY <1>5, <2>11
      <4> QED BY <1>3, <2>6, <2>7, <3>2, <4>1
    <3> QED BY <3>1, <3>2
  <2>12. RunsCounted'
    BY <2>11 DEF RunsCounted, Counting
  <2>13. \A c \in BookIds : c >= nextBook' => runCount'[c] = 0
    <3>1. nextBook \in Nat /\ \A c \in BookIds : c \in Nat
      BY DEF BooksType, BookIds
    <3>2. ASSUME NEW c \in BookIds, c >= nextBook PROVE runCount'[c] = 0
      <4>1. c # b
        BY <2>4, <3>1, <3>2
      <4> QED BY <1>3, <2>6, <3>2, <4>1
    <3> QED BY <1>1, <3>2
  <2>14. counted' \subseteq RunIds /\ \A q \in counted' : runs'[q].pc \in Active
    BY <1>3, <1>4, <2>1, <2>3 DEF Active
  <2>15. CountInv'
    BY <2>12, <2>13, <2>14 DEF CountInv, Active
  <2>16. BooksType'
    BY <1>1, <2>6 DEF BooksType
  <2> QED BY <2>15, <2>16
<1>8. UNCHANGED <<runCount, counted>> \/ (IncrementRunCount(r) /\ counted' # counted)
  <2>1. CASE IncrementRunCount(r)
    <3>1. CASE UNCHANGED <<runCount, counted>>
      BY <3>1
    <3>2. CASE counted' = counted \cup {r} /\ Exists(runs[r].book)
      <4>1. r \notin counted
        BY <1>3, <2>1 DEF IncrementRunCount, Active
      <4> QED BY <2>1, <3>2, <4>1
    <3> QED BY <2>1, <3>1, <3>2 DEF IncrementRunCount
  <2>2. CASE Start(r) \/ Finish(r)
    BY <2>2 DEF Start, Finish
  <2>3. CASE \/ NoActions(r) \/ DryAction(r) \/ RefuseAction(r) \/ LogMail(r)
             \/ SendCommand(r) \/ CreateCase(r) \/ Request(r)
    BY <2>3 DEF NoActions, DryAction, RefuseAction, LogMail, SendCommand, CreateCase,
                Request
  <2>4. CASE TakeList(r) \/ AddToList(r) \/ AppendToFile(r)
    BY <2>4 DEF TakeList, AddToList, AppendToFile
  <2> QED BY <2>1, <2>2, <2>3, <2>4 DEF RunStep
<1> QED BY <1>6, <1>7, <1>8

-----------------------------------------------------------------------------
(* The lists under a step of a run                                         *)

LEMMA CurrentTyped ==
    ASSUME NEW r \in RunIds, RunsType, StepInv(r),
           runs[r].pc \in {"act", "add", "append"}, runs[r].actions # << >>
    PROVE  Current(r) \in Action /\ Current(r).list \in Lists /\ Current(r).key \in Keys
<1>1. /\ runs[r].actions \in Seq(Action) /\ Len(runs[r].results) \in Nat
      /\ Len(runs[r].actions) \in Nat
  BY DEF RunsType, RunRec
<1>2. Len(runs[r].results) < Len(runs[r].actions)
  BY DEF StepInv
<1>3. Len(runs[r].results) + 1 \in 1..Len(runs[r].actions)
  BY <1>1, <1>2
<1>4. Current(r) \in Action
  BY <1>1, <1>3 DEF Current
<1> QED BY <1>4 DEF Action

\* The objects stay and lose no key; the files lose no line.
Grown ==
    /\ \A l \in Lists : /\ lists'[l].ver = lists[l].ver
                        /\ lists[l].keys \subseteq lists'[l].keys
                        /\ appended[l] \subseteq appended'[l]
    /\ UNCHANGED replaced

\* The other runs hold what they held, and every report stands.
LEMMA GrownKeeps ==
    ASSUME WatchType, RunsType, RunInv, TakenInv, ReportInv, Grown
    PROVE  /\ \A q \in RunIds : Kept(q) => Taken(q)'
           /\ \A rep \in reports : Stands(rep)'
<1>1. ASSUME NEW q \in RunIds, Kept(q) PROVE Taken(q)'
  <2>1. runs'[q] = runs[q] /\ Current(q)' = Current(q)
    BY <1>1 DEF Kept, Current
  <2>2. CASE runs[q].pc \notin {"add", "append"}
    BY <2>1, <2>2 DEF Taken
  <2>3. CASE runs[q].pc \in {"add", "append"}
    <3>1. StepInv(q)
      BY DEF RunInv
    <3>2. runs[q].actions # << >>
      BY <2>3, <3>1 DEF StepInv
    <3>3. Current(q).list \in Lists
      BY <2>3, <3>1, <3>2, CurrentTyped
    <3>4. Taken(q)
      BY DEF TakenInv
    <3>5. /\ lists'[Current(q).list].ver = lists[Current(q).list].ver
          /\ lists[Current(q).list].keys \subseteq lists'[Current(q).list].keys
          /\ replaced' = replaced
      BY <3>3 DEF Grown
    <3> QED BY <2>1, <3>4, <3>5 DEF Taken
  <2> QED BY <2>2, <2>3
<1>2. ASSUME NEW rep \in reports PROVE Stands(rep)'
  <2>1. Stands(rep) /\ rep.list \in Lists
    BY DEF ReportInv, Report
  <2>2. /\ lists'[rep.list].ver = lists[rep.list].ver
        /\ lists[rep.list].keys \subseteq lists'[rep.list].keys
        /\ appended[rep.list] \subseteq appended'[rep.list] /\ replaced' = replaced
    BY <2>1 DEF Grown
  <2> QED BY <2>1, <2>2 DEF Stands
<1> QED BY <1>1, <1>2

\* A step that adds to no list and reports nothing.
LEMMA QuietKeeps ==
    ASSUME NEW r \in RunIds, WatchType, RunsType, RunInv, TakenInv, ReportInv,
           UNCHANGED <<sources, feed, lists, appended, replaced, reports>>,
           \A q \in RunIds \ {r} : Kept(q), Taken(r)'
    PROVE  WatchType' /\ TakenInv' /\ ReportInv'
<1>1. Grown
  BY DEF Grown
<1>2. TakenInv'
  BY <1>1, GrownKeeps DEF TakenInv
<1>3. ReportInv'
  BY <1>1, GrownKeeps DEF ReportInv
<1>4. WatchType'
  BY DEF WatchType
<1> QED BY <1>2, <1>3, <1>4

LEMMA AddKeepsLists ==
    ASSUME NEW r \in RunIds, WatchType, RunsType, RunInv, TakenInv, ReportInv,
           UNCHANGED <<sources, feed, replaced>>, Stepped(r), AddToList(r)
    PROVE  WatchType' /\ TakenInv' /\ ReportInv'
<1> DEFINE l == Current(r).list
           k == Current(r).key
           v == runs[r].ver
<1>1. /\ runs[r].pc = "add" /\ Go(r, "append") /\ AddToObject(l, v, k)
      /\ UNCHANGED <<appended, reports>>
  BY DEF AddToList
<1>2. StepInv(r) /\ Taken(r)
  BY DEF RunInv, TakenInv
<1>3. l \in Lists /\ k \in Keys
  <2>1. runs[r].actions # << >>
    BY <1>1, <1>2 DEF StepInv
  <2> QED BY <1>1, <1>2, <2>1, CurrentTyped
<1>4. v <= lists[l].ver /\ (v < lists[l].ver => l \in replaced)
  BY <1>1, <1>2 DEF Taken
<1>5. /\ runs'[r].pc = "append" /\ runs'[r].ver = v /\ Current(r)' = Current(r)
      /\ \A q \in RunIds \ {r} : Kept(q)
  BY <1>1, GoShape DEF Stepped, RunsType, RunPlaces, Current, Carries
<1>6. /\ l' = l /\ k' = k
  BY <1>5
<1> HIDE DEF l, k
<1>7. lists \in [Lists -> [ver : Nat, keys : SUBSET Keys]]
  BY DEF WatchType
<1>8. /\ lists' \in [Lists -> [ver : Nat, keys : SUBSET Keys]]
      /\ \A m \in Lists : /\ lists'[m].ver = lists[m].ver
                          /\ lists[m].keys \subseteq lists'[m].keys
      /\ lists[l].ver = v => k \in lists'[l].keys
  <2>1. CASE lists[l].ver # v
    BY <1>1, <1>7, <2>1 DEF AddToObject
  <2>2. CASE lists[l].ver = v
    <3> DEFINE new == [lists[l] EXCEPT !.keys = lists[l].keys \cup {k}]
    <3>1. lists[l] \in [ver : Nat, keys : SUBSET Keys]
      BY <1>3, <1>7
    <3>2. /\ new \in [ver : Nat, keys : SUBSET Keys]
          /\ new.ver = lists[l].ver /\ new.keys = lists[l].keys \cup {k}
      BY <1>3, <3>1
    <3>3. lists' = [lists EXCEPT ![l] = new]
      BY <1>1, <2>2 DEF AddToObject
    <3> HIDE DEF new
    <3>4. lists' \in [Lists -> [ver : Nat, keys : SUBSET Keys]]
      BY <1>7, <3>2, <3>3
    <3>5. lists'[l] = new /\ \A m \in Lists \ {l} : lists'[m] = lists[m]
      BY <1>3, <1>7, <3>3
    <3> QED BY <3>2, <3>4, <3>5
  <2> QED BY <2>1, <2>2
<1>9. Grown
  BY <1>1, <1>8 DEF Grown
<1>10. Taken(r)'
  <2>1. lists'[l].ver = lists[l].ver /\ replaced' = replaced
    BY <1>3, <1>8
  <2>2. v <= lists'[l].ver /\ (v < lists'[l].ver => l \in replaced')
    BY <1>4, <2>1
  <2>3. v = lists'[l].ver => k \in lists'[l].keys
    BY <1>8, <2>1
  <2> QED BY <1>5, <2>2, <2>3 DEF Taken, l, k
<1>11. TakenInv'
  BY <1>5, <1>9, <1>10, GrownKeeps DEF TakenInv
<1>12. ReportInv'
  BY <1>1, <1>9, GrownKeeps DEF ReportInv
<1>13. WatchType'
  BY <1>1, <1>8 DEF WatchType
<1> QED BY <1>11, <1>12, <1>13

LEMMA AppendKeepsLists ==
    ASSUME NEW r \in RunIds, WatchType, RunsType, RunInv, TakenInv, ReportInv,
           UNCHANGED <<sources, feed, replaced>>, Stepped(r), AppendToFile(r)
    PROVE  WatchType' /\ TakenInv' /\ ReportInv'
<1> DEFINE l == Current(r).list
           k == Current(r).key
           v == runs[r].ver
           rep(written) == [list |-> l, key |-> k, ver |-> v, written |-> written]
<1>1. /\ runs[r].pc = "append" /\ End(r, "success") /\ UNCHANGED lists
      /\ \/ /\ appended' = [appended EXCEPT ![l] = @ \cup {k}]
            /\ reports' = reports \cup {rep(TRUE)}
         \/ appended' = appended /\ reports' = reports \cup {rep(FALSE)}
  BY DEF AppendToFile, Appended
<1>2. StepInv(r) /\ Taken(r)
  BY DEF RunInv, TakenInv
<1>3. l \in Lists /\ k \in Keys /\ v \in Nat
  <2>1. runs[r].actions # << >> /\ runs[r].ver \in Nat
    BY <1>1, <1>2 DEF StepInv, RunsType, RunRec
  <2> QED BY <1>1, <1>2, <2>1, CurrentTyped
<1>4. /\ v <= lists[l].ver /\ (v < lists[l].ver => l \in replaced)
      /\ v = lists[l].ver => k \in lists[l].keys
  BY <1>1, <1>2 DEF Taken
<1>5. runs'[r].pc \notin {"add", "append"} /\ \A q \in RunIds \ {r} : Kept(q)
  BY <1>1, EndShape DEF Stepped, RunsType, Outcomes, After
<1>6. PICK written \in BOOLEAN :
         /\ reports' = reports \cup {rep(written)}
         /\ written => appended' = [appended EXCEPT ![l] = appended[l] \cup {k}]
         /\ ~written => appended' = appended
  BY <1>1
<1>7. appended \in [Lists -> SUBSET Keys]
  BY DEF WatchType
<1>8. lists[l].ver \in Nat /\ lists' = lists /\ replaced' = replaced
  BY <1>1, <1>3 DEF WatchType
<1> HIDE DEF l, k, v
<1>9. /\ appended' \in [Lists -> SUBSET Keys]
      /\ \A m \in Lists : appended[m] \subseteq appended'[m]
      /\ written => k \in appended'[l]
  BY <1>3, <1>6, <1>7
<1>10. Grown
  BY <1>8, <1>9 DEF Grown
<1>11. PICK new \in Report : /\ new.list = l /\ new.key = k /\ new.ver = v
                             /\ new.written = written
                             /\ reports' = reports \cup {new}
  BY <1>3, <1>6 DEF Report
<1>12. Stands(new)'
  BY <1>3, <1>4, <1>8, <1>9, <1>11 DEF Stands
<1>13. ReportInv'
  BY <1>10, <1>11, <1>12, GrownKeeps DEF ReportInv
<1>14. TakenInv'
  BY <1>5, <1>10, GrownKeeps DEF TakenInv, Taken
<1>15. WatchType'
  BY <1>8, <1>9 DEF WatchType
<1> QED BY <1>13, <1>14, <1>15

LEMMA RunStepWatch ==
    ASSUME NEW r \in RunIds, WatchType, RunsType, RunInv, TakenInv, ReportInv,
           Stepped(r), RunStep(r)
    PROVE  WatchType' /\ TakenInv' /\ ReportInv'
<1>1. UNCHANGED <<sources, feed, replaced>> /\ \A q \in RunIds \ {r} : Kept(q)
  BY DEF RunStep, Stepped
<1>2. CASE \/ Start(r) /\ UNCHANGED <<lists, appended>>
           \/ IncrementRunCount(r) /\ UNCHANGED <<lists, appended>>
           \/ Finish(r) /\ UNCHANGED <<lists, appended>>
           \/ NoActions(r)
  <2>1. UNCHANGED <<lists, appended, reports>>
    BY <1>2 DEF Start, IncrementRunCount, Finish, NoActions
  <2>2. \E pc \in {"count", "over", "act", "finish"} : Go(r, pc)
    BY <1>2 DEF Start, IncrementRunCount, Finish, NoActions
  <2>3. runs'[r].pc \notin {"add", "append"}
    BY <2>2, GoShape DEF RunsType, RunPlaces
  <2> QED BY <1>1, <2>1, <2>3, QuietKeeps DEF Taken
<1>3. CASE \/ DryAction(r) \/ RefuseAction(r) \/ LogMail(r) \/ SendCommand(r)
           \/ CreateCase(r) \/ Request(r)
  <2>1. UNCHANGED <<lists, appended, reports>>
    BY <1>3 DEF DryAction, RefuseAction, LogMail, SendCommand, CreateCase, Request
  <2>2. \E status \in Outcomes : End(r, status)
    BY <1>3 DEF DryAction, RefuseAction, LogMail, SendCommand, CreateCase, Request,
                Outcomes
  <2>3. runs'[r].pc \notin {"add", "append"}
    BY <2>2, EndShape DEF RunsType, After
  <2> QED BY <1>1, <2>1, <2>3, QuietKeeps DEF Taken
<1>4. CASE TakeList(r)
  <2> DEFINE l == Current(r).list
             v == lists[l].ver
  <2>1. /\ runs[r].pc = "act" /\ runs[r].actions # << >>
        /\ runs' = [runs EXCEPT ![r].pc = "add", ![r].ver = v]
        /\ UNCHANGED <<lists, appended, reports>>
    BY <1>4 DEF TakeList, Acting
  <2>2. StepInv(r)
    BY DEF RunInv
  <2>3. v \in Nat
    BY <2>1, <2>2, CurrentTyped DEF WatchType
  <2>4. /\ runs'[r].pc = "add" /\ runs'[r].ver = v /\ Current(r)' = Current(r)
    BY <2>1, <2>3, TakeShape DEF RunsType, Current, Carries
  <2>5. Taken(r)'
    BY <2>1, <2>3, <2>4 DEF Taken
  <2> QED BY <1>1, <2>1, <2>5, QuietKeeps
<1>5. CASE AddToList(r)
  BY <1>1, <1>5, AddKeepsLists
<1>6. CASE AppendToFile(r)
  BY <1>1, <1>6, AppendKeepsLists
<1> QED BY <1>2, <1>3, <1>4, <1>5, <1>6 DEF RunStep

-----------------------------------------------------------------------------
(* The lists under feeds and requests                                      *)

LEMMA RereadTyped ==
    ASSUME NEW keys \in SUBSET Keys PROVE Reread(keys) \subseteq Keys
<1>1. "ip" \in Keys
  BY DEF Keys
<1> QED BY <1>1 DEF Reread

LEMMA EntriesTyped ==
    ASSUME NEW page \in Pages
    PROVE  /\ \A type \in Types \ {"misp"} : Entries(type, page) \subseteq Keys
           /\ \A part \in 1..4 : MispPart(page, part) \subseteq Keys
<1>1. \A form : OfForm(page, form) \subseteq Keys
  <2>1. page \subseteq Lines
    BY WatchlistsAssumption
  <2> QED BY <2>1 DEF OfForm, Lines
<1>2. {"ip"} \subseteq Keys
  BY DEF Keys
<1>3. ASSUME NEW type \in Types \ {"misp"} PROVE Entries(type, page) \subseteq Keys
  <2>1. /\ fetchAbuseIPDB(page) \subseteq Keys /\ fetchOTX(page) \subseteq Keys
        /\ fetchPlaintext(page) \subseteq Keys /\ fetchFeodoTracker(page) \subseteq Keys
        /\ fetchAbusechHash(page) \subseteq Keys /\ fetchURLhaus(page) \subseteq Keys
    BY <1>1, RereadTyped DEF fetchAbuseIPDB, fetchOTX, fetchPlaintext,
                             fetchFeodoTracker, fetchAbusechHash, fetchURLhaus
  <2> QED BY <2>1 DEF Types, Entries
<1>4. ASSUME NEW part \in 1..4 PROVE MispPart(page, part) \subseteq Keys
  <2>1. part = 1 \/ part = 2 \/ part = 3 \/ part = 4
    OBVIOUS
  <2> QED BY <1>1, <1>2, <2>1 DEF MispPart
<1> QED BY <1>3, <1>4

LEMMA SeqElement ==
    ASSUME NEW S, NEW s \in Seq(S), NEW i \in DOMAIN s PROVE s[i] \in S
OBVIOUS

LEMMA NewObject ==
    ASSUME WatchType, RunsType, RunInv, TakenInv, ReportInv,
           NEW l \in Lists, NEW keys \in SUBSET Keys, AddList(l, keys),
           UNCHANGED <<appended, runs, reports>>
    PROVE  /\ lists' \in [Lists -> [ver : Nat, keys : SUBSET Keys]]
           /\ replaced' \subseteq Lists /\ TakenInv' /\ ReportInv'
<1>1. lists \in [Lists -> [ver : Nat, keys : SUBSET Keys]] /\ replaced \subseteq Lists
  BY DEF WatchType
<1>2. \A m \in Lists : lists[m].ver \in Nat
  BY <1>1
<1> DEFINE new == [ver |-> lists[l].ver + 1, keys |-> keys]
<1>3. /\ new \in [ver : Nat, keys : SUBSET Keys] /\ new.ver = lists[l].ver + 1
  BY <1>2
<1>4. lists' = [lists EXCEPT ![l] = new] /\ replaced' = replaced \cup {l}
  BY DEF AddList
<1> HIDE DEF new
<1>5. /\ lists' \in [Lists -> [ver : Nat, keys : SUBSET Keys]]
      /\ lists'[l].ver = lists[l].ver + 1
      /\ \A m \in Lists \ {l} : lists'[m] = lists[m]
  BY <1>1, <1>3, <1>4
<1>6. ASSUME NEW q \in RunIds PROVE Taken(q)'
  <2>1. Current(q)' = Current(q)
    BY DEF Current
  <2>2. CASE runs[q].pc \notin {"add", "append"}
    BY <2>2 DEF Taken
  <2>3. CASE runs[q].pc \in {"add", "append"}
    <3> DEFINE m == Current(q).list
    <3>1. m \in Lists /\ runs[q].ver \in Nat
      <4>1. StepInv(q)
        BY DEF RunInv
      <4>2. runs[q].actions # << >>
        BY <2>3, <4>1 DEF StepInv
      <4>3. runs[q].ver \in Nat
        BY DEF RunsType, RunRec
      <4> QED BY <2>3, <4>1, <4>2, <4>3, CurrentTyped
    <3>2. Taken(q)
      BY DEF TakenInv
    <3>3. /\ runs[q].ver <= lists[m].ver /\ (runs[q].ver < lists[m].ver => m \in replaced)
          /\ runs[q].pc = "append" /\ runs[q].ver = lists[m].ver =>
                Current(q).key \in lists[m].keys
      BY <2>3, <3>2 DEF Taken
    <3>4. m' = m
      BY <2>1
    <3> HIDE DEF m
    <3>5. CASE m = l
      <4>1. runs[q].ver < lists'[m].ver /\ m \in replaced'
        BY <1>2, <1>4, <1>5, <3>1, <3>3, <3>5
      <4> QED BY <1>5, <3>1, <3>4, <4>1 DEF Taken, m
    <3>6. CASE m # l
      <4>1. lists'[m] = lists[m] /\ (m \in replaced => m \in replaced')
        BY <1>4, <1>5, <3>1, <3>6
      <4> QED BY <2>1, <3>3, <3>4, <4>1 DEF Taken, m
    <3> QED BY <3>5, <3>6
  <2> QED BY <2>2, <2>3
<1>7. ASSUME NEW rep \in reports PROVE Stands(rep)'
  <2>1. Stands(rep) /\ rep.list \in Lists /\ rep.ver \in Nat
    BY DEF ReportInv, Report
  <2>2. CASE rep.list = l
    <3>1. rep.ver < lists'[l].ver /\ l \in replaced' /\ lists'[l].ver \in Nat
      BY <1>2, <1>4, <1>5, <2>1, <2>2 DEF Stands
    <3> QED BY <2>1, <2>2, <3>1 DEF Stands
  <2>3. CASE rep.list # l
    <3>1. lists'[rep.list] = lists[rep.list]
          /\ (rep.list \in replaced => rep.list \in replaced')
      BY <1>4, <1>5, <2>1, <2>3
    <3> QED BY <2>1, <3>1 DEF Stands
  <2> QED BY <2>2, <2>3
<1>8. replaced' \subseteq Lists
  BY <1>1, <1>4
<1> QED BY <1>5, <1>6, <1>7, <1>8 DEF TakenInv, ReportInv

LEMMA WatchNextKeeps ==
    ASSUME WatchType, RunsType, RunInv, TakenInv, ReportInv, WatchNext,
           UNCHANGED <<runs, reports>>
    PROVE  WatchType' /\ TakenInv' /\ ReportInv'
<1>1. ASSUME UNCHANGED <<lists, appended, replaced>> PROVE TakenInv' /\ ReportInv'
  BY <1>1 DEF TakenInv, Taken, Current, ReportInv, Stands
<1>2. sources \in Seq([type : Types, list : Lists])
  BY WatchlistsAssumption DEF WatchType
<1>3. CASE runAll
  <2>1. PICK i \in DOMAIN sources, page \in Pages :
           feed' = [at |-> i, page |-> page, part |-> 1]
    BY <1>3 DEF runAll
  <2>2. UNCHANGED <<sources, lists, appended, replaced>>
    BY <1>3 DEF runAll
  <2>3. WatchType'
    BY <2>1, <2>2 DEF WatchType
  <2> QED BY <1>1, <2>2, <2>3
<1>4. CASE Install
  <2> DEFINE l == sources[feed.at].list
             keys == Entries(sources[feed.at].type, feed.page)
  <2>1. /\ feed.at \in DOMAIN sources /\ feed.page \in Pages
        /\ AddList(l, keys) /\ feed' = NoAnswer /\ UNCHANGED <<sources, appended>>
        /\ sources[feed.at].type # "misp"
    BY <1>4 DEF Install, WatchType
  <2>2. sources[feed.at] \in [type : Types, list : Lists]
    <3>1. feed.at \in DOMAIN sources
      BY <2>1
    <3> QED BY <1>2, <3>1, SeqElement
  <2>3. l \in Lists /\ keys \in SUBSET Keys
    BY <2>1, <2>2, EntriesTyped
  <2> HIDE DEF l, keys
  <2>4. /\ lists' \in [Lists -> [ver : Nat, keys : SUBSET Keys]]
        /\ replaced' \subseteq Lists /\ TakenInv' /\ ReportInv'
    BY <2>1, <2>3, NewObject
  <2>5. WatchType'
    BY <2>1, <2>4 DEF WatchType
  <2> QED BY <2>4, <2>5
<1>5. CASE InstallMisp
  <2> DEFINE l == MispLists[feed.part]
             keys == MispPart(feed.page, feed.part)
  <2>1. /\ feed.at \in DOMAIN sources /\ feed.page \in Pages /\ feed.part \in 1..4
        /\ feed' = IF feed.part = 4 THEN NoAnswer ELSE [feed EXCEPT !.part = @ + 1]
        /\ UNCHANGED <<sources, appended>>
        /\ AddList(l, keys) \/ UNCHANGED <<lists, replaced>>
    BY <1>5 DEF InstallMisp, WatchType
  <2>2. l \in Lists /\ keys \in SUBSET Keys
    BY <2>1, EntriesTyped, WatchlistsAssumption
  <2> HIDE DEF l, keys
  <2>3. feed' # NoAnswer =>
           feed'.at \in DOMAIN sources' /\ feed'.page \in Pages /\ feed'.part \in 1..4
    <3>1. ASSUME feed' # NoAnswer
          PROVE  feed'.at \in DOMAIN sources' /\ feed'.page \in Pages /\ feed'.part \in 1..4
      <4>1. feed' = [feed EXCEPT !.part = feed.part + 1] /\ feed.part # 4
        BY <2>1, <3>1
      <4>2. feed'.at = feed.at /\ feed'.page = feed.page
        BY <4>1
      <4>3. feed'.part = feed.part + 1 \/ feed'.part = feed.part
        BY <4>1
      <4> QED BY <2>1, <4>1, <4>2, <4>3
    <3> QED BY <3>1
  <2>4. CASE AddList(l, keys)
    <3>1. /\ lists' \in [Lists -> [ver : Nat, keys : SUBSET Keys]]
          /\ replaced' \subseteq Lists /\ TakenInv' /\ ReportInv'
      BY <2>1, <2>2, <2>4, NewObject
    <3>2. WatchType'
      BY <2>1, <2>3, <3>1 DEF WatchType
    <3> QED BY <3>1, <3>2
  <2>5. CASE UNCHANGED <<lists, replaced>>
    <3>1. WatchType'
      BY <2>1, <2>3, <2>5 DEF WatchType
    <3> QED BY <1>1, <2>1, <2>5, <3>1
  <2> QED BY <2>1, <2>4, <2>5
<1>6. CASE PostList
  <2>1. PICK l \in Lists, keys \in Posts : AddList(l, keys)
    BY <1>6 DEF PostList
  <2>2. keys \in SUBSET Keys /\ UNCHANGED <<appended, sources, feed>>
    BY <1>6, WatchlistsAssumption DEF PostList
  <2>3. /\ lists' \in [Lists -> [ver : Nat, keys : SUBSET Keys]]
        /\ replaced' \subseteq Lists /\ TakenInv' /\ ReportInv'
    BY <2>1, <2>2, NewObject
  <2>4. WatchType'
    BY <2>2, <2>3 DEF WatchType
  <2> QED BY <2>3, <2>4
<1> QED BY <1>3, <1>4, <1>5, <1>6 DEF WatchNext

-----------------------------------------------------------------------------
(* The hook, a restart, the API and a response                             *)

LEMMA CountStays ==
    ASSUME CountInv, UNCHANGED <<counted, runCount, nextBook>>,
           \A q \in counted : runs'[q].book = runs[q].book /\ runs'[q].pc \in Active,
           \A b \in BookIds : Exists(b)' => Exists(b)
    PROVE  CountInv'
<1>1. /\ counted \subseteq RunIds
      /\ \A b \in BookIds : b >= nextBook => runCount[b] = 0
      /\ \A b \in BookIds : Exists(b) => runCount[b] = Cardinality(Counting(b))
  BY DEF CountInv, RunsCounted, Counting
<1>2. \A b \in BookIds : Counting(b)' = Counting(b)
  BY DEF Counting
<1>3. RunsCounted'
  BY <1>1, <1>2 DEF RunsCounted, Counting
<1> QED BY <1>1, <1>3 DEF CountInv, Active

\* What counted itself has started.
LEMMA CountedStarted ==
    ASSUME RunsType, FreshInv, CountInv, NEW q \in counted
    PROVE  q \in RunIds /\ q < nextRun /\ runs[q].pc \in Active
           /\ runs[q].book \in BookIds /\ runs[q].book < nextBook
<1>1. q \in RunIds /\ runs[q].pc \in Active
  BY DEF CountInv, Active
<1>2. runs[q] # NoRun
  BY <1>1 DEF NoRun, Active
<1>3. q < nextRun
  BY <1>1, <1>2 DEF FreshInv, RunsType, RunIds
<1> QED BY <1>1, <1>3 DEF FreshInv

LEMMA AlertKeeps ==
    ASSUME PlayInv, NEW a \in Alerts, OnAlert(a), UNCHANGED response
    PROVE  PlayInv'
<1> DEFINE start == ToStart(a)
           last == nextRun + Cardinality(start) - 1
<1>1. /\ WatchType /\ BooksType /\ RunsType /\ FreshInv /\ RunInv /\ CountInv
      /\ SendInv /\ TakenInv /\ ReportInv
  BY DEF PlayInv
<1>2. /\ start # {} /\ last <= MaxRuns /\ nextRun' = last + 1
      /\ UNCHANGED <<watch, books, nextBook, edit, execs, runCount, effects, counted,
                     reports, cascaded>>
  BY DEF OnAlert, bookTable
<1>3. PICK of \in [nextRun..last -> start] :
         runs' = [r \in RunIds |->
                    IF r \in nextRun..last
                      THEN [NoRun EXCEPT !.pc = "create", !.book = of[r],
                                         !.dry = books[of[r]].dry,
                                         !.actions = books[of[r]].actions]
                      ELSE runs[r]]
  BY DEF OnAlert
<1>4. \A b \in start : b \in BookIds /\ Exists(b)
  BY DEF ToStart
<1>5. Cardinality(start) \in Nat /\ Cardinality(start) > 0
  <2>1. 1 \in Int /\ MaxBooks \in Int
    BY ResponseAssumption
  <2>2. IsFiniteSet(BookIds)
    BY <2>1, FS_Interval DEF BookIds
  <2>3. IsFiniteSet(start)
    BY <1>4, <2>2, FS_Subset
  <2> QED BY <1>2, <2>3, FS_CardinalityType, FS_EmptySet
<1>6. /\ nextRun \in Nat /\ nextRun >= 1 /\ MaxRuns \in Nat
      /\ \A r \in RunIds : r \in Nat
  BY <1>1, ResponseAssumption DEF RunsType, RunIds
<1> HIDE DEF start
<1>7. last \in Nat /\ last >= nextRun
  BY <1>5, <1>6
<1> HIDE DEF last
<1>8. nextRun' \in 1..(MaxRuns + 1) /\ nextRun' > nextRun
  BY <1>2, <1>6, <1>7
<1>9. ASSUME NEW r \in RunIds, r \in nextRun..last
      PROVE  /\ runs'[r] \in RunRec /\ runs'[r].pc = "create"
             /\ runs'[r].results = << >> /\ ~runs'[r].failed
             /\ runs'[r].book \in BookIds /\ runs'[r].book < nextBook
             /\ execs[r] = NoRow /\ effects[r] = {} /\ r >= nextRun /\ r < nextRun'
  <2>1. of[r] \in BookIds /\ of[r] < nextBook
    BY <1>4, <1>9 DEF Exists
  <2> DEFINE p == books[of[r]]
             new == [NoRun EXCEPT !.pc = "create", !.book = of[r], !.dry = p.dry,
                                  !.actions = p.actions]
  <2>2. p \in Playbook /\ of[r] \in Nat
    BY <1>1, <2>1 DEF BooksType, BookIds
  <2>3. p.dry \in BOOLEAN /\ p.actions \in Seq(Action)
    BY <2>2 DEF Playbook
  <2> HIDE DEF p
  <2>4. /\ new.pc = "create" /\ new.results = << >> /\ new.failed = FALSE
        /\ new.book = of[r]
    BY DEF NoRun
  <2>5. new \in RunRec
    BY <2>2, <2>3, NoRunTyped DEF RunRec, RunPlaces
  <2>6. runs'[r] = new
    BY <1>3, <1>9 DEF p
  <2>7. r >= nextRun /\ r < nextRun'
    BY <1>2, <1>6, <1>7, <1>9
  <2>8. execs[r] = NoRow /\ effects[r] = {}
    BY <1>1, <2>7 DEF FreshInv
  <2> HIDE DEF new
  <2> QED BY <2>1, <2>4, <2>5, <2>6, <2>7, <2>8
<1>10. ASSUME NEW r \in RunIds, r \notin nextRun..last
       PROVE  Kept(r)
  BY <1>2, <1>3, <1>10 DEF Kept
<1>11. \A r \in RunIds : r < nextRun => r \notin nextRun..last
  BY <1>6, <1>7
<1>12. RunsType'
  <2>1. \A r \in RunIds : runs'[r] \in RunRec
    BY <1>1, <1>9, <1>10 DEF RunsType, Kept
  <2>2. runs' \in [RunIds -> RunRec]
    BY <1>3, <2>1
  <2> QED BY <1>1, <1>2, <1>8, <2>2 DEF RunsType
<1>13. FreshInv'
  <2>1. ASSUME NEW r \in RunIds, r >= nextRun'
        PROVE  runs'[r] = NoRun /\ execs'[r] = NoRow /\ effects'[r] = {}
    <3>1. r >= nextRun /\ r \notin nextRun..last
      BY <1>2, <1>6, <1>7, <1>8, <2>1
    <3> QED BY <1>1, <1>10, <3>1 DEF FreshInv, Kept
  <2>2. ASSUME NEW r \in RunIds, r < nextRun'
        PROVE  /\ runs'[r].pc # "none"
               /\ runs'[r].book \in BookIds /\ runs'[r].book < nextBook'
    <3>1. CASE r \in nextRun..last
      BY <1>2, <1>9, <3>1
    <3>2. CASE r \notin nextRun..last
      <4>1. r < nextRun
        BY <1>2, <1>6, <1>7, <2>2, <3>2
      <4> QED BY <1>1, <1>2, <1>10, <3>2, <4>1 DEF FreshInv, Kept
    <3> QED BY <3>1, <3>2
  <2> QED BY <2>1, <2>2 DEF FreshInv
<1>14. ASSUME NEW r \in RunIds PROVE (StepInv(r) /\ EffectInv(r) /\ RowInv(r))'
  <2>1. CASE r \in nextRun..last
    <3>1. /\ runs'[r] \in RunRec /\ runs'[r].pc = "create" /\ runs'[r].results = << >>
          /\ ~runs'[r].failed /\ execs'[r] = NoRow /\ effects'[r] = {}
      BY <1>2, <1>9, <2>1
    <3>2. Len(runs'[r].results) = 0 /\ Len(runs'[r].actions) \in Nat
      BY <3>1 DEF RunRec
    <3>3. StepInv(r)'
      BY <3>1, <3>2 DEF StepInv
    <3>4. EffectInv(r)'
      BY <3>1, <3>2 DEF EffectInv
    <3>5. RowInv(r)'
      BY <3>1 DEF RowInv, NoRow, Finals
    <3> QED BY <3>3, <3>4, <3>5
  <2>2. CASE r \notin nextRun..last
    <3>1. runs'[r] = runs[r] /\ execs'[r] = execs[r] /\ effects'[r] = effects[r]
      BY <1>10, <2>2 DEF Kept
    <3>2. StepInv(r) /\ EffectInv(r) /\ RowInv(r)
      BY <1>1 DEF RunInv
    <3>3. StepInv(r)'
      BY <3>1, <3>2 DEF StepInv, Current
    <3>4. EffectInv(r)'
      BY <3>1, <3>2 DEF EffectInv
    <3>5. RowInv(r)'
      BY <1>2, <3>1, <3>2 DEF RowInv, Status
    <3> QED BY <3>3, <3>4, <3>5
  <2> QED BY <2>1, <2>2
<1>15. RunInv'
  BY <1>14 DEF RunInv
<1>16. CountInv'
  <2>1. \A q \in counted : runs'[q].book = runs[q].book /\ runs'[q].pc \in Active
    <3>1. ASSUME NEW q \in counted
          PROVE  runs'[q].book = runs[q].book /\ runs'[q].pc \in Active
      <4>1. q \in RunIds /\ q < nextRun /\ runs[q].pc \in Active
        BY <1>1, CountedStarted
      <4> QED BY <1>10, <1>11, <4>1 DEF Kept
    <3> QED BY <3>1
  <2>2. \A b \in BookIds : Exists(b)' => Exists(b)
    BY <1>2 DEF Exists
  <2> QED BY <1>1, <1>2, <2>1, <2>2, CountStays
<1>17. TakenInv'
  <2>1. ASSUME NEW r \in RunIds PROVE Taken(r)'
    <3>1. CASE r \in nextRun..last
      BY <1>9, <3>1 DEF Taken
    <3>2. CASE r \notin nextRun..last
      <4>1. runs'[r] = runs[r] /\ Taken(r) /\ lists' = lists /\ replaced' = replaced
        BY <1>1, <1>2, <1>10, <3>2 DEF Kept, TakenInv, watch
      <4> QED BY <4>1 DEF Taken, Current
    <3> QED BY <3>1, <3>2
  <2> QED BY <2>1 DEF TakenInv
<1>18. WatchType' /\ ReportInv'
  BY <1>1, <1>2 DEF WatchType, ReportInv, Stands, watch
<1>19. BooksType' /\ SendInv'
  BY <1>1, <1>2 DEF BooksType, SendInv, response
<1> QED BY <1>12, <1>13, <1>15, <1>16, <1>17, <1>18, <1>19 DEF PlayInv

LEMMA RestartKeeps ==
    ASSUME PlayInv, Restart PROVE PlayInv'
<1>1. /\ WatchType /\ BooksType /\ RunsType /\ FreshInv /\ RunInv /\ CountInv
      /\ SendInv /\ TakenInv /\ ReportInv
  BY DEF PlayInv
<1>2. /\ runs' = [r \in RunIds |-> IF Alive(r) THEN [runs[r] EXCEPT !.pc = "over"]
                                                ELSE runs[r]]
      /\ edit' = NoEdit /\ trigger' = NoTrigger /\ feed' = NoAnswer /\ Load
      /\ UNCHANGED <<books, runCount, execs, nextBook, nextRun, effects, counted,
                     reports, cascaded, responses, queued, sources, appended>>
  BY DEF Restart, WatchRestart
<1>3. ASSUME NEW r \in RunIds
      PROVE  /\ runs'[r] \in RunRec /\ Carries(r)
             /\ runs'[r].results = runs[r].results /\ runs'[r].failed = runs[r].failed
             /\ runs'[r].pc = IF Alive(r) THEN "over" ELSE runs[r].pc
             /\ ~Alive(r) => runs'[r] = runs[r]
  <2>1. runs[r] \in RunRec
    BY <1>1 DEF RunsType
  <2>2. CASE Alive(r)
    <3> DEFINE new == [runs[r] EXCEPT !.pc = "over"]
    <3>1. /\ new \in RunRec /\ new.pc = "over" /\ new.results = runs[r].results
          /\ new.failed = runs[r].failed /\ new.book = runs[r].book
          /\ new.dry = runs[r].dry /\ new.actions = runs[r].actions
      BY <2>1 DEF RunRec, RunPlaces
    <3>2. runs'[r] = new
      BY <1>2, <2>2
    <3> HIDE DEF new
    <3> QED BY <2>2, <3>1, <3>2 DEF Carries
  <2>3. CASE ~Alive(r)
    <3>1. runs'[r] = runs[r]
      BY <1>2, <2>3
    <3> QED BY <2>1, <2>3, <3>1 DEF Carries
  <2> QED BY <2>2, <2>3
<1>4. RunsType'
  <2>1. runs' \in [RunIds -> RunRec]
    BY <1>2, <1>3
  <2> QED BY <1>1, <1>2, <2>1 DEF RunsType
<1>5. \A r \in RunIds : runs'[r].pc \notin {"create", "count", "act", "add", "append", "finish"}
  <2>1. ASSUME NEW r \in RunIds
        PROVE  runs'[r].pc \in {"none", "over"}
    BY <1>3 DEF Alive
  <2> QED BY <2>1
<1>6. FreshInv'
  <2>1. \A r \in RunIds : r >= nextRun => runs'[r] = NoRun
    <3>1. ~(NoRun.pc \notin {"none", "over"})
      BY DEF NoRun
    <3> QED BY <1>1, <1>3, <3>1 DEF FreshInv, Alive
  <2>2. \A r \in RunIds : r < nextRun =>
           /\ runs'[r].pc # "none"
           /\ runs'[r].book \in BookIds /\ runs'[r].book < nextBook
    BY <1>1, <1>3 DEF FreshInv, Carries
  <2> QED BY <1>1, <1>2, <2>1, <2>2 DEF FreshInv
<1>7. ASSUME NEW r \in RunIds PROVE (StepInv(r) /\ EffectInv(r) /\ RowInv(r))'
  <2>1. StepInv(r) /\ EffectInv(r) /\ RowInv(r)
    BY <1>1 DEF RunInv
  <2>2. /\ runs'[r].results = runs[r].results /\ runs'[r].failed = runs[r].failed
        /\ Carries(r) /\ (runs'[r].pc = "none" => runs[r].pc = "none")
        /\ execs'[r] = execs[r] /\ effects'[r] = effects[r] /\ cascaded' = cascaded
    <3>1. runs'[r].pc = "none" => runs[r].pc = "none"
      BY <1>3
    <3>2. UNCHANGED <<execs, effects, cascaded>>
      BY <1>2
    <3> QED BY <1>3, <3>1, <3>2
  <2>3. StepInv(r)'
    BY <1>5, <2>1, <2>2 DEF StepInv, Carries
  <2>4. EffectInv(r)'
    BY <2>1, <2>2 DEF EffectInv, Carries
  <2>5. Status(r)' = Status(r)
    BY <2>2 DEF Status, Carries
  <2>6. runs[r].pc = "over" => runs'[r].pc = "over"
    BY <1>3
  <2>7. RowInv(r)'
    BY <1>5, <2>1, <2>2, <2>5, <2>6 DEF RowInv, Carries
  <2> QED BY <2>3, <2>4, <2>7
<1>8. RunInv'
  BY <1>7 DEF RunInv
<1>9. CountInv'
  <2>1. \A q \in counted : runs'[q].book = runs[q].book /\ runs'[q].pc \in Active
    <3>1. ASSUME NEW q \in counted
          PROVE  runs'[q].book = runs[q].book /\ runs'[q].pc \in Active
      <4>1. q \in RunIds /\ runs[q].pc \in Active
        BY <1>1, CountedStarted
      <4> QED BY <1>3, <4>1 DEF Carries, Active
    <3> QED BY <3>1
  <2>2. \A b \in BookIds : Exists(b)' => Exists(b)
    BY <1>2 DEF Exists
  <2> QED BY <1>1, <1>2, <2>1, <2>2, CountStays
<1>10. TakenInv'
  BY <1>5 DEF TakenInv, Taken
<1>11. lists' = [l \in Lists |-> [ver |-> lists[l].ver + 1, keys |-> Loaded(l)]]
       /\ replaced' = {}
  BY <1>2 DEF Load
<1>12. \A l \in Lists : lists[l].ver \in Nat /\ Loaded(l) \subseteq Keys
  <2>1. \A l \in Lists : lists[l].ver \in Nat
    BY <1>1 DEF WatchType
  <2>2. \A l \in Lists : appended[l] \subseteq Keys /\ Shipped[l] \subseteq Keys
    BY <1>1, WatchlistsAssumption DEF WatchType
  <2> QED BY <2>1, <2>2, RereadTyped DEF Loaded
<1>13. WatchType'
  <2>1. lists' \in [Lists -> [ver : Nat, keys : SUBSET Keys]]
    BY <1>11, <1>12
  <2> QED BY <1>1, <1>2, <1>11, <2>1 DEF WatchType
<1>14. ASSUME NEW rep \in reports PROVE Stands(rep)'
  <2>1. Stands(rep) /\ rep.list \in Lists /\ rep.ver \in Nat
    BY <1>1 DEF ReportInv, Report
  <2>2. lists'[rep.list].ver = lists[rep.list].ver + 1 /\ lists[rep.list].ver \in Nat
        /\ lists'[rep.list].keys = Loaded(rep.list)
    BY <1>11, <1>12, <2>1
  <2>3. rep.ver < lists'[rep.list].ver
    BY <2>1, <2>2 DEF Stands
  <2>4. Shipped[rep.list] = {} /\ rep.key \in appended[rep.list] /\ rep.key \notin WithColon
           => rep.key \in Loaded(rep.list)
    BY DEF Loaded, Reread
  <2> QED BY <1>2, <2>1, <2>2, <2>3, <2>4 DEF Stands
<1>15. ReportInv'
  BY <1>1, <1>2, <1>14 DEF ReportInv
<1>16. BooksType'
  BY <1>1, <1>2 DEF BooksType
<1>17. SendInv'
  BY <1>1, <1>2 DEF SendInv
<1> QED BY <1>4, <1>6, <1>8, <1>9, <1>10, <1>13, <1>15, <1>16, <1>17 DEF PlayInv

\* Steps that leave the runs alone.
LEMMA RunsStay ==
    ASSUME RunInv, UNCHANGED <<runs, execs, effects, cascaded>> PROVE RunInv'
<1>1. ASSUME NEW r \in RunIds PROVE (StepInv(r) /\ EffectInv(r) /\ RowInv(r))'
  <2>1. StepInv(r) /\ EffectInv(r) /\ RowInv(r)
    BY DEF RunInv
  <2>2. StepInv(r)'
    BY <2>1 DEF StepInv, Current
  <2>3. EffectInv(r)'
    BY <2>1 DEF EffectInv
  <2>4. RowInv(r)'
    BY <2>1 DEF RowInv, Status
  <2> QED BY <2>2, <2>3, <2>4
<1> QED BY <1>1 DEF RunInv

LEMMA WatchStays ==
    ASSUME WatchType, TakenInv, ReportInv,
           UNCHANGED <<sources, lists, appended, feed, replaced, runs, reports>>
    PROVE  WatchType' /\ TakenInv' /\ ReportInv'
<1>1. WatchType'
  BY DEF WatchType
<1>2. TakenInv'
  BY DEF TakenInv, Taken, Current
<1>3. ReportInv'
  BY DEF ReportInv, Stands
<1> QED BY <1>1, <1>2, <1>3

LEMMA PatchedTyped ==
    ASSUME NEW book \in Playbook, NEW p \in Patches
    PROVE  Patched(book, p) \in Playbook
<1>1. /\ "enabled" \in DOMAIN p => p.enabled \in BOOLEAN
      /\ "dry" \in DOMAIN p => p.dry \in BOOLEAN
      /\ "trigger" \in DOMAIN p => p.trigger \in Triggers
      /\ "actions" \in DOMAIN p => p.actions \in Seq(Action)
  BY ResponseAssumption
<1> DEFINE e == IF "enabled" \in DOMAIN p THEN p.enabled ELSE book.enabled
           d == IF "dry" \in DOMAIN p THEN p.dry ELSE book.dry
           t == IF "trigger" \in DOMAIN p THEN p.trigger ELSE book.trigger
           s == IF "actions" \in DOMAIN p THEN p.actions ELSE book.actions
<1>2. /\ book.enabled \in BOOLEAN /\ book.dry \in BOOLEAN
      /\ book.trigger \in Triggers /\ book.actions \in Seq(Action)
  BY DEF Playbook
<1>3. e \in BOOLEAN /\ d \in BOOLEAN /\ t \in Triggers /\ s \in Seq(Action)
  BY <1>1, <1>2
<1>4. Patched(book, p) = [enabled |-> e, dry |-> d, trigger |-> t, actions |-> s]
  BY DEF Patched
<1> HIDE DEF e, d, t, s
<1> QED BY <1>3, <1>4 DEF Playbook

LEMMA BookApiKeeps ==
    ASSUME PlayInv, BookApi, UNCHANGED response PROVE PlayInv'
<1>1. /\ WatchType /\ BooksType /\ RunsType /\ FreshInv /\ RunInv /\ CountInv
      /\ SendInv /\ TakenInv /\ ReportInv
  BY DEF PlayInv
<1>2. UNCHANGED <<sources, lists, appended, feed, replaced, runs, nextRun,
                  effects, counted, reports>>
  BY DEF BookApi
<1>3. WatchType' /\ TakenInv' /\ ReportInv' /\ SendInv'
  BY <1>1, <1>2, WatchStays DEF SendInv, response
<1>4. \A q \in counted : /\ runs'[q].book = runs[q].book /\ runs'[q].pc \in Active
                         /\ q \in RunIds /\ runs[q].book < nextBook
  BY <1>1, <1>2, CountedStarted
<1>5. /\ books \in [BookIds -> Playbook] /\ runCount \in [BookIds -> Nat]
      /\ nextBook \in 1..(MaxBooks + 1) /\ (edit # NoEdit => edit.book \in Playbook)
      /\ MaxBooks \in Nat /\ \A b \in BookIds : b \in Nat
  BY <1>1, ResponseAssumption DEF BooksType, BookIds
<1>6. CASE Create
  <2>1. PICK d \in Drafts : CreatePlaybook(d)
    BY <1>6 DEF Create
  <2>2. /\ nextBook <= MaxBooks /\ UNCHANGED <<edit, runCount, execs, cascaded>>
        /\ books' = [books EXCEPT ![nextBook] = d] /\ nextBook' = nextBook + 1
        /\ d \in Playbook
    BY <1>6, <2>1, ResponseAssumption DEF Create, CreatePlaybook
  <2>3. BooksType'
    <3>1. books' \in [BookIds -> Playbook] /\ runCount' \in [BookIds -> Nat]
      BY <1>5, <2>2
    <3>2. nextBook' \in 1..(MaxBooks + 1)
      BY <1>5, <2>2
    <3>3. edit' # NoEdit => edit'.book \in Playbook
      BY <1>5, <2>2
    <3> QED BY <3>1, <3>2, <3>3 DEF BooksType
  <2>4. RunInv' /\ RunsType'
    BY <1>1, <1>2, <2>2, RunsStay DEF RunsType
  <2>5. FreshInv'
    <3>1. ASSUME NEW r \in RunIds, runs[r].book \in BookIds, runs[r].book < nextBook
          PROVE  runs[r].book < nextBook'
      BY <1>5, <2>2, <3>1
    <3> QED BY <1>1, <1>2, <2>2, <3>1 DEF FreshInv
  <2>6. CountInv'
    <3>1. \A b \in BookIds : Counting(b)' = Counting(b)
      BY <1>2 DEF Counting
    <3>2. /\ counted \subseteq RunIds
          /\ \A b \in BookIds : b >= nextBook => runCount[b] = 0
          /\ \A b \in BookIds : Exists(b) => runCount[b] = Cardinality(Counting(b))
      BY <1>1 DEF CountInv, RunsCounted, Counting
    <3>3. ASSUME NEW b \in BookIds, Exists(b)'
          PROVE  runCount[b] = Cardinality(Counting(b))
      <4>1. CASE b = nextBook
        <5>1. Counting(b) = {}
          BY <1>4, <1>5, <4>1 DEF Counting
        <5>2. runCount[b] = 0
          BY <1>5, <3>2, <4>1
        <5> QED BY <5>1, <5>2, FS_EmptySet
      <4>2. CASE b # nextBook
        <5>1. b < nextBook /\ books[b] # NoBook
          BY <1>5, <2>2, <3>3, <4>2 DEF Exists
        <5> QED BY <3>2, <5>1 DEF Exists
      <4> QED BY <4>1, <4>2
    <3>4. RunsCounted'
      BY <2>2, <3>1, <3>3 DEF RunsCounted, Counting
    <3>5. \A b \in BookIds : b >= nextBook' => runCount'[b] = 0
      BY <1>5, <2>2, <3>2
    <3> QED BY <1>2, <1>4, <3>2, <3>4, <3>5 DEF CountInv, Active
  <2> QED BY <1>3, <2>3, <2>4, <2>5, <2>6 DEF PlayInv
<1>7. CASE UpdateWrite
  <2>1. /\ edit # NoEdit /\ edit' = NoEdit
        /\ UNCHANGED <<nextBook, execs, cascaded, runCount>>
        /\ books' = IF Exists(edit.id) THEN [books EXCEPT ![edit.id] = edit.book] ELSE books
    BY <1>7 DEF UpdateWrite, UpdatePlaybook
  <2>2. BooksType'
    BY <1>5, <2>1 DEF BooksType
  <2>3. RunInv' /\ RunsType' /\ FreshInv'
    BY <1>1, <1>2, <2>1, RunsStay DEF RunsType, FreshInv
  <2>4. \A b \in BookIds : Exists(b)' => Exists(b)
    <3>1. ASSUME NEW b \in BookIds, Exists(b)' PROVE Exists(b)
      <4>1. CASE b = edit.id
        BY <2>1, <3>1, <4>1 DEF Exists
      <4>2. CASE b # edit.id
        <5>1. books'[b] = books[b]
          BY <1>5, <2>1, <4>2
        <5> QED BY <2>1, <3>1, <5>1 DEF Exists
      <4> QED BY <4>1, <4>2
    <3> QED BY <3>1
  <2>5. CountInv'
    BY <1>1, <1>2, <1>4, <2>1, <2>4, CountStays
  <2> QED BY <1>3, <2>2, <2>3, <2>5 DEF PlayInv
<1>8. ASSUME NEW b \in BookIds, UpdateRead(b) PROVE PlayInv'
  <2>1. PICK p \in Patches :
           edit' = [id |-> b, book |-> Patched(books[b], p), count |-> runCount[b]]
    BY <1>8 DEF UpdateRead
  <2>2. UNCHANGED <<books, nextBook, runCount, execs, cascaded>>
    BY <1>8 DEF UpdateRead
  <2>3. edit'.book \in Playbook
    BY <1>5, <2>1, PatchedTyped
  <2>4. BooksType'
    BY <1>5, <2>2, <2>3 DEF BooksType
  <2>5. RunInv' /\ RunsType' /\ FreshInv'
    BY <1>1, <1>2, <2>2, RunsStay DEF RunsType, FreshInv
  <2>6. CountInv'
    <3>1. \A c \in BookIds : Exists(c)' => Exists(c)
      BY <2>2 DEF Exists
    <3> QED BY <1>1, <1>2, <1>4, <2>2, <3>1, CountStays
  <2> QED BY <1>3, <2>4, <2>5, <2>6 DEF PlayInv
<1>9. ASSUME NEW b \in BookIds, Delete(b) PROVE PlayInv'
  <2> DEFINE gone == {r \in RunIds : runs[r].book = b /\ execs[r] # NoRow}
  <2>1. /\ books' = [books EXCEPT ![b] = NoBook]
        /\ runCount' = [runCount EXCEPT ![b] = 0]
        /\ execs' = [r \in RunIds |-> IF r \in gone THEN NoRow ELSE execs[r]]
        /\ cascaded' = cascaded \cup gone
        /\ UNCHANGED <<nextBook, edit>> /\ Exists(b)
    BY <1>9 DEF Delete, DeletePlaybook
  <2> HIDE DEF gone
  <2>2. BooksType'
    BY <1>5, <2>1, NoRunTyped DEF BooksType
  <2>3. ASSUME NEW r \in RunIds
        PROVE  \/ execs'[r] = NoRow /\ r \in cascaded'
               \/ execs'[r] = execs[r] /\ (r \in cascaded => r \in cascaded')
    BY <2>1
  <2>4. RunsType'
    <3>1. \A r \in RunIds : execs[r] \in ExecRow /\ NoRow \in ExecRow
      BY <1>1, NoRunTyped DEF RunsType
    <3>2. execs' \in [RunIds -> ExecRow]
      BY <2>1, <3>1
    <3> QED BY <1>1, <1>2, <3>2 DEF RunsType
  <2>5. FreshInv'
    <3>1. \A r \in RunIds : execs[r] = NoRow => execs'[r] = NoRow
      BY <2>3
    <3> QED BY <1>1, <1>2, <2>1, <3>1 DEF FreshInv
  <2>6. RunInv'
    <3>1. ASSUME NEW r \in RunIds PROVE (StepInv(r) /\ EffectInv(r) /\ RowInv(r))'
      <4>1. StepInv(r) /\ EffectInv(r) /\ RowInv(r)
        BY <1>1 DEF RunInv
      <4>2. runs' = runs /\ effects' = effects
        BY <1>2
      <4>3. StepInv(r)'
        BY <4>1, <4>2 DEF StepInv, Current
      <4>4. EffectInv(r)'
        BY <4>1, <4>2 DEF EffectInv
      <4>5. Status(r)' = Status(r)
        BY <4>2 DEF Status
      <4>6. CASE execs'[r] = NoRow /\ r \in cascaded'
        <5>1. execs'[r].status \notin Finals
          BY <4>6 DEF NoRow, Finals
        <5> QED BY <4>3, <4>4, <4>6, <5>1 DEF RowInv
      <4>7. CASE execs'[r] = execs[r] /\ (r \in cascaded => r \in cascaded')
        <5>1. runs'[r] = runs[r] /\ effects'[r] = effects[r]
          BY <4>2
        <5> QED BY <4>1, <4>3, <4>4, <4>5, <4>7, <5>1 DEF RowInv
      <4> QED BY <2>3, <4>6, <4>7
    <3> QED BY <3>1 DEF RunInv
  <2>7. CountInv'
    <3>1. \A c \in BookIds : Counting(c)' = Counting(c)
      BY <1>2 DEF Counting
    <3>2. /\ counted \subseteq RunIds
          /\ \A c \in BookIds : c >= nextBook => runCount[c] = 0
          /\ \A c \in BookIds : Exists(c) => runCount[c] = Cardinality(Counting(c))
      BY <1>1 DEF CountInv, RunsCounted, Counting
    <3>3. ~Exists(b)' /\ \A c \in BookIds \ {b} : Exists(c)' => Exists(c)
      BY <1>5, <2>1 DEF Exists
    <3>4. /\ runCount'[b] = 0
          /\ \A c \in BookIds \ {b} : runCount'[c] = runCount[c]
      BY <1>5, <2>1
    <3>5. RunsCounted'
      BY <3>1, <3>2, <3>3, <3>4 DEF RunsCounted, Counting
    <3>6. \A c \in BookIds : c >= nextBook' => runCount'[c] = 0
      BY <2>1, <3>2, <3>4
    <3> QED BY <1>2, <1>4, <3>2, <3>5, <3>6 DEF CountInv, Active
  <2> QED BY <1>3, <2>2, <2>4, <2>5, <2>6, <2>7 DEF PlayInv
<1> QED BY <1>6, <1>7, <1>8, <1>9 DEF BookApi

LEMMA TriggerKeeps ==
    ASSUME PlayInv, TriggerStep PROVE PlayInv'
<1>1. /\ WatchType /\ BooksType /\ RunsType /\ FreshInv /\ RunInv /\ CountInv
      /\ SendInv /\ TakenInv /\ ReportInv
  BY DEF PlayInv
<1>2. UNCHANGED <<sources, lists, appended, feed, replaced, books, runCount, execs, runs,
                  nextBook, nextRun, edit, effects, counted, reports, cascaded>>
  BY DEF TriggerStep, play
<1>3. WatchType' /\ TakenInv' /\ ReportInv' /\ RunInv'
  BY <1>1, <1>2, WatchStays, RunsStay
<1>4. BooksType' /\ RunsType' /\ FreshInv'
  BY <1>1, <1>2 DEF BooksType, RunsType, FreshInv
<1>5. CountInv'
  <2>1. \A q \in counted : runs'[q].book = runs[q].book /\ runs'[q].pc \in Active
    BY <1>1, <1>2, CountedStarted
  <2>2. \A b \in BookIds : Exists(b)' => Exists(b)
    BY <1>2 DEF Exists
  <2> QED BY <1>1, <1>2, <2>1, <2>2, CountStays
<1>6. responses \in [TriggerIds -> {"none", "refused", "pending", "sent"}]
  BY <1>1 DEF SendInv
<1>7. \A t \in TriggerIds : /\ responses[t] = "sent" => t \in queued
                            /\ t \in queued => responses[t] \in {"pending", "sent"}
  BY <1>1 DEF SendInv
<1>8. SendInv'
  <2>1. ASSUME NEW t \in TriggerIds, TriggerInsert(t) PROVE SendInv'
    <3>1. responses[t] = "none" /\ trigger = NoTrigger /\ queued' = queued
      BY <2>1 DEF TriggerInsert, NewTrigger
    <3>2. t \notin queued
      BY <1>7, <3>1
    <3>3. CASE /\ responses' = [responses EXCEPT ![t] = "pending"]
               /\ trigger' = [id |-> t, pc |-> "send"]
      <4>1. /\ responses' \in [TriggerIds -> {"none", "refused", "pending", "sent"}]
            /\ responses'[t] = "pending"
            /\ \A u \in TriggerIds \ {t} : responses'[u] = responses[u]
        BY <1>6, <3>3
      <4>2. trigger' \in [id : TriggerIds, pc : {"send", "mark"}]
            /\ trigger'.id = t /\ trigger'.pc = "send"
        BY <3>3
      <4> QED BY <1>7, <3>1, <3>2, <4>1, <4>2 DEF SendInv
    <3>4. CASE responses' = [responses EXCEPT ![t] = "refused"] /\ trigger' = trigger
      <4>1. /\ responses' \in [TriggerIds -> {"none", "refused", "pending", "sent"}]
            /\ responses'[t] = "refused"
            /\ \A u \in TriggerIds \ {t} : responses'[u] = responses[u]
        BY <1>6, <3>4
      <4> QED BY <1>7, <3>1, <3>2, <3>4, <4>1 DEF SendInv
    <3> QED BY <2>1, <3>3, <3>4 DEF TriggerInsert
  <2>2. CASE TriggerSend
    <3>1. /\ trigger.pc = "send" /\ queued' = queued \cup {trigger.id}
          /\ trigger' = [trigger EXCEPT !.pc = "mark"] /\ responses' = responses
      BY <2>2 DEF TriggerSend
    <3>2. trigger.id \in TriggerIds /\ responses[trigger.id] = "pending"
      BY <1>1, <3>1 DEF SendInv, NoTrigger
    <3>3. trigger \in [id : TriggerIds, pc : {"send", "mark"}]
      BY <1>1, <3>1 DEF SendInv, NoTrigger
    <3>4. trigger' \in [id : TriggerIds, pc : {"send", "mark"}]
          /\ trigger'.id = trigger.id
      BY <3>1, <3>3
    <3> QED BY <1>6, <1>7, <3>1, <3>2, <3>4 DEF SendInv
  <2>3. CASE TriggerMark
    <3>1. /\ trigger.pc = "mark" /\ trigger' = NoTrigger /\ queued' = queued
          /\ \/ responses' = [responses EXCEPT ![trigger.id] = "sent"]
             \/ responses' = responses
      BY <2>3 DEF TriggerMark
    <3>2. trigger.id \in TriggerIds /\ trigger.id \in queued
      BY <1>1, <3>1 DEF SendInv, NoTrigger
    <3> QED BY <1>6, <1>7, <3>1, <3>2 DEF SendInv
  <2> QED BY <2>1, <2>2, <2>3 DEF TriggerStep
<1> QED BY <1>3, <1>4, <1>5, <1>8 DEF PlayInv

-----------------------------------------------------------------------------
(* The theorems                                                            *)

LEMMA PlayStarts == Init => PlayInv
<1> SUFFICES ASSUME Init PROVE PlayInv
  OBVIOUS
<1>1. /\ sources \in Configs /\ appended = [l \in Lists |-> {}]
      /\ lists = [l \in Lists |-> [ver |-> 1, keys |-> Reread(Shipped[l])]]
      /\ feed = NoAnswer /\ replaced = {}
  BY DEF Init, WatchInit
<1>2. /\ books = [b \in BookIds |-> IF b \in DOMAIN Books THEN Books[b] ELSE NoBook]
      /\ nextBook = Len(Books) + 1 /\ runCount = [b \in BookIds |-> 0]
      /\ execs = [r \in RunIds |-> NoRow] /\ runs = [r \in RunIds |-> NoRun]
      /\ nextRun = 1 /\ edit = NoEdit /\ effects = [r \in RunIds |-> {}]
      /\ counted = {} /\ reports = {} /\ cascaded = {}
  BY DEF Init, PlayInit
<1>3. responses = [t \in TriggerIds |-> "none"] /\ trigger = NoTrigger /\ queued = {}
  BY DEF Init
<1>4. WatchType
  <2>1. \A l \in Lists : Reread(Shipped[l]) \subseteq Keys
    BY WatchlistsAssumption, RereadTyped
  <2>2. lists \in [Lists -> [ver : Nat, keys : SUBSET Keys]]
    BY <1>1, <2>1
  <2> QED BY <1>1, <2>2 DEF WatchType
<1>5. BooksType
  <2>1. \A b \in DOMAIN Books : Books[b] \in Playbook
    BY ResponseAssumption, SeqElement
  <2>2. books \in [BookIds -> Playbook]
    BY <1>2, <2>1, NoRunTyped
  <2>3. nextBook \in 1..(MaxBooks + 1)
    BY <1>2, ResponseAssumption
  <2>4. runCount \in [BookIds -> Nat]
    BY <1>2
  <2> QED BY <1>2, <2>2, <2>3, <2>4 DEF BooksType
<1>6. RunsType
  <2>1. nextRun \in 1..(MaxRuns + 1)
    BY <1>2, ResponseAssumption
  <2>2. /\ runs \in [RunIds -> RunRec] /\ execs \in [RunIds -> ExecRow]
        /\ effects \in [RunIds -> SUBSET Nat]
    BY <1>2, NoRunTyped
  <2> QED BY <2>1, <2>2 DEF RunsType
<1>7. FreshInv
  <2>1. \A r \in RunIds : ~(r < nextRun)
    BY <1>2 DEF RunIds
  <2> QED BY <1>2, <2>1 DEF FreshInv
<1>8. RunInv
  <2>1. ASSUME NEW r \in RunIds PROVE StepInv(r) /\ EffectInv(r) /\ RowInv(r)
    <3>1. /\ runs[r].pc = "none" /\ runs[r].results = << >> /\ runs[r].actions = << >>
          /\ ~runs[r].failed /\ execs[r].status = "none" /\ effects[r] = {}
      BY <1>2 DEF NoRun, NoRow
    <3>2. Len(runs[r].results) = 0 /\ Len(runs[r].actions) = 0
      BY <3>1
    <3>3. StepInv(r)
      BY <3>1, <3>2 DEF StepInv
    <3>4. EffectInv(r)
      BY <3>1, <3>2 DEF EffectInv
    <3>5. RowInv(r)
      BY <3>1 DEF RowInv, Finals
    <3> QED BY <3>3, <3>4, <3>5
  <2> QED BY <2>1 DEF RunInv
<1>9. CountInv
  <2>1. \A b \in BookIds : Counting(b) = {}
    BY <1>2 DEF Counting
  <2>2. RunsCounted
    BY <1>2, <2>1, FS_EmptySet DEF RunsCounted, Counting
  <2> QED BY <1>2, <2>2 DEF CountInv
<1>10. SendInv
  BY <1>3 DEF SendInv
<1>11. TakenInv
  BY <1>2 DEF TakenInv, Taken, NoRun
<1>12. ReportInv
  BY <1>2 DEF ReportInv
<1> QED BY <1>4, <1>5, <1>6, <1>7, <1>8, <1>9, <1>10, <1>11, <1>12 DEF PlayInv

LEMMA RunKeeps ==
    ASSUME PlayInv, NEW r \in RunIds, Run(r) PROVE PlayInv'
<1>1. /\ WatchType /\ BooksType /\ RunsType /\ FreshInv /\ RunInv /\ CountInv
      /\ SendInv /\ TakenInv /\ ReportInv
  BY DEF PlayInv
<1>2. RunStep(r) /\ UNCHANGED response
  BY DEF Run
<1>3. Stepped(r) /\ RunInv'
  BY <1>1, <1>2, RunStepKeeps
<1>4. RunsType' /\ FreshInv'
  BY <1>1, <1>2, <1>3, BooksKeep DEF Stepped
<1>5. CountInv' /\ BooksType'
  BY <1>1, <1>2, <1>3, RunStepCounts
<1>6. WatchType' /\ TakenInv' /\ ReportInv'
  BY <1>1, <1>2, <1>3, RunStepWatch
<1>7. SendInv'
  BY <1>1, <1>2 DEF SendInv, response
<1> QED BY <1>3, <1>4, <1>5, <1>6, <1>7 DEF PlayInv

LEMMA FeedsKeep ==
    ASSUME PlayInv, WatchNext, UNCHANGED <<play, response>> PROVE PlayInv'
<1>1. /\ WatchType /\ BooksType /\ RunsType /\ FreshInv /\ RunInv /\ CountInv
      /\ SendInv /\ TakenInv /\ ReportInv
  BY DEF PlayInv
<1>2. UNCHANGED <<books, runCount, execs, runs, nextBook, nextRun, edit, effects,
                  counted, reports, cascaded, responses, trigger, queued>>
  BY DEF play, response
<1>3. WatchType' /\ TakenInv' /\ ReportInv'
  BY <1>1, <1>2, WatchNextKeeps
<1>4. RunInv'
  BY <1>1, <1>2, RunsStay
<1>5. BooksType' /\ RunsType' /\ FreshInv' /\ SendInv'
  BY <1>1, <1>2 DEF BooksType, RunsType, FreshInv, SendInv
<1>6. CountInv'
  <2>1. \A q \in counted : runs'[q].book = runs[q].book /\ runs'[q].pc \in Active
    BY <1>1, <1>2, CountedStarted
  <2>2. \A b \in BookIds : Exists(b)' => Exists(b)
    BY <1>2 DEF Exists
  <2> QED BY <1>1, <1>2, <2>1, <2>2, CountStays
<1> QED BY <1>3, <1>4, <1>5, <1>6 DEF PlayInv

LEMMA PlayStays == ASSUME PlayInv, UNCHANGED vars PROVE PlayInv'
<1>1. UNCHANGED <<sources, lists, appended, feed, replaced, books, runCount, execs, runs,
                  nextBook, nextRun, edit, effects, counted, reports, cascaded,
                  responses, trigger, queued>>
  BY DEF vars, watch, play, response
<1>2. /\ WatchType /\ BooksType /\ RunsType /\ FreshInv /\ RunInv /\ CountInv
      /\ SendInv /\ TakenInv /\ ReportInv
  BY DEF PlayInv
<1>3. WatchType' /\ TakenInv' /\ ReportInv' /\ RunInv'
  BY <1>1, <1>2, WatchStays, RunsStay
<1>4. BooksType' /\ RunsType' /\ FreshInv' /\ SendInv'
  BY <1>1, <1>2 DEF BooksType, RunsType, FreshInv, SendInv
<1>5. CountInv'
  <2>1. \A q \in counted : runs'[q].book = runs[q].book /\ runs'[q].pc \in Active
    BY <1>1, <1>2, CountedStarted
  <2>2. \A b \in BookIds : Exists(b)' => Exists(b)
    BY <1>1 DEF Exists
  <2> QED BY <1>1, <1>2, <2>1, <2>2, CountStays
<1> QED BY <1>3, <1>4, <1>5 DEF PlayInv

LEMMA PlayInvariant == Spec => []PlayInv
<1>1. PlayInv /\ [Next]_vars => PlayInv'
  <2> SUFFICES ASSUME PlayInv, [Next]_vars PROVE PlayInv'
    OBVIOUS
  <2>1. ASSUME NEW a \in Alerts, OnAlert(a) /\ UNCHANGED response PROVE PlayInv'
    BY <2>1, AlertKeeps
  <2>2. ASSUME NEW r \in RunIds, Run(r) PROVE PlayInv'
    BY <2>2, RunKeeps
  <2>3. CASE BookApi /\ UNCHANGED response
    BY <2>3, BookApiKeeps
  <2>4. CASE WatchNext /\ UNCHANGED <<play, response>>
    BY <2>4, FeedsKeep
  <2>5. CASE TriggerStep
    BY <2>5, TriggerKeeps
  <2>6. CASE Restart
    BY <2>6, RestartKeeps
  <2>7. CASE UNCHANGED vars
    BY <2>7, PlayStays
  <2> QED BY <2>1, <2>2, <2>3, <2>4, <2>5, <2>6, <2>7 DEF Next
<1> QED BY PlayStarts, <1>1, PTL DEF Spec

\* What the tables of playbooks, executions and responses say is what was done,
\* although statements fail, playbooks are changed and deleted under their runs,
\* and the process restarts between any two steps: a final status has a result for
\* every action carried out and an effect for every success (a mail apart), nothing
\* is done without a row, and a run_count counts the runs that counted themselves.
THEOREM TablesTellRuns == Spec => []Recorded
<1>1. PlayInv => Recorded
  <2> SUFFICES ASSUME PlayInv PROVE Recorded
    OBVIOUS
  <2>1. RunsType /\ RunInv /\ CountInv /\ SendInv
    BY DEF PlayInv
  <2>2. RunsCounted
    BY <2>1 DEF CountInv
  <2>3. ASSUME NEW r \in RunIds
        PROVE  LET row == execs[r]
                   n == Len(row.results)
                   Ok(i) == row.results[i] = "success"
               IN  /\ effects[r] # {} => row # NoRow \/ r \in cascaded
                   /\ row.status = "dry_run" => effects[r] = {}
                   /\ row.status \in {"success", "partial", "failed"} =>
                        /\ \A i \in 1..n : Ok(i) =>
                             \/ i \in effects[r]
                             \/ runs[r].actions[i].type = "notify_email"
                        /\ \A i \in effects[r] :
                             i <= n /\ (Ok(i) \/ runs[r].actions[i].type \in Requests)
                        /\ row.status = "failed" <=>
                             n > 0 /\ ~Ok(n) /\ ~runs[r].actions[n].cont
                        /\ row.status # "failed" => n = Len(runs[r].actions)
                        /\ row.status = "success" <=> \A i \in 1..n : Ok(i)
    <3> DEFINE row == execs[r]
               w == runs[r]
               n == Len(row.results)
               Ok(i) == row.results[i] = "success"
    <3>1. StepInv(r) /\ EffectInv(r) /\ RowInv(r)
      BY <2>1 DEF RunInv
    <3>2. effects[r] # {} => row # NoRow \/ r \in cascaded
      BY <3>1 DEF RowInv
    <3>3. ASSUME row.status \in Finals
          PROVE  /\ row.results = w.results /\ row.status = Status(r)
                 /\ w.failed \/ n = Len(w.actions)
      BY <3>1, <3>3 DEF RowInv
    <3>4. row.status = "dry_run" => effects[r] = {}
      <4>1. row.status = "dry_run" => w.dry
        BY <3>3 DEF Finals, Status
      <4> QED BY <3>1, <4>1 DEF EffectInv
    <3>5. ASSUME row.status \in {"success", "partial", "failed"}
          PROVE  /\ \A i \in 1..n : Ok(i) =>
                      i \in effects[r] \/ w.actions[i].type = "notify_email"
                 /\ \A i \in effects[r] :
                      i <= n /\ (Ok(i) \/ w.actions[i].type \in Requests)
                 /\ row.status = "failed" <=> n > 0 /\ ~Ok(n) /\ ~w.actions[n].cont
                 /\ row.status # "failed" => n = Len(w.actions)
                 /\ row.status = "success" <=> \A i \in 1..n : Ok(i)
      <4>1. /\ row.results = w.results /\ row.status = Status(r)
            /\ w.failed \/ n = Len(w.actions)
        BY <3>3, <3>5 DEF Finals
      <4>2. ~w.dry
        BY <3>5, <4>1 DEF Status
      <4>3. /\ row.status = "failed" <=> w.failed
            /\ row.status = "partial" <=>
                 ~w.failed /\ \E i \in DOMAIN w.results : w.results[i] = "failed"
        BY <3>5, <4>1, <4>2 DEF Status
      <4>4. /\ w.results \in Seq(Outcomes) /\ n \in Nat /\ DOMAIN w.results = 1..n
            /\ \A i \in 1..n : ~Ok(i) <=> w.results[i] = "failed"
        BY <2>1, <4>1, SeqElement DEF RunsType, RunRec, Outcomes
      <4>5. effects[r] \subseteq 1..n
        BY <3>1, <4>1 DEF EffectInv
      <4>6. \A i \in 1..n : Ok(i) => i \in effects[r] \/ w.actions[i].type = "notify_email"
        BY <3>1, <4>1, <4>2 DEF EffectInv
      <4>7. \A i \in effects[r] : i <= n /\ (Ok(i) \/ w.actions[i].type \in Requests)
        BY <3>1, <4>1, <4>4, <4>5 DEF EffectInv
      <4>8. w.failed <=> n > 0 /\ ~Ok(n) /\ ~w.actions[n].cont
        BY <3>1, <4>1, <4>4 DEF StepInv
      <4>9. row.status = "success" <=> \A i \in 1..n : Ok(i)
        BY <3>5, <4>1, <4>2, <4>3, <4>4, <4>8 DEF Status
      <4> QED BY <4>1, <4>3, <4>6, <4>7, <4>8, <4>9
    <3> QED BY <3>2, <3>4, <3>5
  <2>4. \A t \in TriggerIds : /\ responses[t] = "sent" => t \in queued
                              /\ t \in queued => responses[t] \in {"pending", "sent"}
    BY <2>1 DEF SendInv
  <2> QED BY <2>2, <2>3, <2>4 DEF Recorded, ResultsTold
<1> QED BY PlayInvariant, <1>1, PTL

\* What a playbook reported as added to a list, in the spelling that lookups make,
\* is found by the rules in each of its spellings, whatever feeds, requests, other
\* runs and restarts do, unless one of them took the list's place, its line was
\* not written, or its file does not keep the key.
THEOREM ReportsFound == Spec => []WatchedAsReported
<1>1. ASSUME PlayInv, NEW rep \in reports, Found(rep), Normal(rep.key) = rep.key,
             NEW key \in Asked(rep.key)
      PROVE  Match(rep.list, key)
  <2>1. rep.key \in lists[rep.list].keys
    BY <1>1 DEF PlayInv, ReportInv, Stands, Found
  <2>2. CASE rep.key = "net"
    <3>1. Normal(key) = "ip"
      BY <2>2 DEF Asked
    <3> QED BY <2>1, <2>2, <3>1 DEF Match
  <2>3. CASE rep.key # "net"
    <3>1. Normal(key) = rep.key
      BY <1>1, <2>3 DEF Asked
    <3> QED BY <2>1, <2>3, <3>1 DEF Match
  <2> QED BY <2>2, <2>3
<1>2. PlayInv => WatchedAsReported
  BY <1>1 DEF WatchedAsReported
<1> QED BY PlayInvariant, <1>2, PTL

(***************************************************************************)
(* The firewall                                                            *)
(***************************************************************************)
Chains == [INPUT : {"ACCEPT", "DROP"}, OUTPUT : {"ACCEPT", "DROP"}]

Ops    == OnTarget \cup OnHost \cup {"config_update", "none"}
Places == {"start", "check", "append", "record", "forget", "allow", "input",
           "output", "delete", "asleep", "done"}

Activities == [op : Ops, on : SUBSET Targets, at : Places]

USE DEF Places, Ops, OnTarget, OnHost

FirewallType ==
    /\ policy \in Chains
    /\ allowed \in Nat
    /\ run \in [Goroutines -> Activities]

\* The goroutine is between its first and its last call of iptables.
Isolating(g) == run[g].op = "isolate-host" /\ run[g].at \in {"allow", "input", "output"}
Releasing(g) == run[g].op = "unisolate-host" /\ run[g].at \in {"input", "output", "delete"}

Excuse == "ignored" \in mishaps

\* The lock, and what its holder has done so far.
LockInv ==
    \A g \in Goroutines :
        /\ Isolating(g) \/ Releasing(g) => isolationMu = g
        /\ Isolating(g) /\ run[g].at # "allow" => allowed > 0 \/ Excuse
        /\ Releasing(g) /\ run[g].at = "delete" => policy.OUTPUT # "DROP" \/ Excuse

FirewallInv == FirewallType /\ LockInv /\ Lifeline

LEMMA FirewallInit == ASSUME ResponseInit PROVE FirewallInv
  BY ActiveResponseAssumption
     DEF ResponseInit, FirewallInv, FirewallType, Chains, LockInv, Lifeline,
         Isolating, Releasing, Idle, Activities

\* What a goroutine does that leaves the other ones' places alone.
LEMMA GoToKeeps ==
    ASSUME FirewallType, NEW g \in Goroutines, NEW place \in Places, GoTo(g, place)
    PROVE  /\ run' \in [Goroutines -> Activities]
           /\ \A h \in Goroutines : h # g => run'[h] = run[h]
           /\ run'[g].op = run[g].op /\ run'[g].at = place
  BY DEF FirewallType, Activities, GoTo

LEMMA TimerKeeps ==
    ASSUME FirewallType, NEW g \in Goroutines, NEW op \in Ops,
           DoneWithTimer(g, op)
    PROVE  /\ run' \in [Goroutines -> Activities]
           /\ \A h \in Goroutines :
                 run'[h] = run[h] \/ run'[h].at \in {"done", "asleep"}
           /\ run'[g].at \in {"done", "asleep"}
<1> DEFINE done == [run[g] EXCEPT !.at = "done"]
           timer == [op |-> op, on |-> run[g].on, at |-> "asleep"]
<1>1. run \in [Goroutines -> Activities] /\ run[g] \in Activities
  BY DEF FirewallType
<1>2. /\ done \in Activities /\ done.at = "done"
      /\ timer \in Activities /\ timer.at = "asleep"
  BY <1>1 DEF Activities
<1>3. run' = [[run EXCEPT ![g] = done] EXCEPT ![Timer(g)] = timer]
  BY DEF DoneWithTimer
<1> HIDE DEF done, timer
<1> QED BY <1>1, <1>2, <1>3

\* Steps of commands that have nothing to do with isolation.
LEMMA OtherCommands ==
    ASSUME FirewallInv, NEW g \in Goroutines,
           \/ ConfigUpdate(g) \/ CheckSafelist(g) \/ AlreadyBlocked(g)
           \/ FirewallDrop(g) \/ FirewallUnblock(g) \/ ForgetBlock(g)
    PROVE  FirewallInv'
<1>1. /\ run[g].op \notin {"isolate-host", "unisolate-host"}
      /\ \E place \in Places : GoTo(g, place)
      /\ UNCHANGED <<policy, allowed, isolationMu>>
      /\ mishaps \subseteq mishaps'
  BY DEF ConfigUpdate, CheckSafelist, AlreadyBlocked, FirewallDrop,
         FirewallUnblock, ForgetBlock, At, Fails, Works, Ignores, hostVars
<1>2. PICK place \in Places : GoTo(g, place)
  BY <1>1
<1>3. FirewallType'
  BY <1>1, <1>2, GoToKeeps DEF FirewallInv, FirewallType
<1>4. LockInv' /\ Lifeline'
  BY <1>1, <1>2, GoToKeeps
     DEF FirewallInv, LockInv, Lifeline, Isolating, Releasing, Excuse
<1> QED BY <1>3, <1>4 DEF FirewallInv

LEMMA RecordBlockStep ==
    ASSUME FirewallInv, NEW g \in Goroutines, RecordBlock(g) PROVE FirewallInv'
<1>1. /\ DoneWithTimer(g, "firewall-unblock")
      /\ UNCHANGED <<policy, allowed, isolationMu, mishaps>>
  BY DEF RecordBlock, hostVars
<1>2. FirewallType'
  BY <1>1, TimerKeeps DEF FirewallInv, FirewallType
<1>3. LockInv' /\ Lifeline'
  BY <1>1, TimerKeeps
     DEF FirewallInv, LockInv, Lifeline, Isolating, Releasing, Excuse
<1> QED BY <1>2, <1>3 DEF FirewallInv

\* isolate-host: nobody else is between its calls of iptables.
LEMMA IsolateSteps ==
    ASSUME FirewallInv, NEW g \in Goroutines,
           Isolate(g) \/ AllowManager(g) \/ DropInput(g) \/ DropOutput(g)
    PROVE  FirewallInv'
<1> USE DEF FirewallInv
<1>1. CASE Isolate(g)
  <2>1. /\ isolationMu = NoOne /\ UNCHANGED <<policy, allowed, mishaps>>
        /\ \/ GoTo(g, "done") /\ UNCHANGED isolationMu
           \/ GoTo(g, "allow") /\ isolationMu' = g
    BY <1>1 DEF Isolate, Works, Fails, hostVars
  <2>2. FirewallType'
    BY <2>1, GoToKeeps DEF FirewallType
  <2>3. \A h \in Goroutines : ~Isolating(h) /\ ~Releasing(h)
    BY <2>1 DEF LockInv, NoOne, Goroutines
  <2>4. LockInv' /\ Lifeline'
    BY <2>1, <2>3, GoToKeeps DEF LockInv, Lifeline, Isolating, Releasing, Excuse
  <2> QED BY <2>2, <2>4
<1>2. CASE AllowManager(g)
  <2>1. /\ Isolating(g) /\ GoTo(g, "input") /\ UNCHANGED <<policy, isolationMu>>
        /\ \/ allowed' = allowed + 1 /\ UNCHANGED mishaps
           \/ UNCHANGED allowed /\ mishaps' = mishaps \cup {"ignored"}
    BY <1>2 DEF AllowManager, At, Isolating, Works, Fails, Ignores, hostVars
  <2>2. FirewallType'
    BY <2>1, GoToKeeps DEF FirewallType
  <2>3. LockInv' /\ Lifeline'
    BY <2>1, GoToKeeps
       DEF LockInv, Lifeline, Isolating, Releasing, Excuse, FirewallType
  <2> QED BY <2>2, <2>3
<1>3. CASE DropInput(g)
  <2>1. /\ Isolating(g) /\ run[g].at = "input" /\ run[g].op = "isolate-host"
        /\ UNCHANGED <<allowed, mishaps>> /\ policy'.OUTPUT = policy.OUTPUT
        /\ policy' \in Chains
        /\ \/ GoTo(g, "output") /\ UNCHANGED isolationMu
           \/ GoTo(g, "done")
    BY <1>3 DEF DropInput, At, Isolating, Works, Fails, hostVars, FirewallType, Chains
  <2>2. FirewallType'
    BY <2>1, GoToKeeps DEF FirewallType
  <2>3. \A h \in Goroutines : h # g => ~Isolating(h) /\ ~Releasing(h)
    BY <2>1 DEF LockInv
  <2>4. LockInv' /\ Lifeline'
    BY <2>1, <2>3, GoToKeeps DEF LockInv, Lifeline, Isolating, Releasing, Excuse
  <2> QED BY <2>2, <2>4
<1>4. CASE DropOutput(g)
  <2>1. /\ Isolating(g) /\ run[g].at = "output"
        /\ allowed' = allowed /\ mishaps \subseteq mishaps' /\ policy' \in Chains
        /\ GoTo(g, "done") \/ DoneWithTimer(g, "unisolate-host")
    BY <1>4 DEF DropOutput, At, Isolating, Works, Fails, hostVars, FirewallType, Chains
  <2>2. FirewallType'
    BY <2>1, GoToKeeps, TimerKeeps DEF FirewallType
  <2>3. \A h \in Goroutines : h # g => ~Isolating(h) /\ ~Releasing(h)
    BY <2>1 DEF LockInv
  <2>4. \A h \in Goroutines : ~Isolating(h)' /\ ~Releasing(h)'
    BY <2>1, <2>3, GoToKeeps, TimerKeeps DEF Isolating, Releasing
  <2>5. allowed > 0 \/ Excuse
    BY <2>1 DEF LockInv
  <2>6. LockInv' /\ Lifeline'
    BY <2>1, <2>4, <2>5 DEF LockInv, Lifeline, Excuse
  <2> QED BY <2>2, <2>6
<1> QED BY <1>1, <1>2, <1>3, <1>4

\* unisolate-host, and the timer that starts it.
LEMMA ReleaseSteps ==
    ASSUME FirewallInv, NEW g \in Goroutines,
           WakeUnisolate(g) \/ Unisolate(g) \/ Accept(g) \/ DeleteAllowRules(g)
    PROVE  FirewallInv'
<1> USE DEF FirewallInv
<1>1. CASE WakeUnisolate(g) \/ Unisolate(g)
  <2>1. /\ isolationMu = NoOne /\ UNCHANGED <<policy, allowed, mishaps>>
        /\ run[g].op = "unisolate-host"
        /\ \/ UNCHANGED isolationMu /\ (GoTo(g, "start") \/ GoTo(g, "done"))
           \/ isolationMu' = g /\ GoTo(g, "input")
    BY <1>1 DEF WakeUnisolate, Unisolate, At, hostVars
  <2>2. FirewallType'
    BY <2>1, GoToKeeps DEF FirewallType
  <2>3. \A h \in Goroutines : ~Isolating(h) /\ ~Releasing(h)
    BY <2>1 DEF LockInv, NoOne, Goroutines
  <2>4. LockInv' /\ Lifeline'
    BY <2>1, <2>3, GoToKeeps DEF LockInv, Lifeline, Isolating, Releasing, Excuse
  <2> QED BY <2>2, <2>4
<1>2. CASE Accept(g)
  <2>1. /\ Releasing(g) /\ run[g].op = "unisolate-host"
        /\ UNCHANGED <<allowed, isolationMu>> /\ policy' \in Chains
        /\ \/ GoTo(g, "output") /\ policy'.OUTPUT = policy.OUTPUT
           \/ GoTo(g, "delete") /\ (policy'.OUTPUT = "ACCEPT" \/ Excuse')
        /\ policy'.OUTPUT \in {policy.OUTPUT, "ACCEPT"}
        /\ mishaps \subseteq mishaps'
    BY <1>2
       DEF Accept, Releasing, Works, Fails, Ignores, hostVars, FirewallType,
           Chains, Excuse
  <2>2. FirewallType'
    BY <2>1, GoToKeeps DEF FirewallType
  <2>3. \A h \in Goroutines : h # g => ~Isolating(h) /\ ~Releasing(h)
    BY <2>1 DEF LockInv
  <2>4. LockInv' /\ Lifeline'
    BY <2>1, <2>3, GoToKeeps DEF LockInv, Lifeline, Isolating, Releasing, Excuse
  <2> QED BY <2>2, <2>4
<1>3. CASE DeleteAllowRules(g)
  <2>1. /\ Releasing(g) /\ run[g].at = "delete" /\ GoTo(g, "done")
        /\ UNCHANGED policy /\ allowed' \in Nat /\ mishaps \subseteq mishaps'
    BY <1>3
       DEF DeleteAllowRules, At, Releasing, Works, Fails, Ignores, hostVars,
           FirewallType
  <2>2. FirewallType'
    BY <2>1, GoToKeeps DEF FirewallType
  <2>3. \A h \in Goroutines : h # g => ~Isolating(h) /\ ~Releasing(h)
    BY <2>1 DEF LockInv
  <2>4. \A h \in Goroutines : ~Isolating(h)' /\ ~Releasing(h)'
    BY <2>1, <2>3, GoToKeeps DEF Isolating, Releasing
  <2>5. policy.OUTPUT # "DROP" \/ Excuse
    BY <2>1 DEF LockInv
  <2>6. LockInv' /\ Lifeline'
    BY <2>1, <2>4, <2>5 DEF LockInv, Lifeline, Excuse
  <2> QED BY <2>2, <2>6
<1> QED BY <1>1, <1>2, <1>3

\* A command arrives, and takes a goroutine's place; the agent restarts.
LEMMA ReceiveStep == ASSUME FirewallInv, Receive PROVE FirewallInv'
<1>1. PICK r \in Activities :
         r.at = "start" /\ run' = [run EXCEPT ![received + 1] = r]
  <2>1. PICK r \in [op : OnTarget, on : {{t} : t \in Targets}, at : {"start"}]
                   \cup [op : OnHost, on : {{}}, at : {"start"}]
                   \cup [op : {"config_update"}, on : Safelists, at : {"start"}] :
            run' = [run EXCEPT ![received + 1] = r]
    BY DEF Receive
  <2>2. r.on \in SUBSET Targets /\ r.op \in Ops /\ r.at = "start"
    BY <2>1, ActiveResponseAssumption
  <2>3. r = [op |-> r.op, on |-> r.on, at |-> r.at]
    BY <2>1
  <2> QED BY <2>1, <2>2, <2>3 DEF Activities
<1>2. UNCHANGED <<policy, allowed, isolationMu, mishaps>>
  BY DEF Receive, hostVars
<1>3. \A h \in Goroutines : run'[h] = run[h] \/ run'[h] = r
  BY <1>1 DEF FirewallInv, FirewallType
<1>4. FirewallType'
  BY <1>1, <1>2 DEF FirewallInv, FirewallType
<1>5. LockInv' /\ Lifeline'
  BY <1>1, <1>2, <1>3
     DEF FirewallInv, LockInv, Lifeline, Isolating, Releasing, Excuse
<1> QED BY <1>4, <1>5 DEF FirewallInv

LEMMA RestartStep == ASSUME FirewallInv, ResponseRestart PROVE FirewallInv'
  BY DEF ResponseRestart, FirewallInv, FirewallType, LockInv, Lifeline, Isolating,
         Releasing, Excuse, Idle, Activities, hostVars

LEMMA FirewallStep ==
    ASSUME FirewallInv, [ResponseNext]_responseVars PROVE FirewallInv'
<1>1. CASE UNCHANGED responseVars
  BY <1>1
     DEF responseVars, hostVars, FirewallInv, FirewallType, LockInv, Lifeline,
         Isolating, Releasing, Excuse
<1>2. ASSUME NEW g \in Goroutines, Proceed(g) PROVE FirewallInv'
  BY <1>2, OtherCommands, RecordBlockStep, IsolateSteps, ReleaseSteps DEF Proceed
<1> QED BY <1>1, <1>2, ReceiveStep, RestartStep DEF ResponseNext

\* However isolations and releases are mixed, fail or are cut short, a host
\* that may not send lets the manager through (isolateNetwork).
THEOREM ManagerReaches == AgentSpec => []Lifeline
<1>1. AgentInit => FirewallInv
  BY FirewallInit DEF AgentInit
<1>2. FirewallInv /\ [AgentNext]_agentVars => FirewallInv'
  <2> SUFFICES ASSUME FirewallInv, [AgentNext]_agentVars PROVE FirewallInv'
    OBVIOUS
  <2>1. [ResponseNext]_responseVars
    BY DEF AgentNext, ResponseStep, EvidenceStep, UpdateStep, IntegrityStep, agentVars
  <2> QED BY <2>1, FirewallStep
<1>3. FirewallInv => Lifeline
  BY DEF FirewallInv
<1> QED BY <1>1, <1>2, <1>3, PTL DEF AgentSpec

(***************************************************************************)
(* Evidence                                                                *)
(***************************************************************************)
MoveSteps   == {"none", "rename", "copy", "remove", "executed", "failed"}
UploadSteps == {"none", "posted", "write", "insert", "created", "answered", "failed"}

EvidenceType ==
    /\ second \in Seconds
    /\ quarantine \in [Seconds -> Files \cup {Nothing, Torn}]
    /\ move \in [Files -> MoveSteps]
    /\ moveName \in [Files -> Seconds \cup {Never}]
    /\ store \in [Seconds -> Bundles \cup {Nothing, Torn}]
    /\ upload \in [Bundles -> UploadSteps]
    /\ uploadName \in [Bundles -> Seconds \cup {Never}]

Copied(f) == f \in overwritten \/ \E s \in Seconds : quarantine[s] = f
Stored(b) == store[uploadName[b]] = b \/ b \in overwritten \cup Oversized

\* A move has a name and its original, and a copy before it removes that.
MoveInv ==
    \A f \in Files :
        /\ move[f] \in {"rename", "copy", "remove"} =>
              moveName[f] \in Seconds /\ f \in source
        /\ f \in source \/ Copied(f)
        /\ move[f] = "remove" => Copied(f)

\* An upload has its name before its row, and its row before its answer.
UploadInv ==
    /\ rows \subseteq Bundles
    /\ \A b \in Bundles :
        /\ upload[b] \in {"write", "insert", "created"} => uploadName[b] \in Seconds
        /\ upload[b] = "insert" \/ b \in rows => uploadName[b] \in Seconds /\ Stored(b)
        /\ upload[b] \in {"none", "posted", "write", "insert"} => b \notin rows
        /\ upload[b] = "created" => b \in rows
    /\ told \subseteq rows

EvidenceInv == EvidenceType /\ MoveInv /\ UploadInv

LEMMA EvidenceInitially == ASSUME EvidenceInit PROVE EvidenceInv
  BY EvidenceAssumption
     DEF EvidenceInit, EvidenceInv, EvidenceType, MoveInv, UploadInv, MoveSteps,
         UploadSteps, Seconds, Copied

\* The steps of a move of f; the uploads do not see it.
LEMMA MoveStep ==
    ASSUME EvidenceInv, NEW f \in Files,
           \/ QuarantineFile(f) \/ Rename(f) \/ CreateCopy(f) \/ Copy(f)
           \/ RemoveSource(f)
    PROVE  EvidenceInv'
<1>1. UNCHANGED <<second, store, upload, uploadName, rows, told>>
  BY DEF QuarantineFile, Rename, CreateCopy, Copy, RemoveSource
<1>2. overwritten \subseteq overwritten'
  BY DEF QuarantineFile, Rename, CreateCopy, Copy, RemoveSource, Take
<1>3. UploadInv'
  BY <1>1, <1>2 DEF EvidenceInv, UploadInv, Stored
<1>4. EvidenceType'
  BY <1>1
     DEF EvidenceInv, EvidenceType, MoveSteps, QuarantineFile, Rename, CreateCopy,
         Copy, RemoveSource
<1>5. MoveInv'
  <2> USE DEF EvidenceInv, EvidenceType, MoveInv, Copied
  <2>1. CASE QuarantineFile(f)
    BY <2>1 DEF QuarantineFile
  <2>2. CASE Rename(f)
    BY <2>2, EvidenceAssumption DEF Rename, Take
  <2>3. CASE CreateCopy(f)
    BY <2>3, EvidenceAssumption DEF CreateCopy, Take
  <2>4. CASE Copy(f)
    BY <2>4, EvidenceAssumption DEF Copy, Take
  <2>5. CASE RemoveSource(f)
    BY <2>5 DEF RemoveSource
  <2> QED BY <2>1, <2>2, <2>3, <2>4, <2>5
<1> QED BY <1>3, <1>4, <1>5 DEF EvidenceInv

\* The steps of the upload of b; the moves do not see it.
LEMMA UploadStep ==
    ASSUME EvidenceInv, NEW b \in Bundles,
           \/ CollectArtifact(b) \/ OpenArtifact(b) \/ WriteArtifact(b)
           \/ InsertArtifact(b) \/ Respond(b)
    PROVE  EvidenceInv'
<1>1. UNCHANGED <<second, source, quarantine, move, moveName>>
  BY DEF CollectArtifact, OpenArtifact, WriteArtifact, InsertArtifact, Respond
<1>2. overwritten \subseteq overwritten'
  BY DEF CollectArtifact, OpenArtifact, WriteArtifact, InsertArtifact, Respond,
         TakeName
<1>3. MoveInv'
  BY <1>1, <1>2 DEF EvidenceInv, MoveInv, Copied
<1>4. EvidenceType'
  BY <1>1
     DEF EvidenceInv, EvidenceType, UploadSteps, CollectArtifact, OpenArtifact,
         WriteArtifact, InsertArtifact, Respond
<1>5. UploadInv'
  <2> USE DEF EvidenceInv, EvidenceType, UploadInv, Stored
  <2>1. CASE CollectArtifact(b)
    BY <2>1 DEF CollectArtifact
  <2>2. CASE OpenArtifact(b)
    BY <2>2, EvidenceAssumption DEF OpenArtifact, TakeName
  <2>3. CASE WriteArtifact(b)
    BY <2>3, EvidenceAssumption DEF WriteArtifact, TakeName
  <2>4. CASE InsertArtifact(b)
    BY <2>4 DEF InsertArtifact
  <2>5. CASE Respond(b)
    BY <2>5 DEF Respond
  <2> QED BY <2>1, <2>2, <2>3, <2>4, <2>5
<1> QED BY <1>3, <1>4, <1>5 DEF EvidenceInv

LEMMA EvidenceStepKeeps ==
    ASSUME EvidenceInv, [FilesNext \/ BundlesNext]_evidenceVars
    PROVE  EvidenceInv'
<1> USE DEF EvidenceInv, EvidenceType, MoveInv, UploadInv, Copied, Stored
<1>1. CASE UNCHANGED evidenceVars
  BY <1>1 DEF evidenceVars
<1>2. CASE Clock
  BY <1>2, EvidenceAssumption DEF Clock, Seconds
<1>3. CASE AgentKilled
  BY <1>3 DEF AgentKilled, MoveSteps
<1>4. CASE ManagerKilled
  BY <1>4 DEF ManagerKilled, UploadSteps
<1> QED
  BY <1>1, <1>2, <1>3, <1>4, MoveStep, UploadStep DEF FilesNext, BundlesNext

\* Evidence is preserved whatever fails half way, for any number of files,
\* bundles and faults (runQuarantineFile, moveFile, Upload).
THEOREM EvidencePreserved == AgentSpec => []EvidenceKept
<1>1. AgentInit => EvidenceInv
  BY EvidenceInitially DEF AgentInit
<1>2. EvidenceInv /\ [AgentNext]_agentVars => EvidenceInv'
  <2> SUFFICES ASSUME EvidenceInv, [AgentNext]_agentVars PROVE EvidenceInv'
    OBVIOUS
  <2>1. [FilesNext \/ BundlesNext]_evidenceVars
    BY DEF AgentNext, ResponseStep, EvidenceStep, UpdateStep, IntegrityStep, agentVars
  <2> QED BY <2>1, EvidenceStepKeeps
<1>3. EvidenceInv => EvidenceKept
  BY DEF EvidenceInv, MoveInv, UploadInv, Copied, Stored, EvidenceKept
<1> QED BY <1>1, <1>2, <1>3, PTL DEF AgentSpec

(***************************************************************************)
(* The binary                                                              *)
(***************************************************************************)
Installable == {r \in Releases : r \in Prereleases => AllowPrerelease}

\* What may be downloaded was admitted, and what is renamed was verified.
BinaryInv ==
    /\ offer \in Releases
    /\ manifest \in Releases \cup {Version}
    /\ upAt \in {"download", "verify", "rename"} => manifest \in Installable
    /\ upAt = "rename" => tmpFile = manifest
    /\ BinaryWhole

LEMMA UpdateKeeps == ASSUME BinaryInv, [UpdateNext]_updateVars PROVE BinaryInv'
  BY DEF BinaryInv, BinaryWhole, Installable, UpdateNext, updateVars, Publish,
         UpdateRestart, CheckAgain, FetchManifest, CheckOffer, Download, Verify,
         Swap, ExecReplace, isNewer, Version

\* Whenever the agent is killed and whatever is downloaded, the binary on disk
\* is one that may be installed (downloadAndApply).
THEOREM BinaryStaysWhole == AgentSpec => []BinaryWhole
<1>1. AgentInit => BinaryInv
  BY DEF AgentInit, UpdateInit, BinaryInv, BinaryWhole
<1>2. BinaryInv /\ [AgentNext]_agentVars => BinaryInv'
  <2> SUFFICES ASSUME BinaryInv, [AgentNext]_agentVars PROVE BinaryInv'
    OBVIOUS
  <2>1. [UpdateNext]_updateVars
    BY DEF AgentNext, ResponseStep, EvidenceStep, UpdateStep, IntegrityStep, agentVars
  <2> QED BY <2>1, UpdateKeeps
<1>3. BinaryInv => BinaryWhole
  BY DEF BinaryInv
<1> QED BY <1>1, <1>2, <1>3, PTL DEF AgentSpec
=============================================================================
