------------------------------- MODULE Response -------------------------------
(***************************************************************************)
(* What the manager does about an alert: playbooks run, an analyst         *)
(* triggers a response by hand, and the lists that rules look up change    *)
(* under feeds, requests and playbooks. The process may be restarted       *)
(* between any two steps: tables and files stay, lists, goroutines and     *)
(* queued commands do not.                                                 *)
(*                                                                         *)
(* The playbook executor: the engine's hook starts a goroutine for each    *)
(* playbook an alert triggers; it records the execution, carries out the   *)
(* actions one by one, and records the outcome. The API changes the        *)
(* playbooks meanwhile. Statements and requests may fail.                  *)
(***************************************************************************)
EXTENDS Watchlists

CONSTANTS
    Alerts,      \* alerts: records of rule, groups, agent and level
    Books,       \* the playbooks table at first: a sequence of Playbook
    Drafts,      \* playbooks that the API may create
    Patches,     \* what a request to update gives: some fields of a playbook
    MaxBooks, MaxRuns, MaxTriggers   \* bounds

\* Actions whose effect is a command for the agent of the alert.
Commands == {"block_ip", "kill_process", "isolate_host", "disable_account",
             "restart_service", "quarantine_file", "force_logoff"}
\* Actions whose effect is a request to another system.
Requests == {"notify_slack", "webhook", "create_ticket"}
ActionTypes == Commands \cup Requests
               \cup {"create_case", "notify_email", "add_to_watchlist"}

\* `given': the parameters that the action requires are not empty.
Action == [type : ActionTypes, given : BOOLEAN, cont : BOOLEAN,
           list : Lists, key : Keys]
Trigger(rules, groups, agents, level) ==
    [rules |-> rules, groups |-> groups, agents |-> agents, level |-> level]
Triggers == [rules : SUBSET Nat, groups : SUBSET STRING, agents : SUBSET STRING,
             level : Nat]
Playbook == [enabled : BOOLEAN, dry : BOOLEAN, trigger : Triggers,
             actions : Seq(Action)]

RunIds == 1..MaxRuns
BookIds == 1..MaxBooks

ASSUME ResponseAssumption ==
    /\ {MaxBooks, MaxRuns, MaxTriggers} \subseteq Nat
    /\ Books \in Seq(Playbook) /\ Len(Books) <= MaxBooks
    /\ Drafts \subseteq Playbook
    /\ \A p \in Patches :
         /\ "enabled" \in DOMAIN p => p.enabled \in BOOLEAN
         /\ "dry" \in DOMAIN p => p.dry \in BOOLEAN
         /\ "trigger" \in DOMAIN p => p.trigger \in Triggers
         /\ "actions" \in DOMAIN p => p.actions \in Seq(Action)

VARIABLES
    books,       \* [BookIds -> playbook or NoBook]: the table
    runCount,    \* [BookIds -> Nat]: its column run_count
    execs,       \* [RunIds -> [status, results]]: the executions table
    runs,        \* [RunIds -> run]: the goroutines
    nextBook, nextRun,
    edit,        \* an update in progress: the id, the playbook with the changes,
                 \* and the run_count that was read; or NoEdit
    effects,     \* history: [RunIds -> SUBSET Nat], actions that had their effect
    counted,     \* history: runs whose increment reached the table
    reports,     \* history: what playbooks reported as added to a list
    cascaded     \* history: runs whose row a deletion took away

bookTable == <<books, nextBook, edit>>
play == <<books, runCount, execs, runs, nextBook, nextRun, edit,
          effects, counted, reports, cascaded>>

TriggerIds == 1..MaxTriggers

VARIABLES
    responses,   \* [TriggerIds -> status]: the active_responses table
    trigger,     \* the request in progress: [id, pc], or NoTrigger
    queued       \* history: responses whose command the registry took

response == <<responses, trigger, queued>>
vars == <<watch, play, response>>

NoTrigger == [id |-> 0, pc |-> "idle"]

NoBook == [enabled |-> FALSE, dry |-> FALSE, actions |-> << >>,
           trigger |-> Trigger({}, {}, {}, 0)]
NoEdit == [id |-> 0, book |-> NoBook, count |-> 0]
NoRow == [status |-> "none", results |-> << >>]
NoRun == [pc |-> "none", book |-> 0, actions |-> << >>, dry |-> FALSE,
          results |-> << >>, failed |-> FALSE, ver |-> 0]

Exists(b) == b < nextBook /\ books[b] # NoBook

-----------------------------------------------------------------------------
(* The hook                                                                *)

\* matches: every part of the trigger that is set must hold.
Matches(t, alert) ==
    /\ t.level > 0 => alert.level >= t.level
    /\ t.rules # {} => alert.rule \in t.rules
    /\ t.agents # {} => alert.agent \in t.agents
    /\ t.groups # {} => t.groups \cap alert.groups # {}

\* ListPlaybooks(true) and matches.
ToStart(alert) ==
    {b \in BookIds : /\ Exists(b) /\ books[b].enabled
                     /\ Matches(books[b].trigger, alert)}

\* OnAlert: one goroutine for each playbook, with the playbook as it was listed.
\* (When the statement fails, nothing is started, as if no playbook matched.)
OnAlert(alert) ==
    LET start == ToStart(alert)
        last == nextRun + Cardinality(start) - 1
    IN  /\ start # {} /\ last <= MaxRuns
        /\ nextRun' = last + 1
        \* The runs take the playbooks in ascending order.
        /\ \E of \in [nextRun..last -> start] :
             /\ \A r, q \in nextRun..last : r < q => of[r] < of[q]
             /\ runs' = [r \in RunIds |->
                  IF r \in nextRun..last
                    THEN [NoRun EXCEPT !.pc = "create", !.book = of[r],
                                       !.dry = books[of[r]].dry,
                                       !.actions = books[of[r]].actions]
                    ELSE runs[r]]
        /\ UNCHANGED <<watch, bookTable, execs, runCount, effects, counted,
                       reports, cascaded>>

-----------------------------------------------------------------------------
(* A run                                                                   *)

Go(r, pc) == runs' = [runs EXCEPT ![r].pc = pc]
Current(r) == runs[r].actions[Len(runs[r].results) + 1]
Position(r) == Len(runs[r].results) + 1

\* The row refers to its playbook: without one it cannot be inserted.
InsertExecution(r) ==
    /\ Exists(runs[r].book)
    /\ execs' = [execs EXCEPT ![r].status = "running"]

\* Mutant: the error of CreateExecution is only logged.
StartAnyway(r) ==
    /\ runs[r].pc = "create" /\ Go(r, "count")
    /\ \/ InsertExecution(r) /\ UNCHANGED spent
       \/ Event /\ UNCHANGED execs
       \/ ~Exists(runs[r].book) /\ UNCHANGED <<execs, spent>>
    /\ UNCHANGED <<runCount, effects, counted, reports>>

\* Without a row there is no run.
Start(r) ==
    /\ runs[r].pc = "create"
    /\ \/ InsertExecution(r) /\ Go(r, "count") /\ UNCHANGED spent
       \/ Event /\ Go(r, "over") /\ UNCHANGED execs
       \/ ~Exists(runs[r].book) /\ Go(r, "over") /\ UNCHANGED <<execs, spent>>
    /\ UNCHANGED <<runCount, effects, counted, reports>>

\* IncrementPlaybookRunCount changes no row when the playbook is gone, and ignores
\* an error.
IncrementRunCount(r) ==
    LET b == runs[r].book
    IN  /\ runs[r].pc = "count" /\ Go(r, "act")
        /\ \/ /\ Exists(b) /\ runCount' = [runCount EXCEPT ![b] = @ + 1]
              /\ counted' = counted \cup {r} /\ UNCHANGED spent
           \/ ~Exists(b) /\ UNCHANGED <<runCount, counted, spent>>
           \/ Event /\ UNCHANGED <<runCount, counted>>
        /\ UNCHANGED <<execs, effects, reports>>

\* Whether the loop ends after an action with this status.
Stops(r, status) == status = "failed" /\ ~Current(r).cont

\* Mutant: an action that failed and need not stop the loop is tried again.
FinishedRetried(r, status) ==
    LET results == IF status = "failed" /\ Current(r).cont
                     THEN runs[r].results ELSE Append(runs[r].results, status)
    IN  [runs[r] EXCEPT
           !.results = results, !.ver = 0,
           !.failed = Stops(r, status),
           !.pc = IF Stops(r, status) \/ Len(results) = Len(runs[r].actions)
                    THEN "finish" ELSE "act"]

\* The result of the current action is appended, and the loop goes on or ends.
Finished(r, status) ==
    LET results == Append(runs[r].results, status)
    IN  [runs[r] EXCEPT
           !.results = results, !.ver = 0,
           !.failed = Stops(r, status),
           !.pc = IF Stops(r, status) \/ Len(results) = Len(runs[r].actions)
                    THEN "finish" ELSE "act"]

End(r, status) == runs' = [runs EXCEPT ![r] = Finished(r, status)]
HasEffect(r) == effects' = [effects EXCEPT ![r] = @ \cup {Position(r)}]

\* A playbook without actions goes straight to its end.
NoActions(r) ==
    /\ runs[r].pc = "act" /\ runs[r].actions = << >>
    /\ Go(r, "finish")
    /\ UNCHANGED <<lists, appended, spent, execs, runCount, effects, counted,
                   reports>>

Acting(r, types) ==
    /\ runs[r].pc = "act" /\ runs[r].actions # << >> /\ ~runs[r].dry
    /\ Current(r).type \in types /\ Current(r).given

\* A dry run only logs.
DryAction(r) ==
    /\ runs[r].pc = "act" /\ runs[r].actions # << >> /\ runs[r].dry
    /\ End(r, "success")
    /\ UNCHANGED <<lists, appended, spent, execs, runCount, effects, counted,
                   reports>>

\* A parameter is missing.
RefuseAction(r) ==
    /\ runs[r].pc = "act" /\ runs[r].actions # << >> /\ ~runs[r].dry
    /\ ~Current(r).given
    /\ End(r, "failed")
    /\ UNCHANGED <<lists, appended, spent, execs, runCount, effects, counted,
                   reports>>

\* A mail is reported as queued, and only logged.
LogMail(r) ==
    /\ Acting(r, {"notify_email"})
    /\ End(r, "success")
    /\ UNCHANGED <<lists, appended, spent, execs, runCount, effects, counted,
                   reports>>

\* The registry takes or queues the command, and says so, whether or not the
\* agent is connected.
SendCommand(r) ==
    /\ Acting(r, Commands)
    /\ HasEffect(r) /\ End(r, "success")
    /\ UNCHANGED <<lists, appended, spent, execs, runCount, counted, reports>>

CreateCase(r) ==
    /\ Acting(r, {"create_case"})
    /\ \/ HasEffect(r) /\ End(r, "success") /\ UNCHANGED spent
       \/ Event /\ End(r, "failed") /\ UNCHANGED effects
    /\ UNCHANGED <<lists, appended, execs, runCount, counted, reports>>

\* A request that fails, or is answered with an error, or whose answer does not
\* come within the timeout: then it may have had its effect.
Request(r) ==
    /\ Acting(r, Requests)
    /\ \/ HasEffect(r) /\ End(r, "success") /\ UNCHANGED spent
       \/ Event /\ End(r, "failed") /\ (HasEffect(r) \/ UNCHANGED effects)
    /\ UNCHANGED <<lists, appended, execs, runCount, counted, reports>>

\* AddEntryToList takes the list's object from the map ...
TakeList(r) ==
    /\ Acting(r, {"add_to_watchlist"})
    /\ runs' = [runs EXCEPT ![r].pc = "add", ![r].ver = lists[Current(r).list].ver]
    /\ UNCHANGED <<lists, appended, spent, execs, runCount, effects, counted,
                   reports>>

\* ... and adds to it;
AddToList(r) ==
    /\ runs[r].pc = "add" /\ Go(r, "append")
    /\ AddToObject(Current(r).list, runs[r].ver, Current(r).key)
    /\ UNCHANGED <<appended, spent, execs, runCount, effects, counted, reports>>

\* Mutant: nothing is written.
AppendedNot(l, key) == appended

\* then the line is appended to the file of the list's name. A file that cannot
\* be opened or written does not make the action fail.
Appended(l, key) == [appended EXCEPT ![l] = @ \cup {key}]

AppendToFile(r) ==
    LET a == Current(r)
        Report(written) == reports' = reports \cup
            {[list |-> a.list, key |-> a.key, ver |-> runs[r].ver,
              written |-> written]}
    IN  /\ runs[r].pc = "append"
        /\ HasEffect(r) /\ End(r, "success")
        /\ \/ appended' = Appended(a.list, a.key) /\ Report(TRUE)
              /\ UNCHANGED spent
           \/ Event /\ Report(FALSE) /\ UNCHANGED appended
        /\ UNCHANGED <<lists, execs, runCount, counted>>

Status(r) ==
    IF runs[r].dry THEN "dry_run"
    ELSE IF runs[r].failed THEN "failed"
    ELSE IF "failed" \in {runs[r].results[i] : i \in DOMAIN runs[r].results}
           THEN "partial" ELSE "success"

\* The row may be gone.
FinishExecution(r) ==
    execs' = [execs EXCEPT ![r] =
                IF @ = NoRow THEN @
                ELSE [status |-> Status(r), results |-> runs[r].results]]

\* An error of the update is ignored: the row stays `running'.
Finish(r) ==
    /\ runs[r].pc = "finish" /\ Go(r, "over")
    /\ \/ FinishExecution(r) /\ UNCHANGED spent
       \/ Event /\ UNCHANGED execs
    /\ UNCHANGED <<runCount, effects, counted, reports>>

RunStep(r) ==
    /\ \/ /\ \/ Start(r) \/ IncrementRunCount(r) \/ Finish(r)
          /\ UNCHANGED <<lists, appended>>
       \/ NoActions(r) \/ DryAction(r) \/ RefuseAction(r) \/ SendCommand(r)
       \/ LogMail(r) \/ CreateCase(r) \/ Request(r)
       \/ TakeList(r) \/ AddToList(r) \/ AppendToFile(r)
    /\ UNCHANGED <<bookTable, nextRun, cascaded, sources, feed, replaced>>

-----------------------------------------------------------------------------
(* The API                                                                 *)

\* What a request gives replaces what the playbook has.
Patched(book, p) ==
    [enabled |-> IF "enabled" \in DOMAIN p THEN p.enabled ELSE book.enabled,
     dry     |-> IF "dry" \in DOMAIN p THEN p.dry ELSE book.dry,
     trigger |-> IF "trigger" \in DOMAIN p THEN p.trigger ELSE book.trigger,
     actions |-> IF "actions" \in DOMAIN p THEN p.actions ELSE book.actions]

\* Update reads the playbook and decodes the request over it ...
UpdateRead(b) ==
    /\ edit = NoEdit /\ Event
    /\ Exists(b)
    /\ \E p \in Patches :
         edit' = [id |-> b, book |-> Patched(books[b], p), count |-> runCount[b]]
    /\ UNCHANGED <<books, nextBook, runCount, execs, cascaded>>

\* Every column but run_count is written; a row that is gone stays gone.
UpdatePlaybook(b, book) ==
    /\ books' = IF Exists(b) THEN [books EXCEPT ![b] = book] ELSE books
    /\ UNCHANGED runCount

\* ... and writes it.
UpdateWrite ==
    /\ edit # NoEdit /\ edit' = NoEdit
    /\ UpdatePlaybook(edit.id, edit.book)
    /\ UNCHANGED <<nextBook, spent, execs, cascaded>>

\* The row gets the next id; its run_count is 0.
CreatePlaybook(book) ==
    /\ books' = [books EXCEPT ![nextBook] = book]
    /\ nextBook' = nextBook + 1

Create ==
    /\ nextBook <= MaxBooks /\ Event
    /\ \E d \in Drafts : CreatePlaybook(d)
    /\ UNCHANGED <<edit, runCount, execs, cascaded>>

\* The playbook's executions go with it.
DeletePlaybook(b) ==
    LET gone == {r \in RunIds : runs[r].book = b /\ execs[r] # NoRow}
    IN  /\ books' = [books EXCEPT ![b] = NoBook]
        /\ runCount' = [runCount EXCEPT ![b] = 0]
        /\ execs' = [r \in RunIds |-> IF r \in gone THEN NoRow ELSE execs[r]]
        /\ cascaded' = cascaded \cup gone

Delete(b) == /\ Exists(b) /\ Event
             /\ DeletePlaybook(b)
             /\ UNCHANGED <<nextBook, edit>>

BookApi ==
    /\ Create \/ UpdateWrite \/ \E b \in BookIds : UpdateRead(b) \/ Delete(b)
    /\ UNCHANGED <<sources, lists, appended, feed, replaced, runs, nextRun,
                   effects, counted, reports>>

PlayInit ==
    /\ books = [b \in BookIds |-> IF b \in DOMAIN Books THEN Books[b] ELSE NoBook]
    /\ nextBook = Len(Books) + 1
    /\ runCount = [b \in BookIds |-> 0]
    /\ execs = [r \in RunIds |-> NoRow] /\ runs = [r \in RunIds |-> NoRun]
    /\ nextRun = 1 /\ edit = NoEdit
    /\ effects = [r \in RunIds |-> {}]
    /\ counted = {} /\ reports = {} /\ cascaded = {}

-----------------------------------------------------------------------------
(* POST /active-response                                                   *)

NewTrigger(t) == t \in TriggerIds /\ responses[t] = "none"
                 /\ \A u \in 1..(t - 1) : responses[u] # "none"

\* The row is inserted first; without it nothing is sent.
TriggerInsert(t) ==
    /\ trigger = NoTrigger /\ NewTrigger(t) /\ Event
    /\ \/ /\ responses' = [responses EXCEPT ![t] = "pending"]
          /\ trigger' = [id |-> t, pc |-> "send"]
       \/ /\ responses' = [responses EXCEPT ![t] = "refused"]
          /\ UNCHANGED trigger
    /\ UNCHANGED queued

TriggerSend ==
    /\ trigger.pc = "send" /\ trigger' = [trigger EXCEPT !.pc = "mark"]
    /\ queued' = queued \cup {trigger.id}
    /\ UNCHANGED <<responses, spent>>

\* An error of the update is ignored. No result ever comes back to the row.
TriggerMark ==
    /\ trigger.pc = "mark" /\ trigger' = NoTrigger
    /\ \/ responses' = [responses EXCEPT ![trigger.id] = "sent"]
          /\ UNCHANGED spent
       \/ Event /\ UNCHANGED responses
    /\ UNCHANGED queued

TriggerStep ==
    /\ TriggerSend \/ TriggerMark \/ \E t \in TriggerIds : TriggerInsert(t)
    /\ UNCHANGED <<sources, lists, appended, feed, replaced, play>>

-----------------------------------------------------------------------------

Alive(r) == runs[r].pc \notin {"none", "over"}

Restart ==
    /\ WatchRestart
    /\ runs' = [r \in RunIds |-> IF Alive(r) THEN [runs[r] EXCEPT !.pc = "over"]
                                            ELSE runs[r]]
    /\ edit' = NoEdit /\ trigger' = NoTrigger
    /\ UNCHANGED <<books, runCount, execs, nextBook, nextRun,
                   effects, counted, reports, cascaded, responses, queued>>

Init == /\ WatchInit /\ PlayInit
        /\ responses = [t \in TriggerIds |-> "none"]
        /\ trigger = NoTrigger /\ queued = {}

Run(r) == RunStep(r) /\ UNCHANGED response

Next ==
    \/ \E a \in Alerts : OnAlert(a) /\ UNCHANGED response
    \/ \E r \in RunIds : Run(r)
    \/ BookApi /\ UNCHANGED response
    \/ WatchNext /\ UNCHANGED <<play, response>>
    \/ TriggerStep
    \/ Restart

Spec == Init /\ [][Next]_vars

\* Every goroutine of a run is scheduled, and its requests have a timeout.
LiveSpec == Spec /\ \A r \in RunIds : WF_vars(Run(r))

-----------------------------------------------------------------------------

TypeOK ==
    /\ WatchTypeOK
    /\ runCount \in [BookIds -> Nat]
    /\ \A r \in RunIds :
         /\ execs[r].status \in {"none", "running", "success", "failed",
                                 "partial", "dry_run"}
         /\ runs[r].pc \in {"none", "create", "count", "act", "add", "append",
                            "finish", "over"}
         /\ runs[r].pc \in {"add", "append"} =>
              Current(r).type = "add_to_watchlist"
    /\ nextBook \in 1..(MaxBooks + 1) /\ nextRun \in 1..(MaxRuns + 1)
    /\ responses \in [TriggerIds -> {"none", "refused", "pending", "sent"}]
    /\ trigger.pc \in {"idle", "send", "mark"}

\* The tables say what was done. Nothing is done without a row, unless the row
\* went with its playbook; a row that is not `running' has a result for every
\* action that was carried out, and every action reported as a success was
\* (but a mail never is), except in a dry run, where nothing is; a failed one may have had its effect
\* only where another system was asked. The status follows from the results. A
\* response is `sent' only if the command was taken.
ResultsTold ==
    /\ \A r \in RunIds :
         LET row == execs[r]
             n == Len(row.results)
             Ok(i) == row.results[i] = "success"
         IN  /\ effects[r] # {} => row # NoRow \/ r \in cascaded
             /\ row.status = "dry_run" => effects[r] = {}
             /\ row.status \in {"success", "partial", "failed"} =>
                  /\ \A i \in 1..n : Ok(i) => \/ i \in effects[r]
                                          \/ runs[r].actions[i].type = "notify_email"
                  /\ \A i \in effects[r] :
                       i <= n /\ (Ok(i) \/ runs[r].actions[i].type \in Requests)
                  /\ row.status = "failed" <=>
                       n > 0 /\ ~Ok(n) /\ ~runs[r].actions[n].cont
                  /\ row.status # "failed" => n = Len(runs[r].actions)
                  /\ row.status = "success" <=> \A i \in 1..n : Ok(i)
    /\ \A t \in TriggerIds :
         /\ responses[t] = "sent" => t \in queued
         /\ t \in queued => responses[t] \in {"pending", "sent"}

\* A playbook's run_count is the number of its runs that counted themselves,
\* although an update reads the row and writes it later.
RunsCounted ==
    \A b \in BookIds : Exists(b) =>
        runCount[b] = Cardinality({r \in counted : runs[r].book = b})

\* Results, responses and counts in the tables are what was done.
Recorded == ResultsTold /\ RunsCounted

\* The keys a rule may ask for that mean the entry: each of its spellings, and
\* the address for the network it is in.
Asked(key) ==
    {k \in Keys : Normal(k) = IF key = "net" THEN "ip" ELSE Normal(key)}

\* What a playbook reported as added to a list is found by the rules in whatever
\* spelling they ask for it, as long as the list is the one that it was added to,
\* and after a restart as long as the line was written, no feed, request or
\* shipped file has taken the list's place, and the key has no colon. This holds
\* of keys in the spelling that a lookup makes of them: adding only trims and
\* lowers them (list.go:42).
Found(rep) ==
    \/ lists[rep.list].ver = rep.ver
    \/ /\ rep.written /\ rep.list \notin replaced
       /\ Shipped[rep.list] = {} /\ rep.key \notin WithColon
WatchedAsReported ==
    \A rep \in reports :
        Found(rep) /\ Normal(rep.key) = rep.key =>
            \A key \in Asked(rep.key) : Match(rep.list, key)

\* The same for any spelling: one canonical form is used for adding and looking
\* up (list.go:39-40). It does not hold of an address added with a port or
\* written out, or of a domain with its last dot: a lookup asks for another key.
WatchedInAnySpelling ==
    \A rep \in reports : lists[rep.list].ver = rep.ver =>
        \A key \in Asked(rep.key) : Match(rep.list, key)

\* The same without the exceptions of shipped lists and of colons: the line in
\* the file keeps the entry over a restart (executor.go:505).
WatchSurvivesRestart ==
    \A rep \in reports :
        rep.written /\ rep.list \notin replaced => Match(rep.list, rep.key)

\* A run comes to its end, whatever fails.
RunsEnd == \A r \in RunIds : Alive(r) ~> ~Alive(r)
=============================================================================
