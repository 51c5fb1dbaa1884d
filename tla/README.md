# Sentinel SIEM: a TLA+ verification project

Sentinel SIEM collects telemetry on hosts, detects attacks in it, and keeps the
events and alerts searchable. It is three Go programs and a web front end:

    host                     manager                        indexer
    WatchNode  --gRPC-->  WatchTower  --Kafka or gRPC-->  WatchVault --> OpenSearch
       ^                     |  ^
       +---- commands -------+  +--- PostgreSQL, REST API, dashboard

This directory holds TLA+ models of the parts in which data can be lost,
duplicated, reordered, forgotten or believed after it has become stale, the TLC
configurations that check them, and TLAPS proofs. Paths below are relative to
`src/`; those of the Go programs are shortened to what follows `internal/`.

1. [Inventory](#1-inventory)
2. [Modules](#2-modules)
3. [Runs: what is checked and what it shows](#3-runs)
4. [Fairness](#4-fairness)
5. [Proofs](#5-proofs)
6. [Where the code differs from what it says](#6-where-the-code-differs-from-what-it-says)
7. [What is not modelled](#7-what-is-not-modelled)
8. [Plan](#8-plan)

`PROJECT.json` lists the components, the runs, the mutants (for every property
a plausible bug in the code that breaks it), the source lines of every
definition, the hazards and the theorems.

## 1. Inventory

### Agent (WatchNode)

| Part | State | Operations | What is hard | What makes it correct |
|---|---|---|---|---|
| Disk queue, `queue/diskqueue.go` | the WAL and checkpoint files; write, sent and acknowledged positions; a channel of 2048 points; the reader's own offset | `Write`, `runReader`, `runCheckpointer`, `tryCompact`, `Close`, restart | four goroutines and two files; compaction moves the bytes under the reader; crash between any two system calls; torn writes | accepted points are fed in order and once per process, are found after a crash, and the file stays within its limit |
| Core and stream, `agent/agent.go`, `communication/client.go` | `dataCh`, the batch in hand, the stream, the goroutines' places, shutdown | `Start`, fan-in, `RunStream`, `sendBatch`, commands, `registerWithRetry`, `Stop` | send errors are ignored; channels are closed while others send; reconnection while a batch is half full | every point is in one place; what can be sent is sent; `Stop` ends every goroutine |
| Active response, `agent/commands.go` | the firewall's rules, timers, safe list, isolation | block, unblock, isolate, release, new configuration | a timer races a second block; isolation is a list of calls of which each may fail | the manager stays reachable; what has a time ends |
| Evidence, `agent/response_actions.go`, `forensics.go`, the manager's `handlers/artifacts.go` | files in quarantine, bundles, rows | quarantine, collect, upload | copy and removal are two steps; names are made of seconds | nothing is lost half way; a row names its bundle |
| Updater and integrity, `updater`, `agent/integrity.go` | the binary, the hash of the configuration in memory and on disk | check, download, swap; periodic check | the server's offer and the file change between two steps | old or new binary, never neither; a change is warned about |
| Collectors, `collectors/*` | cursors, offsets, baselines, hashes, snapshots | polls, scans, events of the file system | the host changes while it is listed; rotation; lost events; pages cut by the provider | what is told is what is there; nothing is passed by |
| Who-changed-it cache, `whodata` with `collectors/audit` | a bounded cache; the audit log's offset and the record being assembled | tail, parse, look up | lines of an event come late, cut or around a rotation | records are whole, the user is the right one |
| Resource limiter, service, reference manager | - | - | - | - |

### Manager (WatchTower)

| Part | State | Operations | What is hard | What makes it correct |
|---|---|---|---|---|
| Registry and command queue, `registry`, `server/grpc/handler.go`, `response` | the agents table; a channel and a pending queue per agent | `Register`, `StreamData`, `Heartbeat`, `SendCommand`, `DeleteAgent`, the disconnect monitor | two streams of one agent share a channel; `Register` flushes before the stream exists; a send races a close | a command is delivered once or lost in a named way |
| Detection engine, `engine/engine.go` | event channel, workers | `Ingest`, `process`, `EmitAlert`, `Stop` | workers put events on the channel only they empty; state shared by all workers | it comes to rest, and `Stop` returns |
| Correlation, `engine/correlation`; deduplication, `engine/dedup` | times per rule, agent and group; last time per fingerprint | `ShouldFire`, `ShouldSuppress`, eviction, gc | eviction and gc touch what other rules use; a suppressed alert moves the window on | a window counts its period's events; nothing recent is forgotten |
| Rules, Sigma, decoders, `engine/rules`, `sigma`, `engine/decoder` | the list of rules and its index; decoders and their files | load, match, add, convert; create, delete, reload | added to while workers read without a lock; a decoder's file is cut and written while a watcher reads | a rule is applied to what it means, once; decoders in use are those accepted |
| Lists, `engine/cdb`, `threatintel` | key lists behind names; feeds | load, refresh, look up, append | a writer adds to a list that has been replaced | a key reported as added is in the list |
| Cases, `casegen`, `assign`, `casesla`, API handlers | the cases table | find-or-create, assign, sweep, edit | read, then write in another statement, from several workers and analysts | one open case per group; an alert stays on its case; one notification per breach |
| Risk-based alerting, `rba` | score, threshold and cooldown per agent | add, notable, threshold, purge | read-modify-write by several workers | notables are a cooldown apart |
| Playbooks, `playbook/executor.go` | runs, results, counts | trigger, run, record | each statement may fail; the playbook is edited or deleted meanwhile | the tables say what was done; a run ends |
| Notifier, VirusTotal, API limits | token buckets, a cache, quotas | refill, take, look up | whole tokens over elapsed time, several callers | the limits hold |
| Vulnerability matching, `vuln` | the database and its file, cached feeds | fetch, merge, match, compare versions | corrections of ranges; a file cut by a crash | what is reported follows the feed |
| UEBA, `ueba` | windows of logins and programs, told hashes | collect, analyse | overlapping analyses over windows that workers change | what is odd is told, once |
| Audit chain, rule versions, roster, partitions: `audit`, `identity`, `store` | tables | append, `MAX + 1`, sync, maintain | find and insert in two statements; records taken in another order | the chain shows a removal |
| Forwarder, `forwarder` | two channels, two buffers, a dead-letter queue | `ForwardEvent`, `ForwardAlert`, flush, retries, `Stop` | retries of batches that were partly done; full channels, buffers and queue | nothing disappears in an unnamed way |
| Syslog receiver, `server/syslog` | connections | receive, split, decode | lines cut over reads | lines in order and whole |
| Store, `store` | PostgreSQL | one statement each | atomic only by statement | - |
| Licence, AI triage, dashboard back end, most API handlers | settings | one request each | - | - |

### Indexer (WatchVault)

| Part | State | Operations | What is hard | What makes it correct |
|---|---|---|---|---|
| Pipeline and bulk requests, `pipeline`, `opensearch/bulk.go` | a buffer, a flush per goroutine | `ProcessEvent`, `ProcessDocument`, flush, retry, `Stop` | several flushes at once; lost responses; midnight | one document per item and day; every failure accounted for |
| Kafka consumer and gRPC service, `consumer`, `server/grpc` | offsets | poll, commit, ingest a batch | commits before documents are stored; calls whose caller gave up | what is committed was processed; order per agent |
| Index management, search API | - | requests to OpenSearch | - | - |

### How they interact

* A collector's point goes to the disk queue (or, without one, `dataCh`), to
  `RunStream`, in a batch on the gRPC stream to the manager's handler, and into
  the engine's event channel. `AgentStream` models this way and uses the
  abstract queue `OrderedFeed`, which `DiskQueue` is shown to implement until its
  first compaction; from then on the reader may also pass over points.
* The handler passes points to `Engine.Ingest`; a worker forwards the event,
  matches rules (`RuleMatching`), and asks `Correlation` and `Dedup`, which all
  workers share (`Detection`). Alerts go to PostgreSQL, to the forwarder, and to
  hooks: risk-based alerting and the case generator in the worker (`Ticketing`),
  playbooks in goroutines of their own (`Response`), VirusTotal and the notifier
  behind their limits (`Notices`).
* The forwarder's goroutine batches and sends by Kafka, else by gRPC, else not
  at all. The indexer's consumer, or one goroutine per gRPC call, fills the
  pipeline's buffer, and whoever fills it flushes it to OpenSearch (`Delivery`).
* Commands go the other way: API handler, active response or playbook to
  `Registry.SendCommand`, to the agent's channel or pending queue, to the
  stream's sender goroutine (`AgentRegistry`), to the agent, which executes it in
  a goroutine (`Enforcement`) and whose result takes the way of a data point.

## 2. Modules

| Module | Models | State and actions |
|---|---|---|
| `OrderedFeed` | what a queue owes its reader | points accepted, a cursor; `Accept`, `Feed`, `Rewind` |
| `DiskQueue` | `diskqueue.go`, whole | files as sequences of cells; one action per system call or critical section of the writer (`Write*`), the reader (`R*`), the checkpointer (`C*`), `Close*`, and the process (`Stop`, `Exit`, `Crash`, `Restart`) |
| `AgentStream` | `agent.go`, `client.go`, and how `commands.go` reports | one action per step of a collector's goroutine, the queue's reader, `RunStream`, the receiving goroutine, registration and `Stop`; `disk` says whether the disk queue could be opened |
| `AgentRegistry` | `registry.go`, the gRPC handler, the agents' statements of the store, the disconnect monitor | the table, channels as objects (`heap`), pending queues; one action per critical section or channel operation |
| `Correlation`, `Dedup` | the two maps and their gc | operators `ShouldFire`, `ShouldSuppress`, `Gc`, each one critical section |
| `Detection` | `engine.go`, composed with the two | workers step through the rules of an event; `Arrive`, `Stop`, the gc loops, `Tick` |
| `Forwarder` | `forwarder.go` without its transport | `Forward`, `Receive`, `Tick`, `LastFlush`, the end of an attempt (`SendEnds`), `Stop`, `Exit` |
| `VaultPipeline` | `pipeline.go`, `bulk.go` | `Process`, `Tick`, `Take`, `BulkOK`, `BulkFails`, `Exit` |
| `Delivery` | both, with Kafka, the consumer, gRPC calls, and the exits of the two processes | an attempt (`KafkaSends`, `KafkaFails`, `Call`, `Answer`, `CallFails`) joins the forwarder's `SendEnds` with its effect; `Poll`; a record that is handed on or not (`Handles`, `Skips`); `Midnight` |
| `Cases` | the cases table, the routing to an engineer (`assign.go`), `casegen.go`, `casesla/sweeper.go`, `handlers/cases.go` | an operator per statement; one action per statement of a worker (`CaseFind`, `CaseAppend`, `CaseRoute`, `CaseCreate`), of the sweeper (`Sweep*`), of a request (`Edit*`, `Open*`, `Delete`) |
| `RiskAlerting` | `rba/engine.go`, `handlers/rba.go` | `Rba*`, `Threshold*`, `Purge` over events, rows and notables |
| `Ticketing` | the three composed, as the engine calls them, with a clock and restarts | `Emit`, `Worker`, `Sweep`, `Api`, `RiskApi`, `Tick`, `Restart` |
| `Watchlists` | `engine/cdb`, `threatintel`, list requests | lists as objects behind names |
| `Response` | `playbook/executor.go`, `handlers/playbooks.go`, `handlers/active_response.go`, composed with the lists; restarts | a run's steps, its statements, the API, `Trigger*`, `Restart` |
| `CloudPoll`, `LogTail`, `FileWatch`, `HostChanges` | the cloud sources; the tailer; file integrity and the canary; registry, processes, containers and registry decoys | one part each, with its own variables and next-state relation |
| `Collection` | the four, one subject at a time, with the timers' fairness | `subject` selects whose steps happen |
| `ActiveResponse`, `Evidence`, `SelfUpdate` | firewall and isolation; quarantine and bundles; updater and integrity checker | one action per call of `iptables`, file operation or request |
| `Enforcement` | the three, one subject at a time | as `Collection` |
| `Behaviour`, `Notices`, `VulnDb`, `Records`, `SyslogInput`, `RuleMatching`, `AuditTrail`, `RootCheck` | UEBA; token buckets; vulnerability database and version order; audit chain, rule versions, roster, partitions; syslog and decoders; rules and Sigma; audit log and `whodata`; rootkit checks | one part each |
| `Services` | the eight, one subject at a time | as `Collection` |
| `DiskQueueProofs`, `DetectionProofs`, `DeliveryProofs`, `RegistryProofs`, `ResponseProofs`, `TicketingProofs`, `StreamProofs`, `CollectionProofs` | - | inductive invariants and theorems, section 5 |
| `MC*` | instances | rules, items, record lengths, rosters, feeds |

Components that share nothing are put into one run with a variable `subject` that
chooses at the start which of them moves; the others rest in their initial
state. That is a disjoint union of their state spaces, not a product, and no
abstraction: none of them could see another.

Conventions. A variable that the code does not have is under `history`; it only
records what happened, and no guard reads one, except counters of bounds.
Definitions commented "Mutant", and those whose comment describes a fault nobody
made (`WriteAlertToCase`, `StillOverdue`, `FiredNoCooldown`, ...), are the
plausible bugs the properties are tried against; no specification uses them. Data is
abstracted to what the properties tell apart: a point is its source and number, an
event the rules it matches, a command its number. A critical section, a channel
operation, a system call and an SQL statement are each one atomic step.

How code is rendered:

* *Files.* A record is `RecLen[id]` cells, the last its newline. A line parses
  when it is the cells of one whole record. `os.WriteFile` is two steps, the
  truncation and the write. After a rename a reader with an open handle goes on
  in the old file (`old`, `rOnOld`).
* *Channels.* `select` with a default is an `IF` on the length. A channel that is
  closed while somebody sends is a panic: `up` becomes `FALSE` in `AgentStream`,
  `FlushPanics` restarts the manager in `AgentRegistry`.
* *Statements.* Each SQL statement is atomic and may fail (`Fault`); nothing holds
  two together, so everything else may come between them.
* *Time.* `Detection`, `Ticketing` and the services that compare times have a
  clock. Elsewhere a timeout or a ticker is a step that may come at any time.
* *Networks.* A gRPC stream is a sequence that may break at any point, losing
  what follows. A gRPC call that times out may still be served. Kafka keeps the
  order of a partition, may store part of a batch whose production fails, and
  delivers again from an old offset after a restart. OpenSearch replaces a
  document of the same index and `_id`; its response may be lost, and may reject
  single documents.

## 3. Runs

Every bound is a constant named in its module. State counts are distinct states.

### Runs that pass

**`DiskQueue`** (9.6 million) - five records of two cells, a limit of five, compaction
from half of the file on, an output channel of one. `OneMishap` admits one crash
with a restart, one shutdown (the next process may start, and crash, but is not shut
down again), or one failing call per behaviour; combinations are left to the
proofs, which have no such bound. Three records are what it takes for one to be
acknowledged, one copied, and one written during the copy; two more fill the copy
up to its limit, and are read and compacted again. *WalWithinLimit*: the file
exceeds its limit by less than one record, also when Write admits records on the
positions that a compaction has counted anew. *FedInOrderOnce*: no record is fed twice or out
of order by one process, although the reader never learns of a compaction.
*UnfedSurvivesCrash*: without compactions, what was not fed is still unread
after a crash.

**`DiskQueue_feed`** (887 thousand) - until a compaction runs, `DiskQueue` implements
`OrderedFeed` (*FeedSpec*): the cursor is the number of newlines behind the
reader's place. *FedUnlessStopped*: each of three records is fed in the end, through
a buffer of three cells, which cuts records of two, and a channel of one, so that
the reader waits with the second while nobody has taken the first. A record beyond the
buffer's size, behind which nothing is fed, is left to the property's condition.

**`AgentStream`** (1.5 million) - two collectors with one point each, one command,
batches of three, of which the manager takes two points at most, channels of one, two
failing calls or streams, writes that fail, points that the manager refuses, a
compaction, with the disk queue and without, `Stop` at any time. *Accounted*: every point is in
exactly one place, or lost with a stream (which the manager ends at too large a
batch), or dropped at a full channel or by the manager's validation, or passed over
by the reader of a file that was compacted or holds a part of a record; the number
of the places that hold it is 1 from the moment it is made, and no reconnection
duplicates the batch in hand. *Settles*: nothing is left but what is `Stranded` in
`dataCh` while the disk queue works (section 6), the agent registers; or `Stop` ends
every goroutine. One point
per collector suffices to fill every channel, since two collectors and the
command compete for one place.

**`AgentRegistry`** (276 thousand) - one agent, two overlapping streams, two commands,
channel and pending queue of one, a deletion, a restart. *OnePlace*: a command is
in one place, although two streams take from one channel and a flush races
`SendCommand`. *ChannelServed*: a command in a served channel is taken out. Agents
share no state, so one is enough; the proof has any number.

**`Detection`** (727 thousand) - two workers, three keys of threshold rules and one
without threshold, maps that hold one key less than there are, an event channel
of one, a clock of four values against a period and window of two, three events.
*WindowExact*: a window that nothing cuts to less than its own period (`Spared`; with
one period for all, every one) counts exactly the events of the last period since
the rule last had enough of them; only an evicted key counts fewer.
*RemembersAll*: an alert within the window is remembered unless the full map
pushed it out. *ComesToRest*: the workers do not block on the channel they
alone empty, and after `Stop` all of them exit.

**`Delivery`** (533 thousand) - an event and two alerts of one agent, both alerts
without a row (`DocId` 0), with nothing wrong with them or with some that cannot be encoded,
decoded or validated (`Flaws`), channels of one, batches of one event, two attempts,
one dead letter, a pipeline that flushes at two, two gRPC handlers, one midnight;
two failing attempts, requests or documents, or one shutdown or exit of either
process. *Accounted*: nothing disappears except in a way `Lost` names, and what
is ready to be committed has been through the pipeline or was skipped. *OneDocPerDay*: however
often a batch is sent, a call outlives its caller, or a poll is repeated, an index
has one document per item. *InOrderPerAgent*: an agent's records are first seen in
the order they were forwarded. *Settles*: all items end in the index or in `Lost`.

**`Ticketing`** (1.2 million) - one agent, two rules whose alerts open cases, two workers,
two alerts, four case rows, a roster of two engineers of whom one has the skill,
a clock of three values with deadlines and a cooldown of one, one request of
every kind, one failing statement, one restart. *OneOpenCase*: a group has one open case or
one about to be opened, unless two workers looked at once. *AlertOnCase*: an alert
stays on a case of its group until a request writes the group.
*BreachToldOnce*: over crashes, failed statements and edits a breach is told once.
*NotablesSpaced*: notables are a cooldown apart and counted, unless the agent's row
was not read and written alone. *OverdueEscalated*: again and again no overdue
case is unmarked. Two alerts suffice for every race between two workers, as each
hook looks at the tables once per alert.

**`Response`** (480 thousand) - two playbook runs over playbooks that are edited,
created and deleted, a manual trigger, lists that feeds, requests, playbooks and a
restart change. *Recorded*: results, responses and counts are what was done.
*WatchedAsReported*: a key reported as added, and spelt as lookups make it, is found in
each of its spellings, also after a restart, unless something replaced the list since. *RunsEnd*: a run ends, whatever fails.

**`Collection`** (300 thousand) - a cloud source of each of seven providers that lists two
records a poll of three, with a failing poll or restart; a log file of four lines, plain or
with multi-line records, with one rotation or truncation; a watched file that changes four
times with an event queue of two; a canary tampered with three times; three
changes of registry keys, processes, containers, decoys. *NothingPassedBy*: the
cursor passes nothing that was offered in time, but for what a cut listing leaves out for good. *WholeRecords*: no record is a piece or
a mixture. *HostIsTold*: after a scan the data points show the host as it is.
*AllCatchUp*, *ChangeReported*, *Replanted*: what was missed is made up for. The
exceptions each property names are where the code does lose something.

**`Enforcement`** (128 thousand) - three commands about one address with their timers, a
failing call and a restart; two files of one name and two bundles within two seconds; three
releases, one a pre-release; a configuration edited three times and two exits.
*Lifeline*: traffic is dropped only with a rule for the manager in place.
*Released*: what has a time ends. *EvidenceKept*: nothing is lost half way.
*SelfKept*: the binary is whole, a change of the configuration is warned about.

**`Services`** (2.4 million) - eight services, one at a time, each within the bounds named
in its module: two analyses over the logins of one user, the programs of one
host and the volumes of seven hosts (in small ones no z-score exceeds
`Sigma`); buckets of two with four requests of two callers over five ticks, an
entry that lives two ticks and is stale after three; versions of up to three tokens;
a CVE whose range is corrected while a file is cut by a crash; five audit records
by two loggers; five decoders of which two share a file name; two audit events
with late lines; processes, ports and SUID files over three scans; Sigma detections of two
selections, of which one may be a list of maps, hold a pattern or have a time frame beside it. *OddTold*,
*SpendingHeld*, *VulnsFollowed*, *TablesHold*, *LogsRead*, *RulesMatch* are each the
conjunction of what its components promise; the names in their comments are the
conjuncts.

### A run that shows a divergence

**`DiskQueue_unsent`**: section 6.

### Deadlock

Every run sets `CHECK_DEADLOCK FALSE`: the numbers of points, events and failures
are bounded, so a behaviour of the model ends, and a stopped process is a proper
end. That nobody waits for ever is said by the liveness properties instead.

## 4. Fairness

* `DiskQueue`: `WF(Reader)`, `WF(Take)`. The reader's goroutine is scheduled and
  its waits have a two-second timer; `RunStream` receives while the process
  runs. There is no fairness of the writer, of the checkpointer or of shutdown.
* `AgentRegistry`: `WF(Serving(s))`, the handler past its first batch and the
  sender goroutine of a stream.
* `AgentStream`, `Delivery`: one `WF(Work)`, where `Work` is the disjunction of
  the goroutines' steps: as long as a goroutine has something to do, some goroutine
  goes on. This is weaker than fairness of each goroutine, which
  the Go scheduler gives; it suffices because the work is finite. Arrivals,
  commands, the signal to stop, midnights, and the first exit of a process are
  not in `Work`. Failures are, where a step may fail, but are bounded.
* `Detection`: `WF(Worker(w))` of each worker. Arrivals, gc, the clock and `Stop`
  are not fair.
* `Ticketing`: `WF` of the sweeper, whose ticker keeps firing. Neither workers nor
  requests are fair.
* `Response`: `WF(Run(r))` of each playbook goroutine.
* `Collection`: `WF` of the poll, of the file events, of the scan of each file, of
  the canary's timer and of a goroutine inside `evaluate`, of the containers' list
  and the decoys' check: each is a ticker's loop. What others do to the host is not fair.
* `Enforcement`: `WF` of a command's goroutine and its timer, and of the integrity checker.
* `Services` has invariants only.

## 5. Proofs

| Theorem | Module | Says |
|---|---|---|
| `TypeCorrect` | `DiskQueueProofs` | `Spec => []TypeOK` |
| `WritePosCorrect` | `DiskQueueProofs` | `Spec => []WritePosIsFileEnd` |
| `PositionsOrdered` | `DiskQueueProofs` | `Spec => []AckBehindSentBehindReader` |
| `LimitHolds` | `DiskQueueProofs` | `Spec => []WalWithinLimit` |
| `FeedOrder` | `DiskQueueProofs` | `Spec => []FedInOrderOnce` |
| `UnfedSurvives` | `DiskQueueProofs` | `Spec => []UnfedSurvivesCrash` |
| `DedupRemembers` | `DetectionProofs` | `Spec => []RemembersAll` |
| `WindowsCount` | `DetectionProofs` | `Spec => []WindowExact` |
| `OneDocument` | `DeliveryProofs` | `Spec => []OneDocPerDay` |
| `NothingUnaccounted` | `DeliveryProofs` | `Spec => []Accounted` |
| `AgentsInOrder` | `DeliveryProofs` | `Spec => []InOrderPerAgent` |
| `CommandInOnePlace` | `RegistryProofs` | `Spec => []OnePlace` |
| `RecordsKept` | `RegistryProofs` | `RecordsSpec => []TablesHold` |
| `BucketsLimit` | `RegistryProofs` | `VirusTotalSpec \/ NotifierSpec \/ ApiSpec => []SpendingHeld` |
| `TablesTellRuns` | `ResponseProofs` | `Spec => []Recorded` |
| `ReportsFound` | `ResponseProofs` | `Spec => []WatchedAsReported` |
| `ManagerReaches` | `ResponseProofs` | `AgentSpec => []Lifeline` |
| `EvidencePreserved` | `ResponseProofs` | `AgentSpec => []EvidenceKept` |
| `BinaryStaysWhole` | `ResponseProofs` | `AgentSpec => []BinaryWhole` |
| `BreachOnce` | `TicketingProofs` | `Spec => []BreachToldOnce` |
| `OneCasePerGroup` | `TicketingProofs` | `Spec => []OneOpenCase` |
| `AlertStaysOnCase` | `TicketingProofs` | `Spec => []AlertOnCase` |
| `NotablesApart` | `TicketingProofs` | `Spec => []NotablesSpaced` |
| `PointsAccounted` | `StreamProofs` | `Spec => []Accounted` |
| `MarkPassesNothing` | `CollectionProofs` | `Spec => []NothingPassedBy` |
| `RecordsComeWhole` | `CollectionProofs` | `Spec => []WholeRecords` |
| `HostToldAsItIs` | `CollectionProofs` | `Spec => []HostIsTold` |

They hold for every value of the constants that satisfies the assumptions of the
modules, in particular for any number of failing calls and restarts together,
of agents, streams, workers and rows, which the runs do not reach. The assumptions
say that bounds are naturals and that enumerations are finite sets of the right
kind; none restricts the code. Two compare numbers of the code. The monthly partitions are
made at least one month ahead (`MonthsAhead`; main.go:100 and 486 pass 3). A bucket of the
API is full again before it is removed (`Full * Step <= StaleAfter + 1`): `rlBucketTTL`
is two minutes and a burst is earned in two seconds, unless an operator configures a burst
of more than 120 times the rate.

`RecordsSpec`, `VirusTotalSpec`, `NotifierSpec` and `ApiSpec` are `Records` and the three
parts of `Notices` on their own. `Services` takes the same steps, one of its parts
at a time and the others at rest, so what holds of the parts holds of it.

*Positions.* `AckBehindSentBehindReader` is not inductive: the checkpointer
carries the position it is about to acknowledge (`cPos`) through three steps.
`PositionInv` adds that, meanwhile, it lies between the acknowledged and the sent
position; a compaction, which resets both, resets it as well.

*Limit.* `LimitInv` adds the same bound for the temporary file, which becomes
the WAL in a later step.

*Feed order.* Compaction does not tell the reader, which goes on at its old
offset in a file whose bytes have moved. Why it still feeds nothing twice: a
compaction moves cells only towards the front. `OrderInv` says so in five
parts. The WAL's cells are ordered by the time they were written, and everything
beyond the reader's place is newer than what it has fed (`WalInv`). If the
reader still has the file that a rename replaced, each of its cells precedes
what the new file has beyond the same offset (`OldInv`). The temporary file is a
part of the WAL (`TmpInv`). What the scanner read ahead precedes what the files
hold beyond it (`BufInv`). What was fed is ordered (`SentInv`). Each action
disturbs one or two of the parts; there is a lemma per action and
part. What a stale offset costs is a gap, not a repetition.

*Survival.* Until a compaction or a failed call (`Clean`), every cell of the WAL is
part of a record that is whole (`Whole`). Offsets that lie between two records with
every unfed point ahead are `SafePlaces`; the checkpoint is one, and so are the sent
position, the positions two savers carry, and the reader's own, which may be one
point ahead while it sends (`PlacesInv`). A reader's step to the next record keeps this
only because its buffer is the part of the file between its two offsets
(`ScanInv`), which `FeedOrder` does not need. A point longer than the scanner's
buffer stops the reader before it and so is not lost.

*Deduplication.* `RemembersAll` is inductive with the types of the map
(`PrintsType`): an entry is the fingerprint's last time; a missing one is old, or
in `pushedOut`. `WorkInv` says that a worker with an alert is at a rule of its
event, so that its fingerprint is one of `Prints`.

*Windows.* `WindowInv` is `WindowExact` with the code's pruning as the reference,
and the order of the times, which makes the two the same (`RecentIsPrune`). It is
kept because pruning composes (`PruneTwice`: gc, other rules and time prune earlier
and by less), lets a new time pass (`PruneAppend`), and takes from a suffix no
more than from the whole (`SuffixPrune`: an evicted window stays the end of what it
should be). The proof has any mix of periods, which the run has not.

*One document.* What makes repetition harmless is that a document's identifier
is computed from the item. `LabelInv` says so of what is in the pipeline's buffer
and in its flushes; `IndexInv` says it of the documents, and that an index holds an
identifier once. Repetitions before the pipeline need no part in this: however
often an item comes, it is given the same identifier.

*Accounted.* `WayInv` follows an item over the hand-overs between the two processes.
`TowerOK` and `VaultOK` say that what a flush replaces is empty, in the forwarder
and in the pipeline. `CallInv`: what a gRPC call carries stays in the batch, and is
on its handler's list or past it, so an answer, which tells the forwarder nothing
about single records, may clear the batch. `PollInv`: what the consumer was handed
is on its list or past it, and what the library may commit is past it, because the
next poll is made only when the list is empty. Past it is also what was skipped. `Somewhere`: an item is in
one of these places or past them all. Each step has one lemma that
says what it moves (`TowerForth`, `VaultForth`, `SendForth`, `LogGrows`).

*Points.* `Accounted` of `AgentStream` is inductive with the types (`StreamType`), and
the proof is arithmetic on twelve numbers, one for each place a point may be in (`Sum`).
Lemmas say what a channel, the log behind the cursor, the hands of the
collectors and the batches on the wire gain or lose; a step takes from one number
what it adds to another. Where a set grows, of points received, lost, dropped, refused or passed over, the
point is new to it, since another place has it (`NotYet`). A wire that breaks holds it
on one side of the break only (`Torn`).

*In order.* `OrderInv` adds three parts to `WayInv`. `TowerOrder`: of a kind, batch,
buffer and channel, in this order, are one increasing line. `LogOrder`: a log may
repeat records, but shows each for the first time in order; and what the forwarder still
holds and can be encoded is in the log already, left there by an attempt that failed, or
greater than all of it. This is where the producer's promise is used, to give up on a
record together with those after it (`Partial`). `SeenInv`: what the consumer has seen of
a log is what the log begins with, wherever it went back to. A poll takes the log from a
place up to which all was seen, so a record that comes late has been seen.

*Commands.* `Places` counts positions in queues. `RegistryInv` says the same in
two parts that are easier to keep: a command has one holder, a queue or a sender
or one of the ends a command may come to (`HolderInv`), and it is in no queue
twice (`DistinctInv`). `HandsInv` ties what a goroutine holds between two steps to
its place. `SomeMove` and `NothingMoves` reduce every action to: one command
changes its holder, or none does.

*Tables.* `AuditInv`: what was logged is a chain for each run of the manager, and the
link in the logger's hands (`prevHash`) is the last record of this run; a record that is
on its way to the sink is in one goroutine's hands and in no index yet. That a removal
shows needs an induction along the chain: of the indexed records of a run behind the
removed one, the first is one whose predecessor is missing (by the library's smallest element of a
set of naturals). `VersionInv`: a saver that asked for the highest version knows
one at least as high as every row there was when it began, and each row remembers as much.
`RosterInv`: an entry that an operator edited while a sync ran is in the
sync's `stale`. `AlertInv`: while the manager serves and making partitions did not fail when
last tried, this month has one, and so has the next once this month's maintenance has run.

*Buckets.* `SpendingHeld` speaks of every interval between two takes; the
invariants speak of the time since any moment `s`. What was taken since and what is left add
up to at most a full bucket and what was earned since (`Upper`), and to at least what was
earned since at the worst rounding, or to a full bucket (`Lower`). A bucket of whole tokens
forgets up to `Step - 1` ticks whenever it is filled, and not before `Step` ticks, so a
token costs less than two. `LimitKept` and `GenerousKept` take these to the two halves of the property when
a token is taken, `RefusalAdded` when one is refused. The API counts in ticks and forgets
nothing, but its callers read the clock before they lock the bucket, so `lastSeen` may go
back. What never grows is the `Credit` of a bucket, its tokens less the time it was filled:
`TickUpper` bounds by it what may still be taken, counting as `orphans` the tokens of requests that hold a
removed bucket and those of a bucket that replaced one in use, and
`TickLower` what must have been taken, up to the latest clock that was used on it (`newest`).

*Runs.* `PlayInv` follows a run over its places. `StepInv`: how many results a run has
at each, and that it failed exactly when the last one did and may not be passed over. `EffectInv`:
what had its effect is a success or was asked of another system, and what is a
success had its effect, at each step and not only at the end. `RowInv`: whoever acts
has a row, or had it until a deletion, and a final status was written from the run's
results when they were complete. With these, `ResultsTold` is a matter of reading
`Status`. `CountInv` needs that a run which has not come to its actions has not counted
itself (`CountedStarted`), and that an id not given out yet has a count of 0, which
`Create` relies on.

*Lists.* `TakenInv`: the object a run took from the map is the present one or one that a
feed or a request replaced since the start, and once added to it has the key; so what
`AppendToFile` reports is true of the object it reports (`Stands`). `NewObject` and
`GrownKeeps` reduce the steps to two: a list gets a new object, or objects and files
only grow. Runs end at a restart, so none holds an object from before.

*Firewall.* `Lifeline` is not inductive, because release and isolation run the
calls in different orders. `FirewallInv` says for each step of either which
rules are in place, `LockInv` that two commands cannot be between those steps at once.

*Evidence.* `MoveInv` follows the file through copy and removal: until the copy is
whole, the source exists. `UploadInv` follows the bundle from the name chosen by the
second to the row.

*Binary.* `BinaryInv` says what each step of the updater has in hand: after the
checksum matched, the downloaded file is a release that the settings allow.

*Cases.* `TicketInv` has three ideas. A row keeps its group and its mark, whoever
writes it (`TableKept`), so what the sweeper knows of a case stays true:
`SweepInv` says that a listed case is not yet told of, and one that is about to be
told of is marked. Between finding and appending, the case a worker found
is of its group (`AppendInv`). And in a group that nobody looked up at once with
another (`Calm`), at most one case is open and then no worker is about to open
one (`GroupInv`), which is `OneOpenCase` without counting.

*Notables.* `RiskInv` says of an agent outside `raced` that at most one process holds
a copy of its row (`Alone`), and that this copy, or without one the row itself,
counts the notables and is no older than any of them (`Copies`). So the copy that
passes the check of the cooldown is a cooldown younger than every notable, which
is `Spaced`. `CopyKept` and `RowRests` reduce the steps that touch no copy to one lemma.

*Cloud sources.* A record that a cut listing leaves out comes after all it gives
(`CutKeepsTheOldest`), so that the mark, the latest of these, is not behind it
(`LeftOutAskedAgain`). Of every source, the mark is the time of a record that was offered,
so that a later one is asked for when it is first listed (`LaterIsAsked`). `CloudInv` adds that
the log is in the order of its times, and that a source that resumes owes nothing while there
is no mark, for then the clock moves the window.

*Tailed files.* A record ends where the next one begins. `Ended` says so of what was
emitted, so that no line written later can belong to it (`EndedKept`); and `InBuilder`
says that the builder holds the lines from the last one that began a record to the
one read last. Both are about files that no pass starts in the middle of and that nobody
emptied (`Small`), which fails once and for all.

*The host.* `RegScan`: the baseline is what was told, and during a scan it agrees with the
keys that were visited and did not change; a key passed over is not there. `ProcScan`:
a pid that was reported has the process that was told or none, since one that begins
under a pid that is known goes unnoticed, which `excused` records.

Checked by TLC only, and why:

* the liveness properties, as TLAPS does not reason about fairness and `ENABLED`;
* `FeedSpec`, the implementation of `OrderedFeed`, whose mapping counts the
  newlines of a file, a recursive function over data;
* `VulnsFollowed`, whose version order is recursive, and the other decisions of algorithms
  over data: Sigma's meaning (`RulesMatch`), the order of decoders (`LogsRead`), the
  statistics of UEBA (`OddTold`);
* what else these three invariants of `Services` say, of the audit log, the connections of
  syslog, the workers that match rules and the scans of `rootcheck`: not attempted.

## 6. Where the code differs from what it says

`DiskQueue_unsent` is a run with a counterexample, and a finding with the
quotation: the checkpoint follows what entered the output channel, not what the
stream sent, so up to 2048 points are skipped after a crash
(`queue/diskqueue.go:187`), though the comment at line 36 promises them.

### Further observations

Met while modelling. Those with a name in parentheses are definitions that say
the opposite and are kept beside the properties, without a run; the others are visible in the
exceptions that the properties name, or in comments.

Agent:

* Compaction decides in one critical section and truncates or renames in another:
  a point written in between is deleted unread (`CompactionKeepsUnfed`). The reader's
  offset is stale after a compaction (`diskqueue.go:198`).
* With a disk queue, nothing reads `dataCh`, to which the results of commands go and
  the points that `Write` refused, although `agent.go:309` calls it the fallback that
  alone may drop (`RamIsSent`); `active_responses` rows never get a result.
* A batch above 5000 points, which `batch_size` admits, makes the manager end the stream
  (`handler.go:217`), and with it go the batches behind; the agent sends the next alike.
* `agent.go:268` closes `dataCh` although the comment at 334 says that nothing
  does: a collector's goroutine, or a command, that has a point in its hands
  panics. `Accounted` and `Settles` hold up to that step (`up`).
* A restart loses the timers of blocks and isolations; an isolation that fails half
  way stays; several errors of `iptables` are ignored; the timer of an older block
  ends a newer one, so that a repeated block that is skipped as already in force may
  find no rule (`SkippedIsBlocked`). Files and bundles of the same second replace each other.
* The integrity checker only logs; a crash while the hash file is empty loses the
  baseline (`saveHashFile`).
* Cloud polls emit records again that share the cursor's second (`OnlyNewer`), and a
  second with more records than a poll lists is never passed. A cut listing loses records for
  good (`CutGoesOn`): Azure and Workspace list the newest first and the cursor goes past those cut off
  (`collector.go:129`); CloudTrail and GuardDuty always list from the first of all, so that
  what is beyond the first 1000 (`collector.go:298`) or 50 (`collector.go:205`) never comes; Defender asks for later
  times than the cursor and loses records of the very time at which a page was cut. A record that is
  listed after a later one is passed over when the query does not reach back to it (`behind`).
* The tailer may join pieces of two records when the file is emptied under it, and
  keeps the last multi-line record of a file until another begins.
* File integrity takes a new file into its baseline without a report, ignores
  renames, and does not watch directories made later. Events handled late name the
  wrong user, when the audit record of a later change came first.
* The audit log's tailer reads a file twice that is rotated between `Stat` and
  `Open`, and ends for good when a reopening fails. A partial line at the end is dropped.
* `rootcheck`: the comment at `collector_linux.go:172` says that the first scan is
  silent, the code alerts on every SUID file; ports have no second look; a failing
  `ps` on the second look counts as hidden.

Manager:

* `registry.go:117`: `Register` flushes the pending commands before the stream has
  made the channel, and a flush without a channel throws them away
  (`QueueFlushedOrKept`). An agent whose last message is a heartbeat is `running`,
  which the disconnect monitor does not look for (`SilentIsReported`).
  `registry.go:92`: a flush may send on a channel that `DeleteAgent` has closed (`FlushPanics`).
* `correlation.go:218`: making room for one rule prunes the windows it visits with
  that rule's period, and `correlation.go:208`: gc prunes with 24 hours. A rule whose
  period is longer than the other rule's, or than 24 hours, counts too few:
  `WindowExact` is about the others (`Spared`). Without this condition it is violated
  with the periods `ShortAndLong` of `MCDetection`.
* `engine.go:307`: an alert whose `InsertAlert` failed is forwarded, and given to
  the hooks, with ID 0: the index keeps one such alert of a day (`overwritten`), and
  casegen lists the alert 0 on a case.
* The indexer refuses more than 2000 alerts in a batch, the forwarder sends up to
  5000 and does not read the answer (`FailedBatchesKept`). The dead-letter queue is never read.
* A record that cannot be marshalled, decoded or validated is only logged
  (`kafka_producer.go:82`, `consumer.go:106`, `handler.go:67`), and its offset committed; it ends in
  `skipped`. Over gRPC one event that cannot be marshalled takes the batch to the dead letters (`client.go:101`).
* casegen finds and creates in two statements (`overlap`). `Update` of a case writes
  back the alerts and the owner it read (`PatchKeepsAlerts`), does not recompute the
  time of the warning with a new priority, and leaves the mark of the old deadline. The sweeper raises
  the priority that it listed, not the one the row has.
* `rba`: an error of `GetRbaEntityRisk` is taken for a new agent, and the write back
  resets its threshold and cooldown; two workers may fire within one cooldown (`raced`).
* Playbooks: two concurrent `Update`s lose one; an unresolved `{{src_ip}}` is used
  as it is; `notify_email` only logs; `SendCommand` always says yes.
* Lists: one canonical form is used for adding and looking up (`list.go:39`), but
  `Add` only trims and lowers: `1.2.3.4:443`, an IPv6 address written out and
  `evil.com.` are stored as spelt and never found (`WatchedInAnySpelling`).
  A playbook adds to the list it looked up, which a feed has replaced, and a
  restart keeps what only the file has (`WatchSurvivesRestart`). A feed other than MISP that answers with an
  empty or an HTML page empties its list; networks in CIDR form are dropped.
* UEBA: the z-score of one among n hosts is at most sqrt(n-1), so small fleets
  never show an outlier; not every anomaly has its alert, although
  `ueba/analyzer.go:781` says so (`AnomalyAlerted`).
* Notices: a full bucket and its refill let eight requests go to VirusTotal in one
  minute; refills are cut to whole tokens; a look-up of the same key may run twice at once.
  The API reads the clock before it locks the bucket (`ratelimit.go:25`): a request overtaken between takes the time
  between from the bucket, so the next are refused too early (`RefusedWhenEmpty`), and a bucket in use may be removed.
* Sigma: rules are given the type "field", which no event has; a negated condition uses a look-ahead
  that Go's regular expressions refuse; `a or b and c` loses `a`; field names of mixed case do not match.
  `parser.go:192` claims lists of maps, which line 198 makes a literal text of the message; wildcards
  (286) and unknown modifiers such as `cidr` (297) are literal texts too, `timeframe` (170) is
  a selection of `all of them`, and an empty text demands nothing (`SigmaFormsRead`).
  `contains|all` is read as any, and of two matches of one field in a map one is kept; neither is modelled.
* Rules: the matcher's list and index are changed without a lock (`matcher.go:131`): one of two
  overlapping additions may be lost (`unsure`), and a worker that reads meanwhile may miss rules
  (`raced`). Rules of the API are in memory only.
* Alerts are never marked as forwarded, so the archive never moves any; versions of
  a rule file are `MAX + 1` in a statement of their own; the audit chain starts anew after a restart.

## 7. What is not modelled

* Configuration parsing, service installation, TLS, the resource limiter (it only
  logs), the agent's development manager.
* Of the collectors: system inventory, SCA and package lists (a list read once), the Windows
  event log, the journal, the generic network and memory probes.
* Of UEBA: the network behaviour, seasonal and per-entity baselines, off-hours and
  users' risk, which are functions of one window like the modelled ones.
* Licence checks, AI triage, identity beyond the roster's sync, the API handlers
  that read or write one row, search, index templates and retention, the dashboard
  (a Python client of the API) and the deployment scripts.
* Disk: the kernel does not crash (the code never calls `fsync`), one `write` is
  atomic to a reader.
* Statistics, logs and the contents of messages. Rules and decoders are constants in
  `Detection` and are modelled as such in `RuleMatching` and `SyslogInput`.
* The forwarder's cap of 50000 events is out of reach, because 500 events make a
  flush due; the runs keep it small for alerts, where it is not.
* Groups, labels and validation of fields in the registry.

## 8. Plan

Done, in this order, most important first: `OrderedFeed`, `DiskQueue` and its
proofs; `AgentRegistry`; `Forwarder`, `VaultPipeline`, `Delivery`; `Correlation`,
`Dedup`, `Detection`; `AgentStream`; `Ticketing`; `Response`; `Collection`; `Enforcement`;
`Services`; the proofs of section 5, of the core first and of the tables and buckets last.

Left to TLC are the properties that section 5 names last.
