------------------------------ MODULE Delivery ------------------------------
(***************************************************************************)
(* The way of events and alerts from the manager's engine to OpenSearch:   *)
(* the forwarder (Forwarder), a transport, the indexer's pipeline          *)
(* (VaultPipeline).                                                        *)
(*                                                                         *)
(* The transport is Kafka, when brokers are configured: a produced batch   *)
(* is appended to one log per kind and agent, the consumer goroutine of    *)
(* the indexer polls the logs, and the client library commits now and then *)
(* what it handed out before the last poll.  Or it is gRPC: each attempt   *)
(* is a call, served by a handler that goes on when its caller gave up.    *)
(* Manager and indexer exit and restart on their own.                      *)
(***************************************************************************)
EXTENDS Integers, Sequences, FiniteSets, FiniteSetsExt, SequencesExt

CONSTANTS
    MaxItems, KindOf, ChanCap, BufCap, BatchSize, MaxTries, DlqMax, Transports,
    AgentOf,       \* the agent of each item
    DocId,         \* the event's UUID; the alert's row, 0 when it has none
    MaxBuffer, BulkSize, MaxFlushTries, MaxDays,
    Handlers,      \* goroutines that serve gRPC calls
    Flaws,         \* what may be wrong with each item: choices of flaw
    MaxTaken,      \* maxEventBatchSize and maxAlertBatchSize: 5000 and 2000
    MaxFaults      \* bound: failed attempts, requests and documents, midnights;
                   \* a shutdown or exit of a process counts twice

VARIABLES
    transport, ch, buf, loop, batch, tries, final, cancelled, closed, dlq, next,
    dropped, discarded, evicted,
    buffer, todo, wk, taken, attempt, day, docs, overwritten, refused, rejected,
    exhausted,
    \* Kafka, and the consumer's place in it
    log, pos, ready,
    call,          \* the handler that serves the call in progress
    \* history
    flaw,          \* of an item: a subset of Wrong
    skipped,       \* items left out where they cannot be encoded or read
    refusedWhole,  \* records of batches the handler found too large
    forgotten,     \* records in the memory of a process that exited
    seen, late,    \* records the consumer has got; those that came too late
    faults

Items == 1..MaxItems
Consumer == "consumer"

F == INSTANCE Forwarder
P == INSTANCE VaultPipeline WITH Records <- Items,
                                 Callers <- Handlers \cup {Consumer}

Kinds == F!Kinds

\* The producer cannot marshal it; the consumer cannot decode it; the handler
\* finds it invalid, or cannot decode it.
Wrong == {"encode", "decode", "invalid"}

\* Mutant: records are not keyed by agent.
PartitionOfRecord(i) == <<KindOf[i], i>>

\* The topic, and the key that selects the partition.
PartitionOf(i) == <<KindOf[i], AgentOf[i]>>

Partitions == {PartitionOf(i) : i \in Items}

ASSUME DeliveryAssumption ==
    /\ F!ForwarderAssumption /\ P!PipelineAssumption
    /\ Flaws \subseteq [Items -> SUBSET Wrong]
    /\ MaxTaken \in [Kinds -> Nat] /\ MaxFaults \in Nat
    /\ IsFiniteSet(Handlers)
    /\ Handlers \cap {Consumer, "flushLoop", "none", "broken"} = {}

kafka   == <<log, pos, ready, seen, late>>
history == <<flaw, skipped, refusedWhole, forgotten>>
tower   == <<transport, ch, buf, loop, batch, tries, final, cancelled, closed,
             dlq, next, dropped, discarded, evicted>>
vault   == <<buffer, todo, wk, taken, attempt, day, docs, overwritten, refused,
             rejected, exhausted>>
vars    == <<tower, vault, kafka, call, history, faults>>

Init ==
    /\ F!Init /\ P!Init
    /\ log = [p \in Partitions |-> <<>>]
    /\ pos = [p \in Partitions |-> 0]
    /\ ready = pos
    /\ call = "none"
    /\ flaw \in Flaws /\ skipped = {}
    /\ refusedWhole = {} /\ forgotten = {} /\ seen = {} /\ late = {}
    /\ faults = 0

Fault == faults < MaxFaults /\ faults' = faults + 1
Rare  == faults + 2 <= MaxFaults /\ faults' = faults + 2

-----------------------------------------------------------------------------
(* An attempt with Kafka                                                   *)

\* ProduceSync(batch): the records at K have been appended to their partitions.
Produce(K) ==
    log' = [p \in Partitions |->
              log[p] \o LET here == {k \in K : PartitionOf(batch[loop][k]) = p}
                        IN  [n \in 1..Cardinality(here) |->
                               batch[loop][CHOOSE k \in here :
                                   Cardinality({j \in here : j <= k}) = n]]]

\* The records of the batch that json.Marshal encodes; the others are left out.
Encoded == {k \in 1..Len(batch[loop]) : "encode" \notin flaw[batch[loop][k]]}

LeaveOut ==
    skipped' = skipped \cup {batch[loop][k] : k \in (1..Len(batch[loop])) \ Encoded}

\* The producer keeps the order of a partition: it gives up on a record and on
\* those after it.
Partial ==
    {K \in SUBSET Encoded :
        \A k \in K : \A j \in Encoded :
            j <= k /\ PartitionOf(batch[loop][j]) = PartitionOf(batch[loop][k])
                => j \in K}

\* A closed client takes no record, but an empty list of them has no error.
KafkaSends ==
    /\ loop \in Kinds /\ transport = "kafka" /\ (closed => Encoded = {})
    /\ Produce(Encoded) /\ LeaveOut
    /\ F!SendEnds(TRUE)
    /\ UNCHANGED <<vault, pos, ready, seen, late, call, flaw, refusedWhole,
                   forgotten, faults>>

\* FirstErr: some record failed, whatever became of the others.
KafkaFails ==
    /\ loop \in Kinds /\ transport = "kafka" /\ Encoded # {}
    /\ \/ closed /\ UNCHANGED <<log, faults>>
       \/ ~closed /\ Fault /\ \E K \in Partial : Produce(K)
    /\ LeaveOut
    /\ F!SendEnds(FALSE)
    /\ UNCHANGED <<vault, pos, ready, seen, late, call, flaw, refusedWhole,
                   forgotten>>

-----------------------------------------------------------------------------
(* An attempt with gRPC                                                    *)

\* One event that cannot be marshalled fails the attempt; of an alert nothing is.
Unsendable == loop = "event" /\ Encoded # 1..Len(batch[loop])

\* IngestEvents or IngestAlerts receives the batch.  One that is too large is
\* counted as failed, and answered like any other.
Call(h) ==
    /\ loop \in Kinds /\ transport = "grpc" /\ ~closed /\ call = "none"
    /\ ~Unsendable
    /\ todo[h] = <<>> /\ wk[h] = "idle"
    /\ call' = h
    /\ IF Len(batch[loop]) <= MaxTaken[loop]
       THEN todo' = [todo EXCEPT ![h] = batch[loop]] /\ UNCHANGED refusedWhole
       ELSE /\ refusedWhole' = refusedWhole \cup F!SetOf(batch[loop])
            /\ UNCHANGED todo
    /\ UNCHANGED <<tower, buffer, wk, taken, attempt, day, docs, overwritten,
                   refused, rejected, exhausted, kafka, flaw, skipped, forgotten,
                   faults>>

\* The client does not look at how many records failed.
Answer ==
    /\ call \in Handlers /\ todo[call] = <<>> /\ wk[call] = "idle" /\ ~closed
    /\ call' = "none"
    /\ F!SendEnds(TRUE)
    /\ UNCHANGED <<vault, kafka, history, faults>>

\* The call cannot be made, is interrupted or takes more than two minutes.
CallFails ==
    /\ loop \in Kinds /\ transport = "grpc"
    /\ \/ (closed \/ call = "broken" \/ Unsendable) /\ UNCHANGED faults
       \/ ~closed /\ call # "broken" /\ Fault
    /\ call' = "none"
    /\ F!SendEnds(FALSE)
    /\ UNCHANGED <<vault, kafka, history>>

-----------------------------------------------------------------------------
(* The consumer                                                            *)

\* Mutant: the records are handed to goroutines, and the next poll is made.
HandledByOthers == wk[Consumer] = "idle"

\* EachRecord has returned.
Handled == todo[Consumer] = <<>> /\ wk[Consumer] = "idle"

\* Record i was forwarded before j, a record of the same agent and kind.
Precedes(i, j) == i < j /\ KindOf[i] = KindOf[j] /\ AgentOf[i] = AgentOf[j]

\* Places in the logs: one offset per partition.
Offsets == [Partitions -> 0..Max({Len(log[p]) : p \in Partitions})]
Within(u, v) == \A p \in Partitions : u[p] <= v[p]
End == [p \in Partitions |-> Len(log[p])]

\* How far a poll may get: PollFetches returns what the library has fetched.
Upto == {u \in Offsets : u # pos /\ Within(pos, u) /\ Within(u, End)}

\* A turn of loop.  What the library handed out before it may now commit.
Poll ==
    /\ Handled
    /\ \E upto \in Upto, ps \in SetToSeqs(Partitions) :
        LET fetched(p) == SubSeq(log[p], pos[p] + 1, upto[p])
            records == FlattenSeq([n \in 1..Len(ps) |-> fetched(ps[n])])
            before(n) == seen \cup {records[m] : m \in 1..(n - 1)}
        IN  /\ todo' = [todo EXCEPT ![Consumer] = records]
            /\ pos' = upto /\ ready' = pos
            /\ seen' = seen \cup F!SetOf(records)
            /\ late' = late \cup
                 {records[n] : n \in {n \in 1..Len(records) :
                     /\ records[n] \notin before(n)
                     /\ \E j \in before(n) : Precedes(records[n], j)}}
    /\ UNCHANGED <<tower, buffer, wk, taken, attempt, day, docs, overwritten,
                   refused, rejected, exhausted, log, call, history, faults>>

-----------------------------------------------------------------------------
(* The records of a poll and of a call                                     *)

\* handleEvent and handleAlert return at a record they cannot decode; the
\* handler goes on past an invalid one, and past one it cannot decode.
Unfit(c, i) == (IF c = Consumer THEN "decode" ELSE "invalid") \in flaw[i]

Skips(c) ==
    /\ wk[c] = "idle" /\ todo[c] # <<>> /\ Unfit(c, Head(todo[c]))
    /\ todo' = [todo EXCEPT ![c] = Tail(@)]
    /\ skipped' = skipped \cup {Head(todo[c])}
    /\ UNCHANGED <<tower, buffer, wk, taken, attempt, day, docs, overwritten,
                   refused, rejected, exhausted, kafka, call, flaw, refusedWhole,
                   forgotten, faults>>

Handles(c) ==
    /\ P!Process(c) /\ ~Unfit(c, Head(todo[c]))
    /\ UNCHANGED <<tower, kafka, call, history, faults>>

-----------------------------------------------------------------------------
(* The two processes                                                       *)

TowerRuns ==
    /\ \/ F!Forward
       \/ \E k \in Kinds : F!Receive(k)
       \/ F!Tick \/ F!LastFlush \/ F!Stop
    /\ UNCHANGED <<vault, kafka, call, history, faults>>

TowerStops ==
    /\ Rare /\ F!Cancel
    /\ UNCHANGED <<vault, kafka, call, history>>

TowerExits ==
    /\ Rare
    /\ F!Exit
    /\ forgotten' = forgotten \cup F!Held \cup F!Dead
    /\ call' = "none"
    /\ UNCHANGED <<vault, kafka, flaw, skipped, refusedWhole>>

VaultRuns ==
    \/ \E c \in Handlers \cup {Consumer} : Handles(c) \/ Skips(c)
    \/ /\ P!Tick \/ \E w \in P!Workers : P!Take(w)
       /\ UNCHANGED <<tower, kafka, call, history, faults>>

VaultBulk(w) ==
    /\ \/ P!BulkOK(w) /\ rejected' = rejected /\ UNCHANGED faults
       \/ P!BulkOK(w) /\ rejected' # rejected /\ Fault
       \/ P!BulkFails(w) /\ Fault
    /\ UNCHANGED <<tower, kafka, call, history>>

Midnight ==
    /\ Fault /\ P!Midnight
    /\ UNCHANGED <<tower, kafka, call, history>>

\* The consumer starts again from what was committed, now or earlier.
VaultExits ==
    /\ Rare
    /\ P!Exit
    /\ forgotten' = forgotten \cup P!Held
    /\ pos' \in {u \in Offsets : Within(u, ready)}
    /\ ready' = pos'
    /\ call' = IF call \in Handlers THEN "broken" ELSE call
    /\ UNCHANGED <<tower, log, seen, late, flaw, skipped, refusedWhole>>

Transport == KafkaSends \/ KafkaFails \/ (\E h \in Handlers : Call(h))
             \/ Answer \/ CallFails

Next == TowerRuns \/ Transport \/ Poll \/ VaultRuns
        \/ (\E w \in P!Workers : VaultBulk(w)) \/ Midnight
        \/ TowerStops \/ TowerExits \/ VaultExits

Spec == Init /\ [][Next]_vars

-----------------------------------------------------------------------------
(* Fairness: while a goroutine past the engine has work, one of them goes on. *)
RunLoop ==
    /\ (\E k \in Kinds : F!Receive(k)) \/ F!Tick
    /\ UNCHANGED <<vault, kafka, call, history, faults>>

Pipeline(w) ==
    \/ w \in Handlers \cup {Consumer} /\ (Handles(w) \/ Skips(w))
    \/ /\ (w = "flushLoop" /\ P!Tick) \/ P!Take(w)
       /\ UNCHANGED <<tower, kafka, call, history, faults>>
    \/ VaultBulk(w)

Work == RunLoop \/ Transport \/ Poll \/ \E w \in P!Workers : Pipeline(w)

LiveSpec == Spec /\ WF_vars(Work)

-----------------------------------------------------------------------------
(* Properties                                                              *)

TypeOK ==
    /\ F!TypeOK /\ P!TypeOK
    /\ log \in [Partitions -> Seq(Items)]
    /\ \A p \in Partitions : /\ ready[p] <= pos[p] /\ pos[p] <= Len(log[p])
    /\ call \in Handlers \cup {"none", "broken"}
    /\ call # "none" => loop \in Kinds
    /\ \A r \in {skipped, refusedWhole, forgotten, seen, late} : r \subseteq Items
    /\ flaw \in Flaws
    /\ faults \in 0..MaxFaults

Indexed == {d.item : d \in docs}
Waiting == UNION {{log[p][n] : n \in (pos[p] + 1)..Len(log[p])}
                  : p \in Partitions}

\* Every way an item may end without being in the index.
Lost == UNION {dropped, discarded, evicted, F!Dead, overwritten, refused, rejected,
               exhausted, skipped, refusedWhole, forgotten}

\* An item the engine forwarded is held by a process, waits in Kafka, is in the
\* index or ended in one of the ways Lost names: no flush, attempt, retry, poll,
\* commit, exit or restart makes it disappear in another way. In particular what
\* is ready to be committed was processed (ProcessEvent, ProcessDocument) or is lost.
Accounted ==
    /\ 1..(next - 1) \subseteq
         UNION {F!Held, P!Held, Waiting, Indexed, Lost}
    /\ \A p \in Partitions, n \in 1..MaxItems :
         n <= ready[p] => log[p][n] \in UNION {Indexed, P!Pending, Lost}

\* Batches are repeated, calls go on after their caller gave up, the consumer
\* starts again from an old offset and bulk requests are sent twice; still, as
\* the document's _id is the event's, an index has one document per item.
OneDocPerDay ==
    \A d, e \in docs : d.item = e.item /\ d.day = e.day => d = e

\* The records of an agent reach the consumer in the order they were forwarded,
\* whatever is repeated, lost or delivered again.
InOrderPerAgent == late = {}

\* The buffer exceeds its flush size only by what callers that are about to
\* flush have added: however slow OpenSearch is, its cap is out of reach.
BufferNearBulk ==
    Len(buffer) < BulkSize + Cardinality({w \in Handlers \cup {Consumer} :
                                            wk[w] = "flush"})

\* A forwarded item ends in the index or in Lost, unless the manager is stopped.
Settles ==
    \A i \in Items :
        i < next ~> i \in Indexed \cup Lost \/ cancelled

-----------------------------------------------------------------------------
(* What a comment promises, and the code does not keep                     *)

\* forwarder.go:47, "dead-letter queue for batches that fail after all retries":
\* a batch the indexer does not take is in the queue.
FailedBatchesKept == refusedWhole \subseteq UNION {F!Dead, F!Held, evicted, forgotten}
=============================================================================
