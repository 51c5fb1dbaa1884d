---------------------------- MODULE VaultPipeline ----------------------------
(***************************************************************************)
(* The indexer's bulk pipeline (WatchVault/internal/pipeline/pipeline.go)  *)
(* and what it does to OpenSearch (opensearch/bulk.go).                    *)
(*                                                                         *)
(* Callers - the Kafka consumer, each running gRPC handler - put documents *)
(* in one buffer.  The caller that makes the buffer long enough flushes it *)
(* itself, after it released the lock; flushLoop flushes on every tick.    *)
(* Several flushes may run at once, each with the documents it took.  A    *)
(* bulk request that fails is repeated; after MaxFlushTries its documents  *)
(* are dropped.  The index of a document carries the day it was routed.    *)
(***************************************************************************)
EXTENDS Integers, Sequences

CONSTANTS
    Records,        \* what the callers process
    DocId,          \* the _id of a record's document
    Callers,        \* goroutines that process records
    MaxBuffer,      \* maxBufferItems: 100000
    BulkSize,       \* documents that make a flush due, 500 by default
    MaxFlushTries,  \* maxFlushRetries: 3
    MaxDays         \* bound: midnights

PipelineAssumption ==
    /\ DocId \in [Records -> Nat]
    /\ MaxBuffer \in Nat \ {0} /\ BulkSize \in Nat \ {0}
    /\ MaxFlushTries \in Nat \ {0} /\ MaxDays \in Nat

Workers == Callers \cup {"flushLoop"}

VARIABLES
    buffer,      \* documents [item, id, day]
    todo,        \* what each caller still has to process
    wk,          \* each goroutine: idle, about to flush, or in a bulk request
    taken,       \* the documents of its flush
    attempt,     \* bulk requests made for them
    day,
    docs,        \* the documents in OpenSearch
    overwritten, \* records whose document another record's has replaced
    refused,     \* records that met a full buffer
    rejected,    \* records whose document a bulk response reports as failed
    exhausted    \* records of a flush that failed MaxFlushTries times

vars == <<buffer, todo, wk, taken, attempt, day, docs, overwritten, refused,
          rejected, exhausted>>

flushing == <<wk, taken, attempt>>
indexed  == <<docs, overwritten>>
failures == <<refused, rejected, exhausted>>

SetOf(s) == {s[i] : i \in 1..Len(s)}
ItemsOf(ds) == {d.item : d \in ds}

Init ==
    /\ buffer = <<>> /\ todo = [c \in Callers |-> <<>>]
    /\ wk = [w \in Workers |-> "idle"] /\ taken = [w \in Workers |-> <<>>]
    /\ attempt = [w \in Workers |-> 0]
    /\ day = 0
    /\ docs = {} /\ overwritten = {}
    /\ refused = {} /\ rejected = {} /\ exhausted = {}

-----------------------------------------------------------------------------
\* Mutant: no _id is sent, and OpenSearch makes a new one each time.
RoutedWithoutId(i) ==
    LET ds == docs \cup SetOf(buffer) \cup UNION {SetOf(taken[w]) : w \in Workers}
    IN  [item |-> i, day |-> day,
         id |-> CHOOSE n \in 100..200 : \A d \in ds : d.id # n]

\* routeEvent, indexName and ProcessDocument: the document and its index.
Routed(i) == [item |-> i, id |-> DocId[i], day |-> day]

FlushDue(b) == Len(b) >= BulkSize

\* ProcessEvent and ProcessDocument, called for the first record of c's list.
Process(c) ==
    LET i == Head(todo[c])
        b == Append(buffer, Routed(i))
    IN  /\ wk[c] = "idle" /\ todo[c] # <<>>
        /\ todo' = [todo EXCEPT ![c] = Tail(@)]
        /\ IF Len(buffer) >= MaxBuffer
           THEN refused' = refused \cup {i} /\ UNCHANGED <<buffer, wk>>
           ELSE /\ buffer' = b
                /\ wk' = [wk EXCEPT ![c] = IF FlushDue(b) THEN "flush" ELSE @]
                /\ UNCHANGED refused
        /\ UNCHANGED <<taken, attempt, day, indexed, rejected, exhausted>>

\* Mutant: the ticker flushes only what is long enough.
TickWhenDue == FlushDue(buffer)

\* Every tick flushes, however little there is.
TickFlushes == buffer # <<>>

Tick ==
    /\ wk["flushLoop"] = "idle" /\ TickFlushes
    /\ wk' = [wk EXCEPT !["flushLoop"] = "flush"]
    /\ UNCHANGED <<buffer, todo, taken, attempt, day, indexed, failures>>

\* The critical section of flush; another flush may have emptied the buffer.
Take(w) ==
    /\ wk[w] = "flush"
    /\ buffer' = <<>>
    /\ IF buffer = <<>>
       THEN wk' = [wk EXCEPT ![w] = "idle"] /\ UNCHANGED <<taken, attempt>>
       ELSE /\ wk' = [wk EXCEPT ![w] = "bulk"]
            /\ taken' = [taken EXCEPT ![w] = buffer]
            /\ attempt' = [attempt EXCEPT ![w] = 0]
    /\ UNCHANGED <<todo, day, indexed, failures>>

SameDoc(d, e) == d.id = e.id /\ d.day = e.day

\* OpenSearch applies the documents of s at the positions K, in order: one
\* with the _id and the index of another replaces it.
Apply(s, K) ==
    LET new == {s[k] : k \in {k \in K : \A j \in K : j > k => ~SameDoc(s[j], s[k])}}
        all == docs \cup {s[k] : k \in K}
    IN  /\ docs' = new \cup {d \in docs : \A e \in new : ~SameDoc(d, e)}
        /\ overwritten' = overwritten \cup
               {d.item : d \in {d \in all : \E e \in new : SameDoc(d, e)
                                                            /\ e.item # d.item}}

Idle(w) ==
    /\ wk' = [wk EXCEPT ![w] = "idle"]
    /\ taken' = [taken EXCEPT ![w] = <<>>]
    /\ attempt' = [attempt EXCEPT ![w] = 0]

\* The request succeeds: documents the response reports as failed are logged,
\* and the flush is over for all of them.
BulkOK(w) ==
    \E K \in SUBSET (1..Len(taken[w])) :
        /\ wk[w] = "bulk"
        /\ Apply(taken[w], K)
        /\ rejected' = rejected \cup
               {taken[w][k].item : k \in (1..Len(taken[w])) \ K}
        /\ Idle(w)
        /\ UNCHANGED <<buffer, todo, day, refused, exhausted>>

\* The request fails, or its response is lost after it was carried out.
BulkFails(w) ==
    \E K \in {{}, 1..Len(taken[w])} :
        /\ wk[w] = "bulk"
        /\ Apply(taken[w], K)
        /\ IF attempt[w] + 1 < MaxFlushTries
           THEN /\ attempt' = [attempt EXCEPT ![w] = @ + 1]
                /\ UNCHANGED <<wk, taken, exhausted>>
           ELSE /\ exhausted' = exhausted \cup ItemsOf(SetOf(taken[w]))
                /\ Idle(w)
        /\ UNCHANGED <<buffer, todo, day, refused, rejected>>

Midnight ==
    /\ day < MaxDays /\ day' = day + 1
    /\ UNCHANGED <<buffer, todo, flushing, indexed, failures>>

\* What has been processed and is not settled yet, and all that the process
\* keeps in memory.
Pending == ItemsOf(SetOf(buffer) \cup UNION {SetOf(taken[w]) : w \in Workers})
Held    == Pending \cup UNION {SetOf(todo[c]) : c \in Callers}

\* Stop signals flushLoop and main returns: the last flush may or may not
\* happen.  A crash is the same.
Exit ==
    /\ buffer' = <<>> /\ todo' = [c \in Callers |-> <<>>]
    /\ wk' = [w \in Workers |-> "idle"] /\ taken' = [w \in Workers |-> <<>>]
    /\ attempt' = [w \in Workers |-> 0]
    /\ UNCHANGED <<day, indexed, failures>>

-----------------------------------------------------------------------------
Doc == [item : Records, id : Nat, day : 0..MaxDays]

TypeOK ==
    /\ buffer \in Seq(Doc) /\ Len(buffer) <= MaxBuffer
    /\ todo \in [Callers -> Seq(Records)]
    /\ wk \in [Workers -> {"idle", "flush", "bulk"}]
    /\ taken \in [Workers -> Seq(Doc)]
    /\ attempt \in [Workers -> 0..(MaxFlushTries - 1)]
    /\ \A w \in Workers : wk[w] = "bulk" <=> taken[w] # <<>>
    /\ day \in 0..MaxDays
    /\ docs \subseteq Doc
    /\ \A r \in {overwritten, refused, rejected, exhausted} : r \subseteq Records
=============================================================================
