------------------------------ MODULE Forwarder ------------------------------
(***************************************************************************)
(* The manager's forwarder (WatchTower/internal/forwarder/forwarder.go).   *)
(*                                                                         *)
(* Engine workers put events and alerts on two bounded channels and drop   *)
(* what does not fit.  One goroutine, runLoop, moves them to two buffers,  *)
(* and flushes both: when enough events have gathered, on every tick, and  *)
(* when its context ends.  A flush sends the events, then the alerts, each *)
(* with up to MaxTries attempts; what cannot be sent goes to a bounded     *)
(* dead-letter queue that nothing ever reads.                              *)
(*                                                                         *)
(* An attempt itself is left to the module that knows the transport: it    *)
(* conjoins its effect with SendEnds.                                      *)
(***************************************************************************)
EXTENDS Integers, Sequences

CONSTANTS
    MaxItems,     \* bound: items 1..MaxItems are forwarded, in this order
    KindOf,       \* "event" or "alert" for each item
    ChanCap,      \* capacity of eventCh and alertCh: 10000 and 1000
    BufCap,       \* maxEventBufItems, maxAlertBufItems: 50000 and 5000
    BatchSize,    \* events that make a flush due, 500 by default
    MaxTries,     \* maxSendRetries: 3
    DlqMax,       \* dlqMaxItems: 100
    Transports    \* the transports Start may end up with

Kinds == {"event", "alert"}
Items == 1..MaxItems

ForwarderAssumption ==
    /\ MaxItems \in Nat /\ KindOf \in [Items -> Kinds]
    /\ ChanCap \in [Kinds -> Nat \ {0}] /\ BufCap \in [Kinds -> Nat \ {0}]
    /\ BatchSize \in Nat \ {0} /\ MaxTries \in Nat \ {0}
    /\ DlqMax \in Nat \ {0}
    /\ Transports \subseteq {"kafka", "grpc", "none"} /\ Transports # {}

VARIABLES
    transport,  \* kafkaProducer, else client, else neither
    ch,         \* eventCh and alertCh
    buf,        \* eventBuf and alertBuf
    loop,       \* runLoop: in its select, sending a kind, or returned
    batch,      \* what the flush in progress took from the buffers
    tries,      \* attempts made to send batch[loop]
    final,      \* runLoop returns after this flush
    cancelled,  \* the context is done
    closed,     \* Stop has closed the transport
    dlq,
    next,       \* the next item to be forwarded
    dropped,    \* did not fit a channel or a buffer, and counted
    discarded,  \* flushed while there was no transport
    evicted     \* pushed out of the full dead-letter queue

vars == <<transport, ch, buf, loop, batch, tries, final, cancelled, closed, dlq,
          next, dropped, discarded, evicted>>

\* What a flush touches, and the rest of runLoop's state.
sending == <<loop, batch, tries, final>>

SetOf(s) == {s[i] : i \in 1..Len(s)}
Both(f)  == SetOf(f["event"]) \cup SetOf(f["alert"])
Nothing  == [k \in Kinds |-> <<>>]

Init ==
    /\ transport \in Transports
    /\ ch = Nothing /\ buf = Nothing
    /\ loop = "select" /\ batch = Nothing /\ tries = 0 /\ final = FALSE
    /\ cancelled = FALSE /\ closed = FALSE /\ dlq = <<>>
    /\ next = 1 /\ dropped = {} /\ discarded = {} /\ evicted = {}

-----------------------------------------------------------------------------
\* ForwardEvent and ForwardAlert, by any engine worker.
Forward ==
    LET k == KindOf[next] IN
    /\ next <= MaxItems /\ next' = next + 1
    /\ IF Len(ch[k]) < ChanCap[k]
       THEN ch' = [ch EXCEPT ![k] = Append(@, next)] /\ UNCHANGED dropped
       ELSE dropped' = dropped \cup {next} /\ UNCHANGED ch
    /\ UNCHANGED <<transport, buf, sending, cancelled, closed, dlq, discarded,
                   evicted>>

Rest(last) == IF last THEN "done" ELSE "select"

\* flush: both buffers are emptied before it is known whether what they held
\* can be sent.
Flush(b, last) ==
    /\ buf' = Nothing
    /\ final' = last
    /\ IF b = Nothing \/ transport = "none"
       THEN /\ loop' = Rest(last)
            /\ discarded' = discarded \cup Both(b)
            /\ UNCHANGED <<batch, tries>>
       ELSE /\ loop' = IF b["event"] # <<>> THEN "event" ELSE "alert"
            /\ batch' = b /\ tries' = 0
            /\ UNCHANGED discarded

\* A turn of runLoop that receives an item.  Only events make a flush due.
Receive(k) ==
    LET i == Head(ch[k])
        fits == Len(buf[k]) < BufCap[k]
        b == IF fits THEN [buf EXCEPT ![k] = Append(@, i)] ELSE buf
    IN  /\ loop = "select" /\ ch[k] # <<>>
        /\ ch' = [ch EXCEPT ![k] = Tail(@)]
        /\ dropped' = IF fits THEN dropped ELSE dropped \cup {i}
        /\ IF k = "event" /\ Len(b[k]) >= BatchSize
           THEN Flush(b, FALSE)
           ELSE buf' = b /\ UNCHANGED <<sending, discarded>>
        /\ UNCHANGED <<transport, cancelled, closed, dlq, next, evicted>>

Tick ==
    /\ loop = "select"
    /\ Flush(buf, FALSE)
    /\ UNCHANGED <<transport, ch, cancelled, closed, dlq, next, dropped, evicted>>

\* ctx.Done() or stopCh: the buffers are flushed, the channels are not drained.
LastFlush ==
    /\ loop = "select" /\ cancelled
    /\ Flush(buf, TRUE)
    /\ UNCHANGED <<transport, ch, cancelled, closed, dlq, next, dropped, evicted>>

\* enqueueDLQ
Enqueued(b) == Append(IF Len(dlq) >= DlqMax THEN Tail(dlq) ELSE dlq, b)

EnqueueDLQ(b) ==
    /\ dlq' = Enqueued(b)
    /\ evicted' = evicted \cup IF Len(dlq) >= DlqMax THEN SetOf(Head(dlq)) ELSE {}

\* The part of the batch that was being sent is done with.
PartDone ==
    /\ tries' = 0
    /\ IF loop = "event" /\ batch["alert"] # <<>>
       THEN loop' = "alert" /\ batch' = [batch EXCEPT !["event"] = <<>>]
       ELSE loop' = Rest(final) /\ batch' = Nothing

\* An attempt of sendWithRetry returns.
SendEnds(ok) ==
    /\ loop \in Kinds
    /\ \/ ok /\ PartDone /\ UNCHANGED <<dlq, evicted>>
       \/ /\ ~ok /\ tries + 1 < MaxTries
          /\ tries' = tries + 1
          /\ UNCHANGED <<loop, batch, dlq, evicted>>
       \/ /\ ~ok /\ tries + 1 >= MaxTries
          /\ EnqueueDLQ(batch[loop])
          /\ PartDone
    /\ UNCHANGED <<transport, ch, buf, final, cancelled, closed, next, dropped,
                   discarded>>

\* The shutdown signal.  Engine workers go on forwarding.
Cancel ==
    /\ ~cancelled /\ cancelled' = TRUE
    /\ UNCHANGED <<transport, ch, buf, sending, closed, dlq, next, dropped,
                   discarded, evicted>>

\* Stop closes the transport; nothing waits for runLoop's last flush.
Stop ==
    /\ cancelled /\ ~closed /\ closed' = TRUE
    /\ UNCHANGED <<transport, ch, buf, sending, cancelled, dlq, next, dropped,
                   discarded, evicted>>

\* Everything the process keeps in memory, the dead letters apart.
Held == Both(ch) \cup Both(buf) \cup Both(batch)
Dead == UNION {SetOf(dlq[i]) : i \in 1..Len(dlq)}

\* The process ends, after Stop or in a crash, and starts again.
Exit ==
    /\ transport' \in Transports
    /\ ch' = Nothing /\ buf' = Nothing
    /\ loop' = "select" /\ batch' = Nothing /\ tries' = 0 /\ final' = FALSE
    /\ cancelled' = FALSE /\ closed' = FALSE /\ dlq' = <<>>
    /\ UNCHANGED <<next, dropped, discarded, evicted>>

-----------------------------------------------------------------------------
TypeOK ==
    /\ transport \in Transports
    /\ ch \in [Kinds -> Seq(Items)] /\ buf \in [Kinds -> Seq(Items)]
    /\ batch \in [Kinds -> Seq(Items)]
    /\ loop \in {"select", "done"} \cup Kinds
    /\ loop \in Kinds <=> batch # Nothing
    /\ tries \in 0..(MaxTries - 1)
    /\ final \in BOOLEAN /\ cancelled \in BOOLEAN /\ closed \in BOOLEAN
    /\ final => cancelled
    /\ dlq \in Seq(Seq(Items)) /\ Len(dlq) <= DlqMax
    /\ next \in 1..(MaxItems + 1)
    /\ dropped \subseteq Items /\ discarded \subseteq Items
    /\ evicted \subseteq Items
=============================================================================
