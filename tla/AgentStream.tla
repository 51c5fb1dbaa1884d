----------------------------- MODULE AgentStream -----------------------------
(***************************************************************************)
(* The way of data points through one run of the agent, from the           *)
(* collectors to the manager (WatchNode/internal/agent/agent.go,           *)
(* communication/client.go, WatchTower/internal/server/grpc/handler.go).   *)
(*                                                                         *)
(* A goroutine per collector writes points to the disk queue, if there is  *)
(* one, or else to the channel dataCh.  RunStream takes them from the one  *)
(* or from the other, batches them and sends the batches on a gRPC stream, *)
(* which it opens again when it breaks.  A second goroutine of the stream  *)
(* executes the manager's commands and puts their results into dataCh.     *)
(* Register is retried until the manager accepts.  Stop shuts it all down. *)
(*                                                                         *)
(* The disk queue is OrderedFeed here, as DiskQueue implements it until the*)
(* WAL is compacted for the first time.  From then on, or once a Write has *)
(* failed in mid-record, the reader's position may be beyond a record or   *)
(* inside one: it still feeds in order and nothing twice (FedInOrderOnce   *)
(* of DiskQueue), but may pass over points.  A record cut exactly before   *)
(* its newline, fed although Write failed, and one too long for the        *)
(* reader's buffer are left to DiskQueue.                                  *)
(***************************************************************************)
EXTENDS Integers, Sequences, FiniteSets, SequencesExt

CONSTANTS
    Sources,     \* the collectors
    RamCap,      \* capacity of dataCh: queue_size, 10000
    OutCap,      \* capacity of the disk queue's channel: 2048
    BatchSize,   \* batch_size, 1000
    MaxBatchPoints,  \* of the manager: 5000
    MaxPoints, MaxCommands,  \* bounds: of the points of a source, of commands
    MaxFaults    \* bound: failed calls and streams

VARIABLES
    disk,        \* does the disk queue work?
    log, cursor, last,   \* the disk queue
    spoiled,     \* its file has been compacted, or holds a part of a record
    reader,      \* does its reader run?
    out,         \* its channel
    ram,         \* dataCh
    made,        \* points each source and the commands have made so far
    src,         \* each source's goroutine, and the point in its hands
    run, batch,  \* RunStream
    intact,      \* the stream is not broken
    recv,        \* the goroutine that receives commands, with a result to report
    wire,        \* batches sent and not yet received
    registration,
    stop,        \* how far Stop has come
    up,          \* the process has not panicked
    \* history
    got,         \* points the manager's engine was given
    lost,        \* points sent on a stream that did not bring them
    passed,      \* points the disk queue's reader passed over in a spoiled file
    refused,     \* points the manager's validation dropped
    dropped,     \* points that found dataCh full
    faults

ASSUME AgentStreamAssumption ==
    /\ RamCap \in Nat \ {0} /\ OutCap \in Nat \ {0} /\ BatchSize \in Nat \ {0}
    /\ MaxBatchPoints \in Nat
    /\ MaxPoints \in Nat /\ MaxCommands \in Nat /\ MaxFaults \in Nat
    /\ IsFiniteSet(Sources) /\ "result" \notin Sources

Points  == (Sources \cup {"result"}) \X (1..(MaxPoints + MaxCommands))
NoPoint == <<>>

Queue == INSTANCE OrderedFeed WITH Point <- Points

queue   == <<log, cursor, last, spoiled>>
data    == <<out, ram, batch, wire, got, lost, dropped, passed, refused>>
threads == <<reader, src, run, intact, recv, registration>>
vars    == <<disk, queue, data, threads, made, stop, up, faults>>

Stages == <<"none", "cancelled", "stopping", "dataClosed", "connClosed", "closed">>

Reached(stage) == \E i, j \in 1..Len(Stages) :
                      i <= j /\ Stages[i] = stage /\ Stages[j] = stop

Cancelled == Reached("cancelled")

At(place, p) == [at |-> place, point |-> p]
Waiting == At("select", NoPoint)

\* Start falls back to dataCh when the disk queue cannot be opened.
Init ==
    /\ disk \in BOOLEAN
    /\ Queue!Init /\ spoiled = FALSE
    /\ reader = disk
    /\ out = <<>> /\ ram = <<>> /\ batch = <<>> /\ wire = <<>>
    /\ made = [s \in Sources \cup {"result"} |-> 0]
    /\ src = [s \in Sources |-> Waiting]
    /\ run = "dial" /\ intact = FALSE /\ recv = Waiting
    /\ registration = "try"
    /\ stop = "none" /\ up = TRUE
    /\ got = {} /\ lost = {} /\ dropped = {} /\ passed = {} /\ refused = {}
    /\ faults = 0

Fault == faults < MaxFaults /\ faults' = faults + 1

-----------------------------------------------------------------------------
(* dataCh                                                                  *)

Room == Len(ram) < RamCap

\* select { case a.dataCh <- p: default: }
Offer(p) ==
    IF Reached("dataClosed")
    THEN up' = FALSE /\ UNCHANGED <<ram, dropped>>   \* send on closed channel
    ELSE /\ UNCHANGED up
         /\ IF Room
            THEN ram' = Append(ram, p) /\ UNCHANGED dropped
            ELSE dropped' = dropped \cup {p} /\ UNCHANGED ram

-----------------------------------------------------------------------------
(* The collectors' goroutines                                              *)

\* One of several ready cases of the select is taken, closed stopCh or not.
Collect(s) ==
    /\ src[s] = Waiting /\ made[s] < MaxPoints
    /\ made' = [made EXCEPT ![s] = @ + 1]
    /\ src' = [src EXCEPT ![s] = At(IF disk THEN "write" ELSE "offer",
                                    <<s, made[s] + 1>>)]
    /\ UNCHANGED <<disk, queue, data, reader, run, intact, recv, registration,
                   stop, up, faults>>

\* diskQueue.Write fails when the queue is full or closed, when a compaction
\* could not open the file again, or in mid-record, when the disk is full.
WriteDisk(s) ==
    /\ src[s].at = "write"
    /\ \/ /\ ~Reached("closed")
          /\ Queue!Accept(src[s].point)
          /\ src' = [src EXCEPT ![s] = Waiting]
          /\ UNCHANGED spoiled
       \/ /\ src' = [src EXCEPT ![s].at = "offer"]
          /\ spoiled' \in {spoiled, TRUE}
          /\ UNCHANGED <<log, cursor, last>>
    /\ UNCHANGED <<disk, data, made, reader, run, intact, recv, registration,
                   stop, up, faults>>

OfferPoint(s) ==
    /\ src[s].at = "offer"
    /\ Offer(src[s].point)
    /\ src' = [src EXCEPT ![s] = IF Reached("dataClosed") THEN @ ELSE Waiting]
    /\ UNCHANGED <<disk, queue, out, batch, wire, got, lost, passed, refused,
                   made, reader, run, intact, recv, registration, stop, faults>>

ExitSource(s) ==
    /\ src[s] = Waiting /\ Reached("stopping")
    /\ src' = [src EXCEPT ![s] = At("exited", NoPoint)]
    /\ UNCHANGED <<disk, queue, data, made, reader, run, intact, recv,
                   registration, stop, up, faults>>

-----------------------------------------------------------------------------
(* The reader of the disk queue, and the checkpointer                      *)

FeedOut ==
    /\ reader /\ Len(out) < OutCap
    /\ Queue!Feed
    /\ out' = Append(out, last')
    /\ UNCHANGED <<disk, spoiled, ram, batch, wire, got, lost, dropped, passed,
                   refused, threads, made, stop, up, faults>>

\* tryCompact, on a tick or after the last checkpoint, once something was fed
\* and acknowledged.  The reader's position is not rebased.
Compact ==
    /\ disk /\ ~spoiled /\ cursor > 0
    /\ spoiled' = TRUE
    /\ UNCHANGED <<disk, log, cursor, last, data, threads, made, stop, up, faults>>

\* The point is before the position the reader goes on from, or glued to a part
\* of a record, or was written while the compaction took place.
PassOver ==
    /\ reader /\ spoiled /\ cursor < Len(log)
    /\ passed' = passed \cup {log[cursor + 1]}
    /\ cursor' = cursor + 1
    /\ UNCHANGED <<disk, log, last, spoiled, out, ram, batch, wire, got, lost,
                   dropped, refused, threads, made, stop, up, faults>>

ReaderEnds ==
    /\ reader /\ Cancelled /\ reader' = FALSE
    /\ UNCHANGED <<disk, queue, data, made, src, run, intact, recv, registration,
                   stop, up, faults>>

-----------------------------------------------------------------------------
(* RunStream                                                               *)

\* A failed call is repeated after a pause that nothing cuts short.  When
\* Close has taken the client away, or the context has ended, RunStream ends.
Dial ==
    /\ run = "dial"
    /\ \/ ~Cancelled /\ run' = "stream" /\ intact' = TRUE /\ UNCHANGED faults
       \/ ~Cancelled /\ Fault /\ UNCHANGED <<run, intact>>
       \/ Cancelled /\ run' = "ended" /\ UNCHANGED <<intact, faults>>
    /\ UNCHANGED <<disk, queue, data, reader, src, recv, registration, made,
                   stop, up>>

\* Mutant: the points stay in the batch.
Unchanged(points) == points

\* batch = batch[:0]
Emptied(points) == <<>>

\* sendBatch ignores the error of stream.Send.  A context that has ended may
\* or may not have reached the stream yet.
SendBatch(points) ==
    /\ \/ intact /\ wire' = (IF points = <<>> THEN wire ELSE Append(wire, points))
                 /\ UNCHANGED lost
       \/ (~intact \/ Cancelled) /\ lost' = lost \cup ToSet(points)
                                 /\ UNCHANGED wire
    /\ batch' = Emptied(points)

\* The channel that Start chose for RunStream.
TakePoint ==
    /\ run = "stream"
    /\ IF disk THEN /\ out # <<>> /\ out' = Tail(out) /\ UNCHANGED ram
               ELSE /\ ram # <<>> /\ ram' = Tail(ram) /\ UNCHANGED out
    /\ LET points == Append(batch, Head(IF disk THEN out ELSE ram))
       IN  IF Len(points) >= BatchSize
           THEN SendBatch(points)
           ELSE batch' = points /\ UNCHANGED <<wire, lost>>
    /\ UNCHANGED <<disk, queue, got, dropped, passed, refused, threads, made,
                   stop, up, faults>>

\* Mutant: the timer sends only what is worth a batch.
DueWhenFull(points) == Len(points) >= BatchSize

Due(points) == points # <<>>

FlushTimer ==
    /\ run = "stream" /\ Due(batch)
    /\ SendBatch(batch)
    /\ UNCHANGED <<disk, queue, out, ram, got, dropped, passed, refused, threads,
                   made, stop, up, faults>>

\* Recv has returned an error: another stream is opened.
StreamDone ==
    /\ run = "stream" /\ ~intact /\ recv = Waiting
    /\ SendBatch(batch)
    /\ run' = "dial"
    /\ UNCHANGED <<disk, queue, out, ram, got, dropped, passed, refused, reader,
                   src, intact, recv, registration, made, stop, up, faults>>

\* ctx.Done, or dataCh closed and empty.
StreamEnds ==
    /\ run = "stream"
    /\ Cancelled \/ (~disk /\ Reached("dataClosed") /\ ram = <<>>)
    /\ SendBatch(batch)
    /\ run' = "ended"
    /\ UNCHANGED <<disk, queue, out, ram, got, dropped, passed, refused, reader,
                   src, intact, recv, registration, made, stop, up, faults>>

-----------------------------------------------------------------------------
(* The stream                                                              *)

\* The points of some batches.
Carried(batches) == UNION {ToSet(b) : b \in ToSet(batches)}

\* The manager's handler drops what validateDataPoint refuses and gives the rest
\* to the engine.
Ingest(points) ==
    \E invalid \in SUBSET points :
        /\ refused' = refused \cup invalid
        /\ got' = got \cup (points \ invalid)

\* StreamData takes a batch.
Receive ==
    /\ intact /\ wire # <<>> /\ Len(Head(wire)) <= MaxBatchPoints
    /\ Ingest(ToSet(Head(wire)))
    /\ wire' = Tail(wire)
    /\ UNCHANGED <<disk, queue, out, ram, batch, lost, dropped, passed, threads,
                   made, stop, up, faults>>

\* The stream ends: the first n batches on the way still arrive.
EndsAfter(n) ==
    /\ intact' = FALSE
    /\ \A i \in 1..n : Len(wire[i]) <= MaxBatchPoints
    /\ Ingest(Carried(SubSeq(wire, 1, n)))
    /\ lost' = lost \cup Carried(SubSeq(wire, n + 1, Len(wire)))
    /\ wire' = <<>>
    /\ UNCHANGED <<disk, queue, out, ram, batch, dropped, passed, reader, src,
                   run, recv, registration, made, stop, up>>

\* "batch exceeds max points": the handler returns, which ends the stream.
ReceiveTooLarge ==
    /\ intact /\ wire # <<>> /\ Len(Head(wire)) > MaxBatchPoints
    /\ EndsAfter(0) /\ UNCHANGED faults

\* The connection breaks, or is closed by Stop, or the context ends.
Break ==
    /\ intact
    /\ Fault \/ (Cancelled /\ UNCHANGED faults)
    /\ \E n \in 0..Len(wire) : EndsAfter(n)

\* A command arrives and is executed.
Command ==
    /\ run = "stream" /\ intact /\ recv = Waiting
    /\ made["result"] < MaxCommands
    /\ made' = [made EXCEPT !["result"] = @ + 1]
    /\ recv' = At("report", <<"result", made["result"] + 1>>)
    /\ UNCHANGED <<disk, queue, data, reader, src, run, intact, registration,
                   stop, up, faults>>

\* reportCommandResult; then the goroutine receives again.
Report ==
    /\ recv.at = "report"
    /\ Offer(recv.point)
    /\ recv' = IF Reached("dataClosed") THEN recv ELSE Waiting
    /\ UNCHANGED <<disk, queue, out, batch, wire, got, lost, passed, refused,
                   made, reader, src, run, intact, registration, stop, faults>>

-----------------------------------------------------------------------------
(* Registration and shutdown                                               *)

\* registerWithRetry
Register ==
    /\ registration = "try"
    /\ \/ ~Cancelled /\ registration' = "done" /\ UNCHANGED faults
       \/ ~Cancelled /\ Fault /\ UNCHANGED registration
       \/ Cancelled /\ registration' = "ended" /\ UNCHANGED faults
    /\ UNCHANGED <<disk, queue, data, reader, src, run, intact, recv, made, stop,
                   up>>

\* Stop: cancel(), close(stopCh), the collectors, close(dataCh), comm.Close(),
\* diskQueue.Close().
StopGoesOn ==
    /\ \E i \in 1..Len(Stages) - 1 : stop = Stages[i] /\ stop' = Stages[i + 1]
    /\ UNCHANGED <<disk, queue, data, threads, made, up, faults>>

\* What goes on by itself: every goroutine that has something to do.
Work ==
    \/ \E s \in Sources : WriteDisk(s) \/ OfferPoint(s) \/ ExitSource(s)
    \/ FeedOut \/ PassOver \/ ReaderEnds
    \/ Dial \/ TakePoint \/ FlushTimer \/ StreamDone \/ StreamEnds
    \/ Receive \/ ReceiveTooLarge \/ Report \/ Register
    \/ (stop # "none" /\ StopGoesOn)

Next ==
    /\ up
    /\ \/ Work
       \/ \E s \in Sources : Collect(s)
       \/ Compact \/ Break \/ Command \/ (stop = "none" /\ StopGoesOn)

Spec == Init /\ [][Next]_vars

\* Whichever goroutine has something to do, some goroutine goes on; as all of
\* it ends, all of it is done.
LiveSpec == Spec /\ WF_vars(up /\ Work)

-----------------------------------------------------------------------------
\* Types, and the limits of the channels.
TypeOK ==
    /\ disk \in BOOLEAN /\ spoiled \in BOOLEAN /\ reader \in BOOLEAN /\ intact \in BOOLEAN
    /\ up \in BOOLEAN
    /\ {log, out, ram, batch} \subseteq Seq(Points) /\ cursor \in 0..Len(log)
    /\ Len(ram) <= RamCap /\ Len(out) <= OutCap /\ Len(batch) < BatchSize
    /\ run \in {"dial", "stream", "ended"}
    /\ registration \in {"try", "done", "ended"}
    /\ got \cup lost \cup dropped \cup passed \cup refused \subseteq Points
    /\ faults \in 0..MaxFaults

Made == {p \in Points : p[2] <= made[p[1]]}

\* How often a point is in a sequence; on the wire, there are batches.
Count(s, p) == Cardinality({i \in 1..Len(s) : s[i] = p})

OnWire(p) == Cardinality({x \in (1..Len(wire)) \X (1..BatchSize) :
                             x[2] <= Len(wire[x[1]]) /\ wire[x[1]][x[2]] = p})

Bit(b) == IF b THEN 1 ELSE 0

\* How many places hold a point: the goroutines' hands, the queues and the
\* stream, and the five ends it may come to.
Places(p) ==
    Cardinality({s \in Sources : src[s].point = p}) + Bit(recv.point = p)
    + Count(SubSeq(log, cursor + 1, Len(log)), p) + Count(out, p)
    + Count(ram, p) + Count(batch, p) + OnWire(p)
    + Bit(p \in got) + Bit(p \in lost) + Bit(p \in dropped)
    + Bit(p \in passed) + Bit(p \in refused)

\* Every point that was made is in exactly one place: on its way, with the
\* manager, lost with a stream, dropped at a full channel or by the manager's
\* validation, or passed over in a spoiled WAL.  None is sent twice and none
\* disappears in another way.
Accounted == \A p \in Points : Places(p) = Bit(p \in Made)

\* RunStream reads one channel.  While it is the disk queue's, what is in dataCh
\* is never sent: points whose Write failed, and results of commands.
Stranded == disk /\ ram # <<>>

\* In the end nothing is left behind but what is stranded, and the manager knows
\* the agent; or, after Stop, every goroutine has ended.  Only a send on the
\* closed channel ends the process before that.
Settles ==
    <>[] \/ ~up
         \/ /\ stop = "none" /\ registration = "done"
            /\ cursor = Len(log) /\ out = <<>> /\ batch = <<>> /\ wire = <<>>
            /\ ram = <<>> \/ Stranded
         \/ /\ stop = "closed" /\ registration # "try" /\ run = "ended" /\ ~reader
            /\ \A s \in Sources : src[s].at = "exited"

-----------------------------------------------------------------------------
\* agent.go:309-312: "Data is always persisted to the disk queue first - only
\* drop if disk queue is full and the RAM fallback is also full", and
\* commands.go:181: a result is a data point "so WatchTower can track command
\* execution status per agent".  What is in dataCh is sent while the agent runs.
RamIsSent ==
    \A p \in Points :
        p \in ToSet(ram) ~> (p \notin ToSet(ram) \/ stop # "none" \/ ~up)
=============================================================================
