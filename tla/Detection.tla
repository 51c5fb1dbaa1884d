------------------------------ MODULE Detection ------------------------------
(***************************************************************************)
(* The manager's engine (WatchTower/internal/engine/engine.go): its event  *)
(* channel, its workers, the sliding windows of threshold rules            *)
(* (Correlation) and the deduplication of alerts (Dedup), which the        *)
(* workers share.                                                          *)
(*                                                                         *)
(* What a rule matches does not depend on what happened before, so events  *)
(* are told apart by what they match: an event is one of Kinds.            *)
(***************************************************************************)
EXTENDS Integers, Sequences, FiniteSets

CONSTANTS
    Keys, Count, Period, MaxKeys, GcAge,   \* of Correlation
    Prints, Window, MaxPrints,             \* of Dedup
    Kinds,
    Matched,     \* the keys of the rules that a kind of event matches, in order
    Yields,      \* the events the vulnerability check makes of a kind
    FpOf,        \* the fingerprint of the alert of a key
    Workers,
    QueueCap,    \* capacity of eventCh: 10000
    MaxTime, MaxEvents   \* bounds: of the clock, and of the events from outside

VARIABLES
    now,
    windows, hits, evicted,
    entries, last, pushedOut,
    queue,       \* eventCh
    work,        \* what each worker does
    stopped,     \* stopCh is closed
    arrived      \* events from outside

C == INSTANCE Correlation
D == INSTANCE Dedup

counters == <<windows, hits, evicted>>
prints   == <<entries, last, pushedOut>>
vars     == <<now, counters, prints, queue, work, stopped, arrived>>

ASSUME DetectionAssumption ==
    /\ C!CorrelationAssumption /\ D!DedupAssumption
    /\ Matched \in [Kinds -> Seq(Keys)] /\ Yields \in [Kinds -> Seq(Kinds)]
    /\ FpOf \in [Keys -> Prints]
    /\ IsFiniteSet(Workers)
    /\ QueueCap \in Nat \ {0} /\ MaxEvents \in Nat

Idle   == [at |-> "select"]
Exited == [at |-> "exited"]

\* A worker has matched the event and is at the n-th rule or, after the rules,
\* at the n-th event of the vulnerability check.
At(place, kind, n) == [at |-> place, kind |-> kind, n |-> n]

Busy(w) == work[w] \notin {Idle, Exited}

Init ==
    /\ C!Init /\ D!Init
    /\ queue = <<>> /\ work = [w \in Workers |-> Idle]
    /\ stopped = FALSE /\ arrived = 0

-----------------------------------------------------------------------------
\* Ingest: an event that finds the channel full is dropped.
WithEvent(kind) == IF Len(queue) < QueueCap THEN Append(queue, kind) ELSE queue

\* From the gRPC handler, the syslog server, the audit log or the registry;
\* nothing makes them stop when the engine does.
Arrive ==
    /\ arrived < MaxEvents /\ arrived' = arrived + 1
    /\ \E kind \in Kinds : queue' = WithEvent(kind)
    /\ UNCHANGED <<now, counters, prints, work, stopped>>

Becomes(w, state) == work' = [work EXCEPT ![w] = state]

\* The worker stays with a rule, or goes on to the following one.
Same(w, place) == At(place, work[w].kind, work[w].n)
Following(w)   == At("rule", work[w].kind, work[w].n + 1)

\* The worker decodes the event, forwards it and matches the rules.
Take(w) ==
    /\ work[w] = Idle /\ queue # <<>>
    /\ queue' = Tail(queue) /\ Becomes(w, At("rule", Head(queue), 1))
    /\ UNCHANGED <<now, counters, prints, stopped, arrived>>

AtRule(w) == /\ work[w] \notin {Idle, Exited}
             /\ work[w].at = "rule" /\ work[w].n <= Len(Matched[work[w].kind])

KeyOf(w) == Matched[work[w].kind][work[w].n]

\* correlation.ShouldFire
Correlate(w) ==
    /\ AtRule(w)
    /\ \E fired \in BOOLEAN :
          /\ C!ShouldFire(KeyOf(w), fired)
          /\ Becomes(w, IF fired THEN Same(w, "alert") ELSE Following(w))
    /\ UNCHANGED <<prints, queue, stopped, arrived>>

\* EmitAlert: an alert that is not suppressed is enriched, stored, forwarded and
\* given to the hooks; nothing of that changes what the worker does next.
Deduplicate(w) ==
    /\ Busy(w) /\ work[w].at = "alert"
    /\ \E pass \in BOOLEAN : D!ShouldSuppress(FpOf[KeyOf(w)], pass)
    /\ Becomes(w, Same(w, "respond"))
    /\ UNCHANGED <<now, counters, queue, stopped, arrived>>

\* TriggerFromRule: also when the alert was suppressed.
Respond(w) ==
    /\ Busy(w) /\ work[w].at = "respond"
    /\ Becomes(w, Following(w))
    /\ UNCHANGED <<now, counters, prints, queue, stopped, arrived>>

\* Mutant: the worker waits for room in the channel.
ReingestOrWait(w, kind) == Len(queue) < QueueCap /\ queue' = Append(queue, kind)

Reingest(w, kind) == queue' = WithEvent(kind)

\* The vulnerability check hands its events to the engine's own channel.
Recheck(w) ==
    /\ Busy(w) /\ work[w].at = "rule"
    /\ LET kind == work[w].kind
           n == work[w].n - Len(Matched[kind])
       IN  /\ n \in 1..Len(Yields[kind])
           /\ Reingest(w, Yields[kind][n])
           /\ Becomes(w, Following(w))
    /\ UNCHANGED <<now, counters, prints, stopped, arrived>>

Finish(w) ==
    /\ Busy(w) /\ work[w].at = "rule"
    /\ work[w].n > Len(Matched[work[w].kind]) + Len(Yields[work[w].kind])
    /\ Becomes(w, Idle)
    /\ UNCHANGED <<now, counters, prints, queue, stopped, arrived>>

\* The select takes stopCh, even when there are events.
ExitWorker(w) ==
    /\ stopped /\ work[w] = Idle
    /\ Becomes(w, Exited)
    /\ UNCHANGED <<now, counters, prints, queue, stopped, arrived>>

Worker(w) == \/ Take(w) \/ Correlate(w) \/ Deduplicate(w) \/ Respond(w)
             \/ Recheck(w) \/ Finish(w) \/ ExitWorker(w)

\* Stop: close(stopCh); then it waits for the workers.
Stop ==
    /\ ~stopped /\ stopped' = TRUE
    /\ UNCHANGED <<now, counters, prints, queue, work, arrived>>

\* The two gc loops run until Stop has seen the workers exit.
Collecting == \E w \in Workers : work[w] # Exited

CorrelationGc ==
    /\ Collecting /\ C!Gc
    /\ UNCHANGED <<prints, queue, work, stopped, arrived>>

DedupGc ==
    /\ Collecting /\ D!Gc
    /\ UNCHANGED <<now, counters, queue, work, stopped, arrived>>

Tick ==
    /\ now < MaxTime /\ now' = now + 1
    /\ UNCHANGED <<counters, prints, queue, work, stopped, arrived>>

Next == \/ Arrive \/ \E w \in Workers : Worker(w)
        \/ Stop \/ CorrelationGc \/ DedupGc \/ Tick

Spec == Init /\ [][Next]_vars

\* The goroutine of every worker is scheduled.  The choice of a select between
\* stopCh and eventCh is not in question: what arrives is finite.
LiveSpec == Spec /\ \A w \in Workers : WF_vars(Worker(w))

-----------------------------------------------------------------------------
\* Types, and the limits of the channel and the maps.
TypeOK ==
    /\ C!TypeOK /\ D!TypeOK
    /\ queue \in Seq(Kinds) /\ Len(queue) <= QueueCap
    /\ \A w \in Workers : Busy(w) =>
          /\ work[w].at \in {"rule", "alert", "respond"}
          /\ work[w].kind \in Kinds
          /\ work[w].n \in 1..(Len(Matched[work[w].kind])
                               + Len(Yields[work[w].kind]) + 1)
    /\ stopped \in BOOLEAN /\ arrived \in 0..MaxEvents

\* The windows of threshold rules count what they should (see Correlation).
WindowExact == C!WindowExact

\* Deduplication forgets no recent alert (see Dedup).
RemembersAll == D!RemembersAll

\* The engine comes to rest: what arrived is processed or, after Stop, every
\* worker exits, so that Stop returns.  The workers fill the channel only they
\* empty, and do not come to wait for each other.
ComesToRest ==
    <>[] IF stopped THEN \A w \in Workers : work[w] = Exited
                    ELSE queue = <<>> /\ \A w \in Workers : work[w] = Idle
=============================================================================
