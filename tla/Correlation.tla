----------------------------- MODULE Correlation -----------------------------
(***************************************************************************)
(* The sliding windows of threshold rules                                  *)
(* (WatchTower/internal/engine/correlation/correlation.go).                *)
(*                                                                         *)
(* A key stands for a rule, an agent and a value of the group-by fields.   *)
(* ShouldFire adds the time of the event to the key's window, forgets what *)
(* is older than the rule's period, and fires when Count times are left.   *)
(* The map holds at most MaxKeys windows.  It is all under one lock.       *)
(***************************************************************************)
EXTENDS Integers, Sequences, FiniteSets

CONSTANTS
    Keys,
    Count, Period,  \* of the key's rule
    MaxKeys,        \* 200000
    GcAge,          \* 24 hours
    MaxTime         \* bound: of the clock

CorrelationAssumption ==
    /\ Count \in [Keys -> Nat] /\ Period \in [Keys -> Nat]
    /\ MaxKeys \in Nat \ {0} /\ GcAge \in Nat /\ MaxTime \in Nat

VARIABLES
    now,
    windows,  \* the map: times by key, for some of the keys
    \* history
    hits,     \* the times of each key's events of the last period, since there
              \* were Count of them; when it was evicted, since it fired
    evicted   \* keys evictOldestLocked has removed since they last fired

vars == <<now, windows, hits, evicted>>

Threshold(k) == Count[k] > 0 /\ Period[k] > 0

\* Of the times, those of the last period; they are in order.
Recent(times, k) ==
    LET n == Cardinality({i \in DOMAIN times : now - times[i] < Period[k]})
    IN  SubSeq(times, Len(times) - n + 1, Len(times))

Init ==
    /\ now = 0
    /\ windows = [k \in {} |-> <<>>]
    /\ hits = [k \in Keys |-> <<>>] /\ evicted = {}

-----------------------------------------------------------------------------
\* Mutant: a time exactly as old as the period is kept.
After(times, cutoff) == SelectSeq(times, LAMBDA t : t >= cutoff)

\* pruneOld: the times from the first one after the cutoff on.
Prune(times, cutoff) ==
    LET old == CHOOSE n \in 0..Len(times) :
                 /\ \A i \in 1..n : times[i] <= cutoff
                 /\ n < Len(times) => times[n + 1] > cutoff
    IN  SubSeq(times, old + 1, Len(times))

Newest(times) == times[Len(times)]

\* The windows without that of k, those of V pruned with the period.
Without(k, V, period) ==
    [j \in DOMAIN windows \ {k} |->
        IF j \in V THEN Prune(windows[j], now - period) ELSE windows[j]]

\* evictOldestLocked(period): what the map may be afterwards.  The loop visits
\* the map in any order and prunes what it visits with the period of the rule
\* that needs the room; it stops at a window that this empties.
EvictOldest(period) ==
    LET old == DOMAIN windows
        cut == [k \in old |-> Prune(windows[k], now - period)]
        empty == {k \in old : cut[k] = <<>>}
        oldest == {k \in old : \A j \in old : Newest(cut[k]) <= Newest(cut[j])}
    IN  IF empty # {}
        THEN UNION {{Without(k, V, period) : V \in SUBSET (old \ empty)} : k \in empty}
        ELSE {Without(k, old, period) : k \in oldest}

WithRoomFor(k) ==
    IF k \in DOMAIN windows \/ Cardinality(DOMAIN windows) < MaxKeys
    THEN {windows}
    ELSE EvictOldest(Period[k])

WindowIn(w, k) == IF k \in DOMAIN w THEN w[k] ELSE <<>>

\* w.times = nil
Reset(times) == <<>>

\* ShouldFire returns `fired'.
ShouldFire(k, fired) ==
    IF ~Threshold(k) THEN fired /\ UNCHANGED vars
    ELSE \E w \in WithRoomFor(k) :
           LET times == Prune(Append(WindowIn(w, k), now), now - Period[k])
               real == Recent(Append(hits[k], now), k)
               due == Len(real) >= Count[k]
           IN  /\ fired = (Len(times) >= Count[k])
               /\ windows' = [j \in DOMAIN w \cup {k} |->
                                IF j # k THEN w[j]
                                ELSE IF fired THEN Reset(times) ELSE times]
               /\ evicted' = (evicted \cup (DOMAIN windows \ DOMAIN w))
                             \ (IF fired THEN {k} ELSE {})
               /\ hits' = [hits EXCEPT ![k] =
                              IF due /\ (fired \/ k \notin evicted)
                              THEN <<>> ELSE real]
               /\ UNCHANGED now

\* gc prunes every window with the same age.
Gc ==
    LET aged == [k \in DOMAIN windows |-> Prune(windows[k], now - GcAge)]
    IN  /\ windows' = [k \in {j \in DOMAIN windows : aged[j] # <<>>} |-> aged[k]]
        /\ UNCHANGED <<now, hits, evicted>>

-----------------------------------------------------------------------------
TypeOK ==
    /\ now \in 0..MaxTime
    /\ DOMAIN windows \subseteq Keys
    /\ Cardinality(DOMAIN windows) <= MaxKeys
    /\ \A k \in DOMAIN windows : /\ windows[k] \in Seq(0..MaxTime)
                                 /\ Len(windows[k]) < Count[k]
    /\ hits \in [Keys -> Seq(0..MaxTime)] /\ evicted \subseteq Keys

\* Nothing cuts the window of k to less than its own period: neither gc nor a
\* rule that needs room, which prunes the windows it visits with its own.
Spared(k) == /\ Period[k] <= GcAge
             /\ \A j \in Keys : Threshold(j) => Period[k] <= Period[j]

\* The window counts exactly the events of the last period since the rule last
\* had Count of them, which is when it fires; only for a key that was evicted
\* does it count fewer.  Neither gc, nor making room for another rule, nor how
\* old entries are skipped changes a decision of ShouldFire.
WindowExact ==
    \A k \in Keys : Spared(k) =>
        LET counted == Recent(WindowIn(windows, k), k)
            real == Recent(hits[k], k)
        IN  /\ k \notin evicted => counted = real
            /\ counted = SubSeq(real, Len(real) - Len(counted) + 1, Len(real))
=============================================================================
