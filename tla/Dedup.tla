-------------------------------- MODULE Dedup --------------------------------
(***************************************************************************)
(* Alert deduplication (WatchTower/internal/engine/dedup/dedup.go).        *)
(*                                                                         *)
(* A fingerprint stands for a rule, an agent and the value of a key field. *)
(* An alert is suppressed when its fingerprint was last seen - passed or   *)
(* suppressed - less than Window ago.  The map holds at most MaxPrints     *)
(* entries.  Entries count what they suppress, for statistics only; the    *)
(* counts are left out.  It is all under one lock.                         *)
(***************************************************************************)
EXTENDS Integers, FiniteSets

CONSTANTS
    Prints,
    Window,      \* five minutes by default
    MaxPrints    \* defaultMaxUnique: 100000

DedupAssumption == Window \in Nat \ {0} /\ MaxPrints \in Nat \ {0}

Never == -1

VARIABLES
    now,
    entries,   \* lastSeen by fingerprint, for some of them
    \* history
    last,      \* when each fingerprint last occurred
    pushedOut  \* fingerprints evicted since then

vars == <<entries, last, pushedOut>>

Init ==
    /\ entries = [f \in {} |-> 0]
    /\ last = [f \in Prints |-> Never] /\ pushedOut = {}

-----------------------------------------------------------------------------
\* Mutant: lastSeen is set only when the alert passes.
SeenWhenPassed(f, pass) == IF pass THEN now ELSE entries[f]

\* e.lastSeen = now
Seen(f, pass) == now

\* evictOldestLocked: any of the entries with the oldest lastSeen.
Oldest == {f \in DOMAIN entries : \A g \in DOMAIN entries : entries[f] <= entries[g]}

Without(f) == [g \in DOMAIN entries \ {f} |-> entries[g]]

WithRoomFor(f) ==
    IF f \in DOMAIN entries \/ Cardinality(DOMAIN entries) < MaxPrints
    THEN {entries}
    ELSE {Without(g) : g \in Oldest}

\* ShouldSuppress returns ~pass.
ShouldSuppress(f, pass) ==
    \E e \in WithRoomFor(f) :
        /\ pass = (f \in DOMAIN e => now - e[f] >= Window)
        /\ entries' = [g \in DOMAIN e \cup {f} |-> IF g = f THEN Seen(f, pass)
                                                   ELSE e[g]]
        /\ last' = [last EXCEPT ![f] = now]
        /\ pushedOut' = (pushedOut \cup (DOMAIN entries \ DOMAIN e)) \ {f}

\* e.lastSeen.Before(cutoff)
Stale(f) == entries[f] < now - Window

Gc ==
    /\ entries' = [f \in {g \in DOMAIN entries : ~Stale(g)} |-> entries[f]]
    /\ UNCHANGED <<last, pushedOut>>

-----------------------------------------------------------------------------
TypeOK ==
    /\ DOMAIN entries \subseteq Prints /\ Cardinality(DOMAIN entries) <= MaxPrints
    /\ \A f \in DOMAIN entries : entries[f] \in 0..now
    /\ last \in [Prints -> -1..now] /\ pushedOut \subseteq Prints

\* The map answers as if it remembered every occurrence: an entry has the time
\* of the last one, and a missing entry, unless it was pushed out by a full
\* map, belongs to a fingerprint that did not occur for a whole window.
RemembersAll ==
    \A f \in Prints :
        IF f \in DOMAIN entries THEN entries[f] = last[f]
        ELSE f \in pushedOut \/ last[f] = Never \/ now - last[f] >= Window
=============================================================================
