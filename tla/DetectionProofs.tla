--------------------------- MODULE DetectionProofs ---------------------------
(***************************************************************************)
(* What the engine's workers share, for any number of workers, rules and   *)
(* events, any periods and limits.  Deduplication never forgets a recent   *)
(* alert; the windows of threshold rules count what they should.           *)
(*                                                                         *)
(* RemembersAll needs only the types of what deduplication keeps to be     *)
(* inductive.  That a missing entry belongs to an old fingerprint survives *)
(* a clock that goes on and every step of a worker that is not its own     *)
(* ShouldSuppress; gc establishes it for what it removes, and an entry     *)
(* that makes room is recorded in pushedOut.                               *)
(*                                                                         *)
(* WindowExact rests on four facts of pruning: it composes, it commutes    *)
(* with the arrival of a time, it keeps a suffix a suffix, and of times in *)
(* order it leaves exactly those of the period.                            *)
(***************************************************************************)
EXTENDS Detection, SequenceTheorems, FiniteSetTheorems, NaturalsInduction,
        WellFoundedInduction, TLAPS

\* The values of the deduplication map, without the limit of its size.
PrintsType ==
    /\ now \in Nat
    /\ DOMAIN entries \subseteq Prints
    /\ entries = [f \in DOMAIN entries |-> entries[f]]
    /\ \A f \in DOMAIN entries : entries[f] \in Nat
    /\ last \in [Prints -> Int]
    /\ pushedOut \subseteq Prints

DedupInv == PrintsType /\ RemembersAll

LEMMA DedupInit ==
    ASSUME DetectionAssumption, Init PROVE DedupInv
<1>1. now = 0 /\ entries = [f \in {} |-> 0] /\ pushedOut = {}
  BY DEF Init, C!Init, D!Init
<1>2. last = [f \in Prints |-> D!Never]
  BY DEF Init, D!Init
<1>3. DOMAIN entries = {}
  BY <1>1
<1>4. PrintsType
  BY <1>1, <1>2, <1>3 DEF PrintsType, D!Never
<1>5. RemembersAll
  BY <1>2, <1>3 DEF RemembersAll, D!RemembersAll
<1> QED BY <1>4, <1>5 DEF DedupInv

\* Making room takes at most one entry from the map.
LEMMA DedupRoom ==
    ASSUME PrintsType, NEW f \in Prints, NEW e \in D!WithRoomFor(f)
    PROVE  /\ DOMAIN e \subseteq DOMAIN entries
           /\ \A g \in DOMAIN e : e[g] = entries[g]
           /\ f \in DOMAIN entries => e = entries
<1>1. CASE e = entries
  BY <1>1 DEF PrintsType
<1>2. CASE e # entries
  <2>1. f \notin DOMAIN entries /\ \E g \in D!Oldest : e = D!Without(g)
    BY <1>2 DEF D!WithRoomFor
  <2>2. PICK g \in D!Oldest : e = D!Without(g)
    BY <2>1
  <2>3. /\ DOMAIN e = DOMAIN entries \ {g}
        /\ \A h \in DOMAIN e : e[h] = entries[h]
    BY <2>2 DEF D!Without
  <2> QED BY <2>1, <2>3
<1> QED BY <1>1, <1>2

LEMMA DedupSuppress ==
    ASSUME DedupInv, NEW f \in Prints, NEW pass, D!ShouldSuppress(f, pass),
           UNCHANGED now
    PROVE  DedupInv'
<1>1. PICK e \in D!WithRoomFor(f) :
        /\ entries' = [g \in DOMAIN e \cup {f} |->
                         IF g = f THEN D!Seen(f, pass) ELSE e[g]]
        /\ last' = [last EXCEPT ![f] = now]
        /\ pushedOut' = (pushedOut \cup (DOMAIN entries \ DOMAIN e)) \ {f}
  BY DEF D!ShouldSuppress
<1>2. /\ DOMAIN e \subseteq DOMAIN entries
      /\ \A g \in DOMAIN e : e[g] = entries[g]
  BY DedupRoom DEF DedupInv
<1>3. DOMAIN entries' = DOMAIN e \cup {f}
  BY <1>1
<1>4. \A g \in DOMAIN entries' : entries'[g] = IF g = f THEN now ELSE entries[g]
  BY <1>1, <1>2 DEF D!Seen
<1>5. PrintsType'
  BY <1>1, <1>2, <1>3, <1>4 DEF DedupInv, PrintsType
<1>6. RemembersAll'
  <2> SUFFICES ASSUME NEW g \in Prints
      PROVE IF g \in DOMAIN entries' THEN entries'[g] = last'[g]
            ELSE \/ g \in pushedOut' \/ last'[g] = D!Never
                 \/ now' - last'[g] >= Window
    BY DEF RemembersAll, D!RemembersAll, D!Never
  <2>1. CASE g = f
    BY <2>1, <1>1, <1>3, <1>4 DEF DedupInv, PrintsType
  <2>2. CASE g # f
    <3>1. last'[g] = last[g] /\ now' = now
      BY <2>2, <1>1 DEF DedupInv, PrintsType
    <3> QED
      BY <2>2, <3>1, <1>1, <1>2, <1>3, <1>4
         DEF DedupInv, RemembersAll, D!RemembersAll
  <2> QED BY <2>1, <2>2
<1> QED BY <1>5, <1>6 DEF DedupInv

LEMMA DedupGcStep ==
    ASSUME DetectionAssumption, DedupInv, D!Gc, UNCHANGED now PROVE DedupInv'
<1>1. DOMAIN entries' = {f \in DOMAIN entries : ~D!Stale(f)}
  BY DEF D!Gc
<1>2. \A f \in DOMAIN entries' : entries'[f] = entries[f]
  BY <1>1 DEF D!Gc
<1>3. last' = last /\ pushedOut' = pushedOut
  BY DEF D!Gc
<1>4. PrintsType'
  BY <1>1, <1>2, <1>3 DEF DedupInv, PrintsType, D!Gc
<1>5. RemembersAll'
  <2> SUFFICES ASSUME NEW f \in Prints
      PROVE IF f \in DOMAIN entries' THEN entries'[f] = last'[f]
            ELSE \/ f \in pushedOut' \/ last'[f] = D!Never
                 \/ now' - last'[f] >= Window
    BY DEF RemembersAll, D!RemembersAll, D!Never
  <2>1. CASE f \in DOMAIN entries /\ D!Stale(f)
    BY <2>1, <1>1, <1>3
       DEF D!Stale, DedupInv, RemembersAll, D!RemembersAll, PrintsType,
           DetectionAssumption, D!DedupAssumption
  <2>2. CASE ~(f \in DOMAIN entries /\ D!Stale(f))
    BY <2>2, <1>1, <1>2, <1>3 DEF DedupInv, RemembersAll, D!RemembersAll
  <2> QED BY <2>1, <2>2
<1> QED BY <1>4, <1>5 DEF DedupInv

\* Time makes an old fingerprint older.
LEMMA DedupTick ==
    ASSUME DetectionAssumption, DedupInv, Tick PROVE DedupInv'
BY DEF DedupInv, PrintsType, RemembersAll, D!RemembersAll, Tick, prints,
       DetectionAssumption, D!DedupAssumption

\* A step that leaves the clock and the map alone.
LEMMA DedupFrame ==
    ASSUME DedupInv, UNCHANGED <<now, prints>> PROVE DedupInv'
BY DEF DedupInv, PrintsType, RemembersAll, D!RemembersAll, prints, D!Never

-----------------------------------------------------------------------------
\* A worker that has an alert in its hands is at one of the rules of its event.
AtKnownRule(state) ==
    \/ state \in {Idle, Exited}
    \/ /\ state \in [at : {"rule", "alert", "respond"}, kind : Kinds, n : Nat \ {0}]
       /\ state.at # "rule" => state.n <= Len(Matched[state.kind])

WorkInv ==
    /\ queue \in Seq(Kinds)
    /\ DOMAIN work = Workers
    /\ \A w \in Workers : AtKnownRule(work[w])

LEMMA AtIsKnown ==
    ASSUME NEW kind \in Kinds, NEW n \in Nat \ {0},
           NEW place \in {"rule", "alert", "respond"},
           place # "rule" => n <= Len(Matched[kind])
    PROVE  AtKnownRule(At(place, kind, n))
BY DEF At, AtKnownRule

LEMMA FollowingIsKnown ==
    ASSUME NEW w \in Workers, work[w].kind \in Kinds, work[w].n \in Nat \ {0}
    PROVE  AtKnownRule(Following(w))
<1>1. work[w].n + 1 \in Nat \ {0}
  OBVIOUS
<1> QED BY <1>1, AtIsKnown DEF Following

\* What a busy worker is at.
LEMMA KnownRule ==
    ASSUME NEW state, AtKnownRule(state), state \notin {Idle, Exited}
    PROVE  /\ state = At(state.at, state.kind, state.n)
           /\ state.kind \in Kinds /\ state.n \in Nat \ {0}
           /\ state.at # "rule" => state.n <= Len(Matched[state.kind])
BY DEF At, AtKnownRule

LEMMA WorkInit == ASSUME Init PROVE WorkInv
BY DEF Init, WorkInv, AtKnownRule, Idle

LEMMA WorkBecomes ==
    ASSUME WorkInv, NEW w \in Workers, NEW state, Becomes(w, state),
           AtKnownRule(state), queue' \in Seq(Kinds)
    PROVE  WorkInv'
BY DEF WorkInv, Becomes, AtKnownRule, Idle, Exited

LEMMA QueueAccepts ==
    ASSUME queue \in Seq(Kinds), NEW kind \in Kinds
    PROVE  WithEvent(kind) \in Seq(Kinds)
BY DEF WithEvent

LEMMA WorkStep ==
    ASSUME DetectionAssumption, WorkInv, [Next]_vars PROVE WorkInv'
<1> USE DEF DetectionAssumption
<1>1. CASE Arrive
  BY <1>1, QueueAccepts DEF Arrive, WorkInv
<1>2. ASSUME NEW w \in Workers, Worker(w) PROVE WorkInv'
  <2> DEFINE state == work[w]
  <2>0. AtKnownRule(state) /\ queue \in Seq(Kinds)
    BY DEF WorkInv
  <2>1. CASE Take(w)
    <3>1. Head(queue) \in Kinds /\ Tail(queue) \in Seq(Kinds)
      BY <2>0, <2>1 DEF Take
    <3>2. AtKnownRule(At("rule", Head(queue), 1))
      BY <3>1 DEF AtKnownRule, At
    <3> QED BY <2>1, <3>1, <3>2, WorkBecomes DEF Take
  <2>2. CASE Correlate(w)
    <3>1. /\ state = At("rule", state.kind, state.n)
          /\ state.kind \in Kinds /\ state.n \in Nat \ {0}
          /\ state.n <= Len(Matched[state.kind])
      BY <2>0, <2>2, KnownRule DEF Correlate, AtRule
    <3>2. /\ AtKnownRule(Same(w, "alert"))
          /\ AtKnownRule(Following(w))
      BY <3>1, AtIsKnown, FollowingIsKnown DEF Same
    <3>3. PICK fired \in BOOLEAN :
            Becomes(w, IF fired THEN Same(w, "alert")
                                ELSE Following(w))
      BY <2>2 DEF Correlate
    <3>4. queue' = queue
      BY <2>2 DEF Correlate
    <3> QED BY <2>0, <3>2, <3>3, <3>4, WorkBecomes
  <2>3. CASE Deduplicate(w)
    <3>1. AtKnownRule(Same(w, "respond"))
      <4>1. /\ state = At("alert", state.kind, state.n)
            /\ state.kind \in Kinds /\ state.n \in Nat \ {0}
            /\ state.n <= Len(Matched[state.kind])
        BY <2>0, <2>3, KnownRule DEF Deduplicate, Busy
      <4> QED BY <4>1, AtIsKnown DEF Same
    <3> QED BY <2>0, <2>3, <3>1, WorkBecomes DEF Deduplicate
  <2>4. CASE Respond(w)
    <3>1. AtKnownRule(Following(w))
      <4>1. /\ state = At("respond", state.kind, state.n)
            /\ state.kind \in Kinds /\ state.n \in Nat \ {0}
        BY <2>0, <2>4, KnownRule DEF Respond, Busy
      <4> QED BY <4>1, FollowingIsKnown
    <3> QED BY <2>0, <2>4, <3>1, WorkBecomes DEF Respond
  <2>5. CASE Recheck(w)
    <3> DEFINE m == state.n - Len(Matched[state.kind])
    <3>1. /\ state = At("rule", state.kind, state.n)
          /\ state.kind \in Kinds /\ state.n \in Nat \ {0}
      BY <2>0, <2>5, KnownRule DEF Recheck, Busy
    <3>2. /\ m \in 1..Len(Yields[state.kind])
          /\ queue' = WithEvent(Yields[state.kind][m])
          /\ Becomes(w, Following(w))
      BY <2>5 DEF Recheck, Reingest
    <3>3. Yields[state.kind][m] \in Kinds
      BY <3>1, <3>2
    <3>4. queue' \in Seq(Kinds)
      BY <2>0, <3>2, <3>3, QueueAccepts
    <3>5. AtKnownRule(Following(w))
      BY <3>1, FollowingIsKnown
    <3> QED BY <3>2, <3>4, <3>5, WorkBecomes
  <2>6. CASE Finish(w) \/ ExitWorker(w)
    BY <2>0, <2>6, WorkBecomes DEF Finish, ExitWorker, AtKnownRule
  <2> QED BY <1>2, <2>1, <2>2, <2>3, <2>4, <2>5, <2>6 DEF Worker
<1>3. CASE Stop \/ CorrelationGc \/ DedupGc \/ Tick \/ UNCHANGED vars
  BY <1>3 DEF Stop, CorrelationGc, DedupGc, Tick, vars, WorkInv
<1> QED BY <1>1, <1>2, <1>3 DEF Next

-----------------------------------------------------------------------------
LEMMA DedupStep ==
    ASSUME DetectionAssumption, WorkInv, DedupInv, [Next]_vars PROVE DedupInv'
<1>1. CASE Arrive
  BY <1>1, DedupFrame DEF Arrive
<1>2. ASSUME NEW w \in Workers, Worker(w) PROVE DedupInv'
  <2>1. CASE Take(w)
    BY <2>1, DedupFrame DEF Take
  <2>2. CASE Correlate(w)
    <3>1. UNCHANGED now
      BY <2>2 DEF Correlate, C!ShouldFire, C!vars
    <3> QED BY <2>2, <3>1, DedupFrame DEF Correlate
  <2>3. CASE Deduplicate(w)
    <3>1. FpOf[KeyOf(w)] \in Prints
      <4>1. AtKnownRule(work[w])
        BY DEF WorkInv
      <4>2. /\ work[w].kind \in Kinds
            /\ work[w].n \in 1..Len(Matched[work[w].kind])
        BY <2>3, <4>1 DEF Deduplicate, Busy, AtKnownRule
      <4>3. KeyOf(w) \in Keys
        BY <4>2 DEF KeyOf, DetectionAssumption
      <4> QED BY <4>3 DEF DetectionAssumption
    <3> QED BY <2>3, <3>1, DedupSuppress DEF Deduplicate
  <2>4. CASE Respond(w) \/ Recheck(w) \/ Finish(w) \/ ExitWorker(w)
    BY <2>4, DedupFrame DEF Respond, Recheck, Finish, ExitWorker
  <2> QED BY <1>2, <2>1, <2>2, <2>3, <2>4 DEF Worker
<1>3. CASE Stop
  BY <1>3, DedupFrame DEF Stop
<1>4. CASE CorrelationGc
  <2>1. UNCHANGED now
    BY <1>4 DEF CorrelationGc, C!Gc
  <2> QED BY <1>4, <2>1, DedupFrame DEF CorrelationGc
<1>5. CASE DedupGc
  BY <1>5, DedupGcStep DEF DedupGc
<1>6. CASE Tick
  BY <1>6, DedupTick
<1>7. CASE UNCHANGED vars
  BY <1>7, DedupFrame DEF vars
<1> QED BY <1>1, <1>2, <1>3, <1>4, <1>5, <1>6, <1>7 DEF Next

\* Deduplication answers as if it remembered every alert: the property the run
\* of Detection checks on two workers.
THEOREM DedupRemembers == Spec => []RemembersAll
<1> USE DetectionAssumption
<1>1. Init => WorkInv /\ DedupInv
  BY WorkInit, DedupInit
<1>2. WorkInv /\ DedupInv /\ [Next]_vars => (WorkInv /\ DedupInv)'
  BY WorkStep, DedupStep
<1>3. DedupInv => RemembersAll
  BY DEF DedupInv
<1> QED BY <1>1, <1>2, <1>3, PTL DEF Spec

-----------------------------------------------------------------------------
(* Sequences of times, and what pruning leaves of them                     *)

\* A sequence of times without its first n.
Rest(s, n) == SubSeq(s, n + 1, Len(s))

\* The first n times, and no more, are not after the cutoff.
Cut(s, cutoff, n) == /\ n \in 0..Len(s)
                     /\ \A i \in 1..n : s[i] <= cutoff
                     /\ n < Len(s) => s[n + 1] > cutoff

\* a is what remains of b without some of its first times.
Suffix(a, b) == \E d \in 0..Len(b) : a = Rest(b, d)

Times == Seq(Int)

\* A set of naturals that is not empty has a least element.
LEMMA LeastNat ==
    ASSUME NEW S, S \subseteq Nat, S # {}
    PROVE  \E x \in S : \A y \in S : x <= y
<1> DEFINE R == {p \in Nat \X Nat : p[1] < p[2]}
<1>1. IsWellFoundedOn(R, Nat)
  BY NatLessThanWellFounded, Zenon DEF OpToRel
<1>2. PICK x \in S : \A y \in S : ~ (<<y, x>> \in R)
  BY <1>1, WFMin
<1>3. ASSUME NEW y \in S PROVE x <= y
  <2>1. y < x => <<y, x>> \in R
    BY <1>2
  <2> QED BY <1>2, <2>1
<1> QED BY <1>3

LEMMA RestOfTimes ==
    ASSUME NEW s \in Times, NEW n \in 0..Len(s)
    PROVE  /\ Len(s) \in Nat /\ Len(s) - n \in Nat
           /\ Rest(s, n) \in Times
           /\ Len(Rest(s, n)) = Len(s) - n
           /\ \A i \in 1..(Len(s) - n) : Rest(s, n)[i] = s[n + i] /\ s[n + i] \in Int
<1>1. Len(s) \in Nat /\ \A i \in 1..Len(s) : s[i] \in Int
  BY LenProperties, ElementOfSeq DEF Times
<1>2. \A i \in (n + 1)..Len(s) : s[i] \in Int
  BY <1>1
<1> QED BY <1>1, <1>2, SubSeqProperties DEF Rest, Times

LEMMA RestOfRest ==
    ASSUME NEW s \in Times, NEW n \in 0..Len(s), NEW m \in 0..(Len(s) - n)
    PROVE  n + m \in 0..Len(s) /\ Rest(Rest(s, n), m) = Rest(s, n + m)
<1>1. Len(s) \in Nat /\ n + m \in 0..Len(s)
  BY RestOfTimes
<1>2. PICK r \in Times : r = Rest(s, n)
  BY RestOfTimes
<1>3. Len(r) = Len(s) - n /\ m \in 0..Len(r)
  BY <1>2, RestOfTimes
<1>4. PICK a \in Times : a = Rest(r, m)
  BY <1>3, RestOfTimes
<1>5. PICK b \in Times : b = Rest(s, n + m)
  BY <1>1, RestOfTimes
<1>6. Len(a) = Len(s) - (n + m) /\ Len(b) = Len(s) - (n + m)
  <2>1. Len(a) = Len(r) - m /\ Len(b) = Len(s) - (n + m)
    BY <1>1, <1>3, <1>4, <1>5, RestOfTimes
  <2>2. Len(s) \in Nat /\ n \in Nat /\ m \in Nat
    BY <1>1
  <2> QED BY <1>3, <2>1, <2>2
<1>7. \A i \in 1..(Len(s) - (n + m)) : a[i] = b[i]
  <2> SUFFICES ASSUME NEW i \in 1..(Len(s) - (n + m)) PROVE a[i] = b[i]
    OBVIOUS
  <2>1. m + i \in 1..(Len(s) - n) /\ i \in 1..(Len(r) - m) /\ n + (m + i) = (n + m) + i
    BY <1>1, <1>3
  <2>2. a[i] = r[m + i]
    BY <1>3, <1>4, <2>1, RestOfTimes
  <2>3. r[m + i] = s[n + (m + i)]
    BY <1>2, <2>1, RestOfTimes
  <2>4. b[i] = s[(n + m) + i]
    BY <1>1, <1>5, RestOfTimes
  <2> QED BY <2>1, <2>2, <2>3, <2>4
<1>8. a = b
  <2>1. /\ a \in Seq(Int) /\ b \in Seq(Int) /\ Len(a) = Len(b)
        /\ \A i \in 1..Len(a) : a[i] = b[i]
    BY <1>4, <1>5, <1>6, <1>7 DEF Times
  <2> QED BY <2>1, SeqEqual
<1> QED BY <1>1, <1>2, <1>4, <1>5, <1>8

\* There is one such n, and pruning drops as many.
LEMMA CutExists ==
    ASSUME NEW s \in Times, NEW cutoff \in Int
    PROVE  \E n \in 0..Len(s) : Cut(s, cutoff, n)
<1>0. Len(s) \in Nat /\ \A i \in 1..Len(s) : s[i] \in Int
  BY LenProperties, ElementOfSeq DEF Times
<1> DEFINE S == {n \in 0..Len(s) : n < Len(s) => s[n + 1] > cutoff}
<1>1. S \subseteq Nat /\ Len(s) \in S
  BY <1>0
<1>2. PICK n \in S : \A m \in S : n <= m
  BY <1>1, LeastNat
<1>3. \A i \in 1..n : s[i] <= cutoff
  <2> SUFFICES ASSUME NEW i \in 1..n, ~(s[i] <= cutoff) PROVE FALSE
    OBVIOUS
  <2>1. i - 1 \in 0..Len(s) /\ s[(i - 1) + 1] > cutoff
    BY <1>0, <1>2
  <2>2. i - 1 \in S
    BY <2>1
  <2>3. n <= i - 1
    BY <1>2, <2>2
  <2>4. n \in Nat
    BY <1>0
  <2> HIDE DEF S
  <2> QED BY <2>3, <2>4
<1> QED BY <1>2, <1>3 DEF Cut

LEMMA CutUnique ==
    ASSUME NEW s \in Times, NEW cutoff \in Int, NEW m, NEW n,
           Cut(s, cutoff, m), Cut(s, cutoff, n)
    PROVE  m = n
<1>0. Len(s) \in Nat /\ \A i \in 1..Len(s) : s[i] \in Int
  BY LenProperties, ElementOfSeq DEF Times
<1>1. \A a, b \in 0..Len(s) : a < b => ~ (Cut(s, cutoff, a) /\ Cut(s, cutoff, b))
  <2> SUFFICES ASSUME NEW a \in 0..Len(s), NEW b \in 0..Len(s), a < b,
                      Cut(s, cutoff, a), Cut(s, cutoff, b)
               PROVE  FALSE
    OBVIOUS
  <2>1. a + 1 \in 1..b /\ a < Len(s) /\ a + 1 \in 1..Len(s)
    BY <1>0
  <2>2. s[a + 1] <= cutoff /\ s[a + 1] > cutoff
    BY <2>1 DEF Cut
  <2> QED BY <1>0, <2>1, <2>2
<1>2. m \in 0..Len(s) /\ n \in 0..Len(s)
  BY DEF Cut
<1> QED BY <1>0, <1>1, <1>2

LEMMA PruneIsRest ==
    ASSUME NEW s \in Times, NEW cutoff \in Int, NEW n, Cut(s, cutoff, n)
    PROVE  C!Prune(s, cutoff) = Rest(s, n)
<1> DEFINE Old(m) == /\ \A i \in 1..m : s[i] <= cutoff
                     /\ m < Len(s) => s[m + 1] > cutoff
           old == CHOOSE m \in 0..Len(s) : Old(m)
<1>1. n \in 0..Len(s) /\ Old(n)
  BY DEF Cut
<1>2. old \in 0..Len(s) /\ Old(old)
  BY <1>1
<1>3. old = n
  BY <1>2, CutUnique DEF Cut
<1>4. C!Prune(s, cutoff) = Rest(s, old)
  BY DEF C!Prune, Rest
<1> QED BY <1>3, <1>4

LEMMA PruneType ==
    ASSUME NEW s \in Times, NEW cutoff \in Int
    PROVE  C!Prune(s, cutoff) \in Times
<1>1. PICK n \in 0..Len(s) : Cut(s, cutoff, n)
  BY CutExists
<1> QED BY <1>1, PruneIsRest, RestOfTimes

\* An earlier pruning makes no difference to a later one.
LEMMA PruneTwice ==
    ASSUME NEW s \in Times, NEW c \in Int, NEW d \in Int, c <= d
    PROVE  C!Prune(C!Prune(s, c), d) = C!Prune(s, d)
<1>1. PICK n \in 0..Len(s) : Cut(s, c, n)
  BY CutExists
<1>2. PICK r \in Times : r = Rest(s, n) /\ r = C!Prune(s, c)
  BY <1>1, PruneIsRest, RestOfTimes
<1>3. PICK m \in 0..Len(r) : Cut(r, d, m)
  BY CutExists
<1>4. /\ Len(s) \in Nat /\ Len(r) = Len(s) - n /\ n \in Nat /\ m \in Nat
      /\ m \in 0..(Len(s) - n) /\ n + m \in 0..Len(s)
      /\ \A i \in 1..(Len(s) - n) : r[i] = s[n + i]
      /\ \A i \in 1..Len(s) : s[i] \in Int
  <2>1. /\ Len(s) \in Nat /\ \A i \in 1..Len(s) : s[i] \in Int
    BY LenProperties, ElementOfSeq DEF Times
  <2>2. /\ Len(r) = Len(s) - n
        /\ \A i \in 1..(Len(s) - n) : r[i] = s[n + i]
    BY <1>2, RestOfTimes
  <2> QED BY <1>3, <2>1, <2>2
<1>5. Cut(s, d, n + m)
  <2>1. ASSUME NEW i \in 1..(n + m) PROVE s[i] <= d
    <3>1. CASE i <= n
      <4>1. s[i] <= c /\ s[i] \in Int
        BY <1>1, <1>4, <3>1 DEF Cut
      <4> QED BY <4>1
    <3>2. CASE i > n
      <4>1. i - n \in 1..m /\ i - n \in 1..(Len(s) - n) /\ n + (i - n) = i
        BY <1>4, <3>2
      <4>2. r[i - n] = s[i] /\ r[i - n] <= d
        BY <1>3, <1>4, <4>1 DEF Cut
      <4> QED BY <4>2
    <3> QED BY <1>4, <3>1, <3>2
  <2>2. ASSUME n + m < Len(s) PROVE s[(n + m) + 1] > d
    <3>1. m < Len(r) /\ m + 1 \in 1..(Len(s) - n) /\ n + (m + 1) = (n + m) + 1
      BY <1>4, <2>2
    <3>2. r[m + 1] > d /\ r[m + 1] = s[(n + m) + 1]
      BY <1>3, <1>4, <3>1 DEF Cut
    <3> QED BY <3>2
  <2> QED BY <1>4, <2>1, <2>2 DEF Cut
<1>6. C!Prune(r, d) = Rest(r, m) /\ C!Prune(s, d) = Rest(s, n + m)
  BY <1>3, <1>5, PruneIsRest
<1> QED BY <1>2, <1>4, <1>6, RestOfRest

LEMMA RestAppend ==
    ASSUME NEW s \in Times, NEW n \in 0..Len(s), NEW t \in Int
    PROVE  /\ Append(s, t) \in Times /\ n \in 0..Len(Append(s, t))
           /\ Rest(Append(s, t), n) = Append(Rest(s, n), t)
<1>1. PICK a \in Times : a = Append(s, t)
  BY AppendProperties DEF Times
<1>2. Len(s) \in Nat
  BY RestOfTimes
<1>3. /\ Len(a) = Len(s) + 1 /\ a[Len(s) + 1] = t
      /\ \A i \in 1..Len(s) : a[i] = s[i]
  BY <1>1 DEF Times
<1>4. n \in 0..Len(a)
  BY <1>2, <1>3
<1>5. PICK r \in Times : r = Rest(s, n)
  BY RestOfTimes
<1>6. PICK b \in Times : b = Rest(a, n)
  BY <1>4, RestOfTimes
<1>7. PICK e \in Times : e = Append(r, t)
  BY AppendProperties DEF Times
<1>8. Len(r) = Len(s) - n /\ \A i \in 1..(Len(s) - n) : r[i] = s[n + i]
  BY <1>5, RestOfTimes
<1>9. Len(b) = Len(a) - n /\ \A i \in 1..(Len(a) - n) : b[i] = a[n + i]
  BY <1>4, <1>6, RestOfTimes
<1>10. Len(e) = Len(r) + 1 /\ e[Len(r) + 1] = t /\ \A i \in 1..Len(r) : e[i] = r[i]
  BY <1>7 DEF Times
<1>11. b = e
  <2>1. Len(b) = Len(e) /\ Len(b) = Len(r) + 1 /\ Len(r) \in Nat
    BY <1>2, <1>3, <1>8, <1>9, <1>10
  <2>2. ASSUME NEW i \in 1..Len(b) PROVE b[i] = e[i]
    <3>1. CASE i <= Len(r)
      <4>1. i \in 1..Len(r) /\ n + i \in 1..Len(s) /\ i \in 1..(Len(a) - n)
        BY <1>2, <1>3, <1>8, <2>1, <3>1
      <4>2. i \in 1..(Len(s) - n)
        BY <1>8, <4>1
      <4> QED BY <1>3, <1>8, <1>9, <1>10, <4>1, <4>2
    <3>2. CASE i > Len(r)
      <4>1. i = Len(r) + 1 /\ n + i = Len(s) + 1 /\ i \in 1..(Len(a) - n)
        BY <1>2, <1>3, <1>8, <2>1, <3>2
      <4> QED BY <1>3, <1>9, <1>10, <4>1
    <3> QED BY <2>1, <3>1, <3>2
  <2>3. b \in Seq(Int) /\ e \in Seq(Int)
    BY <1>6, <1>7 DEF Times
  <2> QED BY <2>1, <2>2, <2>3, SeqEqual
<1> QED BY <1>1, <1>4, <1>5, <1>6, <1>7, <1>11

\* A time after the cutoff stays.
LEMMA PruneAppend ==
    ASSUME NEW s \in Times, NEW c \in Int, NEW t \in Int, c < t
    PROVE  C!Prune(Append(s, t), c) = Append(C!Prune(s, c), t)
<1>1. PICK n \in 0..Len(s) : Cut(s, c, n)
  BY CutExists
<1>2. PICK a \in Times : a = Append(s, t)
  BY AppendProperties DEF Times
<1>3. /\ Len(s) \in Nat /\ Len(a) = Len(s) + 1 /\ a[Len(s) + 1] = t
      /\ \A i \in 1..Len(s) : a[i] = s[i]
  BY <1>2, RestOfTimes DEF Times
<1>4. Cut(a, c, n)
  <2>1. \A i \in 1..n : a[i] <= c
    BY <1>1, <1>3 DEF Cut
  <2>2. a[n + 1] > c
    <3>1. CASE n = Len(s)
      BY <1>3, <3>1
    <3>2. CASE n < Len(s)
      BY <1>1, <1>3, <3>2 DEF Cut
    <3> QED BY <1>3, <3>1, <3>2
  <2>3. n \in 0..Len(a)
    BY <1>3
  <2> QED BY <2>1, <2>2, <2>3 DEF Cut
<1>5. C!Prune(a, c) = Rest(a, n) /\ C!Prune(s, c) = Rest(s, n)
  BY <1>1, <1>4, PruneIsRest
<1> QED BY <1>2, <1>5, RestAppend

\* What remains of a sequence grows with it, and is pruned with it.
LEMMA SuffixAppend ==
    ASSUME NEW a \in Times, NEW b \in Times, NEW t \in Int, Suffix(a, b)
    PROVE  Suffix(Append(a, t), Append(b, t))
<1>1. PICK d \in 0..Len(b) : a = Rest(b, d)
  BY DEF Suffix
<1>2. d \in 0..Len(Append(b, t)) /\ Rest(Append(b, t), d) = Append(Rest(b, d), t)
  BY RestAppend
<1> QED BY <1>1, <1>2 DEF Suffix

LEMMA SuffixPrune ==
    ASSUME NEW a \in Times, NEW b \in Times, NEW c \in Int, Suffix(a, b)
    PROVE  Suffix(C!Prune(a, c), C!Prune(b, c))
<1>1. PICK d \in 0..Len(b) : a = Rest(b, d)
  BY DEF Suffix
<1>2. PICK m \in 0..Len(a) : Cut(a, c, m)
  BY CutExists
<1>3. PICK n \in 0..Len(b) : Cut(b, c, n)
  BY CutExists
<1>4. /\ Len(b) \in Nat /\ Len(a) = Len(b) - d /\ d \in Nat /\ m \in Nat /\ n \in Nat
      /\ m \in 0..(Len(b) - d) /\ d + m \in 0..Len(b)
      /\ \A i \in 1..(Len(b) - d) : a[i] = b[d + i]
      /\ \A i \in 1..Len(b) : b[i] \in Int
  <2>1. /\ Len(b) \in Nat /\ \A i \in 1..Len(b) : b[i] \in Int
    BY LenProperties, ElementOfSeq DEF Times
  <2>2. /\ Len(a) = Len(b) - d
        /\ \A i \in 1..(Len(b) - d) : a[i] = b[d + i]
    BY <1>1, RestOfTimes
  <2> QED BY <1>2, <2>1, <2>2
<1>5. n <= d + m
  <2> SUFFICES ASSUME n > d + m PROVE FALSE
    BY <1>4
  <2>1. /\ m < Len(a) /\ m + 1 \in 1..(Len(b) - d) /\ d + (m + 1) \in 1..n
        /\ d + (m + 1) \in 1..Len(b)
    BY <1>4
  <2>2. a[m + 1] > c /\ a[m + 1] = b[d + (m + 1)] /\ b[d + (m + 1)] <= c
    BY <1>2, <1>3, <1>4, <2>1 DEF Cut
  <2>3. b[d + (m + 1)] \in Int
    BY <1>4, <2>1
  <2> QED BY <2>2, <2>3
<1>6. PICK r \in Times : r = Rest(b, n)
  BY RestOfTimes
<1>7. PICK e \in Nat : e = (d + m) - n
  BY <1>4, <1>5
<1>8. e \in 0..(Len(b) - n) /\ n + e = d + m /\ e \in 0..Len(r)
  <2>1. Len(r) = Len(b) - n
    BY <1>6, RestOfTimes
  <2> QED BY <1>4, <1>5, <1>7, <2>1
<1>9. Rest(r, e) = Rest(b, d + m)
  BY <1>6, <1>8, RestOfRest
<1>10. Rest(a, m) = Rest(b, d + m)
  BY <1>1, <1>4, RestOfRest
<1>11. C!Prune(a, c) = Rest(a, m) /\ C!Prune(b, c) = r
  BY <1>2, <1>3, <1>6, PruneIsRest
<1> QED BY <1>8, <1>9, <1>10, <1>11 DEF Suffix

-----------------------------------------------------------------------------
(* The windows of threshold rules                                          *)

\* Times as ShouldFire collects them, up to time t.
InOrder(s, t) == /\ s \in Times
                 /\ \A i, j \in 1..Len(s) : i <= j => s[i] <= s[j]
                 /\ \A i \in 1..Len(s) : s[i] <= t

WindowsType ==
    /\ now \in Nat
    /\ DOMAIN windows \subseteq Keys
    /\ \A k \in DOMAIN windows : InOrder(windows[k], now)
    /\ DOMAIN hits = Keys /\ \A k \in Keys : InOrder(hits[k], now)

CountedOf(k) == C!Prune(C!WindowIn(windows, k), now - Period[k])
RealOf(k)    == C!Prune(hits[k], now - Period[k])

\* WindowExact with the code's own pruning for the reference.
CountInv ==
    \A k \in Keys : C!Spared(k) => /\ k \notin evicted => CountedOf(k) = RealOf(k)
                                  /\ Suffix(CountedOf(k), RealOf(k))

WindowInv == WindowsType /\ CountInv

LEMMA PeriodType ==
    ASSUME DetectionAssumption
    PROVE  /\ GcAge \in Nat /\ \A k \in Keys : Count[k] \in Nat /\ Period[k] \in Nat
BY DEF DetectionAssumption, C!CorrelationAssumption

LEMMA InOrderEmpty == \A t : InOrder(<<>>, t)
BY DEF InOrder, Times

LEMMA InOrderPrune ==
    ASSUME NEW s, InOrder(s, now), NEW c \in Int PROVE InOrder(C!Prune(s, c), now)
<1>1. s \in Times
  BY DEF InOrder
<1>2. PICK n \in 0..Len(s) : Cut(s, c, n)
  BY <1>1, CutExists
<1>3. PICK r \in Times : r = Rest(s, n) /\ r = C!Prune(s, c)
  BY <1>1, <1>2, PruneIsRest, RestOfTimes
<1>4. /\ Len(s) \in Nat /\ Len(r) = Len(s) - n
      /\ \A i \in 1..(Len(s) - n) : r[i] = s[n + i]
  BY <1>1, <1>3, RestOfTimes
<1>5. \A i \in 1..Len(r) : n + i \in 1..Len(s) /\ r[i] = s[n + i]
  BY <1>4
<1>6. \A i, j \in 1..Len(r) : i <= j => n + i <= n + j
  BY <1>4
<1>7. \A i, j \in 1..Len(r) : i <= j => r[i] <= r[j]
  BY <1>5, <1>6 DEF InOrder
<1>8. \A i \in 1..Len(r) : r[i] <= now
  BY <1>5 DEF InOrder
<1> QED BY <1>3, <1>7, <1>8 DEF InOrder

LEMMA InOrderAppend ==
    ASSUME NEW s, InOrder(s, now), now \in Nat PROVE InOrder(Append(s, now), now)
<1>1. s \in Times /\ Len(s) \in Nat /\ now \in Int
  BY LenProperties DEF InOrder, Times
<1>2. PICK a \in Times : a = Append(s, now)
  BY <1>1, AppendProperties DEF Times
<1>3. /\ Len(a) = Len(s) + 1 /\ a[Len(s) + 1] = now
      /\ \A i \in 1..Len(s) : a[i] = s[i]
  BY <1>1, <1>2, AppendProperties DEF Times
<1>4. \A i \in 1..Len(a) : i \in 1..Len(s) \/ i = Len(s) + 1
  BY <1>1, <1>3
<1>5. \A i \in 1..Len(a) : a[i] <= now
  <2> SUFFICES ASSUME NEW i \in 1..Len(a) PROVE a[i] <= now
    OBVIOUS
  <2>1. CASE i \in 1..Len(s)
    BY <1>3, <2>1 DEF InOrder
  <2>2. CASE i = Len(s) + 1
    BY <1>3, <2>2
  <2> QED BY <1>4, <2>1, <2>2
<1>6. ASSUME NEW i \in 1..Len(a), NEW j \in 1..Len(a), i <= j PROVE a[i] <= a[j]
  <2>1. CASE j \in 1..Len(s)
    <3>1. i \in 1..Len(s)
      BY <1>1, <1>6, <2>1
    <3> QED BY <1>3, <1>6, <2>1, <3>1 DEF InOrder
  <2>2. CASE j = Len(s) + 1
    BY <1>3, <1>5, <2>2
  <2> QED BY <1>4, <2>1, <2>2
<1> QED BY <1>2, <1>5, <1>6 DEF InOrder

\* What the reference counts is what the code keeps.
LEMMA RecentIsPrune ==
    ASSUME NEW s, InOrder(s, now), now \in Nat, NEW k \in Keys, Period[k] \in Nat
    PROVE  C!Recent(s, k) = C!Prune(s, now - Period[k])
<1>1. s \in Times
  BY DEF InOrder
<1>0. now - Period[k] \in Int
  OBVIOUS
<1>2. PICK n \in 0..Len(s) : Cut(s, now - Period[k], n)
  BY <1>0, <1>1, CutExists
<1>3. /\ Len(s) \in Nat /\ DOMAIN s = 1..Len(s) /\ \A i \in 1..Len(s) : s[i] \in Int
  BY <1>1, LenProperties, ElementOfSeq DEF Times
<1> DEFINE young == {i \in DOMAIN s : now - s[i] < Period[k]}
<1>4. young = (n + 1)..Len(s)
  <2>1. ASSUME NEW i \in 1..Len(s), i <= n PROVE ~ (now - s[i] < Period[k])
    <3>1. s[i] <= now - Period[k] /\ s[i] \in Int
      BY <1>2, <1>3, <2>1 DEF Cut
    <3> QED BY <3>1
  <2>2. ASSUME NEW i \in 1..Len(s), i > n PROVE now - s[i] < Period[k]
    <3>1. n < Len(s) /\ n + 1 \in 1..Len(s) /\ n + 1 <= i
      BY <1>3, <2>2
    <3>2. s[n + 1] > now - Period[k] /\ s[n + 1] <= s[i]
      BY <1>2, <3>1 DEF Cut, InOrder
    <3>3. s[n + 1] \in Int /\ s[i] \in Int
      BY <1>3, <3>1
    <3> QED BY <3>2, <3>3
  <2>3. \A i : i \in (n + 1)..Len(s) <=> i \in 1..Len(s) /\ i > n
    BY <1>3
  <2> QED BY <1>3, <2>1, <2>2, <2>3
<1>5. Cardinality(young) = Len(s) - n
  <2>1. n \in Int /\ n + 1 \in Int /\ Len(s) \in Int
    BY <1>3
  <2>2. Cardinality((n + 1)..Len(s)) = IF n + 1 > Len(s) THEN 0 ELSE Len(s) - (n + 1) + 1
    BY <2>1, FS_Interval
  <2>3. Cardinality(young) = IF n + 1 > Len(s) THEN 0 ELSE Len(s) - (n + 1) + 1
    BY <1>4, <2>2
  <2>4. \A a, b \in Int : a \in 0..b =>
                (IF a + 1 > b THEN 0 ELSE b - (a + 1) + 1) = b - a
    OBVIOUS
  <2> QED BY <2>1, <2>3, <2>4, Zenon
<1>6. C!Recent(s, k) = SubSeq(s, Len(s) - Cardinality(young) + 1, Len(s))
  BY Zenon DEF C!Recent, C!Cardinality, Cardinality
<1>7. Len(s) - (Len(s) - n) + 1 = n + 1
  BY <1>3
<1> HIDE DEF young
<1>8. C!Recent(s, k) = Rest(s, n)
  BY <1>5, <1>6, <1>7 DEF Rest
<1> QED BY <1>0, <1>1, <1>2, <1>8, PruneIsRest

LEMMA InOrderLater ==
    ASSUME NEW s, NEW t \in Nat, NEW u \in Nat, t <= u, InOrder(s, t) PROVE InOrder(s, u)
<1>1. \A i \in 1..Len(s) : s[i] \in Int
  BY ElementOfSeq DEF InOrder, Times
<1>2. \A i \in 1..Len(s) : s[i] <= u
  BY <1>1 DEF InOrder
<1> QED BY <1>2 DEF InOrder

\* The next values.
LEMMA NextCounted ==
    ASSUME NEW k
    PROVE  /\ CountedOf(k)' = C!Prune(IF k \in DOMAIN windows' THEN windows'[k] ELSE <<>>,
                                      now' - Period[k])
           /\ RealOf(k)' = C!Prune(hits'[k], now' - Period[k])
BY DEF CountedOf, RealOf, C!Prune, C!WindowIn

\* What a window and the reference have is in order.
LEMMA WindowTypes ==
    ASSUME DetectionAssumption, WindowsType, NEW k \in Keys
    PROVE  /\ InOrder(C!WindowIn(windows, k), now) /\ InOrder(hits[k], now)
           /\ C!WindowIn(windows, k) \in Times /\ hits[k] \in Times
           /\ now - Period[k] \in Int
           /\ CountedOf(k) \in Times /\ RealOf(k) \in Times
<1>1. InOrder(C!WindowIn(windows, k), now) /\ InOrder(hits[k], now)
  BY InOrderEmpty DEF WindowsType, C!WindowIn
<1>2. C!WindowIn(windows, k) \in Times /\ hits[k] \in Times
  BY <1>1 DEF InOrder
<1>3. now - Period[k] \in Int
  BY PeriodType DEF WindowsType
<1> QED BY <1>1, <1>2, <1>3, PruneType DEF CountedOf, RealOf

LEMMA SuffixOfEmpty ==
    /\ <<>> \in Times
    /\ \A c \in Int : C!Prune(<<>>, c) = <<>>
    /\ \A b \in Times : Suffix(<<>>, b)
    /\ \A b \in Times : Suffix(b, b)
<1>1. <<>> \in Times /\ Len(<<>>) = 0
  BY DEF Times
<1>2. ASSUME NEW s \in Times, Len(s) = 0 PROVE s = <<>>
  BY <1>2, EmptySeq DEF Times
<1>3. ASSUME NEW c \in Int PROVE C!Prune(<<>>, c) = <<>>
  <2>1. Cut(<<>>, c, 0)
    BY <1>1 DEF Cut
  <2>2. PICK r \in Times : r = Rest(<<>>, 0) /\ Len(r) = 0
    BY <1>1, RestOfTimes
  <2> QED BY <1>1, <1>2, <2>1, <2>2, PruneIsRest
<1>4. ASSUME NEW b \in Times PROVE Suffix(<<>>, b)
  <2>1. Len(b) \in Nat /\ Len(b) \in 0..Len(b) /\ Len(b) - Len(b) = 0
    BY LenProperties DEF Times
  <2>2. PICK r \in Times : r = Rest(b, Len(b)) /\ Len(r) = 0
    BY <2>1, RestOfTimes
  <2> QED BY <1>2, <2>1, <2>2 DEF Suffix
<1>5. ASSUME NEW b \in Times PROVE Suffix(b, b)
  <2>1. Len(b) \in Nat /\ 0 \in 0..Len(b) /\ Len(b) - 0 = Len(b)
    BY LenProperties DEF Times
  <2>2. PICK r \in Times : r = Rest(b, 0) /\ Len(r) = Len(b)
    BY <2>1, RestOfTimes
  <2>3. \A i \in 1..Len(r) : r[i] = b[i]
    <3>1. \A i \in 1..(Len(b) - 0) : r[i] = b[0 + i]
      BY <2>1, <2>2, RestOfTimes
    <3> QED BY <2>1, <2>2, <3>1
  <2>4. r \in Seq(Int) /\ b \in Seq(Int)
    BY <2>2 DEF Times
  <2>5. r = b
    BY <2>2, <2>3, <2>4, SeqEqual
  <2> QED BY <2>1, <2>2, <2>5 DEF Suffix
<1> QED BY <1>1, <1>3, <1>4, <1>5

\* Making room leaves a window out, or cuts windows to the period of the rule
\* that needs the room; it does not touch this rule's own.
LEMMA RoomKeeps ==
    ASSUME DetectionAssumption, WindowsType, NEW k \in Keys, NEW w \in C!WithRoomFor(k)
    PROVE  /\ DOMAIN w \subseteq DOMAIN windows
           /\ \A j \in DOMAIN w : \/ w[j] = windows[j]
                                  \/ w[j] = C!Prune(windows[j], now - Period[k])
           /\ C!WindowIn(w, k) = C!WindowIn(windows, k)
<1>1. CASE w = windows
  BY <1>1
<1>2. CASE w # windows
  <2>1. k \notin DOMAIN windows /\ w \in C!EvictOldest(Period[k])
    BY <1>2 DEF C!WithRoomFor
  <2>2. \E g, V : w = C!Without(g, V, Period[k])
    <3> DEFINE old == DOMAIN windows
               cut == [j \in old |-> C!Prune(windows[j], now - Period[k])]
               empty == {j \in old : cut[j] = <<>>}
               oldest == {j \in old : \A i \in old : C!Newest(cut[j]) <= C!Newest(cut[i])}
    <3>1. w \in IF empty # {}
               THEN UNION {{C!Without(g, V, Period[k]) : V \in SUBSET (old \ empty)} : g \in empty}
               ELSE {C!Without(g, old, Period[k]) : g \in oldest}
      BY <2>1, Zenon DEF C!EvictOldest
    <3> HIDE DEF old, cut, empty, oldest
    <3> QED BY <3>1
  <2>6. PICK g, V : w = C!Without(g, V, Period[k])
    BY <2>2
  <2>3. /\ DOMAIN w = DOMAIN windows \ {g}
        /\ \A j \in DOMAIN w :
              w[j] = IF j \in V THEN C!Prune(windows[j], now - Period[k]) ELSE windows[j]
    BY <2>6 DEF C!Without
  <2> QED BY <2>1, <2>3 DEF C!WindowIn
<1> QED BY <1>1, <1>2

\* Making room makes no difference to a window that is spared.
LEMMA RoomCounts ==
    ASSUME DetectionAssumption, WindowsType, NEW k \in Keys, C!Threshold(k),
           NEW w \in C!WithRoomFor(k), NEW j \in Keys
    PROVE  /\ InOrder(C!WindowIn(w, j), now)
           /\ j \in DOMAIN w /\ C!Spared(j) =>
                 C!Prune(C!WindowIn(w, j), now - Period[j]) = CountedOf(j)
<1>1. CASE j \notin DOMAIN w
  BY <1>1, InOrderEmpty DEF C!WindowIn
<1>2. CASE j \in DOMAIN w
  <2>1. j \in DOMAIN windows /\ C!WindowIn(w, j) = w[j] /\ C!WindowIn(windows, j) = windows[j]
    BY <1>2, RoomKeeps DEF C!WindowIn
  <2>2. InOrder(windows[j], now) /\ windows[j] \in Times
    BY <2>1 DEF WindowsType, InOrder
  <2>3. now - Period[j] \in Int /\ now - Period[k] \in Int
    BY WindowTypes
  <2>4. CASE w[j] = windows[j]
    BY <2>1, <2>2, <2>4 DEF CountedOf
  <2>5. CASE w[j] = C!Prune(windows[j], now - Period[k])
    <3>1. InOrder(w[j], now)
      BY <2>2, <2>3, <2>5, InOrderPrune
    <3>2. ASSUME C!Spared(j) PROVE now - Period[k] <= now - Period[j]
      <4>1. Period[j] <= Period[k] /\ Period[j] \in Nat /\ Period[k] \in Nat /\ now \in Nat
        BY <3>2, PeriodType DEF C!Spared, C!Threshold, WindowsType
      <4> QED BY <4>1
    <3> QED BY <2>1, <2>2, <2>3, <2>5, <3>1, <3>2, PruneTwice DEF CountedOf
  <2> QED BY <1>2, <2>4, <2>5, RoomKeeps
<1> QED BY <1>1, <1>2

LEMMA WindowFire ==
    ASSUME DetectionAssumption, WindowInv, NEW k \in Keys, NEW fired \in BOOLEAN,
           C!ShouldFire(k, fired)
    PROVE  WindowInv'
<1>1. CASE ~ C!Threshold(k)
  <2>1. UNCHANGED <<now, windows, hits, evicted>>
    BY <1>1 DEF C!ShouldFire, C!vars
  <2>2. WindowsType'
    BY <2>1 DEF WindowInv, WindowsType, InOrder
  <2>3. \A j \in Keys : /\ CountedOf(j)' = CountedOf(j) /\ RealOf(j)' = RealOf(j)
                        /\ (j \in evicted)' = (j \in evicted)
    BY <2>1 DEF CountedOf, RealOf, C!WindowIn, C!Prune
  <2>4. \A j : C!Spared(j)' = C!Spared(j)
    BY <2>1 DEF C!Spared, C!Threshold
  <2>5. CountInv'
    BY <2>3, <2>4 DEF WindowInv, CountInv, Suffix, Rest
  <2> QED BY <2>2, <2>5 DEF WindowInv
<1>2. CASE C!Threshold(k)
  <2> DEFINE Got(w)  == C!Prune(Append(C!WindowIn(w, k), now), now - Period[k])
             Have    == C!Recent(Append(hits[k], now), k)
             Due     == Len(Have) >= Count[k]
             NewHits == IF Due /\ (fired \/ k \notin evicted) THEN <<>> ELSE Have
  <2>1. PICK w \in C!WithRoomFor(k) :
          /\ fired = (Len(Got(w)) >= Count[k])
          /\ windows' = [j \in DOMAIN w \cup {k} |->
                            IF j # k THEN w[j]
                            ELSE IF fired THEN C!Reset(Got(w)) ELSE Got(w)]
          /\ evicted' = (evicted \cup (DOMAIN windows \ DOMAIN w))
                         \ (IF fired THEN {k} ELSE {})
          /\ hits' = [hits EXCEPT ![k] = NewHits]
          /\ UNCHANGED now
    BY <1>2 DEF C!ShouldFire
  <2>2. WindowsType /\ now' = now /\ now \in Nat
    BY <2>1 DEF WindowInv, WindowsType
  <2>3. DOMAIN w \subseteq DOMAIN windows /\ C!WindowIn(w, k) = C!WindowIn(windows, k)
    BY <2>2, RoomKeeps
  <2>4. /\ now - Period[k] \in Int /\ now - Period[k] < now /\ now \in Int
        /\ CountedOf(k) \in Times /\ RealOf(k) \in Times
    <3>1. now - Period[k] < now
      <4>1. Period[k] \in Nat /\ Period[k] > 0
        BY <1>2, PeriodType DEF C!Threshold
      <4> QED BY <2>2, <4>1
    <3> QED BY <2>2, <3>1, WindowTypes
  \* What is counted, and what there is, each grow by this event.
  <2>5. Got(w) = Append(CountedOf(k), now) /\ InOrder(Got(w), now)
    BY <2>2, <2>3, <2>4, WindowTypes, PruneAppend, InOrderAppend, InOrderPrune DEF CountedOf
  <2>6. Have = Append(RealOf(k), now) /\ InOrder(Have, now)
    <3>1. InOrder(Append(hits[k], now), now)
      BY <2>2, WindowTypes, InOrderAppend
    <3>2. Have = C!Prune(Append(hits[k], now), now - Period[k])
      BY <2>2, <3>1, PeriodType, RecentIsPrune
    <3>3. hits[k] \in Times
      BY <2>2, WindowTypes
    <3>4. Have = Append(RealOf(k), now)
      BY <2>4, <3>2, <3>3, PruneAppend DEF RealOf
    <3>5. InOrder(Have, now)
      BY <2>2, <2>4, <3>1, <3>2, InOrderPrune
    <3> QED BY <3>4, <3>5
  <2>7. PICK got \in Times : got = Got(w) /\ InOrder(got, now) /\ got = Append(CountedOf(k), now)
    BY <2>5 DEF InOrder
  <2>8. PICK have \in Times : have = Have /\ InOrder(have, now) /\ have = Append(RealOf(k), now)
    BY <2>6 DEF InOrder
  <2>9. PICK newHits \in {<<>>, have} :
          newHits = (IF Len(have) >= Count[k] /\ (fired \/ k \notin evicted)
                     THEN <<>> ELSE have)
    OBVIOUS
  <2>10. hits' = [hits EXCEPT ![k] = newHits]
    BY <2>1, <2>8, <2>9
  <2>11. PICK mine \in {<<>>, got} : mine = IF fired THEN <<>> ELSE got
    OBVIOUS
  <2>12. windows' = [j \in DOMAIN w \cup {k} |-> IF j # k THEN w[j] ELSE mine]
    BY <2>1, <2>7, <2>11 DEF C!Reset
  <2>13. fired = (Len(got) >= Count[k])
    BY <2>1, <2>7
  <2> HIDE DEF Got, Have, Due, NewHits
  <2>14. /\ DOMAIN windows' = DOMAIN w \cup {k} /\ windows'[k] = mine
         /\ \A j \in DOMAIN w \ {k} : windows'[j] = w[j]
    BY <2>12
  <2>15. /\ DOMAIN hits' = Keys /\ hits'[k] = newHits
         /\ \A j \in Keys \ {k} : hits'[j] = hits[j]
    BY <2>2, <2>10 DEF WindowsType
  <2>17. WindowsType'
    <3>1. ASSUME NEW j \in DOMAIN windows' PROVE InOrder(windows'[j], now)
      <4>1. CASE j = k
        BY <2>7, <2>11, <2>14, <4>1, InOrderEmpty
      <4>2. CASE j # k
        <5>1. j \in DOMAIN w /\ j \in Keys /\ C!WindowIn(w, j) = w[j]
          BY <2>2, <2>3, <2>14, <4>2 DEF WindowsType, C!WindowIn
        <5>2. InOrder(w[j], now)
          BY <1>2, <2>2, <5>1, RoomCounts
        <5> QED BY <2>14, <4>2, <5>1, <5>2
      <4> QED BY <4>1, <4>2
    <3>2. ASSUME NEW j \in Keys PROVE InOrder(hits'[j], now)
      <4>1. CASE j = k
        BY <2>8, <2>9, <2>15, <4>1, InOrderEmpty
      <4>2. CASE j # k
        BY <2>2, <2>15, <4>2 DEF WindowsType
      <4> QED BY <4>1, <4>2
    <3>3. DOMAIN windows' \subseteq Keys
      BY <2>2, <2>3, <2>14 DEF WindowsType
    <3> QED BY <2>2, <2>15, <3>1, <3>2, <3>3 DEF WindowsType
  <2>18. ASSUME NEW j \in Keys, C!Spared(j), j # k
         PROVE  /\ (j \notin evicted => CountedOf(j) = RealOf(j))'
                /\ Suffix(CountedOf(j), RealOf(j))'
    <3>1. RealOf(j)' = RealOf(j) /\ RealOf(j) \in Times
      BY <2>2, <2>15, <2>18, WindowTypes DEF RealOf, C!Prune
    <3>2. /\ j \notin evicted => CountedOf(j) = RealOf(j)
          /\ Suffix(CountedOf(j), RealOf(j))
      BY <2>18 DEF WindowInv, CountInv
    <3>3. CASE j \in DOMAIN w
      <4>1. C!WindowIn(windows, j)' = C!WindowIn(w, j)
        BY <2>14, <2>18, <3>3 DEF C!WindowIn
      <4>2. CountedOf(j)' = CountedOf(j)
        <5>1. C!Prune(C!WindowIn(w, j), now - Period[j]) = CountedOf(j)
          BY <1>2, <2>2, <2>18, <3>3, RoomCounts
        <5>2. CountedOf(j)' = C!Prune(C!WindowIn(w, j), now - Period[j])
          BY <2>2, <4>1 DEF CountedOf, C!Prune
        <5> QED BY <5>1, <5>2
      <4>3. j \in evicted' <=> j \in evicted
        BY <2>1, <2>3, <2>18, <3>3
      <4> QED BY <3>1, <3>2, <4>2, <4>3 DEF Suffix, Rest
    <3>4. CASE j \notin DOMAIN w
      <4>1. C!WindowIn(windows, j)' = <<>>
        BY <2>14, <2>18, <3>4 DEF C!WindowIn
      <4>2. CountedOf(j)' = <<>>
        BY <2>2, <4>1, SuffixOfEmpty, WindowTypes DEF CountedOf, C!Prune
      <4>3. CASE j \in evicted'
        BY <3>1, <4>2, <4>3, SuffixOfEmpty DEF Suffix, Rest
      <4>4. CASE j \notin evicted'
        <5>1. j \notin evicted /\ j \notin DOMAIN windows
          BY <2>1, <2>18, <3>4, <4>4
        <5>2. CountedOf(j) = <<>>
          BY <2>2, <5>1, SuffixOfEmpty, WindowTypes DEF CountedOf, C!WindowIn
        <5> QED BY <3>1, <3>2, <4>2, <5>1, <5>2, SuffixOfEmpty DEF Suffix, Rest
      <4> QED BY <4>3, <4>4
    <3> QED BY <3>3, <3>4
  <2>19. ASSUME C!Spared(k)
         PROVE  /\ (k \notin evicted => CountedOf(k) = RealOf(k))'
                /\ Suffix(CountedOf(k), RealOf(k))'
    <3>1. /\ k \notin evicted => got = have
          /\ Suffix(got, have)
      <4>1. /\ k \notin evicted => CountedOf(k) = RealOf(k)
            /\ Suffix(CountedOf(k), RealOf(k))
        BY <2>19 DEF WindowInv, CountInv
      <4> QED BY <2>4, <2>7, <2>8, <4>1, SuffixAppend
    <3>2. Len(got) <= Len(have) /\ Len(got) \in Nat /\ Len(have) \in Nat /\ Count[k] \in Nat
      <4>1. PICK d \in 0..Len(have) : got = Rest(have, d)
        BY <3>1 DEF Suffix
      <4>2. Len(got) = Len(have) - d /\ Len(have) \in Nat /\ Len(have) - d \in Nat
        BY <4>1, RestOfTimes
      <4> QED BY <4>2, PeriodType
    <3>3. /\ CountedOf(k)' = C!Prune(mine, now - Period[k])
          /\ RealOf(k)' = C!Prune(newHits, now - Period[k])
      BY <2>2, <2>14, <2>15, NextCounted
    <3>4. CASE fired
      <4>1. mine = <<>> /\ newHits = <<>>
        <5>1. Len(got) >= Count[k] /\ Len(have) >= Count[k]
          <6>1. Len(got) >= Count[k]
            BY <2>13, <3>4, Zenon
          <6> QED BY <3>2, <6>1
        <5> QED BY <2>9, <2>11, <3>4, <5>1
      <4>2. CountedOf(k)' = <<>> /\ RealOf(k)' = <<>>
        BY <2>4, <3>3, <4>1, SuffixOfEmpty
      <4> QED BY <4>2, SuffixOfEmpty DEF Suffix, Rest
    <3>5. CASE ~fired
      <4>1. mine = got /\ newHits = have
        BY <2>9, <2>11, <2>13, <3>1, <3>2, <3>5
      <4>2. C!Prune(got, now - Period[k]) = got
        <5>1. C!Prune(CountedOf(k), now - Period[k]) = CountedOf(k)
          BY <2>2, <2>4, WindowTypes, PruneTwice DEF CountedOf
        <5> QED BY <2>4, <2>7, <5>1, PruneAppend
      <4>3. C!Prune(have, now - Period[k]) = have
        <5>1. C!Prune(RealOf(k), now - Period[k]) = RealOf(k)
          BY <2>2, <2>4, WindowTypes, PruneTwice DEF RealOf
        <5> QED BY <2>4, <2>8, <5>1, PruneAppend
      <4>4. CountedOf(k)' = got /\ RealOf(k)' = have
        BY <3>3, <4>1, <4>2, <4>3
      <4>5. k \notin evicted' => k \notin evicted
        BY <2>1, <3>5
      <4> QED BY <3>1, <4>4, <4>5 DEF Suffix, Rest
    <3> QED BY <3>4, <3>5
  <2> QED BY <2>17, <2>18, <2>19 DEF WindowInv, CountInv, C!Spared, C!Threshold
<1> QED BY <1>1, <1>2

LEMMA WindowGc ==
    ASSUME DetectionAssumption, WindowInv, C!Gc PROVE WindowInv'
<1> DEFINE Aged(k) == C!Prune(windows[k], now - GcAge)
<1>1. /\ DOMAIN windows' = {k \in DOMAIN windows : Aged(k) # <<>>}
      /\ \A k \in DOMAIN windows' : windows'[k] = Aged(k)
      /\ UNCHANGED <<now, hits, evicted>>
  BY DEF C!Gc
<1>2. WindowsType /\ now \in Nat /\ now - GcAge \in Int
  BY PeriodType DEF WindowInv, WindowsType
<1>3. \A k \in DOMAIN windows : InOrder(Aged(k), now)
  BY <1>2, InOrderPrune DEF WindowsType
<1>4. WindowsType'
  BY <1>1, <1>2, <1>3 DEF WindowsType
<1>5. ASSUME NEW k \in Keys, C!Spared(k)
      PROVE CountedOf(k)' = CountedOf(k) /\ RealOf(k)' = RealOf(k)
  <2>1. now - Period[k] \in Int /\ now - GcAge <= now - Period[k]
    BY <1>2, <1>5, PeriodType DEF C!Spared
  <2>2. RealOf(k)' = RealOf(k)
    BY <1>1, NextCounted DEF RealOf
  <2>3. CASE k \in DOMAIN windows
    <3>1. /\ windows[k] \in Times
          /\ CountedOf(k) = C!Prune(Aged(k), now - Period[k])
      BY <1>2, <2>1, <2>3, PruneTwice DEF WindowsType, InOrder, CountedOf, C!WindowIn
    <3>2. CASE k \in DOMAIN windows'
      BY <1>1, <2>2, <3>1, <3>2, NextCounted
    <3>3. CASE k \notin DOMAIN windows'
      <4>1. Aged(k) = <<>>
        BY <1>1, <2>3, <3>3
      <4>2. CountedOf(k)' = C!Prune(<<>>, now - Period[k])
        BY <1>1, <3>3, NextCounted
      <4> QED BY <2>2, <3>1, <4>1, <4>2
    <3> QED BY <2>2, <3>2, <3>3
  <2>4. CASE k \notin DOMAIN windows
    <3>1. k \notin DOMAIN windows'
      BY <1>1, <2>4
    <3> QED BY <1>1, <2>2, <2>4, <3>1, NextCounted DEF CountedOf, C!WindowIn
  <2> QED BY <2>2, <2>3, <2>4
<1>6. CountInv'
  <2> SUFFICES ASSUME NEW k \in Keys, C!Spared(k)
               PROVE  /\ (k \notin evicted => CountedOf(k) = RealOf(k))'
                      /\ Suffix(CountedOf(k), RealOf(k))'
    BY DEF CountInv, C!Spared, C!Threshold
  <2> QED BY <1>1, <1>5 DEF WindowInv, CountInv, Suffix, Rest
<1> QED BY <1>4, <1>6 DEF WindowInv

\* Time takes the same from both.
LEMMA WindowTick ==
    ASSUME DetectionAssumption, WindowInv, Tick PROVE WindowInv'
<1>1. /\ now \in Nat /\ now' = now + 1 /\ WindowsType
      /\ UNCHANGED <<windows, hits, evicted>>
  BY DEF WindowInv, WindowsType, Tick, counters
<1>2. WindowsType'
  BY <1>1, InOrderLater DEF WindowsType
<1>3. ASSUME NEW k \in Keys
      PROVE  /\ CountedOf(k)' = C!Prune(CountedOf(k), now' - Period[k])
             /\ RealOf(k)' = C!Prune(RealOf(k), now' - Period[k])
  <2>1. now' - Period[k] \in Int /\ now - Period[k] <= now' - Period[k]
    BY <1>1, PeriodType
  <2>2. CountedOf(k)' = C!Prune(C!WindowIn(windows, k), now' - Period[k])
    BY <1>1, NextCounted DEF C!WindowIn
  <2>3. RealOf(k)' = C!Prune(hits[k], now' - Period[k])
    BY <1>1, NextCounted
  <2> QED BY <1>1, <2>1, <2>2, <2>3, WindowTypes, PruneTwice DEF CountedOf, RealOf
<1>4. CountInv'
  <2> SUFFICES ASSUME NEW k \in Keys, C!Spared(k)
               PROVE  /\ (k \notin evicted => CountedOf(k) = RealOf(k))'
                      /\ Suffix(CountedOf(k), RealOf(k))'
    BY DEF CountInv, C!Spared, C!Threshold
  <2>1. /\ k \notin evicted => CountedOf(k) = RealOf(k)
        /\ Suffix(CountedOf(k), RealOf(k))
    BY DEF WindowInv, CountInv
  <2>2. now' - Period[k] \in Int
    BY <1>1, PeriodType
  <2>3. Suffix(C!Prune(CountedOf(k), now' - Period[k]), C!Prune(RealOf(k), now' - Period[k]))
    BY <1>1, <2>1, <2>2, WindowTypes, SuffixPrune
  <2> QED BY <1>1, <1>3, <2>1, <2>3 DEF Suffix, Rest
<1> QED BY <1>2, <1>4 DEF WindowInv

LEMMA WindowFrame ==
    ASSUME WindowInv, UNCHANGED <<now, counters>> PROVE WindowInv'
<1>1. UNCHANGED <<now, windows, hits, evicted>>
  BY DEF counters
<1>2. WindowsType'
  BY <1>1 DEF WindowInv, WindowsType
<1>3. \A k : CountedOf(k)' = CountedOf(k) /\ RealOf(k)' = RealOf(k)
  BY <1>1, NextCounted DEF CountedOf, RealOf, C!WindowIn
<1>4. CountInv'
  BY <1>1, <1>3 DEF WindowInv, CountInv, C!Spared, C!Threshold, Suffix, Rest
<1> QED BY <1>2, <1>4 DEF WindowInv

LEMMA WindowStep ==
    ASSUME DetectionAssumption, WorkInv, WindowInv, [Next]_vars PROVE WindowInv'
<1>1. CASE Arrive \/ Stop \/ UNCHANGED vars
  BY <1>1, WindowFrame DEF Arrive, Stop, vars
<1>2. ASSUME NEW w \in Workers, Worker(w) PROVE WindowInv'
  <2>1. CASE Correlate(w)
    <3>1. AtKnownRule(work[w])
      BY DEF WorkInv
    <3>2. /\ work[w].kind \in Kinds
          /\ work[w].n \in 1..Len(Matched[work[w].kind])
      BY <2>1, <3>1 DEF Correlate, AtRule, AtKnownRule
    <3>3. KeyOf(w) \in Keys
      BY <3>2 DEF KeyOf, DetectionAssumption
    <3> QED BY <2>1, <3>3, WindowFire DEF Correlate
  <2>2. CASE Take(w) \/ Deduplicate(w) \/ Respond(w) \/ Recheck(w) \/ Finish(w) \/ ExitWorker(w)
    <3>1. UNCHANGED <<now, counters>>
      BY <2>2 DEF Take, Deduplicate, Respond, Recheck, Finish, ExitWorker
    <3> QED BY <3>1, WindowFrame
  <2> QED BY <1>2, <2>1, <2>2 DEF Worker
<1>3. CASE CorrelationGc
  BY <1>3, WindowGc DEF CorrelationGc
<1>4. CASE DedupGc
  <2>1. UNCHANGED <<now, counters>>
    BY <1>4 DEF DedupGc
  <2> QED BY <2>1, WindowFrame
<1>5. CASE Tick
  BY <1>5, WindowTick
<1> QED BY <1>1, <1>2, <1>3, <1>4, <1>5 DEF Next

LEMMA WindowInit ==
    ASSUME DetectionAssumption, Init PROVE WindowInv
<1>1. now = 0 /\ windows = [k \in {} |-> <<>>] /\ hits = [k \in Keys |-> <<>>] /\ evicted = {}
  BY DEF Init, C!Init
<1>2. DOMAIN windows = {} /\ DOMAIN hits = Keys /\ \A k \in Keys : hits[k] = <<>>
  BY <1>1
<1>3. WindowsType
  BY <1>1, <1>2, InOrderEmpty DEF WindowsType
<1>4. ASSUME NEW k \in Keys PROVE CountedOf(k) = <<>> /\ RealOf(k) = <<>>
  BY <1>2, <1>3, SuffixOfEmpty, WindowTypes DEF CountedOf, RealOf, C!WindowIn
<1>5. CountInv
  BY <1>4, SuffixOfEmpty DEF CountInv
<1> QED BY <1>3, <1>5 DEF WindowInv

\* A threshold rule decides as if every event of its last period were still
\* counted, unless its window had to make room: for every rule that is spared,
\* with any mix of periods among the others.
THEOREM WindowsCount == Spec => []WindowExact
<1> USE DetectionAssumption
<1>1. Init => WorkInv /\ WindowInv
  BY WorkInit, WindowInit
<1>2. WorkInv /\ WindowInv /\ [Next]_vars => (WorkInv /\ WindowInv)'
  BY WorkStep, WindowStep
<1>3. WindowInv => WindowExact
  <2> SUFFICES ASSUME WindowInv, NEW k \in Keys, C!Spared(k)
               PROVE  LET counted == C!Recent(C!WindowIn(windows, k), k)
                          real == C!Recent(hits[k], k)
                      IN  /\ k \notin evicted => counted = real
                          /\ counted = SubSeq(real, Len(real) - Len(counted) + 1, Len(real))
    BY DEF WindowExact, C!WindowExact
  <2>1. WindowsType /\ now \in Nat /\ Period[k] \in Nat
    BY PeriodType DEF WindowInv, WindowsType
  <2>2. /\ C!Recent(C!WindowIn(windows, k), k) = CountedOf(k)
        /\ C!Recent(hits[k], k) = RealOf(k)
    BY <2>1, WindowTypes, RecentIsPrune DEF CountedOf, RealOf
  <2>3. /\ k \notin evicted => CountedOf(k) = RealOf(k)
        /\ Suffix(CountedOf(k), RealOf(k))
    BY DEF WindowInv, CountInv
  <2>4. CountedOf(k) = SubSeq(RealOf(k), Len(RealOf(k)) - Len(CountedOf(k)) + 1,
                              Len(RealOf(k)))
    <3>1. PICK real \in Times : real = RealOf(k)
      BY <2>1, WindowTypes
    <3>2. PICK d \in 0..Len(real) : CountedOf(k) = Rest(real, d)
      BY <2>3, <3>1 DEF Suffix
    <3>3. Len(CountedOf(k)) = Len(real) - d /\ Len(real) \in Nat
      BY <3>2, RestOfTimes
    <3>4. Len(real) - (Len(real) - d) + 1 = d + 1
      BY <3>3
    <3> QED BY <3>1, <3>2, <3>3, <3>4 DEF Rest
  <2> QED BY <2>2, <2>3, <2>4
<1> QED BY <1>1, <1>2, <1>3, PTL DEF Spec
=============================================================================
