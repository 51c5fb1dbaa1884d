---------------------------- MODULE DeliveryProofs ----------------------------
(***************************************************************************)
(* Three results about the way from the engine to the index, for any       *)
(* number of items, agents and goroutines, any limits and any faults: the  *)
(* index has one document of an item and day, however often batches,       *)
(* calls, polls and bulk requests are repeated (OneDocument); no item      *)
(* disappears in a way that Lost does not name (NothingUnaccounted); and   *)
(* what reaches the consumer of an agent's records is in the order they    *)
(* were forwarded, repetitions apart (AgentsInOrder).                      *)
(*                                                                         *)
(* None is inductive. Two documents of an item differ if they may differ   *)
(* in their _id: LabelInv says where an _id comes from, all the way from   *)
(* the buffer to the index, and that an index holds an _id once. What may  *)
(* be committed next is what was polled before, and what a call carries    *)
(* is still in the batch: WayInv follows an item over both hand-overs. A   *)
(* record is late if a log shows it late: OrderInv says how logs, batch,   *)
(* buffers and channels are ordered among each other.                      *)
(***************************************************************************)
EXTENDS Delivery, SequenceTheorems, FiniteSetTheorems, TLAPS

\* s is a sequence of documents that have the _id of their item.
Labelled(s) ==
    /\ s \in Seq({s[i] : i \in 1..Len(s)})
    /\ \A i \in 1..Len(s) : s[i].id = DocId[s[i].item]

\* An _id is in an index once, and is the one of the item.
IndexInv ==
    /\ \A d \in docs : d.id = DocId[d.item]
    /\ \A d, e \in docs : P!SameDoc(d, e) => d = e

LabelInv ==
    /\ Labelled(buffer)
    /\ taken = [w \in P!Workers |-> taken[w]]
    /\ \A w \in P!Workers : Labelled(taken[w])
    /\ IndexInv

LEMMA LabelledEmpty == Labelled(<<>>)
  BY DEF Labelled

LEMMA LabelledAppend ==
    ASSUME NEW s, Labelled(s), NEW d, d.id = DocId[d.item]
    PROVE  Labelled(Append(s, d))
<1> DEFINE S == {s[i] : i \in 1..Len(s)} \cup {d}
<1>1. s \in Seq(S) /\ d \in S
  BY SeqMonotonic DEF Labelled
<1>2. /\ Append(s, d) \in Seq(S)
      /\ Len(Append(s, d)) = Len(s) + 1
      /\ \A i \in 1..Len(s) : Append(s, d)[i] = s[i]
      /\ Append(s, d)[Len(s) + 1] = d
  BY <1>1, AppendProperties
<1> HIDE DEF S
<1>3. Append(s, d) \in Seq({Append(s, d)[i] : i \in 1..Len(Append(s, d))})
  BY <1>2, SeqOfRange, RangeOfSeq
<1>4. PICK t : t = Append(s, d)
  OBVIOUS
<1>5. ASSUME NEW i \in 1..Len(t) PROVE t[i].id = DocId[t[i].item]
  <2>1. Len(s) \in Nat
    BY <1>1, LenProperties
  <2>2. CASE i \in 1..Len(s)
    <3>1. t[i] = s[i]
      BY <1>2, <1>4, <2>2
    <3> QED BY <2>2, <3>1 DEF Labelled
  <2>3. CASE i = Len(s) + 1
    <3>1. t[i] = d
      BY <1>2, <1>4, <2>3
    <3> QED BY <3>1
  <2> QED BY <1>2, <1>4, <2>1, <2>2, <2>3
<1> QED BY <1>3, <1>4, <1>5 DEF Labelled

LEMMA LabelInitially == ASSUME P!Init PROVE LabelInv
  BY LabelledEmpty DEF P!Init, LabelInv, IndexInv

\* Of the documents of one request with the same _id the last one stays, and it
\* takes the place of the one that was there.
LEMMA ApplyKeepsIndex ==
    ASSUME NEW s, Labelled(s), IndexInv,
           NEW K \in SUBSET (1..Len(s)), P!Apply(s, K)
    PROVE  IndexInv'
<1> DEFINE new == {s[k] : k \in {k \in K : \A j \in K : j > k => ~P!SameDoc(s[j], s[k])}}
<1>1. docs' = new \cup {d \in docs : \A e \in new : ~P!SameDoc(d, e)}
  BY DEF P!Apply
<1>2. \A d \in new : d.id = DocId[d.item]
  BY DEF Labelled
<1>3. ASSUME NEW d \in new, NEW e \in new, P!SameDoc(d, e) PROVE d = e
  <2>1. PICK j \in K : d = s[j] /\ \A i \in K : i > j => ~P!SameDoc(s[i], s[j])
    OBVIOUS
  <2>2. PICK k \in K : e = s[k] /\ \A i \in K : i > k => ~P!SameDoc(s[i], s[k])
    OBVIOUS
  <2>3. P!SameDoc(e, d)
    BY <1>3 DEF P!SameDoc
  <2>4. ~(j > k) /\ ~(k > j) /\ j \in Int /\ k \in Int
    BY <1>3, <2>1, <2>2, <2>3 DEF Labelled
  <2> QED BY <2>1, <2>2, <2>4
<1> HIDE DEF new
<1>4. \A d \in docs' : d.id = DocId[d.item]
  BY <1>1, <1>2 DEF IndexInv
<1>5. ASSUME NEW d \in docs', NEW e \in docs', P!SameDoc(d, e) PROVE d = e
  <2>1. P!SameDoc(e, d)
    BY <1>5 DEF P!SameDoc
  <2> QED BY <1>1, <1>3, <1>5, <2>1 DEF IndexInv
<1> QED BY <1>4, <1>5 DEF IndexInv, P!SameDoc

\* A goroutine of the indexer takes a step.
LEMMA LabelVault ==
    ASSUME LabelInv, NEW w \in P!Workers,
           \/ P!Process(w) \/ P!Tick \/ P!Take(w) \/ P!BulkOK(w) \/ P!BulkFails(w)
    PROVE  LabelInv'
<1> USE DEF LabelInv
<1>1. CASE P!Process(w)
  <2>1. UNCHANGED <<taken, docs>>
    BY <1>1 DEF P!Process, P!indexed
  <2>2. buffer' = buffer \/ \E i : buffer' = Append(buffer, P!Routed(i))
    BY <1>1 DEF P!Process
  <2>3. \A i : P!Routed(i).id = DocId[P!Routed(i).item]
    BY DEF P!Routed
  <2>4. CASE buffer' = buffer
    BY <2>1, <2>4 DEF IndexInv, P!SameDoc
  <2>5. ASSUME NEW i, buffer' = Append(buffer, P!Routed(i)) PROVE LabelInv'
    <3>1. Labelled(buffer')
      BY <2>3, <2>5, LabelledAppend
    <3> QED BY <2>1, <3>1 DEF IndexInv, P!SameDoc
  <2> QED BY <2>2, <2>4, <2>5
<1>2. CASE P!Tick
  BY <1>2 DEF P!Tick, P!indexed, IndexInv, P!SameDoc
<1>3. CASE P!Take(w)
  <2>1. buffer' = <<>> /\ docs' = docs
    BY <1>3 DEF P!Take, P!indexed
  <2>2. taken' = taken \/ taken' = [taken EXCEPT ![w] = buffer]
    BY <1>3 DEF P!Take
  <2> QED BY <2>1, <2>2, LabelledEmpty DEF IndexInv, P!SameDoc
<1>4. CASE P!BulkOK(w) \/ P!BulkFails(w)
  <2>1. PICK K \in SUBSET (1..Len(taken[w])) : P!Apply(taken[w], K)
    BY <1>4 DEF P!BulkOK, P!BulkFails
  <2>2. IndexInv'
    BY <2>1, ApplyKeepsIndex
  <2>3. buffer' = buffer /\ (taken' = taken \/ taken' = [taken EXCEPT ![w] = <<>>])
    BY <1>4 DEF P!BulkOK, P!BulkFails, P!Idle
  <2> QED BY <2>2, <2>3, LabelledEmpty
<1> QED BY <1>1, <1>2, <1>3, <1>4

LEMMA LabelStep ==
    ASSUME LabelInv, [Next]_vars PROVE LabelInv'
<1>1. CASE UNCHANGED <<buffer, taken, docs>>
  BY <1>1 DEF LabelInv, IndexInv, P!SameDoc
<1>2. CASE VaultRuns \/ \E w \in P!Workers : VaultBulk(w)
  <2>1. "flushLoop" \in P!Workers /\ Handlers \cup {Consumer} \subseteq P!Workers
    BY DEF P!Workers
  <2>2. \/ \E c \in Handlers \cup {Consumer} : Skips(c)
        \/ \E w \in P!Workers : \/ P!Process(w) \/ P!Tick \/ P!Take(w)
                                \/ P!BulkOK(w) \/ P!BulkFails(w)
    BY <1>2, <2>1 DEF VaultRuns, Handles, VaultBulk
  <2>3. ASSUME NEW c \in Handlers \cup {Consumer}, Skips(c) PROVE LabelInv'
    BY <1>1, <2>3 DEF Skips
  <2> QED BY <2>2, <2>3, LabelVault
<1>3. CASE VaultExits
  BY <1>3, LabelledEmpty
     DEF VaultExits, P!Exit, P!indexed, LabelInv, IndexInv, P!SameDoc
<1>4. CASE Midnight
  BY <1>4, <1>1 DEF Midnight, P!Midnight, P!flushing, P!indexed
<1>5. CASE Transport
  BY <1>5, <1>1
     DEF Transport, KafkaSends, KafkaFails, Call, Answer, CallFails, vault
<1>6. CASE Poll \/ TowerRuns \/ TowerStops \/ TowerExits \/ UNCHANGED vars
  BY <1>6, <1>1 DEF Poll, TowerRuns, TowerStops, TowerExits, vault, vars
<1> QED BY <1>2, <1>3, <1>4, <1>5, <1>6 DEF Next

\* Batches are repeated, calls go on after their caller gave up, the consumer
\* starts again from an old offset and bulk requests are sent twice: an index
\* has one document per item (routeEvent, ProcessDocument).
THEOREM OneDocument == Spec => []OneDocPerDay
<1>1. Init => LabelInv
  BY LabelInitially DEF Init
<1>2. LabelInv /\ [Next]_vars => LabelInv'
  BY LabelStep
<1>3. LabelInv => OneDocPerDay
  BY DEF LabelInv, IndexInv, OneDocPerDay, P!SameDoc
<1> QED BY <1>1, <1>2, <1>3, PTL DEF Spec

-----------------------------------------------------------------------------
(* Sequences                                                               *)

Elems(s) == {s[i] : i \in 1..Len(s)}
IsSeq(s) == s \in Seq(Elems(s))

LEMMA SeqIsSeq ==
    ASSUME NEW S, NEW s \in Seq(S) PROVE IsSeq(s) /\ Elems(s) \subseteq S
<1>1. s \in [1..Len(s) -> S] /\ Len(s) \in Nat
  BY LenProperties
<1>2. s \in [1..Len(s) -> Elems(s)]
  BY <1>1 DEF Elems
<1>3. s \in Seq(Elems(s))
  BY <1>1, <1>2, SeqDef
<1> QED BY <1>1, <1>3 DEF IsSeq, Elems

LEMMA ElemsEmpty == IsSeq(<<>>) /\ Elems(<<>>) = {}
  BY DEF IsSeq, Elems

LEMMA ElemsAppend ==
    ASSUME NEW s, IsSeq(s), NEW x
    PROVE  IsSeq(Append(s, x)) /\ Elems(Append(s, x)) = Elems(s) \cup {x}
<1> DEFINE S == Elems(s) \cup {x}
<1>1. s \in Seq(S) /\ x \in S
  BY SeqMonotonic DEF IsSeq
<1>2. /\ Append(s, x) \in Seq(S) /\ Len(s) \in Nat
      /\ Len(Append(s, x)) = Len(s) + 1
      /\ \A i \in 1..Len(s) : Append(s, x)[i] = s[i]
      /\ Append(s, x)[Len(s) + 1] = x
  BY <1>1, AppendProperties, LenProperties
<1>3. IsSeq(Append(s, x)) /\ Elems(Append(s, x)) \subseteq S
  BY <1>2, SeqIsSeq
<1>4. S \subseteq Elems(Append(s, x))
  BY <1>2 DEF Elems
<1> QED BY <1>3, <1>4

LEMMA ElemsTail ==
    ASSUME NEW s, IsSeq(s), s # <<>>
    PROVE  IsSeq(Tail(s)) /\ Elems(s) = {Head(s)} \cup Elems(Tail(s))
<1>1. /\ Tail(s) \in Seq(Elems(s)) /\ Len(s) \in Nat \ {0}
      /\ Len(Tail(s)) = Len(s) - 1
      /\ \A i \in 1..Len(Tail(s)) : Tail(s)[i] = s[i + 1]
  BY HeadTailProperties, EmptySeq DEF IsSeq
<1>2. IsSeq(Tail(s)) /\ Elems(Tail(s)) \subseteq Elems(s)
  BY <1>1, SeqIsSeq
<1>3. Head(s) = s[1] /\ s[1] \in Elems(s)
  BY <1>1 DEF Elems
<1>4. ASSUME NEW i \in 1..Len(s) PROVE s[i] \in {Head(s)} \cup Elems(Tail(s))
  <2>1. CASE i = 1
    BY <2>1, <1>3
  <2>2. CASE i # 1
    <3>1. i - 1 \in 1..Len(Tail(s)) /\ Tail(s)[i - 1] = s[i]
      BY <1>1, <2>2
    <3> QED BY <3>1 DEF Elems
  <2> QED BY <2>1, <2>2
<1>5. Elems(s) \subseteq {Head(s)} \cup Elems(Tail(s))
  BY <1>4 DEF Elems
<1> QED BY <1>2, <1>3, <1>5

LEMMA ElemsConcat ==
    ASSUME NEW s, IsSeq(s), NEW t, IsSeq(t)
    PROVE  /\ IsSeq(s \o t) /\ Elems(s \o t) = Elems(s) \cup Elems(t)
           /\ Len(s) \in Nat /\ Len(t) \in Nat
           /\ Len(s \o t) = Len(s) + Len(t)
           /\ \A i \in 1..Len(s) : (s \o t)[i] = s[i]
           /\ \A i \in 1..Len(t) : (s \o t)[Len(s) + i] = t[i]
<1> DEFINE S == Elems(s) \cup Elems(t)
<1>1. s \in Seq(S) /\ t \in Seq(S)
  BY SeqMonotonic DEF IsSeq
<1>2. /\ s \o t \in Seq(S) /\ Len(s) \in Nat /\ Len(t) \in Nat
      /\ Len(s \o t) = Len(s) + Len(t)
      /\ \A i \in 1..(Len(s) + Len(t)) : (s \o t)[i] =
              IF i <= Len(s) THEN s[i] ELSE t[i - Len(s)]
  BY <1>1, ConcatProperties, LenProperties
<1> HIDE DEF S
<1>3. \A i \in 1..Len(s) : i \in 1..(Len(s) + Len(t)) /\ (s \o t)[i] = s[i]
  BY <1>2
<1>4. \A i \in 1..Len(t) : /\ Len(s) + i \in 1..(Len(s) + Len(t))
                           /\ (s \o t)[Len(s) + i] = t[i]
  <2> TAKE i \in 1..Len(t)
  <2>1. /\ Len(s) + i \in 1..(Len(s) + Len(t)) /\ ~(Len(s) + i <= Len(s))
        /\ Len(s) + i - Len(s) = i
    BY <1>2
  <2> QED BY <1>2, <2>1
<1>5. Elems(s) \cup Elems(t) \subseteq Elems(s \o t)
  <2>1. \A i \in 1..Len(s) : s[i] \in Elems(s \o t)
    BY <1>2, <1>3 DEF Elems
  <2>2. \A i \in 1..Len(t) : t[i] \in Elems(s \o t)
    BY <1>2, <1>4 DEF Elems
  <2> QED BY <2>1, <2>2 DEF Elems
<1>6. IsSeq(s \o t) /\ Elems(s \o t) \subseteq S
  BY <1>2, SeqIsSeq
<1> QED BY <1>2, <1>3, <1>4, <1>5, <1>6 DEF S

LEMMA ElemsSubSeq ==
    ASSUME NEW s, IsSeq(s), NEW m \in Nat, NEW n \in Nat, n <= Len(s)
    PROVE  /\ IsSeq(SubSeq(s, m + 1, n))
           /\ Elems(SubSeq(s, m + 1, n)) = {s[i] : i \in (m + 1)..n}
<1>1. Len(s) \in Nat /\ \A i \in (m + 1)..n : s[i] \in Elems(s)
  BY LenProperties DEF IsSeq, Elems
<1> DEFINE t == SubSeq(s, m + 1, n)
<1>2. /\ t \in Seq(Elems(s))
      /\ Len(t) = IF m + 1 <= n THEN n - (m + 1) + 1 ELSE 0
      /\ \A i \in 1..(n - (m + 1) + 1) : t[i] = s[(m + 1) + i - 1]
  BY <1>1, SubSeqProperties
<1> HIDE DEF t
<1>3. /\ Len(t) = IF m < n THEN n - m ELSE 0
      /\ \A i \in 1..Len(t) : i + m \in (m + 1)..n /\ t[i] = s[i + m]
  <2>1. Len(t) = IF m < n THEN n - m ELSE 0
    BY <1>2
  <2>2. ASSUME NEW i \in 1..Len(t) PROVE i + m \in (m + 1)..n /\ t[i] = s[i + m]
    <3>1. i \in 1..(n - (m + 1) + 1) /\ (m + 1) + i - 1 = i + m
      BY <2>1
    <3> QED BY <1>2, <2>1, <3>1
  <2> QED BY <2>1, <2>2
<1>4. ASSUME NEW i \in (m + 1)..n PROVE s[i] \in Elems(t)
  <2>1. i - m \in 1..Len(t) /\ (i - m) + m = i
    BY <1>3
  <2>2. t[i - m] = s[i]
    BY <1>3, <2>1
  <2> QED BY <2>1, <2>2 DEF Elems
<1>5. IsSeq(t)
  BY <1>2, SeqIsSeq
<1>6. Elems(t) \subseteq {s[i] : i \in (m + 1)..n}
  BY <1>3 DEF Elems
<1> QED BY <1>4, <1>5, <1>6 DEF t

\* A non-empty set of naturals has a least element.
LEMMA LeastNat ==
    ASSUME NEW S, S \subseteq Nat, S # {}
    PROVE  \E x \in S : \A y \in S : x <= y
<1> DEFINE R == {p \in Nat \X Nat : p[1] < p[2]}
<1>1. IsWellFoundedOn(R, Nat)
  BY NatLessThanWellFounded, Zenon DEF OpToRel
<1>2. PICK x \in S : \A y \in S : ~ (<<y, x>> \in R)
  BY <1>1, WFMin
<1>3. ASSUME NEW y \in S PROVE x <= y
  <2>1. y < x => <<y, x>> \in R
    BY <1>2
  <2> QED BY <1>2, <2>1
<1> QED BY <1>3

\* The function by which FlattenSeq is defined exists, step by step.
LEMMA FlattenDefined ==
    ASSUME NEW ss, NEW n \in Nat
    PROVE  \E f : f = [i \in 1..n |-> IF i = 1 THEN ss[i] ELSE f[i - 1] \o ss[i]]
<1> DEFINE B(k) == \E f : f = [i \in 1..k |->
                               IF i = 1 THEN ss[i] ELSE f[i - 1] \o ss[i]]
           Bad == {k \in Nat : ~B(k)}
<1>1. SUFFICES ASSUME Bad # {} PROVE FALSE
  OBVIOUS
<1>2. PICK m \in Bad : \A k \in Bad : m <= k
  <2> HIDE DEF B
  <2> QED BY <1>1, LeastNat
<1>3. CASE m = 0
  <2> DEFINE f == [i \in 1..0 |-> 0]
  <2>1. f = [i \in 1..0 |-> IF i = 1 THEN ss[i] ELSE f[i - 1] \o ss[i]]
    OBVIOUS
  <2>2. B(0)
    BY <2>1
  <2> HIDE DEF B
  <2> QED BY <1>2, <1>3, <2>2
<1>4. CASE m # 0
  <2>1. m - 1 \in Nat /\ m - 1 \notin Bad
    <3> HIDE DEF B
    <3> QED BY <1>2, <1>4
  <2>2. B(m - 1)
    <3> HIDE DEF B
    <3> QED BY <2>1
  <2>3. PICK g : g = [i \in 1..(m - 1) |->
                        IF i = 1 THEN ss[i] ELSE g[i - 1] \o ss[i]]
    BY <2>2
  <2> DEFINE last == IF m = 1 THEN ss[m] ELSE g[m - 1] \o ss[m]
             f == [i \in 1..m |-> IF i = m THEN last ELSE g[i]]
  <2>4. \A i \in 1..m : f[i] = IF i = 1 THEN ss[i] ELSE f[i - 1] \o ss[i]
    <3> TAKE i \in 1..m
    <3>1. m \in Nat
      OBVIOUS
    <3>2. CASE i = m
      <4>1. CASE m = 1
        BY <3>2, <4>1
      <4>2. CASE m # 1
        <5>1. i - 1 \in 1..m /\ i - 1 # m
          BY <3>1, <3>2, <4>2
        <5>2. f[i - 1] = g[i - 1] /\ f[i] = last
          BY <5>1, <3>2
        <5> QED BY <5>2, <3>2, <4>2
      <4> QED BY <4>1, <4>2
    <3>3. CASE i # m
      <4>1. i \in 1..(m - 1) /\ f[i] = g[i]
        BY <3>1, <3>3
      <4>2. g[i] = IF i = 1 THEN ss[i] ELSE g[i - 1] \o ss[i]
        BY <2>3, <4>1
      <4>3. i # 1 => f[i - 1] = g[i - 1]
        BY <3>1, <3>3
      <4> QED BY <4>1, <4>2, <4>3
    <3> QED BY <3>2, <3>3
  <2>5. f = [i \in 1..m |-> f[i]]
    OBVIOUS
  <2>6. f = [i \in 1..m |-> IF i = 1 THEN ss[i] ELSE f[i - 1] \o ss[i]]
    <3> HIDE DEF f
    <3> QED BY <2>4, <2>5
  <2>7. B(m)
    <3> HIDE DEF f
    <3> QED BY <2>6
  <2> HIDE DEF B
  <2> QED BY <1>2, <2>7
<1> QED BY <1>3, <1>4

LEMMA ElemsFlatten ==
    ASSUME NEW n \in Nat, NEW ss, Len(ss) = n, n = 0 => ss = <<>>,
           \A i \in 1..n : IsSeq(ss[i])
    PROVE  /\ IsSeq(FlattenSeq(ss))
           /\ Elems(FlattenSeq(ss)) = UNION {Elems(ss[i]) : i \in 1..n}
<1>1. CASE n = 0
  <2>1. FlattenSeq(ss) = <<>>
    BY <1>1 DEF FlattenSeq
  <2> QED BY <1>1, <2>1, ElemsEmpty
<1>2. CASE n # 0
  <2> DEFINE flatten[i \in 1..Len(ss)] ==
                 IF i = 1 THEN ss[i] ELSE flatten[i - 1] \o ss[i]
  <2>1. FlattenSeq(ss) = flatten[Len(ss)]
    BY <1>2 DEF FlattenSeq
  <2>2. flatten = [i \in 1..n |-> IF i = 1 THEN ss[i] ELSE flatten[i - 1] \o ss[i]]
    BY FlattenDefined
  <2> HIDE DEF flatten
  <2> DEFINE Joined(i) == UNION {Elems(ss[j]) : j \in 1..i}
             Bad == {i \in 1..n : ~(IsSeq(flatten[i]) /\ Elems(flatten[i]) = Joined(i))}
  <2>3. ASSUME Bad # {} PROVE FALSE
    <3>1. PICK m \in Bad : \A k \in Bad : m <= k
      <4>1. Bad \subseteq Nat
        OBVIOUS
      <4> HIDE DEF Bad
      <4> QED BY <2>3, <4>1, LeastNat
    <3>2. m \in 1..n /\ IsSeq(ss[m])
      OBVIOUS
    <3>3. CASE m = 1
      <4>1. flatten[m] = ss[m] /\ Joined(m) = Elems(ss[m])
        BY <2>2, <3>2, <3>3
      <4> QED BY <3>1, <3>2, <4>1
    <3>4. CASE m # 1
      <4>1. m - 1 \in 1..n /\ m - 1 \notin Bad
        BY <3>1, <3>2, <3>4
      <4>2. IsSeq(flatten[m - 1]) /\ Elems(flatten[m - 1]) = Joined(m - 1)
        BY <4>1
      <4>3. flatten[m] = flatten[m - 1] \o ss[m]
        BY <2>2, <3>2, <3>4
      <4>4. Joined(m) = Joined(m - 1) \cup Elems(ss[m])
        <5>1. \A j : j \in 1..m <=> j \in 1..(m - 1) \/ j = m
          BY <3>2
        <5>2. \A x : x \in Joined(m) <=> \E j \in 1..m : x \in Elems(ss[j])
          OBVIOUS
        <5>3. \A x : x \in Joined(m - 1) <=> \E j \in 1..(m - 1) : x \in Elems(ss[j])
          OBVIOUS
        <5> HIDE DEF Joined
        <5>4. \A x : x \in Joined(m) <=> x \in Joined(m - 1) \/ x \in Elems(ss[m])
          BY <5>1, <5>2, <5>3, Zenon
        <5> QED BY <5>4
      <4>5. IsSeq(flatten[m]) /\ Elems(flatten[m]) = Joined(m)
        <5> DEFINE g == flatten[m - 1]
        <5>1. IsSeq(g) /\ Elems(g) = Joined(m - 1) /\ flatten[m] = g \o ss[m]
          BY <4>2, <4>3
        <5> HIDE DEF Joined, g
        <5>2. IsSeq(g \o ss[m]) /\ Elems(g \o ss[m]) = Elems(g) \cup Elems(ss[m])
          BY <3>2, <5>1, ElemsConcat
        <5> QED BY <4>4, <5>1, <5>2
      <4> QED BY <3>1, <4>5
    <3> QED BY <3>3, <3>4
  <2>4. n \in 1..n
    BY <1>2
  <2> QED BY <2>1, <2>3, <2>4
<1> QED BY <1>1, <1>2

-----------------------------------------------------------------------------
(* Positions, and their order                                              *)

Rank(S, k) == Cardinality({j \in S : j <= k})

\* The elements of a set of positions are numbered by their rank.
LEMMA RankNumbers ==
    ASSUME NEW n \in Nat, NEW S \in SUBSET (1..n)
    PROVE  /\ IsFiniteSet(S) /\ Cardinality(S) \in Nat
           /\ \A k \in S : Rank(S, k) \in 1..Cardinality(S)
           /\ \A j, k \in S : j < k => Rank(S, j) < Rank(S, k)
           /\ \A m \in 1..Cardinality(S) : \E k \in S : Rank(S, k) = m
<1>1. IsFiniteSet(S) /\ Cardinality(S) \in Nat
  <2>1. IsFiniteSet(1..n)
    BY FS_Interval
  <2> QED BY <2>1, FS_Subset, FS_CardinalityType
<1> DEFINE Below(k) == {j \in S : j <= k}
<1>2. \A k \in S : /\ IsFiniteSet(Below(k)) /\ Cardinality(Below(k)) \in Nat
                   /\ Cardinality(Below(k)) <= Cardinality(S)
                   /\ Cardinality(Below(k)) # 0
  <2> TAKE k \in S
  <2>1. Below(k) \in SUBSET S /\ k \in Below(k)
    OBVIOUS
  <2> HIDE DEF Below
  <2>2. IsFiniteSet(Below(k)) /\ Cardinality(Below(k)) <= Cardinality(S)
    BY <1>1, <2>1, FS_Subset
  <2> QED BY <2>1, <2>2, FS_CardinalityType, FS_EmptySet
<1>3. \A k \in S : Rank(S, k) \in 1..Cardinality(S)
  <2> HIDE DEF Below
  <2>1. \A k : Rank(S, k) = Cardinality(Below(k))
    BY DEF Rank, Below
  <2> QED BY <1>1, <1>2, <2>1
<1>4. ASSUME NEW j \in S, NEW k \in S, j < k PROVE Rank(S, j) < Rank(S, k)
  <2>1. Below(j) \in SUBSET Below(k) /\ k \in Below(k) /\ k \notin Below(j)
    <3>1. j \in Int /\ k \in Int /\ \A i \in S : i \in Int
      OBVIOUS
    <3>2. (\A i \in S : i <= j => i <= k) /\ k <= k /\ ~(k <= j)
      BY <3>1, <1>4
    <3> QED BY <3>2, Zenon
  <2>2. Rank(S, j) = Cardinality(Below(j)) /\ Rank(S, k) = Cardinality(Below(k))
    BY DEF Rank
  <2> HIDE DEF Below
  <2>3. IsFiniteSet(Below(k)) /\ Below(j) # Below(k)
    BY <1>2, <2>1
  <2>4. /\ Cardinality(Below(j)) <= Cardinality(Below(k))
        /\ Cardinality(Below(k)) # Cardinality(Below(j))
    BY <2>1, <2>3, FS_Subset
  <2> QED BY <1>2, <2>2, <2>4
<1>5. ASSUME NEW m \in 1..Cardinality(S) PROVE \E k \in S : Rank(S, k) = m
  <2> DEFINE T == 1..Cardinality(S)
             f == [k \in S |-> Rank(S, k)]
  <2>1. f \in [S -> T]
    BY <1>3
  <2>2. \A j, k \in S : f[j] = f[k] => j = k
    <3> TAKE j \in S, k \in S
    <3>1. j \in Int /\ k \in Int
      OBVIOUS
    <3>2. CASE j < k
      BY <3>2, <1>3, <1>4
    <3>3. CASE k < j
      BY <3>3, <1>3, <1>4
    <3> QED BY <3>1, <3>2, <3>3
  <2> HIDE DEF f
  <2>3. f \in Injection(S, T)
    BY <2>1, <2>2 DEF Injection, IsInjective
  <2>4. IsFiniteSet(T) /\ Cardinality(T) = Cardinality(S)
    BY <1>1, FS_Interval
  <2> HIDE DEF T
  <2>5. f \in Surjection(S, T)
    BY <2>3, <2>4, FS_Injection
  <2>6. \E k \in S : f[k] = m
    BY <2>5 DEF Surjection, T
  <2> QED BY <2>6 DEF f
<1> QED BY <1>1, <1>3, <1>4, <1>5

\* The elements of b at the positions S, in order.
Selected(b, S) ==
    [n \in 1..Cardinality(S) |-> b[CHOOSE k \in S : Rank(S, k) = n]]

LEMMA SelectedProperties ==
    ASSUME NEW b, NEW n \in Nat, NEW S \in SUBSET (1..n)
    PROVE  /\ IsSeq(Selected(b, S)) /\ Len(Selected(b, S)) = Cardinality(S)
           /\ Elems(Selected(b, S)) = {b[k] : k \in S}
           /\ \A k \in S : Selected(b, S)[Rank(S, k)] = b[k]
<1> DEFINE at(m) == CHOOSE k \in S : Rank(S, k) = m
           t == Selected(b, S)
<1>0. \A i, k \in S : i < k => Rank(S, i) < Rank(S, k)
  BY RankNumbers
<1>1. \A m \in 1..Cardinality(S) : at(m) \in S /\ Rank(S, at(m)) = m
  BY RankNumbers
<1>2. \A k \in S : at(Rank(S, k)) = k
  <2> TAKE k \in S
  <2> HIDE DEF at
  <2> DEFINE j == at(Rank(S, k))
  <2>0. Rank(S, k) \in 1..Cardinality(S) /\ Cardinality(S) \in Nat
    BY RankNumbers
  <2>1. /\ j \in S /\ Rank(S, j) = Rank(S, k) /\ j \in Int /\ k \in Int
        /\ Rank(S, k) \in Int
    <3>1. j \in S /\ Rank(S, j) = Rank(S, k)
      BY <1>1, <2>0, Zenon
    <3>2. \A i \in S : i \in Int
      OBVIOUS
    <3>3. Rank(S, k) \in Int
      BY <2>0
    <3> HIDE DEF j
    <3> QED BY <3>1, <3>2, <3>3
  <2>2. (j < k => Rank(S, j) < Rank(S, k)) /\ (k < j => Rank(S, k) < Rank(S, j))
    <3> HIDE DEF j
    <3> QED BY <2>1, <1>0
  <2> HIDE DEF j
  <2>3. j = k
    BY <2>1, <2>2
  <2> QED BY <2>3 DEF j
<1>3. t = [m \in 1..Cardinality(S) |-> b[at(m)]] /\ Cardinality(S) \in Nat
  BY RankNumbers DEF Selected
<1> HIDE DEF at
<1>4. t \in Seq({b[k] : k \in S})
  <2>1. t \in [1..Cardinality(S) -> {b[k] : k \in S}]
    BY <1>1, <1>3
  <2> HIDE DEF t
  <2> QED BY <1>3, <2>1, SeqDef
<1>5. Len(t) = Cardinality(S)
  <2>1. DOMAIN t = 1..Len(t) /\ Len(t) \in Nat
    <3> HIDE DEF t
    <3> DEFINE R == {b[k] : k \in S}
    <3>1. t \in Seq(R)
      BY <1>4
    <3> HIDE DEF R
    <3> QED BY <3>1, LenProperties
  <2>2. DOMAIN t = 1..Cardinality(S)
    BY <1>3
  <2> HIDE DEF t
  <2> QED BY <1>3, <2>1, <2>2
<1>6. \A k \in S : t[Rank(S, k)] = b[k] /\ Rank(S, k) \in 1..Len(t)
  <2> HIDE DEF t
  <2> QED BY <1>2, <1>3, <1>5, RankNumbers
<1> HIDE DEF t
<1>7. {b[k] : k \in S} \subseteq Elems(t)
  BY <1>6 DEF Elems
<1>8. IsSeq(t) /\ Elems(t) \subseteq {b[k] : k \in S}
  BY <1>4, SeqIsSeq
<1> QED BY <1>5, <1>6, <1>7, <1>8 DEF t

\* An enumeration of a set reaches all of it.
LEMMA Enumerates ==
    ASSUME NEW S, IsFiniteSet(S), NEW ps \in SetToSeqs(S)
    PROVE  /\ ps \in [1..Cardinality(S) -> S] /\ Cardinality(S) \in Nat
           /\ \A x \in S : \E n \in 1..Cardinality(S) : ps[n] = x
<1> DEFINE D == 1..Cardinality(S)
<1>1. Cardinality(S) \in Nat
  BY FS_CardinalityType
<1>2. ps \in [D -> S] /\ \A i, j \in D : i # j => ps[i] # ps[j]
  BY DEF SetToSeqs
<1>3. ps \in Injection(D, S)
  BY <1>2 DEF Injection, IsInjective
<1>4. Cardinality(D) = Cardinality(S)
  BY <1>1, FS_Interval
<1> HIDE DEF D
<1>5. ps \in Surjection(D, S)
  BY <1>3, <1>4, FS_Injection
<1> QED BY <1>1, <1>2, <1>5 DEF Surjection, D

LEMMA PartitionsFinite ==
    ASSUME MaxItems \in Nat PROVE IsFiniteSet(Partitions)
<1> DEFINE f == [i \in Items |-> PartitionOf(i)]
<1>1. f \in Surjection(Items, Partitions)
  BY DEF Surjection, Partitions
<1>2. IsFiniteSet(Items)
  BY FS_Interval DEF Items
<1> HIDE DEF f
<1> QED BY <1>1, <1>2, FS_Surjection

\* A non-empty bounded set of naturals has a greatest element.
LEMMA GreatestNat ==
    ASSUME NEW n \in Nat, NEW S \in SUBSET (0..n), S # {}
    PROVE  \E x \in S : \A y \in S : y <= x
<1> DEFINE U == {u \in Nat : \A y \in S : y <= u}
<1>1. n \in U /\ U \subseteq Nat
  OBVIOUS
<1>2. PICK u \in U : \A v \in U : u <= v
  <2> HIDE DEF U
  <2> QED BY <1>1, LeastNat
<1>3. u \in Nat /\ \A y \in S : y <= u /\ y \in Nat
  OBVIOUS
<1>4. SUFFICES ASSUME u \notin S PROVE FALSE
  BY <1>3
<1>5. \A y \in S : y <= u - 1
  BY <1>3, <1>4
<1>6. u - 1 \in U
  <2>1. PICK y : y \in S
    OBVIOUS
  <2>2. u # 0
    BY <1>3, <1>4, <2>1
  <2> QED BY <1>3, <1>5, <2>2
<1> QED BY <1>2, <1>3, <1>6

-----------------------------------------------------------------------------
(***************************************************************************)
(* Accounted. An item moves from the forwarder's channels to its buffers,  *)
(* to a batch, to a log or a call, to a caller's list, to the pipeline's   *)
(* buffer and to a flush. WayInv says that it is somewhere on this way or  *)
(* past it, and what the steps rely on: that a batch or a flush that is    *)
(* replaced is empty, that what a call carries is with its handler or past *)
(* it, and that what the consumer polled is on its list or past it.        *)
(***************************************************************************)

Callers == Handlers \cup {Consumer}

\* Where an item is not settled yet.
InTower == UNION {UNION {Elems(ch[k]), Elems(buf[k]), Elems(batch[k])} : k \in Kinds}
ToDo    == UNION {Elems(todo[c]) : c \in Callers}

\* What has been through ProcessEvent or ProcessDocument, or is lost.
ItemsIn(s) == {d.item : d \in Elems(s)}
Pending    == ItemsIn(buffer) \cup UNION {ItemsIn(taken[w]) : w \in P!Workers}
VaultPast  == UNION {Indexed, Pending, overwritten, refused, rejected, exhausted}
TowerPast  == UNION {dropped, discarded, evicted, F!Dead}
Past       == UNION {VaultPast, TowerPast, skipped, refusedWhole, forgotten}

\* A function on S of sequences.
Seqs(f, S) == f = [x \in S |-> f[x]] /\ \A x \in S : IsSeq(f[x])

\* The batch that a flush replaces is empty, and the alerts are its last part.
TowerOK ==
    /\ Seqs(ch, Kinds) /\ Seqs(buf, Kinds) /\ Seqs(batch, Kinds) /\ IsSeq(dlq)
    /\ InTower \subseteq 1..(next - 1) /\ next \in 1..(MaxItems + 1)
    /\ loop \notin Kinds => batch = F!Nothing
    /\ loop = "alert" => batch["event"] = <<>>

\* So is what a flush of the pipeline replaces.
VaultOK ==
    /\ Seqs(todo, Callers) /\ IsSeq(buffer) /\ Seqs(taken, P!Workers)
    /\ wk = [w \in P!Workers |-> wk[w]]
    /\ \A w \in P!Workers : wk[w] # "bulk" => taken[w] = <<>>

\* The batch of a call is with its handler or past it.
CallInv ==
    /\ call # "none" => loop \in Kinds /\ transport = "grpc"
    /\ call \in Handlers => Elems(batch[loop]) \subseteq Elems(todo[call]) \cup Past

\* What has been polled is with the consumer or past it; what the library may
\* commit is past it.
PollInv ==
    /\ Seqs(log, Partitions)
    /\ ready \in [Partitions -> Nat] /\ pos \in [Partitions -> Nat]
    /\ \A p \in Partitions :
         /\ ready[p] <= pos[p] /\ pos[p] <= Len(log[p])
         /\ \A n \in 1..ready[p] : log[p][n] \in Past
         /\ \A n \in 1..pos[p] : log[p][n] \in Elems(todo[Consumer]) \cup Past

Somewhere == 1..(next - 1) \subseteq UNION {InTower, ToDo, Waiting, Past}

WayInv == TowerOK /\ VaultOK /\ CallInv /\ PollInv /\ Somewhere

-----------------------------------------------------------------------------
(* The pipeline                                                            *)

LEMMA PendingIs == P!Pending = Pending /\ P!Held = Pending \cup ToDo
  BY DEF P!Pending, P!Held, P!ItemsOf, P!SetOf, Pending, ItemsIn, ToDo, Callers, Elems

\* Of what OpenSearch applies, each document stays, or another takes its place.
LEMMA ApplyKeeps ==
    ASSUME NEW s, IsSeq(s), NEW K \in SUBSET (1..Len(s)), P!Apply(s, K)
    PROVE  /\ Indexed \cup overwritten \subseteq Indexed' \cup overwritten'
           /\ \A k \in K : s[k].item \in Indexed' \cup overwritten'
<1> DEFINE new == {s[k] : k \in {k \in K : \A j \in K : j > k => ~P!SameDoc(s[j], s[k])}}
           all == docs \cup {s[k] : k \in K}
<1>1. /\ docs' = new \cup {d \in docs : \A e \in new : ~P!SameDoc(d, e)}
      /\ overwritten' = overwritten \cup
             {d.item : d \in {d \in all : \E e \in new : P!SameDoc(d, e)
                                                          /\ e.item # d.item}}
  BY DEF P!Apply
<1>2. ASSUME NEW k \in K PROVE \E e \in new : P!SameDoc(s[k], e)
  <2> DEFINE T == {j \in K : P!SameDoc(s[j], s[k])}
  <2>1. Len(s) \in Nat /\ T \in SUBSET (0..Len(s)) /\ k \in T
    <3>1. Len(s) \in Nat
      BY LenProperties DEF IsSeq
    <3>2. k \in T
      BY DEF P!SameDoc
    <3>3. T \subseteq 1..Len(s)
      OBVIOUS
    <3> HIDE DEF T
    <3> QED BY <3>1, <3>2, <3>3
  <2>2. PICK m \in T : \A y \in T : y <= m
    <3> HIDE DEF T
    <3> QED BY <2>1, GreatestNat
  <2>3. m \in K /\ m \in Nat /\ P!SameDoc(s[m], s[k])
    BY <2>1
  <2>4. \A j \in K : j > m => ~P!SameDoc(s[j], s[m])
    <3> SUFFICES ASSUME NEW j \in K, j > m, P!SameDoc(s[j], s[m]) PROVE FALSE
      OBVIOUS
    <3>1. j \in T
      BY <2>3 DEF P!SameDoc
    <3>2. j \in Nat /\ j <= m
      BY <2>1, <2>2, <3>1
    <3> QED BY <2>3, <3>2
  <2>5. s[m] \in new
    BY <2>3, <2>4
  <2>6. P!SameDoc(s[k], s[m])
    BY <2>3 DEF P!SameDoc
  <2> QED BY <2>5, <2>6
<1> HIDE DEF new
<1>3. ASSUME NEW d \in all, NEW e \in new, P!SameDoc(d, e)
      PROVE  d.item \in Indexed' \cup overwritten'
  <2>1. CASE e.item = d.item
    BY <1>1, <2>1 DEF Indexed
  <2>2. CASE e.item # d.item
    BY <1>1, <1>3, <2>2
  <2> QED BY <2>1, <2>2
<1>4. ASSUME NEW d \in docs PROVE d.item \in Indexed' \cup overwritten'
  <2>1. CASE \E e \in new : P!SameDoc(d, e)
    BY <1>3, <2>1
  <2>2. CASE ~\E e \in new : P!SameDoc(d, e)
    BY <1>1, <2>2 DEF Indexed
  <2> QED BY <2>1, <2>2
<1>5. \A k \in K : s[k].item \in Indexed' \cup overwritten'
  BY <1>2, <1>3
<1>6. Indexed \subseteq Indexed' \cup overwritten'
  BY <1>4 DEF Indexed
<1>7. overwritten \subseteq overwritten'
  BY <1>1
<1> QED BY <1>5, <1>6, <1>7


\* What has been processed stays so, and what is taken off a list is processed
\* or skipped.
VaultForth ==
    /\ VaultPast \subseteq VaultPast'
    /\ \A c \in Callers :
         Elems(todo[c]) \subseteq UNION {Elems(todo'[c]), VaultPast', skipped'}

LEMMA VaultForthSame ==
    ASSUME Indexed \cup overwritten \subseteq Indexed' \cup overwritten',
           Pending \subseteq VaultPast', refused \subseteq refused',
           rejected \subseteq rejected', exhausted \subseteq exhausted',
           todo' = todo
    PROVE  VaultForth
  BY DEF VaultForth, VaultPast

LEMMA VaultProcess ==
    ASSUME VaultOK, NEW c \in Callers, P!Process(c)
    PROVE  VaultOK' /\ VaultForth
<1> DEFINE i == Head(todo[c])
<1>1. /\ wk[c] = "idle" /\ todo[c] # <<>> /\ taken' = taken
      /\ todo' = [todo EXCEPT ![c] = Tail(@)]
      /\ docs' = docs /\ overwritten' = overwritten
      /\ rejected' = rejected /\ exhausted' = exhausted
  BY DEF P!Process, P!indexed
<1>2. c \in P!Workers /\ taken[c] = <<>>
  BY <1>1 DEF VaultOK, P!Workers, Callers
<1>3. IsSeq(Tail(todo[c])) /\ Elems(todo[c]) = {i} \cup Elems(Tail(todo[c]))
  BY <1>1, ElemsTail DEF VaultOK, Seqs
<1>4. Seqs(todo', Callers) /\ todo'[c] = Tail(todo[c])
      /\ \A b \in Callers : b # c => todo'[b] = todo[b]
  BY <1>1, <1>3 DEF VaultOK, Seqs
<1>5. Indexed' = Indexed
  BY <1>1 DEF Indexed
<1>6. CASE refused' = refused \cup {i} /\ buffer' = buffer /\ wk' = wk
  <2>1. VaultOK'
    BY <1>1, <1>4, <1>6 DEF VaultOK, Seqs
  <2>2. Pending' = Pending
    BY <1>1, <1>6 DEF Pending
  <2>3. VaultPast' = VaultPast \cup {i}
    BY <1>1, <1>5, <1>6, <2>2 DEF VaultPast
  <2> QED BY <1>3, <1>4, <2>1, <2>3 DEF VaultForth
<1>7. CASE /\ buffer' = Append(buffer, P!Routed(i)) /\ refused' = refused
           /\ wk' = [wk EXCEPT ![c] = IF P!FlushDue(buffer') THEN "flush" ELSE @]
  <2>1. IsSeq(buffer') /\ Elems(buffer') = Elems(buffer) \cup {P!Routed(i)}
    BY <1>7, ElemsAppend DEF VaultOK
  <2>2. ItemsIn(buffer') = ItemsIn(buffer) \cup {i}
    <3> DEFINE r == P!Routed(i)
    <3>1. r.item = i
      BY DEF P!Routed
    <3>2. Elems(buffer') = Elems(buffer) \cup {r}
      BY <2>1
    <3> HIDE DEF r, i
    <3> QED BY <3>1, <3>2 DEF ItemsIn
  <2>3. VaultOK'
    <3>1. \A w \in P!Workers : wk'[w] # "bulk" => taken[w] = <<>>
      BY <1>2, <1>7 DEF VaultOK
    <3>2. wk' = [w \in P!Workers |-> wk'[w]]
      BY <1>7 DEF VaultOK
    <3> QED BY <1>1, <1>4, <2>1, <3>1, <3>2 DEF VaultOK, Seqs
  <2>4. Pending' = Pending \cup {i}
    BY <1>1, <2>2 DEF Pending
  <2>5. VaultPast' = VaultPast \cup {i}
    BY <1>1, <1>5, <1>7, <2>4 DEF VaultPast
  <2> QED BY <1>3, <1>4, <2>3, <2>5 DEF VaultForth
<1> QED BY <1>6, <1>7 DEF P!Process

LEMMA VaultSkips ==
    ASSUME VaultOK, NEW c \in Callers, Skips(c)
    PROVE  VaultOK' /\ VaultForth
<1>1. /\ todo[c] # <<>> /\ todo' = [todo EXCEPT ![c] = Tail(@)]
      /\ skipped' = skipped \cup {Head(todo[c])}
      /\ UNCHANGED <<buffer, wk, taken, docs, overwritten, refused, rejected,
                     exhausted>>
  BY DEF Skips
<1>2. IsSeq(Tail(todo[c])) /\ Elems(todo[c]) = {Head(todo[c])} \cup Elems(Tail(todo[c]))
  BY <1>1, ElemsTail DEF VaultOK, Seqs
<1>3. /\ Seqs(todo', Callers) /\ todo'[c] = Tail(todo[c])
      /\ \A b \in Callers : b # c => todo'[b] = todo[b]
  BY <1>1, <1>2 DEF VaultOK, Seqs
<1>4. VaultOK'
  BY <1>1, <1>3 DEF VaultOK, Seqs
<1>5. VaultPast' = VaultPast
  <2>1. Pending' = Pending /\ Indexed' = Indexed
    BY <1>1 DEF Pending, Indexed
  <2> QED BY <1>1, <2>1 DEF VaultPast
<1>6. ASSUME NEW b \in Callers
      PROVE  Elems(todo[b]) \subseteq Elems(todo'[b]) \cup skipped'
  <2>1. CASE b = c
    BY <1>1, <1>2, <1>3, <2>1
  <2>2. CASE b # c
    BY <1>3, <2>2
  <2> QED BY <2>1, <2>2
<1> QED BY <1>4, <1>5, <1>6 DEF VaultForth

LEMMA VaultTake ==
    ASSUME VaultOK, NEW w \in P!Workers, P!Take(w)
    PROVE  VaultOK' /\ VaultForth
<1>1. /\ buffer' = <<>> /\ todo' = todo /\ docs' = docs /\ wk[w] = "flush"
      /\ UNCHANGED <<overwritten, refused, rejected, exhausted>>
  BY DEF P!Take, P!indexed, P!failures
<1>2. Indexed' = Indexed
  BY <1>1 DEF Indexed
<1>3. CASE buffer = <<>> /\ wk' = [wk EXCEPT ![w] = "idle"] /\ taken' = taken
  <2>1. VaultOK'
    <3>1. \A v \in P!Workers : wk'[v] # "bulk" => taken[v] = <<>>
      BY <1>1, <1>3 DEF VaultOK
    <3>2. wk' = [v \in P!Workers |-> wk'[v]]
      BY <1>3 DEF VaultOK
    <3> QED BY <1>1, <1>3, <3>1, <3>2 DEF VaultOK, Seqs
  <2>2. Pending' = Pending
    BY <1>1, <1>3 DEF Pending
  <2> QED BY <1>1, <1>2, <2>1, <2>2, VaultForthSame DEF VaultPast
<1>4. CASE /\ wk' = [wk EXCEPT ![w] = "bulk"]
           /\ taken' = [taken EXCEPT ![w] = buffer]
  <2>1. VaultOK'
    <3>1. \A v \in P!Workers : wk'[v] # "bulk" => taken'[v] = <<>>
      BY <1>1, <1>4 DEF VaultOK, Seqs
    <3>2. wk' = [v \in P!Workers |-> wk'[v]]
      BY <1>4 DEF VaultOK
    <3>3. Seqs(taken', P!Workers)
      BY <1>4 DEF VaultOK, Seqs
    <3> QED BY <1>1, <3>1, <3>2, <3>3, ElemsEmpty DEF VaultOK, Seqs
  <2>2. /\ taken[w] = <<>> /\ taken'[w] = buffer
        /\ \A v \in P!Workers : v # w => taken'[v] = taken[v]
    BY <1>1, <1>4 DEF VaultOK, Seqs
  <2>3. ItemsIn(taken[w]) = {}
    BY <2>2, ElemsEmpty DEF ItemsIn
  <2>4. Pending \subseteq Pending'
    BY <2>2, <2>3 DEF Pending
  <2> QED BY <1>1, <1>2, <2>1, <2>4, VaultForthSame DEF VaultPast
<1> QED BY <1>3, <1>4 DEF P!Take

LEMMA VaultTick ==
    ASSUME VaultOK, P!Tick PROVE VaultOK' /\ VaultForth
<1>1. /\ UNCHANGED <<buffer, todo, taken, docs, overwritten, refused, rejected,
                     exhausted>>
      /\ wk["flushLoop"] = "idle" /\ wk' = [wk EXCEPT !["flushLoop"] = "flush"]
  BY DEF P!Tick, P!indexed, P!failures
<1>2. Pending' = Pending /\ Indexed' = Indexed
  BY <1>1 DEF Pending, Indexed
<1>3. VaultOK'
  <2>1. \A v \in P!Workers : wk'[v] # "bulk" => taken[v] = <<>>
    BY <1>1 DEF VaultOK
  <2>2. wk' = [v \in P!Workers |-> wk'[v]]
    BY <1>1 DEF VaultOK
  <2> QED BY <1>1, <2>1, <2>2 DEF VaultOK, Seqs
<1> QED BY <1>1, <1>2, <1>3, VaultForthSame DEF VaultPast

\* After a bulk request the documents are still taken, or settled.
LEMMA VaultBulkEnds ==
    ASSUME VaultOK, NEW w \in P!Workers, P!BulkOK(w) \/ P!BulkFails(w)
    PROVE  VaultOK' /\ VaultForth
<1>1. /\ UNCHANGED <<buffer, todo, refused>> /\ wk[w] = "bulk"
      /\ rejected \subseteq rejected' /\ exhausted \subseteq exhausted'
  BY DEF P!BulkOK, P!BulkFails
<1>2. PICK K \in SUBSET (1..Len(taken[w])) : P!Apply(taken[w], K)
  BY DEF P!BulkOK, P!BulkFails
<1>3. IsSeq(taken[w])
  BY DEF VaultOK, Seqs
<1>4. Indexed \cup overwritten \subseteq Indexed' \cup overwritten'
  BY <1>2, <1>3, ApplyKeeps
<1>5. CASE wk' = wk /\ taken' = taken
  <2>1. Pending' = Pending
    BY <1>1, <1>5 DEF Pending
  <2>2. VaultOK'
    BY <1>1, <1>5 DEF VaultOK, Seqs
  <2> QED BY <1>1, <1>4, <2>1, <2>2, VaultForthSame DEF VaultPast
<1>6. CASE P!Idle(w) /\ ItemsIn(taken[w]) \subseteq VaultPast'
  <2>1. /\ wk' = [wk EXCEPT ![w] = "idle"] /\ taken' = [taken EXCEPT ![w] = <<>>]
    BY <1>6 DEF P!Idle
  <2>2. VaultOK'
    <3>1. \A v \in P!Workers : wk'[v] # "bulk" => taken'[v] = <<>>
      BY <2>1 DEF VaultOK, Seqs
    <3>2. wk' = [v \in P!Workers |-> wk'[v]]
      BY <2>1 DEF VaultOK
    <3>3. Seqs(taken', P!Workers)
      BY <2>1, ElemsEmpty DEF VaultOK, Seqs
    <3> QED BY <1>1, <3>1, <3>2, <3>3 DEF VaultOK, Seqs
  <2>3. \A v \in P!Workers : v # w => taken'[v] = taken[v]
    BY <2>1 DEF VaultOK, Seqs
  <2>4. Pending \subseteq Pending' \cup ItemsIn(taken[w])
    BY <1>1, <2>3 DEF Pending
  <2>5. Pending \subseteq VaultPast'
    BY <1>6, <2>4 DEF VaultPast
  <2> QED BY <1>1, <1>4, <2>2, <2>5, VaultForthSame
<1>7. CASE P!BulkOK(w)
  <2>1. PICK J \in SUBSET (1..Len(taken[w])) :
          /\ P!Apply(taken[w], J)
          /\ rejected' = rejected \cup
                 {taken[w][k].item : k \in (1..Len(taken[w])) \ J}
          /\ P!Idle(w)
    BY <1>7 DEF P!BulkOK
  <2>2. \A k \in J : taken[w][k].item \in Indexed' \cup overwritten'
    BY <1>3, <2>1, ApplyKeeps
  <2>3. \A k \in 1..Len(taken[w]) : taken[w][k].item \in VaultPast'
    BY <2>1, <2>2 DEF VaultPast
  <2>4. ItemsIn(taken[w]) \subseteq VaultPast'
    BY <2>3 DEF ItemsIn, Elems
  <2> QED BY <1>6, <2>1, <2>4
<1>8. CASE P!BulkFails(w)
  <2>1. CASE wk' = wk /\ taken' = taken
    BY <1>5, <2>1
  <2>2. CASE /\ exhausted' = exhausted \cup P!ItemsOf(P!SetOf(taken[w]))
             /\ P!Idle(w)
    <3>1. ItemsIn(taken[w]) \subseteq VaultPast'
      BY <2>2 DEF ItemsIn, Elems, P!ItemsOf, P!SetOf, VaultPast
    <3> QED BY <1>6, <2>2, <3>1
  <2> QED BY <1>8, <2>1, <2>2 DEF P!BulkFails
<1> QED BY <1>7, <1>8

-----------------------------------------------------------------------------
(* The forwarder                                                           *)

LEMMA KindsAre == Kinds = {"event", "alert"} /\ F!Kinds = Kinds
  BY DEF Kinds, F!Kinds

LEMMA BothAre ==
    ASSUME NEW f PROVE F!Both(f) = UNION {Elems(f[k]) : k \in Kinds}
<1>1. \A s : F!SetOf(s) = Elems(s)
  BY DEF F!SetOf, Elems
<1>2. F!Both(f) = Elems(f["event"]) \cup Elems(f["alert"])
  BY <1>1 DEF F!Both
<1> QED BY <1>2, KindsAre

LEMMA HeldIs == F!Held = InTower
<1>1. InTower = UNION {UNION {Elems(f[k]) : k \in Kinds} : f \in {ch, buf, batch}}
  BY DEF InTower
<1> QED BY <1>1, BothAre DEF F!Held

LEMMA NothingSeqs ==
    /\ Seqs(F!Nothing, Kinds)
    /\ \A k \in Kinds : F!Nothing[k] = <<>> /\ Elems(F!Nothing[k]) = {}
  BY ElemsEmpty, KindsAre DEF Seqs, F!Nothing

\* A flush takes what is in b, sends it or throws it away.
LEMMA FlushKeeps ==
    ASSUME NEW b, Seqs(b, Kinds), NEW last \in BOOLEAN, loop \notin Kinds,
           batch = F!Nothing, F!Flush(b, last)
    PROVE  /\ buf' = F!Nothing /\ Seqs(batch', Kinds) /\ discarded \subseteq discarded'
           /\ \A k \in Kinds : Elems(b[k]) \subseteq Elems(batch'[k]) \cup discarded'
           /\ \A k \in Kinds : Elems(batch'[k]) \subseteq Elems(b[k])
           /\ loop' \notin Kinds => batch' = F!Nothing
           /\ loop' = "alert" => batch'["event"] = <<>>
<1>1. buf' = F!Nothing
  BY DEF F!Flush
<1>2. CASE b = F!Nothing \/ transport = "none"
  <2>1. /\ discarded' = discarded \cup F!Both(b) /\ batch' = batch
        /\ loop' \in {"done", "select"}
    BY <1>2 DEF F!Flush, F!Rest
  <2>2. \A k \in Kinds : Elems(b[k]) \subseteq discarded'
    BY <2>1, BothAre
  <2> QED BY <1>1, <2>1, <2>2, NothingSeqs
<1>3. CASE ~(b = F!Nothing \/ transport = "none")
  <2>1. /\ loop' = IF b["event"] # <<>> THEN "event" ELSE "alert"
        /\ batch' = b /\ discarded' = discarded
    BY <1>3 DEF F!Flush
  <2> QED BY <1>1, <2>1, KindsAre
<1> QED BY <1>2, <1>3

\* What the forwarder's own steps do to its items.
TowerForth ==
    /\ TowerOK' /\ next <= next' /\ TowerPast \subseteq TowerPast'
    /\ InTower \cup (next..(next' - 1)) \subseteq InTower' \cup TowerPast'
    /\ InTower' \subseteq InTower \cup (next..(next' - 1))

LEMMA TowerForward ==
    ASSUME TowerOK, F!Forward PROVE TowerForth
<1> DEFINE k == KindOf[next]
<1>1. /\ next \in 1..MaxItems /\ next' = next + 1 /\ MaxItems \in Nat
      /\ UNCHANGED <<buf, loop, batch, dlq, discarded, evicted>>
  BY DeliveryAssumption DEF F!Forward, F!sending, F!ForwarderAssumption, TowerOK
<1>2. k \in Kinds
  BY <1>1, DeliveryAssumption, KindsAre DEF F!ForwarderAssumption, F!Items
<1> HIDE DEF k
<1>3. next..(next' - 1) = {next} /\ next' \in 1..(MaxItems + 1)
  BY <1>1
<1>4. CASE ch' = [ch EXCEPT ![k] = Append(@, next)] /\ dropped' = dropped
  <2>1. /\ IsSeq(Append(ch[k], next))
        /\ Elems(Append(ch[k], next)) = Elems(ch[k]) \cup {next}
    BY <1>2, ElemsAppend DEF TowerOK, Seqs
  <2>2. /\ Seqs(ch', Kinds) /\ Elems(ch'[k]) = Elems(ch[k]) \cup {next}
        /\ \A j \in Kinds : j # k => ch'[j] = ch[j]
    BY <1>2, <1>4, <2>1 DEF TowerOK, Seqs
  <2>3. InTower' = InTower \cup {next}
    BY <1>1, <1>2, <2>2 DEF InTower
  <2>4. InTower' \subseteq 1..(next' - 1)
    <3>1. \A n \in InTower : n \in 1..next
      BY DEF TowerOK
    <3>2. next \in 1..next /\ next' - 1 = next
      BY <1>1
    <3> QED BY <2>3, <3>1, <3>2
  <2>5. TowerOK'
    BY <1>1, <1>3, <2>2, <2>4 DEF TowerOK
  <2>6. TowerPast' = TowerPast
    BY <1>1, <1>4 DEF TowerPast, F!Dead
  <2> QED BY <1>1, <1>3, <2>3, <2>5, <2>6 DEF TowerForth
<1>5. CASE ch' = ch /\ dropped' = dropped \cup {next}
  <2>1. InTower' = InTower
    BY <1>1, <1>5 DEF InTower
  <2>2. InTower' \subseteq 1..(next' - 1)
    BY <1>1, <2>1 DEF TowerOK
  <2>3. TowerOK'
    BY <1>1, <1>3, <1>5, <2>2 DEF TowerOK
  <2>4. TowerPast' = TowerPast \cup {next}
    BY <1>1, <1>5 DEF TowerPast, F!Dead
  <2> QED BY <1>1, <1>3, <2>1, <2>3, <2>4 DEF TowerForth
<1> QED BY <1>4, <1>5 DEF F!Forward, k

\* A flush of what the buffers hold, with one item more or not.
LEMMA TowerFlush ==
    ASSUME TowerOK, loop = "select", NEW b, Seqs(b, Kinds), Seqs(ch', Kinds),
           NEW last \in BOOLEAN, F!Flush(b, last), UNCHANGED <<dlq, next, evicted>>,
           dropped \subseteq dropped',
           \A k \in Kinds : /\ Elems(ch'[k]) \subseteq Elems(ch[k])
                            /\ Elems(b[k]) \subseteq Elems(buf[k]) \cup Elems(ch[k])
                            /\ Elems(buf[k]) \subseteq Elems(b[k])
                            /\ Elems(ch[k]) \subseteq UNION {Elems(ch'[k]), Elems(b[k]),
                                                             dropped'}
    PROVE  TowerForth
<1>1. batch = F!Nothing /\ loop \notin Kinds
  BY KindsAre DEF TowerOK
<1>2. /\ buf' = F!Nothing /\ Seqs(batch', Kinds) /\ discarded \subseteq discarded'
      /\ \A k \in Kinds : Elems(b[k]) \subseteq Elems(batch'[k]) \cup discarded'
      /\ \A k \in Kinds : Elems(batch'[k]) \subseteq Elems(b[k])
      /\ loop' \notin Kinds => batch' = F!Nothing
      /\ loop' = "alert" => batch'["event"] = <<>>
  BY <1>1, FlushKeeps
<1>3. \A k \in Kinds : Elems(buf'[k]) = {} /\ Elems(batch[k]) = {}
  BY <1>1, <1>2, NothingSeqs
<1>4. TowerPast \subseteq TowerPast' /\ dropped' \cup discarded' \subseteq TowerPast'
  BY <1>2 DEF TowerPast, F!Dead
<1>5. InTower' \subseteq InTower
  BY <1>2, <1>3 DEF InTower
<1>6. ASSUME NEW k \in Kinds
      PROVE  UNION {Elems(ch[k]), Elems(buf[k]), Elems(batch[k])}
               \subseteq InTower' \cup TowerPast'
  <2>1. Elems(ch'[k]) \cup Elems(batch'[k]) \subseteq InTower'
    BY DEF InTower
  <2> QED BY <1>2, <1>3, <1>4, <2>1
<1>7. InTower \subseteq InTower' \cup TowerPast'
  BY <1>6 DEF InTower
<1>8. TowerOK'
  BY <1>2, <1>5, NothingSeqs DEF TowerOK
<1>9. next..(next' - 1) = {} /\ next <= next'
  BY DEF TowerOK
<1> QED BY <1>4, <1>5, <1>7, <1>8, <1>9 DEF TowerForth

LEMMA TowerReceive ==
    ASSUME TowerOK, NEW k \in Kinds, F!Receive(k) PROVE TowerForth
<1> DEFINE i == Head(ch[k])
           fits == Len(buf[k]) < BufCap[k]
           b == IF fits THEN [buf EXCEPT ![k] = Append(@, i)] ELSE buf
<1>1. /\ loop = "select" /\ ch[k] # <<>> /\ ch' = [ch EXCEPT ![k] = Tail(@)]
      /\ dropped' = IF fits THEN dropped ELSE dropped \cup {i}
      /\ UNCHANGED <<dlq, next, evicted>>
  BY DEF F!Receive
<1>2. IsSeq(Tail(ch[k])) /\ Elems(ch[k]) = {i} \cup Elems(Tail(ch[k]))
  BY <1>1, ElemsTail DEF TowerOK, Seqs
<1>3. /\ Seqs(ch', Kinds) /\ Elems(ch[k]) = {i} \cup Elems(ch'[k])
      /\ \A j \in Kinds : j # k => ch'[j] = ch[j]
  BY <1>1, <1>2 DEF TowerOK, Seqs
<1>4. IsSeq(Append(buf[k], i)) /\ Elems(Append(buf[k], i)) = Elems(buf[k]) \cup {i}
  BY ElemsAppend DEF TowerOK, Seqs
<1>5. /\ Seqs(b, Kinds) /\ \A j \in Kinds : j # k => b[j] = buf[j]
      /\ Elems(b[k]) = IF fits THEN Elems(buf[k]) \cup {i} ELSE Elems(buf[k])
  <2> HIDE DEF i
  <2>1. CASE fits
    BY <2>1, <1>4 DEF TowerOK, Seqs
  <2>2. CASE ~fits
    BY <2>2 DEF TowerOK, Seqs
  <2> QED BY <2>1, <2>2
<1>6. CASE F!Flush(b, FALSE)
  <2>1. dropped \subseteq dropped' /\ (fits \/ i \in dropped')
    BY <1>1
  <2> HIDE DEF b, fits, i
  <2>2. \A j \in Kinds :
            /\ Elems(ch'[j]) \subseteq Elems(ch[j])
            /\ Elems(b[j]) \subseteq Elems(buf[j]) \cup Elems(ch[j])
            /\ Elems(buf[j]) \subseteq Elems(b[j])
            /\ Elems(ch[j]) \subseteq UNION {Elems(ch'[j]), Elems(b[j]), dropped'}
    <3> TAKE j \in Kinds
    <3>1. CASE j = k
      BY <3>1, <1>3, <1>5, <2>1
    <3>2. CASE j # k
      BY <3>2, <1>3, <1>5
    <3> QED BY <3>1, <3>2
  <2> QED BY <1>1, <1>3, <1>5, <1>6, <2>1, <2>2, TowerFlush
<1>7. CASE buf' = b /\ UNCHANGED <<F!sending, discarded>>
  <2>1. UNCHANGED <<loop, batch, discarded>> /\ buf' = b
    BY <1>7 DEF F!sending
  <2>2. dropped \subseteq dropped' /\ (fits \/ i \in dropped')
    BY <1>1
  <2> HIDE DEF b, fits, i
  <2>3. TowerPast \subseteq TowerPast' /\ dropped' \subseteq TowerPast'
    BY <1>1, <2>1, <2>2 DEF TowerPast, F!Dead
  <2>4. InTower' \subseteq InTower
    <3> SUFFICES ASSUME NEW j \in Kinds
                 PROVE  UNION {Elems(ch'[j]), Elems(b[j]), Elems(batch[j])}
                          \subseteq UNION {Elems(ch[j]), Elems(buf[j]), Elems(batch[j])}
      BY <2>1 DEF InTower
    <3>1. CASE j = k
      BY <3>1, <1>3, <1>5
    <3>2. CASE j # k
      BY <3>2, <1>3, <1>5
    <3> QED BY <3>1, <3>2
  <2>5. InTower \subseteq InTower' \cup dropped'
    <3> SUFFICES ASSUME NEW j \in Kinds
                 PROVE  UNION {Elems(ch[j]), Elems(buf[j]), Elems(batch[j])}
                          \subseteq UNION {Elems(ch'[j]), Elems(b[j]), Elems(batch[j]),
                                           dropped'}
      BY <2>1 DEF InTower
    <3>1. CASE j = k
      BY <3>1, <1>3, <1>5, <2>2
    <3>2. CASE j # k
      BY <3>2, <1>3, <1>5
    <3> QED BY <3>1, <3>2
  <2>6. TowerOK'
    BY <1>1, <1>3, <1>5, <2>1, <2>4 DEF TowerOK
  <2>7. next..(next' - 1) = {} /\ next <= next'
    BY <1>1 DEF TowerOK
  <2> QED BY <2>3, <2>4, <2>5, <2>6, <2>7 DEF TowerForth
<1> QED BY <1>6, <1>7 DEF F!Receive

-----------------------------------------------------------------------------
(* The whole way                                                           *)

\* What is past stays past, and what is taken off a list gets past.
Forth ==
    /\ Past \subseteq Past'
    /\ \A c \in Callers : Elems(todo[c]) \subseteq Elems(todo'[c]) \cup Past'

LEMMA CallKept ==
    ASSUME CallInv, Forth, UNCHANGED <<call, loop, batch, transport>>
    PROVE  CallInv'
<1>1. ASSUME call \in Handlers
      PROVE  Elems(batch'[loop']) \subseteq Elems(todo'[call']) \cup Past'
  <2>1. Elems(batch[loop]) \subseteq Elems(todo[call]) \cup Past
    BY <1>1 DEF CallInv
  <2>2. Elems(todo[call]) \subseteq Elems(todo'[call]) \cup Past' /\ Past \subseteq Past'
    BY <1>1 DEF Forth, Callers
  <2> QED BY <2>1, <2>2
<1> QED BY <1>1 DEF CallInv

\* Logs grow at their end.
LogGrows ==
    /\ Seqs(log', Partitions)
    /\ \A p \in Partitions :
         /\ Len(log[p]) \in Nat /\ Len(log'[p]) \in Nat /\ Len(log[p]) <= Len(log'[p])
         /\ \A n \in 1..Len(log[p]) : log'[p][n] = log[p][n]

LEMMA LogSame ==
    ASSUME PollInv, log' = log PROVE LogGrows
<1>1. \A p \in Partitions : Len(log[p]) \in Nat
  BY LenProperties DEF PollInv, Seqs, IsSeq
<1> QED BY <1>1 DEF LogGrows, PollInv

LEMMA PollKept ==
    ASSUME PollInv, Forth, LogGrows, UNCHANGED <<pos, ready>>
    PROVE  PollInv' /\ Waiting \subseteq Waiting'
<1>1. ASSUME NEW p \in Partitions
      PROVE  /\ ready[p] <= pos[p] /\ pos[p] <= Len(log'[p])
             /\ \A n \in 1..ready[p] : log'[p][n] \in Past'
             /\ \A n \in 1..pos[p] : log'[p][n] \in Elems(todo'[Consumer]) \cup Past'
  <2>1. /\ ready[p] \in Nat /\ pos[p] \in Nat
        /\ ready[p] <= pos[p] /\ pos[p] <= Len(log[p])
        /\ Len(log[p]) \in Nat /\ Len(log'[p]) \in Nat /\ Len(log[p]) <= Len(log'[p])
    BY DEF PollInv, LogGrows
  <2>2. \A n \in 1..pos[p] : n \in 1..Len(log[p])
    BY <2>1
  <2>3. \A n \in 1..ready[p] : n \in 1..pos[p]
    BY <2>1
  <2>4. \A n \in 1..pos[p] : log'[p][n] = log[p][n]
    BY <2>2 DEF LogGrows
  <2>5. \A n \in 1..ready[p] : log'[p][n] \in Past'
    BY <2>3, <2>4 DEF PollInv, Forth
  <2>6. Elems(todo[Consumer]) \subseteq Elems(todo'[Consumer]) \cup Past'
    BY DEF Forth, Callers
  <2>7. \A n \in 1..pos[p] : log[p][n] \in Elems(todo[Consumer]) \cup Past
    BY DEF PollInv
  <2>8. Past \subseteq Past'
    BY DEF Forth
  <2>9. \A n \in 1..pos[p] : log'[p][n] \in Elems(todo'[Consumer]) \cup Past'
    BY <2>4, <2>6, <2>7, <2>8
  <2>10. pos[p] <= Len(log'[p])
    BY <2>1
  <2> QED BY <2>1, <2>5, <2>9, <2>10
<1>2. PollInv'
  BY <1>1 DEF PollInv, LogGrows
<1>3. ASSUME NEW p \in Partitions, NEW n \in (pos[p] + 1)..Len(log[p])
      PROVE  n \in (pos[p] + 1)..Len(log'[p]) /\ log'[p][n] = log[p][n]
  <2>1. /\ pos[p] \in Nat /\ Len(log[p]) \in Nat /\ Len(log'[p]) \in Nat
        /\ Len(log[p]) <= Len(log'[p])
        /\ \A m \in 1..Len(log[p]) : log'[p][m] = log[p][m]
    BY DEF PollInv, LogGrows
  <2> QED BY <2>1
<1>4. Waiting \subseteq Waiting'
  BY <1>3 DEF Waiting
<1> QED BY <1>2, <1>4

LEMMA IntervalSplit ==
    ASSUME NEW a \in Int, NEW b \in Int, NEW i \in 1..(b - 1)
    PROVE  i \in 1..(a - 1) \/ i \in a..(b - 1)
  OBVIOUS

\* A step that moves items on, and adds some, leaves each somewhere.
LEMMA StillSomewhere ==
    ASSUME Somewhere, TowerOK, next' \in Int, Forth,
           InTower \cup (next..(next' - 1)) \subseteq
               UNION {InTower', ToDo', Waiting', Past'},
           Waiting \subseteq UNION {ToDo', Waiting', Past'}
    PROVE  Somewhere'
<1>1. ToDo \subseteq ToDo' \cup Past'
  BY DEF ToDo, Forth
<1>2. ASSUME NEW i \in 1..(next' - 1)
      PROVE  i \in UNION {InTower', ToDo', Waiting', Past'}
  <2>1. i \in 1..(next - 1) \/ i \in next..(next' - 1)
    <3>1. next \in Int
      BY DEF TowerOK
    <3> QED BY <3>1, IntervalSplit, Zenon
  <2>2. CASE i \in 1..(next - 1)
    <3>1. i \in UNION {InTower, ToDo, Waiting, Past}
      BY <2>2 DEF Somewhere
    <3> QED BY <3>1, <1>1 DEF Forth
  <2>3. CASE i \in next..(next' - 1)
    BY <2>3
  <2> QED BY <2>1, <2>2, <2>3
<1> QED BY <1>2 DEF Somewhere

\* A step of the indexer.
LEMMA WayVault ==
    ASSUME WayInv, VaultOK', VaultForth,
           UNCHANGED <<tower, kafka, call>>, skipped \subseteq skipped',
           refusedWhole \subseteq refusedWhole', forgotten \subseteq forgotten'
    PROVE  WayInv'
<1>1. UNCHANGED <<transport, ch, buf, loop, batch, dlq, next, dropped, discarded,
                  evicted, log, pos, ready, call>>
  BY DEF tower, kafka
<1>2. TowerPast' = TowerPast /\ InTower' = InTower /\ TowerOK'
  BY <1>1 DEF TowerPast, F!Dead, InTower, TowerOK, WayInv
<1>3. Forth
  BY <1>2 DEF VaultForth, Forth, Past
<1>4. CallInv'
  BY <1>1, <1>3, CallKept DEF WayInv
<1>5. PollInv' /\ Waiting \subseteq Waiting'
  BY <1>1, <1>3, LogSame, PollKept DEF WayInv
<1>6. next' \in Int /\ next..(next' - 1) = {}
  BY <1>1 DEF WayInv, TowerOK
<1>7. Somewhere'
  BY <1>2, <1>3, <1>5, <1>6, StillSomewhere DEF WayInv
<1> QED BY <1>2, <1>4, <1>5, <1>7 DEF WayInv

LEMMA VaultSame ==
    ASSUME VaultOK, UNCHANGED vault
    PROVE  VaultOK' /\ VaultForth /\ VaultPast' = VaultPast
<1>1. UNCHANGED <<buffer, todo, wk, taken, docs, overwritten, refused, rejected,
                  exhausted>>
  BY DEF vault
<1>2. Pending' = Pending /\ Indexed' = Indexed
  BY <1>1 DEF Pending, Indexed
<1> QED BY <1>1, <1>2 DEF VaultOK, Seqs, VaultForth, VaultPast

\* A step of the forwarder that is not an attempt to send.
LEMMA WayTower ==
    ASSUME WayInv, TowerForth,
           call # "none" => UNCHANGED <<loop, batch, transport>>,
           UNCHANGED <<vault, kafka, call, history>>
    PROVE  WayInv'
<1>1. VaultOK' /\ VaultForth
  BY VaultSame DEF WayInv
<1>2. Forth
  BY <1>1 DEF TowerForth, VaultForth, Forth, Past, history
<1>3. CallInv'
  <2>1. CASE call = "none"
    BY <2>1, DeliveryAssumption DEF CallInv
  <2>2. CASE call # "none"
    BY <2>2, <1>2, CallKept DEF WayInv
  <2> QED BY <2>1, <2>2
<1>4. PollInv' /\ Waiting \subseteq Waiting'
  BY <1>2, LogSame, PollKept DEF WayInv, kafka
<1>5. next' \in Int
  BY DEF TowerForth, TowerOK
<1>6. InTower \cup (next..(next' - 1)) \subseteq InTower' \cup Past'
  BY DEF TowerForth, Past
<1>7. Somewhere'
  BY <1>2, <1>4, <1>5, <1>6, StillSomewhere DEF WayInv
<1> QED BY <1>1, <1>3, <1>4, <1>7 DEF WayInv, TowerForth

\* A part of the batch is sent, tried again, or goes to the dead letters.
SendForth(ok) ==
    /\ TowerOK' /\ next' = next /\ TowerPast \subseteq TowerPast'
    /\ InTower' \subseteq InTower
    /\ InTower \subseteq UNION {InTower', TowerPast',
                                IF ok THEN Elems(batch[loop]) ELSE {}}

LEMMA DeadIs == F!Dead = UNION {Elems(b) : b \in Elems(dlq)}
  BY DEF F!Dead, F!SetOf, Elems

\* What is pushed out of the queue counts as evicted.
LEMMA DlqKeeps ==
    ASSUME IsSeq(dlq), NEW b, F!EnqueueDLQ(b)
    PROVE  /\ IsSeq(dlq')
           /\ Elems(b) \cup (F!Dead \cup evicted) \subseteq F!Dead' \cup evicted'
<1> DEFINE q == IF Len(dlq) >= DlqMax THEN Tail(dlq) ELSE dlq
<1>1. IsSeq(q) /\ \A x \in Elems(dlq) : x \in Elems(q) \/ Elems(x) \subseteq evicted'
  <2>1. CASE Len(dlq) >= DlqMax
    <3>1. dlq # <<>>
      <4>1. DlqMax \in Nat \ {0}
        BY DeliveryAssumption DEF F!ForwarderAssumption
      <4> QED BY <2>1, <4>1
    <3>2. IsSeq(Tail(dlq)) /\ Elems(dlq) = {Head(dlq)} \cup Elems(Tail(dlq))
      BY <3>1, ElemsTail
    <3>3. Elems(Head(dlq)) \subseteq evicted'
      BY <2>1 DEF F!EnqueueDLQ, F!SetOf, Elems
    <3> QED BY <2>1, <3>2, <3>3
  <2>2. CASE ~(Len(dlq) >= DlqMax)
    BY <2>2
  <2> QED BY <2>1, <2>2
<1>2. dlq' = Append(q, b) /\ evicted \subseteq evicted'
  BY DEF F!EnqueueDLQ, F!Enqueued
<1> HIDE DEF q
<1>3. IsSeq(dlq') /\ Elems(dlq') = Elems(q) \cup {b}
  BY <1>1, <1>2, ElemsAppend
<1>4. F!Dead' = UNION {Elems(x) : x \in Elems(dlq')}
  BY DEF F!Dead, F!SetOf, Elems
<1>5. \A x \in Elems(dlq) : Elems(x) \subseteq F!Dead' \cup evicted'
  BY <1>1, <1>3, <1>4
<1>6. F!Dead \subseteq F!Dead' \cup evicted'
  BY <1>5, DeadIs
<1>7. Elems(b) \subseteq F!Dead'
  BY <1>3, <1>4
<1> QED BY <1>2, <1>3, <1>6, <1>7

\* The part that is done with leaves the batch, the other part stays.
LEMMA PartKeeps ==
    ASSUME TowerOK, loop \in Kinds, F!PartDone
    PROVE  /\ Seqs(batch', Kinds)
           /\ \A k \in Kinds : /\ Elems(batch'[k]) \subseteq Elems(batch[k])
                               /\ k # loop => Elems(batch[k]) \subseteq Elems(batch'[k])
           /\ loop' \notin Kinds => batch' = F!Nothing
           /\ loop' = "alert" => batch'["event"] = <<>>
<1>1. CASE /\ loop = "event" /\ loop' = "alert"
           /\ batch' = [batch EXCEPT !["event"] = <<>>]
  BY <1>1, ElemsEmpty, KindsAre DEF TowerOK, Seqs
<1>2. CASE /\ ~(loop = "event" /\ batch["alert"] # <<>>) /\ batch' = F!Nothing
           /\ loop' \in {"done", "select"}
  <2>1. \A k \in Kinds : k # loop => batch[k] = <<>>
    BY <1>2, KindsAre DEF TowerOK
  <2> QED BY <1>2, <2>1, NothingSeqs, ElemsEmpty, KindsAre
<1> QED BY <1>1, <1>2 DEF F!PartDone, F!Rest

LEMMA PartMoves ==
    ASSUME TowerOK, loop \in Kinds, F!PartDone, UNCHANGED <<ch, buf>>
    PROVE  /\ InTower' \subseteq InTower
           /\ InTower \subseteq InTower' \cup Elems(batch[loop])
<1>1. \A k \in Kinds : /\ Elems(batch'[k]) \subseteq Elems(batch[k])
                       /\ k # loop => Elems(batch[k]) \subseteq Elems(batch'[k])
  BY PartKeeps
<1>2. InTower' \subseteq InTower
  BY <1>1 DEF InTower
<1>3. ASSUME NEW k \in Kinds
      PROVE  UNION {Elems(ch[k]), Elems(buf[k]), Elems(batch[k])}
               \subseteq InTower' \cup Elems(batch[loop])
  <2>1. UNION {Elems(ch[k]), Elems(buf[k]), Elems(batch'[k])} \subseteq InTower'
    BY DEF InTower
  <2> QED BY <1>1, <2>1
<1>4. InTower \subseteq InTower' \cup Elems(batch[loop])
  BY <1>3 DEF InTower
<1> QED BY <1>2, <1>4

LEMMA SendKeeps ==
    ASSUME TowerOK, NEW ok \in BOOLEAN, F!SendEnds(ok)
    PROVE  SendForth(ok)
<1>1. /\ loop \in Kinds
      /\ UNCHANGED <<transport, ch, buf, next, dropped, discarded>>
  BY KindsAre DEF F!SendEnds
<1>2. CASE ok /\ F!PartDone /\ UNCHANGED <<dlq, evicted>>
  <2>1. TowerPast' = TowerPast
    BY <1>1, <1>2 DEF TowerPast, F!Dead
  <2>2. InTower' \subseteq InTower /\ InTower \subseteq InTower' \cup Elems(batch[loop])
    BY <1>1, <1>2, PartMoves
  <2>3. TowerOK'
    BY <1>1, <1>2, <2>2, PartKeeps DEF TowerOK
  <2> QED BY <1>1, <1>2, <2>1, <2>2, <2>3 DEF SendForth
<1>3. CASE ~ok /\ UNCHANGED <<loop, batch, dlq, evicted>>
  <2>1. TowerPast' = TowerPast /\ InTower' = InTower
    BY <1>1, <1>3 DEF TowerPast, F!Dead, InTower
  <2>2. TowerOK'
    BY <1>1, <1>3, <2>1 DEF TowerOK
  <2> QED BY <1>1, <2>1, <2>2 DEF SendForth
<1>4. CASE ~ok /\ F!EnqueueDLQ(batch[loop]) /\ F!PartDone
  <2>1. /\ IsSeq(dlq')
        /\ Elems(batch[loop]) \cup (F!Dead \cup evicted) \subseteq F!Dead' \cup evicted'
    BY <1>4, DlqKeeps DEF TowerOK
  <2>2. TowerPast \subseteq TowerPast' /\ Elems(batch[loop]) \subseteq TowerPast'
    BY <1>1, <2>1 DEF TowerPast
  <2>3. InTower' \subseteq InTower /\ InTower \subseteq InTower' \cup Elems(batch[loop])
    BY <1>1, <1>4, PartMoves
  <2>4. TowerOK'
    BY <1>1, <1>4, <2>1, <2>3, PartKeeps DEF TowerOK
  <2> QED BY <1>1, <2>2, <2>3, <2>4 DEF SendForth
<1> QED BY <1>2, <1>3, <1>4 DEF F!SendEnds

\* What is produced is at the end of its log.
LEMMA ProduceKeeps ==
    ASSUME WayInv, loop \in Kinds, NEW K \in SUBSET (1..Len(batch[loop])),
           Produce(K), pos' = pos
    PROVE  LogGrows /\ \A k \in K : batch[loop][k] \in Waiting'
<1> DEFINE b == batch[loop]
           here(p) == {k \in K : PartitionOf(b[k]) = p}
<1>1. log' = [p \in Partitions |-> log[p] \o Selected(b, here(p))]
  BY DEF Produce, Selected, Rank
<1>2. /\ Len(b) \in Nat /\ \A p : here(p) \in SUBSET (1..Len(b))
      /\ \A k \in K : b[k] \in Items
  <2>1. IsSeq(b) /\ Elems(b) \subseteq 1..(next - 1)
    BY DEF WayInv, TowerOK, Seqs, InTower
  <2>2. Len(b) \in Nat /\ \A k \in K : b[k] \in Elems(b)
    <3>1. K \subseteq 1..Len(b)
      OBVIOUS
    <3> HIDE DEF b
    <3> QED BY <2>1, <3>1, LenProperties DEF IsSeq, Elems
  <2>3. 1..(next - 1) \subseteq Items
    <3>1. next \in 1..(MaxItems + 1) /\ MaxItems \in Nat
      BY DeliveryAssumption DEF WayInv, TowerOK, F!ForwarderAssumption
    <3> QED BY <3>1 DEF Items
  <2>4. \A k \in K : b[k] \in Items
    BY <2>1, <2>2, <2>3
  <2>5. \A p : here(p) \subseteq 1..Len(b)
    OBVIOUS
  <2> HIDE DEF b, here
  <2> QED BY <2>2, <2>4, <2>5
<1> HIDE DEF b, here
<1>3. ASSUME NEW p \in Partitions
      PROVE  /\ IsSeq(log[p]) /\ IsSeq(Selected(b, here(p)))
             /\ Elems(Selected(b, here(p))) = {b[k] : k \in here(p)}
  BY <1>2, SelectedProperties DEF WayInv, PollInv, Seqs
<1>4. ASSUME NEW p \in Partitions
      PROVE  /\ IsSeq(log'[p])
             /\ Len(log[p]) \in Nat /\ Len(log'[p]) \in Nat /\ Len(log[p]) <= Len(log'[p])
             /\ \A n \in 1..Len(log[p]) : log'[p][n] = log[p][n]
             /\ \A x \in Elems(Selected(b, here(p))) :
                  \E n \in (Len(log[p]) + 1)..Len(log'[p]) : log'[p][n] = x
  <2> DEFINE s == log[p]
             t == Selected(b, here(p))
  <2>1. log'[p] = s \o t
    BY <1>1
  <2>2. IsSeq(s) /\ IsSeq(t)
    BY <1>3
  <2> HIDE DEF s, t
  <2>3. /\ IsSeq(s \o t) /\ Len(s) \in Nat /\ Len(t) \in Nat
        /\ Len(s \o t) = Len(s) + Len(t)
        /\ \A i \in 1..Len(s) : (s \o t)[i] = s[i]
        /\ \A i \in 1..Len(t) : (s \o t)[Len(s) + i] = t[i]
    BY <2>2, ElemsConcat
  <2>4. ASSUME NEW x \in Elems(t)
        PROVE  \E n \in (Len(s) + 1)..Len(s \o t) : (s \o t)[n] = x
    <3>1. PICK i \in 1..Len(t) : x = t[i]
      BY DEF Elems
    <3>2. Len(s) + i \in (Len(s) + 1)..Len(s \o t)
      BY <2>3
    <3> QED BY <2>3, <3>1, <3>2
  <2>5. Len(s) <= Len(s \o t) /\ Len(s \o t) \in Nat
    BY <2>3
  <2> QED BY <2>1, <2>3, <2>4, <2>5 DEF s, t
<1>5. log' = [p \in Partitions |-> log'[p]]
  BY <1>1
<1>6. LogGrows
  BY <1>4, <1>5 DEF LogGrows, Seqs
<1>7. ASSUME NEW k \in K PROVE b[k] \in Waiting'
  <2> DEFINE p == PartitionOf(b[k])
  <2>1. p \in Partitions /\ k \in here(p)
    BY <1>2 DEF Partitions, here
  <2> HIDE DEF p
  <2>2. b[k] \in Elems(Selected(b, here(p)))
    BY <1>3, <2>1
  <2>3. PICK n \in (Len(log[p]) + 1)..Len(log'[p]) : log'[p][n] = b[k]
    BY <1>4, <2>1, <2>2
  <2>4. n \in (pos[p] + 1)..Len(log'[p])
    <3>1. pos[p] \in Nat /\ Len(log[p]) \in Nat /\ pos[p] <= Len(log[p])
          /\ Len(log'[p]) \in Nat
      BY <1>4, <2>1 DEF WayInv, PollInv
    <3> QED BY <3>1
  <2> QED BY <2>1, <2>3, <2>4 DEF Waiting
<1> QED BY <1>6, <1>7 DEF b

\* An attempt ends and no call is left. A part that was sent is in its logs, or
\* is past its handler.
LEMMA WaySend ==
    ASSUME WayInv, NEW ok \in BOOLEAN, SendForth(ok), LogGrows, call' = "none",
           UNCHANGED <<vault, pos, ready, refusedWhole, forgotten>>,
           skipped \subseteq skipped',
           ok => Elems(batch[loop]) \subseteq UNION {Waiting', Past, skipped'}
    PROVE  WayInv'
<1>1. VaultOK' /\ VaultForth
  BY VaultSame DEF WayInv
<1>2. Forth
  BY <1>1 DEF SendForth, VaultForth, Forth, Past
<1>3. CallInv'
  BY DeliveryAssumption DEF CallInv
<1>4. PollInv' /\ Waiting \subseteq Waiting'
  BY <1>2, PollKept DEF WayInv
<1>5. next' \in Int /\ next..(next' - 1) = {}
  BY DEF SendForth, WayInv, TowerOK
<1>6. Past \subseteq Past' /\ TowerPast' \subseteq Past' /\ skipped' \subseteq Past'
  BY <1>2 DEF Forth, Past
<1>7. InTower \subseteq UNION {InTower', Waiting', Past'}
  <2>1. CASE ok
    BY <2>1, <1>6 DEF SendForth
  <2>2. CASE ~ok
    BY <2>2, <1>6 DEF SendForth
  <2> QED BY <2>1, <2>2
<1>8. Somewhere'
  BY <1>2, <1>4, <1>5, <1>7, StillSomewhere DEF WayInv
<1> QED BY <1>1, <1>3, <1>4, <1>8 DEF WayInv, SendForth

LEMMA WayKafka ==
    ASSUME WayInv, KafkaSends \/ KafkaFails PROVE WayInv'
<1>1. /\ loop \in Kinds /\ transport = "kafka"
      /\ UNCHANGED <<vault, pos, ready, refusedWhole, forgotten, call>>
      /\ skipped' = skipped \cup
             {batch[loop][k] : k \in (1..Len(batch[loop])) \ Encoded}
  BY DEF KafkaSends, KafkaFails, LeaveOut
<1>2. call' = "none"
  BY <1>1 DEF WayInv, CallInv
<1>3. CASE KafkaSends
  <2>0. Encoded \in SUBSET (1..Len(batch[loop]))
    BY DEF Encoded
  <2>1. LogGrows /\ \A k \in Encoded : batch[loop][k] \in Waiting'
    BY <1>1, <1>3, <2>0, ProduceKeeps DEF KafkaSends
  <2>2. Elems(batch[loop]) \subseteq Waiting' \cup skipped'
    BY <1>1, <2>1 DEF Elems
  <2>3. SendForth(TRUE)
    BY <1>3, SendKeeps DEF KafkaSends, WayInv
  <2> QED BY <1>1, <1>2, <2>1, <2>2, <2>3, WaySend
<1>4. CASE KafkaFails
  <2>1. SendForth(FALSE)
    BY <1>4, SendKeeps DEF KafkaFails, WayInv
  <2>2. log' = log \/ \E K \in Partial : Produce(K)
    BY <1>4 DEF KafkaFails
  <2>3. Partial \subseteq SUBSET (1..Len(batch[loop]))
    BY DEF Partial, Encoded
  <2>4. LogGrows
    BY <1>1, <2>2, <2>3, LogSame, ProduceKeeps DEF WayInv
  <2> QED BY <1>1, <1>2, <2>1, <2>4, WaySend
<1> QED BY <1>3, <1>4

LEMMA WayCallEnds ==
    ASSUME WayInv, Answer \/ CallFails PROVE WayInv'
<1>1. /\ UNCHANGED <<vault, pos, ready, refusedWhole, forgotten, skipped, log>>
      /\ call' = "none"
  BY DEF Answer, CallFails, kafka, history
<1>2. LogGrows
  BY <1>1, LogSame DEF WayInv
<1>3. CASE Answer
  <2>1. call \in Handlers /\ todo[call] = <<>> /\ SendForth(TRUE)
    BY <1>3, SendKeeps DEF Answer, WayInv
  <2>2. Elems(batch[loop]) \subseteq Past
    BY <2>1, ElemsEmpty DEF WayInv, CallInv
  <2> QED BY <1>1, <1>2, <2>1, <2>2, WaySend
<1>4. CASE CallFails
  <2>1. SendForth(FALSE)
    BY <1>4, SendKeeps DEF CallFails, WayInv
  <2> QED BY <1>1, <1>2, <2>1, WaySend
<1> QED BY <1>3, <1>4

\* The handler takes the batch, or counts it as failed.
LEMMA WayCall ==
    ASSUME WayInv, NEW h \in Handlers, Call(h) PROVE WayInv'
<1>1. /\ loop \in Kinds /\ transport = "grpc" /\ call' = h /\ todo[h] = <<>>
      /\ h \in Callers
      /\ UNCHANGED <<transport, ch, buf, loop, batch, dlq, next, dropped, discarded,
                     evicted, log, pos, ready, skipped, forgotten, buffer, wk, taken,
                     docs, overwritten, refused, rejected, exhausted>>
  BY DEF Call, tower, kafka, Callers
<1>2. /\ TowerPast' = TowerPast /\ InTower' = InTower /\ TowerOK'
      /\ VaultPast' = VaultPast
  <2>1. Pending' = Pending /\ Indexed' = Indexed
    BY <1>1 DEF Pending, Indexed
  <2> QED BY <1>1, <2>1 DEF TowerPast, F!Dead, InTower, TowerOK, WayInv, VaultPast
<1>3. IsSeq(batch[loop])
  BY <1>1 DEF WayInv, TowerOK, Seqs
<1>4. /\ VaultOK' /\ refusedWhole \subseteq refusedWhole'
      /\ \A c \in Callers : Elems(todo[c]) \subseteq Elems(todo'[c])
      /\ Elems(batch[loop]) \subseteq Elems(todo'[h]) \cup refusedWhole'
  <2>1. CASE todo' = [todo EXCEPT ![h] = batch[loop]] /\ refusedWhole' = refusedWhole
    <3>1. Seqs(todo', Callers) /\ todo'[h] = batch[loop]
          /\ \A c \in Callers : c # h => todo'[c] = todo[c]
      BY <1>1, <1>3, <2>1 DEF WayInv, VaultOK, Seqs
    <3>2. VaultOK'
      BY <1>1, <3>1 DEF WayInv, VaultOK, Seqs
    <3> QED BY <1>1, <2>1, <3>1, <3>2, ElemsEmpty
  <2>2. CASE /\ refusedWhole' = refusedWhole \cup F!SetOf(batch[loop])
             /\ todo' = todo
    BY <1>1, <2>2 DEF WayInv, VaultOK, Seqs, F!SetOf, Elems
  <2> QED BY <2>1, <2>2 DEF Call
<1>5. Forth /\ refusedWhole' \subseteq Past'
  BY <1>1, <1>2, <1>4 DEF Forth, Past
<1>6. CallInv'
  BY <1>1, <1>4, <1>5 DEF CallInv
<1>7. PollInv' /\ Waiting \subseteq Waiting'
  BY <1>1, <1>5, LogSame, PollKept DEF WayInv
<1>8. next' \in Int /\ next..(next' - 1) = {}
  BY <1>1 DEF WayInv, TowerOK
<1>9. Somewhere'
  BY <1>2, <1>5, <1>7, <1>8, StillSomewhere DEF WayInv
<1> QED BY <1>2, <1>4, <1>6, <1>7, <1>9 DEF WayInv

LEMMA WayTransport ==
    ASSUME WayInv, Transport PROVE WayInv'
  BY WayKafka, WayCallEnds, WayCall DEF Transport

\* What a poll returns are the records of the logs from the consumer's places on.
Fetched(upto, p) == SubSeq(log[p], pos[p] + 1, upto[p])
Polled(upto, ps) == FlattenSeq([n \in 1..Len(ps) |-> Fetched(upto, ps[n])])

LEMMA OffsetsNat == Offsets \subseteq [Partitions -> Nat]
<1> DEFINE m == Max({Len(log[p]) : p \in Partitions})
<1> HIDE DEF m
<1>1. 0..m \subseteq Nat
  OBVIOUS
<1>2. [Partitions -> 0..m] \subseteq [Partitions -> Nat]
  BY <1>1
<1> QED BY <1>2 DEF Offsets, m

LEMMA PolledAre ==
    ASSUME WayInv, NEW upto \in Upto, NEW ps \in SetToSeqs(Partitions)
    PROVE  /\ upto \in [Partitions -> Nat] /\ IsSeq(Polled(upto, ps))
           /\ \A p \in Partitions : pos[p] <= upto[p] /\ upto[p] <= Len(log[p])
           /\ \A p \in Partitions : \A n \in (pos[p] + 1)..upto[p] :
                  log[p][n] \in Elems(Polled(upto, ps))
<1>1. /\ upto \in [Partitions -> Nat]
      /\ \A p \in Partitions : pos[p] <= upto[p] /\ upto[p] <= Len(log[p])
  <2>1. upto \in Offsets /\ Within(pos, upto) /\ Within(upto, End)
    BY DEF Upto
  <2> QED BY <2>1, OffsetsNat DEF Within, End
<1>2. MaxItems \in Nat
  BY DeliveryAssumption DEF F!ForwarderAssumption
<1> DEFINE N == Cardinality(Partitions)
<1>3. /\ ps \in [1..N -> Partitions] /\ N \in Nat
      /\ \A p \in Partitions : \E n \in 1..N : ps[n] = p
  <2>1. IsFiniteSet(Partitions)
    BY <1>2, PartitionsFinite
  <2> QED BY <2>1, Enumerates
<1>4. \A p \in Partitions :
        /\ IsSeq(Fetched(upto, p))
        /\ Elems(Fetched(upto, p)) = {log[p][n] : n \in (pos[p] + 1)..upto[p]}
  BY <1>1, ElemsSubSeq DEF Fetched, WayInv, PollInv, Seqs
<1> HIDE DEF N
<1>5. Len(ps) = N
  <2>1. ps \in Seq(Partitions)
    BY <1>3, SeqDef
  <2>2. DOMAIN ps = 1..Len(ps) /\ Len(ps) \in Nat
    BY <2>1, LenProperties
  <2> QED BY <1>3, <2>2
<1> DEFINE ss == [n \in 1..N |-> Fetched(upto, ps[n])]
<1>6. \A n \in 1..N : IsSeq(ss[n])
  BY <1>3, <1>4
<1>7. Len(ss) = N /\ (N = 0 => ss = <<>>)
  <2>1. ss \in Seq({Fetched(upto, ps[n]) : n \in 1..N})
    <3> DEFINE R == {Fetched(upto, ps[n]) : n \in 1..N}
    <3>1. ss \in [1..N -> R]
      OBVIOUS
    <3> HIDE DEF R, ss
    <3>2. ss \in Seq(R)
      BY <1>3, <3>1, SeqDef
    <3> QED BY <3>2 DEF R
  <2>2. DOMAIN ss = 1..N
    OBVIOUS
  <2> DEFINE R == {Fetched(upto, ps[n]) : n \in 1..N}
  <2>3. ss \in Seq(R)
    BY <2>1
  <2> HIDE DEF ss, R
  <2>4. DOMAIN ss = 1..Len(ss) /\ Len(ss) \in Nat
    BY <2>3, LenProperties
  <2>5. Len(ss) = N
    BY <1>3, <2>2, <2>4
  <2> QED BY <2>3, <2>5, EmptySeq
<1>8. Polled(upto, ps) = FlattenSeq(ss)
  BY <1>5 DEF Polled
<1> HIDE DEF ss
<1>9. /\ IsSeq(Polled(upto, ps))
      /\ Elems(Polled(upto, ps)) = UNION {Elems(ss[n]) : n \in 1..N}
  BY <1>3, <1>6, <1>7, <1>8, ElemsFlatten
<1>10. ASSUME NEW p \in Partitions, NEW n \in (pos[p] + 1)..upto[p]
       PROVE  log[p][n] \in Elems(Polled(upto, ps))
  <2>1. PICK m \in 1..N : ps[m] = p
    BY <1>3
  <2>2. ss[m] = Fetched(upto, p)
    BY <2>1 DEF ss
  <2>3. log[p][n] \in Elems(ss[m])
    BY <1>4, <2>2
  <2> QED BY <1>9, <2>3
<1> QED BY <1>1, <1>9, <1>10

LEMMA WayPoll ==
    ASSUME WayInv, Poll PROVE WayInv'
<1>1. PICK upto \in Upto, ps \in SetToSeqs(Partitions) :
        /\ todo' = [todo EXCEPT ![Consumer] = Polled(upto, ps)]
        /\ pos' = upto /\ ready' = pos
  BY DEF Poll, Polled, Fetched
<1>2. /\ todo[Consumer] = <<>> /\ Consumer \in Callers
      /\ UNCHANGED <<transport, ch, buf, loop, batch, dlq, next, dropped, discarded,
                     evicted, log, call, skipped, refusedWhole, forgotten, buffer, wk,
                     taken, docs, overwritten, refused, rejected, exhausted>>
  BY DEF Poll, Handled, tower, history, Callers
<1>3. /\ TowerPast' = TowerPast /\ InTower' = InTower /\ TowerOK'
      /\ VaultPast' = VaultPast
  <2>1. Pending' = Pending /\ Indexed' = Indexed
    BY <1>2 DEF Pending, Indexed
  <2> QED BY <1>2, <2>1 DEF TowerPast, F!Dead, InTower, TowerOK, WayInv, VaultPast
<1> DEFINE records == Polled(upto, ps)
<1>4. /\ upto \in [Partitions -> Nat] /\ IsSeq(records)
      /\ \A p \in Partitions : pos[p] <= upto[p] /\ upto[p] <= Len(log[p])
      /\ \A p \in Partitions : \A n \in (pos[p] + 1)..upto[p] :
             log[p][n] \in Elems(records)
  BY PolledAre
<1> HIDE DEF records
<1>5. /\ Seqs(todo', Callers) /\ todo'[Consumer] = records
      /\ \A c \in Callers : c # Consumer => todo'[c] = todo[c]
  BY <1>1, <1>2, <1>4 DEF WayInv, VaultOK, Seqs, records
<1>6. VaultOK'
  BY <1>2, <1>5 DEF WayInv, VaultOK, Seqs
<1>7. Past' = Past
  BY <1>2, <1>3 DEF Past
<1>8. Forth
  BY <1>2, <1>5, <1>7, ElemsEmpty DEF Forth
<1>9. CallInv'
  BY <1>2, <1>8, CallKept DEF WayInv
<1>10. ASSUME NEW p \in Partitions
       PROVE  /\ ready'[p] <= pos'[p] /\ pos'[p] <= Len(log[p])
              /\ \A n \in 1..ready'[p] : log[p][n] \in Past'
              /\ \A n \in 1..pos'[p] : log[p][n] \in Elems(todo'[Consumer]) \cup Past'
  <2>1. \A n \in 1..pos[p] : log[p][n] \in Past
    BY <1>2, ElemsEmpty DEF WayInv, PollInv
  <2>2. \A n \in 1..upto[p] : n \in 1..pos[p] \/ n \in (pos[p] + 1)..upto[p]
    <3>1. pos[p] \in Nat /\ upto[p] \in Nat
      BY <1>4 DEF WayInv, PollInv
    <3> QED BY <3>1
  <2>3. \A n \in 1..upto[p] : log[p][n] \in Elems(records) \cup Past
    BY <1>4, <2>1, <2>2
  <2> QED BY <1>1, <1>4, <1>5, <1>7, <2>1, <2>3
<1>11. PollInv'
  BY <1>1, <1>2, <1>4, <1>10 DEF WayInv, PollInv
<1>12. Waiting \subseteq Waiting' \cup ToDo'
  <2> SUFFICES ASSUME NEW p \in Partitions, NEW n \in (pos[p] + 1)..Len(log[p])
               PROVE  log[p][n] \in Waiting' \cup ToDo'
    BY DEF Waiting
  <2>1. n \in (pos[p] + 1)..upto[p] \/ n \in (upto[p] + 1)..Len(log[p])
    <3>1. pos[p] \in Nat /\ upto[p] \in Nat /\ Len(log[p]) \in Nat
      BY <1>4, LogSame DEF WayInv, PollInv, Seqs, IsSeq
    <3> QED BY <3>1
  <2>2. CASE n \in (pos[p] + 1)..upto[p]
    BY <2>2, <1>2, <1>4, <1>5 DEF ToDo
  <2>3. CASE n \in (upto[p] + 1)..Len(log[p])
    BY <2>3, <1>1, <1>2 DEF Waiting
  <2> QED BY <2>1, <2>2, <2>3
<1>13. next' \in Int /\ next..(next' - 1) = {}
  BY <1>2 DEF WayInv, TowerOK
<1>14. Somewhere'
  BY <1>3, <1>8, <1>12, <1>13, StillSomewhere DEF WayInv
<1> QED BY <1>3, <1>6, <1>9, <1>11, <1>14 DEF WayInv

\* The manager exits: what it held is forgotten.
LEMMA WayTowerExits ==
    ASSUME WayInv, TowerExits PROVE WayInv'
<1>1. /\ ch' = F!Nothing /\ buf' = F!Nothing /\ loop' = "select"
      /\ batch' = F!Nothing /\ dlq' = <<>> /\ call' = "none"
      /\ forgotten' = UNION {forgotten, F!Held, F!Dead}
      /\ UNCHANGED <<next, dropped, discarded, evicted, skipped, refusedWhole, log,
                     pos, ready, vault>>
  BY DEF TowerExits, F!Exit, kafka
<1>2. VaultOK' /\ VaultForth
  BY <1>1, VaultSame DEF WayInv
<1>3. InTower' = {} /\ InTower \subseteq Past' /\ F!Dead \subseteq forgotten'
  BY <1>1, NothingSeqs, HeldIs DEF InTower, Past
<1>4. TowerOK'
  BY <1>1, <1>3, NothingSeqs, ElemsEmpty, KindsAre DEF TowerOK, WayInv
<1>5. Past \subseteq Past'
  BY <1>1, <1>2, <1>3 DEF Past, TowerPast, VaultForth
<1>6. Forth
  BY <1>2, <1>5 DEF Forth, VaultForth, Past
<1>7. CallInv'
  BY <1>1, DeliveryAssumption DEF CallInv
<1>8. PollInv' /\ Waiting \subseteq Waiting'
  BY <1>1, <1>6, LogSame, PollKept DEF WayInv
<1>9. next' \in Int /\ next..(next' - 1) = {}
  BY <1>1 DEF WayInv, TowerOK
<1>10. Somewhere'
  BY <1>3, <1>6, <1>8, <1>9, StillSomewhere DEF WayInv
<1> QED BY <1>2, <1>4, <1>7, <1>8, <1>10 DEF WayInv

\* The indexer exits, and the consumer goes back to what was committed.
LEMMA WayVaultExits ==
    ASSUME WayInv, VaultExits PROVE WayInv'
<1>1. /\ buffer' = <<>> /\ todo' = [c \in Callers |-> <<>>]
      /\ wk' = [w \in P!Workers |-> "idle"] /\ taken' = [w \in P!Workers |-> <<>>]
      /\ forgotten' = forgotten \cup (Pending \cup ToDo)
      /\ UNCHANGED <<transport, ch, buf, loop, batch, dlq, next, dropped, discarded,
                     evicted, log, skipped, refusedWhole, docs, overwritten, refused,
                     rejected, exhausted>>
  <2>1. P!Exit /\ forgotten' = forgotten \cup P!Held
        /\ UNCHANGED <<tower, log, skipped, refusedWhole>>
    BY DEF VaultExits
  <2>2. forgotten' = forgotten \cup (Pending \cup ToDo)
    BY <2>1, PendingIs
  <2> QED BY <2>1, <2>2 DEF P!Exit, P!indexed, P!failures, tower, Callers
<1>2. /\ pos' \in [Partitions -> Nat] /\ ready' = pos'
      /\ \A p \in Partitions : pos'[p] <= ready[p]
      /\ call' = IF call \in Handlers THEN "broken" ELSE call
  BY OffsetsNat DEF VaultExits, Within
<1>3. /\ TowerPast' = TowerPast /\ InTower' = InTower /\ TowerOK' /\ Indexed' = Indexed
  BY <1>1 DEF TowerPast, F!Dead, InTower, TowerOK, WayInv, Indexed
<1>4. VaultOK'
  BY <1>1, ElemsEmpty DEF VaultOK, Seqs
<1>5. Past \subseteq Past' /\ ToDo \subseteq Past'
  BY <1>1, <1>3 DEF Past, VaultPast
<1>6. Forth
  BY <1>5 DEF Forth, ToDo
<1>7. CallInv'
  BY <1>1, <1>2, DeliveryAssumption DEF CallInv, WayInv
<1>8. ASSUME NEW p \in Partitions
      PROVE  /\ pos'[p] <= pos[p] /\ pos'[p] <= Len(log[p])
             /\ \A n \in 1..pos'[p] : log[p][n] \in Past'
  <2>1. /\ pos'[p] \in Nat /\ ready[p] \in Nat /\ pos[p] \in Nat /\ Len(log[p]) \in Nat
        /\ pos'[p] <= ready[p] /\ ready[p] <= pos[p] /\ pos[p] <= Len(log[p])
    BY <1>2, LenProperties DEF WayInv, PollInv, Seqs, IsSeq
  <2>2. \A n \in 1..pos'[p] : n \in 1..ready[p]
    BY <2>1
  <2> QED BY <1>5, <2>1, <2>2 DEF WayInv, PollInv
<1>9. PollInv'
  BY <1>1, <1>2, <1>8 DEF PollInv, WayInv
<1>10. Waiting \subseteq Waiting'
  <2>1. ASSUME NEW p \in Partitions, NEW n \in (pos[p] + 1)..Len(log[p])
        PROVE  n \in (pos'[p] + 1)..Len(log[p])
    <3>1. pos'[p] \in Nat /\ pos[p] \in Nat /\ pos'[p] <= pos[p]
      BY <1>2, <1>8 DEF WayInv, PollInv
    <3> QED BY <3>1
  <2> QED BY <1>1, <2>1 DEF Waiting
<1>11. next' \in Int /\ next..(next' - 1) = {}
  BY <1>1 DEF WayInv, TowerOK
<1>12. Somewhere'
  BY <1>3, <1>6, <1>10, <1>11, StillSomewhere DEF WayInv
<1> QED BY <1>3, <1>4, <1>7, <1>9, <1>12 DEF WayInv

LEMMA WayInitially == ASSUME Init PROVE WayInv
<1>1. /\ ch = F!Nothing /\ buf = F!Nothing /\ loop = "select" /\ batch = F!Nothing
      /\ dlq = <<>> /\ next = 1 /\ MaxItems \in Nat
  BY DeliveryAssumption DEF Init, F!Init, F!ForwarderAssumption
<1>2. InTower = {}
  BY <1>1, NothingSeqs DEF InTower
<1>3. TowerOK
  BY <1>1, <1>2, NothingSeqs, ElemsEmpty, KindsAre DEF TowerOK
<1>4. VaultOK
  BY ElemsEmpty DEF Init, P!Init, VaultOK, Seqs, Callers
<1>5. CallInv
  BY DeliveryAssumption DEF Init, CallInv
<1>6. PollInv
  <2>1. /\ log = [p \in Partitions |-> <<>>] /\ pos = [p \in Partitions |-> 0]
        /\ ready = pos
    BY DEF Init
  <2>2. Seqs(log, Partitions) /\ pos \in [Partitions -> Nat]
    BY <2>1, ElemsEmpty DEF Seqs
  <2>3. \A p \in Partitions : log[p] = <<>> /\ Len(log[p]) = 0 /\ pos[p] = 0
    BY <2>1
  <2> QED BY <2>1, <2>2, <2>3 DEF PollInv
<1>7. Somewhere
  BY <1>1 DEF Somewhere
<1> QED BY <1>3, <1>4, <1>5, <1>6, <1>7 DEF WayInv

LEMMA TowerSame ==
    ASSUME TowerOK, UNCHANGED <<ch, buf, loop, batch, dlq, next, dropped, discarded,
                                evicted>>
    PROVE  TowerForth
<1>1. InTower' = InTower /\ TowerPast' = TowerPast
  BY DEF InTower, TowerPast, F!Dead
<1>2. TowerOK' /\ next <= next' /\ next..(next' - 1) = {}
  BY <1>1 DEF TowerOK
<1> QED BY <1>1, <1>2 DEF TowerForth

LEMMA WayStep == ASSUME WayInv, [Next]_vars PROVE WayInv'
<1>1. CASE TowerRuns
  <2>1. UNCHANGED <<vault, kafka, call, history>>
    BY <1>1 DEF TowerRuns
  <2>2. call # "none" => loop \in Kinds
    BY DEF WayInv, CallInv
  <2>3. CASE F!Forward
    <3>1. UNCHANGED <<loop, batch, transport>>
      BY <2>3 DEF F!Forward, F!sending
    <3> QED BY <2>1, <2>3, <3>1, TowerForward, WayTower DEF WayInv
  <2>4. ASSUME NEW k \in Kinds, F!Receive(k) PROVE WayInv'
    <3>1. call = "none"
      BY <2>2, <2>4, KindsAre DEF F!Receive
    <3> QED BY <2>1, <2>4, <3>1, TowerReceive, WayTower DEF WayInv
  <2>5. CASE F!Tick \/ F!LastFlush
    <3>1. loop = "select" /\ UNCHANGED <<ch, dlq, next, evicted, dropped>>
      BY <2>5 DEF F!Tick, F!LastFlush
    <3>2. PICK last \in BOOLEAN : F!Flush(buf, last)
      BY <2>5 DEF F!Tick, F!LastFlush
    <3>3. call = "none"
      BY <2>2, <3>1, KindsAre
    <3>4. TowerForth
      BY <3>1, <3>2, TowerFlush DEF WayInv, TowerOK
    <3> QED BY <2>1, <3>3, <3>4, WayTower
  <2>6. CASE F!Stop
    <3>1. UNCHANGED <<transport, ch, buf, loop, batch, dlq, next, dropped, discarded,
                      evicted>>
      BY <2>6 DEF F!Stop, F!sending
    <3>2. TowerForth
      BY <3>1, TowerSame DEF WayInv
    <3> QED BY <2>1, <3>1, <3>2, WayTower
  <2> QED BY <1>1, <2>3, <2>4, <2>5, <2>6 DEF TowerRuns
<1>2. CASE TowerStops
  <2>1. /\ UNCHANGED <<transport, ch, buf, loop, batch, dlq, next, dropped, discarded,
                       evicted>>
        /\ UNCHANGED <<vault, kafka, call, history>>
    BY <1>2 DEF TowerStops, F!Cancel, F!sending
  <2>2. TowerForth
    BY <2>1, TowerSame DEF WayInv
  <2> QED BY <2>1, <2>2, WayTower
<1>3. CASE VaultRuns
  <2>1. /\ UNCHANGED <<tower, kafka, call>> /\ skipped \subseteq skipped'
        /\ refusedWhole' = refusedWhole /\ forgotten' = forgotten
    BY <1>3 DEF VaultRuns, Handles, Skips, history
  <2>2. VaultOK' /\ VaultForth
    BY <1>3, VaultProcess, VaultSkips, VaultTick, VaultTake
       DEF VaultRuns, Handles, WayInv, Callers
  <2> QED BY <2>1, <2>2, WayVault
<1>4. ASSUME NEW w \in P!Workers, VaultBulk(w) PROVE WayInv'
  <2>1. /\ UNCHANGED <<tower, kafka, call, skipped>>
        /\ refusedWhole' = refusedWhole /\ forgotten' = forgotten
    BY <1>4 DEF VaultBulk, history
  <2>2. VaultOK' /\ VaultForth
    BY <1>4, VaultBulkEnds DEF VaultBulk, WayInv
  <2> QED BY <2>1, <2>2, WayVault
<1>5. CASE Midnight
  <2>1. /\ UNCHANGED <<tower, kafka, call, skipped>>
        /\ refusedWhole' = refusedWhole /\ forgotten' = forgotten
    BY <1>5 DEF Midnight, history
  <2>2. UNCHANGED <<buffer, todo, wk, taken, docs, overwritten, refused, rejected,
                    exhausted>>
    BY <1>5 DEF Midnight, P!Midnight, P!flushing, P!indexed, P!failures
  <2>3. Pending' = Pending /\ Indexed' = Indexed
    BY <2>2 DEF Pending, Indexed
  <2>4. VaultOK' /\ VaultForth
    BY <2>2, <2>3, VaultForthSame DEF VaultPast, WayInv, VaultOK, Seqs
  <2> QED BY <2>1, <2>4, WayVault
<1>6. CASE UNCHANGED vars
  <2>1. /\ UNCHANGED <<vault, tower, kafka, call, skipped>>
        /\ refusedWhole' = refusedWhole /\ forgotten' = forgotten
    BY <1>6 DEF vars, history
  <2>2. VaultOK' /\ VaultForth
    BY <2>1, VaultSame DEF WayInv
  <2> QED BY <2>1, <2>2, WayVault
<1> QED BY <1>1, <1>2, <1>3, <1>4, <1>5, <1>6, WayTransport, WayPoll,
           WayTowerExits, WayVaultExits DEF Next

LEMMA PastIs == Past = UNION {Indexed, P!Pending, Lost}
<1>1. Pending = P!Pending
  BY PendingIs
<1> QED BY <1>1 DEF Past, VaultPast, TowerPast, Lost

\* An item the engine forwarded is held by a process, waits in Kafka, is in the
\* index or ended in one of the ways that Lost names, whatever fails and whoever
\* exits; and what the consumer may commit has been processed.
THEOREM NothingUnaccounted == Spec => []Accounted
<1>1. Init => WayInv
  BY WayInitially
<1>2. WayInv /\ [Next]_vars => WayInv'
  BY WayStep
<1>3. WayInv => Accounted
  <2> SUFFICES ASSUME WayInv PROVE Accounted
    OBVIOUS
  <2>1. UNION {InTower, ToDo, Waiting, Past}
          \subseteq UNION {F!Held, P!Held, Waiting, Indexed, Lost}
    BY PastIs, PendingIs, HeldIs
  <2>2. 1..(next - 1) \subseteq UNION {F!Held, P!Held, Waiting, Indexed, Lost}
    BY <2>1 DEF WayInv, Somewhere
  <2>3. ASSUME NEW p \in Partitions, NEW n \in 1..MaxItems, n <= ready[p]
        PROVE  log[p][n] \in UNION {Indexed, P!Pending, Lost}
    <3>1. ready[p] \in Nat /\ n \in 1..ready[p]
      BY <2>3 DEF WayInv, PollInv
    <3>2. log[p][n] \in Past
      BY <3>1 DEF WayInv, PollInv
    <3> QED BY <3>2, PastIs
  <2> QED BY <2>2, <2>3 DEF Accounted
<1> QED BY <1>1, <1>2, <1>3, PTL DEF Spec

-----------------------------------------------------------------------------
(***************************************************************************)
(* InOrderPerAgent. What the forwarder holds of a kind is in order: the    *)
(* batch before the buffer, the buffer before the channel. A log may       *)
(* repeat records, but shows each for the first time in order, and what    *)
(* the forwarder still holds is in the log already, from an attempt that   *)
(* failed, or comes after all of it. What the consumer has seen of a log   *)
(* is what the log begins with.                                            *)
(***************************************************************************)

Increasing(s) == \A m, n \in 1..Len(s) : m < n => s[m] < s[n]
Before(s, t)  == \A x \in Elems(s), y \in Elems(t) : x < y

\* The channel c, the buffer f and the batch b of kind k.
Lined(k, c, f, b) ==
    /\ Increasing(c) /\ Increasing(f) /\ Increasing(b)
    /\ Before(b, f) /\ Before(b, c) /\ Before(f, c)
    /\ \A x \in UNION {Elems(c), Elems(f), Elems(b)} : KindOf[x] = k

TowerOrder == \A k \in Kinds : Lined(k, ch[k], buf[k], batch[k])

\* A record is preceded by all that are less than it.
FirstInOrder(s) ==
    \A m, n \in 1..Len(s) : s[m] < s[n] => \E l \in 1..(n - 1) : s[l] = s[m]

\* A record of the log p: it can be encoded, and has its key.
Bound(y, p) == "encode" \notin flaw[y] /\ PartitionOf(y) = p

LogOrder ==
    \A p \in Partitions :
        /\ \A x \in Elems(log[p]) :
             /\ x \in 1..(next - 1) /\ PartitionOf(x) = p
             /\ \A y \in InTower : Bound(y, p) => y \in Elems(log[p]) \/ x < y
        /\ FirstInOrder(log[p])

\* The beginnings of the logs, up to h.
Begin(h) == UNION {{log[p][n] : n \in 1..h[p]} : p \in Partitions}

SeenInv ==
    /\ late = {}
    /\ \E h \in [Partitions -> Nat] :
         /\ \A p \in Partitions : pos[p] <= h[p] /\ h[p] <= Len(log[p])
         /\ seen = Begin(h)

OrderInv == WayInv /\ TowerOrder /\ LogOrder /\ SeenInv

-----------------------------------------------------------------------------
(* Sequences in order                                                      *)

LEMMA IncreasingEmpty ==
    Increasing(<<>>) /\ \A s : Before(<<>>, s) /\ Before(s, <<>>)
  BY ElemsEmpty DEF Increasing, Before

LEMMA IncreasingAppend ==
    ASSUME NEW s, IsSeq(s), Increasing(s), NEW y, \A x \in Elems(s) : x < y
    PROVE  Increasing(Append(s, y))
<1>1. /\ Len(s) \in Nat /\ Len(Append(s, y)) = Len(s) + 1
      /\ \A i \in 1..Len(s) : Append(s, y)[i] = s[i]
      /\ Append(s, y)[Len(s) + 1] = y
  <2>1. s \in Seq(Elems(s) \cup {y}) /\ y \in Elems(s) \cup {y}
    BY SeqMonotonic DEF IsSeq
  <2> QED BY <2>1, AppendProperties, LenProperties
<1>2. ASSUME NEW m \in 1..(Len(s) + 1), NEW n \in 1..(Len(s) + 1), m < n
      PROVE  Append(s, y)[m] < Append(s, y)[n]
  <2>1. m \in 1..Len(s)
    BY <1>1, <1>2
  <2>2. CASE n \in 1..Len(s)
    BY <1>1, <1>2, <2>1, <2>2 DEF Increasing
  <2>3. CASE n = Len(s) + 1
    <3>1. s[m] < y
      BY <2>1 DEF Elems
    <3> QED BY <1>1, <2>1, <2>3, <3>1
  <2> QED BY <1>1, <2>2, <2>3
<1> QED BY <1>1, <1>2 DEF Increasing

LEMMA IncreasingTail ==
    ASSUME NEW s, IsSeq(s), s # <<>>, Increasing(s)
    PROVE  Increasing(Tail(s)) /\ \A x \in Elems(Tail(s)) : Head(s) < x
<1>1. /\ Len(s) \in Nat \ {0} /\ Len(Tail(s)) = Len(s) - 1 /\ Head(s) = s[1]
      /\ \A i \in 1..Len(Tail(s)) : Tail(s)[i] = s[i + 1]
  BY HeadTailProperties, EmptySeq DEF IsSeq
<1>2. ASSUME NEW m \in 1..Len(Tail(s)), NEW n \in 1..Len(Tail(s)), m < n
      PROVE  Tail(s)[m] < Tail(s)[n]
  <2>1. m + 1 \in 1..Len(s) /\ n + 1 \in 1..Len(s) /\ m + 1 < n + 1
    BY <1>1, <1>2
  <2>2. s[m + 1] < s[n + 1]
    BY <2>1 DEF Increasing
  <2> QED BY <1>1, <2>2
<1>3. ASSUME NEW n \in 1..Len(Tail(s)) PROVE Head(s) < Tail(s)[n]
  <2>1. 1 \in 1..Len(s) /\ n + 1 \in 1..Len(s) /\ 1 < n + 1
    BY <1>1
  <2>2. s[1] < s[n + 1]
    BY <2>1 DEF Increasing
  <2> QED BY <1>1, <2>2
<1> QED BY <1>2, <1>3 DEF Increasing, Elems

\* What is selected from a batch in order is in order.
LEMMA IncreasingSelected ==
    ASSUME NEW b, NEW n \in Nat, n = Len(b), Increasing(b), NEW S \in SUBSET (1..n)
    PROVE  Increasing(Selected(b, S))
<1> DEFINE t == Selected(b, S)
<1>1. /\ Len(t) = Cardinality(S) /\ \A k \in S : t[Rank(S, k)] = b[k]
  BY SelectedProperties
<1>2. /\ \A k \in S : Rank(S, k) \in 1..Cardinality(S)
      /\ \A j, k \in S : j < k => Rank(S, j) < Rank(S, k)
      /\ \A m \in 1..Cardinality(S) : \E k \in S : Rank(S, k) = m
  BY RankNumbers
<1> HIDE DEF t
<1>3. ASSUME NEW i \in 1..Len(t), NEW j \in 1..Len(t), i < j PROVE t[i] < t[j]
  <2>1. PICK k \in S : Rank(S, k) = i
    BY <1>1, <1>2
  <2>2. PICK l \in S : Rank(S, l) = j
    BY <1>1, <1>2
  <2>3. k \in 1..n /\ l \in 1..n
    OBVIOUS
  <2>4. i \in Int /\ j \in Int
    OBVIOUS
  <2>5. k < l
    <3>1. l < k => j < i
      BY <1>2, <2>1, <2>2
    <3>2. l # k
      BY <1>3, <2>1, <2>2, <2>4
    <3> QED BY <1>3, <2>3, <2>4, <3>1, <3>2
  <2>6. b[k] < b[l]
    BY <2>3, <2>5 DEF Increasing
  <2> QED BY <1>1, <2>1, <2>2, <2>6
<1> QED BY <1>3 DEF Increasing, t

\* A log that grows by records that come in order, and after what it has unless
\* it has them, shows each record for the first time in order.
LEMMA FirstInOrderGrows ==
    ASSUME NEW s, IsSeq(s), NEW t, IsSeq(t), FirstInOrder(s), Increasing(t),
           Elems(s) \subseteq Int, Elems(t) \subseteq Int,
           \A y \in Elems(t), x \in Elems(s) : y \in Elems(s) \/ x < y
    PROVE  FirstInOrder(s \o t)
<1> DEFINE u == s \o t
<1>1. /\ Len(s) \in Nat /\ Len(t) \in Nat /\ Len(u) = Len(s) + Len(t)
      /\ \A i \in 1..Len(s) : u[i] = s[i]
      /\ \A i \in 1..Len(t) : u[Len(s) + i] = t[i]
  BY ElemsConcat
<1> HIDE DEF u
<1>2. ASSUME NEW i \in (Len(s) + 1)..Len(u)
      PROVE  i - Len(s) \in 1..Len(t) /\ u[i] = t[i - Len(s)]
  <2>1. i - Len(s) \in 1..Len(t) /\ Len(s) + (i - Len(s)) = i
    BY <1>1
  <2> QED BY <1>1, <2>1
<1>3. ASSUME NEW m \in 1..Len(u), NEW n \in 1..Len(u), u[m] < u[n]
      PROVE  \E l \in 1..(n - 1) : u[l] = u[m]
  <2>0. m \in Int /\ n \in Int /\ Len(s) \in Int /\ Len(u) \in Int
    BY <1>1
  <2>1. CASE m < n
    <3>1. m \in 1..(n - 1)
      BY <2>0, <2>1
    <3> QED BY <3>1
  <2>2. CASE n < m
    <3>1. CASE m \in 1..Len(s)
      <4>1. n \in 1..Len(s)
        BY <2>2, <3>1
      <4>2. PICK l \in 1..(n - 1) : s[l] = s[m]
        BY <1>1, <1>3, <3>1, <4>1 DEF FirstInOrder
      <4>3. l \in 1..Len(s)
        BY <1>1, <4>1
      <4> QED BY <1>1, <3>1, <4>2, <4>3
    <3>2. CASE m \notin 1..Len(s) /\ n \in 1..Len(s)
      <4>1. m \in (Len(s) + 1)..Len(u)
        BY <2>0, <3>2
      <4>2. u[m] \in Elems(t) /\ u[n] \in Elems(s) /\ u[n] = s[n]
        BY <1>1, <1>2, <3>2, <4>1 DEF Elems
      <4>3. u[m] \in Elems(s)
        <5>1. u[m] \in Int /\ u[n] \in Int
          BY <4>2
        <5>2. u[m] \in Elems(s) \/ u[n] < u[m]
          BY <4>2
        <5> QED BY <1>3, <5>1, <5>2
      <4>4. PICK i \in 1..Len(s) : s[i] = u[m]
        BY <4>3 DEF Elems
      <4>5. PICK l \in 1..(n - 1) : s[l] = u[m]
        BY <1>3, <3>2, <4>2, <4>4 DEF FirstInOrder
      <4>6. l \in 1..Len(s)
        BY <1>1, <3>2
      <4> QED BY <1>1, <4>5, <4>6
    <3>3. CASE m \notin 1..Len(s) /\ n \notin 1..Len(s)
      <4>1. m \in (Len(s) + 1)..Len(u) /\ n \in (Len(s) + 1)..Len(u)
        BY <2>0, <3>3
      <4>2. /\ m - Len(s) \in 1..Len(t) /\ u[m] = t[m - Len(s)]
            /\ n - Len(s) \in 1..Len(t) /\ u[n] = t[n - Len(s)]
        BY <1>2, <4>1
      <4>3. n - Len(s) < m - Len(s)
        BY <2>0, <2>2
      <4>4. u[n] < u[m]
        BY <4>2, <4>3 DEF Increasing
      <4>5. u[n] \in Int /\ u[m] \in Int
        BY <4>2 DEF Elems
      <4> QED BY <1>3, <4>4, <4>5
    <3> QED BY <3>1, <3>2, <3>3
  <2>3. m # n
    <3>1. u[m] \in Int
      <4>1. CASE m \in 1..Len(s)
        BY <1>1, <4>1 DEF Elems
      <4>2. CASE m \notin 1..Len(s)
        <5>1. m \in (Len(s) + 1)..Len(u)
          BY <2>0, <4>2
        <5> QED BY <1>2, <5>1 DEF Elems
      <4> QED BY <4>1, <4>2
    <3> QED BY <1>3, <3>1
  <2> QED BY <2>0, <2>1, <2>2, <2>3
<1> QED BY <1>3 DEF FirstInOrder, u

\* The records of u are those of the first n sequences of ss, and each is preceded
\* by those before it in its sequence.
InTurn(u, ss, n) ==
    \A m \in 1..Len(u) : \E i \in 1..n, t \in Nat :
        /\ t \in 1..Len(ss[i]) /\ u[m] = ss[i][t]
        /\ \A r \in 1..(t - 1) : \E l \in 1..(m - 1) : u[l] = ss[i][r]

LEMMA FlattenOrder ==
    ASSUME NEW n \in Nat, NEW ss, Len(ss) = n, n = 0 => ss = <<>>,
           \A i \in 1..n : IsSeq(ss[i])
    PROVE  InTurn(FlattenSeq(ss), ss, n)
<1>1. CASE n = 0
  <2>1. FlattenSeq(ss) = <<>>
    BY <1>1 DEF FlattenSeq
  <2> QED BY <2>1 DEF InTurn
<1>2. CASE n # 0
  <2> DEFINE flatten[i \in 1..Len(ss)] ==
                 IF i = 1 THEN ss[i] ELSE flatten[i - 1] \o ss[i]
  <2>1. FlattenSeq(ss) = flatten[Len(ss)]
    BY <1>2 DEF FlattenSeq
  <2>2. flatten = [i \in 1..n |-> IF i = 1 THEN ss[i] ELSE flatten[i - 1] \o ss[i]]
    BY FlattenDefined
  <2> HIDE DEF flatten
  <2> DEFINE Bad == {i \in 1..n : ~(IsSeq(flatten[i]) /\ InTurn(flatten[i], ss, i))}
  <2>3. ASSUME Bad # {} PROVE FALSE
    <3>1. PICK k \in Bad : \A i \in Bad : k <= i
      <4>1. Bad \subseteq Nat
        OBVIOUS
      <4> HIDE DEF Bad
      <4> QED BY <2>3, <4>1, LeastNat
    <3>2. k \in 1..n /\ IsSeq(ss[k]) /\ k \in Nat
      OBVIOUS
    <3>3. CASE k = 1
      <4>1. flatten[k] = ss[k]
        BY <2>2, <3>2, <3>3
      <4>2. ASSUME NEW m \in 1..Len(ss[k])
            PROVE  \E j \in 1..k, t \in Nat :
                     /\ t \in 1..Len(ss[j]) /\ ss[k][m] = ss[j][t]
                     /\ \A r \in 1..(t - 1) : \E l \in 1..(m - 1) : ss[k][l] = ss[j][r]
        <5>1. k \in 1..k /\ m \in Nat
          BY <3>2
        <5> QED BY <5>1
      <4>3. InTurn(ss[k], ss, k)
        BY <4>2 DEF InTurn
      <4> QED BY <3>1, <3>2, <4>1, <4>3
    <3>4. CASE k # 1
      <4> DEFINE f == flatten[k - 1]
                 u == f \o ss[k]
      <4>1. k - 1 \in 1..n /\ k - 1 \notin Bad
        BY <3>1, <3>2, <3>4
      <4>2. IsSeq(f) /\ InTurn(f, ss, k - 1)
        BY <4>1
      <4>3. flatten[k] = u
        BY <2>2, <3>2, <3>4
      <4> HIDE DEF f
      <4>4. /\ IsSeq(u) /\ Len(f) \in Nat /\ Len(ss[k]) \in Nat
            /\ Len(u) = Len(f) + Len(ss[k])
            /\ \A i \in 1..Len(f) : u[i] = f[i]
            /\ \A i \in 1..Len(ss[k]) : u[Len(f) + i] = ss[k][i]
        BY <3>2, <4>2, ElemsConcat
      <4> HIDE DEF u
      <4>5. ASSUME NEW m \in 1..Len(u)
            PROVE  \E j \in 1..k, t \in Nat :
                     /\ t \in 1..Len(ss[j]) /\ u[m] = ss[j][t]
                     /\ \A r \in 1..(t - 1) : \E l \in 1..(m - 1) : u[l] = ss[j][r]
        <5>1. CASE m \in 1..Len(f)
          <6>1. PICK j \in 1..(k - 1), t \in Nat :
                   /\ t \in 1..Len(ss[j]) /\ f[m] = ss[j][t]
                   /\ \A r \in 1..(t - 1) : \E l \in 1..(m - 1) : f[l] = ss[j][r]
            BY <4>2, <5>1 DEF InTurn
          <6>2. j \in 1..k
            BY <3>2
          <6>3. \A l \in 1..(m - 1) : l \in 1..Len(f)
            BY <4>4, <5>1
          <6>4. \A r \in 1..(t - 1) : \E l \in 1..(m - 1) : u[l] = ss[j][r]
            BY <4>4, <6>1, <6>3
          <6>5. u[m] = ss[j][t]
            BY <4>4, <5>1, <6>1
          <6> QED BY <6>1, <6>2, <6>4, <6>5
        <5>2. CASE m \notin 1..Len(f)
          <6> DEFINE t == m - Len(f)
          <6>1. t \in Nat /\ t \in 1..Len(ss[k]) /\ Len(f) + t = m
            BY <4>4, <5>2
          <6>2. u[m] = ss[k][t]
            BY <4>4, <6>1
          <6>3. ASSUME NEW r \in 1..(t - 1)
                PROVE  \E l \in 1..(m - 1) : u[l] = ss[k][r]
            <7>1. r \in 1..Len(ss[k]) /\ Len(f) + r \in 1..(m - 1)
              BY <4>4, <6>1
            <7> QED BY <4>4, <7>1
          <6>4. k \in 1..k
            BY <3>2
          <6> HIDE DEF t
          <6> QED BY <6>1, <6>2, <6>3, <6>4
        <5> QED BY <5>1, <5>2
      <4>6. InTurn(u, ss, k)
        BY <4>5 DEF InTurn
      <4> QED BY <3>1, <4>3, <4>4, <4>6
    <3> QED BY <3>3, <3>4
  <2>4. n \in 1..n
    BY <1>2
  <2>5. InTurn(flatten[n], ss, n)
    BY <2>3, <2>4
  <2> QED BY <2>1, <2>5
<1> QED BY <1>1, <1>2

-----------------------------------------------------------------------------
(* The forwarder's order                                                   *)

LEMMA LinedNothing ==
    ASSUME NEW k, NEW c, NEW f, NEW b, Lined(k, c, f, b)
    PROVE  /\ Lined(k, c, <<>>, f)
           /\ Lined(k, c, <<>>, <<>>) /\ Lined(k, c, f, <<>>)
           /\ Lined(k, <<>>, <<>>, <<>>)
  BY IncreasingEmpty, ElemsEmpty DEF Lined

\* What is left of a line in order, when a flush is due.
LEMMA FlushOrder ==
    ASSUME loop \notin Kinds, batch = F!Nothing, NEW b, NEW last \in BOOLEAN,
           F!Flush(b, last), \A k \in Kinds : Lined(k, ch'[k], b[k], <<>>)
    PROVE  TowerOrder'
<1>1. buf' = F!Nothing /\ (batch' = b \/ batch' = F!Nothing)
  BY DEF F!Flush
<1>2. \A k \in Kinds : /\ Lined(k, ch'[k], <<>>, b[k])
                       /\ Lined(k, ch'[k], <<>>, <<>>)
  BY LinedNothing
<1> QED BY <1>1, <1>2, NothingSeqs DEF TowerOrder

LEMMA OrderForward ==
    ASSUME TowerOK, TowerOrder, F!Forward PROVE TowerOrder'
<1> DEFINE k == KindOf[next]
<1>1. /\ next \in 1..MaxItems /\ MaxItems \in Nat /\ UNCHANGED <<buf, batch>>
  BY DeliveryAssumption DEF F!Forward, F!sending, F!ForwarderAssumption, TowerOK
<1>2. k \in Kinds
  BY <1>1, DeliveryAssumption, KindsAre DEF F!ForwarderAssumption, F!Items
<1>3. CASE ch' = ch
  BY <1>1, <1>3 DEF TowerOrder
<1>4. CASE ch' = [ch EXCEPT ![k] = Append(@, next)]
  <2>1. \A x \in InTower : x < next
    <3>1. \A x \in 1..(next - 1) : x < next
      BY <1>1
    <3> QED BY <3>1 DEF TowerOK
  <2>2. /\ IsSeq(ch[k]) /\ Lined(k, ch[k], buf[k], batch[k])
        /\ \A x \in UNION {Elems(ch[k]), Elems(buf[k]), Elems(batch[k])} : x < next
    <3> HIDE DEF k
    <3> QED BY <1>2, <2>1 DEF TowerOK, Seqs, TowerOrder, InTower
  <2>3. KindOf[next] = k
    OBVIOUS
  <2> HIDE DEF k
  <2>4. /\ Increasing(Append(ch[k], next))
        /\ Elems(Append(ch[k], next)) = Elems(ch[k]) \cup {next}
    <3>1. Increasing(ch[k]) /\ \A x \in Elems(ch[k]) : x < next
      BY <2>2 DEF Lined
    <3> QED BY <2>2, <3>1, IncreasingAppend, ElemsAppend
  <2>5. Lined(k, Append(ch[k], next), buf[k], batch[k])
    BY <2>2, <2>3, <2>4 DEF Lined, Before
  <2>6. \A j \in Kinds : ch'[j] = IF j = k THEN Append(ch[k], next) ELSE ch[j]
    BY <1>4 DEF TowerOK, Seqs
  <2> QED BY <1>1, <2>5, <2>6 DEF TowerOrder
<1> QED BY <1>3, <1>4 DEF F!Forward

LEMMA OrderReceive ==
    ASSUME TowerOK, TowerOrder, NEW k \in Kinds, F!Receive(k) PROVE TowerOrder'
<1> DEFINE i == Head(ch[k])
           fits == Len(buf[k]) < BufCap[k]
           b == IF fits THEN [buf EXCEPT ![k] = Append(@, i)] ELSE buf
<1>1. /\ loop = "select" /\ ch[k] # <<>> /\ ch' = [ch EXCEPT ![k] = Tail(@)]
  BY DEF F!Receive
<1>2. batch = F!Nothing /\ loop \notin Kinds
  BY <1>1, KindsAre DEF TowerOK
<1>3. \A j \in Kinds : batch[j] = <<>> /\ Lined(j, ch[j], buf[j], <<>>)
  BY <1>2, NothingSeqs DEF TowerOrder
<1>4. /\ IsSeq(ch[k]) /\ IsSeq(buf[k]) /\ Elems(ch[k]) = {i} \cup Elems(Tail(ch[k]))
      /\ Increasing(Tail(ch[k])) /\ \A x \in Elems(Tail(ch[k])) : i < x
  <2>1. IsSeq(ch[k]) /\ IsSeq(buf[k]) /\ Increasing(ch[k])
    BY <1>3 DEF TowerOK, Seqs, Lined
  <2> QED BY <1>1, <2>1, ElemsTail, IncreasingTail
<1>5. /\ Increasing(Append(buf[k], i))
      /\ Elems(Append(buf[k], i)) = Elems(buf[k]) \cup {i}
  <2>1. Increasing(buf[k]) /\ Before(buf[k], ch[k])
    BY <1>3 DEF Lined
  <2>2. \A x \in Elems(buf[k]) : x < i
    BY <1>4, <2>1 DEF Before
  <2> HIDE DEF i
  <2> QED BY <1>4, <2>1, <2>2, IncreasingAppend, ElemsAppend
<1>6. \A j \in Kinds : ch'[j] = IF j = k THEN Tail(ch[k]) ELSE ch[j]
  BY <1>1 DEF TowerOK, Seqs
<1>7. \A j \in Kinds :
          b[j] = IF j = k /\ fits THEN Append(buf[k], i) ELSE buf[j]
  <2> HIDE DEF i
  <2>1. CASE fits
    BY <2>1 DEF TowerOK, Seqs
  <2>2. CASE ~fits
    BY <2>2
  <2> QED BY <2>1, <2>2
<1> HIDE DEF b, fits, i
<1>8. /\ Lined(k, Tail(ch[k]), Append(buf[k], i), <<>>)
      /\ Lined(k, Tail(ch[k]), buf[k], <<>>)
  <2>1. Lined(k, ch[k], buf[k], <<>>)
    BY <1>3
  <2> QED BY <1>4, <1>5, <2>1, ElemsEmpty DEF Lined, Before
<1>9. \A j \in Kinds : Lined(j, ch'[j], b[j], <<>>)
  BY <1>3, <1>6, <1>7, <1>8
<1>10. CASE F!Flush(b, FALSE)
  BY <1>2, <1>9, <1>10, FlushOrder
<1>11. CASE buf' = b /\ UNCHANGED <<F!sending, discarded>>
  <2>1. batch' = batch /\ buf' = b
    BY <1>11 DEF F!sending
  <2> QED BY <1>3, <1>9, <2>1 DEF TowerOrder
<1> QED BY <1>10, <1>11 DEF F!Receive, b, fits, i

\* A flush of the buffers as they are.
LEMMA OrderFlush ==
    ASSUME TowerOK, TowerOrder, F!Tick \/ F!LastFlush PROVE TowerOrder'
<1>1. loop = "select" /\ ch' = ch
  BY DEF F!Tick, F!LastFlush
<1>2. PICK last \in BOOLEAN : F!Flush(buf, last)
  BY DEF F!Tick, F!LastFlush
<1>3. batch = F!Nothing /\ loop \notin Kinds
  BY <1>1, KindsAre DEF TowerOK
<1>4. \A k \in Kinds : Lined(k, ch'[k], buf[k], <<>>)
  BY <1>1, <1>3, NothingSeqs DEF TowerOrder
<1> QED BY <1>2, <1>3, <1>4, FlushOrder

\* A part of the batch is done with, or is not.
LEMMA OrderSendEnds ==
    ASSUME TowerOK, TowerOrder, NEW ok \in BOOLEAN, F!SendEnds(ok) PROVE TowerOrder'
<1>1. UNCHANGED <<ch, buf>> /\ (batch' = batch \/ F!PartDone)
  BY DEF F!SendEnds
<1>2. CASE batch' = batch
  BY <1>1, <1>2 DEF TowerOrder
<1>3. CASE F!PartDone
  <2>1. \A k \in Kinds : batch'[k] = batch[k] \/ batch'[k] = <<>>
    <3>1. \/ batch' = [batch EXCEPT !["event"] = <<>>]
          \/ batch' = F!Nothing
      BY <1>3 DEF F!PartDone
    <3> QED BY <3>1, NothingSeqs DEF TowerOK, Seqs
  <2>2. \A k \in Kinds : Lined(k, ch[k], buf[k], <<>>)
    BY LinedNothing DEF TowerOrder
  <2> QED BY <1>1, <2>1, <2>2 DEF TowerOrder
<1> QED BY <1>1, <1>2, <1>3

-----------------------------------------------------------------------------
(* The logs' order                                                         *)

LEMMA NewAreGreater ==
    ASSUME NEW a \in Nat, NEW b \in Nat, a <= b, NEW x \in 1..(a - 1)
    PROVE  x \in 1..(b - 1) /\ \A y \in a..(b - 1) : x < y
  OBVIOUS

\* What a step adds to the forwarder is greater than all that is in the logs.
LEMMA LogOrderKept ==
    ASSUME WayInv, WayInv', LogOrder, log' = log, flaw' = flaw, next <= next',
           InTower' \subseteq InTower \cup (next..(next' - 1))
    PROVE  LogOrder'
<1>1. next \in Nat /\ next' \in Nat /\ next <= next'
  BY DEF WayInv, TowerOK
<1>2. ASSUME NEW p \in Partitions, NEW x \in Elems(log[p])
      PROVE  /\ x \in 1..(next' - 1) /\ PartitionOf(x) = p
             /\ \A y \in InTower' : Bound(y, p) => y \in Elems(log[p]) \/ x < y
  <2>1. /\ x \in 1..(next - 1) /\ PartitionOf(x) = p
        /\ \A y \in InTower : Bound(y, p) => y \in Elems(log[p]) \/ x < y
    BY <1>2 DEF LogOrder
  <2>2. x \in 1..(next' - 1) /\ \A y \in next..(next' - 1) : x < y
    <3>1. x \in 1..(next - 1)
      BY <2>1
    <3> QED BY <1>1, <3>1, NewAreGreater, Zenon
  <2> QED BY <2>1, <2>2
<1>3. \A p \in Partitions : FirstInOrder(log[p])
  BY DEF LogOrder
<1> QED BY <1>2, <1>3 DEF LogOrder, Bound

\* So it is when a part of the batch is appended to the logs, whole or as far as
\* the producer got.
LEMMA LogOrderProduce ==
    ASSUME WayInv, LogOrder, TowerOrder, loop \in Kinds, NEW K \in Partial, Produce(K),
           next' = next, flaw' = flaw, InTower' \subseteq InTower
    PROVE  LogOrder'
<1> DEFINE b == batch[loop]
           here(p) == {k \in K : PartitionOf(b[k]) = p}
<1>1. log' = [p \in Partitions |-> log[p] \o Selected(b, here(p))]
  BY DEF Produce, Selected, Rank
<1>2. /\ K \subseteq 1..Len(b)
      /\ \A k \in K : \A j \in 1..Len(b) :
           j <= k /\ Bound(b[j], PartitionOf(b[k])) => j \in K
      /\ \A k \in K : Bound(b[k], PartitionOf(b[k]))
  BY DEF Partial, Encoded, Bound
<1>3. /\ IsSeq(b) /\ Increasing(b) /\ Lined(loop, ch[loop], buf[loop], b)
      /\ Elems(b) \subseteq InTower /\ InTower \subseteq 1..(next - 1)
  BY DEF WayInv, TowerOK, Seqs, InTower, TowerOrder, Lined
<1>4. \A p : here(p) \in SUBSET (1..Len(b))
  BY <1>2
<1>5. Len(b) \in Nat /\ next \in Nat
  <2>1. next \in Nat
    BY DEF WayInv, TowerOK
  <2> HIDE DEF b, here
  <2> QED BY <1>3, <2>1, LenProperties DEF IsSeq
<1>0. ASSUME NEW y \in InTower PROVE y \in Int
  <2>1. y \in 1..(next - 1)
    BY <1>3
  <2> QED BY <1>5, <2>1
<1>6. \A k \in 1..Len(b) : b[k] \in Elems(b) /\ b[k] \in InTower /\ b[k] \in Int
  <2> HIDE DEF b, here
  <2>1. \A k \in 1..Len(b) : b[k] \in Elems(b)
    BY DEF Elems
  <2> QED BY <1>0, <1>3, <2>1
<1> HIDE DEF b, here
<1>7. ASSUME NEW p \in Partitions
      PROVE  /\ \A x \in Elems(log'[p]) :
                  /\ x \in 1..(next' - 1) /\ PartitionOf(x) = p
                  /\ \A y \in InTower' :
                       Bound(y, p) => y \in Elems(log'[p]) \/ x < y
             /\ FirstInOrder(log'[p])
  <2> DEFINE s == log[p]
             t == Selected(b, here(p))
  <2>1. log'[p] = s \o t
    BY <1>1
  <2>2. IsSeq(s) /\ IsSeq(t) /\ Elems(t) = {b[k] : k \in here(p)} /\ Increasing(t)
    <3>1. IsSeq(t) /\ Elems(t) = {b[k] : k \in here(p)}
      BY <1>4, <1>5, SelectedProperties
    <3>2. Increasing(t)
      BY <1>3, <1>4, <1>5, IncreasingSelected
    <3> QED BY <3>1, <3>2 DEF WayInv, PollInv, Seqs
  <2>3. /\ \A x \in Elems(s) :
             /\ x \in 1..(next - 1) /\ PartitionOf(x) = p
             /\ \A y \in InTower : Bound(y, p) => y \in Elems(s) \/ x < y
        /\ FirstInOrder(s)
    BY DEF LogOrder
  <2> HIDE DEF s, t
  <2>4. \A y \in Elems(t) : y \in InTower /\ PartitionOf(y) = p /\ Bound(y, p)
    BY <1>2, <1>4, <1>6, <2>2 DEF here
  <2>5. Elems(s \o t) = Elems(s) \cup Elems(t)
    BY <2>2, ElemsConcat
  <2>6. FirstInOrder(s \o t)
    <3>1. Elems(s) \subseteq Int /\ Elems(t) \subseteq Int
      <4>1. ASSUME NEW x \in Elems(s) PROVE x \in Int
        <5>1. x \in 1..(next - 1)
          BY <2>3
        <5> QED BY <1>5, <5>1
      <4> QED BY <1>0, <2>4, <4>1
    <3> QED BY <2>2, <2>3, <2>4, <3>1, FirstInOrderGrows
  <2>7. ASSUME NEW x \in Elems(s \o t)
        PROVE  x \in 1..(next - 1) /\ PartitionOf(x) = p
    BY <1>3, <2>3, <2>4, <2>5
  <2>8. ASSUME NEW x \in Elems(s \o t), NEW y \in InTower, Bound(y, p),
               y \notin Elems(s \o t)
        PROVE  x < y
    <3>1. CASE x \in Elems(s)
      BY <2>3, <2>5, <2>8, <3>1
    <3>2. CASE x \in Elems(t)
      <4>1. PICK k \in here(p) : x = b[k]
        BY <2>2, <3>2
      <4>2. k \in K /\ k \in 1..Len(b) /\ PartitionOf(b[k]) = p
        BY <1>2, <4>1 DEF here
      <4>3. KindOf[x] = loop /\ x \in Elems(b)
        <5>1. x \in Elems(b)
          BY <1>6, <4>1, <4>2
        <5> QED BY <1>3, <5>1 DEF Lined
      <4>4. KindOf[y] = loop
        BY <2>8, <4>1, <4>2, <4>3 DEF PartitionOf, Bound
      <4>5. y \in UNION {Elems(ch[loop]), Elems(buf[loop]), Elems(b)}
        <5>1. PICK j \in Kinds : y \in UNION {Elems(ch[j]), Elems(buf[j]), Elems(batch[j])}
          BY <2>8 DEF InTower
        <5>2. KindOf[y] = j
          BY <5>1 DEF TowerOrder, Lined
        <5> QED BY <4>4, <5>1, <5>2 DEF b
      <4>6. CASE y \in Elems(ch[loop]) \cup Elems(buf[loop])
        BY <1>3, <4>3, <4>6 DEF Lined, Before
      <4>7. CASE y \in Elems(b)
        <5>1. PICK j \in 1..Len(b) : y = b[j]
          BY <4>7 DEF Elems
        <5>2. j \notin K
          <6>1. j \in K => j \in here(p)
            BY <2>8, <5>1 DEF here, Bound
          <6> QED BY <2>2, <2>5, <2>8, <5>1, <6>1
        <5>3. ~(j <= k)
          BY <1>2, <2>8, <4>2, <5>1, <5>2
        <5>4. k < j
          BY <4>2, <5>3
        <5> QED BY <1>3, <4>1, <4>2, <5>1, <5>4 DEF Increasing
      <4> QED BY <4>5, <4>6, <4>7
    <3> QED BY <2>5, <3>1, <3>2
  <2> QED BY <2>1, <2>6, <2>7, <2>8
<1> QED BY <1>7 DEF LogOrder, Bound

\* A poll returns the records of each log in turn.
LEMMA PolledOrder ==
    ASSUME WayInv, NEW upto \in Upto, NEW ps \in SetToSeqs(Partitions)
    PROVE  \A m \in 1..Len(Polled(upto, ps)) : \E p \in Partitions :
               \E n \in (pos[p] + 1)..upto[p] :
                   /\ Polled(upto, ps)[m] = log[p][n]
                   /\ \A r \in (pos[p] + 1)..(n - 1) :
                        \E l \in 1..(m - 1) : Polled(upto, ps)[l] = log[p][r]
<1>1. /\ upto \in [Partitions -> Nat]
      /\ \A p \in Partitions : pos[p] <= upto[p] /\ upto[p] <= Len(log[p])
  BY PolledAre
<1>2. MaxItems \in Nat
  BY DeliveryAssumption DEF F!ForwarderAssumption
<1> DEFINE N == Cardinality(Partitions)
<1>3. ps \in [1..N -> Partitions] /\ N \in Nat
  <2>1. IsFiniteSet(Partitions)
    BY <1>2, PartitionsFinite
  <2> QED BY <2>1, Enumerates
<1> HIDE DEF N
<1>4. ASSUME NEW p \in Partitions
      PROVE  /\ IsSeq(Fetched(upto, p)) /\ pos[p] \in Nat /\ upto[p] \in Nat
             /\ \A t \in 1..Len(Fetched(upto, p)) :
                  /\ t + pos[p] \in (pos[p] + 1)..upto[p]
                  /\ Fetched(upto, p)[t] = log[p][t + pos[p]]
             /\ \A t \in Nat : t + pos[p] \in (pos[p] + 1)..upto[p] =>
                               t \in 1..Len(Fetched(upto, p))
  <2> DEFINE s == log[p]
             a == pos[p]
             c == upto[p]
             f == SubSeq(s, a + 1, c)
  <2>1. IsSeq(s) /\ a \in Nat /\ c \in Nat /\ a <= c /\ c <= Len(s)
    BY <1>1 DEF WayInv, PollInv, Seqs
  <2> HIDE DEF s, a, c
  <2>2. Len(s) \in Nat /\ \A i \in (a + 1)..c : s[i] \in Elems(s)
    <3>1. Len(s) \in Nat
      BY <2>1, LenProperties DEF IsSeq
    <3>2. \A i \in (a + 1)..c : i \in 1..Len(s)
      BY <2>1, <3>1
    <3> QED BY <3>1, <3>2 DEF Elems
  <2>3. IsSeq(f)
    BY <2>1, ElemsSubSeq
  <2>4. /\ Len(f) = IF a + 1 <= c THEN c - (a + 1) + 1 ELSE 0
        /\ \A i \in 1..(c - (a + 1) + 1) : f[i] = s[(a + 1) + i - 1]
    BY <2>1, <2>2, SubSeqProperties
  <2> HIDE DEF f
  <2>5. Len(f) = c - a
    BY <2>1, <2>4
  <2>6. ASSUME NEW t \in 1..Len(f) PROVE t + a \in (a + 1)..c /\ f[t] = s[t + a]
    <3>1. t \in 1..(c - (a + 1) + 1) /\ (a + 1) + t - 1 = t + a
      BY <2>1, <2>5
    <3> QED BY <2>1, <2>4, <2>5, <3>1
  <2>7. ASSUME NEW t \in Nat, t + a \in (a + 1)..c PROVE t \in 1..Len(f)
    BY <2>1, <2>5, <2>7
  <2> QED BY <2>1, <2>3, <2>6, <2>7 DEF Fetched, s, a, c, f
<1>5. Len(ps) = N
  <2>1. ps \in Seq(Partitions)
    BY <1>3, SeqDef
  <2>2. DOMAIN ps = 1..Len(ps) /\ Len(ps) \in Nat
    BY <2>1, LenProperties
  <2> QED BY <1>3, <2>2
<1> DEFINE ss == [n \in 1..N |-> Fetched(upto, ps[n])]
           R  == {Fetched(upto, ps[n]) : n \in 1..N}
<1>6. \A n \in 1..N : IsSeq(ss[n]) /\ ss[n] = Fetched(upto, ps[n])
  BY <1>3, <1>4
<1>7. ss \in [1..N -> R]
  OBVIOUS
<1>8. Polled(upto, ps) = FlattenSeq(ss)
  BY <1>5 DEF Polled
<1> HIDE DEF ss, R
<1>9. Len(ss) = N /\ (N = 0 => ss = <<>>)
  <2>1. ss \in Seq(R)
    BY <1>3, <1>7, SeqDef
  <2>2. DOMAIN ss = 1..Len(ss) /\ Len(ss) \in Nat
    BY <2>1, LenProperties
  <2>3. Len(ss) = N
    BY <1>3, <1>7, <2>2
  <2> QED BY <2>1, <2>3, EmptySeq
<1> DEFINE u == FlattenSeq(ss)
<1>10. InTurn(u, ss, N)
  <2>1. \A i \in 1..N : IsSeq(ss[i])
    BY <1>6
  <2> QED BY <1>3, <1>9, <2>1, FlattenOrder
<1> HIDE DEF u
<1>11. ASSUME NEW m \in 1..Len(u)
       PROVE  \E p \in Partitions : \E n \in (pos[p] + 1)..upto[p] :
                  /\ u[m] = log[p][n]
                  /\ \A r \in (pos[p] + 1)..(n - 1) :
                       \E l \in 1..(m - 1) : u[l] = log[p][r]
  <2>1. PICK i \in 1..N, t \in Nat :
           /\ t \in 1..Len(ss[i]) /\ u[m] = ss[i][t]
           /\ \A r \in 1..(t - 1) : \E l \in 1..(m - 1) : u[l] = ss[i][r]
    BY <1>10 DEF InTurn
  <2> DEFINE p == ps[i]
             f == Fetched(upto, p)
  <2>2. p \in Partitions /\ ss[i] = f
    BY <1>3, <1>6
  <2> HIDE DEF p, f
  <2>3. /\ pos[p] \in Nat /\ upto[p] \in Nat
        /\ \A j \in 1..Len(f) : /\ j + pos[p] \in (pos[p] + 1)..upto[p]
                                /\ f[j] = log[p][j + pos[p]]
        /\ \A j \in Nat : j + pos[p] \in (pos[p] + 1)..upto[p] => j \in 1..Len(f)
    BY <1>4, <2>2 DEF f
  <2> DEFINE n == t + pos[p]
  <2>4. n \in (pos[p] + 1)..upto[p] /\ u[m] = log[p][n] /\ n - pos[p] = t
    BY <2>1, <2>2, <2>3
  <2> HIDE DEF n
  <2>5. ASSUME NEW r \in (pos[p] + 1)..(n - 1)
        PROVE  \E l \in 1..(m - 1) : u[l] = log[p][r]
    <3> DEFINE j == r - pos[p]
    <3>1. j \in Nat /\ j \in 1..(t - 1) /\ j + pos[p] = r /\ r \in (pos[p] + 1)..upto[p]
      <4>1. PICK c \in Nat, d \in Nat : c = pos[p] /\ d = upto[p]
        BY <2>3
      <4>2. n \in (c + 1)..d /\ n - c = t /\ r \in (c + 1)..(n - 1)
        BY <2>4, <4>1
      <4>3. r - c \in Nat /\ r - c \in 1..(t - 1) /\ (r - c) + c = r /\ r \in (c + 1)..d
        BY <4>2
      <4> QED BY <4>1, <4>3
    <3> HIDE DEF j
    <3>2. j \in 1..Len(f) /\ f[j] = log[p][r]
      BY <2>3, <3>1
    <3> QED BY <2>1, <2>2, <3>1, <3>2
  <2> QED BY <2>2, <2>4, <2>5
<1> QED BY <1>8, <1>11 DEF u

\* The consumer has seen the beginnings of the logs, which stay, and goes back.
LEMMA SeenKept ==
    ASSUME WayInv, SeenInv, LogGrows, UNCHANGED <<seen, late>>,
           pos' \in [Partitions -> Nat], \A p \in Partitions : pos'[p] <= pos[p]
    PROVE  SeenInv'
<1>1. PICK h \in [Partitions -> Nat] :
        /\ \A p \in Partitions : pos[p] <= h[p] /\ h[p] <= Len(log[p])
        /\ seen = Begin(h)
  BY DEF SeenInv
<1>2. ASSUME NEW p \in Partitions
      PROVE  /\ pos'[p] <= h[p] /\ h[p] <= Len(log'[p])
             /\ \A n \in 1..h[p] : log'[p][n] = log[p][n]
  <2>1. /\ pos'[p] \in Nat /\ pos[p] \in Nat /\ h[p] \in Nat
        /\ Len(log[p]) \in Nat /\ Len(log'[p]) \in Nat
        /\ pos'[p] <= pos[p] /\ pos[p] <= h[p] /\ h[p] <= Len(log[p])
        /\ Len(log[p]) <= Len(log'[p])
    BY <1>1 DEF WayInv, PollInv, LogGrows
  <2>2. \A n \in 1..h[p] : n \in 1..Len(log[p])
    BY <2>1
  <2>3. pos'[p] <= h[p] /\ h[p] <= Len(log'[p])
    BY <2>1
  <2> QED BY <2>2, <2>3 DEF LogGrows
<1>3. seen' = UNION {{log'[p][n] : n \in 1..h[p]} : p \in Partitions}
  <2>1. \A p \in Partitions : {log'[p][n] : n \in 1..h[p]} = {log[p][n] : n \in 1..h[p]}
    BY <1>2
  <2> DEFINE N(p) == {log[p][n] : n \in 1..h[p]}
             M(p) == {log'[p][n] : n \in 1..h[p]}
  <2>2. \A p \in Partitions : M(p) = N(p)
    BY <2>1
  <2>3. seen = UNION {N(p) : p \in Partitions}
    BY <1>1 DEF Begin
  <2> HIDE DEF M, N
  <2>4. UNION {M(p) : p \in Partitions} = UNION {N(p) : p \in Partitions}
    BY <2>2
  <2> QED BY <2>3, <2>4 DEF M
<1> QED BY <1>1, <1>2, <1>3 DEF SeenInv, Begin

\* A record that a poll returns after a later one of its agent and kind has been
\* seen before: the log shows it before that one, and the poll takes the log from
\* a place that all before has been seen.
LEMMA PollNotLate ==
    ASSUME OrderInv, NEW upto \in Upto, NEW ps \in SetToSeqs(Partitions),
           NEW n \in 1..Len(Polled(upto, ps)), NEW j,
           j \in seen \cup {Polled(upto, ps)[m] : m \in 1..(n - 1)},
           Precedes(Polled(upto, ps)[n], j)
    PROVE  Polled(upto, ps)[n] \in seen \cup {Polled(upto, ps)[m] : m \in 1..(n - 1)}
<1> DEFINE u == Polled(upto, ps)
           x == u[n]
<1>1. /\ \A p \in Partitions : /\ pos[p] \in Nat /\ upto[p] \in Nat /\ Len(log[p]) \in Nat
                               /\ upto[p] <= Len(log[p])
      /\ IsSeq(u) /\ Len(u) \in Nat
  <2>1. IsSeq(u) /\ upto \in [Partitions -> Nat]
        /\ \A p \in Partitions : upto[p] <= Len(log[p])
    BY PolledAre DEF OrderInv
  <2> HIDE DEF u
  <2> QED BY <2>1, LenProperties DEF OrderInv, WayInv, PollInv, Seqs, IsSeq
<1>2. \A m \in 1..Len(u) : \E p \in Partitions : \E i \in (pos[p] + 1)..upto[p] :
          /\ u[m] = log[p][i]
          /\ \A r \in (pos[p] + 1)..(i - 1) : \E l \in 1..(m - 1) : u[l] = log[p][r]
  BY PolledOrder DEF OrderInv
<1>3. n \in 1..Len(u) /\ j \in seen \cup {u[m] : m \in 1..(n - 1)} /\ Precedes(x, j)
  OBVIOUS
<1> HIDE DEF u
<1>4. PICK h \in [Partitions -> Nat] :
        /\ \A p \in Partitions : pos[p] <= h[p] /\ h[p] <= Len(log[p])
        /\ seen = Begin(h)
  BY DEF OrderInv, SeenInv
<1>5. ASSUME NEW p \in Partitions, NEW i \in 1..Len(log[p])
      PROVE  PartitionOf(log[p][i]) = p
  BY DEF OrderInv, LogOrder, Elems
<1>6. PICK p \in Partitions : \E i \in 1..Len(log[p]) : x = log[p][i]
  <2>1. PICK p \in Partitions : \E i \in (pos[p] + 1)..upto[p] : x = log[p][i]
    BY <1>2, <1>3
  <2>2. \A i \in (pos[p] + 1)..upto[p] : i \in 1..Len(log[p])
    BY <1>1
  <2> QED BY <2>1, <2>2
<1>7. PartitionOf(j) = p /\ x < j
  BY <1>3, <1>5, <1>6 DEF Precedes, PartitionOf
<1>8. ASSUME NEW k \in 1..Len(log[p]), log[p][k] = j
      PROVE  \E l \in 1..(k - 1) : log[p][l] = x
  <2>1. FirstInOrder(log[p])
    BY DEF OrderInv, LogOrder
  <2>2. PICK i \in 1..Len(log[p]) : x = log[p][i]
    BY <1>6
  <2>3. log[p][i] < log[p][k] => \E l \in 1..(k - 1) : log[p][l] = log[p][i]
    BY <1>8, <2>1 DEF FirstInOrder
  <2> QED BY <1>7, <1>8, <2>2, <2>3
<1>9. \A l \in 1..h[p] : log[p][l] \in seen
  BY <1>4 DEF Begin
<1>10. CASE j \in seen
  <2>0. PICK q \in Partitions : j \in {log[q][m] : m \in 1..h[q]}
    BY <1>4, <1>10 DEF Begin
  <2>1. PICK m \in 1..h[q] : j = log[q][m]
    BY <2>0
  <2>2. m \in 1..Len(log[q])
    BY <1>1, <1>4
  <2>3. q = p
    BY <1>5, <1>7, <2>1, <2>2
  <2>4. PICK l \in 1..(m - 1) : log[p][l] = x
    BY <1>8, <2>1, <2>2, <2>3
  <2>5. l \in 1..h[p]
    BY <1>4, <2>3
  <2> QED BY <1>9, <2>4, <2>5 DEF u
<1>11. CASE j \in {u[m] : m \in 1..(n - 1)}
  <2>1. PICK m \in 1..(n - 1) : j = u[m]
    BY <1>11
  <2>2. m \in 1..Len(u)
    BY <1>1, <1>3
  <2>0. PICK q \in Partitions : \E k \in (pos[q] + 1)..upto[q] :
           /\ u[m] = log[q][k]
           /\ \A r \in (pos[q] + 1)..(k - 1) : \E l \in 1..(m - 1) : u[l] = log[q][r]
    BY <1>2, <2>2
  <2>3. PICK k \in (pos[q] + 1)..upto[q] :
           /\ u[m] = log[q][k]
           /\ \A r \in (pos[q] + 1)..(k - 1) : \E l \in 1..(m - 1) : u[l] = log[q][r]
    BY <2>0
  <2>4. k \in 1..Len(log[q])
    BY <1>1
  <2>5. q = p
    BY <1>5, <1>7, <2>1, <2>3, <2>4
  <2>6. PICK l \in 1..(k - 1) : log[p][l] = x
    BY <1>8, <2>1, <2>3, <2>4, <2>5
  <2>7. CASE l \in 1..pos[p]
    <3>1. l \in 1..h[p]
      BY <1>1, <1>4, <2>7
    <3> QED BY <1>9, <2>6, <3>1 DEF u
  <2>8. CASE l \notin 1..pos[p]
    <3>1. l \in (pos[p] + 1)..(k - 1)
      BY <1>1, <2>6, <2>8
    <3>2. PICK i \in 1..(m - 1) : u[i] = x
      BY <2>3, <2>5, <2>6, <3>1
    <3>3. i \in 1..(n - 1)
      BY <1>3, <2>1
    <3> QED BY <3>2, <3>3 DEF u
  <2> QED BY <2>7, <2>8
<1> QED BY <1>3, <1>10, <1>11 DEF u

LEMMA SeenPoll ==
    ASSUME OrderInv, Poll PROVE SeenInv'
<1>1. PICK upto \in Upto, ps \in SetToSeqs(Partitions) :
        /\ pos' = upto
        /\ seen' = seen \cup F!SetOf(Polled(upto, ps))
        /\ late' = late \cup
             {Polled(upto, ps)[n] : n \in {n \in 1..Len(Polled(upto, ps)) :
                 /\ Polled(upto, ps)[n] \notin
                        seen \cup {Polled(upto, ps)[m] : m \in 1..(n - 1)}
                 /\ \E j \in seen \cup {Polled(upto, ps)[m] : m \in 1..(n - 1)} :
                        Precedes(Polled(upto, ps)[n], j)}}
  BY DEF Poll, Polled, Fetched
<1>2. log' = log
  BY DEF Poll
<1> DEFINE u == Polled(upto, ps)
<1>3. late' = {}
  <2>1. \A n \in 1..Len(u) :
            ~ (/\ u[n] \notin seen \cup {u[m] : m \in 1..(n - 1)}
               /\ \E j \in seen \cup {u[m] : m \in 1..(n - 1)} : Precedes(u[n], j))
    BY PollNotLate
  <2>2. late = {}
    BY DEF OrderInv, SeenInv
  <2> HIDE DEF u
  <2>3. late' = late \cup
             {u[n] : n \in {n \in 1..Len(u) :
                 /\ u[n] \notin seen \cup {u[m] : m \in 1..(n - 1)}
                 /\ \E j \in seen \cup {u[m] : m \in 1..(n - 1)} : Precedes(u[n], j)}}
    BY <1>1 DEF u
  <2> QED BY <2>1, <2>2, <2>3
<1>4. PICK h \in [Partitions -> Nat] :
        /\ \A p \in Partitions : pos[p] <= h[p] /\ h[p] <= Len(log[p])
        /\ seen = Begin(h)
  BY DEF OrderInv, SeenInv
<1>5. /\ upto \in [Partitions -> Nat]
      /\ \A p \in Partitions : pos[p] <= upto[p] /\ upto[p] <= Len(log[p])
      /\ \A p \in Partitions : \A n \in (pos[p] + 1)..upto[p] : log[p][n] \in Elems(u)
  BY PolledAre DEF OrderInv
<1>6. \A m \in 1..Len(u) :
          \E p \in Partitions : \E i \in (pos[p] + 1)..upto[p] : u[m] = log[p][i]
  BY PolledOrder DEF OrderInv
<1>7. seen' = seen \cup Elems(u)
  BY <1>1 DEF F!SetOf, Elems
<1> HIDE DEF u
<1> DEFINE g == [p \in Partitions |-> IF upto[p] <= h[p] THEN h[p] ELSE upto[p]]
<1>8. \A p \in Partitions : /\ pos[p] \in Nat /\ upto[p] \in Nat /\ h[p] \in Nat
                            /\ Len(log[p]) \in Nat
  BY <1>4, <1>5, LenProperties DEF OrderInv, WayInv, PollInv, Seqs, IsSeq
<1>9. g \in [Partitions -> Nat]
  BY <1>4, <1>5
<1>10. \A p \in Partitions : g[p] = IF upto[p] <= h[p] THEN h[p] ELSE upto[p]
  OBVIOUS
<1> HIDE DEF g
<1>11. \A p \in Partitions : upto[p] <= g[p] /\ g[p] <= Len(log[p]) /\ h[p] <= g[p]
  BY <1>4, <1>5, <1>8, <1>10
<1>12. seen' \subseteq Begin(g)
  <2>1. ASSUME NEW y \in seen PROVE y \in Begin(g)
    <3>0. PICK p \in Partitions : y \in {log[p][n] : n \in 1..h[p]}
      BY <1>4, <2>1 DEF Begin
    <3>1. PICK n \in 1..h[p] : y = log[p][n]
      BY <3>0
    <3>2. n \in 1..g[p]
      BY <1>8, <1>9, <1>11
    <3> QED BY <3>1, <3>2 DEF Begin
  <2>2. ASSUME NEW y \in Elems(u) PROVE y \in Begin(g)
    <3>0. PICK p \in Partitions : \E i \in (pos[p] + 1)..upto[p] : y = log[p][i]
      BY <1>6, <2>2 DEF Elems
    <3>1. PICK i \in (pos[p] + 1)..upto[p] : y = log[p][i]
      BY <3>0
    <3>2. i \in 1..g[p]
      BY <1>8, <1>9, <1>11
    <3> QED BY <3>1, <3>2 DEF Begin
  <2> QED BY <1>7, <2>1, <2>2
<1>13. Begin(g) \subseteq seen'
  <2> SUFFICES ASSUME NEW p \in Partitions, NEW n \in 1..g[p] PROVE log[p][n] \in seen'
    BY DEF Begin
  <2>1. n \in 1..h[p] \/ n \in (pos[p] + 1)..upto[p]
    <3>1. pos[p] <= h[p] /\ g[p] \in Nat
      BY <1>4, <1>9
    <3> QED BY <1>8, <1>10, <3>1
  <2>2. CASE n \in 1..h[p]
    BY <1>4, <1>7, <2>2 DEF Begin
  <2>3. CASE n \in (pos[p] + 1)..upto[p]
    BY <1>5, <1>7, <2>3
  <2> QED BY <2>1, <2>2, <2>3
<1>14. seen' = UNION {{log'[p][n] : n \in 1..g[p]} : p \in Partitions}
  BY <1>2, <1>12, <1>13 DEF Begin
<1> QED BY <1>1, <1>2, <1>3, <1>9, <1>11, <1>14 DEF SeenInv, Begin

-----------------------------------------------------------------------------
(* The whole order                                                         *)

LEMMA OrderInitially == ASSUME Init PROVE OrderInv
<1>1. /\ ch = F!Nothing /\ buf = F!Nothing /\ batch = F!Nothing
      /\ log = [p \in Partitions |-> <<>>] /\ pos = [p \in Partitions |-> 0]
      /\ seen = {} /\ late = {}
  BY DEF Init, F!Init
<1>2. TowerOrder
  BY <1>1, NothingSeqs, IncreasingEmpty, ElemsEmpty DEF TowerOrder, Lined
<1>3. LogOrder
  BY <1>1, ElemsEmpty DEF LogOrder, FirstInOrder
<1>4. SeenInv
  <2>1. pos \in [Partitions -> Nat]
    BY <1>1
  <2>2. \A p \in Partitions : pos[p] = 0 /\ Len(log[p]) = 0
    BY <1>1
  <2>3. Begin(pos) = {}
    BY <2>2 DEF Begin
  <2> QED BY <1>1, <2>1, <2>2, <2>3 DEF SeenInv
<1> QED BY <1>2, <1>3, <1>4, WayInitially DEF OrderInv

\* A step of the forwarder that is not an attempt to send.
LEMMA OrderTower ==
    ASSUME OrderInv, WayInv', TowerForth, TowerOrder', UNCHANGED <<kafka, flaw>>
    PROVE  OrderInv'
<1>1. UNCHANGED <<log, pos, seen, late>>
  BY DEF kafka
<1>2. LogOrder'
  BY <1>1, LogOrderKept DEF TowerForth, OrderInv
<1>3. SeenInv'
  BY <1>1 DEF OrderInv, SeenInv, Begin
<1> QED BY <1>2, <1>3 DEF OrderInv

\* A step that leaves what the forwarder holds, and the logs.
LEMMA OrderSame ==
    ASSUME OrderInv, WayInv', UNCHANGED <<ch, buf, batch, next, log, seen, late, flaw>>,
           \A p \in Partitions : pos'[p] <= pos[p]
    PROVE  OrderInv'
<1>1. InTower' = InTower
  BY DEF InTower
<1>2. TowerOrder' /\ LogOrder'
  BY <1>1 DEF OrderInv, TowerOrder, LogOrder, Bound
<1>3. SeenInv'
  <2>1. pos' \in [Partitions -> Nat]
    BY DEF WayInv, PollInv
  <2>2. LogGrows
    BY LogSame DEF OrderInv, WayInv
  <2> QED BY <2>1, <2>2, SeenKept DEF OrderInv
<1> QED BY <1>2, <1>3 DEF OrderInv

LEMMA PosSame ==
    ASSUME WayInv, pos' = pos PROVE \A p \in Partitions : pos'[p] <= pos[p]
<1>1. \A p \in Partitions : pos[p] \in Nat
  BY DEF WayInv, PollInv
<1> QED BY <1>1

LEMMA OrderTowerRuns ==
    ASSUME OrderInv, WayInv', TowerRuns PROVE OrderInv'
<1>1. UNCHANGED <<kafka, flaw>> /\ TowerOK
  BY DEF TowerRuns, OrderInv, WayInv, history
<1>2. CASE F!Forward
  <2>1. TowerForth /\ TowerOrder'
    BY <1>1, <1>2, TowerForward, OrderForward DEF OrderInv
  <2> QED BY <1>1, <2>1, OrderTower
<1>3. ASSUME NEW k \in Kinds, F!Receive(k) PROVE OrderInv'
  <2>1. TowerForth /\ TowerOrder'
    BY <1>1, <1>3, TowerReceive, OrderReceive DEF OrderInv
  <2> QED BY <1>1, <2>1, OrderTower
<1>4. CASE F!Tick \/ F!LastFlush
  <2>1. TowerOrder'
    BY <1>1, <1>4, OrderFlush DEF OrderInv
  <2>2. loop = "select" /\ UNCHANGED <<ch, dlq, next, evicted, dropped>>
    BY <1>4 DEF F!Tick, F!LastFlush
  <2>3. PICK last \in BOOLEAN : F!Flush(buf, last)
    BY <1>4 DEF F!Tick, F!LastFlush
  <2>4. TowerForth
    BY <1>1, <2>2, <2>3, TowerFlush DEF TowerOK
  <2> QED BY <1>1, <2>1, <2>4, OrderTower
<1>5. CASE F!Stop
  <2>1. UNCHANGED <<ch, buf, batch, next>>
    BY <1>5 DEF F!Stop, F!sending
  <2> QED BY <1>1, <2>1, OrderSame, PosSame DEF kafka, OrderInv
<1> QED BY <1>2, <1>3, <1>4, <1>5 DEF TowerRuns

\* An attempt appends a part of the batch to the logs, or all of it, or nothing.
LEMMA OrderSends ==
    ASSUME OrderInv, WayInv', NEW ok \in BOOLEAN, loop \in Kinds, F!SendEnds(ok),
           log' = log \/ \E K \in Partial : Produce(K),
           UNCHANGED <<pos, seen, late, flaw>>
    PROVE  OrderInv'
<1>1. TowerOrder'
  BY OrderSendEnds DEF OrderInv, WayInv
<1>2. next' = next /\ InTower' \subseteq InTower
  BY SendKeeps DEF OrderInv, WayInv, SendForth
<1>3. next <= next'
  BY <1>2 DEF OrderInv, WayInv, TowerOK
<1>4. CASE log' = log
  <2>1. LogOrder'
    BY <1>2, <1>3, <1>4, LogOrderKept DEF OrderInv
  <2>2. SeenInv'
    BY <1>4 DEF OrderInv, SeenInv, Begin
  <2> QED BY <1>1, <2>1, <2>2 DEF OrderInv
<1>5. ASSUME NEW K \in Partial, Produce(K) PROVE OrderInv'
  <2>1. LogOrder'
    BY <1>2, <1>5, LogOrderProduce DEF OrderInv
  <2>2. K \in SUBSET (1..Len(batch[loop]))
    BY DEF Partial, Encoded
  <2>3. LogGrows
    BY <1>5, <2>2, ProduceKeeps DEF OrderInv
  <2>4. pos' \in [Partitions -> Nat]
    BY DEF WayInv, PollInv
  <2>5. SeenInv'
    BY <2>3, <2>4, PosSame, SeenKept DEF OrderInv
  <2> QED BY <1>1, <2>1, <2>5 DEF OrderInv
<1> QED BY <1>4, <1>5

LEMMA OrderTransport ==
    ASSUME OrderInv, WayInv', Transport PROVE OrderInv'
<1>1. CASE KafkaSends
  <2>1. Encoded \in Partial
    BY DEF Partial
  <2> QED BY <1>1, <2>1, OrderSends DEF KafkaSends
<1>2. CASE KafkaFails
  BY <1>2, OrderSends DEF KafkaFails
<1>3. ASSUME NEW h \in Handlers, Call(h) PROVE OrderInv'
  <2>1. UNCHANGED <<ch, buf, batch, next, log, pos, seen, late, flaw>>
    BY <1>3 DEF Call, tower, kafka
  <2> QED BY <2>1, OrderSame, PosSame DEF OrderInv
<1>4. CASE Answer
  <2>1. /\ UNCHANGED <<log, pos, seen, late, flaw>> /\ F!SendEnds(TRUE)
        /\ loop \in Kinds
    BY <1>4, KindsAre DEF Answer, kafka, history, F!SendEnds
  <2> QED BY <2>1, OrderSends
<1>5. CASE CallFails
  <2>1. /\ UNCHANGED <<log, pos, seen, late, flaw>> /\ F!SendEnds(FALSE)
        /\ loop \in Kinds
    BY <1>5, KindsAre DEF CallFails, kafka, history, F!SendEnds
  <2> QED BY <2>1, OrderSends
<1> QED BY <1>1, <1>2, <1>3, <1>4, <1>5 DEF Transport

LEMMA OrderStep == ASSUME OrderInv, [Next]_vars PROVE OrderInv'
<1>0. WayInv /\ WayInv'
  BY WayStep DEF OrderInv
<1>1. CASE Poll
  <2>1. UNCHANGED <<ch, buf, batch, next, log, flaw>>
    BY <1>1 DEF Poll, tower, history
  <2>2. InTower' = InTower
    BY <2>1 DEF InTower
  <2>3. TowerOrder' /\ LogOrder'
    BY <2>1, <2>2 DEF OrderInv, TowerOrder, LogOrder, Bound
  <2> QED BY <1>0, <1>1, <2>3, SeenPoll DEF OrderInv
<1>2. CASE \/ VaultRuns \/ Midnight \/ UNCHANGED vars
           \/ \E w \in P!Workers : VaultBulk(w)
  <2>1. UNCHANGED <<ch, buf, batch, next, log, pos, seen, late, flaw>>
    BY <1>2 DEF VaultRuns, Handles, Skips, Midnight, VaultBulk, vars, tower, kafka,
                history
  <2> QED BY <1>0, <2>1, OrderSame, PosSame
<1>3. CASE TowerStops
  <2>1. UNCHANGED <<ch, buf, batch, next, log, pos, seen, late, flaw>>
    BY <1>3 DEF TowerStops, F!Cancel, F!sending, kafka, history
  <2> QED BY <1>0, <2>1, OrderSame, PosSame
<1>4. CASE TowerExits
  <2>1. /\ ch' = F!Nothing /\ buf' = F!Nothing /\ batch' = F!Nothing /\ next' = next
        /\ UNCHANGED <<log, pos, seen, late, flaw>>
    BY <1>4 DEF TowerExits, F!Exit, kafka
  <2>2. TowerOrder'
    BY <2>1, NothingSeqs, IncreasingEmpty, ElemsEmpty DEF TowerOrder, Lined
  <2>3. InTower' = {}
    BY <2>1, NothingSeqs DEF InTower
  <2>4. LogOrder'
    <3>1. next <= next'
      BY <1>0, <2>1 DEF WayInv, TowerOK
    <3> QED BY <1>0, <2>1, <2>3, <3>1, LogOrderKept DEF OrderInv
  <2>5. SeenInv'
    BY <2>1 DEF OrderInv, SeenInv, Begin
  <2> QED BY <1>0, <2>2, <2>4, <2>5 DEF OrderInv
<1>5. CASE VaultExits
  <2>1. UNCHANGED <<ch, buf, batch, next, log, seen, late, flaw>>
    BY <1>5 DEF VaultExits, tower
  <2>2. ASSUME NEW p \in Partitions PROVE pos'[p] <= pos[p]
    <3>1. pos'[p] <= ready[p]
      BY <1>5 DEF VaultExits, Within
    <3>2. pos'[p] \in Nat /\ ready[p] \in Nat /\ pos[p] \in Nat /\ ready[p] <= pos[p]
      BY <1>0 DEF WayInv, PollInv
    <3> QED BY <3>1, <3>2
  <2> QED BY <1>0, <2>1, <2>2, OrderSame
<1> QED BY <1>0, <1>1, <1>2, <1>3, <1>4, <1>5, OrderTowerRuns, OrderTransport DEF Next

\* The records of an agent reach the consumer in the order they were forwarded,
\* whatever the producer repeats or gives up, and wherever the consumer goes back.
THEOREM AgentsInOrder == Spec => []InOrderPerAgent
<1>1. Init => OrderInv
  BY OrderInitially
<1>2. OrderInv /\ [Next]_vars => OrderInv'
  BY OrderStep
<1>3. OrderInv => InOrderPerAgent
  BY DEF OrderInv, SeenInv, InOrderPerAgent
<1> QED BY <1>1, <1>2, <1>3, PTL DEF Spec
=============================================================================
