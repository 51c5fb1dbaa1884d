---------------------------- MODULE StreamProofs ----------------------------
(***************************************************************************)
(* No data point disappears on its way through the agent and over the      *)
(* stream, and none is sent twice: for any number of collectors, points,   *)
(* commands and faults, any capacities and sizes of batches.               *)
(*                                                                         *)
(* Accounted counts the places that hold a point.  It is inductive with    *)
(* the types: what a step adds to the count of one place it takes from     *)
(* another, and a set it adds the point to did not have it, because the    *)
(* place it is taken from has.  The first part is about counting.          *)
(***************************************************************************)
EXTENDS AgentStream, SequenceTheorems, FiniteSetTheorems, TLAPS

-----------------------------------------------------------------------------
(* Counting                                                                *)

\* Moving every number of a finite set by the same distance keeps their number.
LEMMA ShiftKeeps ==
    ASSUME NEW A \in SUBSET Nat, IsFiniteSet(A), NEW B \in SUBSET Nat,
           \A n \in Nat : n + 1 \in B <=> n \in A, 0 \notin B
    PROVE  IsFiniteSet(B) /\ Cardinality(B) = Cardinality(A)
<1> DEFINE f == [n \in A |-> n + 1]
<1>1. f \in [A -> B]
  OBVIOUS
<1>2. \A m, n \in A : f[m] = f[n] => m = n
  OBVIOUS
<1>3. ASSUME NEW m \in B PROVE \E n \in A : f[n] = m
  <2>1. m - 1 \in Nat /\ (m - 1) + 1 = m
    OBVIOUS
  <2>2. m - 1 \in A
    BY <2>1
  <2> QED BY <2>1, <2>2
<1>4. f \in Bijection(A, B)
  BY <1>1, <1>2, <1>3 DEF Bijection, Injection, IsInjective, Surjection
<1> QED BY <1>4, FS_Bijection DEF ExistsBijection

\* Sets without a common element.
LEMMA AddUp ==
    ASSUME NEW S, NEW T, NEW U, IsFiniteSet(S), IsFiniteSet(T), S \cap T = {}, U = S \cup T
    PROVE  IsFiniteSet(U) /\ Cardinality(U) = Cardinality(S) + Cardinality(T)
<1>1. Cardinality(S) \in Nat /\ Cardinality(T) \in Nat /\ Cardinality(S \cap T) = 0
  BY FS_CardinalityType, FS_EmptySet
<1>2. IsFiniteSet(U) /\ Cardinality(U) = Cardinality(S) + Cardinality(T) - Cardinality(S \cap T)
  BY FS_Union
<1> QED BY <1>1, <1>2

\* The positions Count counts.
Spots(s, p) == {i \in 1..Len(s) : s[i] = p}

LEMMA SpotsFinite ==
    ASSUME NEW S, NEW s \in Seq(S), NEW p
    PROVE  /\ Len(s) \in Nat /\ Spots(s, p) \subseteq 1..Len(s)
           /\ IsFiniteSet(Spots(s, p))
           /\ Count(s, p) = Cardinality(Spots(s, p)) /\ Count(s, p) \in Nat
           /\ Count(s, p) = 0 <=> \A i \in 1..Len(s) : s[i] # p
<1>1. Len(s) \in Nat /\ Spots(s, p) \subseteq 1..Len(s)
  BY LenProperties DEF Spots
<1>2. IsFiniteSet(1..Len(s))
  BY <1>1, FS_Interval
<1>3. IsFiniteSet(Spots(s, p))
  BY <1>1, <1>2, FS_Subset
<1>4. Count(s, p) = Cardinality(Spots(s, p))
  BY DEF Count, Spots
<1>5. Spots(s, p) = {} <=> \A i \in 1..Len(s) : s[i] # p
  BY DEF Spots
<1> QED BY <1>1, <1>3, <1>4, <1>5, FS_CardinalityType, FS_EmptySet

LEMMA CountEmpty ==
    ASSUME NEW p PROVE Count(<<>>, p) = 0
<1>1. <<>> \in Seq({p}) /\ Len(<<>>) = 0
  BY EmptySeq
<1>2. \A i \in 1..Len(<<>>) : <<>>[i] # p
  BY <1>1
<1> QED BY <1>1, <1>2, SpotsFinite

In(S, p) == Bit(p \in S)
Is(q, p) == Bit(q = p)

LEMMA BitType ==
    /\ \A b : Bit(b) \in 0..1
    /\ \A q, p : Is(q, p) \in 0..1 /\ (Is(q, p) = 1 <=> q = p)
    /\ \A S, p : In(S, p) \in 0..1 /\ (In(S, p) = 1 <=> p \in S)
BY DEF Bit, In, Is

LEMMA CountAppend ==
    ASSUME NEW S, NEW s \in Seq(S), NEW q \in S, NEW p
    PROVE  /\ Append(s, q) \in Seq(S)
           /\ Count(Append(s, q), p) = Count(s, p) + Is(q, p)
<1>1. PICK a \in Seq(S) : a = Append(s, q)
  BY AppendProperties
<1>2. /\ Len(a) = Len(s) + 1 /\ a[Len(s) + 1] = q
      /\ \A i \in 1..Len(s) : a[i] = s[i]
  BY <1>1, AppendProperties
<1>3. Len(s) \in Nat
  BY LenProperties
<1>4. \A i : i \in 1..Len(a) <=> i \in 1..Len(s) \/ i = Len(s) + 1
  BY <1>2, <1>3
<1>5. CASE q = p
  <2>1. Spots(a, p) = Spots(s, p) \cup {Len(s) + 1}
    BY <1>2, <1>4, <1>5 DEF Spots
  <2>2. Len(s) + 1 \notin Spots(s, p)
    BY <1>3 DEF Spots
  <2>3. IsFiniteSet(Spots(s, p))
    BY SpotsFinite
  <2>4. Cardinality(Spots(a, p)) = Cardinality(Spots(s, p)) + 1
    BY <2>1, <2>2, <2>3, FS_AddElement
  <2>7. Count(a, p) = Count(s, p) + 1
    BY <2>4, SpotsFinite
  <2>5. Is(q, p) = 1
    BY <1>5 DEF Is, Bit
  <2>6. Count(s, p) + 1 = Count(s, p) + Is(q, p)
    BY <2>5, Zenon
  <2> QED BY <1>1, <2>7, <2>6, Zenon
<1>6. CASE q # p
  <2>1. Spots(a, p) = Spots(s, p)
    BY <1>2, <1>4, <1>6 DEF Spots
  <2>2. Count(a, p) = Count(s, p) /\ Count(s, p) \in Nat
    BY <2>1, SpotsFinite
  <2> QED BY <1>1, <1>6, <2>2 DEF Is, Bit
<1> QED BY <1>1, <1>5, <1>6

LEMMA CountTail ==
    ASSUME NEW S, NEW s \in Seq(S), s # <<>>, NEW p
    PROVE  /\ Head(s) \in S /\ Tail(s) \in Seq(S)
           /\ Count(s, p) = Count(Tail(s), p) + Is(Head(s), p)
<1>1. PICK t \in Seq(S) : t = Tail(s)
  BY HeadTailProperties
<1>2. /\ Len(s) \in Nat /\ Len(s) > 0 /\ Len(t) = Len(s) - 1 /\ Head(s) = s[1] /\ Head(s) \in S
      /\ \A i \in 1..Len(t) : t[i] = s[i + 1]
  BY <1>1, HeadTailProperties, LenProperties, EmptySeq
<1> DEFINE B == Spots(s, p) \ {1}
<1>3. IsFiniteSet(B) /\ Cardinality(B) = Cardinality(Spots(t, p))
  <2>1. \A n \in Nat : n + 1 \in B <=> n \in Spots(t, p)
    <3> SUFFICES ASSUME NEW n \in Nat PROVE n + 1 \in B <=> n \in Spots(t, p)
      OBVIOUS
    <3>1. n \in 1..Len(t) <=> n + 1 \in 1..Len(s) /\ n + 1 # 1
      BY <1>2
    <3> QED BY <1>2, <3>1 DEF Spots
  <2>2. B \in SUBSET Nat /\ Spots(t, p) \in SUBSET Nat /\ 0 \notin B
    BY DEF Spots
  <2> HIDE DEF B
  <2> QED BY <2>1, <2>2, SpotsFinite, ShiftKeeps
<1>4. CASE Head(s) = p
  <2>1. 1 \notin B /\ Spots(s, p) = B \cup {1}
    BY <1>2, <1>4 DEF Spots
  <2>2. Cardinality(Spots(s, p)) = Cardinality(B) + 1
    BY <1>3, <2>1, FS_AddElement
  <2> HIDE DEF B
  <2>3. Count(s, p) = Count(t, p) + 1
    BY <1>3, <2>2, SpotsFinite
  <2>4. Is(Head(s), p) = 1
    BY <1>4 DEF Is, Bit
  <2> QED BY <1>1, <1>2, <2>3, <2>4
<1>5. CASE Head(s) # p
  <2>1. Spots(s, p) = B
    BY <1>2, <1>5 DEF Spots
  <2> HIDE DEF B
  <2>2. Count(s, p) = Count(t, p) /\ Count(t, p) \in Nat
    BY <1>3, <2>1, SpotsFinite
  <2> QED BY <1>1, <1>2, <1>5, <2>2 DEF Is, Bit
<1> QED BY <1>4, <1>5

-----------------------------------------------------------------------------
(* The points of the log that the reader has not passed                    *)

Pending(l, c) == SubSeq(l, c + 1, Len(l))

LEMMA PendingType ==
    ASSUME NEW S, NEW l \in Seq(S), NEW c \in 0..Len(l)
    PROVE  /\ Pending(l, c) \in Seq(S)
           /\ Len(Pending(l, c)) = Len(l) - c
           /\ \A i \in 1..(Len(l) - c) : Pending(l, c)[i] = l[c + i]
<1>1. Len(l) \in Nat /\ \A i \in 1..Len(l) : l[i] \in S
  BY LenProperties, ElementOfSeq
<1>2. \A i \in (c + 1)..Len(l) : l[i] \in S
  BY <1>1
<1>3. c + 1 \in Int /\ Len(l) \in Int
  BY <1>1
<1>4. /\ SubSeq(l, c + 1, Len(l)) \in Seq(S)
      /\ Len(SubSeq(l, c + 1, Len(l))) = IF c + 1 <= Len(l) THEN Len(l) - (c + 1) + 1 ELSE 0
      /\ \A i \in 1..(Len(l) - (c + 1) + 1) : SubSeq(l, c + 1, Len(l))[i] = l[c + 1 + i - 1]
  BY <1>2, <1>3, SubSeqProperties
<1> DEFINE q == SubSeq(l, c + 1, Len(l))
<1> HIDE DEF q
<1>5. q = Pending(l, c)
  BY DEF q, Pending
<1>6. /\ q \in Seq(S)
      /\ Len(q) = IF c + 1 <= Len(l) THEN Len(l) - (c + 1) + 1 ELSE 0
      /\ \A i \in 1..(Len(l) - (c + 1) + 1) : q[i] = l[c + 1 + i - 1]
  BY <1>4 DEF q
<1>7. Len(q) = Len(l) - c
  BY <1>1, <1>6
<1>8. ASSUME NEW i \in 1..(Len(l) - c) PROVE q[i] = l[c + i]
  <2>1. i \in 1..(Len(l) - (c + 1) + 1) /\ c + 1 + i - 1 = c + i
    BY <1>1
  <2> QED BY <1>6, <2>1
<1> QED BY <1>5, <1>6, <1>7, <1>8

LEMMA PendingGrows ==
    ASSUME NEW S, NEW l \in Seq(S), NEW c \in 0..Len(l), NEW q \in S
    PROVE  /\ Append(l, q) \in Seq(S) /\ c \in 0..Len(Append(l, q))
           /\ Pending(Append(l, q), c) = Append(Pending(l, c), q)
<1>1. PICK a \in Seq(S) : a = Append(l, q)
  BY AppendProperties
<1>2. /\ Len(l) \in Nat /\ Len(a) = Len(l) + 1 /\ a[Len(l) + 1] = q
      /\ \A i \in 1..Len(l) : a[i] = l[i]
  BY <1>1, AppendProperties, LenProperties
<1>3. c \in 0..Len(a)
  BY <1>2
<1>4. PICK x \in Seq(S) : x = Pending(a, c)
  BY <1>3, PendingType
<1>5. /\ Len(x) = Len(a) - c /\ \A i \in 1..(Len(a) - c) : x[i] = a[c + i]
  BY <1>3, <1>4, PendingType
<1>6. PICK y \in Seq(S) : y = Pending(l, c)
  BY PendingType
<1>7. /\ Len(y) = Len(l) - c /\ \A i \in 1..(Len(l) - c) : y[i] = l[c + i]
  BY <1>6, PendingType
<1>8. PICK z \in Seq(S) : z = Append(y, q)
  BY AppendProperties
<1>9. /\ Len(z) = Len(y) + 1 /\ z[Len(y) + 1] = q
      /\ \A i \in 1..Len(y) : z[i] = y[i]
  BY <1>8, AppendProperties
<1>10. Len(x) = Len(z) /\ Len(y) \in Nat
  BY <1>2, <1>5, <1>7, <1>9
<1>11. ASSUME NEW i \in 1..Len(x) PROVE x[i] = z[i]
  <2>1. CASE i = Len(y) + 1
    <3>1. z[i] = q
      BY <1>9, <2>1
    <3>2. i \in 1..(Len(a) - c) /\ c + i = Len(l) + 1
      BY <1>2, <1>5, <1>7, <2>1
    <3> QED BY <1>2, <1>5, <3>1, <3>2
  <2>2. CASE i # Len(y) + 1
    <3>1. i \in Nat /\ i >= 1 /\ i <= Len(l) - c + 1 /\ i # Len(l) - c + 1
      BY <1>2, <1>5, <1>7, <2>2
    <3>2. i \in 1..Len(y) /\ c + i \in 1..Len(l) /\ i \in 1..(Len(a) - c)
      BY <1>2, <1>7, <3>1
    <3> QED BY <1>2, <1>5, <1>7, <1>9, <3>2
  <2> QED BY <2>1, <2>2
<1>12. x = z
  BY <1>10, <1>11, SeqEqual
<1> QED BY <1>1, <1>3, <1>4, <1>6, <1>8, <1>12

LEMMA PendingShrinks ==
    ASSUME NEW S, NEW l \in Seq(S), NEW c \in 0..Len(l), c < Len(l)
    PROVE  /\ Pending(l, c) # <<>> /\ c + 1 \in 0..Len(l)
           /\ Pending(l, c + 1) = Tail(Pending(l, c))
           /\ Head(Pending(l, c)) = l[c + 1]
<1>1. Len(l) \in Nat /\ c + 1 \in 0..Len(l)
  BY LenProperties
<1>2. PICK x \in Seq(S) : x = Pending(l, c)
  BY PendingType
<1>3. Len(x) = Len(l) - c /\ \A i \in 1..(Len(l) - c) : x[i] = l[c + i]
  BY <1>2, PendingType
<1>4. x # <<>>
  BY <1>1, <1>3, EmptySeq
<1>5. PICK y \in Seq(S) : y = Pending(l, c + 1)
  BY <1>1, PendingType
<1>6. /\ Len(y) = Len(l) - (c + 1)
      /\ \A i \in 1..(Len(l) - (c + 1)) : y[i] = l[(c + 1) + i]
  BY <1>1, <1>5, PendingType
<1>7. PICK t \in Seq(S) : t = Tail(x)
  BY <1>4, HeadTailProperties
<1>8. /\ Len(t) = Len(x) - 1 /\ Head(x) = x[1]
      /\ \A i \in 1..Len(t) : t[i] = x[i + 1]
  BY <1>4, <1>7, HeadTailProperties
<1>9. Len(y) = Len(t)
  BY <1>1, <1>3, <1>6, <1>8
<1>10. ASSUME NEW i \in 1..Len(y) PROVE y[i] = t[i]
  <2>1. i \in 1..(Len(l) - (c + 1)) /\ i + 1 \in 1..(Len(l) - c) /\ c + (i + 1) = (c + 1) + i
    BY <1>1, <1>6
  <2> QED BY <1>3, <1>6, <1>8, <1>9, <2>1
<1>11. y = t
  BY <1>9, <1>10, SeqEqual
<1>12. x[1] = l[c + 1]
  BY <1>1, <1>3
<1> QED BY <1>1, <1>2, <1>4, <1>5, <1>7, <1>8, <1>11, <1>12

-----------------------------------------------------------------------------
(* The points of the batches on the wire                                   *)

Batches == {b \in Seq(Points) : Len(b) <= BatchSize}

Cells(w, p) == {x \in (1..Len(w)) \X (1..BatchSize) :
                    x[2] <= Len(w[x[1]]) /\ w[x[1]][x[2]] = p}

LEMMA CellsAre ==
    ASSUME NEW w \in Seq(Batches), NEW p
    PROVE  /\ Len(w) \in Nat /\ \A i \in 1..Len(w) : w[i] \in Batches
           /\ \A i, j : <<i, j>> \in Cells(w, p) <=> i \in 1..Len(w) /\ j \in Spots(w[i], p)
           /\ \A x \in Cells(w, p) : x = <<x[1], x[2]>>
           /\ IsFiniteSet(Cells(w, p)) /\ Cardinality(Cells(w, p)) \in Nat
<1>1. Len(w) \in Nat /\ \A i \in 1..Len(w) : w[i] \in Batches
  BY LenProperties, ElementOfSeq
<1>2. BatchSize \in Nat
  BY AgentStreamAssumption
<1>3. ASSUME NEW i, NEW j
      PROVE  <<i, j>> \in Cells(w, p) <=> i \in 1..Len(w) /\ j \in Spots(w[i], p)
  <2>1. CASE i \in 1..Len(w)
    <3>1. Len(w[i]) \in Nat /\ Len(w[i]) <= BatchSize
      BY <1>1, <2>1, LenProperties DEF Batches
    <3>2. j \in 1..BatchSize /\ j <= Len(w[i]) <=> j \in 1..Len(w[i])
      BY <1>2, <3>1
    <3>3. <<i, j>> \in Cells(w, p)
          <=> i \in 1..Len(w) /\ j \in 1..BatchSize /\ j <= Len(w[i]) /\ w[i][j] = p
      BY DEF Cells
    <3> QED BY <2>1, <3>2, <3>3 DEF Spots
  <2>2. CASE i \notin 1..Len(w)
    BY <2>2 DEF Cells
  <2> QED BY <2>1, <2>2
<1>4. \A x \in Cells(w, p) : x = <<x[1], x[2]>>
  BY DEF Cells
<1>5. IsFiniteSet(1..Len(w)) /\ IsFiniteSet(1..BatchSize)
  BY <1>1, <1>2, FS_Interval
<1>6. IsFiniteSet((1..Len(w)) \X (1..BatchSize))
  BY <1>5, FS_Product
<1>7. Cells(w, p) \subseteq (1..Len(w)) \X (1..BatchSize)
  BY DEF Cells
<1>8. IsFiniteSet(Cells(w, p)) /\ Cardinality(Cells(w, p)) \in Nat
  BY <1>6, <1>7, FS_Subset, FS_CardinalityType
<1> QED BY <1>1, <1>3, <1>4, <1>8

LEMMA NoCells ==
    ASSUME NEW p PROVE Cells(<<>>, p) = {}
<1>1. <<>> \in Seq(Batches) /\ Len(<<>>) = 0
  BY EmptySeq
<1>2. ASSUME NEW i, NEW j, <<i, j>> \in Cells(<<>>, p) PROVE FALSE
  <2>1. i \in 1..0
    BY <1>1, <1>2, CellsAre
  <2> QED BY <2>1
<1>3. \A x \in Cells(<<>>, p) : x = <<x[1], x[2]>>
  BY <1>1, CellsAre
<1> QED BY <1>2, <1>3

\* A row of cells.
LEMMA RowOf ==
    ASSUME NEW b \in Batches, NEW k, NEW p
    PROVE  /\ IsFiniteSet({k} \X Spots(b, p))
           /\ Cardinality({k} \X Spots(b, p)) = Count(b, p)
<1>1. /\ IsFiniteSet(Spots(b, p)) /\ Count(b, p) = Cardinality(Spots(b, p))
      /\ Count(b, p) \in Nat
  BY SpotsFinite DEF Batches
<1>2. IsFiniteSet({k}) /\ Cardinality({k}) = 1
  BY FS_Singleton
<1>3. /\ IsFiniteSet({k} \X Spots(b, p))
      /\ Cardinality({k} \X Spots(b, p)) = Cardinality({k}) * Cardinality(Spots(b, p))
  BY <1>1, <1>2, FS_Product
<1> QED BY <1>1, <1>2, <1>3

LEMMA WireGrows ==
    ASSUME NEW w \in Seq(Batches), NEW b \in Batches, NEW p
    PROVE  /\ Append(w, b) \in Seq(Batches)
           /\ Cardinality(Cells(Append(w, b), p)) = Cardinality(Cells(w, p)) + Count(b, p)
<1>1. PICK a \in Seq(Batches) : a = Append(w, b)
  BY AppendProperties
<1>2. /\ Len(a) = Len(w) + 1 /\ a[Len(w) + 1] = b /\ Len(w) \in Nat
      /\ \A i \in 1..Len(w) : a[i] = w[i]
  BY <1>1, AppendProperties, LenProperties
<1> DEFINE k == Len(w) + 1
           R == {k} \X Spots(b, p)
<1>3. ASSUME NEW i, NEW j PROVE <<i, j>> \in Cells(a, p) <=> <<i, j>> \in Cells(w, p) \cup R
  <2>1. i \in 1..Len(a) <=> i \in 1..Len(w) \/ i = k
    BY <1>2
  <2>2. <<i, j>> \in R <=> i = k /\ j \in Spots(b, p)
    OBVIOUS
  <2>3. <<i, j>> \in Cells(a, p) <=> i \in 1..Len(a) /\ j \in Spots(a[i], p)
    BY CellsAre
  <2>4. <<i, j>> \in Cells(w, p) <=> i \in 1..Len(w) /\ j \in Spots(w[i], p)
    BY CellsAre
  <2> HIDE DEF R, k
  <2>5. k = Len(w) + 1
    BY DEF k
  <2> QED BY <1>2, <2>1, <2>2, <2>3, <2>4, <2>5
<1>4. \A x \in R : x = <<x[1], x[2]>>
  OBVIOUS
<1>5. Cells(w, p) \cap R = {}
  <2>1. ASSUME NEW i, NEW j, <<i, j>> \in Cells(w, p), <<i, j>> \in R PROVE FALSE
    <3>1. i \in 1..Len(w) /\ i = Len(w) + 1
      BY <2>1, CellsAre
    <3> QED BY <1>2, <3>1
  <2>2. \A x \in Cells(w, p) : x = <<x[1], x[2]>>
    BY CellsAre
  <2> HIDE DEF R, k
  <2> QED BY <2>1, <2>2
<1> HIDE DEF R
<1>6. Cells(a, p) = Cells(w, p) \cup R
  <2>1. \A x \in Cells(w, p) \cup Cells(a, p) : x = <<x[1], x[2]>>
    BY CellsAre
  <2>2. \A x \in Cells(w, p) \cup Cells(a, p) \cup R : x = <<x[1], x[2]>>
    BY <1>4, <2>1
  <2>3. ASSUME NEW x PROVE x \in Cells(a, p) <=> x \in Cells(w, p) \cup R
    BY <1>3, <2>2
  <2> QED BY <2>3
<1>7. IsFiniteSet(R) /\ Cardinality(R) = Count(b, p)
  BY RowOf DEF R
<1>8. IsFiniteSet(Cells(w, p))
  BY CellsAre
<1>9. Cardinality(Cells(a, p)) = Cardinality(Cells(w, p)) + Cardinality(R)
  BY <1>5, <1>6, <1>7, <1>8, AddUp
<1> QED BY <1>1, <1>7, <1>9

LEMMA WireShrinks ==
    ASSUME NEW w \in Seq(Batches), w # <<>>, NEW p
    PROVE  /\ Head(w) \in Batches /\ Tail(w) \in Seq(Batches)
           /\ Cardinality(Cells(w, p)) = Cardinality(Cells(Tail(w), p)) + Count(Head(w), p)
<1>1. PICK t \in Seq(Batches) : t = Tail(w)
  BY HeadTailProperties
<1>2. /\ Len(w) \in Nat /\ Len(w) > 0 /\ Len(t) = Len(w) - 1
      /\ Head(w) = w[1] /\ Head(w) \in Batches
      /\ \A i \in 1..Len(t) : t[i] = w[i + 1]
  BY <1>1, HeadTailProperties, LenProperties, EmptySeq
<1> DEFINE R == {1} \X Spots(Head(w), p)
           U == Cells(w, p) \ R
<1>3. ASSUME NEW i, NEW j PROVE <<i, j>> \in R <=> <<i, j>> \in Cells(w, p) /\ i = 1
  <2>1. <<i, j>> \in R <=> i = 1 /\ j \in Spots(Head(w), p)
    OBVIOUS
  <2>2. <<i, j>> \in Cells(w, p) <=> i \in 1..Len(w) /\ j \in Spots(w[i], p)
    BY CellsAre
  <2>3. 1 \in 1..Len(w)
    BY <1>2
  <2> HIDE DEF R
  <2> QED BY <1>2, <2>1, <2>2, <2>3
<1>4. /\ \A x \in R : x = <<x[1], x[2]>>
      /\ \A x \in Cells(w, p) : x = <<x[1], x[2]>>
      /\ \A x \in Cells(t, p) : x = <<x[1], x[2]>>
  <2>1. \A x \in R : x = <<x[1], x[2]>>
    OBVIOUS
  <2> QED BY <2>1, CellsAre
<1>5. IsFiniteSet(R) /\ Cardinality(R) = Count(Head(w), p)
  BY <1>2, RowOf
<1>6. IsFiniteSet(Cells(w, p)) /\ IsFiniteSet(Cells(t, p))
  BY CellsAre
<1> HIDE DEF R
<1>7. ASSUME NEW i, NEW j PROVE <<i + 1, j>> \in U /\ i \in Nat <=> <<i, j>> \in Cells(t, p)
  <2>1. <<i, j>> \in Cells(t, p) <=> i \in 1..Len(t) /\ j \in Spots(t[i], p)
    BY CellsAre
  <2>2. <<i + 1, j>> \in Cells(w, p) <=> i + 1 \in 1..Len(w) /\ j \in Spots(w[i + 1], p)
    BY CellsAre
  <2>3. i \in 1..Len(t) <=> i \in Nat /\ i + 1 \in 1..Len(w) /\ i + 1 # 1
    BY <1>2
  <2>4. <<i + 1, j>> \in R <=> <<i + 1, j>> \in Cells(w, p) /\ i + 1 = 1
    BY <1>3
  <2> QED BY <1>2, <2>1, <2>2, <2>3, <2>4
<1>8. ASSUME NEW i, NEW j, <<i, j>> \in U PROVE i - 1 \in Nat /\ (i - 1) + 1 = i
  <2>1. i \in 1..Len(w) /\ i # 1
    BY <1>3, <1>8, CellsAre
  <2> QED BY <1>2, <2>1
<1> DEFINE f == [x \in Cells(t, p) |-> <<x[1] + 1, x[2]>>]
<1>9. IsFiniteSet(U) /\ Cardinality(U) = Cardinality(Cells(t, p))
  <2>1. \A x \in Cells(t, p) : x[1] \in Nat
    <3>1. ASSUME NEW x \in Cells(t, p) PROVE x[1] \in Nat
      <4>1. <<x[1], x[2]>> \in Cells(t, p)
        BY <1>4
      <4> QED BY <1>7, <4>1
    <3> QED BY <3>1
  <2>2. \A x \in Cells(t, p) : <<x[1] + 1, x[2]>> \in U
    BY <1>4, <1>7
  <2>3. \A x \in U : \E y \in Cells(t, p) : x = <<y[1] + 1, y[2]>>
    <3> SUFFICES ASSUME NEW x \in U PROVE \E y \in Cells(t, p) : x = <<y[1] + 1, y[2]>>
      OBVIOUS
    <3>1. x = <<x[1], x[2]>>
      BY <1>4
    <3>2. x[1] - 1 \in Nat /\ (x[1] - 1) + 1 = x[1]
      BY <1>8, <3>1
    <3> DEFINE y == <<x[1] - 1, x[2]>>
    <3>3. y[1] + 1 = x[1] /\ y[2] = x[2]
      BY <3>2
    <3>4. y \in Cells(t, p)
      BY <1>7, <3>1, <3>2
    <3> QED BY <3>1, <3>3, <3>4
  <2> HIDE DEF U
  <2>4. f \in [Cells(t, p) -> U]
    BY <2>2
  <2>5. \A x, y \in Cells(t, p) : f[x] = f[y] => x = y
    <3> SUFFICES ASSUME NEW x \in Cells(t, p), NEW y \in Cells(t, p), f[x] = f[y] PROVE x = y
      OBVIOUS
    <3>1. x[1] + 1 = y[1] + 1 /\ x[2] = y[2]
      OBVIOUS
    <3>2. x[1] = y[1]
      BY <2>1, <3>1
    <3> QED BY <1>4, <3>1, <3>2
  <2>6. \A x \in U : \E y \in Cells(t, p) : f[y] = x
    BY <2>3
  <2> HIDE DEF f
  <2>7. f \in Bijection(Cells(t, p), U)
    BY <2>4, <2>5, <2>6 DEF Bijection, Injection, IsInjective, Surjection
  <2> QED BY <1>6, <2>7, FS_Bijection DEF ExistsBijection
<1>10. R \subseteq Cells(w, p)
  BY <1>3, <1>4
<1>11. U \cap R = {} /\ Cells(w, p) = U \cup R
  BY <1>10
<1> HIDE DEF U
<1>12. Cardinality(Cells(w, p)) = Cardinality(U) + Cardinality(R)
  BY <1>5, <1>9, <1>11, AddUp
<1> QED BY <1>1, <1>2, <1>5, <1>9, <1>12

LEMMA InCarried ==
    ASSUME NEW v \in Seq(Batches), NEW p
    PROVE  p \in Carried(v) <=> \E i \in 1..Len(v) : \E j : j \in Spots(v[i], p)
<1>1. \A i \in 1..Len(v) : v[i] \in Seq(Points)
  BY CellsAre DEF Batches
<1>2. \A i \in 1..Len(v) : p \in ToSet(v[i]) <=> \E j : j \in Spots(v[i], p)
  <2> SUFFICES ASSUME NEW i \in 1..Len(v)
               PROVE  p \in ToSet(v[i]) <=> \E j : j \in Spots(v[i], p)
    OBVIOUS
  <2>1. DOMAIN v[i] = 1..Len(v[i])
    BY <1>1, LenProperties
  <2> QED BY <2>1 DEF ToSet, Spots
<1>3. ToSet(v) = {v[i] : i \in 1..Len(v)}
  BY LenProperties DEF ToSet
<1> QED BY <1>2, <1>3 DEF Carried

\* A wire that holds a point at most once and breaks holds it on one side.
LEMMA Torn ==
    ASSUME NEW w \in Seq(Batches), NEW n \in 0..Len(w), NEW p,
           Cardinality(Cells(w, p)) <= 1
    PROVE  /\ p \in Carried(SubSeq(w, 1, n)) \/ p \in Carried(SubSeq(w, n + 1, Len(w)))
              <=> Cardinality(Cells(w, p)) = 1
           /\ ~(p \in Carried(SubSeq(w, 1, n)) /\ p \in Carried(SubSeq(w, n + 1, Len(w))))
<1>1. Len(w) \in Nat /\ \A i \in 1..Len(w) : w[i] \in Batches
  BY CellsAre
<1>2. /\ SubSeq(w, 1, n) \in Seq(Batches) /\ Len(SubSeq(w, 1, n)) = n
      /\ \A i \in 1..n : SubSeq(w, 1, n)[i] = w[i]
  <2>1. 1 \in Int /\ n \in Int /\ \A i \in 1..n : w[i] \in Batches
    BY <1>1
  <2>2. /\ SubSeq(w, 1, n) \in Seq(Batches)
        /\ Len(SubSeq(w, 1, n)) = IF 1 <= n THEN n - 1 + 1 ELSE 0
        /\ \A i \in 1..(n - 1 + 1) : SubSeq(w, 1, n)[i] = w[1 + i - 1]
    BY <2>1, SubSeqProperties
  <2>3. (IF 1 <= n THEN n - 1 + 1 ELSE 0) = n /\ n - 1 + 1 = n
    BY <1>1
  <2>4. \A i \in 1..n : 1 + i - 1 = i
    BY <1>1
  <2> QED BY <2>2, <2>3, <2>4
<1>3. /\ Pending(w, n) \in Seq(Batches) /\ Len(Pending(w, n)) = Len(w) - n
      /\ \A i \in 1..(Len(w) - n) : Pending(w, n)[i] = w[n + i]
  BY PendingType
<1> DEFINE F == p \in Carried(SubSeq(w, 1, n))
           R == p \in Carried(SubSeq(w, n + 1, Len(w)))
           C == Cells(w, p)
<1>4. F <=> \E i \in 1..n : \E j : <<i, j>> \in C
  <2>1. F <=> \E i \in 1..n : \E j : j \in Spots(w[i], p)
    BY <1>2, InCarried
  <2>2. \A i \in 1..n : i \in 1..Len(w)
    BY <1>1
  <2> HIDE DEF F
  <2> QED BY <2>1, <2>2, CellsAre
<1>5. R <=> \E i \in (n + 1)..Len(w) : \E j : <<i, j>> \in C
  <2>1. R <=> \E i \in 1..(Len(w) - n) : \E j : j \in Spots(w[n + i], p)
    BY <1>3, InCarried DEF Pending
  <2> HIDE DEF R
  <2>2. ASSUME R PROVE \E i \in (n + 1)..Len(w) : \E j : <<i, j>> \in C
    <3>1. PICK i \in 1..(Len(w) - n) : \E j : j \in Spots(w[n + i], p)
      BY <2>1, <2>2
    <3>2. n + i \in (n + 1)..Len(w) /\ n + i \in 1..Len(w)
      BY <1>1
    <3> QED BY <3>1, <3>2, CellsAre
  <2>3. ASSUME NEW i \in (n + 1)..Len(w), NEW j, <<i, j>> \in C PROVE R
    <3>1. i - n \in 1..(Len(w) - n) /\ n + (i - n) = i
      BY <1>1
    <3>2. j \in Spots(w[i], p)
      BY <2>3, CellsAre
    <3> QED BY <2>1, <3>1, <3>2
  <2> QED BY <2>2, <2>3
<1>6. /\ IsFiniteSet(C) /\ Cardinality(C) \in Nat
      /\ \A x \in C : x = <<x[1], x[2]>>
      /\ \A i, j : <<i, j>> \in C => i \in 1..Len(w)
  BY CellsAre
<1> HIDE DEF F, R
<1>7. CASE Cardinality(C) = 1
  <2>1. PICK x : C = {x}
    BY <1>6, <1>7, FS_Singleton
  <2>2. <<x[1], x[2]>> \in C /\ \A i, j : <<i, j>> \in C => i = x[1]
    BY <1>6, <2>1
  <2>3. x[1] \in 1..Len(w)
    BY <1>6, <2>2
  <2>4. x[1] \in 1..n <=> ~(x[1] \in (n + 1)..Len(w))
    BY <1>1, <2>3
  <2>5. F <=> x[1] \in 1..n
    BY <1>4, <2>2
  <2>6. R <=> x[1] \in (n + 1)..Len(w)
    BY <1>5, <2>2
  <2> QED BY <1>7, <2>4, <2>5, <2>6 DEF F, R
<1>8. CASE Cardinality(C) # 1
  <2>1. Cardinality(C) = 0
    BY <1>6, <1>8
  <2>2. C = {}
    BY <1>6, <2>1, FS_EmptySet
  <2>3. ~F /\ ~R
    BY <1>4, <1>5, <2>2
  <2> QED BY <1>8, <2>3 DEF F, R
<1> QED BY <1>7, <1>8

-----------------------------------------------------------------------------
(* The hands of the collectors                                             *)

Hands(f, p) == Cardinality({s \in Sources : f[s].point = p})

LEMMA HandsType ==
    ASSUME NEW f, NEW p PROVE Hands(f, p) \in Nat
<1>1. IsFiniteSet({s \in Sources : f[s].point = p})
  BY AgentStreamAssumption, FS_Subset
<1> QED BY <1>1, FS_CardinalityType DEF Hands

\* One of them gives away what it has and takes something else, or nothing.
LEMMA HandsChange ==
    ASSUME NEW f, NEW g, NEW s \in Sources, NEW p,
           \A t \in Sources : t # s => g[t] = f[t]
    PROVE  Hands(g, p) + Is(f[s].point, p) = Hands(f, p) + Is(g[s].point, p)
<1> DEFINE A == {t \in Sources \ {s} : f[t].point = p}
<1>1. IsFiniteSet(A) /\ s \notin A
  BY AgentStreamAssumption, FS_Subset
<1>2. /\ f[s].point = p => {t \in Sources : f[t].point = p} = A \cup {s}
      /\ f[s].point # p => {t \in Sources : f[t].point = p} = A
  OBVIOUS
<1>4. /\ g[s].point = p => {t \in Sources : g[t].point = p} = A \cup {s}
      /\ g[s].point # p => {t \in Sources : g[t].point = p} = A
  OBVIOUS
<1> HIDE DEF A
<1>5. Cardinality(A \cup {s}) = Cardinality(A) + 1 /\ Cardinality(A) \in Nat
  BY <1>1, FS_AddElement, FS_CardinalityType
<1>6. /\ f[s].point = p => Hands(f, p) = Cardinality(A) + 1 /\ Is(f[s].point, p) = 1
      /\ f[s].point # p => Hands(f, p) = Cardinality(A) /\ Is(f[s].point, p) = 0
  BY <1>2, <1>5, Zenon DEF Hands, Is, Bit
<1>7. /\ g[s].point = p => Hands(g, p) = Cardinality(A) + 1 /\ Is(g[s].point, p) = 1
      /\ g[s].point # p => Hands(g, p) = Cardinality(A) /\ Is(g[s].point, p) = 0
  BY <1>4, <1>5, Zenon DEF Hands, Is, Bit
<1> DEFINE a == Cardinality(A)
           b == Is(f[s].point, p)
           c == Is(g[s].point, p)
           x == Hands(f, p)
           y == Hands(g, p)
<1>8. a \in Nat /\ x \in Nat /\ y \in Nat
  BY <1>5, HandsType
<1>9. /\ \/ b = 1 /\ x = a + 1
         \/ b = 0 /\ x = a
      /\ \/ c = 1 /\ y = a + 1
         \/ c = 0 /\ y = a
  BY <1>6, <1>7, Zenon
<1>10. y + b = x + c
  <2> HIDE DEF a, b, c, x, y
  <2> QED BY <1>8, <1>9
<1> QED BY <1>10, Zenon

-----------------------------------------------------------------------------
(* The types                                                               *)

\* Only a goroutine that writes, offers or reports has a point in its hands.
Goroutines == [at : {"select", "exited", "write", "offer", "report"},
               point : Points \cup {NoPoint}]
Busy(g) == g.at \in {"write", "offer", "report"} => g.point \in Points

Queues == /\ log \in Seq(Points) /\ out \in Seq(Points) /\ ram \in Seq(Points)
          /\ cursor \in 0..Len(log)
          /\ batch \in Seq(Points) /\ Len(batch) < BatchSize /\ wire \in Seq(Batches)

Threads == /\ src \in [Sources -> Goroutines] /\ \A s \in Sources : Busy(src[s])
           /\ recv \in Goroutines /\ Busy(recv)

Makers == /\ made \in [Sources \cup {"result"} -> Nat] /\ made["result"] <= MaxCommands
          /\ \A s \in Sources : made[s] <= MaxPoints

StreamType == Queues /\ Threads /\ Makers

LEMMA NoPointApart == NoPoint \notin Points
<1>1. \A q \in Points : q = <<q[1], q[2]>>
  BY DEF Points
<1>2. \A a, b : <<a, b>> # <<>>
  OBVIOUS
<1> QED BY <1>1, <1>2 DEF NoPoint

LEMMA StreamTypeInit == Init => StreamType
<1> SUFFICES ASSUME Init PROVE StreamType
  OBVIOUS
<1>1. BatchSize \in Nat \ {0} /\ MaxPoints \in Nat /\ MaxCommands \in Nat
  BY AgentStreamAssumption
<1>2. Queues
  <2>1. log = <<>> /\ cursor = 0 /\ out = <<>> /\ ram = <<>> /\ batch = <<>> /\ wire = <<>>
    BY DEF Init, Queue!Init
  <2>2. <<>> \in Seq(Points) /\ <<>> \in Seq(Batches) /\ Len(<<>>) = 0
    BY EmptySeq
  <2> QED BY <1>1, <2>1, <2>2 DEF Queues
<1>3. Threads
  BY DEF Init, Threads, Goroutines, Busy, Waiting, At
<1>4. Makers
  BY <1>1 DEF Init, Makers
<1> QED BY <1>2, <1>3, <1>4 DEF StreamType

-----------------------------------------------------------------------------
(* The places of a point as twelve numbers, and what moves between them       *)

Held(g, p) == Is(g.point, p)

Numbers(p) ==
    /\ Hands(src, p) \in Nat /\ Held(recv, p) \in 0..1
    /\ Count(Pending(log, cursor), p) \in Nat /\ Count(out, p) \in Nat
    /\ Count(ram, p) \in Nat /\ Count(batch, p) \in Nat
    /\ Cardinality(Cells(wire, p)) \in Nat
    /\ In(got, p) \in 0..1 /\ In(lost, p) \in 0..1 /\ In(dropped, p) \in 0..1
    /\ In(passed, p) \in 0..1 /\ In(refused, p) \in 0..1

LEMMA NumbersHold ==
    ASSUME Queues, NEW p PROVE Numbers(p)
<1>1. Pending(log, cursor) \in Seq(Points)
  BY PendingType DEF Queues
<1>2. /\ Count(Pending(log, cursor), p) \in Nat /\ Count(out, p) \in Nat
      /\ Count(ram, p) \in Nat /\ Count(batch, p) \in Nat
  BY <1>1, SpotsFinite DEF Queues
<1>3. Cardinality(Cells(wire, p)) \in Nat
  BY CellsAre DEF Queues
<1>4. /\ Held(recv, p) \in 0..1
      /\ In(got, p) \in 0..1 /\ In(lost, p) \in 0..1 /\ In(dropped, p) \in 0..1
      /\ In(passed, p) \in 0..1 /\ In(refused, p) \in 0..1
  BY DEF Held, In, Is, Bit
<1> QED BY <1>2, <1>3, <1>4, HandsType DEF Numbers

Sum(p) ==
    Hands(src, p) + Held(recv, p) + Count(Pending(log, cursor), p) + Count(out, p)
    + Count(ram, p) + Count(batch, p) + Cardinality(Cells(wire, p))
    + In(got, p) + In(lost, p) + In(dropped, p)
    + In(passed, p) + In(refused, p)

LEMMA SumIs == \A p : Places(p) = Sum(p)
BY Zenon DEF Places, Sum, Hands, Held, Is, In, Pending, Cells, OnWire

\* A point that is somewhere is in no set it is about to be added to.
LEMMA AddedTo ==
    ASSUME NEW S, NEW q, NEW p, q = p => p \notin S
    PROVE  In(S \cup {q}, p) = In(S, p) + Is(q, p)
<1>1. CASE q = p
  <2>1. p \in S \cup {q} /\ p \notin S
    BY <1>1
  <2>2. In(S \cup {q}, p) = 1 /\ In(S, p) = 0 /\ Is(q, p) = 1
    BY <1>1, <2>1, Zenon DEF In, Is, Bit
  <2> QED BY <2>2
<1>2. CASE q # p
  <2>1. p \in S \cup {q} <=> p \in S
    BY <1>2
  <2>2. In(S \cup {q}, p) = In(S, p) /\ Is(q, p) = 0
    BY <1>2, <2>1, Zenon DEF In, Is, Bit
  <2> QED BY <2>2, BitType
<1> QED BY <1>1, <1>2

LEMMA AllAdded ==
    ASSUME NEW S, NEW b \in Seq(Points), NEW p, Count(b, p) <= 1,
           Count(b, p) = 1 => p \notin S
    PROVE  In(S \cup ToSet(b), p) = In(S, p) + Count(b, p)
<1>1. DOMAIN b = 1..Len(b)
  BY LenProperties
<1>2. p \in ToSet(b) <=> Count(b, p) # 0
  <2>1. Count(b, p) = 0 <=> \A i \in 1..Len(b) : b[i] # p
    BY SpotsFinite
  <2> QED BY <1>1, <2>1 DEF ToSet
<1>3. Count(b, p) \in Nat
  BY SpotsFinite
<1>4. CASE Count(b, p) = 1
  <2>1. p \in S \cup ToSet(b) /\ p \notin S
    BY <1>2, <1>4
  <2>2. In(S \cup ToSet(b), p) = 1 /\ In(S, p) = 0
    BY <2>1, Zenon DEF In, Is, Bit
  <2> QED BY <1>4, <2>2
<1>5. CASE Count(b, p) = 0
  <2>1. p \in S \cup ToSet(b) <=> p \in S
    BY <1>2, <1>5
  <2>2. In(S \cup ToSet(b), p) = In(S, p)
    BY <2>1, Zenon DEF In, Is, Bit
  <2> QED BY <1>5, <2>2, BitType
<1> QED BY <1>3, <1>4, <1>5

\* dataCh, open or closed.
LEMMA OfferMoves ==
    ASSUME Queues, NEW q \in Points, Offer(q), NEW p,
           q = p => p \notin dropped
    PROVE  /\ ram' \in Seq(Points)
           /\ Reached("dataClosed") => ram' = ram /\ dropped' = dropped
           /\ ~Reached("dataClosed") =>
                  Count(ram', p) + In(dropped', p) = Count(ram, p) + In(dropped, p) + Is(q, p)
<1>1. ram \in Seq(Points)
  BY DEF Queues
<1>2. CASE Reached("dataClosed")
  BY <1>1, <1>2 DEF Offer
<1>3. CASE ~Reached("dataClosed") /\ Room
  <2>1. ram' = Append(ram, q) /\ dropped' = dropped
    BY <1>3 DEF Offer
  <2>2. ram' \in Seq(Points) /\ Count(ram', p) = Count(ram, p) + Is(q, p)
    BY <1>1, <2>1, CountAppend
  <2>3. Count(ram, p) \in Nat /\ In(dropped, p) \in 0..1 /\ Is(q, p) \in 0..1
    BY <1>1, SpotsFinite, BitType
  <2>4. Count(ram', p) + In(dropped', p) = Count(ram, p) + In(dropped, p) + Is(q, p)
    BY <2>1, <2>2, <2>3
  <2> QED BY <1>3, <2>2, <2>4
<1>4. CASE ~Reached("dataClosed") /\ ~Room
  <2>1. ram' = ram /\ dropped' = dropped \cup {q}
    BY <1>4 DEF Offer
  <2>2. In(dropped', p) = In(dropped, p) + Is(q, p)
    BY <2>1, AddedTo
  <2>3. Count(ram, p) \in Nat /\ In(dropped, p) \in 0..1 /\ Is(q, p) \in 0..1
    BY <1>1, SpotsFinite, BitType
  <2>4. Count(ram', p) + In(dropped', p) = Count(ram, p) + In(dropped, p) + Is(q, p)
    <3>1. Count(ram', p) = Count(ram, p)
      BY <2>1, Zenon
    <3> QED BY <2>2, <2>3, <3>1
  <2> QED BY <1>1, <1>4, <2>1, <2>4
<1> QED BY <1>2, <1>3, <1>4

\* sendBatch: the batch is on the wire or lost, and no longer in the buffer.
LEMMA SendMoves ==
    ASSUME Queues, NEW b \in Batches, SendBatch(b), NEW p,
           Count(b, p) <= 1, Count(b, p) = 1 => p \notin lost
    PROVE  /\ batch' = <<>> /\ wire' \in Seq(Batches)
           /\ Cardinality(Cells(wire', p)) + In(lost', p)
                  = Cardinality(Cells(wire, p)) + In(lost, p) + Count(b, p)
<1>1. wire \in Seq(Batches) /\ b \in Seq(Points)
  BY DEF Queues, Batches
<1>2. batch' = <<>>
  BY DEF SendBatch, Emptied
<1>3. /\ Cardinality(Cells(wire, p)) \in Nat /\ In(lost, p) \in 0..1
      /\ Count(b, p) \in Nat
  BY <1>1, CellsAre, SpotsFinite, BitType
<1>4. CASE b = <<>> /\ wire' = wire /\ lost' = lost
  <2>1. Count(b, p) = 0
    BY <1>4, CountEmpty
  <2> QED BY <1>1, <1>2, <1>3, <1>4, <2>1
<1>5. CASE wire' = Append(wire, b) /\ lost' = lost
  <2>1. /\ wire' \in Seq(Batches)
        /\ Cardinality(Cells(wire', p)) = Cardinality(Cells(wire, p)) + Count(b, p)
    BY <1>1, <1>5, WireGrows
  <2> QED BY <1>2, <1>3, <1>5, <2>1
<1>6. CASE wire' = wire /\ lost' = lost \cup ToSet(b)
  <2>1. In(lost', p) = In(lost, p) + Count(b, p)
    BY <1>1, <1>6, AllAdded
  <2> QED BY <1>1, <1>2, <1>3, <1>6, <2>1
<1> QED BY <1>4, <1>5, <1>6 DEF SendBatch

LEMMA SumIsNext == \A p : Places(p)' = Sum(p)'
<1>1. (\A p : Places(p) = Sum(p))'
  BY SumIs, PTL
<1> QED BY <1>1

\* As every point is in at most one place, one number tells the others.
LEMMA AtMostOnce ==
    ASSUME Queues, Accounted, NEW p \in Points
    PROVE  Numbers(p) /\ Sum(p) \in 0..1
<1>1. Sum(p) = Bit(p \in Made)
  BY SumIs, Zenon DEF Accounted
<1>2. Bit(p \in Made) \in 0..1
  BY BitType
<1> QED BY <1>1, <1>2, NumbersHold, Zenon

\* A step that makes no point keeps the sum of each.
LEMMA Balanced ==
    ASSUME Accounted, made' = made, \A p \in Points : Sum(p)' = Sum(p)
    PROVE  Accounted'
<1>1. Made' = Made
  BY DEF Made
<1>2. ASSUME NEW p \in Points PROVE Places(p)' = Bit(p \in Made')
  <2>1. Places(p)' = Places(p)
    BY SumIs, SumIsNext, Zenon
  <2>2. Places(p) = Bit(p \in Made)
    BY DEF Accounted
  <2> QED BY <1>1, <2>1, <2>2, Zenon
<1> QED BY <1>2 DEF Accounted

\* A step that makes one.
LEMMA NewlyMade ==
    ASSUME Queues, Makers, Accounted, NEW m \in Sources \cup {"result"}, NEW q \in Points,
           q = <<m, made[m] + 1>>, made' = [made EXCEPT ![m] = @ + 1],
           \A p \in Points : Sum(p)' = Sum(p) + Is(q, p)
    PROVE  Accounted'
<1>1. \A t \in Sources \cup {"result"} : made[t] \in Nat
  BY DEF Makers
<1>2. \A p \in Points : /\ p = <<p[1], p[2]>> /\ p[1] \in Sources \cup {"result"}
                        /\ p[2] \in Nat
  BY AgentStreamAssumption DEF Points
<1>3. \A t \in Sources \cup {"result"} : made'[t] = IF t = m THEN made[m] + 1 ELSE made[t]
  BY DEF Makers
<1>4. ASSUME NEW p \in Points PROVE p \in Made' <=> p \in Made \/ p = q
  <2>1. /\ p \in Made' <=> p[2] <= made'[p[1]]
        /\ p \in Made <=> p[2] <= made[p[1]]
    BY DEF Made
  <2>2. CASE p[1] = m
    <3>1. p = q <=> p[2] = made[m] + 1
      BY <1>2, <2>2
    <3> QED BY <1>1, <1>2, <1>3, <2>1, <2>2, <3>1
  <2>3. CASE p[1] # m
    <3>1. p # q
      BY <1>2, <2>3
    <3> QED BY <1>2, <1>3, <2>1, <2>3, <3>1
  <2> QED BY <2>2, <2>3
<1>5. q \notin Made
  BY <1>1 DEF Made
<1>6. ASSUME NEW p \in Points PROVE Places(p)' = Bit(p \in Made')
  <2>1. Places(p)' = Places(p) + Is(q, p)
    BY SumIs, SumIsNext, Zenon
  <2>2. Places(p) = Bit(p \in Made)
    BY DEF Accounted
  <2>3. CASE p = q
    <3>1. Places(p) = 0 /\ Is(q, p) = 1 /\ Bit(p \in Made') = 1
      BY <1>4, <1>5, <2>2, <2>3, Zenon DEF Is, Bit
    <3> QED BY <2>1, <3>1
  <2>4. CASE p # q
    <3>1. Is(q, p) = 0 /\ Bit(p \in Made') = Bit(p \in Made)
      BY <1>4, <2>4, Zenon DEF Is, Bit
    <3>2. Places(p) \in 0..1
      BY <2>2, BitType
    <3>3. Places(p)' = Places(p)
      BY <2>1, <3>1, <3>2
    <3> QED BY <2>2, <3>1, <3>3, Zenon
  <2> QED BY <2>3, <2>4
<1> QED BY <1>6 DEF Accounted

\* What is on the wire, in the hands of the commands or in the disk queue has not
\* come to an end.
LEMMA NotYet ==
    ASSUME Queues, Accounted, NEW p \in Points
    PROVE  /\ Cardinality(Cells(wire, p)) \in Nat
           /\ Cardinality(Cells(wire, p)) + In(got, p) <= 1
           /\ Cardinality(Cells(wire, p)) + In(lost, p) <= 1
           /\ Cardinality(Cells(wire, p)) + In(refused, p) <= 1
           /\ Held(recv, p) + In(dropped, p) <= 1
           /\ Count(Pending(log, cursor), p) + In(passed, p) <= 1
<1> DEFINE h == Hands(src, p)  k == Held(recv, p)  d == Count(Pending(log, cursor), p)
           o == Count(out, p)  m == Count(ram, p)  c == Count(batch, p)
           w == Cardinality(Cells(wire, p))
           g == In(got, p)  l == In(lost, p)  x == In(dropped, p)
           a == In(passed, p)  r == In(refused, p)
<1>1. Numbers(p) /\ Sum(p) <= 1
  BY AtMostOnce
<1>2. /\ h \in Nat /\ k \in Nat /\ d \in Nat /\ o \in Nat /\ m \in Nat /\ c \in Nat
      /\ w \in Nat /\ g \in Nat /\ l \in Nat /\ x \in Nat /\ a \in Nat /\ r \in Nat
  BY <1>1 DEF Numbers
<1>3. h + k + d + o + m + c + w + g + l + x + a + r <= 1
  BY <1>1, Zenon DEF Sum
<1>4. w + g <= 1 /\ w + l <= 1 /\ w + r <= 1 /\ k + x <= 1 /\ d + a <= 1
  <2> HIDE DEF h, k, d, o, m, c, w, g, l, x, a, r
  <2> QED BY <1>2, <1>3
<1> QED BY <1>2, <1>4, Zenon

LEMMA SourceTypes ==
    ASSUME Threads, NEW s \in Sources, NEW v \in Goroutines, Busy(v),
           src' = [src EXCEPT ![s] = v], recv' = recv
    PROVE  Threads'
BY DEF Threads, Busy

LEMMA WaitingTypes ==
    /\ Waiting \in Goroutines /\ Busy(Waiting) /\ Waiting.point = NoPoint
    /\ \A p \in Points : Is(Waiting.point, p) = 0 /\ Is(NoPoint, p) = 0
<1>1. Waiting \in Goroutines /\ Busy(Waiting) /\ Waiting.point = NoPoint
  BY DEF Waiting, At, Goroutines, Busy
<1>2. \A p \in Points : NoPoint # p
  BY NoPointApart
<1> QED BY <1>1, <1>2, Zenon DEF Is, Bit

LEMMA SourceMoves ==
    ASSUME Threads, NEW s \in Sources, NEW v, NEW p, src' = [src EXCEPT ![s] = v]
    PROVE  Hands(src', p) + Is(src[s].point, p) = Hands(src, p) + Is(v.point, p)
<1>1. src'[s] = v /\ \A t \in Sources : t # s => src'[t] = src[t]
  BY DEF Threads
<1>2. PICK g : g = src'
  OBVIOUS
<1>3. g[s] = v /\ \A t \in Sources : t # s => g[t] = src[t]
  BY <1>1, <1>2
<1>4. Hands(g, p) + Is(src[s].point, p) = Hands(src, p) + Is(g[s].point, p)
  BY <1>3, HandsChange
<1> QED BY <1>2, <1>3, <1>4, Zenon

LEMMA InHands ==
    ASSUME Threads, NEW s \in Sources, NEW p \in Points, src[s].point = p
    PROVE  Hands(src, p) >= 1
<1>0. PICK g : g[s] = Waiting /\ \A t \in Sources : t # s => g[t] = src[t]
  <2>1. LET g == [src EXCEPT ![s] = Waiting]
        IN  g[s] = Waiting /\ \A t \in Sources : t # s => g[t] = src[t]
    BY DEF Threads
  <2> QED BY <2>1
<1>1. Hands(g, p) + Is(src[s].point, p) = Hands(src, p) + Is(g[s].point, p)
  BY <1>0, HandsChange
<1>2. Is(src[s].point, p) = 1 /\ Is(g[s].point, p) = 0
  BY <1>0, BitType, WaitingTypes, Zenon
<1>3. Hands(g, p) \in Nat /\ Hands(src, p) \in Nat
  BY HandsType
<1> QED BY <1>1, <1>2, <1>3

-----------------------------------------------------------------------------
(* The steps                                                               *)

LEMMA IdleKeeps ==
    ASSUME StreamType, Accounted,
           UNCHANGED <<log, cursor, out, ram, batch, wire, src, recv, made,
                       got, lost, dropped, passed, refused>>
    PROVE  StreamType' /\ Accounted'
<1>1. StreamType'
  BY DEF StreamType, Queues, Threads, Makers
<1>2. \A p \in Points : Sum(p)' = Sum(p)
  BY Zenon DEF Sum
<1> QED BY <1>1, <1>2, Balanced

LEMMA CollectKeeps ==
    ASSUME StreamType, Accounted, NEW s \in Sources, Collect(s)
    PROVE  StreamType' /\ Accounted'
<1> DEFINE q == <<s, made[s] + 1>>
           v == At(IF disk THEN "write" ELSE "offer", q)
<1>1. /\ UNCHANGED <<log, cursor, out, ram, batch, wire, recv, got, lost, dropped,
                     passed, refused>>
      /\ src[s] = Waiting /\ made[s] < MaxPoints
      /\ made' = [made EXCEPT ![s] = @ + 1] /\ src' = [src EXCEPT ![s] = v]
  BY DEF Collect, queue, data
<1>2. MaxPoints \in Nat /\ MaxCommands \in Nat /\ made[s] \in Nat /\ "result" \notin Sources
  BY AgentStreamAssumption DEF StreamType, Makers
<1>3. q \in Points
  BY <1>1, <1>2 DEF Points
<1>4. v \in Goroutines /\ Busy(v) /\ v.point = q
  BY <1>3 DEF Goroutines, Busy, At
<1> HIDE DEF q, v
<1>5. Threads'
  BY <1>1, <1>4, SourceTypes DEF StreamType
<1>6. Makers'
  <2>1. /\ made' \in [Sources \cup {"result"} -> Nat] /\ made'["result"] = made["result"]
        /\ made'[s] = made[s] + 1
        /\ \A t \in Sources : t # s => made'[t] = made[t]
    BY <1>1, <1>2 DEF StreamType, Makers
  <2> QED BY <1>1, <1>2, <2>1 DEF StreamType, Makers
<1>7. Queues'
  BY <1>1 DEF StreamType, Queues
<1>8. ASSUME NEW p \in Points PROVE Sum(p)' = Sum(p) + Is(q, p)
  <2>1. Hands(src', p) + Is(src[s].point, p) = Hands(src, p) + Is(v.point, p)
    BY <1>1, SourceMoves DEF StreamType
  <2>2. Is(src[s].point, p) = 0 /\ v.point = q
    BY <1>1, <1>4, WaitingTypes, Zenon
  <2>3. Numbers(p) /\ Hands(src', p) \in Nat /\ Is(q, p) \in 0..1
    BY NumbersHold, HandsType, BitType DEF StreamType
  <2>4. Hands(src', p) = Hands(src, p) + Is(q, p)
    BY <2>1, <2>2, <2>3 DEF Numbers
  <2> QED BY <1>1, <2>3, <2>4 DEF Sum, Numbers
<1>9. Accounted'
  <2>1. Queues /\ Makers /\ q = <<s, made[s] + 1>>
    BY DEF StreamType, q
  <2> QED BY <1>1, <1>3, <1>8, <2>1, NewlyMade
<1> QED BY <1>5, <1>6, <1>7, <1>9 DEF StreamType

LEMMA WriteDiskKeeps ==
    ASSUME StreamType, Accounted, NEW s \in Sources, WriteDisk(s)
    PROVE  StreamType' /\ Accounted'
<1>1. UNCHANGED <<out, ram, batch, wire, got, lost, dropped, passed, refused, made, recv>>
  BY DEF WriteDisk, data
<1>2. src[s] \in Goroutines /\ src[s].at = "write" /\ src[s].point \in Points
  BY DEF WriteDisk, StreamType, Threads, Busy
<1>3. Queues /\ Threads /\ Makers
  BY DEF StreamType
<1>4. Makers'
  BY <1>1, <1>3 DEF Makers
<1>5. CASE Queue!Accept(src[s].point) /\ src' = [src EXCEPT ![s] = Waiting]
  <2>1. log' = Append(log, src[s].point) /\ cursor' = cursor
    BY <1>5 DEF Queue!Accept
  <2>2. /\ log' \in Seq(Points) /\ cursor \in 0..Len(log')
        /\ Pending(log', cursor) = Append(Pending(log, cursor), src[s].point)
    BY <1>2, <1>3, <2>1, PendingGrows DEF Queues
  <2>3. Queues'
    BY <1>1, <1>3, <2>1, <2>2 DEF Queues
  <2>4. Threads'
    BY <1>1, <1>3, <1>5, SourceTypes, WaitingTypes
  <2>5. ASSUME NEW p \in Points PROVE Sum(p)' = Sum(p)
    <3>1. Hands(src', p) + Is(src[s].point, p) = Hands(src, p) + Is(Waiting.point, p)
      BY <1>3, <1>5, SourceMoves
    <3>2. Pending(log, cursor) \in Seq(Points)
      BY <1>3, PendingType DEF Queues
    <3>3. Count(Pending(log', cursor), p) = Count(Pending(log, cursor), p) + Is(src[s].point, p)
      BY <1>2, <2>2, <3>2, CountAppend
    <3>4. Numbers(p) /\ Hands(src', p) \in Nat /\ Is(src[s].point, p) \in 0..1
      BY <1>3, NumbersHold, HandsType, BitType
    <3>5. Is(Waiting.point, p) = 0
      BY WaitingTypes
    <3>6. Sum(p)' = Hands(src', p) + Held(recv, p) + Count(Pending(log', cursor), p)
                    + Count(out, p) + Count(ram, p) + Count(batch, p)
                    + Cardinality(Cells(wire, p))
                    + In(got, p) + In(lost, p) + In(dropped, p)
                    + In(passed, p) + In(refused, p)
      BY <1>1, <2>1, Zenon DEF Sum
    <3> QED BY <3>1, <3>3, <3>4, <3>5, <3>6 DEF Sum, Numbers
  <2> QED BY <1>1, <1>4, <2>3, <2>4, <2>5, Balanced DEF StreamType
<1>6. CASE src' = [src EXCEPT ![s].at = "offer"] /\ UNCHANGED <<log, cursor, last>>
  <2> DEFINE v == [src[s] EXCEPT !.at = "offer"]
  <2>1. v \in Goroutines /\ v.point = src[s].point /\ v.at = "offer"
    BY <1>2 DEF Goroutines
  <2>2. src' = [src EXCEPT ![s] = v]
    BY <1>6
  <2> HIDE DEF v
  <2>3. Threads'
    BY <1>1, <1>2, <1>3, <2>1, <2>2, SourceTypes DEF Busy
  <2>4. Queues'
    BY <1>1, <1>3, <1>6 DEF Queues
  <2>5. ASSUME NEW p \in Points PROVE Sum(p)' = Sum(p)
    <3>1. Hands(src', p) + Is(src[s].point, p) = Hands(src, p) + Is(v.point, p)
      BY <1>3, <2>2, SourceMoves
    <3>2. Is(v.point, p) = Is(src[s].point, p)
      BY <2>1, Zenon
    <3>3. Hands(src', p) \in Nat /\ Hands(src, p) \in Nat /\ Is(src[s].point, p) \in 0..1
      BY HandsType, BitType
    <3>4. Hands(src', p) = Hands(src, p)
      BY <3>1, <3>2, <3>3
    <3> QED BY <1>1, <1>6, <3>4, Zenon DEF Sum
  <2> QED BY <1>1, <1>4, <2>3, <2>4, <2>5, Balanced DEF StreamType
<1> QED BY <1>5, <1>6 DEF WriteDisk

LEMMA OfferPointKeeps ==
    ASSUME StreamType, Accounted, NEW s \in Sources, OfferPoint(s)
    PROVE  StreamType' /\ Accounted'
<1>1. UNCHANGED <<log, cursor, out, batch, wire, got, lost, passed, refused, made, recv>>
  BY DEF OfferPoint, queue
<1>2. src[s].at = "offer" /\ src[s].point \in Points /\ Offer(src[s].point)
  BY DEF OfferPoint, StreamType, Threads, Busy
<1>3. Queues /\ Threads /\ Makers
  BY DEF StreamType
<1>4. ASSUME NEW p \in Points, src[s].point = p PROVE p \notin dropped
  <2>1. Hands(src, p) >= 1
    BY <1>3, <1>4, InHands
  <2>2. Numbers(p) /\ Sum(p) \in 0..1
    BY <1>3, AtMostOnce
  <2>3. In(dropped, p) # 1
    BY <2>1, <2>2 DEF Numbers, Sum
  <2> QED BY <2>3, BitType
<1>5. CASE Reached("dataClosed")
  <2>1. src' = src
    BY <1>3, <1>5 DEF OfferPoint, Threads
  <2>2. ram' = ram /\ dropped' = dropped
    BY <1>2, <1>5 DEF Offer
  <2> QED BY <1>1, <2>1, <2>2, IdleKeeps
<1>6. CASE ~Reached("dataClosed")
  <2>1. src' = [src EXCEPT ![s] = Waiting]
    BY <1>6 DEF OfferPoint
  <2>2. ASSUME NEW p \in Points
        PROVE  /\ ram' \in Seq(Points)
               /\ Count(ram', p) + In(dropped', p)
                      = Count(ram, p) + In(dropped, p) + Is(src[s].point, p)
    BY <1>2, <1>3, <1>4, <1>6, OfferMoves
  <2>3. ram' \in Seq(Points)
    BY <1>2, <2>2
  <2>4. Queues'
    BY <1>1, <1>3, <2>3 DEF Queues
  <2>5. Threads'
    BY <1>1, <1>3, <2>1, SourceTypes, WaitingTypes
  <2>6. Makers'
    BY <1>1, <1>3 DEF Makers
  <2>7. ASSUME NEW p \in Points PROVE Sum(p)' = Sum(p)
    <3>1. Hands(src', p) + Is(src[s].point, p) = Hands(src, p) + Is(Waiting.point, p)
      BY <1>3, <2>1, SourceMoves
    <3>2. Is(Waiting.point, p) = 0
      BY WaitingTypes
    <3>3. /\ Numbers(p) /\ Hands(src', p) \in Nat /\ Is(src[s].point, p) \in 0..1
          /\ Count(ram', p) \in Nat /\ In(dropped', p) \in 0..1
      BY <1>3, <2>3, NumbersHold, HandsType, SpotsFinite, BitType
    <3>4. Sum(p)' = Hands(src', p) + Held(recv, p) + Count(Pending(log, cursor), p)
                    + Count(out, p) + Count(ram', p) + Count(batch, p)
                    + Cardinality(Cells(wire, p))
                    + In(got, p) + In(lost, p) + In(dropped', p)
                    + In(passed, p) + In(refused, p)
      BY <1>1, Zenon DEF Sum
    <3>5. Count(ram', p) + In(dropped', p)
              = Count(ram, p) + In(dropped, p) + Is(src[s].point, p)
      BY <2>2
    <3> QED BY <3>1, <3>2, <3>3, <3>4, <3>5 DEF Sum, Numbers
  <2> QED BY <1>1, <2>4, <2>5, <2>6, <2>7, Balanced DEF StreamType
<1> QED BY <1>5, <1>6

LEMMA ExitSourceKeeps ==
    ASSUME StreamType, Accounted, NEW s \in Sources, ExitSource(s)
    PROVE  StreamType' /\ Accounted'
<1> DEFINE v == At("exited", NoPoint)
<1>1. /\ UNCHANGED <<log, cursor, out, ram, batch, wire, recv, made, got, lost, dropped,
                     passed, refused>>
      /\ src[s] = Waiting /\ src' = [src EXCEPT ![s] = v]
  BY DEF ExitSource, queue, data
<1>2. v \in Goroutines /\ Busy(v) /\ v.point = NoPoint
  BY DEF Goroutines, Busy, At
<1> HIDE DEF v
<1>3. Queues' /\ Makers'
  BY <1>1 DEF StreamType, Queues, Makers
<1>4. Threads'
  BY <1>1, <1>2, SourceTypes DEF StreamType
<1>5. ASSUME NEW p \in Points PROVE Sum(p)' = Sum(p)
  <2>1. Hands(src', p) + Is(src[s].point, p) = Hands(src, p) + Is(v.point, p)
    BY <1>1, SourceMoves DEF StreamType
  <2>2. Is(src[s].point, p) = 0 /\ Is(v.point, p) = 0
    BY <1>1, <1>2, WaitingTypes, Zenon
  <2>3. Hands(src', p) \in Nat /\ Hands(src, p) \in Nat
    BY HandsType
  <2>4. Hands(src', p) = Hands(src, p)
    BY <2>1, <2>2, <2>3
  <2> QED BY <1>1, <2>4, Zenon DEF Sum
<1> QED BY <1>1, <1>3, <1>4, <1>5, Balanced DEF StreamType

LEMMA FeedOutKeeps ==
    ASSUME StreamType, Accounted, FeedOut
    PROVE  StreamType' /\ Accounted'
<1> DEFINE q == log[cursor + 1]
<1>1. UNCHANGED <<log, ram, batch, wire, got, lost, dropped,
                  passed, refused, made, src, recv>>
  BY DEF FeedOut, threads, Queue!Feed
<1>2. /\ cursor < Len(log) /\ cursor' = cursor + 1 /\ last' = q
      /\ out' = Append(out, q)
  BY DEF FeedOut, Queue!Feed
<1>3. Queues /\ Threads /\ Makers
  BY DEF StreamType
<1>4. /\ Pending(log, cursor) # <<>> /\ cursor + 1 \in 0..Len(log)
      /\ Pending(log, cursor + 1) = Tail(Pending(log, cursor))
      /\ Head(Pending(log, cursor)) = q
  BY <1>2, <1>3, PendingShrinks DEF Queues
<1>5. Pending(log, cursor) \in Seq(Points)
  BY <1>3, PendingType DEF Queues
<1>6. q \in Points
  BY <1>4, <1>5, HeadTailProperties
<1> HIDE DEF q
<1>7. out' \in Seq(Points)
  BY <1>2, <1>3, <1>6, AppendProperties DEF Queues
<1>8. Queues'
  BY <1>1, <1>2, <1>3, <1>4, <1>7 DEF Queues
<1>9. Threads' /\ Makers'
  BY <1>1, <1>3 DEF Threads, Makers
<1>10. ASSUME NEW p \in Points PROVE Sum(p)' = Sum(p)
  <2>1. Count(Pending(log, cursor), p) = Count(Pending(log, cursor + 1), p) + Is(q, p)
    <3>1. Count(Pending(log, cursor), p)
              = Count(Tail(Pending(log, cursor)), p) + Is(Head(Pending(log, cursor)), p)
      BY <1>4, <1>5, CountTail
    <3> QED BY <1>4, <3>1, Zenon
  <2>2. Count(out', p) = Count(out, p) + Is(q, p)
    BY <1>2, <1>3, <1>6, CountAppend DEF Queues
  <2>3. Numbers(p) /\ Count(Pending(log, cursor + 1), p) \in Nat /\ Is(q, p) \in 0..1
    BY <1>3, <1>4, PendingType, SpotsFinite, NumbersHold, BitType DEF Queues
  <2>4. Sum(p)' = Hands(src, p) + Held(recv, p) + Count(Pending(log, cursor + 1), p)
                  + Count(out', p) + Count(ram, p) + Count(batch, p)
                  + Cardinality(Cells(wire, p))
                  + In(got, p) + In(lost, p) + In(dropped, p)
                  + In(passed, p) + In(refused, p)
    BY <1>1, <1>2, Zenon DEF Sum
  <2> QED BY <2>1, <2>2, <2>3, <2>4 DEF Sum, Numbers
<1> QED BY <1>1, <1>8, <1>9, <1>10, Balanced DEF StreamType

LEMMA PassOverKeeps ==
    ASSUME StreamType, Accounted, PassOver
    PROVE  StreamType' /\ Accounted'
<1> DEFINE q == log[cursor + 1]
<1>1. UNCHANGED <<log, out, ram, batch, wire, got, lost, dropped, refused, made, src, recv>>
  BY DEF PassOver, threads
<1>2. cursor < Len(log) /\ cursor' = cursor + 1 /\ passed' = passed \cup {q}
  BY DEF PassOver
<1>3. Queues /\ Threads /\ Makers
  BY DEF StreamType
<1>4. /\ Pending(log, cursor) # <<>> /\ cursor + 1 \in 0..Len(log)
      /\ Pending(log, cursor + 1) = Tail(Pending(log, cursor))
      /\ Head(Pending(log, cursor)) = q
  BY <1>2, <1>3, PendingShrinks DEF Queues
<1>5. Pending(log, cursor) \in Seq(Points)
  BY <1>3, PendingType DEF Queues
<1> HIDE DEF q
<1>6. Queues'
  BY <1>1, <1>2, <1>3, <1>4 DEF Queues
<1>7. Threads' /\ Makers'
  BY <1>1, <1>3 DEF Threads, Makers
<1>8. ASSUME NEW p \in Points PROVE Sum(p)' = Sum(p)
  <2>1. Count(Pending(log, cursor), p) = Count(Pending(log, cursor + 1), p) + Is(q, p)
    <3>1. Count(Pending(log, cursor), p)
              = Count(Tail(Pending(log, cursor)), p) + Is(Head(Pending(log, cursor)), p)
      BY <1>4, <1>5, CountTail
    <3> QED BY <1>4, <3>1, Zenon
  <2>2. Numbers(p) /\ Count(Pending(log, cursor + 1), p) \in Nat /\ Is(q, p) \in 0..1
    BY <1>3, <1>4, PendingType, SpotsFinite, NumbersHold, BitType DEF Queues
  <2>3. q = p => p \notin passed
    <3>1. Count(Pending(log, cursor), p) + In(passed, p) <= 1
      BY <1>3, NotYet
    <3>2. q = p => Is(q, p) = 1
      BY BitType
    <3>3. In(passed, p) \in 0..1 /\ (In(passed, p) = 1 <=> p \in passed)
      BY BitType
    <3> QED BY <2>1, <2>2, <3>1, <3>2, <3>3
  <2>4. In(passed', p) = In(passed, p) + Is(q, p)
    BY <1>2, <2>3, AddedTo
  <2>5. Sum(p)' = Hands(src, p) + Held(recv, p) + Count(Pending(log, cursor + 1), p)
                  + Count(out, p) + Count(ram, p) + Count(batch, p)
                  + Cardinality(Cells(wire, p))
                  + In(got, p) + In(lost, p) + In(dropped, p)
                  + In(passed', p) + In(refused, p)
    BY <1>1, <1>2, Zenon DEF Sum
  <2> QED BY <2>1, <2>2, <2>4, <2>5 DEF Sum, Numbers
<1> QED BY <1>1, <1>6, <1>7, <1>8, Balanced DEF StreamType

\* TakePoint, of the disk queue's channel or of dataCh.
LEMMA TakePointKeeps ==
    ASSUME StreamType, Accounted, TakePoint
    PROVE  StreamType' /\ Accounted'
<1>1. UNCHANGED <<log, cursor, got, dropped, passed, refused, made, src, recv>>
  BY DEF TakePoint, queue, threads
<1>2. Queues /\ Threads /\ Makers
  BY DEF StreamType
<1>3. PICK from \in Seq(Points) : from = IF disk THEN out ELSE ram
  BY <1>2 DEF Queues
<1>4. from # <<>>
  BY <1>3 DEF TakePoint
<1> DEFINE q == Head(from)
<1>5. q \in Points /\ Tail(from) \in Seq(Points)
  BY <1>4, HeadTailProperties
<1>6. PICK b \in Seq(Points) : b = Append(batch, q)
  BY <1>2, <1>5, AppendProperties DEF Queues
<1>7. Head(IF disk THEN out ELSE ram) = q
  BY <1>3
<1>8. IF Len(b) >= BatchSize THEN SendBatch(b) ELSE batch' = b /\ UNCHANGED <<wire, lost>>
  BY <1>6, <1>7, Zenon DEF TakePoint
<1>9. Len(b) = Len(batch) + 1 /\ Len(batch) \in Nat /\ BatchSize \in Nat
  BY <1>2, <1>5, <1>6, AppendProperties, LenProperties, AgentStreamAssumption DEF Queues
<1>10. b \in Batches
  BY <1>2, <1>9 DEF Queues, Batches
<1>11. ASSUME NEW p \in Points
       PROVE  /\ Numbers(p) /\ Sum(p) \in 0..1 /\ Is(q, p) \in 0..1
              /\ Count(from, p) = Count(Tail(from), p) + Is(q, p)
              /\ Count(Tail(from), p) \in Nat /\ Count(from, p) \in Nat
              /\ Count(b, p) = Count(batch, p) + Is(q, p)
  <2>1. Numbers(p) /\ Sum(p) \in 0..1 /\ Is(q, p) \in 0..1
    BY <1>2, AtMostOnce, BitType
  <2>2. Count(from, p) = Count(Tail(from), p) + Is(q, p)
    BY <1>4, CountTail
  <2>3. Count(Tail(from), p) \in Nat /\ Count(from, p) \in Nat
    BY <1>5, SpotsFinite
  <2>4. Count(b, p) = Count(batch, p) + Is(q, p)
    BY <1>2, <1>5, <1>6, CountAppend DEF Queues
  <2> QED BY <2>1, <2>2, <2>3, <2>4
<1> HIDE DEF q
<1>12. /\ disk => out' = Tail(from) /\ ram' = ram /\ from = out
       /\ ~disk => ram' = Tail(from) /\ out' = out /\ from = ram
  BY <1>3 DEF TakePoint
<1>13. ASSUME NEW p \in Points
       PROVE  Count(out', p) + Count(ram', p) + Is(q, p) = Count(out, p) + Count(ram, p)
  <2>1. /\ Count(out, p) \in Nat /\ Count(ram, p) \in Nat /\ Is(q, p) \in 0..1
        /\ Count(Tail(from), p) \in Nat
        /\ Count(from, p) = Count(Tail(from), p) + Is(q, p)
    BY <1>11 DEF Numbers
  <2>2. CASE disk
    <3>1. /\ Count(out', p) = Count(Tail(from), p) /\ Count(from, p) = Count(out, p)
          /\ Count(ram', p) = Count(ram, p)
      BY <1>12, <2>2, Zenon
    <3> QED BY <2>1, <3>1
  <2>3. CASE ~disk
    <3>1. /\ Count(ram', p) = Count(Tail(from), p) /\ Count(from, p) = Count(ram, p)
          /\ Count(out', p) = Count(out, p)
      BY <1>12, <2>3, Zenon
    <3> QED BY <2>1, <3>1
  <2> QED BY <2>2, <2>3
<1>14. ASSUME NEW p \in Points
       PROVE  /\ Is(q, p) = 1 => Count(out, p) + Count(ram, p) >= 1
              /\ Count(b, p) <= 1
              /\ Count(b, p) = 1 => p \notin lost
  <2>1. Is(q, p) = 1 => Count(out, p) >= 1 \/ Count(ram, p) >= 1
    <3>1. Is(q, p) = 1 => Count(from, p) >= 1
      BY <1>11
    <3>2. Count(from, p) = Count(out, p) \/ Count(from, p) = Count(ram, p)
      <4>1. CASE disk
        <5>1. from = out
          BY <1>12, <4>1, Zenon
        <5> QED BY <5>1, Zenon
      <4>2. CASE ~disk
        <5>1. from = ram
          BY <1>12, <4>2, Zenon
        <5> QED BY <5>1, Zenon
      <4> QED BY <4>1, <4>2, Zenon
    <3> QED BY <3>1, <3>2
  <2>2. /\ Numbers(p) /\ Sum(p) <= 1 /\ Is(q, p) \in 0..1
        /\ Count(b, p) = Count(batch, p) + Is(q, p)
    <3>1. /\ Numbers(p) /\ Sum(p) \in 0..1 /\ Is(q, p) \in 0..1
          /\ Count(b, p) = Count(batch, p) + Is(q, p)
      BY <1>11, Zenon
    <3>2. Sum(p) <= 1
      <4> DEFINE sum == Sum(p)
      <4>1. sum \in 0..1
        BY <3>1, Zenon
      <4> HIDE DEF sum
      <4>2. sum <= 1
        BY <4>1
      <4> QED BY <4>2 DEF sum
    <3> QED BY <3>1, <3>2, Zenon
  <2>3. /\ Count(out, p) \in Nat /\ Count(ram, p) \in Nat /\ Count(batch, p) \in Nat
        /\ In(lost, p) \in Nat
        /\ Count(out, p) + Count(ram, p) + Count(batch, p) + In(lost, p) <= 1
    <3> DEFINE h == Hands(src, p)  k == Held(recv, p)  d == Count(Pending(log, cursor), p)
               o == Count(out, p)  m == Count(ram, p)  c == Count(batch, p)
               w == Cardinality(Cells(wire, p))
               g == In(got, p)  l == In(lost, p)  x == In(dropped, p)
               a == In(passed, p)  r == In(refused, p)
    <3>1. /\ h \in Nat /\ k \in Nat /\ d \in Nat /\ o \in Nat /\ m \in Nat /\ c \in Nat
          /\ w \in Nat /\ g \in Nat /\ l \in Nat /\ x \in Nat /\ a \in Nat /\ r \in Nat
      BY <2>2 DEF Numbers
    <3>2. h + k + d + o + m + c + w + g + l + x + a + r <= 1
      BY <2>2, Zenon DEF Sum
    <3>3. o + m + c + l <= 1
      <4> HIDE DEF h, k, d, o, m, c, w, g, l, x, a, r
      <4> QED BY <3>1, <3>2
    <3> QED BY <3>1, <3>3, Zenon
  <2>4. Count(b, p) <= 1 /\ (Count(b, p) = 1 => In(lost, p) = 0)
    BY <2>1, <2>2, <2>3
  <2>5. In(lost, p) = 1 <=> p \in lost
    BY BitType
  <2> QED BY <2>1, <2>3, <2>4, <2>5
<1>15. ASSUME NEW p \in Points
       PROVE  /\ batch' \in Seq(Points) /\ Len(batch') < BatchSize /\ wire' \in Seq(Batches)
              /\ Count(batch', p) + Cardinality(Cells(wire', p)) + In(lost', p)
                 = Count(batch, p) + Cardinality(Cells(wire, p)) + In(lost, p) + Is(q, p)
  <2>1. Numbers(p) /\ Is(q, p) \in 0..1 /\ Count(b, p) = Count(batch, p) + Is(q, p)
    BY <1>11
  <2>2. CASE Len(b) >= BatchSize
    <3>1. /\ batch' = <<>> /\ wire' \in Seq(Batches)
          /\ Cardinality(Cells(wire', p)) + In(lost', p)
                 = Cardinality(Cells(wire, p)) + In(lost, p) + Count(b, p)
      BY <1>2, <1>8, <1>10, <1>14, <2>2, SendMoves
    <3>2. Count(batch', p) = 0 /\ batch' \in Seq(Points) /\ Len(batch') < BatchSize
      BY <3>1, CountEmpty, EmptySeq, AgentStreamAssumption
    <3>3. Cardinality(Cells(wire', p)) \in Nat /\ In(lost', p) \in 0..1
      BY <3>1, CellsAre, BitType
    <3>4. /\ Count(batch, p) \in Nat /\ Cardinality(Cells(wire, p)) \in Nat
          /\ In(lost, p) \in 0..1
      BY <2>1 DEF Numbers
    <3>5. Count(batch', p) + Cardinality(Cells(wire', p)) + In(lost', p)
              = Count(batch, p) + Cardinality(Cells(wire, p)) + In(lost, p) + Is(q, p)
      <4>1. /\ Cardinality(Cells(wire', p)) + In(lost', p)
                = Cardinality(Cells(wire, p)) + In(lost, p) + Count(b, p)
            /\ Count(batch', p) = 0
        BY <3>1, <3>2
      <4> DEFINE w1 == Cardinality(Cells(wire', p))  l1 == In(lost', p)
                 w == Cardinality(Cells(wire, p))  l == In(lost, p)
                 c == Count(batch, p)  c1 == Count(batch', p)  d == Count(b, p)  k == Is(q, p)
      <4>2. /\ w1 + l1 = w + l + d /\ c1 = 0 /\ d = c + k
            /\ w1 \in Nat /\ l1 \in Nat /\ w \in Nat /\ l \in Nat /\ c \in Nat /\ k \in Nat
        BY <2>1, <3>3, <3>4, <4>1
      <4>3. c1 + w1 + l1 = c + w + l + k
        <5> HIDE DEF w1, l1, w, l, c, c1, d, k
        <5> QED BY <4>2
      <4> QED BY <4>3, Zenon
    <3> QED BY <3>1, <3>2, <3>5
  <2>3. CASE ~(Len(b) >= BatchSize)
    <3>1. batch' = b /\ wire' = wire /\ lost' = lost
      BY <1>8, <2>3
    <3>2. /\ Count(batch', p) = Count(b, p) /\ In(lost', p) = In(lost, p)
          /\ Cardinality(Cells(wire', p)) = Cardinality(Cells(wire, p))
      BY <3>1, Zenon
    <3>3. batch' \in Seq(Points) /\ Len(batch') < BatchSize /\ wire' \in Seq(Batches)
      BY <1>2, <1>9, <2>3, <3>1 DEF Queues
    <3>4. /\ Count(batch, p) \in Nat /\ Cardinality(Cells(wire, p)) \in Nat
          /\ In(lost, p) \in 0..1
      BY <2>1 DEF Numbers
    <3>5. Count(batch', p) + Cardinality(Cells(wire', p)) + In(lost', p)
              = Count(batch, p) + Cardinality(Cells(wire, p)) + In(lost, p) + Is(q, p)
      BY <2>1, <3>2, <3>4
    <3> QED BY <3>3, <3>5
  <2> QED BY <2>2, <2>3
<1>16. Queues'
  <2>1. out' \in Seq(Points) /\ ram' \in Seq(Points)
    BY <1>2, <1>5, <1>12 DEF Queues
  <2>2. batch' \in Seq(Points) /\ Len(batch') < BatchSize /\ wire' \in Seq(Batches)
    BY <1>5, <1>15
  <2> QED BY <1>1, <1>2, <2>1, <2>2 DEF Queues
<1>17. Threads' /\ Makers'
  BY <1>1, <1>2 DEF Threads, Makers
<1>18. ASSUME NEW p \in Points PROVE Sum(p)' = Sum(p)
  <2>1. Sum(p)' = Hands(src, p) + Held(recv, p) + Count(Pending(log, cursor), p)
                  + Count(out', p) + Count(ram', p) + Count(batch', p)
                  + Cardinality(Cells(wire', p))
                  + In(got, p) + In(lost', p) + In(dropped, p)
                  + In(passed, p) + In(refused, p)
    BY <1>1, Zenon DEF Sum
  <2>2. Numbers(p) /\ Is(q, p) \in 0..1
    BY <1>11
  <2>3. /\ Count(out', p) \in Nat /\ Count(ram', p) \in Nat /\ Count(batch', p) \in Nat
        /\ Cardinality(Cells(wire', p)) \in Nat /\ In(lost', p) \in 0..1
    BY <1>16, SpotsFinite, CellsAre, BitType DEF Queues
  <2>4. Count(out', p) + Count(ram', p) + Is(q, p) = Count(out, p) + Count(ram, p)
    BY <1>13
  <2>5. Count(batch', p) + Cardinality(Cells(wire', p)) + In(lost', p)
            = Count(batch, p) + Cardinality(Cells(wire, p)) + In(lost, p) + Is(q, p)
    BY <1>15
  <2> DEFINE h == Hands(src, p)  k == Held(recv, p)  d == Count(Pending(log, cursor), p)
             o == Count(out, p)  m == Count(ram, p)  c == Count(batch, p)
             w == Cardinality(Cells(wire, p))  g == In(got, p)  l == In(lost, p)
             x == In(dropped, p)  a == In(passed, p)  r == In(refused, p)  i == Is(q, p)
             o1 == Count(out', p)  m1 == Count(ram', p)  c1 == Count(batch', p)
             w1 == Cardinality(Cells(wire', p))  l1 == In(lost', p)
  <2>6. /\ h \in Nat /\ k \in Nat /\ d \in Nat /\ o \in Nat /\ m \in Nat /\ c \in Nat
        /\ w \in Nat /\ g \in Nat /\ l \in Nat /\ x \in Nat /\ a \in Nat /\ r \in Nat /\ i \in Nat
        /\ o1 \in Nat /\ m1 \in Nat /\ c1 \in Nat /\ w1 \in Nat /\ l1 \in Nat
    <3>1. /\ h \in Nat /\ k \in Nat /\ d \in Nat /\ o \in Nat /\ m \in Nat /\ c \in Nat
          /\ w \in Nat /\ g \in Nat /\ l \in Nat /\ x \in Nat /\ a \in Nat /\ r \in Nat
      BY <2>2 DEF Numbers
    <3>2. i \in Nat
      BY <2>2
    <3>3. /\ o1 \in Nat /\ m1 \in Nat /\ c1 \in Nat /\ w1 \in Nat
      BY <2>3
    <3>4. l1 \in Nat
      BY <2>3
    <3> QED BY <3>1, <3>2, <3>3, <3>4, Zenon
  <2>7. o1 + m1 + i = o + m /\ c1 + w1 + l1 = c + w + l + i
    BY <2>4, <2>5, Zenon
  <2>8. h + k + d + o1 + m1 + c1 + w1 + g + l1 + x + a + r
        = h + k + d + o + m + c + w + g + l + x + a + r
    <3> HIDE DEF h, k, d, o, m, c, w, g, l, x, a, r, i, o1, m1, c1, w1, l1
    <3> QED BY <2>6, <2>7
  <2> QED BY <2>1, <2>8, Zenon DEF Sum
<1> QED BY <1>1, <1>16, <1>17, <1>18, Balanced DEF StreamType

\* FlushTimer, StreamDone and StreamEnds send what the batch has.
LEMMA SendKeeps ==
    ASSUME StreamType, Accounted, SendBatch(batch),
           UNCHANGED <<log, cursor, out, ram, src, recv, made, got, dropped,
                       passed, refused>>
    PROVE  StreamType' /\ Accounted'
<1>1. Queues /\ Threads /\ Makers
  BY DEF StreamType
<1>2. batch \in Batches
  <2>1. Len(batch) \in Nat /\ BatchSize \in Nat
    BY <1>1, LenProperties, AgentStreamAssumption DEF Queues
  <2> QED BY <1>1, <2>1 DEF Queues, Batches
<1>3. ASSUME NEW p \in Points
      PROVE  /\ Numbers(p) /\ Count(batch, p) <= 1
             /\ Count(batch, p) = 1 => p \notin lost
  <2>1. Numbers(p) /\ Sum(p) \in 0..1
    BY <1>1, AtMostOnce
  <2>2. Count(batch, p) <= 1 /\ (Count(batch, p) = 1 => In(lost, p) # 1)
    BY <2>1 DEF Numbers, Sum
  <2> QED BY <2>1, <2>2, BitType
<1>4. ASSUME NEW p \in Points
      PROVE  /\ batch' = <<>> /\ wire' \in Seq(Batches)
             /\ Cardinality(Cells(wire', p)) + In(lost', p)
                    = Cardinality(Cells(wire, p)) + In(lost, p) + Count(batch, p)
  BY <1>1, <1>2, <1>3, SendMoves
<1>5. batch' = <<>> /\ wire' \in Seq(Batches)
  <2>1. batch' = <<>>
    BY DEF SendBatch, Emptied
  <2>2. wire' = wire \/ wire' = Append(wire, batch)
    BY DEF SendBatch
  <2>3. wire \in Seq(Batches) /\ Append(wire, batch) \in Seq(Batches)
    BY <1>1, <1>2, AppendProperties DEF Queues
  <2> QED BY <2>1, <2>2, <2>3
<1>6. Queues'
  <2>1. batch' \in Seq(Points) /\ Len(batch') < BatchSize
    BY <1>5, EmptySeq, AgentStreamAssumption
  <2> QED BY <1>1, <1>5, <2>1 DEF Queues
<1>7. Threads' /\ Makers'
  BY <1>1 DEF Threads, Makers
<1>8. ASSUME NEW p \in Points PROVE Sum(p)' = Sum(p)
  <2>1. Sum(p)' = Hands(src, p) + Held(recv, p) + Count(Pending(log, cursor), p)
                  + Count(out, p) + Count(ram, p) + Count(batch', p)
                  + Cardinality(Cells(wire', p))
                  + In(got, p) + In(lost', p) + In(dropped, p)
                  + In(passed, p) + In(refused, p)
    BY Zenon DEF Sum
  <2>2. Count(batch', p) = 0
    BY <1>5, CountEmpty
  <2>3. Cardinality(Cells(wire', p)) \in Nat /\ In(lost', p) \in 0..1
    BY <1>5, CellsAre, BitType
  <2>4. /\ Numbers(p)
        /\ Cardinality(Cells(wire', p)) + In(lost', p)
               = Cardinality(Cells(wire, p)) + In(lost, p) + Count(batch, p)
    BY <1>3, <1>4
  <2> QED BY <2>1, <2>2, <2>3, <2>4 DEF Sum, Numbers
<1> QED BY <1>6, <1>7, <1>8, Balanced DEF StreamType

\* The manager takes or refuses a point it is given.
LEMMA IngestMoves ==
    ASSUME NEW S, Ingest(S), NEW p, p \in S => p \notin got /\ p \notin refused
    PROVE  In(got', p) + In(refused', p) = In(got, p) + In(refused, p) + In(S, p)
<1>1. PICK invalid \in SUBSET S :
          refused' = refused \cup invalid /\ got' = got \cup (S \ invalid)
  BY DEF Ingest
<1>2. CASE p \in S
  <2>1. p \notin got /\ p \notin refused /\ (p \in got' <=> p \notin refused')
    BY <1>1, <1>2
  <2>2. /\ In(got, p) = 0 /\ In(refused, p) = 0 /\ In(S, p) = 1
        /\ \/ In(got', p) = 1 /\ In(refused', p) = 0
           \/ In(got', p) = 0 /\ In(refused', p) = 1
    BY <1>2, <2>1, Zenon DEF In, Bit
  <2> QED BY <2>2
<1>3. CASE p \notin S
  <2>1. (p \in got' <=> p \in got) /\ (p \in refused' <=> p \in refused)
    BY <1>1, <1>3
  <2>2. In(got', p) = In(got, p) /\ In(refused', p) = In(refused, p) /\ In(S, p) = 0
    BY <1>3, <2>1, Zenon DEF In, Bit
  <2> QED BY <2>2, BitType
<1> QED BY <1>2, <1>3

LEMMA ReceiveKeeps ==
    ASSUME StreamType, Accounted, Receive
    PROVE  StreamType' /\ Accounted'
<1>1. UNCHANGED <<log, cursor, out, ram, batch, src, recv, made, lost, dropped, passed>>
  BY DEF Receive, queue, threads
<1>2. wire # <<>> /\ wire' = Tail(wire) /\ Ingest(ToSet(Head(wire)))
  BY DEF Receive
<1>3. Queues /\ Threads /\ Makers
  BY DEF StreamType
<1> DEFINE b == Head(wire)
<1>4. b \in Batches /\ wire' \in Seq(Batches)
  BY <1>2, <1>3, WireShrinks DEF Queues
<1>5. b \in Seq(Points)
  BY <1>4 DEF Batches
<1>6. ASSUME NEW p \in Points
      PROVE  /\ Cardinality(Cells(wire, p)) = Cardinality(Cells(wire', p)) + Count(b, p)
             /\ Count(b, p) \in Nat /\ Cardinality(Cells(wire', p)) \in Nat
  <2>1. Cardinality(Cells(wire, p)) = Cardinality(Cells(Tail(wire), p)) + Count(Head(wire), p)
    BY <1>2, <1>3, WireShrinks DEF Queues
  <2>2. Cardinality(Cells(wire, p)) = Cardinality(Cells(wire', p)) + Count(b, p)
    BY <1>2, <2>1, Zenon
  <2> QED BY <1>4, <1>5, <2>2, SpotsFinite, CellsAre
<1> HIDE DEF b
<1>7. ASSUME NEW p \in Points
      PROVE  In(got', p) + In(refused', p) = In(got, p) + In(refused, p) + Count(b, p)
  <2>1. /\ Cardinality(Cells(wire, p)) + In(got, p) <= 1
        /\ Cardinality(Cells(wire, p)) + In(refused, p) <= 1
    BY <1>3, NotYet
  <2>2. /\ In(got, p) \in 0..1 /\ (In(got, p) = 1 <=> p \in got)
        /\ In(refused, p) \in 0..1 /\ (In(refused, p) = 1 <=> p \in refused)
    BY BitType
  <2>3. /\ Cardinality(Cells(wire, p)) = Cardinality(Cells(wire', p)) + Count(b, p)
        /\ Count(b, p) \in Nat /\ Cardinality(Cells(wire', p)) \in Nat
    BY <1>6
  <2>4. /\ Count(b, p) <= 1
        /\ Count(b, p) = 1 => p \notin got /\ p \notin refused
    BY <2>1, <2>2, <2>3
  <2>5. In(ToSet(b), p) = Count(b, p)
    <3>1. In({} \cup ToSet(b), p) = In({}, p) + Count(b, p)
      BY <1>5, <2>4, AllAdded
    <3>2. {} \cup ToSet(b) = ToSet(b) /\ p \notin {}
      OBVIOUS
    <3>3. In({}, p) = 0
      BY <3>2, Zenon DEF In, Bit
    <3>4. In(ToSet(b), p) = In({}, p) + Count(b, p)
      BY <3>1, <3>2, Zenon
    <3> QED BY <2>3, <3>3, <3>4
  <2>6. p \in ToSet(b) => Count(b, p) = 1
    BY <2>5, BitType
  <2>7. Ingest(ToSet(b))
    BY <1>2 DEF b
  <2>8. In(got', p) + In(refused', p) = In(got, p) + In(refused, p) + In(ToSet(b), p)
    BY <2>4, <2>6, <2>7, IngestMoves
  <2> QED BY <2>5, <2>8, Zenon
<1>8. Queues'
  BY <1>1, <1>3, <1>4 DEF Queues
<1>9. Threads' /\ Makers'
  BY <1>1, <1>3 DEF Threads, Makers
<1>10. ASSUME NEW p \in Points PROVE Sum(p)' = Sum(p)
  <2> DEFINE h == Hands(src, p)  k == Held(recv, p)  d == Count(Pending(log, cursor), p)
             o == Count(out, p)  m == Count(ram, p)  c == Count(batch, p)
             w == Cardinality(Cells(wire, p))  w1 == Cardinality(Cells(wire', p))
             g == In(got, p)  g1 == In(got', p)  l == In(lost, p)  x == In(dropped, p)
             a == In(passed, p)  r == In(refused, p)  r1 == In(refused', p)
             n == Count(b, p)
  <2>1. Sum(p)' = h + k + d + o + m + c + w1 + g1 + l + x + a + r1
    BY <1>1, Zenon DEF Sum
  <2>2. Numbers(p)
    BY <1>3, NumbersHold
  <2>3. /\ w = w1 + n /\ n \in Nat /\ w1 \in Nat /\ g1 + r1 = g + r + n
        /\ g1 \in Nat /\ r1 \in Nat
    BY <1>6, <1>7, BitType
  <2>4. /\ h \in Nat /\ k \in Nat /\ d \in Nat /\ o \in Nat /\ m \in Nat /\ c \in Nat
        /\ w \in Nat /\ g \in Nat /\ l \in Nat /\ x \in Nat /\ a \in Nat /\ r \in Nat
    BY <2>2 DEF Numbers
  <2>5. h + k + d + o + m + c + w1 + g1 + l + x + a + r1
        = h + k + d + o + m + c + w + g + l + x + a + r
    <3> HIDE DEF h, k, d, o, m, c, w, w1, g, g1, l, x, a, r, r1, n
    <3> QED BY <2>3, <2>4
  <2> QED BY <2>1, <2>5, Zenon DEF Sum
<1> QED BY <1>1, <1>8, <1>9, <1>10, Balanced DEF StreamType

\* Break and ReceiveTooLarge.
LEMMA BreakKeeps ==
    ASSUME StreamType, Accounted, NEW n \in 0..Len(wire), EndsAfter(n)
    PROVE  StreamType' /\ Accounted'
<1>1. UNCHANGED <<log, cursor, out, ram, batch, src, recv, made, dropped, passed>>
  BY DEF EndsAfter, queue
<1>2. /\ Ingest(Carried(SubSeq(wire, 1, n)))
      /\ lost' = lost \cup Carried(SubSeq(wire, n + 1, Len(wire)))
  BY DEF EndsAfter
<1>3. wire' = <<>>
  BY DEF EndsAfter
<1>4. Queues /\ Threads /\ Makers
  BY DEF StreamType
<1> DEFINE F == Carried(SubSeq(wire, 1, n))
           R == Carried(SubSeq(wire, n + 1, Len(wire)))
<1>5. ASSUME NEW p \in Points
      PROVE  In(got', p) + In(refused', p) + In(lost', p)
                 = In(got, p) + In(refused, p) + In(lost, p) + Cardinality(Cells(wire, p))
  <2>1. /\ Cardinality(Cells(wire, p)) \in Nat
        /\ Cardinality(Cells(wire, p)) + In(got, p) <= 1
        /\ Cardinality(Cells(wire, p)) + In(refused, p) <= 1
        /\ Cardinality(Cells(wire, p)) + In(lost, p) <= 1
    BY <1>4, NotYet
  <2>2. /\ In(got, p) \in 0..1 /\ (In(got, p) = 1 <=> p \in got)
        /\ In(refused, p) \in 0..1 /\ (In(refused, p) = 1 <=> p \in refused)
        /\ In(lost, p) \in 0..1 /\ (In(lost, p) = 1 <=> p \in lost)
    BY BitType
  <2>3. Cardinality(Cells(wire, p)) <= 1
    BY <2>1, <2>2
  <2>4. /\ p \in F \/ p \in R <=> Cardinality(Cells(wire, p)) = 1
        /\ ~(p \in F /\ p \in R)
    BY <1>4, <2>3, Torn DEF Queues
  <2> HIDE DEF F, R
  <2>5. Ingest(F) /\ lost' = lost \cup R
    BY <1>2 DEF F, R
  <2>6. Cardinality(Cells(wire, p)) = 1 => p \notin got /\ p \notin refused /\ p \notin lost
    BY <2>1, <2>2
  <2>7. In(got', p) + In(refused', p) = In(got, p) + In(refused, p) + In(F, p)
    BY <2>4, <2>5, <2>6, IngestMoves
  <2>8. In(lost', p) = In(lost, p) + In(R, p)
    <3>1. CASE p \in R
      <4>1. p \in lost' /\ p \notin lost
        BY <2>4, <2>5, <2>6, <3>1
      <4>2. In(lost', p) = 1 /\ In(lost, p) = 0 /\ In(R, p) = 1
        BY <3>1, <4>1, Zenon DEF In, Bit
      <4> QED BY <4>2
    <3>2. CASE p \notin R
      <4>1. p \in lost' <=> p \in lost
        BY <2>5, <3>2
      <4>2. In(lost', p) = In(lost, p) /\ In(R, p) = 0
        BY <3>2, <4>1, Zenon DEF In, Bit
      <4> QED BY <4>2, BitType
    <3> QED BY <3>1, <3>2
  <2>9. In(F, p) + In(R, p) = Cardinality(Cells(wire, p))
    <3>1. CASE Cardinality(Cells(wire, p)) = 1
      <4>1. \/ p \in F /\ p \notin R
            \/ p \in R /\ p \notin F
        BY <2>4, <3>1
      <4>2. \/ In(F, p) = 1 /\ In(R, p) = 0
            \/ In(F, p) = 0 /\ In(R, p) = 1
        BY <4>1, Zenon DEF In, Bit
      <4> QED BY <3>1, <4>2
    <3>2. CASE Cardinality(Cells(wire, p)) # 1
      <4>1. p \notin F /\ p \notin R
        BY <2>4, <3>2
      <4>2. In(F, p) = 0 /\ In(R, p) = 0
        BY <4>1, Zenon DEF In, Bit
      <4> QED BY <2>1, <2>3, <3>2, <4>2
    <3> QED BY <3>1, <3>2
  <2>10. In(F, p) \in 0..1 /\ In(R, p) \in 0..1
    BY BitType
  <2> QED BY <2>1, <2>2, <2>7, <2>8, <2>9, <2>10
<1>6. ASSUME NEW p \in Points PROVE Cardinality(Cells(wire', p)) = 0
  BY <1>3, NoCells, FS_EmptySet
<1>7. Queues'
  BY <1>1, <1>3, <1>4, EmptySeq DEF Queues
<1>8. Threads' /\ Makers'
  BY <1>1, <1>4 DEF Threads, Makers
<1>9. ASSUME NEW p \in Points PROVE Sum(p)' = Sum(p)
  <2> DEFINE h == Hands(src, p)  k == Held(recv, p)  d == Count(Pending(log, cursor), p)
             o == Count(out, p)  m == Count(ram, p)  c == Count(batch, p)
             w == Cardinality(Cells(wire, p))  w1 == Cardinality(Cells(wire', p))
             g == In(got, p)  g1 == In(got', p)  l == In(lost, p)  l1 == In(lost', p)
             x == In(dropped, p)  a == In(passed, p)  r == In(refused, p)  r1 == In(refused', p)
  <2>1. Sum(p)' = h + k + d + o + m + c + w1 + g1 + l1 + x + a + r1
    BY <1>1, Zenon DEF Sum
  <2>2. Numbers(p)
    BY <1>4, NumbersHold
  <2>3. /\ w1 = 0 /\ g1 \in 0..1 /\ l1 \in 0..1 /\ r1 \in 0..1
        /\ g1 + r1 + l1 = g + r + l + w
    BY <1>5, <1>6, BitType
  <2>4. /\ h \in Nat /\ k \in Nat /\ d \in Nat /\ o \in Nat /\ m \in Nat /\ c \in Nat
        /\ w \in Nat /\ g \in Nat /\ l \in Nat /\ x \in Nat /\ a \in Nat /\ r \in Nat
    BY <2>2 DEF Numbers
  <2>5. h + k + d + o + m + c + w1 + g1 + l1 + x + a + r1
        = h + k + d + o + m + c + w + g + l + x + a + r
    <3> HIDE DEF h, k, d, o, m, c, w, w1, g, g1, l, l1, x, a, r, r1
    <3> QED BY <2>3, <2>4
  <2> QED BY <2>1, <2>5, Zenon DEF Sum
<1> QED BY <1>1, <1>7, <1>8, <1>9, Balanced DEF StreamType

LEMMA CommandKeeps ==
    ASSUME StreamType, Accounted, Command
    PROVE  StreamType' /\ Accounted'
<1> DEFINE q == <<"result", made["result"] + 1>>
<1>1. /\ UNCHANGED <<log, cursor, out, ram, batch, wire, src, got, lost, dropped,
                     passed, refused>>
      /\ recv = Waiting /\ made["result"] < MaxCommands
      /\ made' = [made EXCEPT !["result"] = @ + 1] /\ recv' = At("report", q)
  BY DEF Command, queue, data
<1>2. /\ MaxPoints \in Nat /\ MaxCommands \in Nat /\ made["result"] \in Nat
      /\ "result" \notin Sources
  BY AgentStreamAssumption DEF StreamType, Makers
<1>3. q \in Points
  BY <1>1, <1>2 DEF Points
<1>4. recv' \in Goroutines /\ Busy(recv') /\ recv'.point = q
  BY <1>1, <1>3 DEF Goroutines, Busy, At
<1> HIDE DEF q
<1>5. Threads'
  BY <1>1, <1>4 DEF StreamType, Threads, Busy
<1>6. Makers'
  <2>1. /\ made' \in [Sources \cup {"result"} -> Nat] /\ made'["result"] = made["result"] + 1
        /\ \A t \in Sources : made'[t] = made[t]
    BY <1>1, <1>2 DEF StreamType, Makers
  <2> QED BY <1>1, <1>2, <2>1 DEF StreamType, Makers
<1>7. Queues'
  BY <1>1 DEF StreamType, Queues
<1>8. ASSUME NEW p \in Points PROVE Sum(p)' = Sum(p) + Is(q, p)
  <2> DEFINE h == Hands(src, p)  k == Held(recv, p)  d == Count(Pending(log, cursor), p)
             o == Count(out, p)  m == Count(ram, p)  c == Count(batch, p)
             w == Cardinality(Cells(wire, p))
             g == In(got, p)  l == In(lost, p)  x == In(dropped, p)
             a == In(passed, p)  r == In(refused, p)  i == Is(q, p)
  <2>1. Held(recv', p) = i
    BY <1>4, Zenon DEF Held
  <2>2. k = 0
    BY <1>1, WaitingTypes, Zenon DEF Held
  <2>3. Sum(p)' = h + i + d + o + m + c + w + g + l + x + a + r
    BY <1>1, <2>1, Zenon DEF Sum
  <2>4. Numbers(p) /\ i \in Nat
    BY NumbersHold, BitType DEF StreamType
  <2>5. /\ h \in Nat /\ d \in Nat /\ o \in Nat /\ m \in Nat /\ c \in Nat
        /\ w \in Nat /\ g \in Nat /\ l \in Nat /\ x \in Nat /\ a \in Nat /\ r \in Nat
    BY <2>4 DEF Numbers
  <2>6. h + i + d + o + m + c + w + g + l + x + a + r
        = (h + k + d + o + m + c + w + g + l + x + a + r) + i
    <3> HIDE DEF h, k, d, o, m, c, w, g, l, x, a, r, i
    <3> QED BY <2>2, <2>4, <2>5
  <2> QED BY <2>3, <2>6, Zenon DEF Sum
<1>9. Accounted'
  <2>1. Queues /\ Makers /\ q = <<"result", made["result"] + 1>>
    BY DEF StreamType, q
  <2> QED BY <1>1, <1>3, <1>8, <2>1, NewlyMade
<1> QED BY <1>5, <1>6, <1>7, <1>9 DEF StreamType

LEMMA ReportKeeps ==
    ASSUME StreamType, Accounted, Report
    PROVE  StreamType' /\ Accounted'
<1> DEFINE q == recv.point
<1>1. UNCHANGED <<log, cursor, out, batch, wire, got, lost, passed, refused, made, src>>
  BY DEF Report, queue
<1>2. recv.at = "report" /\ q \in Points /\ Offer(q)
  BY DEF Report, StreamType, Threads, Busy
<1>3. Queues /\ Threads /\ Makers
  BY DEF StreamType
<1>4. \A p : Held(recv, p) = Is(q, p)
  BY Zenon DEF Held
<1> HIDE DEF q
<1>5. ASSUME NEW p \in Points, q = p PROVE p \notin dropped
  <2>1. Held(recv, p) + In(dropped, p) <= 1
    BY <1>3, NotYet
  <2>2. Held(recv, p) = 1
    BY <1>4, <1>5, BitType
  <2>3. In(dropped, p) \in 0..1 /\ (In(dropped, p) = 1 <=> p \in dropped)
    BY BitType
  <2> QED BY <2>1, <2>2, <2>3
<1>6. CASE Reached("dataClosed")
  <2>1. recv' = recv
    BY <1>6 DEF Report
  <2>2. ram' = ram /\ dropped' = dropped
    BY <1>2, <1>6 DEF Offer
  <2> QED BY <1>1, <2>1, <2>2, IdleKeeps
<1>7. CASE ~Reached("dataClosed")
  <2>1. recv' = Waiting
    BY <1>7 DEF Report
  <2>2. ASSUME NEW p \in Points
        PROVE  /\ ram' \in Seq(Points)
               /\ Count(ram', p) + In(dropped', p) = Count(ram, p) + In(dropped, p) + Is(q, p)
    BY <1>2, <1>3, <1>5, <1>7, OfferMoves
  <2>3. ram' \in Seq(Points)
    BY <1>2, <2>2
  <2>4. Queues'
    BY <1>1, <1>3, <2>3 DEF Queues
  <2>5. Threads'
    BY <1>1, <1>3, <2>1, WaitingTypes DEF Threads
  <2>6. Makers'
    BY <1>1, <1>3 DEF Makers
  <2>7. ASSUME NEW p \in Points PROVE Sum(p)' = Sum(p)
    <3> DEFINE h == Hands(src, p)  k == Held(recv, p)  d == Count(Pending(log, cursor), p)
               o == Count(out, p)  m == Count(ram, p)  c == Count(batch, p)
               w == Cardinality(Cells(wire, p))  g == In(got, p)  l == In(lost, p)
               x == In(dropped, p)  a == In(passed, p)  r == In(refused, p)
               k1 == Held(recv', p)  m1 == Count(ram', p)  x1 == In(dropped', p)
    <3>1. Sum(p)' = h + k1 + d + o + m1 + c + w + g + l + x1 + a + r
      BY <1>1, Zenon DEF Sum
    <3>2. k1 = 0
      BY <2>1, WaitingTypes, Zenon DEF Held
    <3>3. m1 + x1 = m + x + k
      BY <1>4, <2>2, Zenon
    <3>4. Numbers(p) /\ m1 \in Nat /\ x1 \in Nat
      BY <1>3, <2>3, NumbersHold, SpotsFinite, BitType
    <3>5. /\ h \in Nat /\ k \in Nat /\ d \in Nat /\ o \in Nat /\ m \in Nat /\ c \in Nat
          /\ w \in Nat /\ g \in Nat /\ l \in Nat /\ x \in Nat /\ a \in Nat /\ r \in Nat
      BY <3>4 DEF Numbers
    <3>6. h + k1 + d + o + m1 + c + w + g + l + x1 + a + r
          = h + k + d + o + m + c + w + g + l + x + a + r
      <4> HIDE DEF h, k, d, o, m, c, w, g, l, x, a, r, k1, m1, x1
      <4> QED BY <3>2, <3>3, <3>4, <3>5
    <3> QED BY <3>1, <3>6, Zenon DEF Sum
  <2> QED BY <1>1, <2>4, <2>5, <2>6, <2>7, Balanced DEF StreamType
<1> QED BY <1>6, <1>7

-----------------------------------------------------------------------------
(* The specification                                                       *)

LEMMA AccountedInit == Init => Accounted
<1> SUFFICES ASSUME Init, NEW p \in Points PROVE Places(p) = Bit(p \in Made)
  BY DEF Accounted
<1>1. /\ log = <<>> /\ cursor = 0 /\ out = <<>> /\ ram = <<>> /\ batch = <<>> /\ wire = <<>>
      /\ recv = Waiting /\ got = {} /\ lost = {} /\ dropped = {}
      /\ passed = {} /\ refused = {}
  BY DEF Init, Queue!Init
<1>2. p \notin Made
  <2>1. p[1] \in Sources \cup {"result"} /\ p[2] \in Nat /\ p[2] >= 1
    BY AgentStreamAssumption DEF Points
  <2>2. made[p[1]] = 0
    BY <2>1 DEF Init
  <2> QED BY <2>1, <2>2 DEF Made
<1>3. Hands(src, p) = 0
  <2>1. \A s \in Sources : src[s].point # p
    BY NoPointApart DEF Init, Waiting, At
  <2>2. {s \in Sources : src[s].point = p} = {}
    BY <2>1
  <2> QED BY <2>2, FS_EmptySet DEF Hands
<1>4. Held(recv, p) = 0
  BY <1>1, WaitingTypes, Zenon DEF Held
<1>5. Count(Pending(log, cursor), p) = 0
  <2>1. Len(log) = 0
    BY <1>1, EmptySeq
  <2>2. Pending(log, cursor) = <<>>
    BY <1>1, <2>1, SubSeqEmpty DEF Pending
  <2> QED BY <2>2, CountEmpty
<1>6. Count(out, p) = 0 /\ Count(ram, p) = 0 /\ Count(batch, p) = 0
  BY <1>1, CountEmpty
<1>7. Cardinality(Cells(wire, p)) = 0
  <2>1. Cells(wire, p) = {}
    BY <1>1, NoCells
  <2> QED BY <2>1, FS_EmptySet
<1>8. In(got, p) = 0 /\ In(lost, p) = 0 /\ In(dropped, p) = 0
      /\ In(passed, p) = 0 /\ In(refused, p) = 0
  BY <1>1, Zenon DEF In, Bit
<1>9. Sum(p) = 0
  BY <1>3, <1>4, <1>5, <1>6, <1>7, <1>8 DEF Sum
<1>10. Bit(p \in Made) = 0
  BY <1>2, Zenon DEF Bit
<1> QED BY <1>9, <1>10, SumIs, Zenon

LEMMA NextKeeps ==
    ASSUME StreamType, Accounted, [Next]_vars
    PROVE  StreamType' /\ Accounted'
<1>1. CASE \E s \in Sources : WriteDisk(s) \/ OfferPoint(s) \/ ExitSource(s)
  BY <1>1, WriteDiskKeeps, OfferPointKeeps, ExitSourceKeeps
<1>2. CASE FeedOut \/ PassOver
  BY <1>2, FeedOutKeeps, PassOverKeeps
<1>3. CASE Compact \/ ReaderEnds \/ Dial \/ Register \/ StopGoesOn
  BY <1>3, IdleKeeps DEF Compact, ReaderEnds, Dial, Register, StopGoesOn, queue, data, threads
<1>4. CASE TakePoint
  BY <1>4, TakePointKeeps
<1>5. CASE FlushTimer \/ StreamDone \/ StreamEnds
  <2>1. SendBatch(batch) /\ UNCHANGED <<log, cursor, out, ram, src, recv, made, got, dropped,
                                        passed, refused>>
    BY <1>5 DEF FlushTimer, StreamDone, StreamEnds, queue, threads
  <2> QED BY <2>1, SendKeeps
<1>6. CASE Receive
  BY <1>6, ReceiveKeeps
<1>7. CASE Report
  BY <1>7, ReportKeeps
<1>8. CASE \E s \in Sources : Collect(s)
  BY <1>8, CollectKeeps
<1>9. CASE Break \/ ReceiveTooLarge
  <2>1. Len(wire) \in Nat
    BY LenProperties DEF StreamType, Queues
  <2>2. PICK n \in 0..Len(wire) : EndsAfter(n)
    BY <1>9, <2>1 DEF Break, ReceiveTooLarge
  <2> QED BY <2>2, BreakKeeps
<1>10. CASE Command
  BY <1>10, CommandKeeps
<1>11. CASE UNCHANGED vars
  BY <1>11, IdleKeeps DEF vars, queue, data, threads
<1> QED BY <1>1, <1>2, <1>3, <1>4, <1>5, <1>6, <1>7, <1>8, <1>9, <1>10, <1>11 DEF Next, Work

\* Every data point a collector has handed over, and every result of a command,
\* is in exactly one place: in a goroutine's hands, in the disk queue, in a
\* channel, in the batch, on the wire, with the manager, lost with a stream that
\* ended, dropped at a full channel or by the manager's validation, or passed over
\* by the reader of a WAL that was compacted or holds a part of a record.
THEOREM PointsAccounted == Spec => []Accounted
<1>1. Init => StreamType /\ Accounted
  BY StreamTypeInit, AccountedInit
<1>2. StreamType /\ Accounted /\ [Next]_vars => (StreamType /\ Accounted)'
  BY NextKeeps
<1> QED BY <1>1, <1>2, PTL DEF Spec
=============================================================================
