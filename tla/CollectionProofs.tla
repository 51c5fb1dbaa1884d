------------------------- MODULE CollectionProofs -------------------------
(***************************************************************************)
(* What the collectors owe, for any number of records, lines, changes and  *)
(* faults, any size of a page and of a file, any granularity of the clock: *)
(*                                                                         *)
(*   the mark of a cloud source passes over no record, unless a listing    *)
(*   was cut before it, and not even then if the source keeps the oldest.  *)
(*   What carries it: the mark is the time of a record that was offered,   *)
(*   so that a later one is asked for; what such a source leaves out comes *)
(*   after all that it gives, so that the mark is not behind it; and while *)
(*   there is no mark it owes nothing, so that the clock may move the      *)
(*   window.                                                               *)
(*                                                                         *)
(*   the records of a tailed file come whole.  What carries it: the        *)
(*   builder holds the lines since the last one that began a record, and   *)
(*   what is emitted is ended by the next that does, so that no line that  *)
(*   is written later can belong to it.                                    *)
(*                                                                         *)
(*   after a scan, the data points say what the host is.  What carries it: *)
(*   the baseline is what was told, and during a scan it agrees with the   *)
(*   host on what was gone through and did not change.                     *)
(***************************************************************************)
EXTENDS Collection, FiniteSetTheorems, SequenceTheorems, WellFoundedInduction, TLAPS

-----------------------------------------------------------------------------
(* Cut listings                                                            *)

\* A set of naturals that is not empty has a least element.
LEMMA LeastElement ==
    ASSUME NEW T, T \subseteq Nat, T # {}
    PROVE  \E x \in T : \A y \in T : x <= y
<1> DEFINE R == {p \in Nat \X Nat : p[1] < p[2]}
<1>1. IsWellFoundedOn(R, Nat)
  BY NatLessThanWellFounded, Zenon DEF OpToRel
<1>2. PICK x \in T : \A y \in T : ~(<<y, x>> \in R)
  BY <1>1, WFMin
<1>3. ASSUME NEW y \in T PROVE x <= y
  <2>1. y < x => <<y, x>> \in R
    BY <1>2
  <2> QED BY <1>2, <2>1
<1> QED BY <1>3

\* What a listing cut at Limit gives of S, the oldest first: something, when
\* there is anything; and what it leaves out comes after all it gives.
LEMMA CutKeepsTheOldest ==
    ASSUME NEW n \in Nat, NEW S \in SUBSET (1..n), api.first = "oldest"
    PROVE  /\ Cut(S) \subseteq S
           /\ S # {} => Cut(S) # {}
           /\ \A e \in S \ Cut(S) : \A d \in Cut(S) : d < e
<1>1. Limit \in Nat /\ Limit > 0
  BY CloudAssumption
<1> DEFINE Prior(e) == {d \in S : d < e}
<1>2. \A e : {d \in S : Before(d, e)} = Prior(e)
  BY DEF Before
<1>3. Cut(S) = {e \in S : Cardinality(Prior(e)) < Limit}
  BY <1>2 DEF Cut
<1>4. ASSUME NEW e \in S PROVE IsFiniteSet(Prior(e)) /\ Cardinality(Prior(e)) \in Nat
  <2>0. 1 \in Int /\ n \in Int
    OBVIOUS
  <2>1. Prior(e) \subseteq 1..n /\ IsFiniteSet(1..n)
    BY <2>0, FS_Interval
  <2> QED BY <2>1, FS_Subset, FS_CardinalityType
<1>5. ASSUME S # {} PROVE Cut(S) # {}
  <2>1. S \in SUBSET Nat
    OBVIOUS
  <2>2. PICK x \in S : \A y \in S : x <= y
    BY <1>5, <2>1, LeastElement
  <2>3. Prior(x) = {}
    <3>1. \A y \in S : y \in Nat /\ x \in Nat /\ x <= y /\ ~(y < x)
      BY <2>1, <2>2
    <3> QED BY <3>1
  <2> HIDE DEF Prior
  <2>4. Cardinality(Prior(x)) = 0
    BY <2>3, FS_EmptySet
  <2> QED BY <1>1, <1>3, <2>4
<1>6. ASSUME NEW e \in S \ Cut(S), NEW d \in Cut(S) PROVE d < e
  <2> SUFFICES ASSUME ~(d < e) PROVE FALSE
    OBVIOUS
  <2>1. d \in S /\ e \in S
    BY <1>3
  <2>2. Prior(e) \subseteq Prior(d)
    <3>1. \A y \in S : y \in Nat
      OBVIOUS
    <3>2. e <= d
      BY <2>1, <3>1
    <3>3. \A y \in S : y < e => y < d
      BY <2>1, <3>1, <3>2
    <3> QED BY <3>3
  <2>3. Cardinality(Prior(e)) <= Cardinality(Prior(d))
    BY <1>4, <2>1, <2>2, FS_Subset
  <2>4. Cardinality(Prior(d)) < Limit /\ ~(Cardinality(Prior(e)) < Limit)
    BY <1>3
  <2>5. Cardinality(Prior(d)) \in Nat /\ Cardinality(Prior(e)) \in Nat
    BY <1>4, <2>1
  <2> HIDE DEF Prior
  <2> QED BY <1>1, <2>3, <2>4, <2>5
<1>7. Cut(S) \subseteq S
  BY <1>3
<1> QED BY <1>5, <1>6, <1>7

-----------------------------------------------------------------------------
(* The invariant                                                           *)

\* The log is in the order of its times, which have come.
LogOK ==
    /\ api \in Sources
    /\ now \in Nat
    /\ log \in Seq(Nat)
    /\ \A i, j \in 1..Len(log) : i <= j => log[i] <= log[j]
    /\ \A i \in 1..Len(log) : log[i] <= now
    /\ listed \subseteq 1..Len(log)

\* What the collector keeps; only CloudTrail remembers the files it has seen.
CollectorOK ==
    /\ cursor \in Nat \cup {Unset}
    /\ emitted \in Seq(Nat) /\ Len(emitted) = Len(log)
    /\ offered \subseteq listed
    /\ api # CloudTrail => seen = {}
    /\ \A e \in seen : e \in lost \/ (e \in 1..Len(log) /\ emitted[e] > 0)
    /\ cursor # Unset => \E d \in offered : cursor <= log[d]

\* While there is no mark the window moves with the clock: nothing may be owed.
NothingOwedYet == Resumes /\ cursor = Unset => Owed = {}

CloudInv == LogOK /\ CollectorOK /\ NothingOwedYet /\ NothingPassedBy

\* What NothingPassedBy says of a record that is owed
Again(e) == Resumes => InWindow(e) \/ Tied(e)
Brought(e) == emitted[e] > 0 \/ (e \in cutOff /\ Again(e))

\* The sources that resume ask for what is at the mark or after it.
LEMMA ResumesAt ==
    ASSUME api \in Sources, Resumes
    PROVE  /\ api.first = "oldest" /\ ~api.early
           /\ api.from = "at" \/ api.from = "after"
           /\ api # CloudTrail
  BY DEF Resumes, Sources, CloudTrail, GuardDuty, AzureLog, GcpAudit, O365, Workspace, Defender

\* A query never asks for less than it remembers.
LEMMA AskedBefore ==
    LogOK /\ CollectorOK => Since \in Int /\ Asked \in Int /\ Asked <= Since
<1> SUFFICES ASSUME LogOK, CollectorOK PROVE Since \in Int /\ Asked \in Int /\ Asked <= Since
  OBVIOUS
<1>1. Since \in Int
  <2>1. Interval \in Int
    BY CloudAssumption
  <2> QED BY <2>1 DEF LogOK, CollectorOK, Since, Unset
<1>2. Second \in Nat /\ Second > 0
  BY CloudAssumption
<1> DEFINE s == Since
<1>3. s % Second \in 0..(Second - 1)
  BY <1>1, <1>2
<1>4. Asked = s - (s % Second) \/ Asked = s
  BY DEF Asked
<1> QED BY <1>1, <1>2, <1>3, <1>4

-----------------------------------------------------------------------------
(* A poll                                                                  *)

\* The largest element of the mark and the times on a page, as cursorAdvance
\* chooses it.
LEMMA LatestOf ==
    ASSUME LogOK, NEW page \in SUBSET (1..Len(log)), page # {}, NEW c \in Int
    PROVE  \E t \in {log[e] : e \in page} \cup {c} : \A u \in {log[e] : e \in page} \cup {c} : u <= t
<1> DEFINE n == Len(log)
<1>a. n \in Nat /\ \A i \in 1..n : log[i] \in Nat
  BY DEF LogOK
<1>b. \A i, j \in 1..n : i <= j => log[i] <= log[j]
  BY DEF LogOK
<1> HIDE DEF n
<1>c. page \subseteq 1..n
  BY DEF n
<1> DEFINE far == {n - e : e \in page}
<1>0. \A e \in page : e \in 1..n /\ n - e \in Nat
  BY <1>a, <1>c
<1>1. far \subseteq Nat /\ far # {}
  <2>1. far \subseteq Nat
    BY <1>0
  <2> QED BY <2>1
<1>2. PICK x \in far : \A y \in far : x <= y
  BY <1>1, LeastElement
<1>3. PICK e \in page : x = n - e
  BY <1>2
<1>4. \A d \in page : d <= e
  <2> TAKE d \in page
  <2>1. n - d \in far
    OBVIOUS
  <2>2. n - e <= n - d
    BY <1>2, <1>3, <2>1
  <2> QED BY <2>2, <1>0, <1>a, <1>c
<1>5. \A i \in page : log[i] \in Nat
  BY <1>a, <1>c
<1>6. \A d \in page : log[d] <= log[e]
  BY <1>4, <1>b, <1>c
<1> HIDE DEF far
<1>7. CASE c <= log[e]
  BY <1>5, <1>6, <1>7
<1>8. CASE ~(c <= log[e])
  <2>1. \A d \in page : log[d] <= c
    BY <1>5, <1>6, <1>8
  <2> QED BY <2>1, <1>5
<1> QED BY <1>7, <1>8

\* The mark after a poll: the latest of what it was and the times on the page.
LEMMA MarkAfter ==
    ASSUME LogOK, CollectorOK, NEW page \in SUBSET (1..Len(log)),
           api.from # "all"
    PROVE  /\ Advanced(page) \in {log[e] : e \in page} \cup {cursor}
           /\ Advanced(page) \in Nat \cup {Unset}
           /\ page # {} => Advanced(page) \in Nat
           /\ cursor <= Advanced(page)
<1> DEFINE times == {log[e] : e \in page}
<1>1. times \subseteq Nat /\ cursor \in Int /\ (cursor \in Nat \/ cursor = -1)
  BY DEF LogOK, CollectorOK, Unset
<1>2. CASE page = {}
  BY <1>1, <1>2 DEF Advanced, CollectorOK
<1>3. CASE page # {}
  <2>1. times # {}
    BY <1>3
  <2>3. \E t \in times \cup {cursor} : \A u \in times \cup {cursor} : u <= t
    BY <1>1, <1>3, LatestOf
  <2>4. Advanced(page) = CHOOSE t \in times \cup {cursor} : \A u \in times \cup {cursor} : u <= t
    BY <2>1 DEF Advanced
  <2> HIDE DEF times
  <2>5. /\ Advanced(page) \in times \cup {cursor}
        /\ \A u \in times \cup {cursor} : u <= Advanced(page)
    BY <2>3, <2>4
  <2>6. PICK t \in times : TRUE
    BY <2>1
  <2>7. t <= Advanced(page) /\ cursor <= Advanced(page)
    BY <2>5, <2>6
  <2> DEFINE a == Advanced(page)
  <2>8. a \in Nat
    <3>1. t \in Nat /\ (a \in Nat \/ a = -1) /\ t <= a
      BY <1>1, <2>5, <2>6, <2>7
    <3> HIDE DEF a
    <3> QED BY <3>1
  <2> QED BY <2>5, <2>7, <2>8 DEF times
<1> QED BY <1>2, <1>3

\* A record a cut page leaves out is asked for by the next query, or has the
\* very time the page ends with.
LEMMA LeftOutAskedAgain ==
    ASSUME LogOK, CollectorOK, LogOK', CollectorOK', Resumes,
           NEW S, S = {e \in listed : InWindow(e)},
           cursor' = Advanced(Cut(S)), UNCHANGED <<api, now, log, listed>>,
           NEW e \in S \ Cut(S)
    PROVE  InWindow(e)' \/ Tied(e)
<1> DEFINE n == Len(log)
<1>1. S \subseteq 1..n /\ n \in Nat
  <2>1. S \subseteq listed
    OBVIOUS
  <2>2. n \in Nat /\ listed \subseteq 1..n
    BY DEF LogOK
  <2> QED BY <2>1, <2>2
<1>2. api.first = "oldest" /\ (api.from = "at" \/ api.from = "after")
  BY ResumesAt DEF LogOK
<1>3. /\ Cut(S) \subseteq S /\ Cut(S) # {}
      /\ \A d \in Cut(S) : d < e
  BY <1>1, <1>2, CutKeepsTheOldest
<1>4. /\ cursor' \in {log[d] : d \in Cut(S)} \cup {cursor}
      /\ cursor' \in Nat /\ cursor <= cursor'
  BY <1>1, <1>2, <1>3, MarkAfter
<1>5. PICK d \in Cut(S) : TRUE
  BY <1>3
<1>6. /\ e \in 1..n /\ log[e] \in Nat
      /\ \A c \in Cut(S) : c # e /\ c \in 1..n /\ log[c] \in Nat /\ log[c] <= log[e]
  <2>1. \A i \in 1..n : log[i] \in Nat
    BY DEF LogOK
  <2>2. \A i, j \in 1..n : i <= j => log[i] <= log[j]
    BY DEF LogOK
  <2> HIDE DEF n
  <2>3. e \in 1..n /\ \A c \in Cut(S) : c \in 1..n /\ c < e
    BY <1>1, <1>3
  <2>4. \A c \in Cut(S) : c # e /\ c <= e
    BY <1>1, <2>3
  <2> QED BY <2>1, <2>2, <2>3, <2>4
<1>7. CASE cursor' = cursor /\ cursor # Unset
  <2>1. Since' = Since
    BY <1>7 DEF Since
  <2>2. Asked' = Asked
    BY <2>1 DEF Asked
  <2>3. InWindow(e)
    OBVIOUS
  <2> QED BY <2>2, <2>3 DEF InWindow
<1>8. CASE \E c \in Cut(S) : cursor' = log[c]
  <2>1. PICK c \in Cut(S) : cursor' = log[c]
    BY <1>8
  <2>2. (Since \in Int /\ Asked \in Int /\ Asked <= Since)'
    <3>1. (LogOK /\ CollectorOK => Since \in Int /\ Asked \in Int /\ Asked <= Since)'
      BY AskedBefore, PTL
    <3> QED BY <3>1
  <2>3. Since' = log[c]
    BY <1>4, <2>1 DEF Since, Unset
  <2> DEFINE asked == Asked'
  <2>4. asked \in Int /\ asked <= log[c] /\ log[c] \in Nat /\ log[c] <= log[e] /\ log[e] \in Nat
    BY <2>2, <2>3, <1>6
  <2>5. InWindow(e)' <=> (CASE api.from = "all" -> TRUE
                            [] api.from = "at"  -> log[e] >= asked
                            [] api.from = "after" -> log[e] > asked)
    BY DEF InWindow
  <2> HIDE DEF asked
  <2>6. CASE log[c] < log[e]
    <3>1. asked < log[e] /\ log[e] > asked /\ log[e] >= asked
      BY <2>4, <2>6
    <3>2. api.from = "at" => InWindow(e)'
      BY <2>5, <3>1
    <3>3. api.from = "after" => InWindow(e)'
      BY <2>5, <3>1
    <3> QED BY <1>2, <3>2, <3>3
  <2>7. CASE log[c] = log[e]
    <3>1. api.from = "after" => Tied(e)
      <4>1. c \in Records \ {e}
        BY <1>6 DEF Records
      <4> QED BY <4>1, <2>7 DEF Tied
    <3>2. log[e] >= asked
      BY <2>4, <2>7
    <3>3. api.from = "at" => InWindow(e)'
      BY <2>5, <3>2
    <3> QED BY <1>2, <3>1, <3>3
  <2> QED BY <2>4, <2>6, <2>7
<1> QED
  <2>1. cursor = Unset => \E c \in Cut(S) : cursor' = log[c]
    BY <1>4 DEF Unset
  <2> QED BY <1>4, <1>7, <1>8, <2>1

\* A record that is later than all that were offered is asked for.
LEMMA LaterIsAsked ==
    ASSUME LogOK, CollectorOK, cursor # Unset, NEW e \in listed, ~InWindow(e)
    PROVE  \E d \in offered : log[d] >= log[e]
<1>1. PICK d \in offered : cursor <= log[d]
  BY DEF CollectorOK
<1>2. log[d] \in Nat /\ log[e] \in Nat /\ cursor \in Nat
  <2>1. listed \subseteq 1..Len(log) /\ offered \subseteq listed /\ log \in Seq(Nat)
    BY DEF LogOK, CollectorOK
  <2>2. \A i \in 1..Len(log) : log[i] \in Nat
    BY <2>1
  <2>3. cursor \in Nat
    BY DEF CollectorOK
  <2> QED BY <1>1, <2>1, <2>2, <2>3
<1>3. Asked \in Int /\ Asked <= cursor
  <2>1. Asked \in Int /\ Asked <= Since
    BY AskedBefore
  <2> QED BY <2>1 DEF Since
<1>4. log[e] <= Asked
  <2>1. api.from \in {"all", "at", "after"}
    BY DEF LogOK, Sources, CloudTrail, GuardDuty, AzureLog, GcpAudit, O365, Workspace, Defender
  <2>2. CASE api.from = "at"
    <3>1. ~(log[e] >= Asked)
      BY <2>2 DEF InWindow
    <3> QED BY <1>2, <1>3, <3>1
  <2>3. CASE api.from = "after"
    <3>1. ~(log[e] > Asked)
      BY <2>3 DEF InWindow
    <3> QED BY <1>2, <1>3, <3>1
  <2>4. CASE api.from = "all"
    BY <2>4 DEF InWindow
  <2> QED BY <2>1, <2>2, <2>3, <2>4
<1>5. log[d] >= log[e]
  BY <1>1, <1>2, <1>3, <1>4
<1> QED BY <1>5

\* A poll keeps the invariant.
LEMMA PollKeeps ==
    ASSUME CloudInv, NEW bad, NEW full, Poll(Page, bad, full)
    PROVE  CloudInv'
<1> DEFINE page == Page
           batch == Downloaded(page, bad)
           n == Len(log)
<1>0. LogOK /\ CollectorOK /\ NothingOwedYet /\ NothingPassedBy
  BY DEF CloudInv
<1>1. n \in Nat /\ listed \subseteq 1..n /\ Records = 1..n
  BY <1>0 DEF LogOK, Records
<1>2. page \subseteq listed
  BY DEF Page, Cut
<1>3. /\ cursor' = Advanced(page)
      /\ seen' = IF api = CloudTrail THEN seen \cup batch ELSE seen
      /\ emitted' = [e \in Records |-> IF e \in batch \ full /\ emitted[e] < 2
                                       THEN emitted[e] + 1 ELSE emitted[e]]
      /\ offered' = offered \cup listed
      /\ behind' = behind \cup {e \in listed \ offered :
             ~InWindow(e) /\ (cursor = Unset \/ \E d \in offered : log[d] >= log[e])}
      /\ cutOff' = cutOff \cup {e \in listed \ page : InWindow(e)}
      /\ lost' = lost \cup bad \cup full
      /\ UNCHANGED <<api, now, log, listed>>
  BY DEF Poll
<1>4. LogOK'
  BY <1>0, <1>3 DEF LogOK
<1>5. \A e \in 1..n : emitted[e] \in Nat
  BY <1>0, <1>1 DEF CollectorOK
<1> DEFINE new == [e \in 1..n |-> IF e \in batch \ full /\ emitted[e] < 2
                                  THEN emitted[e] + 1 ELSE emitted[e]]
<1>6. /\ new \in Seq(Nat) /\ Len(new) = n
      /\ \A e \in 1..n : emitted[e] > 0 => new[e] > 0
      /\ \A e \in batch \ full : e \in 1..n => new[e] > 0
  <2> HIDE DEF batch, n
  <2>1. new \in [1..n -> Nat]
    BY <1>5
  <2>2. new \in Seq(Nat) /\ Len(new) = n
    BY <1>1, <2>1, IsASeq
  <2>3. \A e \in 1..n : new[e] = IF e \in batch \ full /\ emitted[e] < 2
                                 THEN emitted[e] + 1 ELSE emitted[e]
    OBVIOUS
  <2> HIDE DEF new
  <2>4. ASSUME NEW e \in 1..n, emitted[e] > 0 PROVE new[e] > 0
    <3>1. emitted[e] \in Nat /\ (new[e] = emitted[e] + 1 \/ new[e] = emitted[e])
      BY <1>5, <2>3
    <3> QED BY <2>4, <3>1
  <2>5. ASSUME NEW e \in batch \ full, e \in 1..n PROVE new[e] > 0
    <3>1. emitted[e] \in Nat
      BY <1>5, <2>5
    <3>2. new[e] = IF emitted[e] < 2 THEN emitted[e] + 1 ELSE emitted[e]
      BY <2>3, <2>5
    <3> QED BY <3>1, <3>2
  <2> QED BY <2>2, <2>4, <2>5
<1>7. emitted' = new
  BY <1>1, <1>3
<1> HIDE DEF new
<1>8. CollectorOK'
  <2>1. cursor' \in Nat \cup {Unset}
    <3>1. CASE api.from = "all"
      BY <1>0, <1>3, <3>1 DEF Advanced, CollectorOK
    <3>2. CASE api.from # "all"
      BY <1>0, <1>1, <1>2, <1>3, <3>2, MarkAfter
    <3> QED BY <3>1, <3>2
  <2>2. emitted' \in Seq(Nat) /\ Len(emitted') = Len(log')
    BY <1>3, <1>6, <1>7
  <2>3. offered' \subseteq listed'
    BY <1>0, <1>1, <1>3 DEF CollectorOK
  <2>4. api' # CloudTrail => seen' = {}
    BY <1>0, <1>3 DEF CollectorOK
  <2>5. ASSUME NEW e \in seen' PROVE e \in lost' \/ (e \in 1..n /\ emitted'[e] > 0)
    <3>1. CASE e \in seen
      BY <1>0, <1>3, <1>6, <1>7, <3>1 DEF CollectorOK
    <3>2. CASE e \notin seen
      <4>1. e \in batch /\ e \in 1..n
        BY <1>1, <1>2, <1>3, <2>5, <3>2 DEF Downloaded
      <4> QED BY <1>3, <1>6, <1>7, <4>1
    <3> QED BY <3>1, <3>2
  <2>6. cursor' # Unset => \E d \in offered' : cursor' <= log'[d]
    <3>1. CASE cursor' = cursor
      BY <1>0, <1>3, <3>1 DEF CollectorOK
    <3>2. CASE cursor' # cursor
      <4>1. api.from # "all"
        BY <1>3, <3>2 DEF Advanced
      <4>2. PICK d \in page : cursor' = log[d]
        BY <1>0, <1>1, <1>2, <1>3, <3>2, <4>1, MarkAfter
      <4>3. d \in offered' /\ log'[d] \in Nat /\ log'[d] = log[d]
        BY <1>0, <1>1, <1>2, <1>3 DEF LogOK
      <4>4. cursor' <= log'[d]
        BY <4>2, <4>3
      <4> QED BY <4>3, <4>4
    <3> QED BY <3>1, <3>2
  <2> QED BY <1>3, <2>1, <2>2, <2>3, <2>4, <2>5, <2>6 DEF CollectorOK
<1>9. ASSUME Resumes'
      PROVE  /\ cursor' = Unset => Owed' = {}
             /\ \A e \in listed \ page : InWindow(e) => InWindow(e)' \/ Tied(e)
  <2>0. Resumes
    BY <1>3, <1>9 DEF Resumes
  <2>1. /\ api.first = "oldest" /\ ~api.early /\ api.from # "all" /\ api # CloudTrail
    BY <1>0, <2>0, ResumesAt DEF LogOK
  <2> DEFINE S == {e \in listed : InWindow(e)}
  <2>2. page = Cut(S)
    BY <2>1 DEF Page
  <2>4. S \subseteq 1..n /\ S \subseteq listed
    BY <1>1
  <2>5. cursor' = Unset => Owed' = {}
    <3> SUFFICES ASSUME cursor' = Unset PROVE Owed' = {}
      OBVIOUS
    <3>1. page = {} /\ cursor <= Unset
      BY <1>0, <1>1, <1>2, <1>3, <2>1, MarkAfter DEF Unset
    <3>2. S = {}
      BY <1>1, <2>1, <2>2, <2>4, <3>1, CutKeepsTheOldest
    <3>3. cursor = Unset
      BY <1>0, <3>1 DEF CollectorOK, Unset
    <3>4. Owed = {}
      BY <1>0, <2>0, <3>3 DEF NothingOwedYet
    <3>5. \A e \in Owed' : e \in Owed \/ e \in S
      BY <1>3, <3>3 DEF Owed
    <3> QED BY <3>2, <3>4, <3>5
  <2>6. ASSUME NEW e \in listed \ page, InWindow(e) PROVE InWindow(e)' \/ Tied(e)
    BY <1>0, <1>3, <1>4, <1>8, <2>0, <2>2, <2>6, LeftOutAskedAgain
  <2> QED BY <2>5, <2>6
<1>10. ASSUME NEW e \in Owed' PROVE Brought(e)'
  <2>1. /\ e \in listed /\ e \in 1..n /\ e \notin lost \cup bad \cup full
        /\ e \in Owed \/ (e \notin offered /\ e \notin behind')
    BY <1>0, <1>1, <1>3 DEF Owed, CollectorOK
  <2>2. (Resumes' <=> Resumes) /\ (Tied(e) => Tied(e)')
    BY <1>3 DEF Resumes, Tied, Records
  <2>3. emitted[e] > 0 => emitted'[e] > 0
    BY <1>6, <1>7, <2>1
  <2>4. CASE e \in page
    <3>1. CASE e \in seen
      BY <1>0, <2>1, <2>3, <3>1 DEF CollectorOK, Brought
    <3>2. CASE e \notin seen
      <4>1. e \in batch \ full
        BY <2>1, <2>4, <3>2 DEF Downloaded
      <4> QED BY <1>6, <1>7, <2>1, <4>1 DEF Brought
    <3> QED BY <3>1, <3>2
  <2>5. CASE e \notin page /\ InWindow(e)
    <3>1. e \in cutOff'
      BY <1>3, <2>1, <2>5
    <3>2. Resumes' => InWindow(e)' \/ Tied(e)
      BY <1>9, <2>1, <2>5
    <3> QED BY <2>2, <3>1, <3>2 DEF Brought, Again
  <2>6. CASE ~InWindow(e)
    <3>1. e \in Owed
      BY <1>0, <1>3, <2>1, <2>6, LaterIsAsked
    <3>2. emitted[e] > 0 \/ (e \in cutOff /\ (Resumes => Tied(e)))
      BY <1>0, <2>6, <3>1 DEF NothingPassedBy
    <3>3. e \in cutOff => e \in cutOff'
      BY <1>3
    <3> QED BY <2>2, <2>3, <3>2, <3>3 DEF Brought, Again
  <2> QED BY <2>4, <2>5, <2>6
<1> QED
  <2>1. NothingOwedYet'
    BY <1>9 DEF NothingOwedYet
  <2>2. NothingPassedBy'
    BY <1>10 DEF NothingPassedBy, Brought, Again
  <2> QED BY <1>4, <1>8, <2>1, <2>2 DEF CloudInv

-----------------------------------------------------------------------------
(* The other steps                                                         *)

\* What NothingPassedBy and NothingOwedYet look at besides the listing and the
\* count of failures, unchanged.
LEMMA NothingMoved ==
    ASSUME CloudInv, LogOK', CollectorOK',
           UNCHANGED <<api, now, log, cursor, offered, behind, cutOff, lost, emitted>>
    PROVE  CloudInv'
<1>1. NothingOwedYet'
  BY DEF CloudInv, NothingOwedYet, Resumes, Owed
<1>2. NothingPassedBy'
  BY DEF CloudInv, NothingPassedBy, Resumes, Owed, InWindow, Asked, Since, Tied, Records
<1> QED BY <1>1, <1>2 DEF CloudInv

\* A record comes to be: the ones before it stay where they are.
LEMMA HappenKeeps ==
    ASSUME CloudInv, Happen
    PROVE  CloudInv'
<1> DEFINE n == Len(log)
<1>0. LogOK /\ CollectorOK /\ NothingOwedYet /\ NothingPassedBy
  BY DEF CloudInv
<1>1. /\ log' = Append(log, now) /\ emitted' = Append(emitted, 0)
      /\ UNCHANGED <<api, now, listed, cursor, seen, pollFaults, offered, behind, cutOff, lost>>
  BY DEF Happen
<1>2. /\ n \in Nat /\ log \in Seq(Nat) /\ now \in Nat /\ emitted \in Seq(Nat) /\ Len(emitted) = n
      /\ listed \subseteq 1..n /\ offered \subseteq listed
  BY <1>0 DEF LogOK, CollectorOK
<1>3. /\ log' \in Seq(Nat) /\ Len(log') = n + 1
      /\ \A i \in 1..n : log'[i] = log[i]
      /\ log'[n + 1] = now
  BY <1>1, <1>2, AppendProperties
<1>4. /\ emitted' \in Seq(Nat) /\ Len(emitted') = n + 1
      /\ \A i \in 1..n : emitted'[i] = emitted[i]
  BY <1>1, <1>2, AppendProperties
<1>5. LogOK'
  <2>1. \A i \in 1..n : log[i] \in Nat /\ log[i] <= now
    BY <1>0 DEF LogOK
  <2>2. \A i, j \in 1..n : i <= j => log[i] <= log[j]
    BY <1>0 DEF LogOK
  <2> HIDE DEF n
  <2>3. \A i \in 1..(n + 1) : i \in 1..n \/ i = n + 1
    BY <1>2
  <2>4. ASSUME NEW i \in 1..(n + 1) PROVE log'[i] <= now
    <3>1. CASE i \in 1..n
      <4>1. log'[i] = log[i] /\ log[i] <= now
        BY <1>3, <2>1, <3>1
      <4> QED BY <4>1
    <3>2. CASE i = n + 1
      <4>1. log'[i] = now /\ now \in Nat
        BY <1>2, <1>3, <3>2
      <4> QED BY <4>1
    <3> QED BY <2>3, <3>1, <3>2
  <2>5. ASSUME NEW i \in 1..(n + 1), NEW j \in 1..(n + 1), i <= j
        PROVE  log'[i] <= log'[j]
    <3>1. CASE j \in 1..n
      <4>1. i \in 1..n
        BY <1>2, <2>5, <3>1
      <4> QED BY <1>3, <2>2, <2>5, <3>1, <4>1
    <3>2. CASE j = n + 1
      BY <1>3, <2>4, <3>2
    <3> QED BY <2>3, <3>1, <3>2
  <2>6. listed \subseteq 1..(n + 1)
    BY <1>2
  <2> QED BY <1>0, <1>1, <1>3, <2>4, <2>5, <2>6 DEF LogOK
<1>6. CollectorOK'
  <2>1. \A e \in seen : e \in lost \/ (e \in 1..(n + 1) /\ emitted'[e] > 0)
    <3>1. \A e \in 1..n : e \in 1..(n + 1)
      BY <1>2
    <3>2. \A e \in seen : e \in lost \/ (e \in 1..n /\ emitted[e] > 0)
      BY <1>0 DEF CollectorOK
    <3> QED BY <1>4, <3>1, <3>2
  <2>2. cursor # Unset => \E d \in offered : cursor <= log'[d]
    <3> SUFFICES ASSUME cursor # Unset PROVE \E d \in offered : cursor <= log'[d]
      OBVIOUS
    <3>1. PICK d \in offered : cursor <= log[d]
      BY <1>0 DEF CollectorOK
    <3>2. log'[d] = log[d]
      BY <1>2, <1>3
    <3> QED BY <3>1, <3>2
  <2> QED BY <1>0, <1>1, <1>3, <1>4, <2>1, <2>2 DEF CollectorOK
<1>7. NothingOwedYet'
  BY <1>0, <1>1 DEF NothingOwedYet, Resumes, Owed
<1>8. NothingPassedBy'
  <2> SUFFICES ASSUME NEW e \in Owed' PROVE Brought(e)'
    BY DEF NothingPassedBy, Brought, Again
  <2>1. (Resumes' <=> Resumes) /\ e \in Owed /\ e \in 1..n
    BY <1>1, <1>2 DEF Resumes, Owed
  <2>2. log'[e] = log[e] /\ emitted'[e] = emitted[e]
    BY <1>3, <1>4, <2>1
  <2>3. Asked' = Asked
    BY <1>1 DEF Asked, Since
  <2>4. InWindow(e) => InWindow(e)'
    BY <1>1, <2>2, <2>3 DEF InWindow
  <2>5. Tied(e) => Tied(e)'
    <3> SUFFICES ASSUME Tied(e) PROVE Tied(e)'
      OBVIOUS
    <3>1. Records = 1..n /\ Records' = 1..(n + 1)
      BY <1>2, <1>3 DEF Records
    <3>2. PICK d \in (1..n) \ {e} : log[d] = log[e]
      BY <3>1 DEF Tied
    <3>3. log'[d] = log'[e] /\ d \in (1..(n + 1)) \ {e}
      BY <1>2, <1>3, <2>2, <3>2
    <3>4. api'.from = "after"
      BY <1>1 DEF Tied
    <3> QED BY <3>1, <3>3, <3>4 DEF Tied
  <2>6. Brought(e)
    BY <1>0, <2>1 DEF NothingPassedBy, Brought, Again
  <2> QED BY <1>1, <2>1, <2>2, <2>4, <2>5, <2>6 DEF Brought, Again
<1> QED BY <1>5, <1>6, <1>7, <1>8 DEF CloudInv

\* The clock moves the window only while there is no mark, and then nothing is
\* owed.
LEMMA TickKeeps ==
    ASSUME CloudInv, Tick
    PROVE  CloudInv'
<1>0. LogOK /\ CollectorOK /\ NothingOwedYet /\ NothingPassedBy
  BY DEF CloudInv
<1>1. /\ now' = now + 1
      /\ UNCHANGED <<api, log, listed, cursor, seen, pollFaults, offered, behind, cutOff, lost, emitted>>
  BY DEF Tick
<1>2. LogOK'
  <2>1. now \in Nat /\ now' \in Nat
    BY <1>0, <1>1 DEF LogOK
  <2>2. \A i \in 1..Len(log) : log[i] \in Nat /\ log[i] <= now
    BY <1>0 DEF LogOK
  <2>3. \A i \in 1..Len(log) : log[i] <= now'
    BY <1>1, <2>1, <2>2
  <2> QED BY <1>0, <1>1, <2>1, <2>3 DEF LogOK
<1>3. CollectorOK'
  BY <1>0, <1>1 DEF CollectorOK
<1>4. NothingOwedYet'
  BY <1>0, <1>1 DEF NothingOwedYet, Resumes, Owed
<1>5. NothingPassedBy'
  <2> SUFFICES ASSUME NEW e \in Owed' PROVE Brought(e)'
    BY DEF NothingPassedBy, Brought, Again
  <2>1. (Resumes' <=> Resumes) /\ e \in Owed
    BY <1>1 DEF Resumes, Owed
  <2>2. Resumes => cursor # Unset
    BY <1>0, <2>1 DEF NothingOwedYet
  <2>3. Resumes => Asked' = Asked
    BY <1>1, <2>2 DEF Asked, Since
  <2>4. Brought(e)
    BY <1>0, <2>1 DEF NothingPassedBy, Brought, Again
  <2>5. (Resumes => (InWindow(e) => InWindow(e)')) /\ (Tied(e) => Tied(e)')
    BY <1>1, <2>3 DEF InWindow, Tied, Records
  <2> QED BY <1>1, <2>1, <2>4, <2>5 DEF Brought, Again
<1> QED BY <1>2, <1>3, <1>4, <1>5 DEF CloudInv

\* A restart forgets the mark, and with it what it was for.
LEMMA PollRestartKeeps ==
    ASSUME CloudInv, PollRestart
    PROVE  CloudInv'
<1>1. /\ cursor' = Unset /\ seen' = {} /\ offered' = {}
      /\ UNCHANGED <<api, now, log, listed, emitted>>
  BY DEF PollRestart
<1>2. LogOK'
  BY <1>1 DEF CloudInv, LogOK
<1>3. CollectorOK'
  BY <1>1 DEF CloudInv, CollectorOK
<1>4. Owed' = {}
  BY <1>1 DEF Owed
<1> QED BY <1>2, <1>3, <1>4 DEF CloudInv, NothingOwedYet, NothingPassedBy

\* The steps of the source and the collector.
LEMMA CloudNextKeeps ==
    ASSUME CloudInv, CloudNext
    PROVE  CloudInv'
<1>1. CASE PollSome
  BY <1>1, PollKeeps DEF PollSome
<1>2. CASE PollFails
  <2>1. UNCHANGED <<api, now, log, listed, cursor, seen, offered, behind, cutOff, lost, emitted>>
    BY <1>2 DEF PollFails
  <2>2. LogOK' /\ CollectorOK'
    BY <2>1 DEF CloudInv, LogOK, CollectorOK
  <2> QED BY <2>1, <2>2, NothingMoved
<1>3. CASE \E e \in Records \ listed : List(e)
  <2>1. PICK e \in Records : List(e)
    BY <1>3
  <2>2. /\ listed' = listed \cup {e}
        /\ UNCHANGED <<api, now, log, cursor, seen, offered, behind, cutOff, lost, emitted>>
    BY <2>1 DEF List
  <2>3. e \in 1..Len(log)
    BY DEF CloudInv, LogOK, Records
  <2>4. LogOK' /\ CollectorOK'
    BY <2>2, <2>3 DEF CloudInv, LogOK, CollectorOK
  <2> QED BY <2>2, <2>4, NothingMoved
<1> QED BY <1>1, <1>2, <1>3, HappenKeeps, TickKeeps, PollRestartKeeps DEF CloudNext

-----------------------------------------------------------------------------
(* The tailed file: what a record is                                       *)

\* The numbers of the lines i to j of a file.
Span(f, i, j) == [m \in 1..(j - i + 1) |-> f[i + m - 1].id]

\* No line from i to j begins a record.
Headless(f, i, j) == \A k \in i..j : ~f[k].head

\* A record of a file that stays one whatever is appended to the file: the line
\* that begins the next is there.
Ended(f, t) ==
    \/ ~multiline /\ \E i \in 1..Len(f) : t = Span(f, i, i)
    \/ multiline /\ \E i \in 1..Len(f) : t = Span(f, i, i) /\ Headless(f, 1, i)
    \/ multiline /\ \E j \in 1..(Len(f) - 1) : \E i \in 1..j :
           /\ f[i].head /\ f[j + 1].head /\ Headless(f, i + 1, j)
           /\ t = Span(f, i, j)

Line == [id : Int, head : BOOLEAN]

\* g is f with more lines.
Extends(f, g) == Len(f) <= Len(g) /\ \A i \in 1..Len(f) : g[i] = f[i]

LEMMA SpanOf ==
    ASSUME NEW f \in Seq(Line), NEW i \in 1..Len(f), NEW j \in i..Len(f)
    PROVE  /\ Span(f, i, j) = Ids(SubSeq(f, i, j))
           /\ Span(f, i, j) \in Seq(Int)
           /\ Len(Span(f, i, j)) = j - i + 1
<1> DEFINE s == SubSeq(f, i, j)
           n == j - i + 1
<1>0. Len(f) \in Nat /\ i \in Int /\ j \in Int /\ n \in Nat /\ i <= j
  OBVIOUS
<1>1. \A m \in i..j : f[m] \in Line
  OBVIOUS
<1>2. s \in Seq(Line) /\ Len(s) = n /\ \A m \in 1..n : s[m] = f[i + m - 1]
  BY <1>0, <1>1, SubSeqProperties
<1>3. DOMAIN s = 1..n
  BY <1>2, LenProperties
<1> HIDE DEF s
<1>4. Ids(s) = Span(f, i, j)
  BY <1>2, <1>3 DEF Ids, Span
<1>5. \A m \in 1..n : f[i + m - 1].id \in Int
  <2> TAKE m \in 1..n
  <2>1. i + m - 1 \in i..j
    BY <1>0
  <2> QED BY <1>1, <2>1 DEF Line
<1>6. Span(f, i, j) \in [1..n -> Int]
  BY <1>5 DEF Span
<1>7. Span(f, i, j) \in Seq(Int) /\ Len(Span(f, i, j)) = n
  <2> HIDE DEF n
  <2> QED BY <1>0, <1>6
<1> QED BY <1>4, <1>7 DEF s

\* More lines leave the spans of a file as they are.
LEMMA SpanKept ==
    ASSUME NEW f \in Seq(Line), NEW g \in Seq(Line), Extends(f, g),
           NEW i \in 1..Len(f), NEW j \in 1..Len(f)
    PROVE  /\ Span(f, i, j) = Span(g, i, j)
           /\ Headless(f, i, j) => Headless(g, i, j)
<1>0. Len(f) \in Nat
  OBVIOUS
<1>1. \A m \in 1..(j - i + 1) : i + m - 1 \in 1..Len(f)
  BY <1>0
<1>2. \A m \in 1..(j - i + 1) : g[i + m - 1] = f[i + m - 1]
  BY <1>1 DEF Extends
<1>3. Span(f, i, j) = Span(g, i, j)
  BY <1>2 DEF Span
<1>4. \A k \in i..j : k \in 1..Len(f)
  BY <1>0
<1> QED BY <1>3, <1>4 DEF Headless, Extends

LEMMA EndedKept ==
    ASSUME NEW f \in Seq(Line), NEW g \in Seq(Line), Extends(f, g), NEW t, Ended(f, t)
    PROVE  Ended(g, t)
<1>0. Len(f) \in Nat /\ Len(g) \in Nat /\ Len(f) <= Len(g)
  BY DEF Extends
<1>1. CASE ~multiline /\ \E i \in 1..Len(f) : t = Span(f, i, i)
  <2>1. PICK i \in 1..Len(f) : t = Span(f, i, i)
    BY <1>1
  <2>2. t = Span(g, i, i) /\ i \in 1..Len(g)
    BY <1>0, <2>1, SpanKept
  <2> QED BY <1>1, <2>2 DEF Ended
<1>2. CASE multiline /\ \E i \in 1..Len(f) : t = Span(f, i, i) /\ Headless(f, 1, i)
  <2>1. PICK i \in 1..Len(f) : t = Span(f, i, i) /\ Headless(f, 1, i)
    BY <1>2
  <2>2. 1 \in 1..Len(f) /\ i \in 1..Len(g)
    BY <1>0
  <2>3. t = Span(g, i, i) /\ Headless(g, 1, i)
    BY <2>1, <2>2, SpanKept
  <2> QED BY <1>2, <2>2, <2>3 DEF Ended
<1>3. CASE multiline /\ \E j \in 1..(Len(f) - 1) : \E i \in 1..j :
              /\ f[i].head /\ f[j + 1].head /\ Headless(f, i + 1, j)
              /\ t = Span(f, i, j)
  <2>0. PICK j \in 1..(Len(f) - 1) : \E i \in 1..j :
              /\ f[i].head /\ f[j + 1].head /\ Headless(f, i + 1, j)
              /\ t = Span(f, i, j)
    BY <1>3
  <2>1. PICK i \in 1..j : /\ f[i].head /\ f[j + 1].head /\ Headless(f, i + 1, j)
                         /\ t = Span(f, i, j)
    BY <2>0
  <2>2. i \in 1..Len(f) /\ j \in 1..Len(f) /\ i + 1 \in 1..Len(f) /\ j + 1 \in 1..Len(f)
        /\ j \in 1..(Len(g) - 1)
    BY <1>0
  <2>3. t = Span(g, i, j) /\ Headless(g, i + 1, j)
    BY <2>1, <2>2, SpanKept
  <2>4. g[i].head /\ g[j + 1].head
    BY <2>1, <2>2 DEF Extends
  <2> QED BY <1>3, <2>2, <2>3, <2>4 DEF Ended
<1> QED BY <1>1, <1>2, <1>3 DEF Ended

LEMMA SpanOfOne ==
    ASSUME NEW f \in Seq(Line), NEW i \in 1..Len(f)
    PROVE  Span(f, i, i) = <<f[i].id>> /\ f[i].id \in Int
<1>0. Len(f) \in Nat /\ i \in i..Len(f) /\ f[i] \in Line /\ i - i + 1 = 1
  OBVIOUS
<1>1. f[i].id \in Int
  BY <1>0 DEF Line
<1>2. Span(f, i, i) \in Seq(Int) /\ Len(Span(f, i, i)) = 1
  BY <1>0, SpanOf
<1>3. Span(f, i, i)[1] = f[i].id
  <2>1. i + 1 - 1 = i /\ 1 \in 1..(i - i + 1)
    BY <1>0
  <2> QED BY <2>1 DEF Span
<1> DEFINE t == <<f[i].id>>
<1>4. t \in Seq(Int) /\ Len(t) = 1 /\ t[1] = f[i].id
  BY <1>1
<1> HIDE DEF t
<1>5. \A m \in 1..Len(t) : Span(f, i, i)[m] = t[m]
  BY <1>3, <1>4
<1>6. Span(f, i, i) = t
  BY <1>2, <1>4, <1>5, SeqEqual
<1> QED BY <1>1, <1>6 DEF t

\* An ended record is a record of the file.
LEMMA EndedIsRecord ==
    ASSUME NEW f \in Seq(Line), NEW t, Ended(f, t)
    PROVE  t \in RecordsOf(f)
<1> DEFINE heads == {i \in DOMAIN f : f[i].head}
           end(i) == CHOOSE j \in i..Len(f) : /\ j = Len(f) \/ j + 1 \in heads
                                             /\ \A k \in i + 1 .. j : k \notin heads
<1>0. DOMAIN f = 1..Len(f) /\ Len(f) \in Nat
  OBVIOUS
<1>1. CASE ~multiline /\ \E i \in 1..Len(f) : t = Span(f, i, i)
  <2>1. PICK i \in 1..Len(f) : t = Span(f, i, i)
    BY <1>1
  <2>2. t = <<f[i].id>> /\ i \in DOMAIN f
    BY <1>0, <2>1, SpanOfOne
  <2>3. RecordsOf(f) = {<<f[m].id>> : m \in DOMAIN f}
    BY <1>1 DEF RecordsOf
  <2> QED BY <2>2, <2>3
<1>a. ASSUME multiline
      PROVE  RecordsOf(f) = {Ids(SubSeq(f, i, end(i))) : i \in heads}
                            \cup {<<f[i].id>> : i \in {k \in DOMAIN f : \A h \in heads : k < h}}
  BY <1>a DEF RecordsOf
<1>2. CASE multiline /\ \E i \in 1..Len(f) : t = Span(f, i, i) /\ Headless(f, 1, i)
  <2>1. PICK i \in 1..Len(f) : t = Span(f, i, i) /\ Headless(f, 1, i)
    BY <1>2
  <2>2. t = <<f[i].id>> /\ i \in DOMAIN f
    BY <1>0, <2>1, SpanOfOne
  <2>3. ASSUME NEW h \in heads PROVE i < h
    <3>1. h \in 1..Len(f) /\ f[h].head
      BY <1>0
    <3>2. h \notin 1..i
      BY <2>1, <3>1 DEF Headless
    <3> QED BY <1>0, <3>1, <3>2
  <2>4. i \in {k \in DOMAIN f : \A h \in heads : k < h}
    BY <2>2, <2>3
  <2> HIDE DEF heads, end
  <2> QED BY <1>2, <1>a, <2>2, <2>4
<1>3. CASE multiline /\ \E j \in 1..(Len(f) - 1) : \E i \in 1..j :
              /\ f[i].head /\ f[j + 1].head /\ Headless(f, i + 1, j)
              /\ t = Span(f, i, j)
  <2>0. PICK j \in 1..(Len(f) - 1) : \E i \in 1..j :
              /\ f[i].head /\ f[j + 1].head /\ Headless(f, i + 1, j)
              /\ t = Span(f, i, j)
    BY <1>3
  <2>1. PICK i \in 1..j : /\ f[i].head /\ f[j + 1].head /\ Headless(f, i + 1, j)
                         /\ t = Span(f, i, j)
    BY <2>0
  <2>2. i \in 1..Len(f) /\ j \in i..Len(f) /\ j + 1 \in 1..Len(f)
    BY <1>0
  <2>3. i \in heads /\ j + 1 \in heads
    BY <1>0, <2>1, <2>2
  <2> DEFINE Ends(m) == /\ m = Len(f) \/ m + 1 \in heads
                        /\ \A k \in i + 1 .. m : k \notin heads
  <2>4. Ends(j)
    BY <2>1, <2>3 DEF Headless
  <2>5. ASSUME NEW m \in i..Len(f), Ends(m) PROVE m = j
    <3>0. /\ Len(f) \in Nat /\ i \in Int /\ j \in Int /\ m \in Int
          /\ i <= m /\ m <= Len(f) /\ j <= Len(f) - 1
      BY <1>0, <2>2
    <3> HIDE DEF heads
    <3>1. ~(m < j)
      <4> SUFFICES ASSUME m < j PROVE FALSE
        OBVIOUS
      <4>0. m # Len(f)
        BY <3>0
      <4>1. m + 1 \in i + 1 .. j
        BY <3>0
      <4>2. m + 1 \in heads
        BY <2>5, <4>0
      <4> QED BY <2>4, <4>1, <4>2
    <3>2. ~(j < m)
      <4> SUFFICES ASSUME j < m PROVE FALSE
        OBVIOUS
      <4>1. j + 1 \in i + 1 .. m
        BY <1>0, <2>2
      <4> QED BY <2>3, <2>5, <4>1
    <3> QED BY <1>0, <2>2, <3>1, <3>2
  <2>6. end(i) = j
    <3>1. end(i) = CHOOSE m \in i..Len(f) : Ends(m)
      OBVIOUS
    <3> HIDE DEF Ends, end
    <3> QED BY <2>2, <2>4, <2>5, <3>1
  <2>7. t = Ids(SubSeq(f, i, end(i)))
    BY <2>1, <2>2, <2>6, SpanOf
  <2> HIDE DEF heads, end
  <2> QED BY <1>3, <1>a, <2>3, <2>7
<1> QED BY <1>1, <1>2, <1>3 DEF Ended

\* Reading on.
LEMMA SpanGrows ==
    ASSUME NEW f \in Seq(Line), NEW i \in Nat \ {0}, NEW j \in Nat, i <= j, j + 1 <= Len(f)
    PROVE  Append(Span(f, i, j), f[j + 1].id) = Span(f, i, j + 1)
<1>0. /\ Len(f) \in Nat /\ i \in 1..Len(f) /\ j \in i..Len(f) /\ j + 1 \in i..Len(f)
      /\ j + 1 \in 1..Len(f) /\ (j + 1) - i + 1 = (j - i + 1) + 1 /\ j - i + 1 \in Nat
  OBVIOUS
<1> DEFINE old == Span(f, i, j)
           new == Span(f, i, j + 1)
           n == j - i + 1
<1>1. old \in Seq(Int) /\ Len(old) = n /\ new \in Seq(Int) /\ Len(new) = n + 1
  BY <1>0, SpanOf
<1>2. f[j + 1].id \in Int
  BY <1>0, SpanOfOne
<1>3. /\ Append(old, f[j + 1].id) \in Seq(Int) /\ Len(Append(old, f[j + 1].id)) = n + 1
      /\ \A m \in 1..n : Append(old, f[j + 1].id)[m] = old[m]
      /\ Append(old, f[j + 1].id)[n + 1] = f[j + 1].id
  <2> HIDE DEF old, n
  <2> QED BY <1>1, <1>2, AppendProperties
<1>4. \A m \in 1..n : new[m] = old[m]
  BY <1>0 DEF Span
<1>5. new[n + 1] = f[j + 1].id
  <2>1. i + (n + 1) - 1 = j + 1 /\ n + 1 \in 1..((j + 1) - i + 1)
    BY <1>0
  <2> QED BY <2>1 DEF Span
<1>6. n \in Nat
  BY <1>0
<1> HIDE DEF old, new, n
<1>7. \A m \in 1..(n + 1) : m \in 1..n \/ m = n + 1
  BY <1>6
<1>8. \A m \in 1..(n + 1) : Append(old, f[j + 1].id)[m] = new[m]
  BY <1>3, <1>4, <1>5, <1>7
<1>9. Append(old, f[j + 1].id) = new
  BY <1>1, <1>3, <1>8, SeqEqual
<1> QED BY <1>9 DEF old, new

-----------------------------------------------------------------------------
(* The tailed file: the invariant                                          *)

TailOK ==
    /\ multiline \in BOOLEAN
    /\ files \in Seq(Seq(Line)) /\ Len(files) > 0
    /\ truncations \in Nat
    /\ inode \in 1..Len(files) /\ offset \in Nat
    /\ line \in Seq(Int) /\ told \in Seq(Int)

\* No file was emptied, and all are short enough for a pass to read from the
\* start.  It holds until it fails once.
Small == truncations = 0 /\ \A k \in 1..Len(files) : Len(files[k]) <= MaxBuf

\* What the builder holds of the file read: the lines since the last one that
\* began a record, or nothing when none has.
InBuilder(f) ==
    \/ line = <<>> /\ (multiline => Headless(f, 1, offset))
    \/ multiline /\ \E i \in 1..offset : /\ f[i].head /\ Headless(f, i + 1, offset)
                                        /\ line = Span(f, i, offset)

Reader == Small /\ reading => /\ offset <= Len(files[inode]) /\ ~cutLine
                              /\ InBuilder(files[inode])

ToldWhole ==
    Small => \/ told = <<>>
             \/ \E i \in 1..Len(told) : told[i] < 0
             \/ \E k \in 1..Len(files) : Ended(files[k], told)

TailInv == TailOK /\ Reader /\ ToldWhole

\* The writer appends: what is read so far and what is told stay what they are.
LEMMA GrownKeeps ==
    ASSUME TailInv, TailOK',
           Len(files) <= Len(files'), \A k \in 1..Len(files) : Extends(files[k], files'[k]),
           UNCHANGED <<multiline, truncations, reading, inode, offset, cutLine, line, told>>
    PROVE  TailInv'
<1>1. /\ Len(files) \in Nat /\ Len(files') \in Nat /\ inode \in 1..Len(files)
      /\ \A k \in 1..Len(files) : /\ files[k] \in Seq(Line) /\ Len(files[k]) \in Nat
                                  /\ k \in 1..Len(files')
      /\ \A k \in 1..Len(files') : files'[k] \in Seq(Line) /\ Len(files'[k]) \in Nat
      /\ offset \in Nat
  <2>1. files \in Seq(Seq(Line)) /\ inode \in 1..Len(files) /\ offset \in Nat
    BY DEF TailInv, TailOK
  <2>2. files' \in Seq(Seq(Line))
    BY DEF TailOK
  <2>3. Len(files) \in Nat /\ Len(files') \in Nat /\ \A k \in 1..Len(files) : k \in 1..Len(files')
    BY <2>1, <2>2
  <2>4. \A k \in 1..Len(files) : files[k] \in Seq(Line) /\ Len(files[k]) \in Nat
    BY <2>1
  <2>5. \A k \in 1..Len(files') : files'[k] \in Seq(Line) /\ Len(files'[k]) \in Nat
    BY <2>2
  <2> QED BY <2>1, <2>3, <2>4, <2>5
<1>2. ASSUME Small' PROVE Small
  <2>1. MaxBuf \in Nat
    BY TailAssumption
  <2>2. ASSUME NEW k \in 1..Len(files) PROVE Len(files[k]) <= MaxBuf
    <3>1. k \in 1..Len(files') /\ Len(files[k]) \in Nat /\ Len(files'[k]) \in Nat
      BY <1>1
    <3>2. Len(files'[k]) <= MaxBuf
      BY <1>2, <3>1 DEF Small
    <3>3. Len(files[k]) <= Len(files'[k])
      BY DEF Extends
    <3> QED BY <2>1, <3>1, <3>2, <3>3
  <2> QED BY <1>2, <2>2 DEF Small
<1>3. ASSUME Small', reading'
      PROVE  /\ offset' <= Len(files'[inode']) /\ ~cutLine'
             /\ InBuilder(files[inode])'
  <2>1. offset <= Len(files[inode]) /\ ~cutLine /\ InBuilder(files[inode])
    BY <1>2, <1>3 DEF TailInv, Reader
  <2>2. PICK f, g : f = files[inode] /\ g = files'[inode]
    OBVIOUS
  <2>3. /\ f \in Seq(Line) /\ g \in Seq(Line) /\ Len(f) \in Nat /\ Len(g) \in Nat
        /\ Extends(f, g) /\ Len(f) <= Len(g) /\ \A k \in 1..Len(f) : g[k] = f[k]
    BY <1>1, <2>2 DEF Extends
  <2>4. offset <= Len(f) /\ offset <= Len(g)
    BY <1>1, <2>1, <2>2, <2>3
  <2>5. CASE line = <<>> /\ (multiline => Headless(f, 1, offset))
    <3>1. \A k \in 1..offset : k \in 1..Len(f)
      BY <1>1, <2>3, <2>4
    <3>2. multiline => Headless(g, 1, offset)
      BY <2>3, <2>5, <3>1 DEF Headless
    <3> QED BY <2>1, <2>2, <2>4, <2>5, <3>2 DEF InBuilder
  <2>6. CASE multiline /\ \E i \in 1..offset : /\ f[i].head /\ Headless(f, i + 1, offset)
                                             /\ line = Span(f, i, offset)
    <3>1. PICK i \in 1..offset : /\ f[i].head /\ Headless(f, i + 1, offset)
                                /\ line = Span(f, i, offset)
      BY <2>6
    <3>2. i \in 1..Len(f) /\ offset \in 1..Len(f) /\ \A k \in (i + 1)..offset : k \in 1..Len(f)
      BY <1>1, <2>3, <2>4
    <3>3. line = Span(g, i, offset) /\ g[i].head
      BY <2>3, <3>1, <3>2, SpanKept
    <3>4. Headless(g, i + 1, offset)
      BY <2>3, <3>1, <3>2 DEF Headless
    <3> QED BY <2>1, <2>2, <2>4, <2>6, <3>3, <3>4 DEF InBuilder
  <2> QED BY <2>1, <2>2, <2>5, <2>6 DEF InBuilder
<1>4. ASSUME Small', ~(told' = <<>>), ~(\E i \in 1..Len(told') : told'[i] < 0)
      PROVE  \E k \in 1..Len(files') : Ended(files[k], told)'
  <2>1. PICK k \in 1..Len(files) : Ended(files[k], told)
    BY <1>2, <1>4 DEF TailInv, ToldWhole
  <2>2. PICK f, g : f = files[k] /\ g = files'[k]
    OBVIOUS
  <2>3. f \in Seq(Line) /\ g \in Seq(Line) /\ Extends(f, g) /\ Ended(f, told)
    BY <1>1, <2>1, <2>2
  <2>4. Ended(g, told)
    BY <2>3, EndedKept
  <2>5. Ended(files[k], told)'
    BY <2>2, <2>4 DEF Ended
  <2> QED BY <1>1, <2>5
<1>5. Reader'
  BY <1>3 DEF Reader
<1>6. ToldWhole'
  BY <1>4 DEF ToldWhole
<1> QED BY <1>5, <1>6 DEF TailInv

LEMMA LinesCounted ==
    ASSUME files \in Seq(Seq(Line))
    PROVE  Lines \in Nat
<1> DEFINE S == {{k} \X DOMAIN files[k] : k \in DOMAIN files}
<1>1. DOMAIN files = 1..Len(files) /\ Len(files) \in Nat
  OBVIOUS
<1>2. IsFiniteSet(DOMAIN files)
  <2>1. 1 \in Int /\ Len(files) \in Int
    BY <1>1
  <2> QED BY <1>1, <2>1, FS_Interval
<1>3. IsFiniteSet(S)
  <2> DEFINE pairs == [k \in DOMAIN files |-> {k} \X DOMAIN files[k]]
  <2>1. pairs \in Surjection(DOMAIN files, S)
    BY DEF Surjection
  <2> QED BY <1>2, <2>1, FS_Surjection
<1>4. ASSUME NEW k \in DOMAIN files PROVE IsFiniteSet({k} \X DOMAIN files[k])
  <2>1. files[k] \in Seq(Line)
    BY <1>1
  <2>2. DOMAIN files[k] = 1..Len(files[k]) /\ 1 \in Int /\ Len(files[k]) \in Int
    BY <2>1
  <2>3. IsFiniteSet(DOMAIN files[k])
    BY <2>2, FS_Interval
  <2>4. IsFiniteSet({k})
    BY FS_Singleton
  <2> QED BY <2>3, <2>4, FS_Product
<1>5. \A T \in S : IsFiniteSet(T)
  BY <1>4
<1> HIDE DEF S
<1>6. IsFiniteSet(UNION S)
  BY <1>3, <1>5, FS_UNION
<1>7. Cardinality(UNION S) \in Nat
  BY <1>6, FS_CardinalityType
<1> QED BY <1>7 DEF S, Lines

-----------------------------------------------------------------------------
(* The tailed file: the steps                                              *)

LEMMA EndLineKeeps ==
    ASSUME TailInv, NEW head \in BOOLEAN, EndLine(head)
    PROVE  TailInv'
<1> DEFINE n == Len(files)
           new == [id |-> Lines + truncations * MaxLines + 1, head |-> head]
<1>0. /\ files \in Seq(Seq(Line)) /\ n \in Nat /\ n \in 1..n /\ truncations \in Nat
      /\ files[n] \in Seq(Line)
  BY DEF TailInv, TailOK
<1>1. /\ files' = [files EXCEPT ![n] = Append(files[n], new)]
      /\ UNCHANGED <<multiline, truncations, reading, inode, offset, cutLine, line, told>>
  BY DEF EndLine
<1>2. new \in Line
  <2>1. Lines \in Int
    BY <1>0, LinesCounted
  <2>2. MaxLines \in Int /\ truncations \in Int
    BY <1>0, TailAssumption
  <2>3. truncations * MaxLines \in Int
    BY <2>2
  <2> QED BY <2>1, <2>3 DEF Line
<1> HIDE DEF new
<1> DEFINE g == Append(files[n], new)
<1>3. g \in Seq(Line) /\ Extends(files[n], g)
  BY <1>0, <1>2, AppendProperties DEF Extends
<1> HIDE DEF g
<1>4. /\ files' \in Seq(Seq(Line)) /\ Len(files') = n
      /\ \A k \in 1..n : files'[k] = IF k = n THEN g ELSE files[k]
  <2>1. files' = [files EXCEPT ![n] = g]
    BY <1>1 DEF g
  <2> HIDE DEF n
  <2> QED BY <1>0, <1>3, <2>1, ExceptSeq DEF n
<1>5. TailOK'
  BY <1>1, <1>4 DEF TailInv, TailOK
<1>6. \A k \in 1..n : Extends(files[k], files'[k])
  <2> TAKE k \in 1..n
  <2>1. files[k] \in Seq(Line)
    BY <1>0
  <2>2. Extends(files[k], files[k])
    BY <2>1 DEF Extends
  <2> QED BY <1>3, <1>4, <2>2
<1>7. n <= Len(files')
  BY <1>0, <1>4
<1> QED BY <1>1, <1>5, <1>6, <1>7, GrownKeeps

LEMMA RotateKeeps ==
    ASSUME TailInv, Rotate
    PROVE  TailInv'
<1> DEFINE n == Len(files)
<1>0. files \in Seq(Seq(Line)) /\ n \in Nat
  BY DEF TailInv, TailOK
<1>1. /\ files' = Append(files, <<>>)
      /\ UNCHANGED <<multiline, truncations, reading, inode, offset, cutLine, line, told>>
  BY DEF Rotate
<1>2. <<>> \in Seq(Line)
  OBVIOUS
<1>3. /\ files' \in Seq(Seq(Line)) /\ Len(files') = n + 1
      /\ \A k \in 1..n : files'[k] = files[k]
  BY <1>0, <1>1, <1>2, AppendProperties
<1>4. TailOK'
  <2>1. inode \in 1..n
    BY DEF TailInv, TailOK
  <2>2. inode \in 1..(n + 1) /\ n + 1 > 0
    BY <1>0, <2>1
  <2> QED BY <1>1, <1>3, <2>2 DEF TailInv, TailOK
<1>5. \A k \in 1..n : Extends(files[k], files'[k])
  <2> TAKE k \in 1..n
  <2>1. files'[k] = files[k] /\ Len(files[k]) \in Nat
    BY <1>0, <1>3
  <2> QED BY <2>1 DEF Extends
<1>6. n <= Len(files')
  BY <1>0, <1>3
<1> QED BY <1>1, <1>4, <1>5, <1>6, GrownKeeps

\* A file emptied in place: the property is not about what follows.
LEMMA TruncateKeeps ==
    ASSUME TailInv, Truncate
    PROVE  TailInv'
<1> DEFINE n == Len(files)
<1>0. files \in Seq(Seq(Line)) /\ n \in Nat /\ n \in 1..n /\ truncations \in Nat
  BY DEF TailInv, TailOK
<1>1. /\ files' = [files EXCEPT ![n] = <<>>] /\ truncations' = truncations + 1
      /\ UNCHANGED <<multiline, reading, inode, offset, cutLine, line, told>>
  BY DEF Truncate
<1>2. <<>> \in Seq(Line)
  OBVIOUS
<1>3. files' \in Seq(Seq(Line)) /\ Len(files') = n
  <2> HIDE DEF n
  <2> QED BY <1>0, <1>1, <1>2, ExceptSeq DEF n
<1>4. truncations' \in Nat /\ truncations' # 0
  BY <1>0, <1>1
<1>5. TailOK'
  BY <1>1, <1>3, <1>4 DEF TailInv, TailOK
<1>6. ~Small'
  BY <1>4 DEF Small
<1> QED BY <1>5, <1>6 DEF TailInv, Reader, ToldWhole

LEMMA OpenKeeps ==
    ASSUME TailInv, Open
    PROVE  TailInv'
<1> DEFINE n == Len(files)
           size == Len(files[n])
<1>0. files \in Seq(Seq(Line)) /\ n \in Nat /\ n \in 1..n /\ files[n] \in Seq(Line) /\ size \in Nat
  BY DEF TailInv, TailOK
<1>1. /\ inode' = n /\ line' = <<>>
      /\ UNCHANGED <<multiline, files, truncations, told>>
      /\ \/ size > MaxBuf /\ offset' = size - MaxBuf
         \/ ~(size > MaxBuf) /\ offset' = 0 /\ cutLine' = FALSE
  BY DEF Open
<1>2. offset' \in Nat
  <2>1. MaxBuf \in Nat
    BY TailAssumption
  <2> HIDE DEF size
  <2> QED BY <1>0, <1>1, <2>1
<1>3. TailOK'
  <2>1. line' \in Seq(Int)
    BY <1>1
  <2> QED BY <1>0, <1>1, <1>2, <2>1 DEF TailInv, TailOK
<1>4. Small' => Small /\ ~(size > MaxBuf)
  <2>1. MaxBuf \in Nat
    BY TailAssumption
  <2>2. Small' => Small
    BY <1>1 DEF Small
  <2>3. Small => size <= MaxBuf
    BY <1>0 DEF Small
  <2> HIDE DEF size
  <2> QED BY <1>0, <2>1, <2>2, <2>3
<1>5. Reader'
  <2> SUFFICES ASSUME Small' PROVE /\ offset' <= Len(files'[inode']) /\ ~cutLine'
                                   /\ InBuilder(files[inode])'
    BY DEF Reader
  <2>1. offset' = 0 /\ cutLine' = FALSE /\ offset' <= size
    BY <1>0, <1>1, <1>4
  <2>2. \A f : Headless(f, 1, 0)
    BY DEF Headless
  <2>3. InBuilder(files[inode])'
    BY <1>1, <2>1, <2>2 DEF InBuilder, Headless
  <2> QED BY <1>1, <2>1, <2>3
<1>6. ToldWhole'
  BY <1>1, <1>4 DEF TailInv, ToldWhole, Ended
<1> QED BY <1>3, <1>5, <1>6 DEF TailInv

\* What is emitted at a line: nothing, or what the builder held, or the line.
LEMMA EmitIs ==
    ASSUME NEW record, Emit(record)
    PROVE  told' = told \/ told' = record
  BY DEF Emit

\* A line is read: it continues the record, closes it by beginning the next, or
\* is a record of its own.
LEMMA ReadLineKeeps ==
    ASSUME TailInv, ReadLine
    PROVE  TailInv'
<1> DEFINE f == files[inode]
           j == offset + 1
           s == f[j]
           begins == multiline /\ s.head /\ ~cutLine
<1>0. /\ files \in Seq(Seq(Line)) /\ inode \in 1..Len(files) /\ f \in Seq(Line) /\ Len(f) \in Nat
      /\ offset \in Nat /\ line \in Seq(Int) /\ told \in Seq(Int) /\ multiline \in BOOLEAN
  BY DEF TailInv, TailOK
<1>1. /\ reading /\ offset < Len(f) /\ offset' = j /\ cutLine' = FALSE
      /\ UNCHANGED <<multiline, files, truncations, reading, inode>>
  BY DEF ReadLine
<1>2. /\ j \in 1..Len(f) /\ j \in Nat /\ s \in Line /\ s.id \in Int /\ s.head \in BOOLEAN
  <2>1. j \in 1..Len(f) /\ j \in Nat
    BY <1>0, <1>1
  <2>2. s \in Line
    BY <1>0, <2>1
  <2> QED BY <2>1, <2>2 DEF Line
<1>3. Read(s) \in Int /\ (~cutLine => Read(s) = s.id)
  BY <1>2 DEF Read
<1>4. \/ multiline /\ ~begins /\ line # <<>> /\ line' = Append(line, Read(s)) /\ told' = told
      \/ begins /\ line = <<>> /\ line' = <<Read(s)>> /\ told' = told
      \/ begins /\ line # <<>> /\ line' = <<Read(s)>> /\ (told' = told \/ told' = line)
      \/ /\ ~begins /\ (multiline => line = <<>>)
         /\ line' = <<>> /\ (told' = told \/ told' = <<Read(s)>>)
  <2>1. CASE multiline /\ ~begins /\ line # <<>>
    <3>1. line' = Append(line, Read(s)) /\ told' = told
      BY <2>1 DEF ReadLine
    <3> QED BY <2>1, <3>1
  <2>2. CASE begins /\ line = <<>>
    <3>1. line' = <<Read(s)>> /\ told' = told
      BY <2>2 DEF ReadLine
    <3> QED BY <2>2, <3>1
  <2>3. CASE begins /\ line # <<>>
    <3>1. line' = <<Read(s)>> /\ Emit(line)
      BY <2>3 DEF ReadLine
    <3> QED BY <2>3, <3>1, EmitIs
  <2>4. CASE ~begins /\ ~(multiline /\ line # <<>>)
    <3>1. line' = <<>> /\ Emit(<<Read(s)>>)
      BY <2>4 DEF ReadLine
    <3>2. told' = told \/ told' = <<Read(s)>>
      BY <3>1, EmitIs
    <3> QED BY <2>4, <3>1, <3>2
  <2> QED BY <2>1, <2>2, <2>3, <2>4
<1> HIDE DEF f, j, s, begins
<1>5. TailOK'
  <2>1. <<Read(s)>> \in Seq(Int) /\ <<>> \in Seq(Int) /\ Append(line, Read(s)) \in Seq(Int)
    BY <1>0, <1>3, AppendProperties
  <2>2. line' \in Seq(Int) /\ told' \in Seq(Int)
    BY <1>0, <1>4, <2>1
  <2> QED BY <1>1, <1>2, <2>2 DEF TailInv, TailOK
<1>6. ASSUME Small'
      PROVE  /\ offset' <= Len(files[inode])' /\ ~cutLine' /\ InBuilder(files[inode])'
             /\ told' = told \/ Ended(f, told')
  <2>0. Small
    BY <1>1, <1>6 DEF Small
  <2>1. ~cutLine /\ InBuilder(f)
    BY <1>1, <2>0 DEF TailInv, Reader, f
  <2>2. Read(s) = s.id /\ (begins <=> multiline /\ s.head)
    BY <1>3, <2>1 DEF begins
  <2>3. <<s.id>> = Span(f, j, j)
    BY <1>0, <1>2, SpanOfOne DEF s
  <2>4. files'[inode'] = f /\ offset' = j /\ multiline' = multiline
    BY <1>1 DEF f
  <2>5. j <= Len(f)
    BY <1>0, <1>2
  <2>6. f[j].head <=> s.head
    BY DEF s
  <2> DEFINE InNext(l) == \/ l = <<>> /\ (multiline => Headless(f, 1, j))
                          \/ multiline /\ \E i \in 1..j : /\ f[i].head /\ Headless(f, i + 1, j)
                                                          /\ l = Span(f, i, j)
  <2>7. InNext(line') /\ (told' = told \/ Ended(f, told'))
    <3>1. ASSUME multiline, ~begins, line # <<>>, line' = Append(line, Read(s)), told' = told
          PROVE  InNext(line')
      <4>1. PICK i \in 1..offset : /\ f[i].head /\ Headless(f, i + 1, offset)
                                  /\ line = Span(f, i, offset)
        BY <2>1, <3>1 DEF InBuilder
      <4>2. /\ i \in Nat \ {0} /\ i <= offset /\ j = offset + 1 /\ i \in 1..j /\ j <= Len(f)
        BY <1>0, <2>5 DEF j
      <4>3. line' = Span(f, i, j)
        BY <1>0, <2>2, <3>1, <4>1, <4>2, SpanGrows DEF s
      <4>4. \A k \in (i + 1)..j : k \in (i + 1)..offset \/ k = j
        BY <1>0, <4>2
      <4>5. Headless(f, i + 1, j)
        BY <2>2, <2>6, <3>1, <4>1, <4>4 DEF Headless
      <4> QED BY <3>1, <4>1, <4>2, <4>3, <4>5
    <3>2. ASSUME begins, line' = <<Read(s)>>
          PROVE  InNext(line')
      <4>1. Headless(f, j + 1, j)
        BY <1>2 DEF Headless
      <4>2. line' = Span(f, j, j) /\ j \in 1..j /\ f[j].head /\ multiline
        BY <1>2, <2>2, <2>3, <2>6, <3>2
      <4> QED BY <4>1, <4>2
    <3>3. ASSUME begins, line # <<>>, told' = line
          PROVE  Ended(f, told')
      <4>1. PICK i \in 1..offset : /\ f[i].head /\ Headless(f, i + 1, offset)
                                  /\ line = Span(f, i, offset)
        BY <2>1, <3>3 DEF InBuilder
      <4>2. offset \in 1..(Len(f) - 1) /\ j = offset + 1
        BY <1>0, <2>5 DEF j
      <4>3. f[offset + 1].head /\ multiline
        BY <2>2, <2>6, <3>3, <4>2
      <4> QED BY <3>3, <4>1, <4>2, <4>3 DEF Ended
    <3>4. ASSUME ~begins, multiline => line = <<>>
          PROVE  multiline => Headless(f, 1, j)
      <4> SUFFICES ASSUME multiline PROVE Headless(f, 1, j)
        OBVIOUS
      <4>1. Headless(f, 1, offset)
        <5>1. CASE line = <<>> /\ (multiline => Headless(f, 1, offset))
          BY <5>1
        <5>2. CASE \E i \in 1..offset : line = Span(f, i, offset)
          <6>1. PICK i \in 1..offset : line = Span(f, i, offset)
            BY <5>2
          <6>2. i \in 1..Len(f) /\ offset \in i..Len(f) /\ offset - i + 1 > 0
            BY <1>0, <2>5 DEF j
          <6>3. Len(line) > 0
            BY <1>0, <6>1, <6>2, SpanOf
          <6> QED BY <3>4, <6>3
        <5> QED BY <2>1, <5>1, <5>2 DEF InBuilder
      <4>2. \A k \in 1..j : k \in 1..offset \/ k = j
        BY <1>0 DEF j
      <4> QED BY <2>2, <2>6, <3>4, <4>1, <4>2 DEF Headless
    <3>5. ASSUME ~begins, multiline => line = <<>>, told' = <<Read(s)>>
          PROVE  Ended(f, told')
      <4>1. told' = Span(f, j, j) /\ (multiline => Headless(f, 1, j))
        BY <2>2, <2>3, <3>4, <3>5
      <4> QED BY <1>2, <4>1 DEF Ended
    <3> HIDE DEF InNext
    <3>6. CASE ~begins /\ (multiline => line = <<>>) /\ line' = <<>>
      <4>1. InNext(line')
        BY <3>4, <3>6 DEF InNext
      <4> QED BY <1>4, <3>5, <3>6, <4>1
    <3> QED BY <1>4, <3>1, <3>2, <3>3, <3>5, <3>6
  <2>8. InBuilder(files[inode])'
    BY <2>4, <2>7 DEF InBuilder
  <2>9. offset' <= Len(files[inode])'
    BY <2>4, <2>5
  <2> QED BY <1>1, <2>7, <2>8, <2>9
<1>7. Reader'
  BY <1>6 DEF Reader
<1>8. ToldWhole'
  <2> SUFFICES ASSUME Small' PROVE \/ told' = <<>>
                                   \/ \E i \in 1..Len(told') : told'[i] < 0
                                   \/ \E k \in 1..Len(files') : Ended(files[k], told)'
    BY DEF ToldWhole
  <2>1. CASE told' = told
    <3>1. Small
      BY <1>1 DEF Small
    <3> QED BY <1>1, <2>1, <3>1 DEF TailInv, ToldWhole, Ended
  <2>2. CASE Ended(f, told')
    <3>1. Ended(files[inode], told)'
      BY <1>1, <2>2 DEF Ended, f
    <3> QED BY <1>0, <1>1, <3>1
  <2> QED BY <1>6, <2>1, <2>2
<1> QED BY <1>5, <1>7, <1>8 DEF TailInv

\* The end of the file: the builder is emptied, and what is emitted, if anything,
\* has the unfinished line at its end.
LEMMA ReadEndKeeps ==
    ASSUME TailInv, ReadEnd
    PROVE  TailInv'
<1> DEFINE rest == -(MaxLines * (MaxRotations + 1) + 1)
           long == line \o <<rest>>
<1>0. line \in Seq(Int) /\ told \in Seq(Int)
  BY DEF TailInv, TailOK
<1>1. /\ reading' = FALSE /\ line' = <<>> /\ (told' = told \/ told' = long)
      /\ UNCHANGED <<multiline, files, truncations, inode, offset, cutLine>>
  BY EmitIs DEF ReadEnd
<1>2. rest \in Int /\ rest < 0
  <2>1. MaxLines \in Nat /\ MaxRotations + 1 \in Nat
    BY TailAssumption
  <2>2. MaxLines * (MaxRotations + 1) \in Nat
    BY <2>1
  <2> QED BY <2>2
<1> HIDE DEF rest
<1>3. /\ long \in Seq(Int) /\ Len(long) = Len(line) + 1 /\ Len(line) \in Nat
      /\ long[Len(line) + 1] = rest
  <2>1. <<rest>> \in Seq(Int) /\ Len(<<rest>>) = 1 /\ <<rest>>[1] = rest
    BY <1>2
  <2>2. Append(line, rest) = long
    BY <1>0, <1>2, AppendIsConcat
  <2>3. /\ Append(line, rest) \in Seq(Int) /\ Len(Append(line, rest)) = Len(line) + 1
        /\ Append(line, rest)[Len(line) + 1] = rest
    BY <1>0, <1>2, AppendProperties
  <2> QED BY <1>0, <2>2, <2>3
<1> HIDE DEF long
<1>4. TailOK'
  <2>1. line' \in Seq(Int) /\ told' \in Seq(Int)
    BY <1>0, <1>1, <1>3
  <2> QED BY <1>1, <2>1 DEF TailInv, TailOK
<1>5. Reader'
  BY <1>1 DEF Reader
<1>6. ToldWhole'
  <2>1. CASE told' = told
    BY <1>1, <2>1 DEF TailInv, ToldWhole, Small, Ended
  <2>2. CASE told' = long
    <3>1. Len(line) + 1 \in 1..Len(told') /\ told'[Len(line) + 1] < 0
      BY <1>2, <1>3, <2>2
    <3> QED BY <3>1 DEF ToldWhole
  <2> QED BY <1>1, <2>1, <2>2
<1> QED BY <1>4, <1>5, <1>6 DEF TailInv

LEMMA TailUnchanged ==
    ASSUME TailInv,
           UNCHANGED <<multiline, files, truncations, reading, inode, offset, cutLine, line, told>>
    PROVE  TailInv'
  BY DEF TailInv, TailOK, Reader, ToldWhole, Small, InBuilder, Ended

\* The steps of the writer and the reader.
LEMMA TailNextKeeps ==
    ASSUME TailInv, TailNext
    PROVE  TailInv'
<1>1. CASE BeginLine
  BY <1>1, TailUnchanged DEF BeginLine
<1> QED BY <1>1, EndLineKeeps, RotateKeeps, TruncateKeeps, OpenKeeps, ReadLineKeeps,
           ReadEndKeeps DEF TailNext

-----------------------------------------------------------------------------
(* The registry                                                            *)

\* What changed during the scan, or what no data point can have told.
Unsure == touched \cup excused

RegTypes ==
    /\ reg \in [RegKeys -> Data \cup {NoKey}] /\ values \in [RegKeys -> Data \cup {NoKey}]
    /\ DOMAIN shown = Items
    /\ visited \subseteq RegKeys /\ regAt \in RegKeys \cup {"idle", "sweep"}

\* The keys as they are, the baseline, and what was told: a key goes with the
\* one above it; what was told is the baseline; what the scan has visited is in
\* the baseline as it is; and a key it passed over is not there.
RegScan ==
    /\ reg["root"] = NoKey => reg["sub"] = NoKey
    /\ regAt = "root" => visited = {}
    /\ regAt = "sub" => visited = {"root"}
    /\ \A k \in RegKeys \ excused : values[k] = shown[k]
    /\ regAt # "idle" => \A k \in visited \ Unsure : values[k] = reg[k]
    /\ regAt = "sweep" => \A k \in RegKeys \ (visited \cup Unsure) : reg[k] = NoKey

RegTold == regAt = "idle" => \A k \in RegKeys \ Unsure : shown[k] = reg[k]

RegResting == regAt = "idle" /\ \A k \in RegKeys : shown[k] = reg[k]

RegInv == RegTypes /\ IF subject = "registry" THEN RegScan /\ RegTold ELSE RegResting

LEMMA ItemsApart ==
    /\ RegKeys = {"root", "sub"} /\ "root" # "sub"
    /\ RegKeys \subseteq Items /\ Pids \subseteq Items /\ "container" \in Items
    /\ "container" \notin RegKeys \cup Pids /\ RegKeys \cap Pids = {}
    /\ "idle" \notin RegKeys /\ "sweep" \notin RegKeys /\ "sweep" # "idle"
    /\ NoKey \notin Data /\ NoValue \in Data /\ "decoy" \notin Items
  BY DEF RegKeys, Items, Pids, NoKey, NoValue, Data

\* A data point about one item, and about those that are gone.
LEMMA ToldOf ==
    ASSUME NEW i \in Items, NEW v, Told(i, v), DOMAIN shown = Items
    PROVE  /\ DOMAIN shown' = Items
           /\ \A k \in Items \ {i} : shown'[k] = shown[k] /\ (k \in excused' <=> k \in excused)
           /\ i \notin excused' => shown'[i] = v
  BY DEF Told

LEMMA ToldGone ==
    ASSUME NEW gone \in SUBSET Items, NEW v, TellGone(gone, v), DOMAIN shown = Items
    PROVE  /\ DOMAIN shown' = Items
           /\ excused \subseteq excused'
           /\ \A k \in Items \ gone : shown'[k] = shown[k]
           /\ \A k \in gone \ excused' : shown'[k] = v
<1>1. PICK dropped \in SUBSET gone :
          /\ shown' = [i \in Items |-> IF i \in gone \ dropped THEN v ELSE shown[i]]
          /\ excused' = excused \cup dropped
  BY DEF TellGone
<1> QED BY <1>1

LEMMA SetKeyKeeps ==
    ASSUME RegInv, subject = "registry", subject' = subject,
           NEW k \in RegKeys, NEW v \in Data \cup {NoKey}, SetKey(k, v)
    PROVE  RegInv'
<1>0. RegTypes /\ RegScan /\ RegTold
  BY DEF RegInv
<1>1. /\ k = "sub" => reg["root"] # NoKey
      /\ reg' = IF k = "root" /\ v = NoKey THEN Absent ELSE [reg EXCEPT ![k] = v]
      /\ touched' = touched \cup {i \in RegKeys : reg'[i] # reg[i]}
      /\ UNCHANGED <<values, regAt, visited, shown, excused>>
  BY DEF SetKey, Change, regVars
<1>2. RegTypes'
  BY <1>0, <1>1 DEF RegTypes, Absent
<1>3. reg'["root"] = NoKey => reg'["sub"] = NoKey
  BY <1>0, <1>1, ItemsApart DEF RegTypes, RegScan, Absent
<1>4. /\ Unsure \subseteq Unsure'
      /\ \A i \in RegKeys \ Unsure' : reg'[i] = reg[i]
  BY <1>1 DEF Unsure
<1>5. RegScan'
  BY <1>0, <1>1, <1>3, <1>4 DEF RegScan, RegTypes
<1>6. RegTold'
  BY <1>0, <1>1, <1>4 DEF RegTold
<1> QED BY <1>2, <1>5, <1>6 DEF RegInv

LEMMA ScanKeysKeeps ==
    ASSUME RegInv, subject = "registry", subject' = subject, ScanKeys
    PROVE  RegInv'
<1>1. /\ regAt' = "root" /\ visited' = {}
      /\ UNCHANGED <<reg, values, shown, excused>>
  BY DEF ScanKeys
<1> QED BY <1>1, ItemsApart DEF RegInv, RegTypes, RegScan, RegTold

LEMMA PassOverKeeps ==
    ASSUME RegInv, subject = "registry", subject' = subject, PassOver
    PROVE  RegInv'
<1>0. RegTypes /\ RegScan
  BY DEF RegInv
<1>1. /\ regAt \in RegKeys /\ regAt' = "sweep"
      /\ UNCHANGED <<reg, values, visited, shown, touched>>
      /\ \/ reg[regAt] = NoKey /\ excused' = excused
         \/ excused' = excused \cup RegKeys
  BY DEF PassOver
<1>2. Unsure \subseteq Unsure' /\ excused \subseteq excused'
  BY <1>1 DEF Unsure
<1>3. ASSUME NEW k \in RegKeys \ (visited \cup Unsure') PROVE reg[k] = NoKey
  <2>1. reg[regAt] = NoKey
    BY <1>1 DEF Unsure
  <2>2. CASE regAt = "root"
    BY <1>0, <2>1, <2>2, ItemsApart DEF RegScan
  <2>3. CASE regAt = "sub"
    BY <1>0, <2>1, <2>3, ItemsApart DEF RegScan
  <2> QED BY <1>1, <2>2, <2>3, ItemsApart
<1>4. RegScan'
  BY <1>0, <1>1, <1>2, <1>3, ItemsApart DEF RegScan
<1> QED BY <1>0, <1>1, <1>4, ItemsApart DEF RegInv, RegTypes, RegTold

LEMMA CheckKeyKeeps ==
    ASSUME RegInv, subject = "registry", subject' = subject, NEW current \in Data,
           CheckKey(current)
    PROVE  RegInv'
<1> DEFINE k == regAt
<1>0. RegTypes /\ RegScan
  BY DEF RegInv
<1>1. /\ k \in RegKeys /\ reg[k] # NoKey /\ visited' = visited \cup {k}
      /\ regAt' = (IF k = "root" THEN "sub" ELSE "sweep")
      /\ values' = [values EXCEPT ![k] = current]
      /\ UNCHANGED <<reg, touched>>
  BY DEF CheckKey
<1>2. /\ DOMAIN shown' = Items
      /\ \A i \in RegKeys \ {k} : shown'[i] = shown[i] /\ (i \in excused' <=> i \in excused)
      /\ k \notin excused' => shown'[k] = current /\ current = reg[k]
  <2>0. DOMAIN shown = Items /\ k \in Items /\ RegKeys \subseteq Items
    BY <1>0, <1>1, ItemsApart DEF RegTypes
  <2>1. CASE current = reg[k] /\ values[k] = NoKey /\ excused' = excused \cup {k} /\ UNCHANGED shown
    BY <2>0, <2>1
  <2>2. CASE current = reg[k] /\ values[k] = current /\ UNCHANGED <<shown, excused>>
    BY <1>0, <1>1, <2>0, <2>2 DEF RegScan
  <2>3. CASE current = reg[k] /\ Told(k, current)
    BY <2>0, <2>3, ToldOf
  <2>4. CASE shown' = [shown EXCEPT ![k] = current] /\ excused' = excused \cup {k}
    BY <2>0, <2>4
  <2> QED BY <2>1, <2>2, <2>3, <2>4 DEF CheckKey
<1>3. /\ \A i \in RegKeys \ {k} : values'[i] = values[i]
      /\ values'[k] = current /\ values' \in [RegKeys -> Data \cup {NoKey}]
  BY <1>0, <1>1 DEF RegTypes
<1>4. RegTypes'
  BY <1>0, <1>1, <1>2, <1>3, ItemsApart DEF RegTypes
<1>5. \A i \in RegKeys \ excused' : values'[i] = shown'[i]
  BY <1>0, <1>2, <1>3 DEF RegScan
<1>6. \A i \in visited' \ Unsure' : values'[i] = reg'[i]
  <2> TAKE i \in visited' \ Unsure'
  <2>1. CASE i = k
    BY <1>1, <1>2, <1>3, <2>1 DEF Unsure
  <2>2. CASE i # k
    <3>1. i \in visited /\ i \in RegKeys
      BY <1>0, <1>1, <2>2 DEF RegTypes
    <3>2. i \notin Unsure
      BY <1>1, <1>2, <2>2, <3>1 DEF Unsure
    <3>3. regAt # "idle"
      BY <1>1, ItemsApart
    <3> QED BY <1>0, <1>1, <1>3, <2>2, <3>1, <3>2, <3>3 DEF RegScan
  <2> QED BY <2>1, <2>2
<1>7. regAt' = "sweep" => RegKeys \subseteq visited'
  BY <1>0, <1>1, ItemsApart DEF RegScan
<1>8. regAt' = "sub" => visited' = {"root"}
  BY <1>0, <1>1, ItemsApart DEF RegScan
<1>9. regAt' # "idle" /\ regAt' # "root"
  BY <1>1, ItemsApart
<1>10. RegScan'
  BY <1>0, <1>1, <1>5, <1>6, <1>7, <1>8, <1>9 DEF RegScan
<1> QED BY <1>4, <1>9, <1>10 DEF RegInv, RegTold

LEMMA SweepStepKeeps ==
    ASSUME RegInv, subject = "registry", subject' = subject, Sweep
    PROVE  RegInv'
<1> DEFINE gone == {k \in RegKeys \ visited : values[k] # NoKey}
<1>0. RegTypes /\ RegScan
  BY DEF RegInv
<1>1. /\ regAt = "sweep" /\ regAt' = "idle" /\ TellGone(gone, NoKey)
      /\ values' = [k \in RegKeys |-> IF k \in gone THEN NoKey ELSE values[k]]
      /\ UNCHANGED <<reg, visited, touched>>
  BY DEF Sweep
<1>2. /\ DOMAIN shown' = Items /\ excused \subseteq excused'
      /\ \A k \in Items \ gone : shown'[k] = shown[k]
      /\ \A k \in gone \ excused' : shown'[k] = NoKey
  <2>1. gone \in SUBSET Items
    BY ItemsApart
  <2> QED BY <1>0, <1>1, <2>1, ToldGone DEF RegTypes
<1>3. RegTypes'
  BY <1>0, <1>1, <1>2 DEF RegTypes
<1>4. \A k \in RegKeys \ excused' : values'[k] = shown'[k]
  BY <1>0, <1>1, <1>2, ItemsApart DEF RegScan
<1>5. Unsure \subseteq Unsure'
  BY <1>1, <1>2 DEF Unsure
<1>6. ASSUME NEW k \in RegKeys \ Unsure' PROVE shown'[k] = reg'[k]
  <2>0. k \notin excused' /\ k \notin Unsure /\ values'[k] = shown'[k]
    BY <1>4, <1>5, <1>6 DEF Unsure
  <2>1. CASE k \in visited
    BY <1>0, <1>1, <2>0, <2>1, ItemsApart DEF RegScan
  <2>2. CASE k \notin visited
    BY <1>0, <1>1, <2>0, <2>2, ItemsApart DEF RegScan
  <2> QED BY <2>1, <2>2
<1> QED BY <1>0, <1>1, <1>3, <1>4, <1>6, ItemsApart DEF RegInv, RegScan, RegTold

-----------------------------------------------------------------------------
(* The processes                                                           *)

ProcTypes ==
    /\ proc \in [Pids -> Nat] /\ pidList \in [Pids -> Nat]
    /\ DOMAIN shown = Items
    /\ seenPIDs \subseteq Pids /\ todo \subseteq {p \in Pids : pidList[p] # 0}
    /\ procAt \in {"idle", "scan"} /\ hostChanges \in Nat

\* The pids a process was told of: those of the last scan, and those this one
\* has gone through.
Reported(p) == p \in seenPIDs \/ (procAt = "scan" /\ pidList[p] # 0 /\ p \notin todo)

\* A reported pid has the process that was told, unless it ended; of the others
\* none was told; and what did not change is as the list has it.
ProcScan ==
    /\ \A p \in Pids \ excused : IF Reported(p) THEN proc[p] = 0 \/ shown[p] = proc[p]
                                               ELSE shown[p] = 0
    /\ procAt = "scan" => \A p \in Pids \ touched : proc[p] = pidList[p]

ProcTold == procAt = "idle" => \A p \in Pids \ Unsure : shown[p] = proc[p]

ProcResting == procAt = "idle" /\ \A p \in Pids : shown[p] = proc[p]

ProcInv == ProcTypes /\ IF subject = "process" THEN ProcScan /\ ProcTold ELSE ProcResting

LEMMA SpawnKeeps ==
    ASSUME ProcInv, subject = "process", subject' = subject, NEW p \in Pids, Spawn(p)
    PROVE  ProcInv'
<1>0. ProcTypes /\ ProcScan /\ ProcTold
  BY DEF ProcInv
<1>1. /\ proc[p] = 0 /\ proc' = [proc EXCEPT ![p] = hostChanges + 1]
      /\ hostChanges' = hostChanges + 1 /\ touched' = touched \cup {p}
      /\ excused' = IF p \in seenPIDs \/ (procAt = "scan" /\ pidList[p] # 0)
                    THEN excused \cup {p} ELSE excused
      /\ UNCHANGED <<procAt, pidList, seenPIDs, todo, shown>>
  BY DEF Spawn, Change
<1>2. ProcTypes'
  BY <1>0, <1>1 DEF ProcTypes
<1>3. \A q \in Pids : Reported(q)' <=> Reported(q)
  BY <1>1 DEF Reported
<1>4. \A q \in Pids \ {p} : proc'[q] = proc[q]
  BY <1>0, <1>1 DEF ProcTypes
<1>5. p \notin excused' => ~Reported(p)
  BY <1>1 DEF Reported
<1>6. ProcScan'
  BY <1>0, <1>1, <1>3, <1>4, <1>5 DEF ProcScan
<1>7. ProcTold'
  BY <1>0, <1>1, <1>4 DEF ProcTold, Unsure
<1> QED BY <1>2, <1>6, <1>7 DEF ProcInv

LEMMA ExitKeeps ==
    ASSUME ProcInv, subject = "process", subject' = subject, NEW p \in Pids, Exit(p)
    PROVE  ProcInv'
<1>0. ProcTypes /\ ProcScan /\ ProcTold
  BY DEF ProcInv
<1>1. /\ proc' = [proc EXCEPT ![p] = 0]
      /\ hostChanges' = hostChanges + 1 /\ touched' = touched \cup {p}
      /\ UNCHANGED <<procAt, pidList, seenPIDs, todo, shown, excused>>
  BY DEF Exit, Change
<1>2. ProcTypes'
  BY <1>0, <1>1 DEF ProcTypes
<1>3. \A q \in Pids : Reported(q)' <=> Reported(q)
  BY <1>1 DEF Reported
<1>4. proc'[p] = 0 /\ \A q \in Pids \ {p} : proc'[q] = proc[q]
  BY <1>0, <1>1 DEF ProcTypes
<1>6. ProcScan'
  BY <1>0, <1>1, <1>3, <1>4 DEF ProcScan
<1>7. ProcTold'
  BY <1>0, <1>1, <1>4 DEF ProcTold, Unsure
<1> QED BY <1>2, <1>6, <1>7 DEF ProcInv

LEMMA ListProcessesKeeps ==
    ASSUME ProcInv, subject = "process", subject' = subject, ListProcesses
    PROVE  ProcInv'
<1>0. ProcTypes /\ ProcScan
  BY DEF ProcInv
<1>1. /\ procAt = "idle" /\ procAt' = "scan" /\ pidList' = proc
      /\ todo' = {p \in Pids : proc[p] # 0}
      /\ UNCHANGED <<proc, seenPIDs, shown, excused, hostChanges>>
  BY DEF ListProcesses
<1>2. ProcTypes'
  BY <1>0, <1>1 DEF ProcTypes
<1>3. \A q \in Pids : Reported(q)' <=> Reported(q)
  BY <1>1 DEF Reported
<1>4. ProcScan'
  BY <1>0, <1>1, <1>3 DEF ProcScan
<1> QED BY <1>1, <1>2, <1>4 DEF ProcInv, ProcTold

LEMMA ExamineKeeps ==
    ASSUME ProcInv, subject = "process", subject' = subject, NEW p \in Pids, Examine(p)
    PROVE  ProcInv'
<1> DEFINE who == IF proc[p] = 0 THEN pidList[p] ELSE proc[p]
<1>0. ProcTypes /\ ProcScan
  BY DEF ProcInv
<1>1. /\ procAt = "scan" /\ p \in todo /\ todo' = todo \ {p}
      /\ UNCHANGED <<proc, procAt, pidList, seenPIDs, touched, hostChanges>>
      /\ \/ p \in seenPIDs /\ UNCHANGED <<shown, excused>>
         \/ p \notin seenPIDs /\ Told(p, who)
  BY DEF Examine
<1>2. DOMAIN shown = Items /\ p \in Items /\ Pids \subseteq Items
  BY <1>0, ItemsApart DEF ProcTypes
<1>3. /\ DOMAIN shown' = Items
      /\ \A q \in Pids \ {p} : shown'[q] = shown[q] /\ (q \in excused' <=> q \in excused)
      /\ p \notin excused' => proc[p] = 0 \/ shown'[p] = proc[p]
  <2>1. CASE p \in seenPIDs /\ UNCHANGED <<shown, excused>>
    BY <1>0, <1>2, <2>1 DEF ProcScan, Reported
  <2>2. CASE Told(p, who)
    BY <1>2, <2>2, ToldOf
  <2> QED BY <1>1, <2>1, <2>2
<1>4. ProcTypes'
  BY <1>0, <1>1, <1>3 DEF ProcTypes
<1>5. Reported(p)' /\ \A q \in Pids \ {p} : Reported(q)' <=> Reported(q)
  BY <1>0, <1>1 DEF Reported, ProcTypes
<1>6. ProcScan'
  BY <1>0, <1>1, <1>3, <1>5 DEF ProcScan
<1> QED BY <1>1, <1>4, <1>6 DEF ProcInv, ProcTold

LEMMA FinishScanKeeps ==
    ASSUME ProcInv, subject = "process", subject' = subject, FinishScan
    PROVE  ProcInv'
<1> DEFINE listedNow == {p \in Pids : pidList[p] # 0}
           ended == seenPIDs \ listedNow
<1>0. ProcTypes /\ ProcScan
  BY DEF ProcInv
<1>1. /\ procAt = "scan" /\ todo = {} /\ procAt' = "idle"
      /\ seenPIDs' = listedNow /\ TellGone(ended, 0)
      /\ UNCHANGED <<proc, pidList, todo, touched, hostChanges>>
  BY DEF FinishScan
<1>2. /\ DOMAIN shown' = Items /\ excused \subseteq excused'
      /\ \A k \in Items \ ended : shown'[k] = shown[k]
      /\ \A k \in ended \ excused' : shown'[k] = 0
  <2>1. ended \in SUBSET Items
    <3>1. seenPIDs \subseteq Pids
      BY <1>0 DEF ProcTypes
    <3> QED BY <3>1, ItemsApart
  <2> QED BY <1>0, <1>1, <2>1, ToldGone DEF ProcTypes
<1>3. ProcTypes'
  BY <1>0, <1>1, <1>2 DEF ProcTypes
<1>4. ASSUME NEW p \in Pids \ excused'
      PROVE  IF Reported(p)' THEN proc[p] = 0 \/ shown'[p] = proc[p] ELSE shown'[p] = 0
  <2>0. p \notin excused /\ p \in Items
    BY <1>2, ItemsApart
  <2>1. CASE p \in listedNow
    <3>1. Reported(p) /\ Reported(p)' /\ shown'[p] = shown[p]
      BY <1>1, <1>2, <2>0, <2>1 DEF Reported
    <3> QED BY <1>0, <2>0, <3>1 DEF ProcScan
  <2>2. CASE p \notin listedNow
    <3>1. ~Reported(p)'
      BY <1>1, <2>2 DEF Reported
    <3>2. shown'[p] = 0
      <4>1. CASE p \in seenPIDs
        BY <1>2, <2>2, <4>1
      <4>2. CASE p \notin seenPIDs
        BY <1>0, <1>2, <2>0, <2>2, <4>2 DEF ProcScan, Reported
      <4> QED BY <4>1, <4>2
    <3> QED BY <3>1, <3>2
  <2> QED BY <2>1, <2>2
<1>5. ProcScan'
  BY <1>1, <1>4 DEF ProcScan
<1>6. ASSUME NEW p \in Pids \ Unsure' PROVE shown'[p] = proc'[p]
  <2>1. p \notin touched /\ p \notin excused' /\ proc[p] = pidList[p]
    BY <1>0, <1>1 DEF Unsure, ProcScan
  <2>2. Reported(p)' <=> proc[p] # 0
    BY <1>1, <2>1 DEF Reported
  <2>3. IF Reported(p)' THEN proc[p] = 0 \/ shown'[p] = proc[p] ELSE shown'[p] = 0
    BY <1>4, <2>1
  <2>4. proc'[p] = proc[p]
    BY <1>1
  <2> QED BY <2>2, <2>3, <2>4
<1> QED BY <1>3, <1>5, <1>6 DEF ProcInv, ProcTold

-----------------------------------------------------------------------------
(* The decoys                                                              *)

DecoyInv ==
    /\ decoy = "whole" => alarmed \/ "decoy" \in excused
    /\ subject = "registry_deception" /\ checkAt = "replant" => alarmed \/ "decoy" \in excused
    /\ subject # "registry_deception" => decoy = "whole" /\ alarmed = TRUE
    /\ alarmed \in BOOLEAN

LEMMA DecoyKeeps ==
    ASSUME DecoyInv, subject = "registry_deception", subject' = subject, DecoyNext
    PROVE  DecoyInv'
<1>1. ASSUME NEW s \in {"changed", "away"}, Tamper(s) PROVE DecoyInv'
  <2>1. s # "whole"
    OBVIOUS
  <2>2. decoy' = s /\ (alarmed' <=> alarmed /\ checkAt = "replant") /\ UNCHANGED <<checkAt, excused>>
        /\ alarmed' \in BOOLEAN
    BY <1>1 DEF Tamper
  <2> QED BY <2>1, <2>2 DEF DecoyInv
<1>2. CASE CooldownEnds
  BY <1>2 DEF CooldownEnds, DecoyInv
<1>3. CASE CheckDecoy
  BY <1>3 DEF CheckDecoy, DecoyInv
<1>4. CASE Replant
  BY <1>4 DEF Replant, DecoyInv
<1> QED BY <1>1, <1>2, <1>3, <1>4 DEF DecoyNext

-----------------------------------------------------------------------------
(* The steps of the others                                                 *)

LEMMA RegOthers ==
    ASSUME RegInv, subject # "registry", subject' = subject, UNCHANGED regVars,
           DOMAIN shown' = Items, \A k \in RegKeys : shown'[k] = shown[k]
    PROVE  RegInv'
  BY DEF RegInv, RegTypes, RegResting, regVars

LEMMA ProcOthers ==
    ASSUME ProcInv, subject # "process", subject' = subject, UNCHANGED procVars,
           hostChanges' \in Nat,
           DOMAIN shown' = Items, \A p \in Pids : shown'[p] = shown[p]
    PROVE  ProcInv'
  BY DEF ProcInv, ProcTypes, ProcResting, procVars

LEMMA DecoyOthers ==
    ASSUME DecoyInv, subject # "registry_deception", subject' = subject, UNCHANGED decoyVars
    PROVE  DecoyInv'
  BY DEF DecoyInv, decoyVars

HostInv == RegInv /\ ProcInv /\ DecoyInv

\* A step of the collector of the registry.
LEMMA RegistryKeeps ==
    ASSUME HostInv, subject = "registry", subject' = subject, RegistryNext
    PROVE  HostInv'
<1>0. RegInv /\ ProcInv /\ DecoyInv /\ DOMAIN shown = Items /\ hostChanges \in Nat
  BY DEF HostInv, RegInv, RegTypes, ProcInv, ProcTypes
<1>1. RegInv'
  <2>1. CASE \E k \in RegKeys, v \in Data \cup {NoKey} : SetKey(k, v)
    BY <1>0, <2>1, SetKeyKeeps
  <2>2. CASE \E v \in Data : CheckKey(v)
    BY <1>0, <2>2, CheckKeyKeeps
  <2> QED BY <1>0, <2>1, <2>2, ScanKeysKeeps, PassOverKeeps, SweepStepKeeps DEF RegistryNext
<1>2. /\ UNCHANGED procVars /\ UNCHANGED decoyVars /\ hostChanges' \in Nat
      /\ DOMAIN shown' = Items /\ \A p \in Pids : shown'[p] = shown[p]
  <2>1. ASSUME NEW k \in RegKeys, NEW v \in Data \cup {NoKey}, SetKey(k, v)
        PROVE  /\ UNCHANGED procVars /\ UNCHANGED decoyVars /\ hostChanges' \in Nat
               /\ UNCHANGED shown
    BY <1>0, <2>1 DEF SetKey, Change
  <2>2. CASE ScanKeys
    BY <1>0, <2>2 DEF ScanKeys
  <2>3. CASE PassOver
    BY <1>0, <2>3 DEF PassOver
  <2>4. ASSUME NEW current \in Data, CheckKey(current)
        PROVE  /\ UNCHANGED procVars /\ UNCHANGED decoyVars /\ hostChanges' \in Nat
               /\ DOMAIN shown' = Items /\ \A p \in Pids : shown'[p] = shown[p]
    <3>1. UNCHANGED <<procVars, decoyVars, hostChanges>> /\ regAt \in RegKeys
      BY <2>4 DEF CheckKey
    <3>2. \/ UNCHANGED shown
          \/ Told(regAt, current)
          \/ shown' = [shown EXCEPT ![regAt] = current]
      BY <2>4 DEF CheckKey
    <3>3. CASE Told(regAt, current)
      BY <1>0, <3>1, <3>3, ToldOf, ItemsApart
    <3>4. CASE shown' = [shown EXCEPT ![regAt] = current]
      BY <1>0, <3>1, <3>4, ItemsApart
    <3> QED BY <1>0, <3>1, <3>2, <3>3, <3>4
  <2>5. CASE Sweep
    <3>1. PICK gone \in SUBSET RegKeys : TellGone(gone, NoKey)
      BY <2>5 DEF Sweep
    <3>2. gone \in SUBSET Items
      BY ItemsApart
    <3>3. DOMAIN shown' = Items /\ \A k \in Items \ gone : shown'[k] = shown[k]
      BY <1>0, <3>1, <3>2, ToldGone
    <3>4. \A p \in Pids : p \in Items \ gone
      BY ItemsApart
    <3> QED BY <1>0, <2>5, <3>3, <3>4 DEF Sweep
  <2> QED BY <1>0, <2>1, <2>2, <2>3, <2>4, <2>5 DEF RegistryNext
<1>3. ProcInv'
  BY <1>0, <1>2, ProcOthers
<1>4. DecoyInv'
  BY <1>0, <1>2, DecoyOthers
<1> QED BY <1>1, <1>3, <1>4 DEF HostInv

\* A step of the collector of processes.
LEMMA ProcessKeeps ==
    ASSUME HostInv, subject = "process", subject' = subject, ProcessNext
    PROVE  HostInv'
<1>0. RegInv /\ ProcInv /\ DecoyInv /\ DOMAIN shown = Items
  BY DEF HostInv, RegInv, RegTypes
<1>1. ProcInv'
  BY <1>0, SpawnKeeps, ExitKeeps, ExamineKeeps, ListProcessesKeeps, FinishScanKeeps DEF ProcessNext
<1>2. /\ UNCHANGED regVars /\ UNCHANGED decoyVars
      /\ DOMAIN shown' = Items /\ \A k \in RegKeys : shown'[k] = shown[k]
  <2>1. ASSUME NEW p \in Pids, Spawn(p) \/ Exit(p)
        PROVE  UNCHANGED regVars /\ UNCHANGED decoyVars /\ UNCHANGED shown
    BY <2>1 DEF Spawn, Exit
  <2>2. CASE ListProcesses
    BY <1>0, <2>2 DEF ListProcesses
  <2>3. ASSUME NEW p \in Pids, Examine(p)
        PROVE  /\ UNCHANGED regVars /\ UNCHANGED decoyVars
               /\ DOMAIN shown' = Items /\ \A k \in RegKeys : shown'[k] = shown[k]
    <3>1. UNCHANGED <<regVars, decoyVars>> /\ (UNCHANGED shown \/ \E v : Told(p, v))
      BY <2>3 DEF Examine
    <3>2. ASSUME NEW v, Told(p, v)
          PROVE  DOMAIN shown' = Items /\ \A k \in RegKeys : shown'[k] = shown[k]
      BY <1>0, <3>2, ToldOf, ItemsApart
    <3> QED BY <1>0, <3>1, <3>2
  <2>4. CASE FinishScan
    <3>1. PICK gone \in SUBSET Items : TellGone(gone, 0) /\ gone \cap RegKeys = {}
      <4>1. seenPIDs \subseteq Pids
        BY <1>0 DEF ProcInv, ProcTypes
      <4>2. seenPIDs \ {p \in Pids : pidList[p] # 0} \subseteq Items
        BY <4>1, ItemsApart
      <4> QED BY <2>4, <4>1, <4>2, ItemsApart DEF FinishScan
    <3>2. DOMAIN shown' = Items /\ \A k \in Items \ gone : shown'[k] = shown[k]
      BY <1>0, <3>1, ToldGone
    <3>3. \A k \in RegKeys : k \in Items \ gone
      BY <3>1, ItemsApart
    <3> QED BY <2>4, <3>2, <3>3 DEF FinishScan
  <2> QED BY <1>0, <2>1, <2>2, <2>3, <2>4 DEF ProcessNext
<1>3. RegInv'
  BY <1>0, <1>2, RegOthers
<1>4. DecoyInv'
  BY <1>0, <1>2, DecoyOthers
<1> QED BY <1>1, <1>3, <1>4 DEF HostInv

\* A step of the collector of containers, and one of the decoys.
LEMMA DockerKeeps ==
    ASSUME HostInv, subject = "docker", subject' = subject, DockerNext
    PROVE  HostInv'
<1>0. RegInv /\ ProcInv /\ DecoyInv /\ DOMAIN shown = Items /\ hostChanges \in Nat
  BY DEF HostInv, RegInv, RegTypes, ProcInv, ProcTypes
<1>1. /\ UNCHANGED <<regVars, procVars, decoyVars>> /\ hostChanges' \in Nat
      /\ (UNCHANGED shown \/ \E v : Told("container", v))
  <2>1. ASSUME NEW s \in ContainerStates, Become(s)
        PROVE  UNCHANGED <<regVars, procVars, decoyVars, shown>> /\ hostChanges' \in Nat
    BY <1>0, <2>1 DEF Become, Change
  <2>2. CASE Listen \/ Break
    BY <1>0, <2>2 DEF Listen, Break
  <2>3. CASE Hear
    BY <1>0, <2>3 DEF Hear
  <2>4. CASE AskList
    BY <1>0, <2>4 DEF AskList
  <2>5. CASE EmitList
    BY <1>0, <2>5 DEF EmitList
  <2> QED BY <2>1, <2>2, <2>3, <2>4, <2>5 DEF DockerNext
<1>2. DOMAIN shown' = Items /\ \A i \in RegKeys \cup Pids : shown'[i] = shown[i]
  <2>1. ASSUME NEW v, Told("container", v)
        PROVE  DOMAIN shown' = Items /\ \A i \in RegKeys \cup Pids : shown'[i] = shown[i]
    BY <1>0, <2>1, ToldOf, ItemsApart
  <2> QED BY <1>0, <1>1, <2>1
<1> QED BY <1>0, <1>1, <1>2, RegOthers, ProcOthers, DecoyOthers DEF HostInv

LEMMA DeceptionKeeps ==
    ASSUME HostInv, subject = "registry_deception", subject' = subject, DecoyNext
    PROVE  HostInv'
<1>0. RegInv /\ ProcInv /\ DecoyInv /\ DOMAIN shown = Items /\ hostChanges \in Nat
  BY DEF HostInv, RegInv, RegTypes, ProcInv, ProcTypes
<1>1. /\ UNCHANGED <<regVars, procVars, shown>> /\ hostChanges' \in Nat
  BY <1>0 DEF DecoyNext, Tamper, CooldownEnds, CheckDecoy, Replant, Change
<1>2. DecoyInv'
  BY <1>0, DecoyKeeps
<1> QED BY <1>0, <1>1, <1>2, RegOthers, ProcOthers DEF HostInv

LEMMA HostUnchanged ==
    ASSUME HostInv, subject' = subject, UNCHANGED hostVars
    PROVE  HostInv'
<1>1. RegInv'
  BY DEF HostInv, RegInv, RegTypes, RegScan, RegTold, RegResting, Unsure, hostVars
<1>2. ProcInv'
  BY DEF HostInv, ProcInv, ProcTypes, ProcScan, ProcTold, ProcResting, Reported, Unsure, hostVars
<1>3. DecoyInv'
  BY DEF HostInv, DecoyInv, hostVars
<1> QED BY <1>1, <1>2, <1>3 DEF HostInv

-----------------------------------------------------------------------------
(* The specification                                                       *)

\* The initial states.
LEMMA CloudInvInit == Init => CloudInv
<1> SUFFICES ASSUME Init PROVE CloudInv
  OBVIOUS
<1>1. /\ api \in Sources /\ now = 0 /\ log = <<>> /\ listed = {} /\ cursor = Unset
      /\ seen = {} /\ offered = {} /\ emitted = <<>>
  BY DEF Init, CloudInit
<1>2. log \in Seq(Nat) /\ emitted \in Seq(Nat) /\ Len(log) = 0 /\ Len(emitted) = 0
  BY <1>1, EmptySeq
<1>3. 1..0 = {}
  OBVIOUS
<1>4. LogOK
  BY <1>1, <1>2, <1>3 DEF LogOK
<1>5. CollectorOK
  BY <1>1, <1>2 DEF CollectorOK
<1>6. Owed = {}
  BY <1>1 DEF Owed
<1> QED BY <1>4, <1>5, <1>6 DEF CloudInv, NothingOwedYet, NothingPassedBy

LEMMA TailInvInit == Init => TailInv
<1> SUFFICES ASSUME Init PROVE TailInv
  OBVIOUS
<1>1. /\ multiline \in BOOLEAN /\ files = << <<>> >> /\ truncations = 0 /\ reading = FALSE
      /\ inode = 1 /\ offset = 0 /\ line = <<>> /\ told = <<>>
  BY DEF Init, TailInit
<1>2. files \in Seq(Seq(Line)) /\ Len(files) = 1
  <2>1. <<>> \in Seq(Line)
    OBVIOUS
  <2> QED BY <1>1, <2>1
<1>3. TailOK
  <2>1. <<>> \in Seq(Int)
    OBVIOUS
  <2> QED BY <1>1, <1>2, <2>1 DEF TailOK
<1> QED BY <1>1, <1>3 DEF TailInv, Reader, ToldWhole

LEMMA HostInvInit == Init => HostInv
<1> SUFFICES ASSUME Init PROVE HostInv
  OBVIOUS
<1>1. /\ reg \in {Absent, [root |-> "v1", sub |-> NoKey], [root |-> NoValue, sub |-> "v1"]}
      /\ values = reg /\ regAt = "idle" /\ visited = {}
      /\ proc = Nobody /\ procAt = "idle" /\ pidList = Nobody /\ seenPIDs = {} /\ todo = {}
      /\ decoy = "whole" /\ alarmed = TRUE /\ hostChanges = 0
      /\ checkAt = "idle"
      /\ shown = [i \in Items |-> IF i \in RegKeys THEN reg[i] ELSE IF i \in Pids THEN 0 ELSE "none"]
  BY DEF Init, HostInit
<1>2. reg \in [RegKeys -> Data \cup {NoKey}] /\ (reg["root"] = NoKey => reg["sub"] = NoKey)
  <2>1. CASE reg = Absent
    BY <2>1 DEF Absent, RegKeys
  <2>2. CASE reg = [root |-> "v1", sub |-> NoKey]
    BY <2>2 DEF RegKeys, Data
  <2>3. CASE reg = [root |-> NoValue, sub |-> "v1"]
    <3>1. NoValue # NoKey
      BY DEF NoKey, NoValue
    <3>2. reg["root"] = NoValue /\ reg["sub"] = "v1" /\ NoValue \in Data /\ "v1" \in Data
      BY <2>3 DEF Data
    <3>3. reg \in [RegKeys -> Data]
      BY <2>3, <3>2 DEF RegKeys
    <3> QED BY <3>1, <3>2, <3>3
  <2> QED BY <1>1, <2>1, <2>2, <2>3
<1>3. /\ DOMAIN shown = Items /\ \A k \in RegKeys : shown[k] = reg[k]
      /\ \A p \in Pids : shown[p] = 0
  BY <1>1, ItemsApart
<1>4. proc \in [Pids -> Nat] /\ \A p \in Pids : proc[p] = 0
  BY <1>1 DEF Nobody
<1>5. RegInv
  BY <1>1, <1>2, <1>3, ItemsApart DEF RegInv, RegTypes, RegScan, RegTold, RegResting
<1>6. ProcInv
  BY <1>1, <1>3, <1>4 DEF ProcInv, ProcTypes, ProcScan, ProcTold, ProcResting, Reported
<1>7. DecoyInv
  BY <1>1 DEF DecoyInv
<1> QED BY <1>5, <1>6, <1>7 DEF HostInv

\* Every step: the other collectors leave the source alone.
LEMMA CloudInvStep == CloudInv /\ [Next]_vars => CloudInv'
<1> SUFFICES ASSUME CloudInv, [Next]_vars PROVE CloudInv'
  OBVIOUS
<1>1. CASE CloudStep
  BY <1>1, CloudNextKeeps DEF CloudStep
<1>2. CASE UNCHANGED cloudVars
  <2>1. UNCHANGED <<api, now, log, listed, cursor, seen, offered, behind, cutOff, lost, emitted>>
    BY <1>2 DEF cloudVars
  <2>2. LogOK' /\ CollectorOK'
    BY <2>1 DEF CloudInv, LogOK, CollectorOK
  <2> QED BY <2>1, <2>2, NothingMoved
<1>3. CASE ~CloudStep
  <2>1. UNCHANGED cloudVars
    BY <1>3 DEF Next, vars, TailStep, WatchStep, CanaryStep, HostStep
  <2> QED BY <1>2, <2>1
<1> QED BY <1>1, <1>3

LEMMA TailInvStep == TailInv /\ [Next]_vars => TailInv'
<1> SUFFICES ASSUME TailInv, [Next]_vars PROVE TailInv'
  OBVIOUS
<1>1. CASE TailStep
  BY <1>1, TailNextKeeps DEF TailStep
<1>2. CASE ~TailStep
  <2>1. UNCHANGED tailVars
    BY <1>2 DEF Next, vars, CloudStep, WatchStep, CanaryStep, HostStep
  <2> QED BY <2>1, TailUnchanged DEF tailVars
<1> QED BY <1>1, <1>2

LEMMA HostInvStep == HostInv /\ [Next]_vars => HostInv'
<1> SUFFICES ASSUME HostInv, [Next]_vars PROVE HostInv'
  OBVIOUS
<1>1. CASE HostStep
  BY <1>1, RegistryKeeps, ProcessKeeps, DockerKeeps, DeceptionKeeps DEF HostStep
<1>2. CASE ~HostStep
  <2>1. subject' = subject /\ UNCHANGED hostVars
    <3>1. CASE CloudStep \/ TailStep \/ WatchStep \/ CanaryStep
      BY <3>1 DEF CloudStep, TailStep, WatchStep, CanaryStep
    <3>2. CASE UNCHANGED vars
      BY <3>2 DEF vars
    <3> QED BY <1>2, <3>1, <3>2 DEF Next
  <2> QED BY <2>1, HostUnchanged
<1> QED BY <1>1, <1>2

(* The mark of each of the seven sources passes no record: whatever a poll *)
(* was offered in time it has emitted, unless a listing was cut before it; *)
(* then a source that keeps the oldest (GcpAudit, O365, Defender) asks for *)
(* it again, unless it has the very time of another and the query is for   *)
(* later ones (collector.go cursorAdvance, defender.go, o365.go).          *)
THEOREM MarkPassesNothing == Spec => []NothingPassedBy
<1>1. CloudInv => NothingPassedBy
  BY DEF CloudInv
<1> QED BY <1>1, CloudInvInit, CloudInvStep, PTL DEF Spec

(* What the tailer emits is a whole record of one file, however the lines  *)
(* and the rotations of the writer fall between the reads of a pass; not   *)
(* so when a file is emptied in place, when it is longer than a pass goes  *)
(* back, and for an unfinished line that is too long (tailer.go readLoop). *)
THEOREM RecordsComeWhole == Spec => []WholeRecords
<1>1. TailInv => WholeRecords
  <2> SUFFICES ASSUME TailInv, truncations = 0, told # <<>>,
                      ~\E i \in DOMAIN told : told[i] < 0,
                      ~\E k \in DOMAIN files : Len(files[k]) > MaxBuf
               PROVE  \E k \in DOMAIN files : told \in RecordsOf(files[k])
    BY DEF WholeRecords
  <2>1. /\ files \in Seq(Seq(Line)) /\ told \in Seq(Int)
        /\ DOMAIN files = 1..Len(files) /\ DOMAIN told = 1..Len(told)
    BY DEF TailInv, TailOK
  <2>2. \A k \in 1..Len(files) : files[k] \in Seq(Line) /\ Len(files[k]) \in Nat
    BY <2>1
  <2>3. Small
    <3>1. MaxBuf \in Nat
      BY TailAssumption
    <3>2. \A k \in 1..Len(files) : ~(Len(files[k]) > MaxBuf)
      BY <2>1
    <3> QED BY <2>2, <3>1, <3>2 DEF Small
  <2>4. PICK k \in 1..Len(files) : Ended(files[k], told)
    BY <2>1, <2>3 DEF TailInv, ToldWhole
  <2>5. told \in RecordsOf(files[k])
    BY <2>2, <2>4, EndedIsRecord
  <2> QED BY <2>1, <2>5
<1> QED BY <1>1, TailInvInit, TailInvStep, PTL DEF Spec

(* After a scan, whoever reads the data points knows the registry and the  *)
(* processes as they are, but for what changed while it was under way and  *)
(* what no data point can have told; and a decoy is planted again with an  *)
(* alarm (scanChanges, checkKey; collect; check).                          *)
THEOREM HostToldAsItIs == Spec => []HostIsTold
<1>1. HostInv => HostIsTold
  BY DEF HostInv, RegInv, RegTold, RegResting, ProcInv, ProcTold, ProcResting, DecoyInv,
         HostIsTold, Unsure
<1> QED BY <1>1, HostInvInit, HostInvStep, PTL DEF Spec
=============================================================================
