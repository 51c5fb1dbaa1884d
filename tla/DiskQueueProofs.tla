--------------------------- MODULE DiskQueueProofs --------------------------
(***************************************************************************)
(* The disk queue, for every value of the constants, with every fault and  *)
(* compaction the model has: type correctness, the relations between its   *)
(* three positions and the WAL, the limit on the WAL; that one run of the  *)
(* process feeds points in the order they were written, none twice; and    *)
(* that a crash leaves on the WAL what was not fed yet.                    *)
(***************************************************************************)
EXTENDS DiskQueue, SequenceTheorems, TLAPS

\* AckBehindSentBehindReader, made inductive: the position on its way to
\* ackPos was read from sentPos and sentPos has not gone back since.
PositionInv ==
    /\ AckBehindSentBehindReader
    /\ IF up = "down" THEN rPc = "open" /\ cPc = "idle"
       ELSE cPc \in {"save", "save2", "ack"} =>
                ackPos <= cPos /\ cPos <= sentPos

WithinLimit(n) == n = 0 \/ \E id \in Ids : n < MaxBytes + RecLen[id]

\* WalWithinLimit, made inductive: the same bound for the compacted copy.
LimitInv ==
    faults = 0 => /\ WithinLimit(Len(wal))
                  /\ cPc = "swap" => WithinLimit(Len(cTmp))

-----------------------------------------------------------------------------
(* The operators on cells                                                  *)

\* The bytes of a record are a sequence of cells of that record.
LEMMA CellsLemma ==
    ASSUME NEW id \in Ids
    PROVE  /\ Cells(id) \in Seq(Cell)
           /\ Len(Cells(id)) = RecLen[id]
           /\ \A i \in 1..RecLen[id] : Cells(id)[i] = [id |-> id, part |-> i]
<1>1. RecLen[id] \in Nat \ {0, 1}
  BY RecordAssumption
<1>2. \A i \in 1..RecLen[id] : [id |-> id, part |-> i] \in Cell
  BY <1>1 DEF Cell
<1>3. QED
  BY <1>1, <1>2 DEF Cells

\* A prefix no longer than the sequence.
LEMMA PrefixLemma ==
    ASSUME NEW S, NEW s \in Seq(S), NEW n \in 0..Len(s)
    PROVE  /\ Prefix(s, n) \in Seq(S)
           /\ Len(Prefix(s, n)) = n
           /\ \A i \in 1..n : Prefix(s, n)[i] = s[i]
<1>1. \A i \in 1..n : s[i] \in S
  BY LenProperties, ElementOfSeq
<1>2. QED
  BY <1>1, LenProperties, SubSeqProperties DEF Prefix

\* What appending to the cells of a file or of a buffer gives.
LEMMA ConcatCells ==
    ASSUME NEW s \in Seq(Cell), NEW t \in Seq(Cell)
    PROVE  /\ s \o t \in Seq(Cell)
           /\ Len(s \o t) = Len(s) + Len(t)
           /\ \A i \in 1..(Len(s) + Len(t)) :
                (s \o t)[i] = IF i <= Len(s) THEN s[i] ELSE t[i - Len(s)]
BY ConcatProperties

\* What is left after n elements, nothing if there are fewer.
LEMMA AfterLemma ==
    ASSUME NEW S, NEW s \in Seq(S), NEW n \in Nat
    PROVE  /\ After(s, n) \in Seq(S)
           /\ Len(After(s, n)) = IF n < Len(s) THEN Len(s) - n ELSE 0
           /\ \A i \in 1..Len(After(s, n)) : After(s, n)[i] = s[i + n]
<1>1. \A i \in (n + 1)..Len(s) : s[i] \in S
  BY LenProperties, ElementOfSeq
<1>2. Len(s) \in Nat
  BY LenProperties
<1>3. QED
  BY <1>1, <1>2, SubSeqProperties DEF After

\* Half of a record is still cells of that record.
LEMMA TornLemma ==
    ASSUME NEW id \in Ids, NEW n \in 1..(RecLen[id] - 1)
    PROVE  /\ Prefix(Cells(id), n) \in Seq(Cell)
           /\ Len(Prefix(Cells(id), n)) = n
           /\ \A i \in 1..n : Prefix(Cells(id), n)[i] = [id |-> id, part |-> i]
<1>1. RecLen[id] \in Nat
  BY RecordAssumption
<1>2. QED
  BY <1>1, CellsLemma, PrefixLemma

\* The type of what a reader of the file gets.
LEMMA FillLemma ==
    ASSUME NEW s \in Seq(Cell), NEW a \in Nat, NEW b \in Nat, b <= Len(s)
    PROVE  /\ SubSeq(s, a + 1, b) \in Seq(Cell)
           /\ Len(SubSeq(s, a + 1, b)) = IF a < b THEN b - a ELSE 0
           /\ \A i \in 1..(b - a) : SubSeq(s, a + 1, b)[i] = s[a + i]
<1>1. \A i \in (a + 1)..b : s[i] \in Cell
  BY LenProperties, ElementOfSeq
<1>2. QED
  BY <1>1, SubSeqProperties

-----------------------------------------------------------------------------
(* Types                                                                   *)

\* The initial state is well typed.
LEMMA TypeInit == Init => TypeOK
<1> SUFFICES ASSUME Init PROVE TypeOK
  OBVIOUS
<1>1. DiskTypeOK /\ FieldsTypeOK
  BY EmptySeq DEF Init, DiskTypeOK, FieldsTypeOK
<1>2. ReaderTypeOK /\ CkpterTypeOK /\ CloserTypeOK
  BY EmptySeq DEF Init, ReaderTypeOK, CkpterTypeOK, CloserTypeOK, ReaderPcs,
                  CkpterPcs, CloserPcs
<1>3. HistoryTypeOK
  <2>1. nextId \in 1..(MaxRecords + 1) /\ restarts \in 0..MaxRestarts
        /\ faults \in 0..MaxFaults
    BY BoundsAssumption DEF Init
  <2>2. accepted \in Seq(Ids) /\ sent \in Seq(Ids)
    BY EmptySeq DEF Init
  <2>3. QED
    BY <2>1, <2>2 DEF Init, HistoryTypeOK
<1>4. QED
  BY <1>1, <1>2, <1>3 DEF Init, TypeOK

\* A step that leaves a group of variables alone keeps their types.
LEMMA KeepTypes ==
    ASSUME TypeOK
    PROVE  /\ UNCHANGED disk => DiskTypeOK'
           /\ UNCHANGED fields => FieldsTypeOK'
           /\ UNCHANGED reader => ReaderTypeOK'
           /\ UNCHANGED ckpter => CkpterTypeOK'
           /\ UNCHANGED closer => CloserTypeOK'
           /\ UNCHANGED history => HistoryTypeOK'
BY DEF TypeOK, disk, fields, reader, ckpter, closer, history, DiskTypeOK,
       FieldsTypeOK, ReaderTypeOK, CkpterTypeOK, CloserTypeOK, HistoryTypeOK

\* Write preserves types.
LEMMA TypeWrite == ASSUME TypeOK, Write PROVE TypeOK'
<1> USE BoundsAssumption DEF TypeOK
<1>1. CASE WriteOk
  <2>1. nextId \in Ids /\ RecLen[nextId] \in Nat
    BY <1>1, RecordAssumption DEF WriteOk, Offer, Ids, HistoryTypeOK
  <2>2. wal' \in Seq(Cell)
    <3>1. wal \in Seq(Cell) /\ Cells(nextId) \in Seq(Cell)
      BY <2>1, CellsLemma DEF DiskTypeOK
    <3>2. wal \o Cells(nextId) \in Seq(Cell)
      BY <3>1, ConcatCells
    <3>3. QED
      BY <1>1, <3>2 DEF WriteOk
  <2>3. accepted' \in Seq(Ids)
    BY <1>1, <2>1, AppendProperties DEF WriteOk, HistoryTypeOK
  <2>4. DiskTypeOK' /\ FieldsTypeOK'
    BY <1>1, <2>1, <2>2 DEF WriteOk, DiskTypeOK, FieldsTypeOK
  <2>5. ReaderTypeOK' /\ CkpterTypeOK' /\ CloserTypeOK' /\ up' = up
    BY <1>1, KeepTypes DEF WriteOk
  <2>6. HistoryTypeOK'
    BY <1>1, <2>3 DEF WriteOk, Offer, HistoryTypeOK
  <2>7. QED
    BY <2>4, <2>5, <2>6
<1>2. CASE WriteRejected
  <2>1. HistoryTypeOK'
    BY <1>2 DEF WriteRejected, Offer, HistoryTypeOK
  <2>2. QED
    BY <1>2, <2>1, KeepTypes DEF WriteRejected
<1>3. CASE WriteTorn
  <2>1. nextId \in Ids
    BY <1>3 DEF WriteTorn, Offer, Ids, HistoryTypeOK
  <2>2. PICK n \in 1..(RecLen[nextId] - 1) :
          wal' = wal \o Prefix(Cells(nextId), n) /\ writePos' = writePos + n
    BY <1>3 DEF WriteTorn
  <2>3. wal' \in Seq(Cell) /\ n \in Nat
    <3>1. wal \in Seq(Cell) /\ Prefix(Cells(nextId), n) \in Seq(Cell)
      BY <2>1, TornLemma DEF DiskTypeOK
    <3>2. wal \o Prefix(Cells(nextId), n) \in Seq(Cell)
      BY <3>1, ConcatCells
    <3>3. QED
      BY <2>2, <3>2
  <2>4. DiskTypeOK' /\ FieldsTypeOK'
    BY <1>3, <2>2, <2>3 DEF WriteTorn, DiskTypeOK, FieldsTypeOK
  <2>5. ReaderTypeOK' /\ CkpterTypeOK' /\ CloserTypeOK' /\ up' = up
    BY <1>3, KeepTypes DEF WriteTorn
  <2>6. HistoryTypeOK'
    BY <1>3 DEF WriteTorn, Fault, Offer, HistoryTypeOK
  <2>7. QED
    BY <2>4, <2>5, <2>6
<1>4. QED
  BY <1>1, <1>2, <1>3 DEF Write

\* The reader and the stream sender preserve types.
LEMMA TypeReader == ASSUME TypeOK, Reader \/ Take PROVE TypeOK'
<1> USE DEF TypeOK
<1>s. rBuf \in Seq(Cell) /\ Len(rBuf) \in Nat /\ ReaderFile \in Seq(Cell)
      /\ Len(ReaderFile) \in Nat
  BY LenProperties DEF ReaderTypeOK, DiskTypeOK, ReaderFile
<1>f. ASSUME UNCHANGED <<disk, fields, ckpter, closer, up, history>>,
             ReaderTypeOK'
      PROVE  TypeOK'
  BY <1>f, KeepTypes
<1>1. CASE ROpen
  <2>1. ReaderTypeOK'
    BY <1>1, EmptySeq DEF ROpen, ReaderTypeOK, ReaderPcs
  <2>2. QED
    BY <1>1, <1>f, <2>1 DEF ROpen
<1>2. CASE RFill
  <2> DEFINE room == ScanBuf - Len(rBuf)
             end  == IF Len(ReaderFile) - rOff <= room
                       THEN Len(ReaderFile) ELSE rOff + room
  <2>1. rOff \in Nat /\ room \in Nat /\ end \in Nat /\ end <= Len(ReaderFile)
    BY <1>2, <1>s, QueueAssumption DEF RFill, ReaderTypeOK
  <2>2. SubSeq(ReaderFile, rOff + 1, end) \in Seq(Cell)
    <3> HIDE DEF end
    <3>1. QED
      BY <1>s, <2>1, FillLemma
  <2>3. rBuf' = rBuf \o SubSeq(ReaderFile, rOff + 1, end) /\ rOff' = end
    BY <1>2 DEF RFill
  <2> HIDE DEF end, room
  <2>4. rBuf' \in Seq(Cell) /\ rOff' \in Nat
    <3>1. rBuf \o SubSeq(ReaderFile, rOff + 1, end) \in Seq(Cell)
      BY <1>s, <2>2, ConcatCells
    <3>2. QED
      BY <2>1, <2>3, <3>1
  <2>5. ReaderTypeOK'
    BY <1>2, <2>4 DEF RFill, ReaderTypeOK
  <2>6. QED
    BY <1>2, <1>f, <2>5 DEF RFill
<1>3. CASE RLine
  <2>1. PICK n \in 1..Len(rBuf) : GotLine(n - 1) /\ rBuf' = After(rBuf, n)
    BY <1>3 DEF RLine
  <2>2. rBuf' \in Seq(Cell)
    BY <1>s, <2>1, AfterLemma
  <2>3. rPos' \in Nat /\ rItem' \in Ids \cup {0} /\ rPc' \in ReaderPcs
        /\ (rPc' \in {"send", "mark"} => rItem' \in Ids)
    BY <1>3, <1>s, <2>1 DEF GotLine, RLine, ReaderTypeOK, ReaderPcs
  <2>4. ReaderTypeOK'
    BY <1>3, <2>2, <2>3 DEF RLine, ReaderTypeOK
  <2>5. QED
    BY <1>3, <1>f, <2>4 DEF RLine
<1>4. CASE REofToken
  <2>1. rPos' \in Nat /\ rItem' \in Ids \cup {0} /\ rPc' \in ReaderPcs
        /\ (rPc' \in {"send", "mark"} => rItem' \in Ids)
    BY <1>4, <1>s DEF GotLine, REofToken, ReaderTypeOK, ReaderPcs
  <2>2. ReaderTypeOK'
    BY <1>4, <2>1, EmptySeq DEF REofToken, ReaderTypeOK
  <2>3. QED
    BY <1>4, <1>f, <2>2 DEF REofToken
<1>5. CASE RCaughtUp
  <2>1. ReaderTypeOK'
    BY <1>5, EmptySeq DEF RCaughtUp, ReaderTypeOK, ReaderPcs
  <2>2. QED
    BY <1>5, <1>f, <2>1 DEF RCaughtUp
<1>6. CASE RSend
  <2>1. rItem \in Ids
    BY <1>6 DEF RSend, ReaderTypeOK
  <2>2. outCh' \in Seq(Ids) /\ sent' \in Seq(Ids) /\ fed' \subseteq Ids
    BY <1>6, <2>1, AppendProperties DEF RSend, FieldsTypeOK, HistoryTypeOK
  <2>3. FieldsTypeOK' /\ HistoryTypeOK'
    BY <1>6, <2>2 DEF RSend, FieldsTypeOK, HistoryTypeOK
  <2>4. ReaderTypeOK'
    BY <1>6, <2>1 DEF RSend, ReaderTypeOK, ReaderPcs
  <2>5. QED
    BY <1>6, <2>3, <2>4, KeepTypes DEF RSend
<1>7. CASE RMark
  <2>1. FieldsTypeOK'
    BY <1>7 DEF RMark, FieldsTypeOK, ReaderTypeOK
  <2>2. ReaderTypeOK'
    BY <1>7 DEF RMark, ReaderTypeOK, ReaderPcs
  <2>3. QED
    BY <1>7, <2>1, <2>2, KeepTypes DEF RMark
<1>8. CASE RWait
  <2>1. ReaderTypeOK'
    BY <1>8 DEF RWait, ReaderTypeOK, ReaderPcs, ResumeAt
  <2>2. QED
    BY <1>8, <1>f, <2>1 DEF RWait, ResumeAt
<1>9. CASE RStop
  <2>1. ReaderTypeOK'
    BY <1>9 DEF RStop, ReaderTypeOK, ReaderPcs
  <2>2. QED
    BY <1>9, <1>f, <2>1 DEF RStop
<1>10. CASE Take
  <2>1. outCh' \in Seq(Ids) /\ taken' \subseteq Ids
    BY <1>10, HeadTailProperties DEF Take, FieldsTypeOK, HistoryTypeOK
  <2>2. FieldsTypeOK' /\ HistoryTypeOK'
    BY <1>10, <2>1 DEF Take, FieldsTypeOK, HistoryTypeOK
  <2>3. QED
    BY <1>10, <2>2, KeepTypes DEF Take
<1>11. QED
  BY <1>1, <1>2, <1>3, <1>4, <1>5, <1>6, <1>7, <1>8, <1>9, <1>10 DEF Reader

\* The checkpointer and compaction preserve types.
LEMMA TypeCheckpointer == ASSUME TypeOK, Checkpointer PROVE TypeOK'
<1> USE DEF TypeOK
<1>1. CASE CTick
  <2>1. CkpterTypeOK'
    BY <1>1 DEF CTick, CkpterTypeOK, FieldsTypeOK, CkpterPcs
  <2>2. QED
    BY <1>1, <2>1, KeepTypes DEF CTick
<1>2. CASE CSaveOpen
  <2>1. DiskTypeOK'
    BY <1>2 DEF CSaveOpen, DiskTypeOK
  <2>2. CkpterTypeOK'
    BY <1>2 DEF CSaveOpen, CkpterTypeOK, CkpterPcs
  <2>3. QED
    BY <1>2, <2>1, <2>2, KeepTypes DEF CSaveOpen
<1>3. CASE CSaveWrite
  <2>1. DiskTypeOK'
    BY <1>3 DEF CSaveWrite, DiskTypeOK, CkpterTypeOK
  <2>2. CkpterTypeOK'
    BY <1>3 DEF CSaveWrite, CkpterTypeOK, CkpterPcs
  <2>3. QED
    BY <1>3, <2>1, <2>2, KeepTypes DEF CSaveWrite
<1>4. CASE CSaveFails
  <2>1. CkpterTypeOK'
    BY <1>4 DEF CSaveFails, CkpterTypeOK, CkpterPcs
  <2>2. HistoryTypeOK'
    BY <1>4, BoundsAssumption DEF CSaveFails, HistoryTypeOK, Fault
  <2>3. QED
    BY <1>4, <2>1, <2>2, KeepTypes DEF CSaveFails
<1>5. CASE CAck
  <2>1. FieldsTypeOK'
    BY <1>5 DEF CAck, FieldsTypeOK, CkpterTypeOK
  <2>2. CkpterTypeOK'
    BY <1>5 DEF CAck, CkpterTypeOK, CkpterPcs
  <2>3. QED
    BY <1>5, <2>1, <2>2, KeepTypes DEF CAck
<1>6. CASE CCompact
  <2>1. CkpterTypeOK'
    BY <1>6 DEF CCompact, CkpterTypeOK, FieldsTypeOK, CIdle, CkpterPcs
  <2>2. QED
    BY <1>6, <2>1, KeepTypes DEF CCompact
<1>7. CASE CTruncate
  <2>1. DiskTypeOK'
    BY <1>7, EmptySeq DEF CTruncate, DiskTypeOK
  <2>2. FieldsTypeOK'
    BY <1>7 DEF CTruncate, FieldsTypeOK
  <2>3. CkpterTypeOK'
    BY <1>7, EmptySeq DEF CTruncate, CkpterTypeOK, CkpterPcs
  <2>4. HistoryTypeOK'
    BY <1>7, BoundsAssumption DEF CTruncate, HistoryTypeOK, Fault
  <2>5. QED
    BY <1>7, <2>1, <2>2, <2>3, <2>4, KeepTypes DEF CTruncate
<1>8. CASE CCopy
  <2>1. cTmp' \in Seq(Cell)
    BY <1>8, AfterLemma DEF CCopy, DiskTypeOK, CkpterTypeOK
  <2>2. CkpterTypeOK'
    BY <1>8, <2>1 DEF CCopy, CkpterTypeOK, CkpterPcs
  <2>3. QED
    BY <1>8, <2>2, KeepTypes DEF CCopy
<1>9. CASE CCopyFails
  <2>1. CkpterTypeOK'
    BY <1>9 DEF CCopyFails, CkpterTypeOK, CIdle, CkpterPcs
  <2>2. HistoryTypeOK'
    BY <1>9, BoundsAssumption DEF CCopyFails, HistoryTypeOK, Fault
  <2>3. QED
    BY <1>9, <2>1, <2>2, KeepTypes DEF CCopyFails
<1>10. CASE CSwap
  <2>1. Len(cTmp) \in Nat
    BY LenProperties DEF CkpterTypeOK
  <2>2. DiskTypeOK'
    BY <1>10 DEF CSwap, DiskTypeOK, CkpterTypeOK, Replace, Rebase, Copied
  <2>3. FieldsTypeOK'
    BY <1>10, <2>1 DEF CSwap, FieldsTypeOK, CkpterTypeOK, Rebase, Copied
  <2>4. ReaderTypeOK'
    BY <1>10 DEF CSwap, ReaderTypeOK, DiskTypeOK, Replace, Rebase, Copied
  <2>5. CkpterTypeOK'
    BY <1>10, EmptySeq DEF CSwap, CkpterTypeOK, CkpterPcs, Rebase, Copied
  <2>6. HistoryTypeOK'
    BY <1>10 DEF CSwap, HistoryTypeOK, Replace, Rebase, Copied
  <2>7. QED
    BY <1>10, <2>2, <2>3, <2>4, <2>5, <2>6, KeepTypes
       DEF CSwap, Rebase, Copied
<1>11. CASE CSwapFails
  <2>1. DiskTypeOK'
    BY <1>11 DEF CSwapFails, DiskTypeOK, CkpterTypeOK, Replace
  <2>2. FieldsTypeOK'
    BY <1>11 DEF CSwapFails, FieldsTypeOK
  <2>3. ReaderTypeOK'
    BY <1>11 DEF CSwapFails, ReaderTypeOK, DiskTypeOK, Replace
  <2>4. CkpterTypeOK'
    BY <1>11, EmptySeq DEF CSwapFails, CkpterTypeOK, CIdle, CkpterPcs
  <2>5. HistoryTypeOK'
    <3>1. compacted' \in BOOLEAN
      BY <1>11 DEF CSwapFails, HistoryTypeOK, Replace
    <3>2. faults' \in 0..MaxFaults
      BY <1>11, BoundsAssumption DEF CSwapFails, HistoryTypeOK, Fault
    <3>3. QED
      BY <1>11, <3>1, <3>2 DEF CSwapFails, HistoryTypeOK
  <2>6. QED
    BY <1>11, <2>1, <2>2, <2>3, <2>4, <2>5, KeepTypes DEF CSwapFails
<1>12. CASE CReset
  <2>1. DiskTypeOK'
    BY <1>12 DEF CReset, DiskTypeOK
  <2>2. CkpterTypeOK'
    BY <1>12 DEF CReset, CkpterTypeOK, CIdle, CkpterPcs
  <2>3. QED
    BY <1>12, <2>1, <2>2, KeepTypes DEF CReset
<1>13. CASE CResetFails
  <2>1. CkpterTypeOK'
    BY <1>13 DEF CResetFails, CkpterTypeOK, CIdle, CkpterPcs
  <2>2. HistoryTypeOK'
    BY <1>13, BoundsAssumption DEF CResetFails, HistoryTypeOK, Fault
  <2>3. QED
    BY <1>13, <2>1, <2>2, KeepTypes DEF CResetFails
<1>14. QED
  BY <1>1, <1>2, <1>3, <1>4, <1>5, <1>6, <1>7, <1>8, <1>9, <1>10, <1>11, <1>12,
     <1>13 DEF Checkpointer

\* Close and the life of the process preserve types.
LEMMA TypeProcess == ASSUME TypeOK, Closer \/ Process PROVE TypeOK'
<1> USE DEF TypeOK
<1>1. CASE CloseBegin
  <2>1. CloserTypeOK'
    BY <1>1 DEF CloseBegin, CloserTypeOK, FieldsTypeOK, CloserPcs
  <2>2. QED
    BY <1>1, <2>1, KeepTypes DEF CloseBegin
<1>2. CASE CloseSaveOpen
  <2>1. DiskTypeOK' /\ CloserTypeOK'
    BY <1>2 DEF CloseSaveOpen, DiskTypeOK, CloserTypeOK, CloserPcs
  <2>2. QED
    BY <1>2, <2>1, KeepTypes DEF CloseSaveOpen
<1>3. CASE CloseSaveWrite
  <2>1. DiskTypeOK' /\ CloserTypeOK'
    BY <1>3 DEF CloseSaveWrite, DiskTypeOK, CloserTypeOK, CloserPcs
  <2>2. QED
    BY <1>3, <2>1, KeepTypes DEF CloseSaveWrite
<1>4. CASE CloseWal
  <2>1. FieldsTypeOK' /\ CloserTypeOK'
    BY <1>4 DEF CloseWal, FieldsTypeOK, CloserTypeOK, CloserPcs
  <2>2. QED
    BY <1>4, <2>1, KeepTypes DEF CloseWal
<1>5. CASE Stop
  BY <1>5, KeepTypes DEF Stop
<1>6. CASE Exit \/ Crash
  <2>0. LoseMemory
    BY <1>6 DEF Exit, Crash
  <2>1. FieldsTypeOK'
    BY <2>0, EmptySeq DEF LoseMemory, FieldsTypeOK
  <2>2. CloserTypeOK'
    BY <2>0 DEF LoseMemory, CloserTypeOK, CloserPcs
  <2>3. ReaderTypeOK'
    BY <2>0, EmptySeq DEF LoseMemory, ReaderTypeOK, ReaderPcs
  <2>4. CkpterTypeOK'
    BY <2>0, EmptySeq DEF LoseMemory, CkpterTypeOK, CkpterPcs
  <2>5. HistoryTypeOK' /\ DiskTypeOK'
    BY <2>0, EmptySeq, KeepTypes DEF LoseMemory, HistoryTypeOK
  <2>6. QED
    BY <2>0, <2>1, <2>2, <2>3, <2>4, <2>5 DEF LoseMemory
<1>7. CASE Restart
  <2>1. Len(wal) \in Nat
    BY LenProperties DEF DiskTypeOK
  <2>2. FieldsTypeOK' /\ ReaderTypeOK'
    BY <1>7, <2>1 DEF Restart, FieldsTypeOK, ReaderTypeOK, DiskTypeOK
  <2>3. HistoryTypeOK' /\ DiskTypeOK'
    BY <1>7, BoundsAssumption, KeepTypes DEF Restart, HistoryTypeOK
  <2>4. QED
    BY <1>7, <2>2, <2>3, KeepTypes DEF Restart
<1>8. QED
  BY <1>1, <1>2, <1>3, <1>4, <1>5, <1>6, <1>7 DEF Closer, Process

\* Every step preserves types.
LEMMA TypeNext == TypeOK /\ [Next]_vars => TypeOK'
<1> SUFFICES ASSUME TypeOK, [Next]_vars PROVE TypeOK'
  OBVIOUS
<1>1. CASE Next
  BY <1>1, TypeWrite, TypeReader, TypeCheckpointer, TypeProcess DEF Next
<1>2. CASE UNCHANGED vars
  BY <1>2 DEF vars, disk, fields, reader, ckpter, closer, history, TypeOK,
              DiskTypeOK, FieldsTypeOK, ReaderTypeOK, CkpterTypeOK,
              CloserTypeOK, HistoryTypeOK
<1>3. QED
  BY <1>1, <1>2

\* The variables of the queue always have their types.
THEOREM TypeCorrect == Spec => []TypeOK
<1>1. Init => TypeOK
  BY TypeInit
<1>2. TypeOK /\ [Next]_vars => TypeOK'
  BY TypeNext
<1>3. QED
  BY <1>1, <1>2, PTL DEF Spec

-----------------------------------------------------------------------------
(* The write position                                                      *)

\* A failing call has used up one of the faults.
LEMMA FaultLemma == ASSUME TypeOK, Fault PROVE faults' > 0 /\ faults' # 0
BY BoundsAssumption DEF TypeOK, HistoryTypeOK, Fault

\* The positions, the WAL and the handle change in these actions only.
LEMMA WalFrame ==
    ASSUME TypeOK, [Next]_vars
    PROVE  \/ WriteOk \/ WriteTorn \/ CTruncate \/ CSwap \/ CSwapFails
           \/ CloseWal \/ LoseMemory \/ Restart
           \/ /\ UNCHANGED <<wal, walOpen, writePos>>
              /\ up' # "down" => up # "down"
              /\ faults' = 0 => faults = 0
<1>1. CASE WriteRejected \/ Take
  BY <1>1 DEF WriteRejected, Take, disk, fields
<1>2. CASE Reader
  BY <1>2
     DEF Reader, ROpen, RFill, RLine, REofToken, RCaughtUp, RSend, RMark,
         RWait, RStop, disk, fields, history, ResumeAt
<1>3. CASE CTick \/ CSaveOpen \/ CSaveWrite \/ CAck \/ CCompact \/ CCopy
           \/ CReset
  BY <1>3 DEF CTick, CSaveOpen, CSaveWrite, CAck, CCompact, CCopy, CReset,
              disk, fields, history
<1>4. CASE CSaveFails \/ CCopyFails \/ CResetFails
  BY <1>4, FaultLemma DEF CSaveFails, CCopyFails, CResetFails, disk, fields
<1>5. CASE CloseBegin \/ CloseSaveOpen \/ CloseSaveWrite
  BY <1>5 DEF CloseBegin, CloseSaveOpen, CloseSaveWrite, disk, fields, history
<1>6. CASE Stop \/ UNCHANGED vars
  BY <1>6 DEF Stop, vars, disk, fields, history
<1>7. CASE Exit \/ Crash
  BY <1>7 DEF Exit, Crash
<1>8. QED
  BY <1>1, <1>2, <1>3, <1>4, <1>5, <1>6, <1>7
     DEF Next, Write, Checkpointer, Closer, Process

\* While the process runs and its WAL handle is usable, writePos is within the
\* file, and at its end unless a system call has failed.
THEOREM WritePosCorrect == Spec => []WritePosIsFileEnd
<1>1. Init => WritePosIsFileEnd
  BY EmptySeq DEF Init, WritePosIsFileEnd
<1>2. TypeOK /\ WritePosIsFileEnd /\ [Next]_vars => WritePosIsFileEnd'
  <2> SUFFICES ASSUME TypeOK, WritePosIsFileEnd, [Next]_vars
               PROVE  WritePosIsFileEnd'
    OBVIOUS
  <2>t. Len(wal) \in Nat /\ writePos \in Nat /\ Len(cTmp) \in Nat
    BY LenProperties DEF TypeOK, DiskTypeOK, FieldsTypeOK, CkpterTypeOK
  <2>1. CASE WriteOk
    <3>1. nextId \in Ids /\ RecLen[nextId] \in Nat
      BY <2>1, RecordAssumption, BoundsAssumption
         DEF WriteOk, Offer, Ids, TypeOK, HistoryTypeOK
    <3>2. Len(wal') = Len(wal) + RecLen[nextId]
      <4>1. wal \in Seq(Cell) /\ Cells(nextId) \in Seq(Cell)
            /\ Len(Cells(nextId)) = RecLen[nextId]
        BY <3>1, CellsLemma DEF TypeOK, DiskTypeOK
      <4>2. Len(wal \o Cells(nextId)) = Len(wal) + Len(Cells(nextId))
        BY <4>1, ConcatCells
      <4>3. wal' = wal \o Cells(nextId)
        BY <2>1 DEF WriteOk
      <4>4. QED
        BY <4>1, <4>2, <4>3
    <3>3. QED
      BY <2>1, <2>t, <3>1, <3>2 DEF WriteOk, Offer, WritePosIsFileEnd
  <2>2. CASE WriteTorn
    <3>1. nextId \in Ids
      BY <2>2, BoundsAssumption DEF WriteTorn, Offer, Ids, TypeOK,
                                    HistoryTypeOK
    <3>2. PICK n \in 1..(RecLen[nextId] - 1) :
            wal' = wal \o Prefix(Cells(nextId), n) /\ writePos' = writePos + n
      BY <2>2 DEF WriteTorn
    <3>3. Len(wal') = Len(wal) + n /\ n \in Nat
      <4>1. Prefix(Cells(nextId), n) \in Seq(Cell)
            /\ Len(Prefix(Cells(nextId), n)) = n
        BY <3>1, TornLemma
      <4>2. wal \in Seq(Cell)
        BY DEF TypeOK, DiskTypeOK
      <4>3. Len(wal \o Prefix(Cells(nextId), n))
            = Len(wal) + Len(Prefix(Cells(nextId), n))
        BY <4>1, <4>2, ConcatCells
      <4>4. QED
        BY <3>2, <4>1, <4>3
    <3>4. faults' # 0
      BY <2>2, FaultLemma DEF WriteTorn
    <3>5. QED
      BY <2>2, <2>t, <3>2, <3>3, <3>4 DEF WriteTorn, Offer, WritePosIsFileEnd
  <2>3. CASE CTruncate
    <3>1. Len(wal') \in Nat /\ (wal' = <<>> => Len(wal') = 0)
      BY <2>3, <2>t, EmptySeq DEF CTruncate
    <3>2. wal' = <<>> \/ faults' # 0
      BY <2>3, FaultLemma DEF CTruncate
    <3>3. writePos' = 0 /\ up' = up
      BY <2>3 DEF CTruncate
    <3>4. writePos' <= Len(wal') /\ (faults' = 0 => writePos' = Len(wal'))
      BY <3>1, <3>2, <3>3
    <3>5. QED
      BY <3>4 DEF WritePosIsFileEnd
  <2>4. CASE CSwap
    BY <2>4, <2>t DEF CSwap, Replace, WritePosIsFileEnd, Rebase, Copied
  <2>5. CASE CSwapFails
    BY <2>5, FaultLemma DEF CSwapFails, WritePosIsFileEnd
  <2>6. CASE CloseWal
    BY <2>6 DEF CloseWal, disk, history, WritePosIsFileEnd
  <2>7. CASE LoseMemory
    BY <2>7 DEF LoseMemory, WritePosIsFileEnd
  <2>8. CASE Restart
    BY <2>8, <2>t DEF Restart, disk, WritePosIsFileEnd
  <2>9. CASE /\ UNCHANGED <<wal, walOpen, writePos>>
             /\ up' # "down" => up # "down"
             /\ faults' = 0 => faults = 0
    BY <2>9 DEF WritePosIsFileEnd
  <2>10. QED
    BY WalFrame, <2>1, <2>2, <2>3, <2>4, <2>5, <2>6, <2>7, <2>8, <2>9
<1>3. QED
  BY <1>1, <1>2, TypeCorrect, PTL DEF Spec

-----------------------------------------------------------------------------
(* The order of the positions                                              *)

\* Every step preserves PositionInv.
LEMMA PositionNext ==
    ASSUME TypeOK, PositionInv, [Next]_vars
    PROVE  PositionInv'
<1> USE DEF PositionInv, AckBehindSentBehindReader
<1>t. /\ sentPos \in Nat /\ ackPos \in Nat /\ rStart \in Nat /\ rPos \in Nat
      /\ cPos \in Nat /\ cAck \in Nat
  BY DEF TypeOK, FieldsTypeOK, ReaderTypeOK, CkpterTypeOK
<1>1. CASE Write
  BY <1>1 DEF Write, WriteOk, WriteRejected, WriteTorn, fields, reader, ckpter
<1>2. CASE ROpen
  BY <1>2 DEF ROpen, Alive, fields, ckpter
<1>3. CASE RFill
  BY <1>3 DEF RFill, Alive, fields, ckpter
<1>4. CASE RLine
  <2>1. PICK n \in 1..Len(rBuf) : GotLine(n - 1)
    BY <1>4 DEF RLine
  <2>2. rPos' >= rPos /\ rPos' \in Nat /\ rPc' # "open"
    BY <1>4, <1>t, <2>1, LenProperties
       DEF RLine, GotLine, TypeOK, ReaderTypeOK
  <2>3. QED
    BY <1>4, <1>t, <2>2 DEF RLine, Alive, fields, ckpter
<1>5. CASE REofToken
  <2>0. Len(rBuf) \in Nat /\ rPos' = rPos + Len(rBuf) + 1
    BY <1>5, LenProperties DEF REofToken, GotLine, TypeOK, ReaderTypeOK
  <2>1. rPos' >= rPos /\ rPos' \in Nat /\ rPc' # "open"
    BY <1>5, <1>t, <2>0 DEF REofToken, GotLine
  <2>2. QED
    BY <1>5, <1>t, <2>1 DEF REofToken, Alive, fields, ckpter
<1>6. CASE RCaughtUp
  BY <1>6 DEF RCaughtUp, Alive, fields, ckpter
<1>7. CASE RSend
  BY <1>7 DEF RSend, Alive, ckpter
<1>8. CASE RMark
  BY <1>8, <1>t DEF RMark, Alive, ckpter
<1>9. CASE RWait \/ RStop
  BY <1>9 DEF RWait, RStop, Alive, fields, ckpter, ResumeAt
<1>10. CASE Take
  BY <1>10 DEF Take, Alive, reader, ckpter
<1>11. CASE CTick
  BY <1>11, <1>t DEF CTick, Alive, fields, reader
<1>12. CASE CSaveOpen \/ CSaveWrite \/ CSaveFails
  BY <1>12 DEF CSaveOpen, CSaveWrite, CSaveFails, Alive, disk, fields, reader
<1>13. CASE CAck
  BY <1>13 DEF CAck, Alive, reader
<1>14. CASE CCompact
  BY <1>14 DEF CCompact, CIdle, Alive, fields, reader
<1>15. CASE CTruncate
  BY <1>15, <1>t DEF CTruncate, Alive, reader
<1>16. CASE CCopy \/ CCopyFails
  BY <1>16 DEF CCopy, CCopyFails, CIdle, Alive, fields, reader
<1>17. CASE CSwap
  BY <1>17, <1>t DEF CSwap, Alive, Rebase, Copied
<1>18. CASE CSwapFails
  BY <1>18 DEF CSwapFails, CIdle, Alive
<1>19. CASE CReset \/ CResetFails
  BY <1>19 DEF CReset, CResetFails, CIdle, Alive, fields, reader
<1>20. CASE Closer
  BY <1>20 DEF Closer, CloseBegin, CloseSaveOpen, CloseSaveWrite, CloseWal,
               fields, reader, ckpter
<1>21. CASE Stop
  BY <1>21 DEF Stop, fields, reader, ckpter
<1>22. CASE Exit \/ Crash
  BY <1>22 DEF Exit, Crash, LoseMemory
<1>23. CASE Restart
  <2>1. ckpt \in Nat
    BY DEF TypeOK, DiskTypeOK
  <2>2. QED
    BY <1>23, <2>1 DEF Restart, ckpter
<1>24. CASE UNCHANGED vars
  BY <1>24 DEF vars, fields, reader, ckpter
<1>25. QED
  BY <1>1, <1>2, <1>3, <1>4, <1>5, <1>6, <1>7, <1>8, <1>9, <1>10, <1>11,
     <1>12, <1>13, <1>14, <1>15, <1>16, <1>17, <1>18, <1>19, <1>20, <1>21,
     <1>22, <1>23, <1>24
     DEF Next, Reader, Checkpointer, Process

\* The acknowledged position is never ahead of the fed one, nor that of the
\* reader, whatever compaction does to the first two.
THEOREM PositionsOrdered == Spec => []AckBehindSentBehindReader
<1>1. Init => PositionInv
  BY DEF Init, PositionInv, AckBehindSentBehindReader
<1>2. TypeOK /\ PositionInv /\ [Next]_vars => PositionInv'
  BY PositionNext
<1>3. PositionInv => AckBehindSentBehindReader
  BY DEF PositionInv, AckBehindSentBehindReader
<1>4. QED
  BY <1>1, <1>2, <1>3, TypeCorrect, PTL DEF Spec

-----------------------------------------------------------------------------
(* The size of the WAL                                                     *)

\* A file no longer than one within the limit is within the limit.
LEMMA WithinLimitShrinks ==
    ASSUME NEW m \in Nat, NEW n \in Nat, WithinLimit(n), m <= n
    PROVE  WithinLimit(m)
<1>1. CASE n = 0
  BY <1>1 DEF WithinLimit
<1>2. CASE n # 0
  <2>1. PICK id \in Ids : n < MaxBytes + RecLen[id]
    BY <1>2 DEF WithinLimit
  <2>2. MaxBytes + RecLen[id] \in Int
    BY QueueAssumption, RecordAssumption
  <2>3. m < MaxBytes + RecLen[id]
    BY <2>1, <2>2
  <2>4. QED
    BY <2>3 DEF WithinLimit
<1>3. QED
  BY <1>1, <1>2

\* Every step preserves LimitInv: Write's limit test reads writePos, which is
\* the end of the file, and compaction's copy is no longer than the file.
LEMMA LimitNext ==
    ASSUME TypeOK, WritePosIsFileEnd, LimitInv, [Next]_vars, faults' = 0
    PROVE  LimitInv'
<1> USE DEF LimitInv
<1>t. Len(wal) \in Nat /\ Len(cTmp) \in Nat
  BY LenProperties DEF TypeOK, DiskTypeOK, CkpterTypeOK
<1>f. ~Fault
  BY FaultLemma
<1>g. faults = 0 \/ Restart
  BY <1>f, BoundsAssumption, WalFrame
     DEF WriteOk, WriteTorn, CTruncate, CSwap, CSwapFails, CloseWal,
         LoseMemory, history, Rebase, Copied
<1>h. faults = 0
  BY <1>g DEF Restart
<1>1. CASE WriteOk
  <2>1. nextId \in Ids /\ RecLen[nextId] \in Nat
    BY <1>1, RecordAssumption, BoundsAssumption
       DEF WriteOk, Offer, Ids, TypeOK, HistoryTypeOK
  <2>2. Len(wal') = Len(wal) + RecLen[nextId]
    <3>1. wal' = wal \o Cells(nextId)
      BY <1>1 DEF WriteOk
    <3>2. wal \in Seq(Cell) /\ Cells(nextId) \in Seq(Cell)
      BY <2>1, CellsLemma DEF TypeOK, DiskTypeOK
    <3>3. Len(Cells(nextId)) = RecLen[nextId]
      BY <2>1, CellsLemma
    <3>4. Len(wal \o Cells(nextId)) = Len(wal) + Len(Cells(nextId))
      BY <3>2, ConcatCells
    <3>5. QED
      BY <3>1, <3>3, <3>4
  <2>3a. writePos = Len(wal) /\ ~Full
    BY <1>1, <1>h DEF WriteOk, Offer, WritePosIsFileEnd
  <2>3. Len(wal) < MaxBytes
    BY <1>t, <2>3a, QueueAssumption DEF Full
  <2>4. Len(wal') < MaxBytes + RecLen[nextId]
    BY <1>t, <2>1, <2>2, <2>3, QueueAssumption
  <2>5. WithinLimit(Len(wal'))
    BY <2>1, <2>4 DEF WithinLimit
  <2>6. QED
    BY <1>1, <1>h, <2>5 DEF WriteOk, ckpter, WithinLimit
<1>2. CASE WriteTorn
  BY <1>2, <1>f DEF WriteTorn
<1>3. CASE CTruncate
  <2>1. wal' = <<>> /\ cPc' # "swap"
    BY <1>3, <1>f DEF CTruncate
  <2>2. QED
    BY <2>1, EmptySeq DEF WithinLimit
<1>4. CASE CSwap
  <2>1. wal' = cTmp /\ cPc' # "swap" /\ cPc = "swap"
    BY <1>4 DEF CSwap, Replace, Rebase, Copied
  <2>2. QED
    BY <1>h, <2>1 DEF WithinLimit
<1>5. CASE CSwapFails
  BY <1>5, <1>f DEF CSwapFails
<1>6. CASE CCopy
  <2>1. Len(cTmp') \in Nat /\ Len(cTmp') <= Len(wal) /\ wal' = wal
    BY <1>6, <1>t, AfterLemma DEF CCopy, disk, TypeOK, DiskTypeOK, CkpterTypeOK
  <2>2. WithinLimit(Len(wal))
    BY <1>h
  <2>3. WithinLimit(Len(cTmp'))
    BY <1>t, <2>1, <2>2, WithinLimitShrinks
  <2>4. QED
    BY <2>1, <2>2, <2>3 DEF WithinLimit
<1>7. CASE /\ UNCHANGED wal
           /\ cPc' = "swap" => cPc = "swap" /\ UNCHANGED cTmp
  BY <1>7, <1>h DEF WithinLimit
<1>8. \/ WriteOk \/ WriteTorn \/ CTruncate \/ CSwap \/ CSwapFails \/ CCopy
      \/ /\ UNCHANGED wal
         /\ cPc' = "swap" => cPc = "swap" /\ UNCHANGED cTmp
  <2>1. CASE WriteRejected \/ Take \/ Reader
    BY <2>1
       DEF WriteRejected, Take, Reader, ROpen, RFill, RLine, REofToken,
           RCaughtUp, RSend, RMark, RWait, RStop, disk, ckpter, ResumeAt
  <2>2. CASE \/ CTick \/ CSaveOpen \/ CSaveWrite \/ CSaveFails \/ CAck
             \/ CCompact \/ CCopyFails \/ CReset \/ CResetFails
    BY <2>2 DEF CTick, CSaveOpen, CSaveWrite, CSaveFails, CAck, CCompact,
                CCopyFails, CReset, CResetFails, CIdle, disk
  <2>3. CASE Closer
    BY <2>3 DEF Closer, CloseBegin, CloseSaveOpen, CloseSaveWrite, CloseWal,
                disk, ckpter
  <2>4. CASE Process
    BY <2>4 DEF Process, Stop, Exit, Crash, LoseMemory, Restart, disk, ckpter
  <2>5. CASE UNCHANGED vars
    BY <2>5 DEF vars, disk, ckpter
  <2>6. QED
    BY <2>1, <2>2, <2>3, <2>4, <2>5 DEF Next, Write, Checkpointer
<1>9. QED
  BY <1>1, <1>2, <1>3, <1>4, <1>5, <1>6, <1>7, <1>8

\* The WAL never outgrows its limit by more than the last record admitted.
THEOREM LimitHolds == Spec => []WalWithinLimit
<1>1. Init => LimitInv
  BY EmptySeq DEF Init, LimitInv, WithinLimit
<1>2. TypeOK /\ WritePosIsFileEnd /\ LimitInv /\ [Next]_vars => LimitInv'
  BY LimitNext DEF LimitInv
<1>3. TypeOK /\ LimitInv => WalWithinLimit
  <2> SUFFICES ASSUME TypeOK, LimitInv, faults = 0, wal # <<>>
               PROVE  \E id \in Ids : Len(wal) < MaxBytes + RecLen[id]
    BY DEF WalWithinLimit
  <2>1. Len(wal) # 0
    BY EmptySeq DEF TypeOK, DiskTypeOK
  <2>2. QED
    BY <2>1 DEF LimitInv, WithinLimit
<1>4. QED
  BY <1>1, <1>2, <1>3, TypeCorrect, WritePosCorrect, PTL DEF Spec

-----------------------------------------------------------------------------
(* The order of the feed.  Compaction moves the records under the reader,  *)
(* which keeps its old offset, may be reading the old file after the       *)
(* rename, and holds bytes it read ahead.  What saves the order is that a  *)
(* compaction only ever moves a cell towards the front: the cells at a     *)
(* given offset and beyond only get newer.                                 *)

\* Cell a was written before cell b.
Precedes(a, b) == a.id < b.id \/ (a.id = b.id /\ a.part < b.part)

\* Cell c, at offset j of some file, precedes what file s holds beyond j.
Before(c, j, s) == \A k \in 1..Len(s) : j < k => Precedes(c, s[k])

Ordered(s) == \A j \in 1..Len(s) : Before(s[j], j, s)

\* Every cell of s belongs to a record older than n.
Written(s, n) == \A k \in 1..Len(s) : s[k].id < n

\* The reader holds a file handle.
Scanning == rPc \in {"scan", "send", "mark"}

\* Where the reader will go on from.
Place == IF rPc = "open" THEN rStart ELSE rPos

\* The points fed by this run, with the one being sent.
Passed == {sent[m] : m \in 1..Len(sent)}
          \cup (IF rPc = "send" THEN {rItem} ELSE {})

Beyond(id, S) == \A x \in S : x < id

\* All that s holds beyond offset p is later than the points of S.
Unread(s, p, S) == \A k \in 1..Len(s) : p < k => Beyond(s[k].id, S)

WalInv == Ordered(wal) /\ Written(wal, nextId) /\ Unread(wal, Place, Passed)

OldInv ==
    /\ rPc \in {"open", "wait"} => ~rOnOld
    /\ (rOnOld /\ Scanning) =>
        /\ Ordered(old) /\ Written(old, nextId) /\ Unread(old, rPos, Passed)
        /\ \A j \in 1..Len(old) : Before(old[j], j, wal)

\* From the copy to the rename, the temporary file is the WAL from cAck on,
\* short of what has been written since.
TmpInv ==
    cPc = "swap" => \A k \in 1..Len(cTmp) :
        k + cAck <= Len(wal) /\ cTmp[k] = wal[k + cAck]

\* Buffer b holds bytes read at offset p, and what file s holds beyond each of
\* them is later.
Follows(b, p, s) == \A i \in 1..Len(b) : Before(b[i], p + i, s)

BufInv ==
    Scanning =>
        /\ ~rEof => rOff = rPos + Len(rBuf)
        /\ rEof => rBuf = <<>>
        /\ Ordered(rBuf) /\ Written(rBuf, nextId) /\ Unread(rBuf, 0, Passed)
        /\ Follows(rBuf, rPos, wal)
        /\ rOnOld => Follows(rBuf, rPos, old)

SentInv ==
    /\ FedInOrderOnce
    /\ \A x \in Passed : x < nextId
    /\ rPc = "send" => \A m \in 1..Len(sent) : sent[m] < rItem
    /\ up = "down" => sent = <<>> /\ rPc = "open"

\* FedInOrderOnce, made inductive.
OrderInv == WalInv /\ OldInv /\ TmpInv /\ BufInv /\ SentInv

-----------------------------------------------------------------------------
(* The order of cells                                                      *)

\* Precedes is transitive.
LEMMA PrecedesTransitive ==
    ASSUME NEW a \in Cell, NEW b \in Cell, NEW c \in Cell,
           Precedes(a, b), Precedes(b, c)
    PROVE  Precedes(a, c)
<1>1. /\ a.id \in Int /\ b.id \in Int /\ c.id \in Int
      /\ a.part \in Int /\ b.part \in Int /\ c.part \in Int
  BY BoundsAssumption DEF Cell, Ids
<1>2. QED
  BY <1>1 DEF Precedes

\* What comes after a newline belongs to a later record.
LEMMA AfterNewline ==
    ASSUME NEW a \in Cell, NEW b \in Cell, IsNewline(a), Precedes(a, b)
    PROVE  a.id < b.id
<1>1. a.id \in Ids /\ b.id \in Ids /\ RecLen[a.id] \in Nat
      /\ RecLen[b.id] \in Nat /\ a.part \in Nat /\ b.part \in Nat
      /\ b.part <= RecLen[b.id]
  BY RecordAssumption DEF Cell
<1>2. QED
  BY <1>1 DEF IsNewline, Precedes

\* Two cells after the last but one of a record, there is a later record.
LEMMA TwoAfterText ==
    ASSUME NEW a \in Cell, NEW b \in Cell, NEW c \in Cell,
           a.part = RecLen[a.id] - 1, Precedes(a, b), Precedes(b, c)
    PROVE  a.id < c.id
<1>1. /\ a.id \in Ids /\ b.id \in Ids /\ c.id \in Ids
      /\ RecLen[a.id] \in Nat /\ RecLen[b.id] \in Nat /\ RecLen[c.id] \in Nat
      /\ a.part \in Nat /\ b.part \in Nat /\ c.part \in Nat
      /\ b.part <= RecLen[b.id] /\ c.part <= RecLen[c.id]
  BY RecordAssumption DEF Cell
<1>2. a.id \in Int /\ b.id \in Int /\ c.id \in Int
  BY <1>1, BoundsAssumption DEF Ids
<1>3. CASE a.id < b.id
  BY <1>1, <1>2, <1>3 DEF Precedes
<1>4. CASE a.id = b.id
  <2>1. b.part = RecLen[b.id]
    BY <1>1, <1>2, <1>4 DEF Precedes
  <2>2. QED
    BY <1>1, <1>2, <1>4, <2>1 DEF Precedes
<1>5. QED
  BY <1>2, <1>3, <1>4 DEF Precedes

\* The last cell of a line that parses as record id is the last but one of id.
LEMMA ParsedLine ==
    ASSUME NEW line \in Seq(Cell), NEW id \in Ids, Parses(line, id)
    PROVE  /\ Len(line) \in Nat \ {0}
           /\ line[Len(line)].id = id
           /\ line[Len(line)].part = RecLen[id] - 1
<1>1. RecLen[id] \in Nat \ {0, 1}
  BY RecordAssumption
<1>2. RecLen[id] - 1 \in 1..(RecLen[id] - 1)
  BY <1>1
<1>3. Len(line) = RecLen[id] - 1
      /\ line[RecLen[id] - 1] = [id |-> id, part |-> RecLen[id] - 1]
  BY <1>2, TornLemma DEF Parses
<1>4. QED
  BY <1>1, <1>3

\* Adding the cells of a new record to a file keeps its order.
LEMMA AppendOrder ==
    ASSUME NEW s \in Seq(Cell), NEW t \in Seq(Cell), nextId \in Int,
           Ordered(s), Written(s, nextId),
           \A i \in 1..Len(t) : t[i] = [id |-> nextId, part |-> i]
    PROVE  /\ Ordered(s \o t)
           /\ \A c, j : c.id < nextId /\ Before(c, j, s) => Before(c, j, s \o t)
           /\ \A k \in 1..Len(s \o t) : (s \o t)[k].id <= nextId
<1> DEFINE u == s \o t
<1>1. /\ Len(s) \in Nat /\ Len(t) \in Nat /\ Len(u) = Len(s) + Len(t)
      /\ \A k \in 1..Len(u) : u[k] = IF k <= Len(s) THEN s[k]
                                                    ELSE t[k - Len(s)]
  BY ConcatCells, LenProperties
<1>2. \A k \in 1..Len(u) : k > Len(s) =>
         k - Len(s) \in 1..Len(t) /\ u[k].id = nextId /\ u[k].part = k - Len(s)
  <2> HIDE DEF u
  <2> SUFFICES ASSUME NEW k \in 1..Len(u), k > Len(s)
               PROVE  /\ k - Len(s) \in 1..Len(t)
                      /\ u[k].id = nextId /\ u[k].part = k - Len(s)
    OBVIOUS
  <2>1. k - Len(s) \in 1..Len(t) /\ u[k] = t[k - Len(s)]
    BY <1>1
  <2>2. u[k] = [id |-> nextId, part |-> k - Len(s)]
    BY <2>1
  <2>3. QED
    BY <2>1, <2>2
<1>3. \A k \in 1..Len(u) : k <= Len(s) => k \in 1..Len(s) /\ u[k] = s[k]
  BY <1>1
<1>4. \A k \in 1..Len(s) : s[k] \in Cell /\ s[k].id \in Int
                           /\ s[k].id < nextId
  BY ElementOfSeq, BoundsAssumption DEF Written, Cell, Ids
<1> HIDE DEF u
<1>5. Ordered(u)
  <2> SUFFICES ASSUME NEW j \in 1..Len(u), NEW k \in 1..Len(u), j < k
               PROVE  Precedes(u[j], u[k])
    BY DEF Ordered, Before
  <2>1. CASE k <= Len(s)
    BY <1>1, <1>3, <2>1 DEF Ordered, Before
  <2>2. CASE j > Len(s)
    BY <1>1, <1>2, <2>2 DEF Precedes
  <2>3. CASE j <= Len(s) /\ k > Len(s)
    BY <1>2, <1>3, <1>4, <2>3 DEF Precedes
  <2>4. QED
    BY <1>1, <2>1, <2>2, <2>3
<1>6. ASSUME NEW c, NEW j, c.id < nextId, Before(c, j, s)
      PROVE  Before(c, j, u)
  <2> SUFFICES ASSUME NEW k \in 1..Len(u), j < k
               PROVE  Precedes(c, u[k])
    BY DEF Before
  <2>1. CASE k <= Len(s)
    BY <1>3, <1>6, <2>1 DEF Before
  <2>2. CASE k > Len(s)
    BY <1>2, <1>6, <2>2 DEF Precedes
  <2>3. QED
    BY <1>1, <2>1, <2>2
<1>7. \A k \in 1..Len(u) : u[k].id <= nextId
  <2> SUFFICES ASSUME NEW k \in 1..Len(u)
               PROVE  u[k].id <= nextId
    OBVIOUS
  <2>1. CASE k <= Len(s)
    <3>1. u[k] = s[k] /\ s[k].id \in Int /\ s[k].id < nextId
      BY <1>3, <1>4, <2>1
    <3>2. QED
      BY <3>1
  <2>2. CASE k > Len(s)
    <3>1. u[k].id = nextId
      BY <1>2, <2>2
    <3>2. QED
      BY <3>1
  <2>3. QED
    BY <1>1, <2>1, <2>2
<1>8. QED
  BY <1>5, <1>6, <1>7 DEF u

-----------------------------------------------------------------------------
(* Steps that leave the order alone                                        *)

\* A step that changes neither the WAL, the reader nor what was sent, and does
\* not fill the temporary file.
LEMMA OrderFrame ==
    ASSUME OrderInv, UNCHANGED <<wal, reader, sent, nextId>>,
           cPc' = "swap" => cPc = "swap" /\ UNCHANGED <<cTmp, cAck>>,
           up' = "down" => up = "down"
    PROVE  OrderInv'
<1> USE DEF OrderInv
<1>1. /\ wal' = wal /\ nextId' = nextId /\ sent' = sent /\ rPc' = rPc
      /\ rPos' = rPos /\ rOff' = rOff /\ rBuf' = rBuf /\ rEof' = rEof
      /\ rOnOld' = rOnOld /\ old' = old /\ rItem' = rItem
      /\ rStart' = rStart
  BY DEF reader
<1>2. Passed' = Passed /\ Place' = Place /\ Scanning' = Scanning
  BY <1>1 DEF Passed, Place, Scanning
<1>3. WalInv' /\ OldInv'
  BY <1>1, <1>2 DEF WalInv, OldInv
<1>4. TmpInv'
  BY <1>1 DEF TmpInv
<1>5. BufInv'
  BY <1>1, <1>2 DEF BufInv
<1>6. SentInv'
  BY <1>1, <1>2 DEF SentInv, FedInOrderOnce
<1>7. QED
  BY <1>3, <1>4, <1>5, <1>6

\* Everything but writing, reading and the two halves of the tail copy.
LEMMA OrderOther ==
    ASSUME TypeOK, OrderInv,
           \/ Take \/ CTick \/ CSaveOpen \/ CSaveWrite \/ CSaveFails \/ CAck
           \/ CCompact \/ CCopyFails \/ CReset \/ CResetFails \/ Closer
           \/ Stop \/ UNCHANGED vars
    PROVE  OrderInv'
<1>1. UNCHANGED <<wal, reader, sent, nextId>>
  BY DEF Take, CTick, CSaveOpen, CSaveWrite, CSaveFails, CAck, CCompact,
         CCopyFails, CReset, CResetFails, Closer, CloseBegin, CloseSaveOpen,
         CloseSaveWrite, CloseWal, Stop, vars, disk, history, reader
<1>2. cPc' = "swap" => cPc = "swap" /\ UNCHANGED <<cTmp, cAck>>
  BY DEF Take, CTick, CSaveOpen, CSaveWrite, CSaveFails, CAck, CCompact,
         CCopyFails, CReset, CResetFails, Closer, CloseBegin, CloseSaveOpen,
         CloseSaveWrite, CloseWal, Stop, vars, ckpter, CIdle
<1>3. up' = "down" => up = "down"
  BY DEF Take, CTick, CSaveOpen, CSaveWrite, CSaveFails, CAck, CCompact,
         CCopyFails, CReset, CResetFails, Closer, CloseBegin, CloseSaveOpen,
         CloseSaveWrite, CloseWal, Stop, vars
<1>4. QED
  BY <1>1, <1>2, <1>3, OrderFrame

-----------------------------------------------------------------------------
(* Writing                                                                 *)

\* The cells of a new record are later than anything else in the system.
LEMMA OrderAppend ==
    ASSUME TypeOK, OrderInv, nextId \in Ids, NEW t \in Seq(Cell),
           \A i \in 1..Len(t) : t[i] = [id |-> nextId, part |-> i],
           wal' = wal \o t, nextId' = nextId + 1,
           UNCHANGED <<reader, ckpter, sent, up>>
    PROVE  OrderInv'
<1> USE DEF OrderInv
<1>t. /\ wal \in Seq(Cell) /\ old \in Seq(Cell) /\ rBuf \in Seq(Cell)
      /\ nextId \in Int /\ sent \in Seq(Ids) /\ rItem \in Int
  BY BoundsAssumption
     DEF TypeOK, DiskTypeOK, ReaderTypeOK, HistoryTypeOK, Ids
<1>e. /\ sent' = sent /\ rPc' = rPc /\ rPos' = rPos /\ rOff' = rOff
      /\ rBuf' = rBuf /\ rEof' = rEof /\ rOnOld' = rOnOld /\ old' = old
      /\ rItem' = rItem /\ rStart' = rStart /\ cPc' = cPc /\ cTmp' = cTmp
      /\ cAck' = cAck /\ up' = up
  BY DEF reader, ckpter
<1>p. Passed' = Passed /\ Place' = Place /\ Scanning' = Scanning
  BY <1>e DEF Passed, Place, Scanning
<1>a. /\ Ordered(wal')
      /\ \A c, j : c.id < nextId /\ Before(c, j, wal) => Before(c, j, wal')
      /\ \A k \in 1..Len(wal') : wal'[k].id <= nextId
  BY <1>t, AppendOrder DEF WalInv
<1>b. /\ Len(wal') \in Nat /\ Len(wal) \in Nat
      /\ \A k \in 1..Len(wal') : wal'[k].id \in Int
      /\ \A k \in 1..Len(wal') : \/ k \in 1..Len(wal) /\ wal'[k] = wal[k]
                                 \/ wal'[k].id = nextId
  <2>1. /\ wal' \in Seq(Cell)
        /\ Len(wal) \in Nat /\ Len(t) \in Nat
        /\ Len(wal') = Len(wal) + Len(t)
        /\ \A k \in 1..(Len(wal) + Len(t)) :
             wal'[k] = IF k <= Len(wal) THEN wal[k] ELSE t[k - Len(wal)]
    BY <1>t, ConcatCells, LenProperties
  <2>2. \A k \in 1..Len(wal') : wal'[k].id \in Int
    BY <2>1, ElementOfSeq, BoundsAssumption DEF Cell, Ids
  <2>3. ASSUME NEW k \in 1..Len(wal'), k > Len(wal)
        PROVE  wal'[k].id = nextId
    <3>1. k - Len(wal) \in 1..Len(t) /\ wal'[k] = t[k - Len(wal)]
      BY <2>1, <2>3
    <3>2. wal'[k] = [id |-> nextId, part |-> k - Len(wal)]
      BY <3>1
    <3>3. QED
      BY <3>2
  <2>4. ASSUME NEW k \in 1..Len(wal'), k <= Len(wal)
        PROVE  k \in 1..Len(wal) /\ wal'[k] = wal[k]
    BY <2>1, <2>4
  <2>5. Len(wal') \in Nat
    BY <2>1
  <2>6. ASSUME NEW k \in 1..Len(wal')
        PROVE  \/ k \in 1..Len(wal) /\ wal'[k] = wal[k]
               \/ wal'[k].id = nextId
    <3>1. Len(wal) \in Nat /\ k \in Nat
      BY <2>1
    <3>2. k > Len(wal) \/ k <= Len(wal)
      BY <3>1
    <3>3. QED
      BY <2>3, <2>4, <3>2
  <2>7. Len(wal) \in Nat
    BY <2>1
  <2>8. QED
    BY <2>2, <2>5, <2>6, <2>7
<1>c. /\ \A k \in 1..Len(old) : old[k].id \in Int
      /\ \A k \in 1..Len(rBuf) : rBuf[k].id \in Int
      /\ \A x \in Passed : x \in Int
  <2>1. \A m \in 1..Len(sent) : sent[m] \in Int
    BY <1>t, ElementOfSeq, BoundsAssumption DEF Ids
  <2>2. QED
    BY <1>t, <2>1, ElementOfSeq, BoundsAssumption DEF Cell, Ids, Passed
<1>1. WalInv'
  <2>1. Written(wal', nextId')
    BY <1>a, <1>b, <1>t DEF Written
  <2>2. Unread(wal', Place, Passed)
    <3> SUFFICES ASSUME NEW k \in 1..Len(wal'), Place < k
                 PROVE  Beyond(wal'[k].id, Passed)
      BY DEF Unread
    <3>1. Beyond(nextId, Passed)
      BY DEF Beyond, SentInv
    <3>2. QED
      BY <1>b, <3>1 DEF WalInv, Unread
  <2>3. QED
    BY <1>a, <1>p, <2>1, <2>2 DEF WalInv
<1>2. OldInv'
  <2> SUFFICES ASSUME rOnOld, Scanning
               PROVE  /\ Ordered(old) /\ Written(old, nextId')
                      /\ Unread(old, rPos, Passed)
                      /\ \A j \in 1..Len(old) : Before(old[j], j, wal')
    BY <1>e, <1>p DEF OldInv
  <2>1. Written(old, nextId)
    BY DEF OldInv
  <2>2. Written(old, nextId')
    BY <2>1, <1>c, <1>t DEF Written
  <2>3. \A j \in 1..Len(old) : Before(old[j], j, wal')
    BY <2>1, <1>a DEF OldInv, Written
  <2>4. QED
    BY <2>2, <2>3 DEF OldInv
<1>3. TmpInv'
  <2> SUFFICES ASSUME cPc = "swap", NEW k \in 1..Len(cTmp)
               PROVE  k + cAck <= Len(wal') /\ cTmp[k] = wal'[k + cAck]
    BY <1>e DEF TmpInv
  <2>1. k + cAck <= Len(wal) /\ cTmp[k] = wal[k + cAck]
        /\ k + cAck \in 1..Len(wal)
    BY <1>b, LenProperties DEF TmpInv, TypeOK, CkpterTypeOK
  <2>2. Len(wal') = Len(wal) + Len(t) /\ Len(t) \in Nat
        /\ wal'[k + cAck] = wal[k + cAck]
    BY <1>t, <1>b, <2>1, ConcatCells, LenProperties
  <2>3. QED
    BY <1>b, <2>1, <2>2
<1>4. BufInv'
  <2> SUFFICES ASSUME Scanning
               PROVE  Written(rBuf, nextId') /\ Follows(rBuf, rPos, wal')
    BY <1>e, <1>p DEF BufInv
  <2>1. Written(rBuf, nextId)
    BY DEF BufInv
  <2>2. Written(rBuf, nextId')
    BY <2>1, <1>c, <1>t DEF Written
  <2>3. Follows(rBuf, rPos, wal')
    BY <2>1, <1>a DEF BufInv, Written, Follows
  <2>4. QED
    BY <2>2, <2>3
<1>5. SentInv'
  <2>1. \A x \in Passed : x < nextId'
    BY <1>t, <1>c DEF SentInv
  <2>2. QED
    BY <1>e, <1>p, <2>1 DEF SentInv, FedInOrderOnce
<1>6. QED
  BY <1>1, <1>2, <1>3, <1>4, <1>5

\* Write, whatever comes of it.
LEMMA OrderWrite == ASSUME TypeOK, OrderInv, Write PROVE OrderInv'
<1>1. CASE WriteOk
  <2>1. nextId \in Ids
    BY <1>1, BoundsAssumption DEF WriteOk, Offer, Ids, TypeOK, HistoryTypeOK
  <2>2. QED
    BY <1>1, <2>1, CellsLemma, OrderAppend DEF WriteOk
<1>2. CASE WriteTorn
  <2>1. nextId \in Ids
    BY <1>2, BoundsAssumption DEF WriteTorn, Offer, Ids, TypeOK, HistoryTypeOK
  <2>2. PICK n \in 1..(RecLen[nextId] - 1) :
          wal' = wal \o Prefix(Cells(nextId), n)
    BY <1>2 DEF WriteTorn
  <2>3. QED
    BY <1>2, <2>1, <2>2, TornLemma, OrderAppend DEF WriteTorn
<1>3. CASE WriteRejected
  <2>1. nextId \in Ids
    BY <1>3, BoundsAssumption
       DEF WriteRejected, Offer, Ids, TypeOK, HistoryTypeOK
  <2>2. wal' = wal \o <<>> /\ nextId' = nextId + 1
        /\ UNCHANGED <<reader, ckpter, sent, up>>
    BY <1>3, ConcatEmptySeq DEF WriteRejected, disk, TypeOK, DiskTypeOK
  <2>3. <<>> \in Seq(Cell) /\ \A i \in 1..Len(<<>>) : FALSE
    BY EmptySeq
  <2>4. QED
    BY <2>1, <2>2, <2>3, OrderAppend
<1>4. QED
  BY <1>1, <1>2, <1>3 DEF Write

-----------------------------------------------------------------------------
(* Reading                                                                 *)

\* What the reader's steps leave alone, and the types their proofs need.
LEMMA ReaderFrame ==
    ASSUME TypeOK, OrderInv,
           ROpen \/ RFill \/ RLine \/ REofToken \/ RCaughtUp \/ RMark \/ RWait
           \/ RStop
    PROVE  /\ wal' = wal /\ sent' = sent /\ nextId' = nextId /\ cPc' = cPc
           /\ cTmp' = cTmp /\ cAck' = cAck /\ up' = up /\ up # "down"
           /\ TmpInv'
           /\ rPos \in Nat /\ rOff \in Nat /\ Len(rBuf) \in Nat
           /\ rBuf \in Seq(Cell) /\ wal \in Seq(Cell) /\ old \in Seq(Cell)
<1>1. /\ wal' = wal /\ sent' = sent /\ nextId' = nextId /\ cPc' = cPc
      /\ cTmp' = cTmp /\ cAck' = cAck /\ up' = up
  BY
     DEF ROpen, RFill, RLine, REofToken, RCaughtUp, RMark, RWait, RStop, disk,
         ckpter, history, ResumeAt
<1>2. up # "down"
  BY
     DEF ROpen, RFill, RLine, REofToken, RCaughtUp, RMark, RWait, RStop,
         Alive, ResumeAt
<1>3. TmpInv'
  BY <1>1 DEF OrderInv, TmpInv
<1>4. QED
  BY <1>1, <1>2, <1>3, LenProperties DEF TypeOK, ReaderTypeOK, DiskTypeOK

\* Opening the file, giving up on it, waiting.
LEMMA OrderOpen ==
    ASSUME TypeOK, OrderInv, ROpen \/ RCaughtUp \/ RWait \/ RStop \/ RMark
    PROVE  OrderInv'
<1> USE ReaderFrame DEF OrderInv
<1>1. Passed' \subseteq Passed /\ rPc' # "send" /\ Place' = Place
  BY DEF ROpen, RCaughtUp, RWait, RStop, RMark, Passed, Place, ResumeAt
<1>2. \A s, p : Unread(s, p, Passed) => Unread(s, p, Passed')
  BY <1>1 DEF Unread, Beyond
<1>3. WalInv'
  BY <1>1, <1>2 DEF WalInv
<1>4. SentInv'
  BY <1>1 DEF SentInv, FedInOrderOnce
<1>5. OldInv' /\ BufInv'
  <2>1. CASE ROpen
    <3>1. /\ rPc = "open" /\ rPc' = "scan" /\ rPos' = rStart
          /\ rOff' = rStart /\ rBuf' = <<>> /\ ~rEof' /\ ~rOnOld'
      BY <2>1 DEF ROpen, OldInv
    <3>2. Len(rBuf') = 0 /\ rStart \in Nat
      BY <3>1, EmptySeq DEF TypeOK, ReaderTypeOK
    <3>3. /\ Ordered(rBuf') /\ Written(rBuf', nextId')
          /\ Unread(rBuf', 0, Passed') /\ Follows(rBuf', rPos', wal')
      BY <3>2 DEF Ordered, Written, Follows, Unread
    <3>4. QED
      BY <3>1, <3>2, <3>3 DEF OldInv, BufInv
  <2>2. CASE RCaughtUp \/ RWait
    BY <2>2 DEF RCaughtUp, RWait, OldInv, BufInv, Scanning, ResumeAt
  <2>3. CASE RStop
    BY <2>3 DEF RStop, OldInv, BufInv, Scanning
  <2>4. CASE RMark
    <3>1. /\ Scanning /\ Scanning' /\ rPc' = "scan" /\ rPos' = rPos
          /\ rOff' = rOff /\ rBuf' = rBuf /\ rEof' = rEof
          /\ rOnOld' = rOnOld /\ old' = old
      BY <2>4 DEF RMark, Scanning
    <3>2. QED
      BY <3>1, <1>2 DEF OldInv, BufInv
  <2>5. QED
    BY <2>1, <2>2, <2>3, <2>4
<1>6. QED
  BY <1>3, <1>4, <1>5

\* Reading ahead: the new bytes follow those in the buffer, and lie in the file
\* at the offsets the buffer counts them at.
LEMMA OrderFill == ASSUME TypeOK, OrderInv, RFill PROVE OrderInv'
<1> USE ReaderFrame DEF OrderInv
<1> DEFINE f == ReaderFile
           room == ScanBuf - Len(rBuf)
           end  == IF Len(f) - rOff <= room THEN Len(f) ELSE rOff + room
           t == SubSeq(f, rOff + 1, end)
<1>1. /\ rPc = "scan" /\ rPc' = "scan" /\ rPos' = rPos /\ rOff' = end
      /\ rBuf' = rBuf \o t /\ ~rEof /\ ~rEof' /\ rOnOld' = rOnOld
      /\ old' = old /\ rItem' = rItem /\ Scanning /\ Scanning'
  BY DEF RFill, Scanning
<1>p. Passed' = Passed /\ Place' = Place /\ Place = rPos
  BY <1>1 DEF Passed, Place
<1>2. /\ f \in Seq(Cell) /\ Ordered(f) /\ Written(f, nextId)
      /\ Unread(f, rPos, Passed)
      /\ \A j \in 1..Len(f) : Before(f[j], j, wal)
      /\ rOnOld => f = old
  BY <1>1, <1>p DEF WalInv, OldInv, ReaderFile, Ordered
<1>3. rOff \in Nat /\ end \in Nat /\ end <= Len(f) /\ rOff < end
      /\ Len(f) \in Nat
  <2>1. Len(f) \in Nat /\ rOff < Len(f) /\ Len(rBuf) < ScanBuf
    BY <1>2, LenProperties DEF RFill
  <2> HIDE DEF f
  <2>2. QED
    BY <2>1, QueueAssumption
<1> HIDE DEF f, end
<1>4. /\ t \in Seq(Cell) /\ Len(t) = end - rOff
      /\ \A m \in 1..Len(t) : t[m] = f[rOff + m] /\ rOff + m \in 1..Len(f)
  BY <1>2, <1>3, FillLemma
<1> HIDE DEF t
<1>5. /\ rOff = rPos + Len(rBuf) /\ Ordered(rBuf) /\ Written(rBuf, nextId)
      /\ Unread(rBuf, 0, Passed) /\ Follows(rBuf, rPos, wal)
      /\ Follows(rBuf, rPos, f)
  BY <1>1 DEF BufInv, f, ReaderFile
<1>6. /\ Len(rBuf') = Len(rBuf) + Len(t)
      /\ \A i \in 1..Len(rBuf') :
           \/ i \in 1..Len(rBuf) /\ rBuf'[i] = rBuf[i]
           \/ i > Len(rBuf) /\ rPos + i \in 1..Len(f) /\ rBuf'[i] = f[rPos + i]
  <2>1. /\ Len(rBuf') = Len(rBuf) + Len(t)
        /\ \A i \in 1..(Len(rBuf) + Len(t)) :
             rBuf'[i] = IF i <= Len(rBuf) THEN rBuf[i] ELSE t[i - Len(rBuf)]
    <3>1. rBuf \in Seq(Cell)
      BY DEF TypeOK, ReaderTypeOK
    <3>2. rBuf' = rBuf \o t
      BY <1>1
    <3>3. QED
      BY <1>4, <3>1, <3>2, ConcatCells
  <2>2. ASSUME NEW i \in 1..Len(rBuf'), i > Len(rBuf)
        PROVE  rPos + i \in 1..Len(f) /\ rBuf'[i] = f[rPos + i]
    <3>1. i - Len(rBuf) \in 1..Len(t) /\ rBuf'[i] = t[i - Len(rBuf)]
      BY <1>3, <1>4, <2>1, <2>2
    <3>2. rOff + (i - Len(rBuf)) = rPos + i
      BY <1>3, <1>5
    <3>3. QED
      BY <1>4, <3>1, <3>2
  <2>3. Len(rBuf') = Len(rBuf) + Len(t)
    BY <2>1
  <2>4. \A i \in 1..Len(rBuf') :
           \/ i \in 1..Len(rBuf) /\ rBuf'[i] = rBuf[i]
           \/ i > Len(rBuf) /\ rPos + i \in 1..Len(f) /\ rBuf'[i] = f[rPos + i]
    <3> SUFFICES ASSUME NEW i \in 1..Len(rBuf')
                 PROVE  \/ i \in 1..Len(rBuf) /\ rBuf'[i] = rBuf[i]
                        \/ /\ i > Len(rBuf) /\ rPos + i \in 1..Len(f)
                           /\ rBuf'[i] = f[rPos + i]
      OBVIOUS
    <3>1. i \in 1..(Len(rBuf) + Len(t))
      BY <2>3
    <3>2. CASE i <= Len(rBuf)
      <4>1. i \in 1..Len(rBuf)
        BY <3>1, <3>2, <1>3
      <4>2. QED
        BY <2>1, <3>1, <3>2, <4>1
    <3>3. CASE i > Len(rBuf)
      BY <2>2, <3>3
    <3>4. QED
      BY <1>3, <3>1, <3>2, <3>3
  <2>5. QED
    BY <2>3, <2>4
<1>7. ASSUME NEW i \in 1..Len(rBuf')
      PROVE  /\ rBuf'[i].id < nextId /\ Beyond(rBuf'[i].id, Passed)
             /\ Before(rBuf'[i], rPos + i, wal) /\ Before(rBuf'[i], rPos + i, f)
  <2>1. CASE i \in 1..Len(rBuf) /\ rBuf'[i] = rBuf[i]
    BY <1>5, <2>1 DEF Written, Unread, Follows
  <2>2. CASE i > Len(rBuf) /\ rPos + i \in 1..Len(f) /\ rBuf'[i] = f[rPos + i]
    <3>1. rPos < rPos + i
      BY <2>2
    <3>2. QED
      BY <1>2, <2>2, <3>1 DEF Written, Unread, Ordered
  <2>3. QED
    BY <1>6, <2>1, <2>2
<1>8. Ordered(rBuf')
  <2> SUFFICES ASSUME NEW i \in 1..Len(rBuf'), NEW j \in 1..Len(rBuf'), i < j
               PROVE  Precedes(rBuf'[i], rBuf'[j])
    BY DEF Ordered, Before
  <2>1. CASE j > Len(rBuf)
    <3>1. rBuf'[j] = f[rPos + j] /\ rPos + j \in 1..Len(f)
      BY <1>6, <2>1
    <3>2. Before(rBuf'[i], rPos + i, f) /\ rPos + i < rPos + j
      BY <1>7
    <3>3. QED
      BY <3>1, <3>2 DEF Before
  <2>2. CASE j <= Len(rBuf)
    <3>1. i \in 1..Len(rBuf) /\ j \in 1..Len(rBuf)
          /\ rBuf'[i] = rBuf[i] /\ rBuf'[j] = rBuf[j]
      BY <1>6, <2>2
    <3>2. QED
      BY <1>5, <3>1 DEF Ordered, Before
  <2>3. QED
    BY <1>6, <2>1, <2>2
<1>9. WalInv' /\ OldInv' /\ SentInv'
  BY <1>1, <1>p DEF WalInv, OldInv, SentInv, FedInOrderOnce
<1>10. BufInv'
  <2>1. rOff' = rPos' + Len(rBuf')
    <3>1. rPos' = rPos /\ Len(rBuf') = Len(rBuf) + Len(t)
      BY <1>1, <1>6
    <3>2. rOff' = rOff + Len(t)
      BY <1>1, <1>3, <1>4
    <3>3. rBuf \in Seq(Cell) /\ rPos \in Nat
      BY DEF TypeOK, ReaderTypeOK
    <3>4. Len(rBuf) \in Nat /\ Len(t) \in Nat
      BY <1>4, <3>3, LenProperties
    <3> HIDE DEF OrderInv
    <3> QED BY <1>3, <1>5, <3>1, <3>2, <3>3, <3>4
  <2>2. Written(rBuf', nextId) /\ Unread(rBuf', 0, Passed)
        /\ Follows(rBuf', rPos, wal) /\ Follows(rBuf', rPos, f)
    BY <1>7 DEF Written, Unread, Follows
  <2>3. QED
    BY <1>1, <1>2, <1>p, <1>8, <2>1, <2>2 DEF BufInv
<1>11. QED
  BY <1>9, <1>10

\* Taking n bytes off the front of the buffer.
LEMMA DropLemma ==
    ASSUME NEW b \in Seq(Cell), NEW n \in 1..Len(b), NEW p \in Nat
    PROVE  /\ Len(After(b, n)) = Len(b) - n
           /\ Ordered(b) => Ordered(After(b, n))
           /\ \A x : Written(b, x) => Written(After(b, n), x)
           /\ \A S : Unread(b, 0, S) => Unread(After(b, n), 0, S)
           /\ \A s : Follows(b, p, s) => Follows(After(b, n), p + n, s)
<1> DEFINE d == After(b, n)
<1>1. Len(b) \in Nat /\ n \in Nat
  BY LenProperties
<1>2. Len(d) = Len(b) - n /\ Len(d) \in Nat
      /\ \A i \in 1..Len(d) : d[i] = b[i + n]
  BY <1>1, AfterLemma
<1>3. \A i \in 1..Len(d) : i + n \in 1..Len(b) /\ (p + n) + i = p + (i + n)
  BY <1>1, <1>2
<1> HIDE DEF d
<1>4. Ordered(b) => Ordered(d)
  BY <1>1, <1>2, <1>3 DEF Ordered, Before
<1>5. \A x : Written(b, x) => Written(d, x)
  BY <1>2, <1>3 DEF Written
<1>6. ASSUME NEW S, Unread(b, 0, S)
      PROVE  Unread(d, 0, S)
  <2> SUFFICES ASSUME NEW i \in 1..Len(d)
               PROVE  Beyond(d[i].id, S)
    BY DEF Unread
  <2>1. i + n \in 1..Len(b) /\ 0 < i + n /\ d[i] = b[i + n]
    BY <1>1, <1>2, <1>3
  <2>2. QED
    BY <1>6, <2>1 DEF Unread
<1>7. \A s : Follows(b, p, s) => Follows(d, p + n, s)
  BY <1>2, <1>3 DEF Follows
<1>8. QED
  BY <1>2, <1>4, <1>5, <1>6, <1>7 DEF d

\* What a file holds two or more cells after a parsed line is a later record.
LEMMA BeyondLine ==
    ASSUME NEW b \in Seq(Cell), NEW s \in Seq(Cell), NEW p \in Nat,
           NEW id \in Ids, Parses(b, id), Ordered(s), Follows(b, p, s)
    PROVE  \A k \in 1..Len(s) : p + Len(b) + 1 < k => id < s[k].id
<1>1. /\ Len(b) \in Nat \ {0} /\ b[Len(b)].id = id
      /\ b[Len(b)].part = RecLen[id] - 1 /\ b[Len(b)] \in Cell
  BY ParsedLine, ElementOfSeq
<1> SUFFICES ASSUME NEW k \in 1..Len(s), p + Len(b) + 1 < k
             PROVE  id < s[k].id
  OBVIOUS
<1>2. /\ Len(s) \in Nat /\ k - 1 \in 1..Len(s) /\ p + Len(b) < k - 1
      /\ k - 1 < k
  BY <1>1, LenProperties
<1>3. Precedes(b[Len(b)], s[k - 1])
  BY <1>1, <1>2 DEF Follows, Before
<1>4. Precedes(s[k - 1], s[k])
  BY <1>2 DEF Ordered, Before
<1>5. s[k - 1] \in Cell /\ s[k] \in Cell
  BY <1>2, ElementOfSeq
<1>6. QED
  BY <1>1, <1>3, <1>4, <1>5, TwoAfterText

\* A line of the buffer: the point taken from it is later than all before it,
\* and what remains is later than the point.
LEMMA OrderLine == ASSUME TypeOK, OrderInv, RLine PROVE OrderInv'
<1> USE ReaderFrame DEF OrderInv
<1>1. PICK n \in 1..Len(rBuf) : /\ IsNewline(rBuf[n]) /\ GotLine(n - 1)
                               /\ rBuf' = After(rBuf, n)
  BY DEF RLine
<1>2. /\ rPc = "scan" /\ rOff' = rOff /\ rEof' = rEof /\ rOnOld' = rOnOld
      /\ old' = old /\ rPos' = rPos + n /\ n \in Nat /\ Scanning
  <2>1. n \in Nat /\ rPos' = rPos + n
    BY <1>1 DEF GotLine
  <2>2. QED
    BY <2>1 DEF RLine, Scanning
<1>3. Place = rPos /\ rPos' \in Nat
      /\ Passed = {sent[m] : m \in 1..Len(sent)}
  BY <1>2 DEF Place, Passed
<1>4. /\ ~rEof /\ rOff = rPos' + Len(rBuf')
      /\ Ordered(rBuf') /\ Written(rBuf', nextId) /\ Unread(rBuf', 0, Passed)
      /\ Follows(rBuf', rPos', wal)
      /\ rOnOld => Follows(rBuf', rPos', old)
  <2>1. rBuf # <<>>
    BY EmptySeq
  <2>2. ~rEof /\ rOff = rPos + Len(rBuf)
    BY <1>2, <2>1 DEF BufInv
  <2>3. Len(rBuf') = Len(rBuf) - n
    BY <1>1, DropLemma
  <2>4. QED
    BY <1>1, <1>2, <2>2, <2>3, DropLemma DEF BufInv
<1>5. Unread(wal, rPos', Passed) /\ (rOnOld => Unread(old, rPos', Passed))
  <2>1. \A s : Unread(s, rPos, Passed) => Unread(s, rPos', Passed)
    <3> SUFFICES ASSUME NEW s, Unread(s, rPos, Passed), NEW k \in 1..Len(s),
                        rPos' < k
                 PROVE  Beyond(s[k].id, Passed)
      BY DEF Unread
    <3>1. k \in Int
      OBVIOUS
    <3>2. QED
      BY <1>2, <3>1 DEF Unread
  <2>2. QED
    BY <1>2, <1>3, <2>1 DEF WalInv, OldInv
<1>6. CASE UNCHANGED <<rItem, rPc>>
  <2>1. Passed' = Passed /\ Scanning' /\ Place' = rPos' /\ rPc' = "scan"
    BY <1>2, <1>6 DEF Passed, Scanning, Place
  <2>2. QED
    BY <1>2, <1>3, <1>4, <1>5, <2>1
       DEF WalInv, OldInv, BufInv, SentInv, FedInOrderOnce
<1>7. ASSUME NEW id \in Ids, Parses(Prefix(rBuf, n - 1), id), rItem' = id,
             rPc' = "send"
      PROVE  OrderInv'
  <2> DEFINE line == Prefix(rBuf, n - 1)
  <2>1. /\ line \in Seq(Cell) /\ Len(line) = n - 1
        /\ \A i \in 1..(n - 1) : line[i] = rBuf[i]
    <3>1. n - 1 \in 0..Len(rBuf)
      BY <1>2
    <3>2. QED
      BY <3>1, PrefixLemma
  <2>2. /\ n - 1 \in 1..Len(rBuf) /\ n \in 1..Len(rBuf)
        /\ rBuf[n - 1].id = id
        /\ rBuf[n] \in Cell /\ rBuf[n].id \in Int /\ id \in Int
    <3>1. /\ Len(line) \in Nat \ {0} /\ line[Len(line)].id = id
      BY <1>7, <2>1, ParsedLine
    <3>2. n - 1 \in 1..Len(rBuf) /\ n - 1 \in 1..(n - 1)
      BY <1>2, <2>1, <3>1
    <3>3. rBuf[n] \in Cell /\ rBuf[n].id \in Int /\ id \in Int
      <4>1. rBuf \in Seq(Cell)
        BY DEF TypeOK, ReaderTypeOK
      <4>2. rBuf[n] \in Cell
        BY <4>1, ElementOfSeq
      <4> HIDE DEF OrderInv
      <4> QED BY <4>2, BoundsAssumption DEF Cell, Ids
    <3>4. QED
      BY <2>1, <3>1, <3>2, <3>3
  <2>3. id <= rBuf[n].id
    <3>1. Precedes(rBuf[n - 1], rBuf[n])
      <4>1. Ordered(rBuf)
        BY <1>2 DEF BufInv
      <4>2. n - 1 < n
        BY <1>2
      <4> QED BY <2>2, <4>1, <4>2 DEF Ordered, Before
    <3>2. QED
      BY <2>2, <3>1 DEF Precedes
  <2>4. \A c \in Cell : Precedes(rBuf[n], c) => id < c.id
    <3> SUFFICES ASSUME NEW c \in Cell, Precedes(rBuf[n], c)
                 PROVE  id < c.id
      OBVIOUS
    <3>1. rBuf[n].id < c.id
      BY <1>1, <2>2, AfterNewline
    <3>2. c.id \in Int
      BY BoundsAssumption DEF Cell, Ids
    <3>3. QED
      BY <2>2, <2>3, <3>1, <3>2
  <2>5. \A s \in Seq(Cell) : Follows(rBuf, rPos, s) =>
            \A k \in 1..Len(s) : rPos' < k => id < s[k].id
    BY <1>2, <2>2, <2>4, ElementOfSeq DEF Follows, Before
  <2>6. \A i \in 1..Len(rBuf') : id < rBuf'[i].id
    <3> SUFFICES ASSUME NEW i \in 1..Len(rBuf')
                 PROVE  id < rBuf'[i].id
      OBVIOUS
    <3>1. i + n \in 1..Len(rBuf) /\ rBuf'[i] = rBuf[i + n] /\ n < i + n
      <4>1. /\ Len(rBuf') = Len(rBuf) - n
            /\ rBuf'[i] = rBuf[i + n]
        BY <1>1, <1>2, AfterLemma, DropLemma
      <4>2. QED
        BY <1>2, <4>1
    <3>2. Precedes(rBuf[n], rBuf[i + n]) /\ rBuf[i + n] \in Cell
      BY <1>2, <2>2, <3>1, ElementOfSeq DEF BufInv, Ordered, Before
    <3>3. QED
      BY <2>4, <3>1, <3>2
  <2>7. /\ Passed' = Passed \cup {id} /\ Scanning' /\ Place' = rPos'
        /\ \A x : Beyond(x, Passed') <=> Beyond(x, Passed) /\ id < x
    BY <1>2, <1>3, <1>7 DEF Passed, Scanning, Place, Beyond
  <2>8. Beyond(id, Passed) /\ id < nextId
    <3>1. Unread(rBuf, 0, Passed) /\ Written(rBuf, nextId)
      BY <1>2 DEF BufInv
    <3>2. 0 < n - 1
      BY <2>2
    <3> QED BY <2>2, <3>1, <3>2 DEF Unread, Written
  <2>9. Unread(wal, rPos', Passed') /\ (rOnOld => Unread(old, rPos', Passed'))
    BY <1>2, <1>5, <2>5, <2>7 DEF BufInv, Unread
  <2>10. Unread(rBuf', 0, Passed')
    BY <1>4, <2>6, <2>7 DEF Unread
  <2>11. SentInv'
    <3>1. \A x \in Passed' : x < nextId
      BY <2>7, <2>8 DEF SentInv
    <3>2. \A m \in 1..Len(sent) : sent[m] < id
      BY <1>3, <2>8 DEF Beyond
    <3>3. QED
      BY <1>7, <3>1, <3>2 DEF SentInv, FedInOrderOnce
  <2>12. QED
    BY <1>2, <1>4, <1>7, <2>7, <2>9, <2>10, <2>11 DEF WalInv, OldInv, BufInv
<1>8. QED
  BY <1>1, <1>6, <1>7 DEF GotLine

\* The unterminated last line: the position skips one byte more than there is,
\* which costs nothing in order.
LEMMA OrderEof == ASSUME TypeOK, OrderInv, REofToken PROVE OrderInv'
<1> USE ReaderFrame DEF OrderInv
<1>1. /\ rPc = "scan" /\ rBuf # <<>> /\ rBuf' = <<>> /\ rEof' /\ rOff' = rOff
      /\ rOnOld' = rOnOld /\ old' = old /\ rPos' = rPos + Len(rBuf) + 1
      /\ GotLine(Len(rBuf)) /\ Scanning
  BY DEF REofToken, GotLine, Scanning
<1>2. /\ Place = rPos /\ rPos' \in Nat /\ rPos < rPos'
      /\ Passed = {sent[m] : m \in 1..Len(sent)}
  BY <1>1 DEF Place, Passed
<1>3. Len(rBuf) \in 1..Len(rBuf) /\ Prefix(rBuf, Len(rBuf)) = rBuf
  BY <1>1, EmptySeq, SubSeqFull DEF Prefix
<1>4. Len(rBuf') = 0
  BY <1>1, EmptySeq
<1>5. Unread(wal, rPos', Passed) /\ (rOnOld => Unread(old, rPos', Passed))
  <2>1. ASSUME NEW s, Unread(s, rPos, Passed)
        PROVE  Unread(s, rPos', Passed)
    <3> SUFFICES ASSUME NEW k \in 1..Len(s), rPos' < k
                 PROVE  Beyond(s[k].id, Passed)
      BY DEF Unread
    <3>1. rPos < k
      BY <1>2
    <3>2. QED
      BY <2>1, <3>1 DEF Unread
  <2>2. QED
    BY <1>1, <1>2, <2>1 DEF WalInv, OldInv
<1>6. ASSUME Scanning' PROVE BufInv'
  BY <1>1, <1>4 DEF BufInv, Ordered, Written, Unread, Follows
<1>7. CASE UNCHANGED <<rItem, rPc>>
  <2>1. Passed' = Passed /\ Scanning' /\ Place' = rPos' /\ rPc' = "scan"
    BY <1>1, <1>7 DEF Passed, Scanning, Place
  <2>2. QED
    BY <1>1, <1>2, <1>5, <1>6, <2>1
       DEF WalInv, OldInv, SentInv, FedInOrderOnce
<1>8. ASSUME NEW id \in Ids, Parses(rBuf, id), rItem' = id, rPc' = "send"
      PROVE  OrderInv'
  <2>1. rBuf[Len(rBuf)].id = id
    BY <1>8, ParsedLine
  <2>2. \A s \in Seq(Cell) : Ordered(s) /\ Follows(rBuf, rPos, s) =>
            \A k \in 1..Len(s) : rPos' < k => id < s[k].id
    BY <1>1, <1>8, BeyondLine
  <2>3. /\ Passed' = Passed \cup {id} /\ Scanning' /\ Place' = rPos'
        /\ \A x : Beyond(x, Passed') <=> Beyond(x, Passed) /\ id < x
    BY <1>1, <1>2, <1>8 DEF Passed, Scanning, Place, Beyond
  <2>4. Beyond(id, Passed) /\ id < nextId
    BY <1>1, <1>3, <2>1 DEF BufInv, Unread, Written
  <2>5. Unread(wal, rPos', Passed') /\ (rOnOld => Unread(old, rPos', Passed'))
    BY <1>1, <1>5, <2>2, <2>3 DEF WalInv, OldInv, BufInv, Unread
  <2>6. SentInv'
    <3>1. \A x \in Passed' : x < nextId
      BY <2>3, <2>4 DEF SentInv
    <3>2. \A m \in 1..Len(sent) : sent[m] < id
      BY <1>2, <2>4 DEF Beyond
    <3>3. QED
      BY <1>8, <3>1, <3>2 DEF SentInv, FedInOrderOnce
  <2>7. QED
    BY <1>1, <1>6, <1>8, <2>3, <2>5, <2>6 DEF WalInv, OldInv
<1>9. QED
  BY <1>1, <1>3, <1>7, <1>8 DEF GotLine

\* The send itself: the point was later than all fed before it.
LEMMA OrderSend == ASSUME TypeOK, OrderInv, RSend PROVE OrderInv'
<1> USE DEF OrderInv
<1>1. /\ rPc = "send" /\ rPc' = "mark" /\ wal' = wal /\ nextId' = nextId
      /\ rStart' = rStart /\ rPos' = rPos /\ rOff' = rOff /\ rBuf' = rBuf
      /\ rEof' = rEof /\ rOnOld' = rOnOld /\ old' = old /\ rItem' = rItem
      /\ cPc' = cPc /\ cTmp' = cTmp /\ cAck' = cAck /\ up' = up /\ up # "down"
  BY DEF RSend, disk, ckpter, Alive
<1>2. /\ Len(sent) \in Nat /\ Len(sent') = Len(sent) + 1
      /\ \A m \in 1..Len(sent) : sent'[m] = sent[m]
      /\ sent'[Len(sent) + 1] = rItem
  BY <1>1, AppendProperties, LenProperties
     DEF RSend, TypeOK, HistoryTypeOK, ReaderTypeOK
<1>3. Passed' = Passed
  <2>1. Passed' = {sent'[m] : m \in 1..Len(sent')}
    BY <1>1 DEF Passed
  <2>2. Passed = {sent[m] : m \in 1..Len(sent)} \cup {rItem}
    BY <1>1 DEF Passed
  <2>3. \A m \in 1..Len(sent') : m \in 1..Len(sent) \/ m = Len(sent) + 1
    BY <1>2
  <2>4. Len(sent) + 1 \in 1..Len(sent') /\ 1..Len(sent) \subseteq 1..Len(sent')
    BY <1>2
  <2>5. QED
    BY <1>2, <2>1, <2>2, <2>3, <2>4
<1>4. Place' = Place /\ Scanning' = Scanning
  BY <1>1 DEF Place, Scanning
<1>5. WalInv' /\ OldInv' /\ BufInv' /\ TmpInv'
  BY <1>1, <1>3, <1>4 DEF WalInv, OldInv, BufInv, TmpInv
<1>6. FedInOrderOnce'
  <2> SUFFICES ASSUME NEW i \in 1..Len(sent'), NEW j \in 1..Len(sent'), i < j
               PROVE  sent'[i] < sent'[j]
    BY DEF FedInOrderOnce
  <2>1. i \in 1..Len(sent)
    BY <1>2
  <2>2. CASE j \in 1..Len(sent)
    BY <1>2, <2>1, <2>2 DEF SentInv, FedInOrderOnce
  <2>3. CASE j = Len(sent) + 1
    BY <1>1, <1>2, <2>1, <2>3 DEF SentInv
  <2>4. QED
    BY <1>2, <2>2, <2>3
<1>7. QED
  BY <1>1, <1>3, <1>5, <1>6 DEF SentInv

-----------------------------------------------------------------------------
(* Compaction, and the end of a process                                    *)

\* Dropping the front of the WAL moves every cell towards the front.
LEMMA ShiftLemma ==
    ASSUME TypeOK, OrderInv, cPc = "swap"
    PROVE  /\ Ordered(cTmp) /\ Written(cTmp, nextId)
           /\ \A S : \A p \in Nat : Unread(wal, p, S) => Unread(cTmp, p, S)
           /\ \A c : \A j \in Nat : Before(c, j, wal) => Before(c, j, cTmp)
<1>1. cAck \in Nat /\ Len(wal) \in Nat /\ Len(cTmp) \in Nat
  BY LenProperties DEF TypeOK, CkpterTypeOK, DiskTypeOK
<1>2. \A k \in 1..Len(cTmp) : k + cAck \in 1..Len(wal)
                              /\ cTmp[k] = wal[k + cAck] /\ k <= k + cAck
  BY <1>1 DEF OrderInv, TmpInv
<1>3. Ordered(wal) /\ Written(wal, nextId)
  BY DEF OrderInv, WalInv
<1>4. Ordered(cTmp)
  <2> SUFFICES ASSUME NEW i \in 1..Len(cTmp), NEW j \in 1..Len(cTmp), i < j
               PROVE  Precedes(cTmp[i], cTmp[j])
    BY DEF Ordered, Before
  <2>1. i + cAck < j + cAck
    BY <1>1
  <2>2. QED
    BY <1>2, <1>3, <2>1 DEF Ordered, Before
<1>5. Written(cTmp, nextId)
  BY <1>2, <1>3 DEF Written
<1>6. ASSUME NEW p \in Nat, NEW S, Unread(wal, p, S)
      PROVE  Unread(cTmp, p, S)
  BY <1>1, <1>2, <1>6 DEF Unread
<1>7. ASSUME NEW c, NEW j \in Nat, Before(c, j, wal)
      PROVE  Before(c, j, cTmp)
  BY <1>1, <1>2, <1>7 DEF Before
<1>8. QED
  BY <1>4, <1>5, <1>6, <1>7

\* The rename puts the shifted file under the reader's offset; a reader that has
\* the WAL open keeps what it was reading.
LEMMA OrderReplace ==
    ASSUME TypeOK, OrderInv, cPc = "swap", cPc' # "swap", Replace,
           UNCHANGED <<rPc, rStart, rPos, rOff, rBuf, rEof, rItem, sent,
                       nextId, up>>
    PROVE  OrderInv'
<1> USE DEF OrderInv
<1>1. wal' = cTmp
  BY DEF Replace
<1>2. Passed' = Passed /\ Place' = Place /\ Scanning' = Scanning
  BY DEF Passed, Place, Scanning
<1>3. Place \in Nat /\ rPos \in Nat
  BY DEF Place, TypeOK, ReaderTypeOK
<1>4. Len(rBuf) \in Nat /\ Len(wal) \in Nat /\ Len(old) \in Nat
  BY LenProperties DEF TypeOK, ReaderTypeOK, DiskTypeOK
<1>5. WalInv'
  BY <1>1, <1>2, <1>3, ShiftLemma DEF WalInv
<1>6. \A s : Follows(rBuf, rPos, wal) => Follows(rBuf, rPos, cTmp)
  BY <1>3, <1>4, ShiftLemma DEF Follows
<1>7. OldInv'
  <2>1. rPc' \in {"open", "wait"} => ~rOnOld'
    BY DEF Replace, OldInv
  <2>2. ASSUME rOnOld', Scanning
        PROVE  /\ Ordered(old') /\ Written(old', nextId)
               /\ Unread(old', rPos, Passed)
               /\ \A j \in 1..Len(old') : Before(old'[j], j, cTmp)
    <3>1. CASE ~rOnOld
      <4>1. old' = wal /\ Place = rPos
        BY <2>2, <3>1 DEF Replace, Scanning, Place
      <4>2. \A j \in 1..Len(wal) : Before(wal[j], j, cTmp)
        BY <1>4, ShiftLemma DEF WalInv, Ordered
      <4>3. QED
        BY <4>1, <4>2 DEF WalInv
    <3>2. CASE rOnOld
      <4>1. old' = old
        BY <3>2 DEF Replace
      <4>2. \A j \in 1..Len(old) : Before(old[j], j, cTmp)
        BY <1>4, <2>2, <3>2, ShiftLemma DEF OldInv
      <4>3. QED
        BY <2>2, <3>2, <4>1, <4>2 DEF OldInv
    <3>3. QED
      BY <3>1, <3>2
  <2>3. QED
    BY <1>1, <1>2, <2>1, <2>2 DEF OldInv
<1>8. BufInv'
  <2>1. ASSUME Scanning, rOnOld'
        PROVE  Follows(rBuf, rPos, old')
    <3>1. CASE ~rOnOld
      BY <2>1, <3>1 DEF Replace, Scanning, BufInv
    <3>2. CASE rOnOld
      BY <2>1, <3>2 DEF Replace, BufInv
    <3>3. QED
      BY <3>1, <3>2
  <2>2. QED
    BY <1>1, <1>2, <1>6, <2>1 DEF BufInv
<1>9. TmpInv' /\ SentInv'
  BY <1>2 DEF TmpInv, SentInv, FedInOrderOnce
<1>10. QED
  BY <1>5, <1>7, <1>8, <1>9

\* Truncation, the tail copy and the swap.
LEMMA OrderCompact ==
    ASSUME TypeOK, OrderInv, CTruncate \/ CCopy \/ CSwap \/ CSwapFails
    PROVE  OrderInv'
<1> USE DEF OrderInv
<1>1. CASE CTruncate
  <2>1. /\ sent' = sent /\ nextId' = nextId /\ up' = up /\ cPc' # "swap"
        /\ UNCHANGED reader
    BY <1>1 DEF CTruncate
  <2>2. CASE wal' = wal
    BY <2>1, <2>2, OrderFrame
  <2>3. CASE wal' = <<>>
    <3>1. Len(wal') = 0
      BY <2>3, EmptySeq
    <3>2. \A c, j, S : /\ Ordered(wal') /\ Written(wal', nextId)
                       /\ Unread(wal', j, S) /\ Before(c, j, wal')
                       /\ Follows(rBuf, j, wal')
      BY <3>1 DEF Ordered, Written, Unread, Before, Follows
    <3>3. /\ rPc' = rPc /\ rPos' = rPos /\ rOff' = rOff /\ rBuf' = rBuf
          /\ rEof' = rEof /\ rOnOld' = rOnOld /\ old' = old
          /\ rItem' = rItem /\ rStart' = rStart
      BY <2>1 DEF reader
    <3>4. Passed' = Passed /\ Place' = Place /\ Scanning' = Scanning
      BY <2>1, <3>3 DEF Passed, Place, Scanning
    <3>5. WalInv' /\ OldInv' /\ BufInv'
      BY <2>1, <3>2, <3>3, <3>4 DEF WalInv, OldInv, BufInv
    <3>6. TmpInv' /\ SentInv'
      BY <2>1, <3>3, <3>4 DEF TmpInv, SentInv, FedInOrderOnce
    <3>7. QED
      BY <3>5, <3>6
  <2>4. QED
    BY <1>1, <2>2, <2>3 DEF CTruncate
<1>2. CASE CCopy
  <2>1. /\ wal' = wal /\ sent' = sent /\ nextId' = nextId /\ up' = up
        /\ cAck' = cAck /\ UNCHANGED reader /\ cTmp' = After(wal, cAck)
    BY <1>2 DEF CCopy, disk, history
  <2>2. TmpInv'
    <3>1. cAck \in Nat /\ wal \in Seq(Cell) /\ Len(wal) \in Nat
      BY LenProperties DEF TypeOK, CkpterTypeOK, DiskTypeOK
    <3>2. /\ Len(cTmp') = IF cAck < Len(wal) THEN Len(wal) - cAck ELSE 0
          /\ \A i \in 1..Len(cTmp') : cTmp'[i] = wal[i + cAck]
      BY <2>1, <3>1, AfterLemma
    <3>3. \A k \in 1..Len(cTmp') : k + cAck <= Len(wal)
      BY <3>1, <3>2
    <3>4. QED
      BY <2>1, <3>2, <3>3 DEF TmpInv
  <2>3. /\ rPc' = rPc /\ rPos' = rPos /\ rOff' = rOff /\ rBuf' = rBuf
        /\ rEof' = rEof /\ rOnOld' = rOnOld /\ old' = old
        /\ rItem' = rItem /\ rStart' = rStart
    BY <2>1 DEF reader
  <2>4. Passed' = Passed /\ Place' = Place /\ Scanning' = Scanning
    BY <2>1, <2>3 DEF Passed, Place, Scanning
  <2>5. QED
    BY <2>1, <2>2, <2>3, <2>4
       DEF WalInv, OldInv, BufInv, SentInv, FedInOrderOnce
<1>3. CASE CSwap
  BY <1>3, OrderReplace DEF CSwap
<1>4. CASE CSwapFails
  <2>1. /\ cPc = "swap" /\ cPc' # "swap"
        /\ UNCHANGED <<rPc, rStart, rPos, rOff, rBuf, rEof, rItem, sent,
                       nextId, up>>
    BY <1>4 DEF CSwapFails, CIdle
  <2>2. CASE Replace
    BY <2>1, <2>2, OrderReplace
  <2>3. CASE UNCHANGED <<wal, rOnOld, old, compacted>>
    BY <2>1, <2>3, OrderFrame DEF reader
  <2>4. QED
    BY <1>4, <2>2, <2>3 DEF CSwapFails
<1>5. QED
  BY <1>1, <1>2, <1>3, <1>4

\* A new process has fed nothing yet.
LEMMA OrderProcess ==
    ASSUME TypeOK, OrderInv, Exit \/ Crash \/ Restart
    PROVE  OrderInv'
<1> USE DEF OrderInv
<1>1. /\ wal' = wal /\ nextId' = nextId /\ sent' = <<>> /\ rPc' = "open"
      /\ ~rOnOld' /\ TmpInv'
  <2>1. CASE Exit \/ Crash
    BY <2>1 DEF Exit, Crash, LoseMemory, disk, TmpInv
  <2>2. CASE Restart
    <3>1. sent = <<>> /\ rPc = "open" /\ ~rOnOld
      BY <2>2 DEF Restart, SentInv, OldInv
    <3>2. QED
      BY <2>2, <3>1 DEF Restart, disk, ckpter, TmpInv
  <2>3. QED
    BY <2>1, <2>2
<1>2. Len(sent') = 0 /\ Passed' = {} /\ ~Scanning'
  BY <1>1, EmptySeq DEF Passed, Scanning
<1>3. \A p : Unread(wal, p, {})
  BY DEF Unread, Beyond
<1>4. WalInv' /\ OldInv' /\ BufInv'
  BY <1>1, <1>2, <1>3 DEF WalInv, OldInv, BufInv
<1>5. SentInv'
  BY <1>1, <1>2 DEF SentInv, FedInOrderOnce
<1>6. QED
  BY <1>1, <1>4, <1>5

-----------------------------------------------------------------------------
\* Every step preserves the order.
LEMMA OrderNext == TypeOK /\ OrderInv /\ [Next]_vars => OrderInv'
<1> SUFFICES ASSUME TypeOK, OrderInv, [Next]_vars
             PROVE  OrderInv'
  OBVIOUS
<1>1. CASE Write
  BY <1>1, OrderWrite
<1>2. CASE Reader
  BY <1>2, OrderOpen, OrderFill, OrderLine, OrderEof, OrderSend DEF Reader
<1>3. CASE Checkpointer
  BY <1>3, OrderCompact, OrderOther DEF Checkpointer
<1>4. CASE Process
  BY <1>4, OrderProcess, OrderOther DEF Process
<1>5. CASE Take \/ Closer \/ UNCHANGED vars
  BY <1>5, OrderOther
<1>6. QED
  BY <1>1, <1>2, <1>3, <1>4, <1>5 DEF Next

\* The initial state is in order.
LEMMA OrderInit == Init => OrderInv
<1> SUFFICES ASSUME Init PROVE OrderInv
  OBVIOUS
<1>1. Len(wal) = 0 /\ Len(sent) = 0
  BY EmptySeq DEF Init
<1>2. QED
  BY <1>1 DEF Init, OrderInv, WalInv, OldInv, TmpInv, BufInv, SentInv,
              FedInOrderOnce, Ordered, Written, Unread, Passed, Scanning

\* One run of the process feeds every point at most once, and in the order the
\* points were written, whatever compaction and failures do to the file.
THEOREM FeedOrder == Spec => []FedInOrderOnce
<1>1. OrderInv => FedInOrderOnce
  BY DEF OrderInv, SentInv
<1>2. QED
  BY <1>1, OrderInit, OrderNext, TypeCorrect, PTL DEF Spec

-----------------------------------------------------------------------------
(* What a crash leaves: until a compaction or a failed call, the WAL is    *)
(* whole records, and every place that may become the next process's       *)
(* checkpoint is between two records, before all that was not fed          *)

Clean == ~compacted /\ faults = 0

\* Record id lies on the WAL, whole, from offset k on.
RecordAt(id, k) == /\ k + RecLen[id] <= Len(wal)
                   /\ \A i \in 1..RecLen[id] : wal[k + i] = [id |-> id, part |-> i]

\* Cell k is part of a record that is whole.
WholeAt(k) == wal[k].part <= k /\ RecordAt(wal[k].id, k - wal[k].part)

Whole == \A k \in 1..Len(wal) : WholeAt(k)

OnWal(id, p) == \E k \in p..Len(wal) : RecordAt(id, k)

\* Offsets between two records, with every point of S still ahead.
Ahead(S) == {p \in 0..Len(wal) : /\ p = 0 \/ IsNewline(wal[p])
                                 /\ \A id \in S : OnWal(id, p)}

Unfed      == AcceptedIds \ fed
SafePlaces == Ahead(Unfed)

\* The reader may be one point ahead: the one it is about to send.
SendPlaces == Ahead(Unfed \ {rItem})

PlacesInv ==
    /\ {ckpt, sentPos, cPos, clPos, rStart} \subseteq SafePlaces
    /\ rPc = "send" => rPos \in SendPlaces
    /\ rPc \notin {"send", "done"} => rPos \in SafePlaces

ScanInv ==
    /\ ~ rOnOld /\ rOff <= Len(wal)
    /\ Scanning => rPos <= rOff /\ rBuf = SubSeq(wal, rPos + 1, rOff)

SurviveInv == Clean => Whole /\ PlacesInv /\ ScanInv

\* A cell of the WAL.
LEMMA WalCell ==
    ASSUME TypeOK
    PROVE  /\ wal \in Seq(Cell) /\ Len(wal) \in Nat
           /\ \A k \in 1..Len(wal) : /\ wal[k] \in Cell /\ wal[k].id \in Ids
                                     /\ wal[k].part \in 1..RecLen[wal[k].id]
           /\ \A id \in Ids : RecLen[id] \in Nat /\ RecLen[id] > 1
           /\ AcceptedIds \subseteq Ids
<1>1. wal \in Seq(Cell) /\ Len(wal) \in Nat
  BY LenProperties DEF TypeOK, DiskTypeOK
<1>2. \A id \in Ids : RecLen[id] \in Nat /\ RecLen[id] > 1
  BY RecordAssumption
<1>3. \A k \in 1..Len(wal) : wal[k] \in Cell
  BY <1>1, ElementOfSeq
<1>4. \A c \in Cell : c.id \in Ids /\ c.part \in 1..RecLen[c.id]
  BY <1>2 DEF Cell
<1>5. AcceptedIds \subseteq Ids
  <2>1. accepted \in Seq(Ids)
    BY DEF TypeOK, HistoryTypeOK
  <2>2. \A i \in 1..Len(accepted) : accepted[i] \in Ids
    BY <2>1, ElementOfSeq
  <2> QED BY <2>2 DEF AcceptedIds
<1> QED BY <1>1, <1>2, <1>3, <1>4, <1>5

\* Where a record may begin, one does.
LEMMA RecordBegins ==
    ASSUME TypeOK, Whole, NEW p \in Nat, p < Len(wal), p = 0 \/ IsNewline(wal[p])
    PROVE  wal[p + 1].id \in Ids /\ RecordAt(wal[p + 1].id, p)
<1> DEFINE c == wal[p + 1]
<1>1. p + 1 \in 1..Len(wal)
  BY WalCell
<1>2. /\ c.id \in Ids /\ c.part \in 1..RecLen[c.id] /\ RecLen[c.id] \in Nat
      /\ c.part <= p + 1 /\ RecordAt(c.id, p + 1 - c.part)
  <2>1. /\ c.id \in Ids /\ c.part \in 1..RecLen[c.id] /\ RecLen[c.id] \in Nat
    BY <1>1, WalCell
  <2>2. WholeAt(p + 1)
    BY <1>1 DEF Whole
  <2> QED BY <2>1, <2>2 DEF WholeAt
<1> HIDE DEF c
<1>3. c.part = 1
  <2> SUFFICES ASSUME c.part # 1 PROVE FALSE
    OBVIOUS
  <2>1. c.part - 1 \in 1..RecLen[c.id] /\ p # 0
    BY <1>2
  <2>2. wal[(p + 1 - c.part) + (c.part - 1)] = [id |-> c.id, part |-> c.part - 1]
    BY <1>2, <2>1 DEF RecordAt
  <2>3. (p + 1 - c.part) + (c.part - 1) = p
    BY <1>2
  <2>4. wal[p] = [id |-> c.id, part |-> c.part - 1]
    BY <2>2, <2>3
  <2>5. c.part - 1 = RecLen[c.id]
    BY <2>1, <2>4 DEF IsNewline
  <2> QED BY <1>2, <2>5
<1>4. p + 1 - c.part = p
  BY <1>3
<1> QED BY <1>2, <1>4 DEF c

\* What the WAL ends with is a newline.
LEMMA EndsInNewline ==
    ASSUME TypeOK, Whole, wal # <<>> PROVE Len(wal) \in 1..Len(wal) /\ IsNewline(wal[Len(wal)])
<1> DEFINE n == Len(wal)
           c == wal[n]
<1>1. n \in Nat /\ n # 0
  BY WalCell, EmptySeq
<1>2. /\ c.id \in Ids /\ c.part \in 1..RecLen[c.id] /\ RecLen[c.id] \in Nat
      /\ RecordAt(c.id, n - c.part)
  BY <1>1, WalCell DEF Whole, WholeAt
<1>3. n - c.part + RecLen[c.id] <= n
  BY <1>2 DEF RecordAt
<1> HIDE DEF n, c
<1>4. c.part = RecLen[c.id]
  BY <1>1, <1>2, <1>3
<1> QED BY <1>1, <1>4 DEF IsNewline, n, c

\* The beginning of the file is before everything.
LEMMA StartSafe ==
    ASSUME TypeOK, SafePlaces # {} PROVE 0 \in SafePlaces
<1>1. PICK p \in SafePlaces : TRUE
  OBVIOUS
<1>2. p \in 0..Len(wal) /\ \A id \in Unfed : OnWal(id, p)
  BY <1>1 DEF SafePlaces, Ahead
<1>3. \A k \in p..Len(wal) : k \in 0..Len(wal)
  BY <1>2, WalCell
<1>4. \A id \in Unfed : OnWal(id, 0)
  BY <1>2, <1>3 DEF OnWal
<1> QED BY <1>4, WalCell DEF SafePlaces, Ahead

\* A step that adds nothing to the WAL and may feed a point.
LEMMA PlacesStay ==
    ASSUME UNCHANGED <<wal, accepted>>, fed \subseteq fed'
    PROVE  /\ SafePlaces \subseteq SafePlaces'
           /\ rItem' = rItem => SendPlaces \subseteq SendPlaces'
<1>1. Unfed' \subseteq Unfed
  BY DEF Unfed, AcceptedIds
<1>2. \A id, p : OnWal(id, p) => OnWal(id, p)'
  BY DEF OnWal, RecordAt
<1>3. \A S, T : T \subseteq S => \A p \in Ahead(S) :
         /\ p \in 0..Len(wal') /\ (p = 0 \/ IsNewline(wal'[p]))
         /\ \A id \in T : OnWal(id, p)'
  BY <1>2 DEF Ahead, IsNewline
<1>4. ASSUME NEW p \in SafePlaces PROVE p \in SafePlaces'
  BY <1>1, <1>3, <1>4 DEF SafePlaces, Ahead
<1>5. ASSUME rItem' = rItem, NEW p \in SendPlaces PROVE p \in SendPlaces'
  BY <1>1, <1>3, <1>5 DEF SendPlaces, Ahead
<1> QED BY <1>4, <1>5

\* A step that moves positions to places known to be safe, and not the reader.
LEMMA SurviveRests ==
    ASSUME TypeOK, SurviveInv, UNCHANGED <<wal, accepted, fed, reader>>,
           Clean' => Clean,
           {ckpt', sentPos', cPos', clPos'} \subseteq {0, ckpt, sentPos, cPos, clPos}
    PROVE  SurviveInv'
<1> SUFFICES ASSUME Clean' PROVE (Whole /\ PlacesInv /\ ScanInv)'
  BY DEF SurviveInv
<1>1. Whole /\ PlacesInv /\ ScanInv
  BY DEF SurviveInv
<1>2. Whole' /\ ScanInv'
  BY <1>1 DEF Whole, WholeAt, RecordAt, ScanInv, Scanning, reader
<1>3. SafePlaces \subseteq SafePlaces' /\ SendPlaces \subseteq SendPlaces'
  BY PlacesStay DEF reader
<1>4. 0 \in SafePlaces
  BY <1>1, StartSafe DEF PlacesInv
<1>5. PlacesInv'
  BY <1>1, <1>3, <1>4 DEF PlacesInv, reader
<1> QED BY <1>2, <1>5

\* A step that is not clean owes nothing.
LEMMA Unclean == compacted' \/ faults' # 0 => SurviveInv'
  BY DEF SurviveInv, Clean

\* Every record that was written whole stays so when another is.
LEMMA SurviveWrite == ASSUME TypeOK, SurviveInv, WriteOk PROVE SurviveInv'
<1>0. PICK n \in Nat, new \in Ids, m \in Nat :
         n = Len(wal) /\ new = nextId /\ m = RecLen[nextId] /\ m > 1
  <2>1. nextId \in Ids
    BY BoundsAssumption DEF WriteOk, Offer, Ids, TypeOK, HistoryTypeOK
  <2> QED BY <2>1, WalCell
<1>1. /\ wal' = wal \o Cells(new) /\ accepted' = Append(accepted, new)
      /\ UNCHANGED <<ckpt, sentPos, reader, ckpter, closer, fed, compacted, faults>>
  BY <1>0 DEF WriteOk
<1>2. new \in Ids /\ m \in Nat /\ m > 1 /\ m = RecLen[new]
  BY <1>0
<1> SUFFICES ASSUME Clean' PROVE (Whole /\ PlacesInv /\ ScanInv)'
  BY DEF SurviveInv
<1>3. Whole /\ PlacesInv /\ ScanInv
  BY <1>1 DEF SurviveInv, Clean
<1>4. /\ n \in Nat /\ Len(wal') = n + m /\ wal' \in Seq(Cell)
      /\ \A k \in 1..n : wal'[k] = wal[k]
      /\ \A i \in 1..m : wal'[n + i] = [id |-> new, part |-> i]
  <2>1. /\ Cells(new) \in Seq(Cell) /\ Len(Cells(new)) = m
        /\ \A i \in 1..m : Cells(new)[i] = [id |-> new, part |-> i]
    BY <1>2, CellsLemma
  <2>2. wal \in Seq(Cell) /\ n \in Nat
    BY <1>0, WalCell
  <2> DEFINE t == Cells(new)
  <2> HIDE DEF t
  <2>3. /\ wal \o t \in Seq(Cell) /\ Len(wal \o t) = n + Len(t)
        /\ \A i \in 1..(n + Len(t)) :
              (wal \o t)[i] = IF i <= n THEN wal[i] ELSE t[i - n]
    BY <1>0, <2>1, <2>2, ConcatCells DEF t
  <2>4. \A k \in 1..n : (wal \o t)[k] = wal[k]
    BY <1>2, <2>1, <2>2, <2>3 DEF t
  <2>5. \A i \in 1..m : (wal \o t)[n + i] = t[i]
    <3> SUFFICES ASSUME NEW i \in 1..m PROVE (wal \o t)[n + i] = t[i]
      OBVIOUS
    <3>1. n + i \in 1..(n + Len(t)) /\ ~ (n + i <= n) /\ (n + i) - n = i
      BY <1>2, <2>1, <2>2 DEF t
    <3> QED BY <2>3, <3>1
  <2> QED BY <1>1, <2>1, <2>2, <2>3, <2>4, <2>5 DEF t
<1>5. \A id \in Ids, k \in Nat : RecordAt(id, k) => RecordAt(id, k)'
  <2> SUFFICES ASSUME NEW id \in Ids, NEW k \in Nat, RecordAt(id, k)
               PROVE  RecordAt(id, k)'
    OBVIOUS
  <2>1. RecLen[id] \in Nat /\ k + RecLen[id] <= n
    BY <1>0, WalCell DEF RecordAt
  <2>2. k + RecLen[id] <= Len(wal')
    BY <1>2, <1>4, <2>1
  <2>3. \A i \in 1..RecLen[id] : k + i \in 1..n
    BY <1>4, <2>1
  <2> QED BY <1>4, <2>2, <2>3 DEF RecordAt
<1>6. RecordAt(new, n)'
  BY <1>2, <1>4 DEF RecordAt
<1>7. Whole'
  <2> SUFFICES ASSUME NEW k \in 1..(n + m)
               PROVE  WholeAt(k)'
    BY <1>4 DEF Whole
  <2>1. CASE k \in 1..n
    <3>1. PICK c \in Cell : c = wal[k]
      BY <1>0, <2>1, WalCell
    <3>2. c.id \in Ids /\ c.part \in Nat /\ c.part <= k /\ RecordAt(c.id, k - c.part)
      BY <1>0, <1>3, <2>1, <3>1, WalCell DEF Whole, WholeAt
    <3>3. RecordAt(c.id, k - c.part)'
      BY <1>5, <2>1, <3>2
    <3>4. wal'[k] = c
      BY <1>4, <2>1, <3>1
    <3> QED BY <3>2, <3>3, <3>4 DEF WholeAt, RecordAt
  <2>2. CASE k \notin 1..n
    <3>1. PICK i \in 1..m : k = n + i
      <4>1. k - n \in 1..m /\ k = n + (k - n)
        BY <1>0, <2>2
      <4> QED BY <4>1
    <3>2. wal'[k] = [id |-> new, part |-> i] /\ k - i = n
      <4>1. wal'[n + i] = [id |-> new, part |-> i]
        BY <1>4
      <4>2. (n + i) - i = n
        OBVIOUS
      <4> QED BY <3>1, <4>1, <4>2
    <3>3. wal'[k].id = new /\ wal'[k].part = i /\ i <= k
      BY <1>0, <3>1, <3>2
    <3> QED BY <1>6, <3>2, <3>3 DEF WholeAt, RecordAt
  <2> QED BY <2>1, <2>2
<1>8. \A id \in Ids, p \in 0..n : OnWal(id, p) => OnWal(id, p)'
  <2> SUFFICES ASSUME NEW id \in Ids, NEW p \in 0..n, OnWal(id, p)
               PROVE  OnWal(id, p)'
    OBVIOUS
  <2>1. PICK k \in p..n : RecordAt(id, k)
    BY <1>0 DEF OnWal
  <2>2. k \in p..(n + m) /\ RecordAt(id, k)'
    BY <1>0, <1>5, <2>1
  <2> QED BY <1>4, <2>2 DEF OnWal
<1>9. \A p \in 0..n : OnWal(new, p)'
  <2> SUFFICES ASSUME NEW p \in 0..n PROVE OnWal(new, p)'
    OBVIOUS
  <2>1. n \in p..(n + m)
    BY <1>0
  <2> QED BY <1>4, <1>6, <2>1 DEF OnWal
<1>10. AcceptedIds' \subseteq AcceptedIds \cup {new}
  <2>1. accepted \in Seq(Ids)
    BY DEF TypeOK, HistoryTypeOK
  <2>2. /\ Len(accepted') = Len(accepted) + 1 /\ Len(accepted) \in Nat
        /\ \A i \in 1..Len(accepted) : accepted'[i] = accepted[i]
        /\ accepted'[Len(accepted) + 1] = new
    BY <1>1, <2>1, AppendProperties, LenProperties
  <2>3. \A i \in 1..(Len(accepted) + 1) : i \in 1..Len(accepted) \/ i = Len(accepted) + 1
    BY <2>2
  <2> QED BY <2>2, <2>3 DEF AcceptedIds
<1>11. \A S, T \in SUBSET Ids : T \subseteq S \cup {new} => \A p \in Ahead(S) :
          /\ p \in 0..Len(wal') /\ (p = 0 \/ IsNewline(wal'[p]))
          /\ \A id \in T : OnWal(id, p)'
  <2> SUFFICES ASSUME NEW S \in SUBSET Ids, NEW T \in SUBSET Ids,
                      T \subseteq S \cup {new}, NEW p \in Ahead(S)
               PROVE  /\ p \in 0..Len(wal') /\ (p = 0 \/ IsNewline(wal'[p]))
                      /\ \A id \in T : OnWal(id, p)'
    OBVIOUS
  <2>1. p \in 0..n /\ (p = 0 \/ IsNewline(wal[p])) /\ \A id \in S : OnWal(id, p)
    BY <1>0 DEF Ahead
  <2>2. p \in 0..(n + m) /\ (p = 0 \/ p \in 1..n)
    BY <1>0, <2>1
  <2>3. p = 0 \/ IsNewline(wal'[p])
    BY <1>4, <2>1, <2>2
  <2> QED BY <1>4, <1>8, <1>9, <2>1, <2>2, <2>3
<1>12. SafePlaces \subseteq SafePlaces' /\ SendPlaces \subseteq SendPlaces'
  <2>1. /\ Unfed \in SUBSET Ids /\ Unfed' \subseteq Unfed \cup {new}
        /\ Unfed \ {rItem} \in SUBSET Ids
        /\ (Unfed \ {rItem})' \subseteq (Unfed \ {rItem}) \cup {new}
    BY <1>1, <1>10, WalCell DEF Unfed, reader
  <2>2. Unfed' \in SUBSET Ids /\ (Unfed \ {rItem})' \in SUBSET Ids
    BY <2>1
  <2>3. ASSUME NEW p \in SafePlaces PROVE p \in SafePlaces'
    <3>1. p \in Ahead(Unfed)
      BY <2>3 DEF SafePlaces
    <3>2. /\ p \in 0..Len(wal') /\ (p = 0 \/ IsNewline(wal'[p]))
          /\ \A id \in Unfed' : OnWal(id, p)'
      BY <1>11, <2>1, <2>2, <3>1
    <3> QED BY <3>2 DEF SafePlaces, Ahead
  <2>4. ASSUME NEW p \in SendPlaces PROVE p \in SendPlaces'
    <3>1. p \in Ahead(Unfed \ {rItem})
      BY <2>4 DEF SendPlaces
    <3>2. /\ p \in 0..Len(wal') /\ (p = 0 \/ IsNewline(wal'[p]))
          /\ \A id \in (Unfed \ {rItem})' : OnWal(id, p)'
      BY <1>11, <2>1, <2>2, <3>1
    <3> QED BY <3>2 DEF SendPlaces, Ahead
  <2> QED BY <2>3, <2>4
<1>13. PlacesInv'
  BY <1>1, <1>3, <1>12 DEF PlacesInv, reader, ckpter, closer
<1>14. ScanInv'
  <2>1. ~ rOnOld' /\ rOff' <= Len(wal')
    BY <1>0, <1>1, <1>3, <1>4 DEF ScanInv, reader, TypeOK, ReaderTypeOK
  <2>2. ASSUME Scanning
        PROVE  rPos <= rOff /\ rBuf = SubSeq(wal', rPos + 1, rOff)
    <3>1. /\ rPos <= rOff /\ rBuf = SubSeq(wal, rPos + 1, rOff) /\ rOff <= n
          /\ rPos \in Nat /\ rOff \in Nat
      BY <1>0, <1>3, <2>2 DEF ScanInv, TypeOK, ReaderTypeOK
    <3>2. rOff <= Len(wal') /\ rOff <= Len(wal)
      BY <1>0, <1>4, <3>1
    <3>3. /\ SubSeq(wal, rPos + 1, rOff) \in Seq(Cell)
          /\ SubSeq(wal', rPos + 1, rOff) \in Seq(Cell)
          /\ Len(SubSeq(wal, rPos + 1, rOff)) = Len(SubSeq(wal', rPos + 1, rOff))
          /\ Len(SubSeq(wal, rPos + 1, rOff)) = IF rPos < rOff THEN rOff - rPos ELSE 0
          /\ \A i \in 1..(rOff - rPos) : SubSeq(wal, rPos + 1, rOff)[i] = wal[rPos + i]
          /\ \A i \in 1..(rOff - rPos) : SubSeq(wal', rPos + 1, rOff)[i] = wal'[rPos + i]
      BY <1>4, <3>1, <3>2, FillLemma, WalCell
    <3>4. \A i \in 1..(rOff - rPos) : rPos + i \in 1..n
      BY <1>0, <3>1
    <3>5. \A i \in 1..Len(SubSeq(wal, rPos + 1, rOff)) :
             SubSeq(wal, rPos + 1, rOff)[i] = SubSeq(wal', rPos + 1, rOff)[i]
      <4> SUFFICES ASSUME NEW i \in 1..Len(SubSeq(wal, rPos + 1, rOff))
                   PROVE  SubSeq(wal, rPos + 1, rOff)[i] = SubSeq(wal', rPos + 1, rOff)[i]
        OBVIOUS
      <4>1. i \in 1..(rOff - rPos)
        BY <3>1, <3>3
      <4>2. wal'[rPos + i] = wal[rPos + i]
        BY <1>4, <3>4, <4>1
      <4> QED BY <3>3, <4>1, <4>2
    <3> QED BY <3>1, <3>3, <3>5, SeqEqual
  <2> QED BY <1>1, <2>1, <2>2 DEF ScanInv, Scanning, reader
<1> QED BY <1>7, <1>13, <1>14

\* The steps of the reader that read nothing: the frame they share.
LEMMA ReaderMoves ==
    ASSUME TypeOK, SurviveInv, UNCHANGED <<wal, ckpt, accepted, fed, ckpter, closer>>,
           Clean' => Clean, sentPos' \in {sentPos, rPos}, rStart' \in {rStart, rPos},
           rPc \in {"send", "done"} => sentPos' = sentPos /\ rStart' = rStart,
           Clean /\ ScanInv => ScanInv',
           \/ rPc' = "done"
           \/ rPc \notin {"send", "done"} /\ rPc' # "send" /\ rPos' \in {rPos, rStart}
    PROVE  SurviveInv'
<1> SUFFICES ASSUME Clean' PROVE (Whole /\ PlacesInv /\ ScanInv)'
  BY DEF SurviveInv
<1>1. Whole /\ PlacesInv /\ ScanInv
  BY DEF SurviveInv
<1>2. Whole' /\ ScanInv'
  BY <1>1 DEF Whole, WholeAt, RecordAt
<1>3. SafePlaces \subseteq SafePlaces'
  BY PlacesStay
<1>4. PlacesInv'
  BY <1>1, <1>3 DEF PlacesInv, ckpter, closer
<1> QED BY <1>2, <1>4

\* Two neighbouring parts of a file make one.
LEMMA SplitLemma ==
    ASSUME NEW s \in Seq(Cell), NEW a \in Nat
    PROVE  /\ SubSeq(s, a + 1, a) = <<>>
           /\ \A b, c \in Nat : a <= b /\ b <= c /\ c <= Len(s) =>
                 SubSeq(s, a + 1, b) \o SubSeq(s, b + 1, c) = SubSeq(s, a + 1, c)
<1>1. SubSeq(s, a + 1, a) = <<>>
  <2>1. \A i \in (a + 1)..a : s[i] \in Cell
    OBVIOUS
  <2>2. SubSeq(s, a + 1, a) \in Seq(Cell) /\ Len(SubSeq(s, a + 1, a)) = 0
    BY <2>1, SubSeqProperties
  <2> QED BY <2>2, EmptySeq
<1>2. ASSUME NEW b \in Nat, NEW c \in Nat, a <= b, b <= c, c <= Len(s)
      PROVE  SubSeq(s, a + 1, b) \o SubSeq(s, b + 1, c) = SubSeq(s, a + 1, c)
  <2>0. Len(s) \in Nat /\ b <= Len(s) /\ a <= c
    BY <1>2, LenProperties
  <2>1. PICK x \in Seq(Cell) : x = SubSeq(s, a + 1, b)
    BY <1>2, <2>0, FillLemma
  <2>2. PICK y \in Seq(Cell) : y = SubSeq(s, b + 1, c)
    BY <1>2, FillLemma
  <2>3. PICK z \in Seq(Cell) : z = SubSeq(s, a + 1, c)
    BY <1>2, FillLemma
  <2>4. Len(x) = b - a /\ \A i \in 1..(b - a) : x[i] = s[a + i]
    BY <1>2, <2>0, <2>1, FillLemma
  <2>5. Len(y) = c - b /\ \A i \in 1..(c - b) : y[i] = s[b + i]
    BY <1>2, <2>0, <2>2, FillLemma
  <2>6. Len(z) = c - a /\ \A i \in 1..(c - a) : z[i] = s[a + i]
    BY <1>2, <2>0, <2>3, FillLemma
  <2>7. /\ x \o y \in Seq(Cell) /\ Len(x \o y) = c - a
        /\ \A i \in 1..(c - a) :
              (x \o y)[i] = IF i <= b - a THEN x[i] ELSE y[i - (b - a)]
    <3>1. /\ x \o y \in Seq(Cell) /\ Len(x \o y) = Len(x) + Len(y)
          /\ \A i \in 1..(Len(x) + Len(y)) :
                (x \o y)[i] = IF i <= Len(x) THEN x[i] ELSE y[i - Len(x)]
      BY ConcatCells
    <3>2. Len(x) = b - a /\ Len(x) + Len(y) = c - a
      BY <1>2, <2>4, <2>5
    <3> HIDE DEF Cell
    <3> QED BY <3>1, <3>2
  <2>8. ASSUME NEW i \in 1..(c - a) PROVE (x \o y)[i] = z[i]
    <3>1. CASE i <= b - a
      BY <1>2, <2>4, <2>6, <2>7, <3>1
    <3>2. CASE ~ (i <= b - a)
      <4>1. i - (b - a) \in 1..(c - b) /\ b + (i - (b - a)) = a + i
        BY <1>2, <3>2
      <4> QED BY <2>5, <2>6, <2>7, <3>2, <4>1
    <3> QED BY <3>1, <3>2
  <2> HIDE DEF Cell
  <2> QED BY <2>1, <2>2, <2>3, <2>6, <2>7, <2>8, SeqEqual
<1> QED BY <1>1, <1>2

LEMMA SurviveMoves ==
    ASSUME TypeOK, SurviveInv, ROpen \/ RFill \/ RCaughtUp \/ RMark \/ RWait \/ RStop
    PROVE  SurviveInv'
<1>t. wal \in Seq(Cell) /\ Len(wal) \in Nat /\ rPos \in Nat /\ rOff \in Nat
      /\ rBuf \in Seq(Cell)
  BY WalCell DEF TypeOK, ReaderTypeOK
<1>1. CASE ROpen
  <2>1. /\ UNCHANGED <<wal, ckpt, accepted, fed, ckpter, closer, sentPos, rStart, rOnOld>>
        /\ UNCHANGED <<compacted, faults>>
        /\ rPc = "open" /\ rPc' = "scan" /\ rPos' = rStart /\ rOff' = rStart
        /\ rBuf' = <<>>
    BY <1>1 DEF ROpen, disk, fields, history
  <2>2. ASSUME Clean PROVE rStart \in 0..Len(wal)
    BY <2>2 DEF SurviveInv, PlacesInv, SafePlaces, Ahead
  <2>3. SubSeq(wal, rStart + 1, rStart) = <<>>
    <3>1. rStart \in Nat
      BY DEF TypeOK, ReaderTypeOK
    <3> QED BY <1>t, <3>1, SplitLemma
  <2>4. ASSUME Clean, ScanInv PROVE ScanInv'
    BY <1>t, <2>1, <2>2, <2>3, <2>4 DEF ScanInv
  <2> QED BY <2>1, <2>4, ReaderMoves DEF Clean
<1>2. CASE RFill
  <2>1. /\ UNCHANGED <<wal, ckpt, accepted, fed, ckpter, closer, sentPos, rStart, rPos,
                       rPc, rOnOld, compacted, faults>>
        /\ rPc = "scan"
    BY <1>2 DEF RFill, disk, fields, history
  <2>2. ASSUME Clean, ScanInv PROVE ScanInv'
    <3>1. /\ rPos <= rOff /\ rBuf = SubSeq(wal, rPos + 1, rOff) /\ rOff <= Len(wal)
          /\ ~ rOnOld /\ ReaderFile = wal
      BY <2>1, <2>2 DEF ScanInv, Scanning, ReaderFile
    <3>2. PICK end \in Nat : /\ rOff <= end /\ end <= Len(wal) /\ rOff' = end
                             /\ rBuf' = rBuf \o SubSeq(wal, rOff + 1, end)
      <4> DEFINE room == ScanBuf - Len(rBuf)
                 end == IF Len(wal) - rOff <= room THEN Len(wal) ELSE rOff + room
      <4>1. rOff < Len(wal) /\ room \in Nat
        BY <1>2, <1>t, <3>1, QueueAssumption, LenProperties DEF RFill
      <4>2. end \in Nat /\ rOff <= end /\ end <= Len(wal)
        <5> HIDE DEF room
        <5> QED BY <1>t, <4>1
      <4>3. rBuf' = rBuf \o SubSeq(wal, rOff + 1, end) /\ rOff' = end
        BY <1>2, <3>1 DEF RFill
      <4> QED BY <4>2, <4>3
    <3>3. SubSeq(wal, rPos + 1, rOff) \o SubSeq(wal, rOff + 1, end)
             = SubSeq(wal, rPos + 1, end)
      <4>1. wal \in Seq(Cell) /\ rPos \in Nat /\ rOff \in Nat
        BY <1>t
      <4>2. rPos <= rOff /\ rOff <= end /\ end <= Len(wal) /\ end \in Nat
        BY <3>1, <3>2
      <4> QED BY <4>1, <4>2, SplitLemma
    <3>4. rBuf' = SubSeq(wal, rPos + 1, end) /\ rPos <= end
      BY <1>t, <3>1, <3>2, <3>3
    <3> QED BY <2>1, <3>1, <3>2, <3>4 DEF ScanInv, Scanning
  <2> QED BY <2>1, <2>2, ReaderMoves DEF Clean
<1>3. CASE RCaughtUp
  <2>1. /\ UNCHANGED <<wal, ckpt, accepted, fed, ckpter, closer, sentPos, rStart, rPos,
                       rOff, compacted, faults>>
        /\ rPc = "scan" /\ rPc' = "wait" /\ rOnOld' = FALSE
    BY <1>3 DEF RCaughtUp, disk, fields, history
  <2>2. ScanInv => ScanInv'
    BY <2>1 DEF ScanInv, Scanning
  <2> QED BY <2>1, <2>2, ReaderMoves DEF Clean
<1>4. CASE RMark
  <2>1. /\ UNCHANGED <<wal, ckpt, accepted, fed, ckpter, closer, rStart, rPos,
                       rOff, rBuf, rOnOld, compacted, faults>>
        /\ rPc = "mark" /\ rPc' = "scan" /\ sentPos' = rPos
    BY <1>4 DEF RMark, disk, fields, history
  <2>2. ScanInv => ScanInv'
    BY <2>1 DEF ScanInv, Scanning
  <2> QED BY <2>1, <2>2, ReaderMoves DEF Clean
<1>5. CASE RWait
  <2>1. /\ UNCHANGED <<wal, ckpt, accepted, fed, ckpter, closer, sentPos, rPos,
                       rOff, rBuf, rOnOld, compacted, faults>>
        /\ rPc = "wait" /\ rPc' = "open" /\ rStart' = rPos
    BY <1>5 DEF RWait, ResumeAt, disk, fields, history
  <2>2. ScanInv => ScanInv'
    BY <2>1 DEF ScanInv, Scanning
  <2> QED BY <2>1, <2>2, ReaderMoves DEF Clean
<1>6. CASE RStop
  <2>1. /\ UNCHANGED <<wal, ckpt, accepted, fed, ckpter, closer, sentPos, rStart, rPos,
                       rOff, rBuf, rOnOld, compacted, faults>>
        /\ rPc' = "done"
    BY <1>6 DEF RStop, disk, fields, history
  <2>2. ScanInv => ScanInv'
    BY <2>1 DEF ScanInv, Scanning
  <2> QED BY <2>1, <2>2, ReaderMoves DEF Clean
<1> QED BY <1>1, <1>2, <1>3, <1>4, <1>5, <1>6

\* What the scanner takes off its buffer at the first newline is one record.
LEMMA LineIsRecord ==
    ASSUME TypeOK, Whole, ScanInv, rPc = "scan", rPos = 0 \/ IsNewline(wal[rPos]),
           NEW n \in 1..Len(rBuf), IsNewline(rBuf[n]), NoLine(Prefix(rBuf, n - 1))
    PROVE  \E id \in Ids : /\ RecordAt(id, rPos) /\ n = RecLen[id]
                           /\ Parses(Prefix(rBuf, n - 1), id)
                           /\ \A x \in Ids : Parses(Prefix(rBuf, n - 1), x) => x = id
<1> DEFINE id == wal[rPos + 1].id
<1>1. /\ wal \in Seq(Cell) /\ Len(wal) \in Nat /\ rPos \in Nat /\ rOff \in Nat
      /\ rBuf \in Seq(Cell) /\ Len(rBuf) \in Nat
  BY WalCell, LenProperties DEF TypeOK, ReaderTypeOK
<1>2. /\ rPos <= rOff /\ rOff <= Len(wal) /\ rBuf = SubSeq(wal, rPos + 1, rOff)
  BY DEF ScanInv, Scanning
<1>3. /\ Len(rBuf) = rOff - rPos /\ rPos < rOff
      /\ \A i \in 1..Len(rBuf) : rBuf[i] = wal[rPos + i]
  <2>1. /\ Len(SubSeq(wal, rPos + 1, rOff)) = IF rPos < rOff THEN rOff - rPos ELSE 0
        /\ \A i \in 1..(rOff - rPos) : SubSeq(wal, rPos + 1, rOff)[i] = wal[rPos + i]
    BY <1>1, <1>2, FillLemma
  <2>2. Len(rBuf) = IF rPos < rOff THEN rOff - rPos ELSE 0
    BY <1>2, <2>1
  <2>3. rPos < rOff /\ Len(rBuf) = rOff - rPos
    BY <1>1, <2>2
  <2> QED BY <1>2, <2>1, <2>3
<1>4. id \in Ids /\ RecordAt(id, rPos)
  BY <1>1, <1>2, <1>3, RecordBegins
<1>5. PICK L \in Nat : L = RecLen[id] /\ L > 1
  BY <1>4, WalCell
<1> HIDE DEF id
<1>6. \A i \in 1..L : i <= Len(rBuf) => rBuf[i] = [id |-> id, part |-> i]
  <2> SUFFICES ASSUME NEW i \in 1..L, i <= Len(rBuf)
               PROVE  rBuf[i] = [id |-> id, part |-> i]
    OBVIOUS
  <2>1. wal[rPos + i] = [id |-> id, part |-> i]
    BY <1>4, <1>5 DEF RecordAt
  <2>2. i \in 1..Len(rBuf)
    BY <1>1
  <2> QED BY <1>3, <2>1, <2>2
<1>7. /\ Len(Prefix(rBuf, n - 1)) = n - 1 /\ Prefix(rBuf, n - 1) \in Seq(Cell)
      /\ \A i \in 1..(n - 1) : Prefix(rBuf, n - 1)[i] = rBuf[i]
  <2>1. n - 1 \in 0..Len(rBuf)
    BY <1>1
  <2> QED BY <1>1, <2>1, PrefixLemma
<1>8. n = L
  <2>1. ~ (n < L)
    <3> SUFFICES ASSUME n < L PROVE FALSE
      OBVIOUS
    <3>1. n \in 1..L /\ n <= Len(rBuf)
      BY <1>1, <1>5
    <3>2. rBuf[n] = [id |-> id, part |-> n]
      BY <1>6, <3>1
    <3>3. n = L
      BY <1>5, <3>2 DEF IsNewline
    <3> QED BY <3>3
  <2>2. ~ (L < n)
    <3> SUFFICES ASSUME L < n PROVE FALSE
      OBVIOUS
    <3>1. L \in 1..(n - 1) /\ L \in 1..L /\ L <= Len(rBuf)
      BY <1>1, <1>5
    <3>2. Prefix(rBuf, n - 1)[L] = [id |-> id, part |-> L]
      BY <1>6, <1>7, <3>1
    <3>3. IsNewline(Prefix(rBuf, n - 1)[L])
      BY <1>5, <3>2 DEF IsNewline
    <3> QED BY <1>7, <3>1, <3>3 DEF NoLine
  <2> QED BY <1>5, <2>1, <2>2
<1>9. Parses(Prefix(rBuf, n - 1), id)
  <2>1. L - 1 \in 1..(L - 1) /\ L - 1 = n - 1
    BY <1>5, <1>8
  <2>2. /\ Prefix(Cells(id), L - 1) \in Seq(Cell) /\ Len(Prefix(Cells(id), L - 1)) = L - 1
        /\ \A i \in 1..(L - 1) : Prefix(Cells(id), L - 1)[i] = [id |-> id, part |-> i]
    BY <1>4, <1>5, <2>1, TornLemma
  <2>3. \A i \in 1..(n - 1) : i \in 1..L /\ i <= Len(rBuf)
    BY <1>1, <1>8
  <2>4. \A i \in 1..Len(Prefix(rBuf, n - 1)) :
           Prefix(rBuf, n - 1)[i] = Prefix(Cells(id), L - 1)[i]
    BY <1>6, <1>7, <2>1, <2>2, <2>3
  <2>5. Prefix(rBuf, n - 1) = Prefix(Cells(id), L - 1)
    BY <1>7, <2>1, <2>2, <2>4, SeqEqual
  <2> QED BY <1>5, <2>5 DEF Parses
<1>10. ASSUME NEW x \in Ids, Parses(Prefix(rBuf, n - 1), x) PROVE x = id
  <2>1. RecLen[x] \in Nat /\ RecLen[x] > 1
    BY WalCell
  <2>2. /\ RecLen[x] - 1 \in 1..(RecLen[x] - 1) /\ 1 \in 1..(RecLen[x] - 1)
    BY <2>1
  <2>3. Prefix(Cells(x), RecLen[x] - 1)[1] = [id |-> x, part |-> 1]
    BY <2>2, TornLemma
  <2>4. Prefix(rBuf, n - 1)[1] = [id |-> x, part |-> 1]
    BY <1>10, <2>3 DEF Parses
  <2>5. 1 \in 1..(n - 1) /\ 1 \in 1..L /\ 1 <= Len(rBuf)
    BY <1>1, <1>5, <1>8
  <2>6. Prefix(rBuf, n - 1)[1] = [id |-> id, part |-> 1]
    BY <1>6, <1>7, <2>5
  <2> QED BY <2>4, <2>6
<1> QED BY <1>4, <1>5, <1>8, <1>9, <1>10

\* Beyond a record, everything but that record is still ahead.
LEMMA PastRecord ==
    ASSUME TypeOK, NEW id \in Ids, NEW p \in SafePlaces, RecordAt(id, p)
    PROVE  p + RecLen[id] \in Ahead(Unfed \ {id})
<1>1. PICK L \in Nat : L = RecLen[id] /\ L > 1
  BY WalCell
<1>2. p \in Nat /\ Len(wal) \in Nat /\ p + L <= Len(wal) /\ \A x \in Unfed : OnWal(x, p)
  BY <1>1, WalCell DEF SafePlaces, Ahead, RecordAt
<1>3. wal[p + L] = [id |-> id, part |-> L]
  BY <1>1 DEF RecordAt
<1>4. ASSUME NEW x \in Unfed \ {id} PROVE OnWal(x, p + L)
  <2>1. PICK k \in p..Len(wal) : RecordAt(x, k)
    BY <1>2 DEF OnWal
  <2>2. x \in Ids /\ RecLen[x] \in Nat /\ RecLen[x] > 1
    BY WalCell DEF Unfed
  <2>3. wal[k + 1] = [id |-> x, part |-> 1]
    BY <2>1, <2>2 DEF RecordAt
  <2>4. ~ (k < p + L)
    <3> SUFFICES ASSUME k < p + L PROVE FALSE
      OBVIOUS
    <3>1. (k + 1) - p \in 1..L /\ p + ((k + 1) - p) = k + 1
      BY <1>1, <1>2
    <3>2. wal[p + ((k + 1) - p)] = [id |-> id, part |-> (k + 1) - p]
      BY <1>1, <3>1 DEF RecordAt
    <3>3. wal[k + 1].id = id
      BY <3>1, <3>2
    <3> QED BY <2>3, <3>3
  <2>5. k \in (p + L)..Len(wal)
    BY <1>1, <1>2, <2>4
  <2> QED BY <2>1, <2>5 DEF OnWal
<1>5. IsNewline(wal[p + L])
  BY <1>1, <1>3 DEF IsNewline
<1>6. p + L \in 0..Len(wal)
  BY <1>1, <1>2
<1> QED BY <1>1, <1>4, <1>5, <1>6 DEF Ahead

\* A buffer's rest is the file's from further on.
LEMMA RestLemma ==
    ASSUME NEW s \in Seq(Cell), NEW a \in Nat, NEW b \in Nat, a <= b, b <= Len(s),
           NEW n \in Nat, a + n <= b
    PROVE  After(SubSeq(s, a + 1, b), n) = SubSeq(s, a + n + 1, b)
<1>1. PICK t \in Seq(Cell) : t = SubSeq(s, a + 1, b)
  BY FillLemma
<1>2. Len(t) = b - a /\ \A i \in 1..(b - a) : t[i] = s[a + i]
  <2>1. /\ Len(SubSeq(s, a + 1, b)) = IF a < b THEN b - a ELSE 0
        /\ \A i \in 1..(b - a) : SubSeq(s, a + 1, b)[i] = s[a + i]
    BY FillLemma
  <2> QED BY <1>1, <2>1
<1>3. PICK m \in Nat : m = a + n
  OBVIOUS
<1>4. PICK u \in Seq(Cell) : u = SubSeq(s, m + 1, b)
  BY FillLemma
<1>5. Len(u) = b - m /\ \A i \in 1..(b - m) : u[i] = s[m + i]
  <2>1. /\ Len(SubSeq(s, m + 1, b)) = IF m < b THEN b - m ELSE 0
        /\ \A i \in 1..(b - m) : SubSeq(s, m + 1, b)[i] = s[m + i]
    BY FillLemma
  <2> QED BY <1>3, <1>4, <2>1
<1>6. /\ After(t, n) \in Seq(Cell) /\ Len(After(t, n)) = b - m
      /\ \A i \in 1..(b - m) : After(t, n)[i] = t[i + n]
  <2>1. /\ After(t, n) \in Seq(Cell)
        /\ Len(After(t, n)) = IF n < Len(t) THEN Len(t) - n ELSE 0
        /\ \A i \in 1..Len(After(t, n)) : After(t, n)[i] = t[i + n]
    BY AfterLemma
  <2>2. Len(After(t, n)) = b - m
    <3>1. Len(t) = b - a
      BY <1>2
    <3>2. (IF n < b - a THEN (b - a) - n ELSE 0) = b - (a + n)
      OBVIOUS
    <3> QED BY <1>3, <2>1, <3>1, <3>2
  <2> QED BY <2>1, <2>2
<1>7. ASSUME NEW i \in 1..(b - m) PROVE After(t, n)[i] = u[i]
  <2>1. i + n \in 1..(b - a) /\ a + (i + n) = m + i
    BY <1>3
  <2> QED BY <1>2, <1>5, <1>6, <2>1
<1> HIDE DEF Cell
<1> QED BY <1>1, <1>3, <1>4, <1>5, <1>6, <1>7, SeqEqual

LEMMA SurviveLine == ASSUME TypeOK, SurviveInv, RLine PROVE SurviveInv'
<1> SUFFICES ASSUME Clean' PROVE (Whole /\ PlacesInv /\ ScanInv)'
  BY DEF SurviveInv
<1>1. /\ UNCHANGED <<wal, ckpt, accepted, fed, ckpter, closer, sentPos, rStart,
                     rOff, rOnOld, compacted, faults>>
      /\ rPc = "scan"
  BY DEF RLine, disk, fields, history
<1>2. Whole /\ PlacesInv /\ ScanInv
  BY <1>1 DEF SurviveInv, Clean
<1>3. rPos \in SafePlaces
  BY <1>1, <1>2 DEF PlacesInv
<1>4. PICK n \in 1..Len(rBuf) :
         /\ IsNewline(rBuf[n]) /\ NoLine(Prefix(rBuf, n - 1)) /\ GotLine(n - 1)
         /\ rBuf' = After(rBuf, n)
  BY DEF RLine
<1>5. PICK id \in Ids : /\ RecordAt(id, rPos) /\ n = RecLen[id]
                        /\ Parses(Prefix(rBuf, n - 1), id)
                        /\ \A x \in Ids : Parses(Prefix(rBuf, n - 1), x) => x = id
  <2>1. rPos = 0 \/ IsNewline(wal[rPos])
    BY <1>3 DEF SafePlaces, Ahead
  <2> QED BY <1>1, <1>2, <1>4, <2>1, LineIsRecord
<1>t. /\ wal \in Seq(Cell) /\ Len(wal) \in Nat /\ rPos \in Nat /\ rOff \in Nat
      /\ n \in Nat /\ Len(rBuf) \in Nat
  BY WalCell, LenProperties DEF TypeOK, ReaderTypeOK
<1>6. PICK q \in Nat : q = rPos + n
  BY <1>t
<1>7. rItem' = id /\ rPc' = "send" /\ rPos' = q
  <2>1. rPos' = q
    BY <1>t, <1>4, <1>6 DEF GotLine
  <2> QED BY <1>4, <1>5, <2>1 DEF GotLine
<1>8. q \in Ahead(Unfed \ {id})
  BY <1>3, <1>5, <1>6, PastRecord
<1>9. q \in SendPlaces'
  BY <1>1, <1>7, <1>8 DEF SendPlaces, Ahead, OnWal, RecordAt, Unfed, AcceptedIds, IsNewline
<1>10. SafePlaces \subseteq SafePlaces'
  BY <1>1, PlacesStay
<1>11. PlacesInv'
  BY <1>1, <1>2, <1>7, <1>9, <1>10 DEF PlacesInv, ckpter, closer
<1>12. ScanInv'
  <2>1. rPos <= rOff /\ rBuf = SubSeq(wal, rPos + 1, rOff) /\ rOff <= Len(wal)
    BY <1>1, <1>2 DEF ScanInv, Scanning
  <2>2. rPos + n <= rOff
    <3>1. Len(SubSeq(wal, rPos + 1, rOff)) = IF rPos < rOff THEN rOff - rPos ELSE 0
      BY <1>t, <2>1, FillLemma
    <3>2. Len(rBuf) = IF rPos < rOff THEN rOff - rPos ELSE 0
      BY <2>1, <3>1
    <3>3. n <= Len(rBuf)
      BY <1>t
    <3>4. Len(rBuf) <= rOff - rPos
      BY <1>t, <2>1, <3>2
    <3> QED BY <1>t, <3>3, <3>4
  <2>3. After(SubSeq(wal, rPos + 1, rOff), n) = SubSeq(wal, rPos + n + 1, rOff)
    BY <1>t, <2>1, <2>2, RestLemma
  <2>4. rBuf' = SubSeq(wal, q + 1, rOff)
    BY <1>4, <1>6, <2>1, <2>3
  <2> QED BY <1>1, <1>2, <1>6, <1>7, <2>2, <2>4 DEF ScanInv
<1>13. Whole'
  BY <1>1, <1>2 DEF Whole, WholeAt, RecordAt
<1> QED BY <1>11, <1>12, <1>13

\* Clean, the WAL ends in a newline: the scanner never returns half a line.
LEMMA SurviveEof == ASSUME TypeOK, SurviveInv, REofToken PROVE SurviveInv'
<1> SUFFICES ASSUME Clean PROVE FALSE
  BY DEF SurviveInv, Clean, REofToken, history
<1>1. Whole /\ ScanInv
  BY DEF SurviveInv
<1>2. /\ rPc = "scan" /\ rBuf # <<>> /\ NoLine(rBuf) /\ rOff >= Len(ReaderFile)
  BY DEF REofToken
<1>t. /\ wal \in Seq(Cell) /\ Len(wal) \in Nat /\ rPos \in Nat /\ rOff \in Nat
      /\ rBuf \in Seq(Cell) /\ Len(rBuf) \in Nat
  BY WalCell, LenProperties DEF TypeOK, ReaderTypeOK
<1>3. /\ rPos <= rOff /\ rBuf = SubSeq(wal, rPos + 1, rOff) /\ rOff = Len(wal)
  BY <1>1, <1>2, <1>t DEF ScanInv, Scanning, ReaderFile
<1>4. /\ Len(rBuf) = IF rPos < rOff THEN rOff - rPos ELSE 0
      /\ \A i \in 1..(rOff - rPos) : rBuf[i] = wal[rPos + i]
  BY <1>t, <1>3, FillLemma
<1>5. Len(rBuf) # 0
  BY <1>2, <1>t, EmptySeq
<1>6. rPos < rOff /\ rOff - rPos \in 1..(rOff - rPos) /\ rPos + (rOff - rPos) = rOff
  BY <1>t, <1>4, <1>5
<1>7. IsNewline(wal[rOff])
  <2>1. wal # <<>>
    BY <1>t, <1>3, <1>6, EmptySeq
  <2> QED BY <1>1, <1>3, <2>1, EndsInNewline
<1>8. rBuf[rOff - rPos] = wal[rOff] /\ rOff - rPos \in 1..Len(rBuf)
  BY <1>4, <1>6
<1> QED BY <1>2, <1>7, <1>8 DEF NoLine

\* The point that is sent was all that kept the reader's place from being safe.
LEMMA SurviveSend == ASSUME TypeOK, SurviveInv, RSend PROVE SurviveInv'
<1> SUFFICES ASSUME Clean' PROVE (Whole /\ PlacesInv /\ ScanInv)'
  BY DEF SurviveInv
<1>1. /\ UNCHANGED <<wal, ckpt, accepted, ckpter, closer, sentPos, rStart, rPos,
                     rOff, rBuf, rOnOld, compacted, faults>>
      /\ rPc = "send" /\ rPc' = "mark" /\ fed' = fed \cup {rItem}
  BY DEF RSend, disk
<1>2. Whole /\ PlacesInv /\ ScanInv
  BY <1>1 DEF SurviveInv, Clean
<1>3. Whole' /\ ScanInv'
  BY <1>1, <1>2 DEF Whole, WholeAt, RecordAt, ScanInv, Scanning
<1>4. SafePlaces \subseteq SafePlaces'
  BY <1>1, PlacesStay
<1>5. ASSUME NEW p \in SendPlaces PROVE p \in SafePlaces'
  <2>1. \A x : x \in Unfed' => x \in Unfed \ {rItem}
    BY <1>1 DEF Unfed, AcceptedIds
  <2>2. \A x : OnWal(x, p) => OnWal(x, p)'
    BY <1>1 DEF OnWal, RecordAt
  <2>3. /\ p \in 0..Len(wal') /\ (p = 0 \/ IsNewline(wal[p]))
        /\ \A x \in Unfed' : OnWal(x, p)'
    BY <1>1, <1>5, <2>1, <2>2 DEF SendPlaces, Ahead
  <2> QED BY <1>1, <2>3 DEF SafePlaces, Ahead, IsNewline
<1>6. PlacesInv'
  BY <1>1, <1>2, <1>4, <1>5 DEF PlacesInv, ckpter, closer
<1> QED BY <1>3, <1>6

\* The checkpointer and Close only save positions that were read from sentPos;
\* what else they do is a compaction or failed.
LEMMA SurviveSaves ==
    ASSUME TypeOK, SurviveInv, Checkpointer \/ Closer PROVE SurviveInv'
<1>1. CASE CTruncate \/ CSwap
  BY <1>1, Unclean DEF CTruncate, CSwap, Replace
<1>2. CASE CSaveFails \/ CCopyFails \/ CSwapFails \/ CResetFails
  BY <1>2, Unclean, FaultLemma DEF CSaveFails, CCopyFails, CSwapFails, CResetFails
<1>3. CASE CTick \/ CSaveOpen \/ CSaveWrite \/ CAck \/ CCompact \/ CCopy \/ CReset
  BY <1>3, SurviveRests DEF CTick, CSaveOpen, CSaveWrite, CAck, CCompact, CCopy, CReset,
     disk, fields, closer, history, Clean
<1>4. CASE Closer
  BY <1>4, SurviveRests DEF Closer, CloseBegin, CloseSaveOpen, CloseSaveWrite, CloseWal,
     disk, fields, ckpter, history, Clean
<1> QED BY <1>1, <1>2, <1>3, <1>4 DEF Checkpointer

\* The end of a process leaves the two files, a new one begins at the checkpoint.
LEMMA SurviveProcess == ASSUME TypeOK, SurviveInv, Process PROVE SurviveInv'
<1>1. CASE Stop
  BY <1>1, SurviveRests DEF Stop, disk, fields, ckpter, closer, history, Clean
<1>2. CASE LoseMemory \/ Restart
  <2> SUFFICES ASSUME Clean' PROVE (Whole /\ PlacesInv /\ ScanInv)'
    BY DEF SurviveInv
  <2>1. UNCHANGED <<wal, ckpt, accepted, fed, compacted, faults>>
    BY <1>2 DEF LoseMemory, Restart, disk
  <2>2. Whole /\ PlacesInv /\ ScanInv
    BY <2>1 DEF SurviveInv, Clean
  <2>3. SafePlaces \subseteq SafePlaces' /\ 0 \in SafePlaces
    BY <2>1, <2>2, PlacesStay, StartSafe DEF PlacesInv
  <2>4. Whole'
    BY <2>1, <2>2 DEF Whole, WholeAt, RecordAt
  <2>5. CASE LoseMemory
    <3>1. PlacesInv'
      BY <2>1, <2>2, <2>3, <2>5 DEF LoseMemory, PlacesInv
    <3>2. ScanInv'
      BY <2>1, <2>5, WalCell DEF LoseMemory, ScanInv, Scanning
    <3> QED BY <2>4, <3>1, <3>2
  <2>6. CASE Restart
    <3>3. /\ UNCHANGED <<ckpt, cPos, clPos, rPc, rPos, rItem>>
          /\ sentPos' = ckpt /\ rStart' = ckpt
      BY <2>1, <2>6 DEF Restart, ckpter, closer
    <3>4. SendPlaces \subseteq SendPlaces'
      BY <2>1, <3>3, PlacesStay
    <3>1. PlacesInv'
      BY <2>2, <2>3, <3>3, <3>4 DEF PlacesInv
    <3>2. ScanInv'
      BY <2>1, <2>2, <2>6 DEF Restart, ScanInv, Scanning
    <3> QED BY <2>4, <3>1, <3>2
  <2> QED BY <1>2, <2>5, <2>6
<1> QED BY <1>1, <1>2 DEF Process, Exit, Crash

LEMMA SurviveNext == TypeOK /\ SurviveInv /\ [Next]_vars => SurviveInv'
<1> SUFFICES ASSUME TypeOK, SurviveInv, [Next]_vars PROVE SurviveInv'
  OBVIOUS
<1>1. CASE Write
  <2>1. CASE WriteTorn
    BY <2>1, Unclean, FaultLemma DEF WriteTorn
  <2>2. CASE WriteRejected
    BY <2>2, SurviveRests DEF WriteRejected, disk, fields, ckpter, closer, Clean
  <2> QED BY <1>1, <2>1, <2>2, SurviveWrite DEF Write
<1>2. CASE Reader
  BY <1>2, SurviveMoves, SurviveLine, SurviveEof, SurviveSend DEF Reader
<1>3. CASE Take
  BY <1>3, SurviveRests DEF Take, disk, fields, ckpter, closer, Clean
<1>4. CASE Checkpointer \/ Closer
  BY <1>4, SurviveSaves
<1>5. CASE Process
  BY <1>5, SurviveProcess
<1>6. CASE UNCHANGED vars
  BY <1>6, SurviveRests DEF vars, disk, fields, ckpter, closer, history, Clean
<1> QED BY <1>1, <1>2, <1>3, <1>4, <1>5, <1>6 DEF Next

\* A point Write accepted and the reader has not fed is on the WAL, whole, at or
\* after the checkpoint the next process starts from (diskqueue.go:36), after any
\* number of crashes and shutdowns, in the middle of a save or not, with records
\* of any length and a scanner's buffer of any size: as long as no compaction has
\* rewritten the file and no call has failed.
THEOREM UnfedSurvives == Spec => []UnfedSurvivesCrash
<1>1. Init => SurviveInv
  <2> SUFFICES ASSUME Init PROVE Whole /\ PlacesInv /\ ScanInv
    BY DEF SurviveInv
  <2>1. Len(wal) = 0 /\ AcceptedIds = {}
    BY EmptySeq DEF Init, AcceptedIds
  <2>2. Whole /\ ScanInv
    BY <2>1 DEF Whole, ScanInv, Scanning, Init
  <2>3. 0 \in SafePlaces
    BY <2>1 DEF SafePlaces, Ahead, Unfed
  <2> QED BY <2>2, <2>3 DEF PlacesInv, Init
<1>2. TypeOK /\ SurviveInv => UnfedSurvivesCrash
  <2> SUFFICES ASSUME TypeOK, SurviveInv, Clean, NEW id \in Unfed
               PROVE  OnWalFrom(id, ckpt)
    BY DEF UnfedSurvivesCrash, Clean, Unfed
  <2>1. PICK k \in ckpt..Len(wal) : RecordAt(id, k)
    BY DEF SurviveInv, PlacesInv, SafePlaces, Ahead, OnWal
  <2>t. /\ id \in Ids /\ ckpt \in Nat /\ k \in Nat /\ wal \in Seq(Cell)
        /\ Cells(id) \in Seq(Cell) /\ Len(Cells(id)) = RecLen[id] /\ RecLen[id] \in Nat
        /\ \A i \in 1..RecLen[id] : Cells(id)[i] = [id |-> id, part |-> i]
    <3>1. id \in Ids /\ wal \in Seq(Cell) /\ ckpt \in Nat
      BY WalCell DEF Unfed, TypeOK, DiskTypeOK
    <3> QED BY <2>1, <3>1, CellsLemma, WalCell
  <2>2. PICK b \in Nat : b = k + RecLen[id] /\ b <= Len(wal)
    BY <2>1, <2>t DEF RecordAt
  <2>3. PICK s \in Seq(Cell) : s = SubSeq(wal, k + 1, b)
    BY <2>t, <2>2, FillLemma
  <2>4. Len(s) = RecLen[id] /\ \A i \in 1..RecLen[id] : s[i] = wal[k + i]
    <3>1. /\ Len(s) = IF k < b THEN b - k ELSE 0
          /\ \A i \in 1..(b - k) : s[i] = wal[k + i]
      <4>1. /\ Len(SubSeq(wal, k + 1, b)) = IF k < b THEN b - k ELSE 0
            /\ \A i \in 1..(b - k) : SubSeq(wal, k + 1, b)[i] = wal[k + i]
        <5>1. wal \in Seq(Cell) /\ k \in Nat /\ b \in Nat /\ b <= Len(wal)
          BY <2>t, <2>2
        <5> QED BY <5>1, FillLemma, Zenon
      <4> QED BY <2>3, <4>1, Zenon
    <3>2. b - k = RecLen[id]
      BY <2>t, <2>2
    <3> QED BY <2>t, <2>2, <3>1, <3>2
  <2>5. s = Cells(id)
    <3>1. ASSUME NEW i \in 1..Len(s) PROVE s[i] = Cells(id)[i]
      <4>1. i \in 1..RecLen[id] /\ s[i] = wal[k + i]
        BY <2>4
      <4>2. wal[k + i] = [id |-> id, part |-> i]
        BY <2>1, <4>1 DEF RecordAt
      <4> QED BY <2>t, <4>1, <4>2
    <3> QED BY <2>t, <2>4, <3>1, SeqEqual
  <2> QED BY <2>1, <2>2, <2>3, <2>5 DEF OnWalFrom
<1> QED BY <1>1, <1>2, SurviveNext, TypeCorrect, PTL DEF Spec
=============================================================================
