----------------------------- MODULE DiskQueue -----------------------------
(***************************************************************************)
(* The WatchNode agent's WAL-backed queue of data points                   *)
(* (WatchNode/internal/queue/diskqueue.go).                                *)
(*                                                                         *)
(* Four processes share one DiskQueue: the collectors' fan-in calls Write, *)
(* runReader feeds the WAL into outCh, runCheckpointer saves the reader's  *)
(* position and compacts the file, and Agent.Stop calls Close.  The stream *)
(* sender takes points out of outCh.  A process crash keeps the two files  *)
(* and loses everything else.                                              *)
(*                                                                         *)
(* Bytes are abstracted to cells: record id occupies RecLen[id] cells, the *)
(* last of which is its newline.  A line of the file parses as JSON exactly*)
(* when it is one whole record: glued fragments do not parse.  One write() *)
(* is atomic to a reader of the file, and the kernel does not crash (the   *)
(* code never calls fsync, so a power failure is not modelled).            *)
(***************************************************************************)
EXTENDS Integers, Sequences, FiniteSets

CONSTANTS
    MaxRecords,   \* bound: points ever offered to Write
    RecLen,       \* RecLen[id]: cells of record id, newline included
    MaxBytes,     \* q.maxBytes
    OutCap,       \* cap(q.outCh), 2048 in the code
    ScanBuf,      \* the scanner's buffer, 4 MiB in the code
    CompactPct,   \* 80 in the code
    MaxRestarts,  \* bound: process restarts
    MaxFaults     \* bound: failing system calls

Ids == 1..MaxRecords

ASSUME BoundsAssumption ==
    /\ MaxRecords \in Nat \ {0}
    /\ MaxRestarts \in Nat
    /\ MaxFaults \in Nat

\* A record has at least one byte of JSON before its newline.
ASSUME RecordAssumption == RecLen \in [Ids -> Nat \ {0, 1}]

ASSUME QueueAssumption ==
    /\ MaxBytes \in Nat \ {0}
    /\ OutCap \in Nat \ {0}
    /\ ScanBuf \in Nat \ {0}
    /\ CompactPct \in 1..100

VARIABLES
    \* the disk
    wal,        \* watchnode-queue.wal, a sequence of cells
    ckpt,       \* watchnode-queue.ckpt as loadCheckpoint would read it
    \* fields of DiskQueue
    walOpen,    \* q.walFile is a usable handle on the current WAL
    writePos, sentPos, ackPos,
    outCh,
    \* locals of runReader
    rPc, rStart, rPos,
    rOff,       \* offset of the read handle
    rBuf,       \* bytes the scanner has read and not yet tokenised
    rEof,       \* the scanner has returned the unterminated last line
    rItem,      \* the point the reader is about to send
    rOnOld,     \* its handle is on a WAL that a rename has replaced
    old,        \* the content of that replaced file
    \* locals of runCheckpointer and tryCompact
    cPc,
    cPos,       \* the position being saved
    cAck, cWrite,
    cTmp,       \* the temporary file compaction fills
    cFinal,     \* in the last save, after ctx.Done
    \* locals of Close
    clPc, clPos,
    \* the agent process
    up,
    \* history
    nextId,     \* id of the next point offered to Write
    accepted,   \* ids for which Write returned nil, in order
    sent,       \* ids put into outCh by this run of the process, in order
    fed,        \* ids ever put into outCh
    taken,      \* ids ever received by the stream sender
    compacted,  \* a compaction has rewritten the WAL
    restarts, faults

disk    == <<wal, ckpt>>
fields  == <<walOpen, writePos, sentPos, ackPos, outCh>>
reader  == <<rPc, rStart, rPos, rOff, rBuf, rEof, rItem, rOnOld, old>>
ckpter  == <<cPc, cPos, cAck, cWrite, cTmp, cFinal>>
closer  == <<clPc, clPos>>
history == <<nextId, accepted, sent, fed, taken, compacted, restarts, faults>>
vars    == <<disk, fields, reader, ckpter, closer, up, history>>

Cell == {c \in [id : Ids, part : Nat \ {0}] : c.part <= RecLen[c.id]}

\* The bytes Write appends for record id; the last one is the newline.
Cells(id) == [i \in 1..RecLen[id] |-> [id |-> id, part |-> i]]
IsNewline(c) == c.part = RecLen[c.id]

\* The first n cells of a sequence, and what is left after them.
Prefix(s, n) == SubSeq(s, 1, n)
After(s, n)  == SubSeq(s, n + 1, Len(s))

\* json.Unmarshal accepts a line exactly when it is the whole of one record.
Parses(line, id) == line = Prefix(Cells(id), RecLen[id] - 1)

ReaderFile == IF rOnOld THEN old ELSE wal

\* There is no complete line among the bytes the scanner holds.
NoLine(s) == \A i \in 1..Len(s) : ~IsNewline(s[i])

Init ==
    /\ wal = <<>> /\ ckpt = 0
    /\ walOpen = TRUE /\ writePos = 0 /\ sentPos = 0 /\ ackPos = 0
    /\ outCh = <<>>
    /\ rPc = "open" /\ rStart = 0 /\ rPos = 0 /\ rOff = 0 /\ rBuf = <<>>
    /\ rEof = FALSE /\ rItem = 0 /\ rOnOld = FALSE /\ old = <<>>
    /\ cPc = "idle" /\ cPos = 0 /\ cAck = 0 /\ cWrite = 0 /\ cTmp = <<>>
    /\ cFinal = FALSE
    /\ clPc = "run" /\ clPos = 0
    /\ up = "up"
    /\ nextId = 1 /\ accepted = <<>> /\ sent = <<>> /\ fed = {} /\ taken = {}
    /\ compacted = FALSE /\ restarts = 0 /\ faults = 0

Fault == faults < MaxFaults /\ faults' = faults + 1

-----------------------------------------------------------------------------
(* Write: called by the fan-in goroutines, which Stop waits for only after *)
(* it has called Close.                                                    *)

Offer == up # "down" /\ nextId <= MaxRecords

Full == writePos >= MaxBytes

WriteOk ==
    /\ Offer /\ walOpen /\ ~Full
    /\ wal' = wal \o Cells(nextId)
    /\ writePos' = writePos + RecLen[nextId]
    /\ accepted' = Append(accepted, nextId)
    /\ nextId' = nextId + 1
    /\ UNCHANGED <<ckpt, walOpen, sentPos, ackPos, outCh, reader, ckpter,
                   closer, up, sent, fed, taken, compacted, restarts, faults>>

\* The size limit, or a handle a failed compaction left closed: an error and
\* nothing written.
WriteRejected ==
    /\ Offer /\ (Full \/ ~walOpen)
    /\ nextId' = nextId + 1
    /\ UNCHANGED <<disk, fields, reader, ckpter, closer, up, accepted, sent,
                   fed, taken, compacted, restarts, faults>>

\* The disk fills up in mid-record: write() stores n of the bytes and the
\* caller gets an error, but writePos advances over the fragment.
WriteTorn ==
    /\ Offer /\ walOpen /\ ~Full /\ Fault
    /\ \E n \in 1..(RecLen[nextId] - 1) :
         /\ wal' = wal \o Prefix(Cells(nextId), n)
         /\ writePos' = writePos + n
    /\ nextId' = nextId + 1
    /\ UNCHANGED <<ckpt, walOpen, sentPos, ackPos, outCh, reader, ckpter,
                   closer, up, accepted, sent, fed, taken, compacted,
                   restarts>>

-----------------------------------------------------------------------------
(* runReader                                                               *)

Alive == up # "down"

\* os.Open, Seek(startPos), a new scanner.
ROpen ==
    /\ Alive /\ rPc = "open"
    /\ rPc' = "scan" /\ rPos' = rStart /\ rOff' = rStart /\ rBuf' = <<>>
    /\ rEof' = FALSE
    /\ UNCHANGED <<disk, fields, rStart, rItem, rOnOld, old, ckpter, closer,
                   up, history>>

\* Scan needs more bytes: it reads what is there, up to the buffer's size.
RFill ==
    /\ Alive /\ rPc = "scan" /\ ~rEof /\ NoLine(rBuf)
    /\ rOff < Len(ReaderFile) /\ Len(rBuf) < ScanBuf
    /\ LET room == ScanBuf - Len(rBuf)
           end  == IF Len(ReaderFile) - rOff <= room
                     THEN Len(ReaderFile) ELSE rOff + room
       IN  /\ rBuf' = rBuf \o SubSeq(ReaderFile, rOff + 1, end)
           /\ rOff' = end
    /\ UNCHANGED <<disk, fields, rPc, rStart, rPos, rEof, rItem, rOnOld, old,
                   ckpter, closer, up, history>>

\* The loop body once Scan has returned the first `len' bytes as a line: pos
\* moves past the line and its newline; a line that does not parse is skipped.
GotLine(len) ==
    /\ rPos' = rPos + len + 1
    /\ \/ \E id \in Ids :
            /\ Parses(Prefix(rBuf, len), id)
            /\ rItem' = id /\ rPc' = "send"
       \/ /\ \A id \in Ids : ~Parses(Prefix(rBuf, len), id)
          /\ UNCHANGED <<rItem, rPc>>

RLine ==
    /\ Alive /\ rPc = "scan"
    /\ \E n \in 1..Len(rBuf) :
         /\ IsNewline(rBuf[n]) /\ NoLine(Prefix(rBuf, n - 1))
         /\ GotLine(n - 1)
         /\ rBuf' = After(rBuf, n)
    /\ UNCHANGED <<disk, fields, rStart, rOff, rEof, rOnOld, old, ckpter,
                   closer, up, history>>

\* At end of file the scanner returns an unterminated last line as a token and
\* will not read again; pos counts a newline that is not there.
REofToken ==
    /\ Alive /\ rPc = "scan" /\ rBuf # <<>> /\ NoLine(rBuf)
    /\ rOff >= Len(ReaderFile) /\ Len(rBuf) < ScanBuf
    /\ GotLine(Len(rBuf))
    /\ rBuf' = <<>> /\ rEof' = TRUE
    /\ UNCHANGED <<disk, fields, rStart, rOff, rOnOld, old, ckpter, closer, up,
                   history>>

\* Scan returns false: end of file, or ErrTooLong when a line fills the
\* buffer.  The code treats both as "caught up" and closes the handle.
RCaughtUp ==
    /\ Alive /\ rPc = "scan"
    /\ \/ rBuf = <<>> /\ (rEof \/ rOff >= Len(ReaderFile))
       \/ NoLine(rBuf) /\ Len(rBuf) >= ScanBuf
    /\ rPc' = "wait" /\ rBuf' = <<>> /\ rOnOld' = FALSE /\ old' = <<>>
    /\ UNCHANGED <<disk, fields, rStart, rPos, rOff, rEof, rItem, ckpter,
                   closer, up, history>>

\* q.outCh <- dp
RSend ==
    /\ Alive /\ rPc = "send" /\ Len(outCh) < OutCap
    /\ outCh' = Append(outCh, rItem)
    /\ sent' = Append(sent, rItem) /\ fed' = fed \cup {rItem}
    /\ rPc' = "mark"
    /\ UNCHANGED <<disk, walOpen, writePos, sentPos, ackPos, rStart, rPos,
                   rOff, rBuf, rEof, rItem, rOnOld, old, ckpter, closer, up,
                   nextId, accepted, taken, compacted, restarts, faults>>

\* A mutant: mark how far the file was read, not how far it was fed.
RMarkReadAhead ==
    /\ Alive /\ rPc = "mark"
    /\ sentPos' = rOff
    /\ rPc' = "scan"
    /\ UNCHANGED <<disk, walOpen, writePos, ackPos, outCh, rStart, rPos, rOff,
                   rBuf, rEof, rItem, rOnOld, old, ckpter, closer, up,
                   history>>

\* q.sentPos = pos, under the lock, after the send.
RMark ==
    /\ Alive /\ rPc = "mark"
    /\ sentPos' = rPos
    /\ rPc' = "scan"
    /\ UNCHANGED <<disk, walOpen, writePos, ackPos, outCh, rStart, rPos, rOff,
                   rBuf, rEof, rItem, rOnOld, old, ckpter, closer, up,
                   history>>

\* Scan the file again from pos.
ResumeAt(pos) ==
    /\ Alive /\ rPc = "wait"
    /\ rStart' = pos /\ rPc' = "open"
    /\ UNCHANGED <<disk, fields, rPos, rOff, rBuf, rEof, rItem, rOnOld, old,
                   ckpter, closer, up, history>>

\* Mutants: from the acknowledged position, or from the end of the file.
RWaitAtAck == ResumeAt(ackPos)
RWaitAtEnd == ResumeAt(writePos)

\* notifyCh or the two-second timer: scan again from pos.
RWait == ResumeAt(rPos)

\* <-ctx.Done() in either select.
RStop ==
    /\ up = "stopping" /\ rPc \in {"send", "wait"}
    /\ rPc' = "done"
    /\ UNCHANGED <<disk, fields, rStart, rPos, rOff, rBuf, rEof, rItem, rOnOld,
                   old, ckpter, closer, up, history>>

\* The stream sender receives from Output().
Take ==
    /\ Alive /\ outCh # <<>>
    /\ taken' = taken \cup {Head(outCh)}
    /\ outCh' = Tail(outCh)
    /\ UNCHANGED <<disk, walOpen, writePos, sentPos, ackPos, reader, ckpter,
                   closer, up, nextId, accepted, sent, fed, compacted,
                   restarts, faults>>

-----------------------------------------------------------------------------
(* runCheckpointer and saveCheckpoint                                      *)

\* <-ticker.C or <-ctx.Done(): read sentPos under the lock.  The tick saves
\* only a position that differs from ackPos; the last save is unconditional.
CTick ==
    /\ Alive /\ cPc = "idle"
    /\ \/ cFinal' = FALSE
       \/ up = "stopping" /\ cFinal' = TRUE
    /\ cPos' = sentPos
    /\ cPc' = IF cFinal' \/ sentPos # ackPos THEN "save" ELSE "compact"
    /\ UNCHANGED <<disk, fields, reader, cAck, cWrite, cTmp, closer, up,
                   history>>

\* os.WriteFile truncates the file first: an empty checkpoint loads as 0.
CSaveOpen ==
    /\ Alive /\ cPc = "save"
    /\ ckpt' = 0 /\ cPc' = "save2"
    /\ UNCHANGED <<wal, fields, reader, cPos, cAck, cWrite, cTmp, cFinal,
                   closer, up, history>>

CSaveWrite ==
    /\ Alive /\ cPc = "save2"
    /\ ckpt' = cPos
    /\ cPc' = IF cFinal THEN "compact" ELSE "ack"
    /\ UNCHANGED <<wal, fields, reader, cPos, cAck, cWrite, cTmp, cFinal,
                   closer, up, history>>

\* Either call fails; ackPos stays and tryCompact still runs.
CSaveFails ==
    /\ Alive /\ cPc \in {"save", "save2"} /\ Fault
    /\ cPc' = "compact"
    /\ UNCHANGED <<disk, fields, reader, cPos, cAck, cWrite, cTmp, cFinal,
                   closer, up, nextId, accepted, sent, fed, taken, compacted,
                   restarts>>

CAck ==
    /\ Alive /\ cPc = "ack"
    /\ ackPos' = cPos /\ cPc' = "compact"
    /\ UNCHANGED <<disk, walOpen, writePos, sentPos, outCh, reader, cPos, cAck,
                   cWrite, cTmp, cFinal, closer, up, history>>

-----------------------------------------------------------------------------
(* tryCompact                                                              *)

CIdle == IF cFinal THEN "done" ELSE "idle"

\* Read the two positions under the lock, release it, and decide.
CCompact ==
    /\ Alive /\ cPc = "compact"
    /\ cAck' = ackPos /\ cWrite' = writePos
    /\ cPc' = IF \/ writePos = 0 \/ ackPos = 0
                 \/ 100 * ackPos < CompactPct * writePos
                THEN CIdle
                ELSE IF ackPos >= writePos THEN "truncate" ELSE "copy"
    /\ UNCHANGED <<disk, fields, reader, cPos, cTmp, cFinal, closer, up,
                   history>>

\* The drained case, one critical section: close, truncate, reopen, reset.
\* The reader's own startPos and pos are not touched.
CTruncate ==
    /\ Alive /\ cPc = "truncate"
    /\ writePos' = 0 /\ sentPos' = 0 /\ ackPos' = 0
    /\ cPos' = 0 /\ cPc' = "reset"
    /\ compacted' = TRUE
    /\ \/ wal' = <<>> /\ walOpen' = TRUE /\ UNCHANGED faults
       \/ Fault /\ wal' = <<>> /\ walOpen' = FALSE     \* OpenFile fails
       \/ Fault /\ wal' = wal /\ walOpen' = TRUE       \* Truncate fails
    /\ UNCHANGED <<ckpt, outCh, reader, cAck, cWrite, cTmp, cFinal, closer, up,
                   nextId, accepted, sent, fed, taken, restarts>>

\* io.Copy from ackPos to the end of the file, without the lock.
CCopy ==
    /\ Alive /\ cPc = "copy"
    /\ cTmp' = After(wal, cAck)
    /\ cPc' = "swap"
    /\ UNCHANGED <<disk, fields, reader, cPos, cAck, cWrite, cFinal, closer,
                   up, history>>

\* Opening, creating, copying or renaming the temporary file fails.
CCopyFails ==
    /\ Alive /\ cPc = "copy" /\ Fault
    /\ cPc' = CIdle
    /\ UNCHANGED <<disk, fields, reader, cPos, cAck, cWrite, cTmp, cFinal,
                   closer, up, nextId, accepted, sent, fed, taken, compacted,
                   restarts>>

\* The rename replaces the WAL; a reader that has it open keeps the old file.
Replace ==
    /\ wal' = cTmp /\ compacted' = TRUE
    /\ IF rPc \in {"scan", "send", "mark"} /\ ~rOnOld
         THEN rOnOld' = TRUE /\ old' = wal
         ELSE UNCHANGED <<rOnOld, old>>

\* A mutant: the bytes that were unsent when compaction was decided, without
\* those admitted before the copy came to them.
UnsentWhenDecided == cWrite - cAck

\* The positions as they are counted in the new file: the number of bytes the
\* copy returned, and sentPos less what the copy left out.
Copied == Len(cTmp)

Rebase(pos) == IF pos < cAck THEN 0 ELSE pos - cAck

\* The second critical section: close, rename over the WAL, reopen, rebase.
CSwap ==
    /\ Alive /\ cPc = "swap"
    /\ Replace
    /\ walOpen' = TRUE
    /\ writePos' = Copied
    /\ sentPos' = Rebase(sentPos)
    /\ ackPos' = 0
    /\ cPos' = 0 /\ cTmp' = <<>> /\ cPc' = "reset"
    /\ UNCHANGED <<ckpt, outCh, rPc, rStart, rPos, rOff, rBuf, rEof, rItem,
                   cAck, cWrite, cFinal, closer, up, nextId, accepted, sent,
                   fed, taken, restarts, faults>>

\* The rename, or the reopen after it, fails: an early return that leaves
\* q.walFile closed and every position as it was.
CSwapFails ==
    /\ Alive /\ cPc = "swap" /\ Fault
    /\ \/ UNCHANGED <<wal, rOnOld, old, compacted>>
       \/ Replace
    /\ walOpen' = FALSE
    /\ cTmp' = <<>> /\ cPc' = CIdle
    /\ UNCHANGED <<ckpt, writePos, sentPos, ackPos, outCh, rPc, rStart, rPos,
                   rOff, rBuf, rEof, rItem, cPos, cAck, cWrite, cFinal, closer,
                   up, nextId, accepted, sent, fed, taken, restarts>>

\* saveCheckpoint(0): both halves of the write leave a file that loads as 0.
CReset ==
    /\ Alive /\ cPc = "reset"
    /\ ckpt' = 0 /\ cPc' = CIdle
    /\ UNCHANGED <<wal, fields, reader, cPos, cAck, cWrite, cTmp, cFinal,
                   closer, up, history>>

CResetFails ==
    /\ Alive /\ cPc = "reset" /\ Fault
    /\ cPc' = CIdle
    /\ UNCHANGED <<disk, fields, reader, cPos, cAck, cWrite, cTmp, cFinal,
                   closer, up, nextId, accepted, sent, fed, taken, compacted,
                   restarts>>

-----------------------------------------------------------------------------
(* Agent.Stop, Close, and the process                                      *)

\* cancel(): the context the queue's goroutines watch.
Stop ==
    /\ up = "up"
    /\ up' = "stopping"
    /\ UNCHANGED <<disk, fields, reader, ckpter, closer, history>>

\* Close reads sentPos under the lock; Stop does not wait for the reader or
\* the checkpointer, which are not in its WaitGroup.
CloseBegin ==
    /\ up = "stopping" /\ clPc = "run"
    /\ clPos' = sentPos /\ clPc' = "save"
    /\ UNCHANGED <<disk, fields, reader, ckpter, up, history>>

CloseSaveOpen ==
    /\ up = "stopping" /\ clPc = "save"
    /\ ckpt' = 0 /\ clPc' = "save2"
    /\ UNCHANGED <<wal, fields, reader, ckpter, clPos, up, history>>

CloseSaveWrite ==
    /\ up = "stopping" /\ clPc = "save2"
    /\ ckpt' = clPos /\ clPc' = "close"
    /\ UNCHANGED <<wal, fields, reader, ckpter, clPos, up, history>>

CloseWal ==
    /\ up = "stopping" /\ clPc = "close"
    /\ walOpen' = FALSE /\ clPc' = "closed"
    /\ UNCHANGED <<disk, writePos, sentPos, ackPos, outCh, reader, ckpter,
                   clPos, up, history>>

\* What a process exit takes away, whatever its goroutines were doing.
LoseMemory ==
    /\ up' = "down"
    /\ walOpen' = FALSE /\ outCh' = <<>> /\ sent' = <<>>
    /\ rPc' = "open" /\ rBuf' = <<>> /\ rEof' = FALSE /\ rItem' = 0
    /\ rOnOld' = FALSE /\ old' = <<>> /\ rPos' = 0 /\ rOff' = 0 /\ rStart' = 0
    /\ cPc' = "idle" /\ cPos' = 0 /\ cAck' = 0 /\ cWrite' = 0 /\ cTmp' = <<>>
    /\ cFinal' = FALSE
    /\ clPc' = "run" /\ clPos' = 0
    /\ writePos' = 0 /\ sentPos' = 0 /\ ackPos' = 0
    /\ UNCHANGED <<disk, nextId, accepted, fed, taken, compacted, restarts,
                   faults>>

\* main returns once Stop has; the queue's goroutines die where they are.
Exit == up = "stopping" /\ clPc = "closed" /\ LoseMemory

Crash == Alive /\ LoseMemory

\* NewDiskQueue and Start: the WAL is opened at its end, the reader begins at
\* the checkpoint.
Restart ==
    /\ up = "down" /\ restarts < MaxRestarts
    /\ restarts' = restarts + 1
    /\ up' = "up"
    /\ walOpen' = TRUE /\ writePos' = Len(wal)
    /\ ackPos' = ckpt /\ sentPos' = ckpt /\ rStart' = ckpt
    /\ UNCHANGED <<disk, outCh, rPc, rPos, rOff, rBuf, rEof, rItem, rOnOld,
                   old, ckpter, closer, nextId, accepted, sent, fed, taken,
                   compacted, faults>>

-----------------------------------------------------------------------------
Write == WriteOk \/ WriteRejected \/ WriteTorn

Reader == \/ ROpen \/ RFill \/ RLine \/ REofToken \/ RCaughtUp
          \/ RSend \/ RMark \/ RWait \/ RStop

Checkpointer == \/ CTick \/ CSaveOpen \/ CSaveWrite \/ CSaveFails \/ CAck
                \/ CCompact \/ CTruncate \/ CCopy \/ CCopyFails
                \/ CSwap \/ CSwapFails \/ CReset \/ CResetFails

Closer == CloseBegin \/ CloseSaveOpen \/ CloseSaveWrite \/ CloseWal

Process == Stop \/ Exit \/ Crash \/ Restart

Next == Write \/ Reader \/ Take \/ Checkpointer \/ Closer \/ Process

Spec == Init /\ [][Next]_vars

\* The same, as long as no compaction has rewritten the WAL.
SpecUntilCompaction == Init /\ [][Next /\ ~compacted']_vars

\* The reader goroutine is scheduled and its timers expire, and the stream
\* sender keeps receiving while the process runs.
LiveSpec == SpecUntilCompaction /\ WF_vars(Reader) /\ WF_vars(Take)

-----------------------------------------------------------------------------
(* Properties                                                              *)

ReaderPcs == {"open", "scan", "send", "mark", "wait", "done"}
CkpterPcs == {"idle", "save", "save2", "ack", "compact", "truncate", "copy",
              "swap", "reset", "done"}
CloserPcs == {"run", "save", "save2", "close", "closed"}

DiskTypeOK == wal \in Seq(Cell) /\ ckpt \in Nat

FieldsTypeOK ==
    /\ walOpen \in BOOLEAN
    /\ writePos \in Nat /\ sentPos \in Nat /\ ackPos \in Nat
    /\ outCh \in Seq(Ids)

ReaderTypeOK ==
    /\ rPc \in ReaderPcs /\ rStart \in Nat /\ rPos \in Nat /\ rOff \in Nat
    /\ rBuf \in Seq(Cell) /\ rEof \in BOOLEAN /\ rItem \in Ids \cup {0}
    /\ rPc \in {"send", "mark"} => rItem \in Ids
    /\ rOnOld \in BOOLEAN /\ old \in Seq(Cell)

CkpterTypeOK ==
    /\ cPc \in CkpterPcs /\ cPos \in Nat /\ cAck \in Nat /\ cWrite \in Nat
    /\ cTmp \in Seq(Cell) /\ cFinal \in BOOLEAN

CloserTypeOK == clPc \in CloserPcs /\ clPos \in Nat

HistoryTypeOK ==
    /\ nextId \in 1..(MaxRecords + 1)
    /\ accepted \in Seq(Ids) /\ sent \in Seq(Ids)
    /\ fed \subseteq Ids /\ taken \subseteq Ids
    /\ compacted \in BOOLEAN
    /\ restarts \in 0..MaxRestarts /\ faults \in 0..MaxFaults

\* Every variable of the queue, its goroutines and the history has its type.
TypeOK ==
    /\ DiskTypeOK /\ FieldsTypeOK /\ ReaderTypeOK /\ CkpterTypeOK
    /\ CloserTypeOK /\ HistoryTypeOK
    /\ up \in {"up", "stopping", "down"}

\* Write's limit test and compaction's arithmetic use writePos in place of the
\* file's size.  While the WAL handle is usable writePos is never beyond the
\* end of the file, and it is exactly the end unless a system call has failed,
\* whatever order Write, the two compactions and a restart come in.
WritePosIsFileEnd ==
    up # "down" =>
        /\ walOpen => writePos <= Len(wal)
        /\ faults = 0 => writePos = Len(wal)

\* What was last acknowledged is never ahead of what was fed, and what was fed
\* is never ahead of the reader: compaction, which rebases sentPos and ackPos
\* behind the reader's back, may leave the reader ahead but never behind.
AckBehindSentBehindReader ==
    up # "down" =>
        /\ ackPos <= sentPos
        /\ sentPos <= IF rPc = "open" THEN rStart ELSE rPos

\* The WAL outgrows its limit by less than one record, also after a compaction
\* has copied what Write added since the compaction was decided: were writePos
\* not what the copy returned, Write would admit records beyond the limit.
WalWithinLimit ==
    faults = 0 =>
        (wal = <<>> \/ \E id \in Ids : Len(wal) < MaxBytes + RecLen[id])

\* One run of the process feeds points in the order they were written and
\* none of them twice: not after a compaction moved the file under the reader,
\* not from the unlinked file it may still be reading.
FedInOrderOnce ==
    \A i, j \in 1..Len(sent) : i < j => sent[i] < sent[j]

\* A point whose record is whole on the WAL at or after position p.
OnWalFrom(id, p) ==
    \E k \in p..Len(wal) :
        /\ k + RecLen[id] <= Len(wal)
        /\ SubSeq(wal, k + 1, k + RecLen[id]) = Cells(id)

AcceptedIds == {accepted[i] : i \in 1..Len(accepted)}

\* A point Write accepted and the reader has not fed is found by the next
\* process after any crash, as long as no compaction has run and no system
\* call failed, even if the crash came in the middle of saving a checkpoint.
UnfedSurvivesCrash ==
    (up = "down" /\ ~compacted /\ faults = 0) =>
        \A id \in AcceptedIds \ fed : OnWalFrom(id, ckpt)

\* Until a compaction runs, DiskQueue implements OrderedFeed: the cursor is
\* the number of whole records behind the point fed last by this run, or
\* behind the position it starts from.  Crashes, restarts, half-saved
\* checkpoints and both shutdown saves are included.
Newlines(p) == Cardinality({k \in 1..Len(wal) : k <= p /\ IsNewline(wal[k])})

Cursor == CASE up = "down" -> Newlines(ckpt)
            [] up # "down" /\ sent = <<>> -> Newlines(rStart)
            [] OTHER -> Cardinality({i \in 1..Len(accepted) :
                                        accepted[i] <= sent[Len(sent)]})

Feed == INSTANCE OrderedFeed WITH
            Point <- Ids, NoPoint <- 0, log <- accepted, cursor <- Cursor,
            last <- IF sent = <<>> THEN 0 ELSE sent[Len(sent)]

FeedSpec == Feed!Spec

\* As long as no compaction runs, an accepted point is in the end fed, unless
\* the process ends, a system call fails, or a record before it exceeds the
\* scanner's buffer.
FedUnlessStopped ==
    \A id \in Ids :
        id \in AcceptedIds ~>
            \/ id \in fed
            \/ up # "up" \/ faults > 0
            \/ \E r \in 1..id : RecLen[r] > ScanBuf

-----------------------------------------------------------------------------
(* What the type's comment promises, and the code does not keep            *)

\* diskqueue.go:36: "Unacknowledged (unsent) points survive agent crashes and
\* reconnects, providing at-least-once delivery semantics": after a crash and
\* no compaction, a point the stream sender never received is still unread on
\* the WAL.
UnsentSurvivesCrash ==
    (up = "down" /\ ~compacted /\ faults = 0) =>
        \A id \in AcceptedIds \ taken : OnWalFrom(id, ckpt)

\* diskqueue.go:254, "If fully drained, just truncate": compaction discards
\* only points that have been fed.
CompactionKeepsUnfed ==
    [][ wal' # wal /\ compacted' /\ faults' = 0
          => \A id \in Ids :
                OnWalFrom(id, 0) /\ ~OnWalFrom(id, 0)' => id \in fed ]_vars
=============================================================================
