-------------------------------- MODULE WAL ---------------------------------
(***************************************************************************)
(* SegmentedWALManager of internal/storage/transactions.go.                *)
(*                                                                         *)
(* Callers of WriteSync hand a record to writeChan and wait for a token on *)
(* ackChan or for five seconds.  One writer goroutine batches the records, *)
(* appends them to the current segment file through a bufio.Writer, and    *)
(* after each flush puts one token per record on ackChan.  A token names   *)
(* no record.  A record is the number of its acceptance by writeChan.      *)
(***************************************************************************)
EXTENDS Naturals, Sequences, FiniteSets, SequencesExt

CONSTANTS
    Callers,      \* goroutines that call WriteSync
    MaxRecords,   \* bound: records ever accepted
    MaxCrashes,   \* bound: crashes of the process
    ChanCap,      \* capacity of writeChan (10000 in the code)
    AckCap,       \* capacity of ackChan (10000 in the code)
    BatchSize,    \* batchSize (100 in the code)
    SegmentSize,  \* WALSegmentSize, in records instead of bytes
    Env           \* what the environment does in this model

ASSUME SizesAssumption ==
    /\ MaxRecords \in Nat /\ MaxCrashes \in Nat
    /\ ChanCap \in Nat \ {0} /\ AckCap \in Nat \ {0}
    /\ BatchSize \in Nat \ {0} /\ SegmentSize \in Nat \ {0}

ASSUME EnvAssumption == Env \subseteq {"timeout", "disk", "crash", "close"}

Torn == 0              \* a partly written record at the end of a segment
Records == 1..MaxRecords
Entries == Records \cup {Torn}

VARIABLES
    pc,           \* Callers -> where its WriteSync is
    rec,          \* Callers -> the record it waits for
    sent,         \* number of records accepted by writeChan
    writeChan,
    acks,         \* number of tokens in ackChan
    wpc,          \* where writerLoop/flushBatch is
    batch,
    pos,          \* records of batch written, or acknowledged in phase "ack"
    exiting,      \* the flush under way is the one of case <-wm.stopCh
    segs,         \* the segment files, by ID; the last one is currentSegment
    buf,          \* records in the bufio.Writer of currentSegment
    broken,       \* that bufio.Writer holds a write error (it is sticky)
    proc,         \* life of the manager
    crashes

(***************************************************************************)
(* History: nothing in the code reads these.                               *)
(***************************************************************************)
VARIABLES
    acked,        \* records whose WriteSync returned nil
    unanswered,   \* records whose WriteSync timed out or died with the process
    flushed,      \* number of records whose flushBatch reached its end
    lost,         \* records only in memory when the process ended, or overwritten
    diskFailed    \* a write or an open has failed

callerVars == <<pc, rec>>
writerVars == <<wpc, batch, pos, exiting>>
diskVars == <<segs, buf, broken, diskFailed>>
history == <<acked, unanswered, flushed, lost>>
vars == <<pc, rec, sent, writeChan, acks, wpc, batch, pos, exiting, segs, buf,
          broken, proc, crashes, acked, unanswered, flushed, lost, diskFailed>>

-----------------------------------------------------------------------------
Cur == Len(segs)
Size == Len(segs[Cur]) + Len(buf)
Durable == (UNION {ToSet(segs[s]) : s \in DOMAIN segs}) \ {Torn}

\* The part of the batch flushBatch has not handed to the bufio.Writer yet.
Pending == IF wpc = "ack" THEN <<>> ELSE SubSeq(batch, pos + 1, Len(batch))
ToAck == IF wpc = "ack" THEN Len(batch) - pos ELSE 0
InMemory == ToSet(buf) \cup ToSet(Pending) \cup ToSet(writeChan)

AppendToCurrent(s) == [segs EXCEPT ![Cur] = @ \o s]

-----------------------------------------------------------------------------
(* The decisions of writerLoop and flushBatch, each by its own name so that a
   slip in it can be put in its place: the definitions called ..._slip are such
   slips, used by no action. *)

BatchFull(b) == Len(b) >= BatchSize

\* case <-ticker.C: a batch that waits is flushed however short it is.
TickDue_slip == BatchFull(batch)
TickDue == batch # <<>>

\* case <-wm.stopCh: what is in batch is flushed before the loop ends.
AfterStop_slip == "exited"
AfterStop == IF batch # <<>> THEN "write" ELSE "exited"

CurrentFull == Size >= SegmentSize

\* for range batch: one token per record.
TokensDue_slip_fewer == Len(batch) - 1
TokensDue_slip_more == Len(batch) + 1
TokensDue == Len(batch)

\* select { case wm.ackChan <- 1: default: }
RoomForToken_slip == acks <= AckCap
RoomForToken == acks < AckCap

\* batch = batch[:0]
BatchAfterFlush_slip == batch
BatchAfterFlush == <<>>

\* What a write of buf that fails, or is cut short, leaves in the file.
PartialWrites ==
    {SubSeq(buf, 1, k) : k \in 0..Len(buf)}
        \cup {Append(SubSeq(buf, 1, k), Torn) : k \in 0..(Len(buf) - 1)}

\* currentSegment.Writer.Flush() of rotateSegmentInternal: its error is logged,
\* a Writer that already holds an error writes nothing.
WrittenByRotate == IF broken THEN {<<>>}
                   ELSE IF "disk" \in Env THEN PartialWrites ELSE {buf}

\* Whole records in w.
Written(w) == IF w # <<>> /\ w[Len(w)] = Torn THEN Len(w) - 1 ELSE Len(w)

Init ==
    /\ pc = [c \in Callers |-> "idle"]
    /\ rec = [c \in Callers |-> 0]
    /\ sent = 0 /\ writeChan = <<>> /\ acks = 0
    /\ wpc = "select" /\ batch = <<>> /\ pos = 0 /\ exiting = FALSE
    /\ segs = << <<>> >> /\ buf = <<>> /\ broken = FALSE
    /\ proc = "open" /\ crashes = 0
    /\ acked = {} /\ unanswered = {} /\ flushed = 0 /\ lost = {}
    /\ diskFailed = FALSE

-----------------------------------------------------------------------------
(* WriteSync *)

\* wm.writeChan <- record: blocks while the channel is full.
Send(c) ==
    /\ proc \in {"open", "stopping"}
    /\ pc[c] = "idle"
    /\ Len(writeChan) < ChanCap
    /\ sent < MaxRecords
    /\ sent' = sent + 1
    /\ writeChan' = Append(writeChan, sent + 1)
    /\ pc' = [pc EXCEPT ![c] = "waiting"]
    /\ rec' = [rec EXCEPT ![c] = sent + 1]
    /\ UNCHANGED <<acks, writerVars, diskVars, proc, crashes, history>>

\* The same send once Close has closed the channel panics.
SendPanics(c) ==
    /\ proc = "closed"
    /\ pc[c] = "idle"
    /\ pc' = [pc EXCEPT ![c] = "panicked"]
    /\ UNCHANGED <<rec, sent, writeChan, acks, writerVars, diskVars, proc, crashes, history>>

\* case <-wm.ackChan: return nil.  Any token will do.
TakeAck(c) ==
    /\ pc[c] = "waiting"
    /\ acks > 0
    /\ acks' = acks - 1
    /\ pc' = [pc EXCEPT ![c] = "idle"]
    /\ acked' = acked \cup {rec[c]}
    /\ UNCHANGED <<rec, sent, writeChan, writerVars, diskVars, proc, crashes,
                   unanswered, flushed, lost>>

\* case <-time.After(5s): the record stays where it is.
Timeout(c) ==
    /\ "timeout" \in Env
    /\ pc[c] = "waiting"
    /\ pc' = [pc EXCEPT ![c] = "idle"]
    /\ unanswered' = unanswered \cup {rec[c]}
    /\ UNCHANGED <<rec, sent, writeChan, acks, writerVars, diskVars, proc, crashes,
                   acked, flushed, lost>>

-----------------------------------------------------------------------------
(* writerLoop *)

Receive ==
    /\ proc # "down"
    /\ wpc = "select"
    /\ writeChan # <<>>
    /\ batch' = Append(batch, Head(writeChan))
    /\ writeChan' = Tail(writeChan)
    /\ wpc' = IF BatchFull(batch') THEN "write" ELSE "select"
    /\ UNCHANGED <<callerVars, sent, acks, pos, exiting, diskVars, proc, crashes, history>>

Tick ==
    /\ proc # "down"
    /\ wpc = "select"
    /\ TickDue
    /\ wpc' = "write"
    /\ UNCHANGED <<callerVars, sent, writeChan, acks, batch, pos, exiting, diskVars,
                   proc, crashes, history>>

\* case <-wm.stopCh, which select may pick while writeChan still holds records.
WriterStop ==
    /\ proc = "stopping"
    /\ wpc = "select"
    /\ exiting' = TRUE
    /\ wpc' = AfterStop
    /\ UNCHANGED <<callerVars, sent, writeChan, acks, batch, pos, diskVars, proc,
                   crashes, history>>

-----------------------------------------------------------------------------
(* flushBatch, under wm.mu from its first record to its last token *)

Flushing == proc # "down" /\ wpc = "write"
\* rotateSegmentInternal.  Flush errors of the old segment are only logged, and
\* its buffer goes with it.
Rotate ==
    /\ Flushing /\ pos < Len(batch) /\ CurrentFull
    /\ \/ /\ \E w \in WrittenByRotate :
                /\ segs' = Append(AppendToCurrent(w), <<>>)
                /\ diskFailed' = (diskFailed \/ w # buf)
          /\ buf' = <<>> /\ broken' = FALSE
          /\ UNCHANGED pos
       \/ \* os.OpenFile fails: continue, the record is skipped
          /\ "disk" \in Env
          /\ pos' = pos + 1
          /\ diskFailed' = TRUE
          /\ UNCHANGED <<segs, buf, broken>>
    /\ UNCHANGED <<callerVars, sent, writeChan, acks, wpc, batch, exiting, proc,
                   crashes, history>>

\* A Writer that holds an error refuses the record: continue.
WriteRecord ==
    /\ Flushing /\ pos < Len(batch) /\ ~CurrentFull
    /\ buf' = IF broken THEN buf ELSE Append(buf, batch[pos + 1])
    /\ pos' = pos + 1
    /\ UNCHANGED <<callerVars, sent, writeChan, acks, wpc, batch, exiting, segs,
                   broken, diskFailed, proc, crashes, history>>

\* Writer.Flush and RealFsyncWithRetry, whose errors are dropped.
FlushAndSync ==
    /\ Flushing /\ pos = Len(batch)
    /\ \/ /\ ~broken
          /\ segs' = AppendToCurrent(buf) /\ buf' = <<>>
          /\ UNCHANGED <<broken, diskFailed>>
       \/ /\ ~broken /\ "disk" \in Env
          /\ \E w \in PartialWrites :
                /\ Written(w) < Len(buf)
                /\ segs' = AppendToCurrent(w)
                /\ buf' = SubSeq(buf, Written(w) + 1, Len(buf))
          /\ broken' = TRUE /\ diskFailed' = TRUE
       \/ broken /\ UNCHANGED diskVars
    /\ flushed' = flushed + Len(batch)
    /\ pos' = 0
    /\ wpc' = "ack"
    /\ UNCHANGED <<callerVars, sent, writeChan, acks, batch, exiting, proc, crashes,
                   acked, unanswered, lost>>

\* One token per record of the batch, dropped when ackChan is full.
SendAck ==
    /\ proc # "down" /\ wpc = "ack" /\ pos < TokensDue
    /\ acks' = IF RoomForToken THEN acks + 1 ELSE acks
    /\ pos' = pos + 1
    /\ UNCHANGED <<callerVars, sent, writeChan, wpc, batch, exiting, diskVars, proc,
                   crashes, history>>

\* batch = batch[:0], and back to select or out of the loop.
EndFlush ==
    /\ proc # "down" /\ wpc = "ack" /\ pos = TokensDue
    /\ batch' = BatchAfterFlush /\ pos' = 0
    /\ wpc' = IF exiting THEN "exited" ELSE "select"
    /\ UNCHANGED <<callerVars, sent, writeChan, acks, exiting, diskVars, proc,
                   crashes, history>>

-----------------------------------------------------------------------------
(* Close, the end of the process and its next start *)

\* StopTransactionManager: Sync finds nothing in the buffer that flushBatch has left
\* there, but for an error, and Close closes stopCh.
CloseStart ==
    /\ "close" \in Env
    /\ proc = "open"
    /\ proc' = "stopping"
    /\ UNCHANGED <<callerVars, sent, writeChan, acks, writerVars, diskVars, crashes, history>>

\* wg.Wait() has returned; close(writeChan) and a last flush of the segment.
CloseEnd ==
    /\ proc = "stopping"
    /\ wpc = "exited"
    /\ proc' = "closed"
    /\ segs' = IF broken THEN segs ELSE AppendToCurrent(buf)
    /\ buf' = IF broken THEN buf ELSE <<>>
    /\ UNCHANGED <<callerVars, sent, writeChan, acks, writerVars, broken, diskFailed, crashes,
                   history>>

\* Everything in memory goes; of an unfinished write any part may be on disk.
EndProcess(w) ==
    /\ proc' = "down"
    /\ segs' = AppendToCurrent(w)
    /\ lost' = lost \cup (InMemory \ ToSet(w))
    /\ unanswered' = unanswered \cup {rec[c] : c \in {d \in Callers : pc[d] = "waiting"}}
    /\ pc' = [c \in Callers |-> "idle"]
    /\ rec' = [c \in Callers |-> 0]
    /\ writeChan' = <<>> /\ acks' = 0
    /\ wpc' = "select" /\ batch' = <<>> /\ pos' = 0 /\ exiting' = FALSE
    /\ buf' = <<>> /\ broken' = FALSE
    /\ UNCHANGED <<sent, acked, flushed, diskFailed>>

Crash ==
    /\ "crash" \in Env
    /\ proc # "down" /\ crashes < MaxCrashes
    /\ crashes' = crashes + 1
    /\ \E w \in IF wpc = "write" /\ ~broken THEN PartialWrites ELSE {<<>>} : EndProcess(w)

\* main returns after StopTransactionManager.
Exit ==
    /\ proc = "closed"
    /\ EndProcess(<<>>)
    /\ UNCHANGED crashes

(* A torn record announces more bytes than it has.  When the file has fewer left, reading
   ends there.  Else the record takes in what follows it and is skipped as unreadable, and
   reading goes on inside a later record, whose text, taken for a header, announces more
   than the 100 MB at which reading ends: nothing past a torn record is read.  Left out:
   the announced length ends at the very end of a later record. *)
TornAt(s) == {i \in DOMAIN s : s[i] = Torn}
Readable(s) ==
    IF TornAt(s) = {} THEN Len(s) ELSE (CHOOSE i \in TornAt(s) : \A j \in TornAt(s) : i <= j) - 1

\* A loaded segment is not open for appending: it is written where the reader of
\* ReadAll left the file.  That is its end, but may be short of it past a torn record.
WriteOffsets(s) == IF Readable(s) = Len(s) THEN {Len(s)} ELSE (Readable(s) + 1)..Len(s)
Overwrite(s, k) == [i \in 1..Len(s) |-> IF i <= k THEN s[i] ELSE Torn]

\* NewSegmentedWALManager: loadExistingSegments makes the segment with the highest ID
\* current, whatever its last bytes are; startAsyncRecovery reads it.
Restart ==
    /\ proc = "down"
    /\ proc' = "open"
    /\ \E k \in WriteOffsets(segs[Cur]) : segs' = [segs EXCEPT ![Cur] = Overwrite(@, k)]
    /\ lost' = lost \cup (Durable \ Durable')
    /\ UNCHANGED <<callerVars, sent, writeChan, acks, writerVars, buf, broken, diskFailed,
                   crashes, acked, unanswered, flushed>>

-----------------------------------------------------------------------------
CallerStep(c) == Send(c) \/ SendPanics(c) \/ TakeAck(c) \/ Timeout(c)
WriterStep ==
    Receive \/ Tick \/ WriterStop \/ Rotate \/ WriteRecord \/ FlushAndSync
        \/ SendAck \/ EndFlush
ProcessStep == CloseStart \/ CloseEnd \/ Crash \/ Exit \/ Restart

Next == (\E c \in Callers : CallerStep(c)) \/ WriterStep \/ ProcessStep

\* The scheduler runs the writer goroutine, the ticker fires every five seconds,
\* a waiting select takes what its channel holds, and Close and main go on.
\* Nothing obliges a caller to call, a disk to fail or a process to crash.
Fairness ==
    /\ WF_vars(Receive) /\ WF_vars(Tick) /\ WF_vars(WriterStop)
    /\ WF_vars(Rotate \/ WriteRecord \/ FlushAndSync \/ SendAck \/ EndFlush)
    /\ WF_vars(CloseEnd) /\ WF_vars(Exit)
    /\ \A c \in Callers : WF_vars(TakeAck(c))

Spec == Init /\ [][Next]_vars
FairSpec == Spec /\ Fairness

-----------------------------------------------------------------------------
(* What startAsyncRecovery gets back from the ReadAll of the process that has just started.
   A call later in its life reads nothing of a segment that rotateSegment has closed. *)

ReadAll == FlattenSeq([s \in DOMAIN segs |-> SubSeq(segs[s], 1, Readable(segs[s]))])

-----------------------------------------------------------------------------
(* Properties *)

\* The variables keep their types; acks never exceeds the capacity of ackChan.
TypeOK ==
    /\ pc \in [Callers -> {"idle", "waiting", "panicked"}]
    /\ rec \in [Callers -> Records \cup {0}]
    /\ sent \in 0..MaxRecords
    /\ writeChan \in Seq(Records) /\ Len(writeChan) <= ChanCap
    /\ acks \in 0..AckCap
    /\ wpc \in {"select", "write", "ack", "exited"}
    /\ batch \in Seq(Records) /\ Len(batch) <= BatchSize
    /\ pos \in 0..Len(batch)
    /\ exiting \in BOOLEAN
    /\ segs \in Seq(Seq(Entries)) /\ segs # <<>>
    /\ buf \in Seq(Records)
    /\ broken \in BOOLEAN
    /\ proc \in {"open", "stopping", "closed", "down"}
    /\ crashes \in 0..MaxCrashes
    /\ acked \subseteq Records /\ unanswered \subseteq Records
    /\ flushed \in Nat
    /\ lost \subseteq Records
    /\ diskFailed \in BOOLEAN

\* A record moves from writeChan through batch and the bufio.Writer to the files
\* without being duplicated, reordered or overtaken, over rotations, write errors
\* that leave half a buffer behind, crashes and restarts.
Increasing(s) == \A i, j \in DOMAIN s : i < j => s[i] < s[j]
LogInOrder ==
    /\ Increasing(buf \o Pending \o writeChan)
    /\ \A s \in DOMAIN segs : \A i \in DOMAIN segs[s] :
          /\ \A r \in InMemory : segs[s][i] < r
          /\ \A t \in DOMAIN segs : \A j \in DOMAIN segs[t] :
                (s < t \/ (s = t /\ i < j)) /\ segs[t][j] # Torn => segs[s][i] < segs[t][j]

\* WriteSync never returns nil more often than records went through a flushBatch:
\* tokens are made by flushes alone, one per record.
AcksBackedByFlushes == Cardinality(acked) + acks + ToAck <= flushed

\* What makes the count inductive: select starts a batch that has room, and a
\* caller that waits does so for a record that was accepted.
IInv ==
    /\ TypeOK
    /\ AcksBackedByFlushes
    /\ wpc = "select" => Len(batch) < BatchSize
    /\ \A c \in Callers : pc[c] = "waiting" => rec[c] \in Records

\* Tokens are anonymous, so one call's nil proves nothing about its own record.
\* Once every call has returned nil, though, every record is on disk, provided the
\* disk took what it was given.
NobodyWaits == \A c \in Callers : pc[c] # "waiting"
QuietMeansDurable ==
    ~diskFailed /\ NobodyWaits /\ unanswered = {} => 1..sent \subseteq Durable

\* Close, "FIXED: flush of the remaining records before closing", keeps what the writer
\* has received, a batch in progress included; what is still in writeChan it drops.
CloseFlushesReceived ==
    ~diskFailed /\ proc = "closed"
        => 1..sent \subseteq Durable \cup lost \cup ToSet(writeChan)

\* The ticker flushes a batch that never fills: no record waits in memory forever,
\* unless a write error keeps it there.
AcceptedIsFlushed ==
    \A r \in Records : r \in InMemory ~> r \notin InMemory \/ diskFailed

\* Tokens are neither lost nor short, whatever the disk does: every WriteSync returns,
\* without its timeout having to expire.
EveryCallReturns ==
    \A c \in Callers : pc[c] = "waiting" ~> pc[c] # "waiting"

\* What a process that starts at any moment would read with ReadAll is a DurableLog: over the
\* files of all the processes that wrote them, it only grows, at its end.
Log == INSTANCE DurableLog WITH accepted <- sent, log <- ReadAll
ImplementsDurableLog == Log!Spec

-----------------------------------------------------------------------------
(* What the comments of the source say, and the code does not do *)

\* WriteSync, "for the guarantee of a record in the WAL before the operations are
\* applied" (CommitCurrentTransaction): a nil return means this record is on disk.
AckedIsDurable == acked \subseteq Durable
=============================================================================
