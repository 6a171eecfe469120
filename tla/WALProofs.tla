----------------------------- MODULE WALProofs ------------------------------
(***************************************************************************)
(* Proofs about WAL for every number of callers and records and every      *)
(* capacity: its types; that WriteSync never returns nil more often than   *)
(* records were flushed; that records stay in order from writeChan to the  *)
(* files and are all accounted for there; and that what the files can be   *)
(* read back as is a DurableLog.                                           *)
(***************************************************************************)
EXTENDS WAL, TLAPS, FiniteSetTheorems, SequenceTheorems, WellFoundedInduction

\* A file, or a buffer, cut at any length is a sequence of entries.
LEMMA PrefixType ==
    ASSUME NEW S, NEW s \in Seq(S), NEW k \in 0..Len(s)
    PROVE  SubSeq(s, 1, k) \in Seq(S)
  BY SubSeqProperties, LenProperties

LEMMA SuffixType ==
    ASSUME NEW S, NEW s \in Seq(S), NEW k \in Nat
    PROVE  SubSeq(s, k + 1, Len(s)) \in Seq(S)
<1>1. \A i \in (k + 1)..Len(s) : s[i] \in S
  BY LenProperties, ElementOfSeq
<1> QED  BY <1>1, SubSeqProperties, LenProperties

\* Whatever a cut-short write leaves in the file is a sequence of entries.
LEMMA PartialWritesType ==
    ASSUME buf \in Seq(Records), NEW w \in PartialWrites
    PROVE  w \in Seq(Entries) /\ Written(w) \in Nat
<1>1. buf \in Seq(Entries)
  BY SeqMonotonic DEF Entries
<1>2. w \in Seq(Entries)
  <2>1. CASE \E k \in 0..Len(buf) : w = SubSeq(buf, 1, k)
    BY <2>1, <1>1, PrefixType
  <2>2. CASE \E k \in 0..(Len(buf) - 1) : w = Append(SubSeq(buf, 1, k), Torn)
    <3>1. PICK k \in 0..(Len(buf) - 1) : w = Append(SubSeq(buf, 1, k), Torn)
      BY <2>2
    <3>2. k \in 0..Len(buf)
      BY <1>1, LenProperties
    <3>3. SubSeq(buf, 1, k) \in Seq(Entries)
      BY <3>2, <1>1, PrefixType
    <3> QED  BY <3>1, <3>3 DEF Entries
  <2> QED  BY <2>1, <2>2 DEF PartialWrites
<1>3. Written(w) \in Nat
  <2>1. Len(w) \in Nat /\ (w # <<>> => Len(w) > 0)
    BY <1>2, EmptySeq
  <2> QED  BY <2>1 DEF Written
<1> QED  BY <1>2, <1>3

\* Appending to the current segment leaves the segments well formed.
LEMMA AppendToCurrentType ==
    ASSUME segs \in Seq(Seq(Entries)), segs # <<>>, NEW w \in Seq(Entries)
    PROVE  /\ AppendToCurrent(w) \in Seq(Seq(Entries))
           /\ AppendToCurrent(w) # <<>>
<1>1. Cur \in 1..Len(segs)
  BY EmptySeq DEF Cur
<1>2. segs[Cur] \in Seq(Entries)
  BY <1>1, ElementOfSeq
<1>3. segs[Cur] \o w \in Seq(Entries)
  BY <1>2, ConcatProperties
<1>4. AppendToCurrent(w) = [segs EXCEPT ![Cur] = segs[Cur] \o w]
  BY DEF AppendToCurrent
<1>5. /\ AppendToCurrent(w) \in Seq(Seq(Entries))
      /\ Len(AppendToCurrent(w)) = Len(segs)
  BY <1>1, <1>3, <1>4, ExceptSeq
<1> QED  BY <1>1, <1>5, EmptySeq

-----------------------------------------------------------------------------
(* Counting tokens *)

LEMMA AckedIsFinite ==
    ASSUME acked \subseteq Records
    PROVE  IsFiniteSet(acked) /\ Cardinality(acked) \in Nat
<1>1. IsFiniteSet(Records)
  BY SizesAssumption, FS_Interval DEF Records
<1> QED  BY <1>1, FS_Subset, FS_CardinalityType

\* A call that returns nil adds at most one record to those acknowledged.
LEMMA AckedGrowsByOne ==
    ASSUME acked \subseteq Records, NEW r \in Records
    PROVE  Cardinality(acked \cup {r}) \in Nat
           /\ Cardinality(acked \cup {r}) <= Cardinality(acked) + 1
<1>1. IsFiniteSet(acked) /\ Cardinality(acked) \in Nat
  BY AckedIsFinite
<1>2. Cardinality(acked \cup {r}) =
          IF r \in acked THEN Cardinality(acked) ELSE Cardinality(acked) + 1
  BY <1>1, FS_AddElement
<1> QED  BY <1>1, <1>2

LEMMA InitIInv == Init => IInv
<1> SUFFICES ASSUME Init PROVE IInv
  OBVIOUS
<1>1. /\ <<>> \in Seq(Records) /\ <<>> \in Seq(Entries) /\ Len(<<>>) = 0
  BY EmptySeq
<1>2. << <<>> >> \in Seq(Seq(Entries)) /\ << <<>> >> # <<>>
  BY <1>1
<1>3. TypeOK
  <2>1. pc \in [Callers -> {"idle", "waiting", "panicked"}]
        /\ rec \in [Callers -> Records \cup {0}]
    BY DEF Init
  <2>2. /\ sent \in 0..MaxRecords /\ acks \in 0..AckCap /\ crashes \in 0..MaxCrashes
        /\ flushed \in Nat /\ pos \in 0..Len(batch)
        /\ Len(writeChan) <= ChanCap /\ Len(batch) <= BatchSize
    BY <1>1, SizesAssumption DEF Init
  <2> QED  BY <1>1, <1>2, <2>1, <2>2 DEF Init, TypeOK
<1>4. AcksBackedByFlushes
  BY FS_EmptySet DEF Init, AcksBackedByFlushes, ToAck
<1> QED  BY <1>1, <1>3, <1>4, SizesAssumption DEF Init, IInv

-----------------------------------------------------------------------------
(* WriteSync *)

LEMMA SendIInv ==
    ASSUME IInv, NEW c \in Callers, Send(c)
    PROVE  IInv'
<1>1. sent + 1 \in Records
  BY SizesAssumption DEF IInv, TypeOK, Send, Records
<1>2. TypeOK'
  <2>1. writeChan' \in Seq(Records) /\ Len(writeChan') <= ChanCap
    BY <1>1, SizesAssumption DEF IInv, TypeOK, Send
  <2>2. pc' \in [Callers -> {"idle", "waiting", "panicked"}]
        /\ rec' \in [Callers -> Records \cup {0}]
    BY <1>1 DEF IInv, TypeOK, Send
  <2>3. sent' \in 0..MaxRecords
    BY SizesAssumption DEF IInv, TypeOK, Send
  <2>4. acks' = acks /\ UNCHANGED <<proc, crashes>>
        /\ UNCHANGED writerVars /\ UNCHANGED diskVars /\ UNCHANGED history
    BY DEF Send
  <2> QED  BY <2>1, <2>2, <2>3, <2>4
           DEF IInv, TypeOK, writerVars, diskVars, history
<1>3. AcksBackedByFlushes'
  BY DEF IInv, AcksBackedByFlushes, ToAck, Send, writerVars, diskVars, history
<1>4. \A d \in Callers : pc'[d] = "waiting" => rec'[d] \in Records
  BY <1>1 DEF IInv, TypeOK, Send
<1> QED  BY <1>2, <1>3, <1>4 DEF IInv, Send, writerVars

LEMMA SendPanicsIInv ==
    ASSUME IInv, NEW c \in Callers, SendPanics(c)
    PROVE  IInv'
<1>1. TypeOK'
  BY DEF IInv, TypeOK, SendPanics, writerVars, diskVars, history
<1>2. AcksBackedByFlushes'
  BY DEF IInv, AcksBackedByFlushes, ToAck, SendPanics, writerVars, diskVars, history
<1> QED  BY <1>1, <1>2 DEF IInv, TypeOK, SendPanics, writerVars

LEMMA TakeAckIInv ==
    ASSUME IInv, NEW c \in Callers, TakeAck(c)
    PROVE  IInv'
<1>1. rec[c] \in Records
  BY DEF IInv, TakeAck
<1>2. TypeOK'
  <2>1. acks' \in 0..AckCap
    BY SizesAssumption DEF IInv, TypeOK, TakeAck
  <2>2. pc' \in [Callers -> {"idle", "waiting", "panicked"}] /\ acked' \subseteq Records
    BY <1>1 DEF IInv, TypeOK, TakeAck
  <2> QED  BY <2>1, <2>2 DEF IInv, TypeOK, TakeAck, writerVars, diskVars
<1>3. AcksBackedByFlushes'
  <2>1. /\ Cardinality(acked') \in Nat
        /\ Cardinality(acked') <= Cardinality(acked) + 1
    BY <1>1, AckedGrowsByOne DEF IInv, TypeOK, TakeAck
  <2>2. Cardinality(acked) \in Nat
    BY AckedIsFinite DEF IInv, TypeOK
  <2>3. ToAck' = ToAck /\ ToAck \in Int
    BY DEF ToAck, TakeAck, writerVars, IInv, TypeOK
  <2>4. acks' = acks - 1 /\ acks \in Nat /\ flushed' = flushed /\ flushed \in Nat
    BY DEF IInv, TypeOK, TakeAck
  <2> QED  BY <2>1, <2>2, <2>3, <2>4 DEF IInv, AcksBackedByFlushes
<1> QED  BY <1>2, <1>3 DEF IInv, TypeOK, TakeAck, writerVars

LEMMA TimeoutIInv ==
    ASSUME IInv, NEW c \in Callers, Timeout(c)
    PROVE  IInv'
<1>1. TypeOK'
  BY DEF IInv, TypeOK, Timeout, writerVars, diskVars
<1>2. AcksBackedByFlushes'
  BY DEF IInv, AcksBackedByFlushes, ToAck, Timeout, writerVars, diskVars
<1> QED  BY <1>1, <1>2 DEF IInv, TypeOK, Timeout, writerVars

-----------------------------------------------------------------------------
(* writerLoop *)

LEMMA ReceiveIInv ==
    ASSUME IInv, Receive
    PROVE  IInv'
<1>1. /\ Head(writeChan) \in Records
      /\ Tail(writeChan) \in Seq(Records)
      /\ Len(Tail(writeChan)) = Len(writeChan) - 1
  BY HeadTailProperties DEF IInv, TypeOK, Receive
<1>2. /\ batch' \in Seq(Records)
      /\ Len(batch') = Len(batch) + 1
      /\ Len(batch) < BatchSize
  BY <1>1 DEF IInv, TypeOK, Receive
<1>3. Len(batch) \in Nat /\ Len(writeChan) \in Nat /\ BatchSize \in Nat
  BY SizesAssumption, LenProperties DEF IInv, TypeOK
<1>4. TypeOK'
  <2>1. writeChan' \in Seq(Records) /\ Len(writeChan') <= ChanCap
    BY <1>1, <1>3, SizesAssumption DEF IInv, TypeOK, Receive
  <2>2. Len(batch') <= BatchSize /\ pos' \in 0..Len(batch')
    BY <1>2, <1>3 DEF IInv, TypeOK, Receive
  <2>3. wpc' \in {"select", "write", "ack", "exited"}
    BY DEF Receive
  <2> QED  BY <1>2, <2>1, <2>2, <2>3
           DEF IInv, TypeOK, Receive, callerVars, diskVars, history
<1>5. AcksBackedByFlushes'
  BY DEF IInv, AcksBackedByFlushes, ToAck, Receive, history
<1>6. wpc' = "select" => Len(batch') < BatchSize
  BY <1>2, <1>3 DEF Receive, BatchFull
<1> QED  BY <1>4, <1>5, <1>6 DEF IInv, Receive, callerVars

LEMMA TickIInv ==
    ASSUME IInv, Tick
    PROVE  IInv'
<1>1. TypeOK'
  BY DEF IInv, TypeOK, Tick, callerVars, diskVars, history
<1>2. AcksBackedByFlushes'
  BY DEF IInv, AcksBackedByFlushes, ToAck, Tick, history
<1> QED  BY <1>1, <1>2 DEF IInv, Tick, callerVars

LEMMA WriterStopIInv ==
    ASSUME IInv, WriterStop
    PROVE  IInv'
<1>1. wpc' \in {"write", "exited"}
  BY DEF WriterStop, AfterStop
<1>2. TypeOK'
  BY <1>1 DEF IInv, TypeOK, WriterStop, callerVars, diskVars, history
<1>3. AcksBackedByFlushes'
  BY <1>1 DEF IInv, AcksBackedByFlushes, ToAck, WriterStop, history
<1> QED  BY <1>1, <1>2, <1>3 DEF IInv, WriterStop, callerVars

-----------------------------------------------------------------------------
(* flushBatch *)

LEMMA RotateIInv ==
    ASSUME IInv, Rotate
    PROVE  IInv'
<1>1. segs' \in Seq(Seq(Entries)) /\ segs' # <<>>
  <2>1. CASE \E w \in WrittenByRotate : segs' = Append(AppendToCurrent(w), <<>>)
    <3>1. PICK w \in WrittenByRotate : segs' = Append(AppendToCurrent(w), <<>>)
      BY <2>1
    <3>2. w \in Seq(Entries)
      <4>1. buf \in Seq(Entries) /\ <<>> \in Seq(Entries)
        BY SeqMonotonic, EmptySeq DEF IInv, TypeOK, Entries
      <4>2. CASE w \in PartialWrites
        BY <4>2, PartialWritesType DEF IInv, TypeOK
      <4> QED  BY <3>1, <4>1, <4>2 DEF WrittenByRotate
    <3>3. AppendToCurrent(w) \in Seq(Seq(Entries)) /\ AppendToCurrent(w) # <<>>
      BY <3>2, AppendToCurrentType DEF IInv, TypeOK
    <3>4. <<>> \in Seq(Entries)
      BY EmptySeq
    <3> HIDE DEF AppendToCurrent
    <3> QED  BY <3>1, <3>3, <3>4, AppendProperties
  <2>2. CASE segs' = segs
    BY <2>2 DEF IInv, TypeOK
  <2> QED  BY <2>1, <2>2 DEF Rotate, diskVars
<1>2. TypeOK'
  <2>1. buf' \in Seq(Records) /\ broken' \in BOOLEAN
    BY EmptySeq DEF IInv, TypeOK, Rotate, diskVars
  <2>2. pos' \in 0..Len(batch)
    BY LenProperties DEF IInv, TypeOK, Rotate
  <2> QED  BY <1>1, <2>1, <2>2 DEF IInv, TypeOK, Rotate, callerVars, history
<1>3. wpc = "write" /\ UNCHANGED <<wpc, batch, acks>> /\ UNCHANGED history
  BY DEF Rotate, Flushing
<1>4. AcksBackedByFlushes'
  BY <1>3 DEF IInv, AcksBackedByFlushes, ToAck, history
<1> QED  BY <1>2, <1>3, <1>4 DEF IInv, Rotate, callerVars

LEMMA WriteRecordIInv ==
    ASSUME IInv, WriteRecord
    PROVE  IInv'
<1>1. Len(batch) \in Nat /\ pos + 1 \in 1..Len(batch)
  BY LenProperties DEF IInv, TypeOK, WriteRecord
<1>2. batch[pos + 1] \in Records
  BY <1>1, ElementOfSeq DEF IInv, TypeOK
<1>3. TypeOK'
  <2>1. buf' \in Seq(Records)
    BY <1>2, AppendProperties DEF IInv, TypeOK, WriteRecord
  <2>2. pos' \in 0..Len(batch')
    BY <1>1 DEF WriteRecord
  <2> QED  BY <2>1, <2>2 DEF IInv, TypeOK, WriteRecord, callerVars, history
<1>4. wpc = "write" /\ UNCHANGED <<wpc, batch, acks>> /\ UNCHANGED history
  BY DEF WriteRecord, Flushing
<1>5. AcksBackedByFlushes'
  BY <1>4 DEF IInv, AcksBackedByFlushes, ToAck, history
<1> QED  BY <1>3, <1>4, <1>5 DEF IInv, WriteRecord, callerVars

LEMMA FlushAndSyncIInv ==
    ASSUME IInv, FlushAndSync
    PROVE  IInv'
<1>1. /\ segs' \in Seq(Seq(Entries)) /\ segs' # <<>>
      /\ buf' \in Seq(Records) /\ broken' \in BOOLEAN /\ diskFailed' \in BOOLEAN
  <2>1. CASE segs' = AppendToCurrent(buf) /\ buf' = <<>> /\ UNCHANGED <<broken, diskFailed>>
    <3>1. buf \in Seq(Entries) /\ <<>> \in Seq(Records)
      BY SeqMonotonic, EmptySeq DEF IInv, TypeOK, Entries
    <3> QED  BY <2>1, <3>1, AppendToCurrentType DEF IInv, TypeOK
  <2>2. CASE /\ \E w \in PartialWrites :
                    /\ segs' = AppendToCurrent(w)
                    /\ buf' = SubSeq(buf, Written(w) + 1, Len(buf))
             /\ broken' = TRUE /\ diskFailed' = TRUE
    <3>1. PICK w \in PartialWrites :
              /\ segs' = AppendToCurrent(w)
              /\ buf' = SubSeq(buf, Written(w) + 1, Len(buf))
      BY <2>2
    <3>2. w \in Seq(Entries) /\ Written(w) \in Nat
      BY PartialWritesType DEF IInv, TypeOK
    <3>3. buf' \in Seq(Records)
      BY <3>1, <3>2, SuffixType DEF IInv, TypeOK
    <3> QED  BY <2>2, <3>1, <3>2, <3>3, AppendToCurrentType DEF IInv, TypeOK
  <2>3. CASE UNCHANGED diskVars
    BY <2>3 DEF IInv, TypeOK, diskVars
  <2> QED  BY <2>1, <2>2, <2>3 DEF FlushAndSync
<1>2. Len(batch) \in Nat /\ flushed \in Nat
  BY LenProperties DEF IInv, TypeOK
<1>3. TypeOK'
  BY <1>1, <1>2 DEF IInv, TypeOK, FlushAndSync, callerVars
<1>4. AcksBackedByFlushes'
  <2>1. ToAck = 0 /\ ToAck' = Len(batch)
    BY <1>2 DEF FlushAndSync, Flushing, ToAck
  <2>2. Cardinality(acked) \in Nat /\ acks \in Nat
    BY AckedIsFinite DEF IInv, TypeOK
  <2>3. UNCHANGED <<acked, acks>> /\ flushed' = flushed + Len(batch)
    BY DEF FlushAndSync
  <2> QED  BY <1>2, <2>1, <2>2, <2>3 DEF IInv, AcksBackedByFlushes
<1> QED  BY <1>3, <1>4 DEF IInv, FlushAndSync, callerVars

\* A token goes from those due to those in ackChan, or is dropped.
LEMMA SendAckIInv ==
    ASSUME IInv, SendAck
    PROVE  IInv'
<1>1. Len(batch) \in Nat /\ pos < Len(batch)
  BY LenProperties DEF IInv, TypeOK, SendAck, TokensDue
<1>2. acks' \in 0..AckCap /\ acks' <= acks + 1
  BY SizesAssumption DEF IInv, TypeOK, SendAck, RoomForToken
<1>3. TypeOK'
  BY <1>1, <1>2 DEF IInv, TypeOK, SendAck, callerVars, diskVars, history
<1>4. AcksBackedByFlushes'
  <2>1. ToAck = Len(batch) - pos /\ ToAck' = Len(batch) - (pos + 1)
    BY DEF SendAck, ToAck
  <2>2. Cardinality(acked) \in Nat /\ acks \in Nat /\ flushed \in Nat /\ pos \in Nat
    BY AckedIsFinite DEF IInv, TypeOK
  <2>3. UNCHANGED <<acked, flushed>>
    BY DEF SendAck, history
  <2> QED  BY <1>1, <1>2, <2>1, <2>2, <2>3 DEF IInv, AcksBackedByFlushes
<1> QED  BY <1>3, <1>4 DEF IInv, SendAck, callerVars

LEMMA EndFlushIInv ==
    ASSUME IInv, EndFlush
    PROVE  IInv'
<1>1. batch' = <<>> /\ <<>> \in Seq(Records) /\ Len(<<>>) = 0 /\ pos' = 0
  BY EmptySeq DEF EndFlush, BatchAfterFlush
<1>2. wpc' \in {"exited", "select"}
  BY DEF EndFlush
<1>3. TypeOK'
  BY <1>1, <1>2, SizesAssumption DEF IInv, TypeOK, EndFlush, callerVars, diskVars, history
<1>4. AcksBackedByFlushes'
  <2>1. ToAck = 0 /\ ToAck' = 0
    BY <1>2 DEF EndFlush, ToAck, TokensDue, IInv, TypeOK
  <2> QED  BY <2>1 DEF IInv, AcksBackedByFlushes, EndFlush, history
<1> QED  BY <1>1, <1>3, <1>4, SizesAssumption DEF IInv, EndFlush, callerVars

-----------------------------------------------------------------------------
(* The life of the process *)

LEMMA CloseStartIInv ==
    ASSUME IInv, CloseStart
    PROVE  IInv'
<1>1. TypeOK'
  BY DEF IInv, TypeOK, CloseStart, callerVars, writerVars, diskVars, history
<1>2. AcksBackedByFlushes'
  BY DEF IInv, AcksBackedByFlushes, ToAck, CloseStart, writerVars, history
<1> QED  BY <1>1, <1>2 DEF IInv, CloseStart, callerVars, writerVars

LEMMA CloseEndIInv ==
    ASSUME IInv, CloseEnd
    PROVE  IInv'
<1>1. buf \in Seq(Entries) /\ <<>> \in Seq(Records)
  BY SeqMonotonic, EmptySeq DEF IInv, TypeOK, Entries
<1>2. segs' \in Seq(Seq(Entries)) /\ segs' # <<>> /\ buf' \in Seq(Records)
  BY <1>1, AppendToCurrentType DEF IInv, TypeOK, CloseEnd
<1>3. TypeOK'
  BY <1>2 DEF IInv, TypeOK, CloseEnd, callerVars, writerVars, history
<1>4. AcksBackedByFlushes'
  BY DEF IInv, AcksBackedByFlushes, ToAck, CloseEnd, writerVars, history
<1> QED  BY <1>3, <1>4 DEF IInv, CloseEnd, callerVars, writerVars

LEMMA EndProcessIInv ==
    ASSUME IInv, NEW w \in Seq(Entries), EndProcess(w), crashes' \in 0..MaxCrashes
    PROVE  IInv'
<1>1. segs' \in Seq(Seq(Entries)) /\ segs' # <<>>
  BY AppendToCurrentType DEF IInv, TypeOK, EndProcess
<1>2. <<>> \in Seq(Records) /\ Len(<<>>) = 0
  BY EmptySeq
<1>3. InMemory \subseteq Records
  <2>1. Pending \in Seq(Records)
    BY <1>2, SuffixType DEF IInv, TypeOK, Pending
  <2> QED  BY <2>1, ElementOfSeq, LenProperties DEF IInv, TypeOK, InMemory, ToSet
<1>4. /\ unanswered' \subseteq Records /\ lost' \subseteq Records
  BY <1>3 DEF IInv, TypeOK, EndProcess
<1>5. /\ pc' \in [Callers -> {"idle", "waiting", "panicked"}]
      /\ rec' \in [Callers -> Records \cup {0}]
  BY DEF EndProcess
<1>6. TypeOK'
  <2>1. /\ writeChan' \in Seq(Records) /\ Len(writeChan') <= ChanCap
        /\ batch' \in Seq(Records) /\ Len(batch') <= BatchSize
        /\ buf' \in Seq(Records) /\ pos' \in 0..Len(batch')
    BY <1>2, SizesAssumption DEF EndProcess
  <2>2. /\ wpc' \in {"select", "write", "ack", "exited"}
        /\ exiting' \in BOOLEAN /\ broken' \in BOOLEAN
        /\ proc' \in {"open", "stopping", "closed", "down"}
    BY DEF EndProcess
  <2>4. acks' \in 0..AckCap
    <3>1. acks' = 0
      BY DEF EndProcess
    <3> QED  BY <3>1, SizesAssumption
  <2>3. /\ sent' \in 0..MaxRecords /\ acked' \subseteq Records /\ flushed' \in Nat
        /\ diskFailed' \in BOOLEAN
    BY DEF IInv, TypeOK, EndProcess
  <2> QED  BY <1>1, <1>4, <1>5, <2>1, <2>2, <2>3, <2>4 DEF TypeOK
<1>7. AcksBackedByFlushes'
  <2>1. ToAck' = 0 /\ acks' = 0 /\ UNCHANGED <<acked, flushed>>
    BY DEF EndProcess, ToAck
  <2>2. Cardinality(acked) \in Nat /\ acks \in Nat /\ ToAck \in Nat
    BY AckedIsFinite, LenProperties DEF IInv, TypeOK, ToAck
  <2> QED  BY <2>1, <2>2 DEF IInv, TypeOK, AcksBackedByFlushes
<1> QED  BY <1>2, <1>6, <1>7, SizesAssumption DEF IInv, EndProcess

LEMMA CrashIInv ==
    ASSUME IInv, Crash
    PROVE  IInv'
<1>1. PICK w \in IF wpc = "write" /\ ~broken THEN PartialWrites ELSE {<<>>} :
          EndProcess(w)
  BY DEF Crash
<1>2. w \in Seq(Entries)
  BY PartialWritesType, EmptySeq DEF IInv, TypeOK
<1>3. crashes' \in 0..MaxCrashes
  BY SizesAssumption DEF IInv, TypeOK, Crash
<1> QED  BY <1>1, <1>2, <1>3, EndProcessIInv

LEMMA ExitIInv ==
    ASSUME IInv, Exit
    PROVE  IInv'
<1>1. <<>> \in Seq(Entries) /\ crashes' \in 0..MaxCrashes
  BY EmptySeq DEF IInv, TypeOK, Exit
<1> QED  BY <1>1, EndProcessIInv DEF Exit

\* Records that later writes will go over leave a well-formed segment behind.
LEMMA OverwriteType ==
    ASSUME NEW s \in Seq(Entries), NEW k
    PROVE  Overwrite(s, k) \in Seq(Entries)
<1>1. Len(s) \in Nat /\ \A i \in 1..Len(s) : s[i] \in Entries
  BY LenProperties, ElementOfSeq
<1>2. Overwrite(s, k) \in [1..Len(s) -> Entries]
  BY <1>1 DEF Overwrite, Entries
<1> QED  BY <1>1, <1>2, SeqDef

LEMMA RestartIInv ==
    ASSUME IInv, Restart
    PROVE  IInv'
<1>1. segs' \in Seq(Seq(Entries)) /\ segs' # <<>>
  <2>1. segs \in Seq(Seq(Entries)) /\ segs # <<>>
    BY DEF IInv, TypeOK
  <2>2. Cur \in 1..Len(segs)
    BY <2>1, EmptySeq DEF Cur
  <2>3. PICK k : segs' = [segs EXCEPT ![Cur] = Overwrite(segs[Cur], k)]
    BY DEF Restart
  <2>4. Overwrite(segs[Cur], k) \in Seq(Entries)
    BY <2>1, <2>2, ElementOfSeq, OverwriteType
  <2>5. segs' \in Seq(Seq(Entries)) /\ Len(segs') = Len(segs)
    BY <2>1, <2>2, <2>3, <2>4, ExceptSeq
  <2> QED  BY <2>1, <2>2, <2>5, EmptySeq
<1>2. lost' \subseteq Records
  <2>1. \A s \in DOMAIN segs : \A i \in DOMAIN segs[s] : segs[s][i] \in Entries
    BY LenProperties, ElementOfSeq DEF IInv, TypeOK
  <2>2. ASSUME NEW e \in Durable PROVE e \in Records
    <3>1. PICK s \in DOMAIN segs : e \in ToSet(segs[s]) /\ e # Torn
      <4>1. e # Torn /\ \E S \in {ToSet(segs[s]) : s \in DOMAIN segs} : e \in S
        <5>1. e \in UNION {ToSet(segs[s]) : s \in DOMAIN segs} /\ e \notin {Torn}
          BY <2>2 DEF Durable
        <5> QED  BY <5>1
      <4> QED  BY <4>1, Zenon
    <3>2. PICK i \in DOMAIN segs[s] : e = segs[s][i]
      BY <3>1, Zenon DEF ToSet
    <3> QED  BY <2>1, <3>1, <3>2 DEF Entries
  <2>3. lost' \subseteq lost \cup Durable /\ lost \subseteq Records
    BY DEF IInv, TypeOK, Restart
  <2> QED  BY <2>2, <2>3
<1>3. TypeOK'
  BY <1>1, <1>2 DEF IInv, TypeOK, Restart, callerVars, writerVars
<1>4. AcksBackedByFlushes'
  BY DEF IInv, AcksBackedByFlushes, ToAck, Restart, writerVars
<1> QED  BY <1>3, <1>4 DEF IInv, Restart, callerVars, writerVars

LEMMA StutterIInv ==
    ASSUME IInv, UNCHANGED vars
    PROVE  IInv'
<1>1. TypeOK'
  BY DEF IInv, TypeOK, vars
<1>2. AcksBackedByFlushes'
  BY DEF IInv, AcksBackedByFlushes, ToAck, vars
<1> QED  BY <1>1, <1>2 DEF IInv, vars

-----------------------------------------------------------------------------
\* IInv holds in every reachable state of WAL: it holds at the start, and every
\* action of the callers, the writer and the process keeps it.
THEOREM IInvHolds == Spec => []IInv
<1>1. Init => IInv
  BY InitIInv
<1>2. IInv /\ [Next]_vars => IInv'
  <2> SUFFICES ASSUME IInv, [Next]_vars PROVE IInv'
    OBVIOUS
  <2>1. ASSUME NEW c \in Callers, CallerStep(c) PROVE IInv'
    BY <2>1, SendIInv, SendPanicsIInv, TakeAckIInv, TimeoutIInv DEF CallerStep
  <2>2. CASE WriterStep
    BY <2>2, ReceiveIInv, TickIInv, WriterStopIInv, RotateIInv, WriteRecordIInv,
       FlushAndSyncIInv, SendAckIInv, EndFlushIInv DEF WriterStep
  <2>3. CASE ProcessStep
    BY <2>3, CloseStartIInv, CloseEndIInv, CrashIInv, ExitIInv, RestartIInv
       DEF ProcessStep
  <2>4. CASE UNCHANGED vars
    BY <2>4, StutterIInv
  <2> QED  BY <2>1, <2>2, <2>3, <2>4 DEF Next
<1> QED  BY <1>1, <1>2, PTL DEF Spec

\* Type correctness of the log manager (transactions.go:2264-2672).
THEOREM TypeCorrect == Spec => []TypeOK
<1>1. IInv => TypeOK
  BY DEF IInv
<1> QED  BY <1>1, IInvHolds, PTL

\* However many goroutines call WriteSync, and whatever times out, fails, crashes or
\* restarts, the calls that returned nil are never more than the records that went
\* through flushBatch (transactions.go:2449-2459 and 2543-2548).
THEOREM AcksAreBacked == Spec => []AcksBackedByFlushes
<1>1. IInv => AcksBackedByFlushes
  BY DEF IInv
<1> QED  BY <1>1, IInvHolds, PTL

-----------------------------------------------------------------------------
(* Increasing sequences *)

\* Each record of s is older than each of t.
Before(s, t) == \A i \in 1..Len(s), j \in 1..Len(t) : s[i] < t[j]

\* Three sequences whose concatenation is increasing.
Sorted(s, t, u) ==
    /\ Increasing(s) /\ Increasing(t) /\ Increasing(u)
    /\ Before(s, t) /\ Before(s, u) /\ Before(t, u)

Suffix(s, k) == SubSeq(s, k + 1, Len(s))

LEMMA IncreasingConcat ==
    ASSUME NEW s \in Seq(Nat), NEW t \in Seq(Nat)
    PROVE  Increasing(s \o t) <=> Increasing(s) /\ Increasing(t) /\ Before(s, t)
<1> DEFINE m == Len(s)
           n == Len(t)
<1>1. /\ m \in Nat /\ n \in Nat /\ DOMAIN s = 1..m /\ DOMAIN t = 1..n
      /\ DOMAIN (s \o t) = 1..(m + n)
      /\ \A i \in 1..(m + n) : (s \o t)[i] = IF i <= m THEN s[i] ELSE t[i - m]
  BY ConcatProperties, LenProperties
<1>2. /\ \A i \in 1..m : i \in 1..(m + n) /\ (s \o t)[i] = s[i]
      /\ \A i \in 1..n : m + i \in 1..(m + n) /\ (s \o t)[m + i] = t[i]
  BY <1>1
<1>3. ASSUME Increasing(s \o t) PROVE Increasing(s) /\ Increasing(t) /\ Before(s, t)
  <2>1. \A i, j \in 1..(m + n) : i < j => (s \o t)[i] < (s \o t)[j]
    BY <1>1, <1>3 DEF Increasing
  <2>2. Increasing(s)
    BY <1>1, <1>2, <2>1 DEF Increasing
  <2>3. Increasing(t)
    <3> SUFFICES ASSUME NEW i \in 1..n, NEW j \in 1..n, i < j PROVE t[i] < t[j]
      BY <1>1 DEF Increasing
    <3>1. m + i < m + j /\ m + i \in 1..(m + n) /\ m + j \in 1..(m + n)
      BY <1>1
    <3> QED  BY <1>2, <2>1, <3>1
  <2>4. Before(s, t)
    <3> SUFFICES ASSUME NEW i \in 1..m, NEW j \in 1..n PROVE s[i] < t[j]
      BY DEF Before
    <3>1. i < m + j
      BY <1>1
    <3> QED  BY <1>2, <2>1, <3>1
  <2> QED  BY <2>2, <2>3, <2>4
<1>4. ASSUME Increasing(s), Increasing(t), Before(s, t) PROVE Increasing(s \o t)
  <2> SUFFICES ASSUME NEW i \in 1..(m + n), NEW j \in 1..(m + n), i < j
               PROVE (s \o t)[i] < (s \o t)[j]
    BY <1>1 DEF Increasing
  <2>1. CASE j <= m
    <3>1. i \in 1..m /\ j \in 1..m /\ (s \o t)[i] = s[i] /\ (s \o t)[j] = s[j]
      BY <1>1, <2>1
    <3>2. s[i] < s[j]
      BY <1>1, <1>4, <3>1 DEF Increasing
    <3> QED  BY <3>1, <3>2
  <2>2. CASE i > m
    <3>1. i - m \in 1..n /\ j - m \in 1..n /\ i - m < j - m
      BY <1>1, <2>2
    <3>2. (s \o t)[i] = t[i - m] /\ (s \o t)[j] = t[j - m]
      BY <1>1, <2>2
    <3>3. t[i - m] < t[j - m]
      BY <1>1, <1>4, <3>1 DEF Increasing
    <3> QED  BY <3>2, <3>3
  <2>3. CASE i <= m /\ j > m
    <3>1. i \in 1..m /\ j - m \in 1..n
      BY <1>1, <2>3
    <3> QED  BY <1>1, <1>4, <2>3, <3>1 DEF Before
  <2> QED  BY <1>1, <2>1, <2>2, <2>3
<1> QED  BY <1>3, <1>4

LEMMA BeforeConcat ==
    ASSUME NEW s \in Seq(Nat), NEW t \in Seq(Nat), NEW u \in Seq(Nat)
    PROVE  Before(s \o t, u) <=> Before(s, u) /\ Before(t, u)
<1> DEFINE m == Len(s)
           n == Len(t)
<1>1. /\ m \in Nat /\ n \in Nat /\ Len(s \o t) = m + n
      /\ \A i \in 1..(m + n) : (s \o t)[i] = IF i <= m THEN s[i] ELSE t[i - m]
  BY ConcatProperties, LenProperties
<1>2. /\ \A i \in 1..m : i \in 1..(m + n) /\ (s \o t)[i] = s[i]
      /\ \A i \in 1..n : m + i \in 1..(m + n) /\ (s \o t)[m + i] = t[i]
      /\ \A i \in 1..(m + n) : i \in 1..m \/ (i - m \in 1..n /\ (s \o t)[i] = t[i - m])
  BY <1>1
<1>3. Before(s \o t, u) => Before(s, u) /\ Before(t, u)
  BY <1>1, <1>2 DEF Before
<1>4. Before(s, u) /\ Before(t, u) => Before(s \o t, u)
  BY <1>1, <1>2 DEF Before
<1> QED  BY <1>3, <1>4

LEMMA SortedConcat ==
    ASSUME NEW s \in Seq(Nat), NEW t \in Seq(Nat), NEW u \in Seq(Nat)
    PROVE  Increasing(s \o t \o u) <=> Sorted(s, t, u)
<1>1. s \o t \in Seq(Nat)
  BY ConcatProperties
<1> QED  BY <1>1, IncreasingConcat, BeforeConcat DEF Sorted

\* The records of a suffix, a tail and a longer sequence.
LEMMA SuffixElements ==
    ASSUME NEW S, NEW s \in Seq(S), NEW k \in Nat
    PROVE  /\ Suffix(s, k) \in Seq(S) /\ Len(s) \in Nat
           /\ Len(Suffix(s, k)) = IF k <= Len(s) THEN Len(s) - k ELSE 0
           /\ \A i \in 1..Len(Suffix(s, k)) :
                 k + i \in 1..Len(s) /\ Suffix(s, k)[i] = s[k + i]
<1>1. Len(s) \in Nat /\ \A i \in (k + 1)..Len(s) : s[i] \in S
  BY LenProperties, ElementOfSeq
<1>2. /\ Suffix(s, k) \in Seq(S)
      /\ Len(Suffix(s, k)) = IF k + 1 <= Len(s) THEN Len(s) - (k + 1) + 1 ELSE 0
      /\ \A i \in 1..(Len(s) - (k + 1) + 1) : Suffix(s, k)[i] = s[k + 1 + i - 1]
  BY <1>1, SubSeqProperties DEF Suffix
<1> QED  BY <1>1, <1>2

LEMMA SuffixIncreasing ==
    ASSUME NEW s \in Seq(Nat), Increasing(s), NEW k \in Nat
    PROVE  Increasing(Suffix(s, k))
<1>1. \A i \in 1..Len(Suffix(s, k)) : k + i \in 1..Len(s) /\ Suffix(s, k)[i] = s[k + i]
  BY SuffixElements
<1>2. DOMAIN s = 1..Len(s) /\ DOMAIN Suffix(s, k) = 1..Len(Suffix(s, k))
  BY SuffixElements, LenProperties
<1> SUFFICES ASSUME NEW i \in 1..Len(Suffix(s, k)), NEW j \in 1..Len(Suffix(s, k)), i < j
             PROVE  Suffix(s, k)[i] < Suffix(s, k)[j]
  BY <1>2 DEF Increasing
<1>3. k + i < k + j
  BY LenProperties, SuffixElements
<1>4. s[k + i] < s[k + j]
  BY <1>1, <1>2, <1>3 DEF Increasing
<1> QED  BY <1>1, <1>4

LEMMA SuffixBefore ==
    ASSUME NEW s \in Seq(Nat), NEW t \in Seq(Nat), Before(s, t), NEW m \in Nat, NEW n \in Nat
    PROVE  Before(Suffix(s, m), Suffix(t, n))
<1>1. \A i \in 1..Len(Suffix(s, m)) : m + i \in 1..Len(s) /\ Suffix(s, m)[i] = s[m + i]
  BY SuffixElements
<1>2. \A i \in 1..Len(Suffix(t, n)) : n + i \in 1..Len(t) /\ Suffix(t, n)[i] = t[n + i]
  BY SuffixElements
<1> QED  BY <1>1, <1>2 DEF Before

LEMMA SortedSuffixes ==
    ASSUME NEW s \in Seq(Nat), NEW t \in Seq(Nat), NEW u \in Seq(Nat), Sorted(s, t, u),
           NEW i \in Nat, NEW j \in Nat, NEW k \in Nat
    PROVE  Sorted(Suffix(s, i), Suffix(t, j), Suffix(u, k))
BY SuffixIncreasing, SuffixBefore DEF Sorted

-----------------------------------------------------------------------------
(* What is in memory *)

LEMMA ToSetIs ==
    ASSUME NEW S, NEW s \in Seq(S)
    PROVE  \A e : e \in ToSet(s) <=> \E i \in 1..Len(s) : s[i] = e
<1>1. DOMAIN s = 1..Len(s)
  BY LenProperties
<1> QED  BY <1>1 DEF ToSet

LEMMA MemoryTypes ==
    ASSUME TypeOK
    PROVE  /\ buf \in Seq(Records) /\ Pending \in Seq(Records) /\ writeChan \in Seq(Records)
           /\ buf \in Seq(Nat) /\ Pending \in Seq(Nat) /\ writeChan \in Seq(Nat)
<1>1. buf \in Seq(Records) /\ batch \in Seq(Records) /\ writeChan \in Seq(Records) /\ pos \in Nat
  BY DEF TypeOK
<1>2. Pending \in Seq(Records)
  BY <1>1, SuffixType, EmptySeq DEF Pending
<1>3. Records \subseteq Nat
  BY SizesAssumption DEF Records
<1>4. ASSUME NEW s \in Seq(Records) PROVE s \in Seq(Nat)
  BY <1>3, SeqMonotonic
<1> QED  BY <1>1, <1>2, <1>4

\* Of what waits in memory, what is left when its beginnings have gone.
Later(k) ==
    \E i, j, l \in Nat :
        /\ i >= k /\ buf' = Suffix(buf, i)
        /\ Pending' = Suffix(Pending, j) /\ writeChan' = Suffix(writeChan, l)

LEMMA LaterKeeps ==
    ASSUME TypeOK, NEW k \in Nat, Later(k), Increasing(buf \o Pending \o writeChan)
    PROVE  /\ Increasing(buf \o Pending \o writeChan)'
           /\ InMemory' \subseteq InMemory
           /\ \A r \in InMemory', i \in 1..Len(buf) : i <= k => buf[i] < r
<1>1. PICK i \in Nat, j \in Nat, l \in Nat :
        /\ i >= k /\ buf' = Suffix(buf, i)
        /\ Pending' = Suffix(Pending, j) /\ writeChan' = Suffix(writeChan, l)
  BY DEF Later
<1>2. Sorted(buf, Pending, writeChan)
  BY MemoryTypes, SortedConcat
<1>3. /\ buf \in Seq(Nat) /\ Pending \in Seq(Nat) /\ writeChan \in Seq(Nat)
      /\ buf' \in Seq(Nat) /\ Pending' \in Seq(Nat) /\ writeChan' \in Seq(Nat)
  BY <1>1, MemoryTypes, SuffixElements
<1>4. Increasing(buf \o Pending \o writeChan)'
  <2>1. Sorted(buf', Pending', writeChan')
    BY <1>1, <1>2, <1>3, SortedSuffixes
  <2> QED  BY <1>3, <2>1, SortedConcat
<1>5. ASSUME NEW r \in ToSet(buf')
      PROVE  r \in ToSet(buf) /\ \A h \in 1..Len(buf) : h <= k => buf[h] < r
  <2>1. PICK n \in 1..Len(Suffix(buf, i)) : Suffix(buf, i)[n] = r
    BY <1>1, <1>3, <1>5, ToSetIs
  <2>2. i + n \in 1..Len(buf) /\ buf[i + n] = r
    BY <1>3, <2>1, SuffixElements
  <2>3. r \in ToSet(buf)
    BY <1>3, <2>2, ToSetIs
  <2>4. ASSUME NEW h \in 1..Len(buf), h <= k PROVE buf[h] < r
    <3>1. h < i + n /\ DOMAIN buf = 1..Len(buf)
      BY <1>1, <1>3, <2>1, <2>4, LenProperties, SuffixElements
    <3> QED  BY <1>2, <2>2, <3>1 DEF Sorted, Increasing
  <2> QED  BY <2>3, <2>4
<1>6. ASSUME NEW r \in ToSet(Pending')
      PROVE  r \in ToSet(Pending) /\ \A h \in 1..Len(buf) : buf[h] < r
  <2>1. PICK n \in 1..Len(Suffix(Pending, j)) : Suffix(Pending, j)[n] = r
    BY <1>1, <1>3, <1>6, ToSetIs
  <2>2. j + n \in 1..Len(Pending) /\ Pending[j + n] = r
    BY <1>3, <2>1, SuffixElements
  <2> QED  BY <1>2, <1>3, <2>2, ToSetIs DEF Sorted, Before
<1>7. ASSUME NEW r \in ToSet(writeChan')
      PROVE  r \in ToSet(writeChan) /\ \A h \in 1..Len(buf) : buf[h] < r
  <2>1. PICK n \in 1..Len(Suffix(writeChan, l)) : Suffix(writeChan, l)[n] = r
    BY <1>1, <1>3, <1>7, ToSetIs
  <2>2. l + n \in 1..Len(writeChan) /\ writeChan[l + n] = r
    BY <1>3, <2>1, SuffixElements
  <2> QED  BY <1>2, <1>3, <2>2, ToSetIs DEF Sorted, Before
<1>8. InMemory' = ToSet(buf') \cup ToSet(Pending') \cup ToSet(writeChan')
  BY DEF InMemory
<1> QED  BY <1>4, <1>5, <1>6, <1>7, <1>8 DEF InMemory

\* A record that moves on to the next place leaves the whole as it was.
LEMMA HeadMoves ==
    ASSUME NEW S, NEW t \in Seq(S), NEW u \in Seq(S), u # <<>>
    PROVE  /\ Append(t, Head(u)) \o Tail(u) = t \o u
           /\ Head(u) = u[1] /\ u[1] \in S /\ Tail(u) = Suffix(u, 1) /\ Tail(u) \in Seq(S)
<1>1. /\ Head(u) \in S /\ Head(u) = u[1] /\ Tail(u) \in Seq(S) /\ Tail(u) = SubSeq(u, 2, Len(u))
      /\ Len(Tail(u)) = Len(u) - 1
      /\ \A i \in 1..Len(Tail(u)) : Tail(u)[i] = u[i + 1]
  BY HeadTailProperties, TailIsSubSeq, EmptySeq
<1>2. /\ Append(t, Head(u)) \in Seq(S) /\ Len(Append(t, Head(u))) = Len(t) + 1
      /\ Append(t, Head(u))[Len(t) + 1] = Head(u)
      /\ \A i \in 1..Len(t) : Append(t, Head(u))[i] = t[i]
  BY <1>1, AppendProperties
<1> DEFINE a == Append(t, Head(u)) \o Tail(u)
           b == t \o u
<1>3. /\ a \in Seq(S) /\ Len(a) = Len(t) + 1 + (Len(u) - 1)
      /\ \A i \in 1..Len(a) : a[i] = IF i <= Len(t) + 1 THEN Append(t, Head(u))[i]
                                     ELSE Tail(u)[i - (Len(t) + 1)]
  BY <1>1, <1>2, ConcatProperties
<1>4. /\ b \in Seq(S) /\ Len(b) = Len(t) + Len(u)
      /\ \A i \in 1..Len(b) : b[i] = IF i <= Len(t) THEN t[i] ELSE u[i - Len(t)]
  BY ConcatProperties
<1>5. Len(t) \in Nat /\ Len(u) \in Nat
  BY LenProperties
<1> HIDE DEF a, b
<1>6. Len(a) = Len(b)
  BY <1>3, <1>4, <1>5
<1>7. ASSUME NEW i \in 1..Len(a) PROVE a[i] = b[i]
  <2>1. CASE i <= Len(t)
    <3>1. i \in 1..Len(t) /\ i <= Len(t) + 1
      BY <1>5, <2>1
    <3> QED  BY <1>2, <1>3, <1>4, <1>6, <2>1, <3>1
  <2>2. CASE i = Len(t) + 1
    <3>1. a[i] = Head(u) /\ b[i] = u[i - Len(t)] /\ i - Len(t) = 1
      BY <1>2, <1>3, <1>4, <1>5, <1>6, <2>2
    <3> QED  BY <1>1, <3>1
  <2>3. CASE i > Len(t) + 1
    <3>1. /\ a[i] = Tail(u)[i - (Len(t) + 1)] /\ b[i] = u[i - Len(t)]
          /\ i - (Len(t) + 1) \in 1..Len(Tail(u)) /\ i - (Len(t) + 1) + 1 = i - Len(t)
      BY <1>1, <1>3, <1>4, <1>5, <1>6, <2>3
    <3> QED  BY <1>1, <3>1
  <2> QED  BY <1>5, <2>1, <2>2, <2>3
<1>8. a = b
  BY <1>3, <1>4, <1>6, <1>7, SeqEqual
<1> QED  BY <1>1, <1>8 DEF a, b, Suffix

LEMMA ConcatAppend ==
    ASSUME NEW S, NEW s \in Seq(S), NEW t \in Seq(S), NEW x \in S
    PROVE  s \o Append(t, x) = Append(s \o t, x)
<1> DEFINE p == Append(t, x)
           u == s \o t
           a == s \o p
           b == Append(u, x)
           m == Len(s)
           n == Len(t)
<1>1. /\ p \in Seq(S) /\ Len(p) = n + 1 /\ p[n + 1] = x
      /\ \A i \in 1..n : p[i] = t[i]
  BY AppendProperties
<1>2. /\ u \in Seq(S) /\ Len(u) = m + n /\ m \in Nat /\ n \in Nat
      /\ \A i \in 1..(m + n) : u[i] = IF i <= m THEN s[i] ELSE t[i - m]
  BY ConcatProperties, LenProperties
<1> HIDE DEF p, u
<1>3. /\ a \in Seq(S) /\ Len(a) = m + Len(p)
      /\ \A i \in 1..(m + Len(p)) : a[i] = IF i <= m THEN s[i] ELSE p[i - m]
  BY <1>1, ConcatProperties
<1>4. /\ b \in Seq(S) /\ Len(b) = Len(u) + 1 /\ b[Len(u) + 1] = x
      /\ \A i \in 1..Len(u) : b[i] = u[i]
  BY <1>2, AppendProperties
<1> HIDE DEF a, b, m, n
<1>5. Len(a) = (m + n) + 1 /\ Len(b) = (m + n) + 1
  BY <1>1, <1>2, <1>3, <1>4
<1>6. ASSUME NEW i \in 1..Len(a) PROVE a[i] = b[i]
  <2>1. CASE i <= m
    <3>1. i \in 1..(m + n) /\ i \in 1..(m + Len(p))
      BY <1>1, <1>2, <2>1, <1>5
    <3> QED  BY <1>2, <1>3, <1>4, <2>1, <3>1
  <2>2. CASE i > m /\ i <= m + n
    <3>1. i - m \in 1..n /\ i \in 1..(m + n) /\ i \in 1..(m + Len(p)) /\ ~(i <= m)
      BY <1>1, <1>2, <1>5, <2>2
    <3>2. a[i] = t[i - m]
      BY <1>1, <1>3, <3>1
    <3>3. b[i] = t[i - m]
      BY <1>2, <1>4, <3>1
    <3> QED  BY <3>2, <3>3
  <2>3. CASE i = (m + n) + 1
    <3>1. i - m = n + 1 /\ ~(i <= m) /\ i \in 1..(m + Len(p)) /\ i = Len(u) + 1
      BY <1>1, <1>2, <1>5, <2>3
    <3> QED  BY <1>1, <1>3, <1>4, <3>1
  <2> QED  BY <1>2, <1>5, <2>1, <2>2, <2>3
<1>7. a = b
  <2>1. Len(a) = Len(b)
    BY <1>5
  <2> QED  BY <1>3, <1>4, <1>6, <2>1, SeqEqual
<1> QED  BY <1>7 DEF a, b, p, u

LEMMA SuffixEdges ==
    ASSUME NEW S, NEW s \in Seq(S)
    PROVE  /\ Suffix(s, 0) = s /\ Suffix(s, Len(s)) = <<>>
           /\ SubSeq(s, 1, 0) = <<>> /\ SubSeq(s, 1, Len(s)) = s
           /\ Len(s) \in Nat
<1>1. Len(s) \in Nat
  BY LenProperties
<1> QED  BY <1>1, SubSeqFull, SubSeqEmpty DEF Suffix

\* The batch goes on from its next record.
LEMMA SuffixOfSuffix ==
    ASSUME NEW S, NEW s \in Seq(S), NEW k \in Nat, k < Len(s)
    PROVE  /\ Suffix(s, k) # <<>> /\ Suffix(s, k)[1] = s[k + 1]
           /\ Suffix(Suffix(s, k), 1) = Suffix(s, k + 1)
<1> DEFINE t == Suffix(s, k)
           a == Suffix(t, 1)
           b == Suffix(s, k + 1)
<1>1. /\ t \in Seq(S) /\ Len(t) = Len(s) - k /\ Len(s) \in Nat
      /\ \A i \in 1..Len(t) : t[i] = s[k + i]
  BY SuffixElements
<1>2. /\ b \in Seq(S) /\ Len(b) = Len(s) - (k + 1)
      /\ \A i \in 1..Len(b) : b[i] = s[(k + 1) + i]
  <2>1. k + 1 \in Nat /\ k + 1 <= Len(s)
    BY <1>1
  <2> HIDE DEF t
  <2> QED  BY <2>1, SuffixElements
<1> HIDE DEF t, b
<1>3. /\ a \in Seq(S) /\ Len(a) = Len(t) - 1
      /\ \A i \in 1..Len(a) : a[i] = t[1 + i]
  BY <1>1, SuffixElements
<1> HIDE DEF a
<1>4. Len(a) = Len(b)
  BY <1>1, <1>2, <1>3
<1>5. ASSUME NEW i \in 1..Len(a) PROVE a[i] = b[i]
  <2>1. 1 + i \in 1..Len(t) /\ k + (1 + i) = (k + 1) + i
    BY <1>1, <1>3
  <2> QED  BY <1>1, <1>2, <1>3, <1>4, <2>1
<1>6. a = b
  BY <1>2, <1>3, <1>4, <1>5, SeqEqual
<1>7. t # <<>> /\ t[1] = s[k + 1]
  BY <1>1, EmptySeq
<1> QED  BY <1>6, <1>7 DEF a, b, t

-----------------------------------------------------------------------------
(* The places of the writer *)

Places ==
    /\ wpc = "write" => batch # <<>>
    /\ wpc = "exited" => batch = <<>>
    /\ wpc \in {"select", "exited"} => pos = 0
    /\ wpc \in {"select", "ack", "exited"} /\ ~broken => buf = <<>>
    /\ broken => diskFailed
    /\ proc = "closed" => wpc = "exited"
    /\ proc = "down" => wpc = "select" /\ batch = <<>> /\ writeChan = <<>> /\ buf = <<>> /\ ~broken

LEMMA PlacesKeep ==
    ASSUME TypeOK, Places, [Next]_vars
    PROVE  Places'
<1>1. ASSUME NEW c \in Callers, CallerStep(c) PROVE Places'
  BY <1>1 DEF CallerStep, Send, SendPanics, TakeAck, Timeout, Places, writerVars, diskVars
<1>2. CASE Receive
  <2>1. batch' # <<>>
    BY <1>2, HeadTailProperties, AppendProperties, EmptySeq DEF Receive, TypeOK
  <2>2. wpc' \in {"write", "select"} /\ wpc = "select" /\ proc # "down"
    BY <1>2 DEF Receive
  <2> QED  BY <1>2, <2>1, <2>2 DEF Receive, Places, diskVars
<1>3. CASE Tick \/ WriterStop
  BY <1>3 DEF Tick, TickDue, WriterStop, AfterStop, Places, diskVars
<1>4. CASE Rotate
  BY <1>4 DEF Rotate, Flushing, Places
<1>5. CASE WriteRecord
  BY <1>5 DEF WriteRecord, Flushing, Places
<1>6. CASE FlushAndSync
  BY <1>6 DEF FlushAndSync, Flushing, Places, diskVars
<1>7. CASE SendAck
  BY <1>7 DEF SendAck, Places, diskVars
<1>8. CASE EndFlush
  BY <1>8 DEF EndFlush, BatchAfterFlush, Places, diskVars
<1>9. CASE CloseStart
  BY <1>9 DEF CloseStart, Places, writerVars, diskVars
<1>10. CASE CloseEnd
  BY <1>10 DEF CloseEnd, Places, writerVars, TypeOK
<1>11. ASSUME NEW w, EndProcess(w) PROVE Places'
  BY <1>11 DEF EndProcess, Places
<1>12. CASE Restart
  BY <1>12 DEF Restart, Places, writerVars
<1>13. CASE UNCHANGED vars
  BY <1>13 DEF vars, Places
<1> QED  BY <1>1, <1>2, <1>3, <1>4, <1>5, <1>6, <1>7, <1>8, <1>9, <1>10, <1>11, <1>12, <1>13
            DEF Next, WriterStep, ProcessStep, Crash, Exit

-----------------------------------------------------------------------------
(* The kinds of steps *)

\* A write puts whole records of buf in the file, from its first one, and perhaps a torn one.
LEMMA PartialWriteIs ==
    ASSUME buf \in Seq(Records), NEW w \in PartialWrites
    PROVE  /\ Written(w) \in 0..Len(buf) /\ Len(buf) \in Nat
           /\ \A i \in 1..Written(w) : i \in 1..Len(w) /\ w[i] = buf[i]
           /\ \/ Len(w) = Written(w)
              \/ Len(w) = Written(w) + 1 /\ w[Len(w)] = Torn
           /\ w \in Seq(Entries)
<1>1. /\ Len(buf) \in Nat /\ \A i \in 1..Len(buf) : buf[i] \in Records /\ buf[i] # Torn
      /\ w \in Seq(Entries)
  BY LenProperties, ElementOfSeq, SizesAssumption, PartialWritesType DEF Records, Torn
<1>2. ASSUME NEW k \in 0..Len(buf)
      PROVE  /\ SubSeq(buf, 1, k) \in Seq(Records) /\ Len(SubSeq(buf, 1, k)) = k
             /\ \A i \in 1..k : SubSeq(buf, 1, k)[i] = buf[i]
  <2>1. \A i \in 1..k : buf[i] \in Records
    BY <1>1
  <2> QED  BY <1>1, <2>1, SubSeqProperties
<1>3. CASE \E k \in 0..Len(buf) : w = SubSeq(buf, 1, k)
  <2>1. PICK k \in 0..Len(buf) : w = SubSeq(buf, 1, k)
    BY <1>3
  <2>2. Len(w) = k /\ \A i \in 1..k : w[i] = buf[i]
    BY <1>2, <2>1
  <2>3. w # <<>> => w[Len(w)] # Torn
    <3>1. w # <<>> => k \in 1..Len(buf)
      BY <1>1, <2>2, EmptySeq
    <3> QED  BY <1>1, <2>2, <3>1
  <2>4. Written(w) = k
    BY <2>2, <2>3 DEF Written
  <2> QED  BY <1>1, <2>2, <2>4
<1>4. CASE \E k \in 0..(Len(buf) - 1) : w = Append(SubSeq(buf, 1, k), Torn)
  <2>1. PICK k \in 0..(Len(buf) - 1) : w = Append(SubSeq(buf, 1, k), Torn)
    BY <1>4
  <2>2. k \in 0..Len(buf)
    BY <1>1
  <2>3. SubSeq(buf, 1, k) \in Seq(Entries) /\ Torn \in Entries
    BY <1>2, <2>2, SeqMonotonic DEF Entries
  <2>4. /\ Len(w) = k + 1 /\ w[k + 1] = Torn
        /\ \A i \in 1..k : w[i] = buf[i]
    BY <1>2, <2>1, <2>2, <2>3, AppendProperties
  <2>5. w # <<>>
    BY <1>1, <2>4, EmptySeq
  <2>6. Written(w) = k
    BY <2>4, <2>5 DEF Written
  <2> QED  BY <1>1, <2>2, <2>4, <2>6
<1> QED  BY <1>3, <1>4 DEF PartialWrites

\* All of buf and nothing at all are such writes.
LEMMA WholeAndNone ==
    ASSUME buf \in Seq(Records)
    PROVE  /\ buf \in PartialWrites /\ Written(buf) = Len(buf)
           /\ <<>> \in PartialWrites /\ Written(<<>>) = 0
           /\ Len(buf) \in Nat /\ Len(<<>>) = 0
<1>1. SubSeq(buf, 1, Len(buf)) = buf /\ SubSeq(buf, 1, 0) = <<>> /\ Len(buf) \in Nat
  BY SuffixEdges
<1>2. buf \in PartialWrites /\ <<>> \in PartialWrites
  <2>1. Len(buf) \in 0..Len(buf) /\ 0 \in 0..Len(buf)
    BY <1>1
  <2> QED  BY <1>1, <2>1 DEF PartialWrites
<1>3. Len(<<>>) = 0
  BY EmptySeq
<1>4. Written(<<>>) = 0
  BY <1>3 DEF Written
<1>5. Written(buf) = Len(buf)
  <2>1. buf # <<>> => Len(buf) \in 1..Len(buf)
    BY EmptySeq
  <2>2. buf # <<>> => buf[Len(buf)] # Torn
    BY <2>1, ElementOfSeq, SizesAssumption DEF Records, Torn
  <2> QED  BY <2>2 DEF Written
<1> QED  BY <1>1, <1>2, <1>3, <1>4, <1>5

\* Records accepted and not yet through a flushBatch.
Unflushed == Len(writeChan) + (IF wpc = "ack" THEN 0 ELSE Len(batch))

\* A record moves, and nothing else.
Moves ==
    /\ sent' = sent /\ segs' = segs /\ lost' = lost /\ diskFailed' = diskFailed
    /\ (buf \o Pending \o writeChan)' = buf \o Pending \o writeChan
    /\ InMemory' = InMemory
    /\ flushed' + Unflushed' = flushed + Unflushed

\* A record is skipped.
Skips ==
    /\ sent' = sent /\ segs' = segs /\ lost' = lost /\ diskFailed'
    /\ Later(0)

\* w goes from buf to the current file.
AfterWrite(w) == {AppendToCurrent(w), Append(AppendToCurrent(w), <<>>)}
Writes(w) ==
    /\ w \in PartialWrites
    /\ sent' = sent /\ lost' = lost /\ segs' \in AfterWrite(w)
    /\ Pending' = Pending /\ writeChan' = writeChan /\ Later(Written(w))
    /\ diskFailed' \/ (w = buf /\ diskFailed' = diskFailed)
    /\ flushed' + Unflushed' = flushed + Unflushed

\* The process ends, in the middle of a write of w.
Ends(w) ==
    /\ w \in PartialWrites /\ EndProcess(w) /\ Later(Written(w))
    /\ w = <<>> \/ wpc = "write"

\* A part of the batch that has its place.
LEMMA PendingIs ==
    ASSUME TypeOK
    PROVE  /\ wpc # "ack" => Pending = Suffix(batch, pos)
           /\ wpc = "ack" => Pending = <<>>
           /\ wpc # "ack" /\ pos = 0 => Pending = batch
           /\ wpc # "ack" /\ pos = Len(batch) => Pending = <<>>
<1>1. batch \in Seq(Records)
  BY DEF TypeOK
<1> QED  BY <1>1, SuffixEdges DEF Pending, Suffix

LEMMA StaysPut ==
    ASSUME UNCHANGED <<sent, segs, lost, diskFailed, buf, writeChan, flushed>>,
           Pending' = Pending, Unflushed' = Unflushed
    PROVE  Moves
BY DEF Moves, InMemory

LEMMA ElementsOfConcat ==
    ASSUME NEW S, NEW s \in Seq(S), NEW t \in Seq(S)
    PROVE  ToSet(s \o t) = ToSet(s) \cup ToSet(t)
<1> DEFINE m == Len(s)
           n == Len(t)
           u == s \o t
<1>1. /\ m \in Nat /\ n \in Nat /\ u \in Seq(S) /\ Len(u) = m + n
      /\ \A i \in 1..(m + n) : u[i] = IF i <= m THEN s[i] ELSE t[i - m]
  BY ConcatProperties, LenProperties
<1>2. /\ \A e : e \in ToSet(s) <=> \E i \in 1..m : s[i] = e
      /\ \A e : e \in ToSet(t) <=> \E i \in 1..n : t[i] = e
  BY ToSetIs
<1> HIDE DEF m, n, u
<1>3. \A e : e \in ToSet(u) <=> \E i \in 1..(m + n) : u[i] = e
  BY <1>1, ToSetIs
<1>4. ASSUME NEW e \in ToSet(u) PROVE e \in ToSet(s) \cup ToSet(t)
  <2>1. PICK i \in 1..(m + n) : u[i] = e
    BY <1>3, <1>4
  <2>2. CASE i <= m
    <3>1. i \in 1..m /\ s[i] = e
      BY <1>1, <2>1, <2>2
    <3> QED  BY <1>2, <3>1
  <2>3. CASE i > m
    <3>1. i - m \in 1..n /\ t[i - m] = e
      BY <1>1, <2>1, <2>3
    <3> QED  BY <1>2, <3>1
  <2> QED  BY <1>1, <2>2, <2>3
<1>5. ASSUME NEW e \in ToSet(s) PROVE e \in ToSet(u)
  <2>1. PICK i \in 1..m : s[i] = e
    BY <1>2, <1>5
  <2>2. i \in 1..(m + n) /\ u[i] = e
    BY <1>1, <2>1
  <2> QED  BY <1>3, <2>2
<1>6. ASSUME NEW e \in ToSet(t) PROVE e \in ToSet(u)
  <2>1. PICK i \in 1..n : t[i] = e
    BY <1>2, <1>6
  <2>2. m + i \in 1..(m + n) /\ ~(m + i <= m) /\ (m + i) - m = i
    BY <1>1
  <2>3. u[m + i] = e
    BY <1>1, <2>1, <2>2
  <2> QED  BY <1>3, <2>2, <2>3
<1>7. ToSet(u) = ToSet(s) \cup ToSet(t)
  BY <1>4, <1>5, <1>6
<1> QED  BY <1>7 DEF u

\* The record a writer takes leaves the memory as a whole as it was.
LEMMA ReceiveMoves ==
    ASSUME TypeOK, Places, Receive
    PROVE  Moves
<1>1. /\ batch \in Seq(Records) /\ writeChan \in Seq(Records) /\ buf \in Seq(Records)
      /\ writeChan # <<>> /\ wpc = "select" /\ pos = 0
      /\ batch' = Append(batch, Head(writeChan)) /\ writeChan' = Tail(writeChan)
      /\ wpc' # "ack" /\ pos' = 0 /\ buf' = buf
  BY DEF TypeOK, Receive, Places, diskVars
<1>2. /\ Head(writeChan) \in Records /\ Tail(writeChan) \in Seq(Records)
      /\ Append(batch, Head(writeChan)) \o Tail(writeChan) = batch \o writeChan
  BY <1>1, HeadMoves
<1>3. /\ Len(batch') = Len(batch) + 1 /\ Len(writeChan') = Len(writeChan) - 1
      /\ batch' \in Seq(Records) /\ Len(batch) \in Nat /\ Len(writeChan) \in Nat
  BY <1>1, <1>2, AppendProperties, HeadTailProperties, LenProperties
<1>4. Pending = batch
  BY <1>1, PendingIs
<1>5. Pending' = batch'
  <2>1. SubSeq(batch', 1, Len(batch')) = batch'
    BY <1>3, SuffixEdges
  <2> QED  BY <1>1, <2>1 DEF Pending
<1>6. (buf \o Pending \o writeChan)' = buf \o Pending \o writeChan
  <2>1. buf \o (Append(batch, Head(writeChan)) \o Tail(writeChan))
          = (buf \o Append(batch, Head(writeChan))) \o Tail(writeChan)
    <3>1. PICK a \in Seq(Records), b \in Seq(Records), d \in Seq(Records) :
             a = buf /\ b = Append(batch, Head(writeChan)) /\ d = Tail(writeChan)
      BY <1>1, <1>2, <1>3
    <3>2. a \o (b \o d) = (a \o b) \o d
      BY ConcatAssociative
    <3> QED  BY <3>1, <3>2
  <2>2. buf \o (batch \o writeChan) = (buf \o batch) \o writeChan
    <3>1. PICK a \in Seq(Records), b \in Seq(Records), d \in Seq(Records) :
             a = buf /\ b = batch /\ d = writeChan
      BY <1>1
    <3>2. a \o (b \o d) = (a \o b) \o d
      BY ConcatAssociative
    <3> QED  BY <3>1, <3>2
  <2> QED  BY <1>1, <1>2, <1>4, <1>5, <2>1, <2>2, Zenon
<1>7. InMemory' = InMemory
  <2>1. ToSet(Pending) \cup ToSet(writeChan) = ToSet(batch \o writeChan)
    BY <1>1, <1>4, ElementsOfConcat
  <2>2. ToSet(Pending') \cup ToSet(writeChan') = ToSet(batch' \o writeChan')
    <3>1. batch' \in Seq(Records) /\ writeChan' \in Seq(Records) /\ Pending' = batch'
      BY <1>1, <1>2, <1>3, <1>5
    <3> QED  BY <3>1, ElementsOfConcat
  <2>3. batch' \o writeChan' = batch \o writeChan
    BY <1>1, <1>2, Zenon
  <2> QED  BY <1>1, <2>1, <2>2, <2>3 DEF InMemory
<1>8. flushed' = flushed /\ Unflushed' = Unflushed
  BY <1>1, <1>3 DEF Receive, history, Unflushed
<1> QED  BY <1>6, <1>7, <1>8 DEF Moves, Receive, diskVars, history

\* So does the record the writer puts in the bufio.Writer.
LEMMA WriteMoves ==
    ASSUME TypeOK, Places, WriteRecord, ~broken
    PROVE  Moves
<1>1. /\ batch \in Seq(Records) /\ writeChan \in Seq(Records) /\ buf \in Seq(Records)
      /\ pos \in 0..Len(batch) /\ pos < Len(batch) /\ wpc = "write"
      /\ buf' = Append(buf, batch[pos + 1]) /\ pos' = pos + 1
      /\ UNCHANGED <<sent, writeChan, wpc, batch, segs, broken, diskFailed, flushed, lost>>
  BY DEF TypeOK, WriteRecord, Flushing, history
<1>2. Len(batch) \in Nat /\ pos \in Nat /\ pos + 1 \in 1..Len(batch)
  BY <1>1, LenProperties
<1>3. batch[pos + 1] \in Records
  BY <1>1, <1>2, ElementOfSeq
<1>4. Pending = Suffix(batch, pos) /\ Pending' = Suffix(batch, pos + 1)
  BY <1>1 DEF Pending, Suffix
<1>5. /\ Pending \in Seq(Records) /\ Pending # <<>> /\ Pending[1] = batch[pos + 1]
      /\ Pending' = Suffix(Pending, 1)
  BY <1>1, <1>2, <1>4, SuffixElements, SuffixOfSuffix
<1>6. /\ buf' = Append(buf, Head(Pending)) /\ Pending' = Tail(Pending)
      /\ buf' \in Seq(Records) /\ Pending' \in Seq(Records)
      /\ Append(buf, Head(Pending)) \o Tail(Pending) = buf \o Pending
  <2>1. /\ Head(Pending) = Pending[1] /\ Tail(Pending) = Suffix(Pending, 1)
        /\ Tail(Pending) \in Seq(Records)
        /\ Append(buf, Head(Pending)) \o Tail(Pending) = buf \o Pending
    BY <1>1, <1>5, HeadMoves
  <2>2. Append(buf, batch[pos + 1]) \in Seq(Records)
    BY <1>1, <1>3, AppendProperties
  <2> QED  BY <1>1, <1>5, <2>1, <2>2
<1>7. buf' \o Pending' = buf \o Pending
  BY <1>6, Zenon
<1>8. (buf \o Pending \o writeChan)' = buf \o Pending \o writeChan
  BY <1>1, <1>7, Zenon
<1>9. InMemory' = InMemory
  <2>1. ToSet(buf) \cup ToSet(Pending) = ToSet(buf \o Pending)
    BY <1>1, <1>5, ElementsOfConcat
  <2>2. ToSet(buf') \cup ToSet(Pending') = ToSet(buf' \o Pending')
    <3>1. buf' \in Seq(Records) /\ Pending' \in Seq(Records)
      BY <1>6
    <3> QED  BY <3>1, ElementsOfConcat
  <2> QED  BY <1>1, <1>7, <2>1, <2>2 DEF InMemory
<1>10. flushed' = flushed /\ Unflushed' = Unflushed
  BY <1>1 DEF Unflushed
<1> QED  BY <1>1, <1>8, <1>9, <1>10 DEF Moves

\* A refused record, or one with no segment to go to, is skipped.
LEMMA SkippedIs ==
    ASSUME TypeOK, wpc = "write", wpc' = wpc, pos < Len(batch), pos' = pos + 1,
           diskFailed', UNCHANGED <<sent, segs, lost, buf, batch, writeChan>>
    PROVE  Skips
<1>1. /\ batch \in Seq(Records) /\ pos \in Nat /\ writeChan \in Seq(Records)
      /\ buf \in Seq(Records)
  BY LenProperties DEF TypeOK
<1>2. Pending = Suffix(batch, pos) /\ Pending' = Suffix(batch, pos + 1)
  BY <1>1 DEF Pending, Suffix
<1>3. Pending' = Suffix(Pending, 1)
  BY <1>1, <1>2, SuffixOfSuffix
<1>4. buf' = Suffix(buf, 0) /\ writeChan' = Suffix(writeChan, 0)
  BY <1>1, SuffixEdges
<1>5. Later(0)
  <2>1. 0 \in Nat /\ 1 \in Nat /\ 0 >= 0
    OBVIOUS
  <2> QED  BY <1>3, <1>4, <2>1 DEF Later
<1> QED  BY <1>5 DEF Skips

LEMMA FlushWrites ==
    ASSUME TypeOK, Places, FlushAndSync, ~broken
    PROVE  \E w : Writes(w)
<1>1. /\ buf \in Seq(Records) /\ writeChan \in Seq(Records) /\ batch \in Seq(Records)
      /\ wpc = "write" /\ pos = Len(batch) /\ wpc' = "ack"
      /\ flushed' = flushed + Len(batch) /\ batch' = batch /\ writeChan' = writeChan
      /\ sent' = sent /\ lost' = lost
      /\ flushed \in Nat /\ Len(batch) \in Nat /\ Len(writeChan) \in Nat
  BY LenProperties DEF TypeOK, FlushAndSync, Flushing
<1>2. Pending = <<>> /\ Pending' = <<>>
  BY <1>1, PendingIs DEF Pending
<1>3. flushed' + Unflushed' = flushed + Unflushed
  BY <1>1 DEF Unflushed
<1>4. /\ writeChan' = Suffix(writeChan, 0) /\ Pending' = Suffix(Pending, 0)
  <2>1. Suffix(<<>>, 0) = <<>>
    BY EmptySeq, SuffixEdges
  <2> QED  BY <1>1, <1>2, <2>1, SuffixEdges
<1>5. ASSUME NEW w \in PartialWrites, segs' = AppendToCurrent(w),
             buf' = Suffix(buf, Written(w)),
             diskFailed' \/ (w = buf /\ diskFailed' = diskFailed)
      PROVE  Writes(w)
  <2>1. Written(w) \in Nat /\ Written(w) >= Written(w) /\ 0 \in Nat
    BY <1>1, PartialWriteIs
  <2>2. Later(Written(w))
    BY <1>4, <1>5, <2>1 DEF Later
  <2> QED  BY <1>1, <1>2, <1>3, <1>5, <2>2 DEF Writes, AfterWrite
<1>6. CASE segs' = AppendToCurrent(buf) /\ buf' = <<>> /\ diskFailed' = diskFailed
  <2>1. buf \in PartialWrites /\ buf' = Suffix(buf, Written(buf))
    BY <1>1, <1>6, WholeAndNone, SuffixEdges
  <2> QED  BY <1>5, <1>6, <2>1
<1>7. CASE /\ \E w \in PartialWrites :
                 segs' = AppendToCurrent(w) /\ buf' = SubSeq(buf, Written(w) + 1, Len(buf))
           /\ diskFailed' = TRUE
  BY <1>5, <1>7 DEF Suffix
<1> QED  BY <1>6, <1>7 DEF FlushAndSync

LEMMA RotateWrites ==
    ASSUME TypeOK, Places, Rotate
    PROVE  Skips \/ \E w : Writes(w)
<1>1. /\ buf \in Seq(Records) /\ writeChan \in Seq(Records) /\ batch \in Seq(Records)
      /\ wpc = "write" /\ pos < Len(batch) /\ wpc' = wpc
      /\ batch' = batch /\ writeChan' = writeChan
      /\ sent' = sent /\ lost' = lost /\ flushed' = flushed
      /\ flushed \in Nat /\ Len(batch) \in Nat /\ Len(writeChan) \in Nat
      /\ Len(buf) \in Nat /\ diskFailed \in BOOLEAN
  BY LenProperties DEF TypeOK, Rotate, Flushing, history
<1>2. CASE pos' = pos + 1 /\ diskFailed' = TRUE /\ UNCHANGED <<segs, buf, broken>>
  BY <1>1, <1>2, SkippedIs
<1>3. CASE /\ \E w \in WrittenByRotate :
                 /\ segs' = Append(AppendToCurrent(w), <<>>)
                 /\ diskFailed' = (diskFailed \/ w # buf)
           /\ buf' = <<>> /\ pos' = pos
  <2>1. PICK w \in WrittenByRotate :
                 /\ segs' = Append(AppendToCurrent(w), <<>>)
                 /\ diskFailed' = (diskFailed \/ w # buf)
    BY <1>3
  <2>2. w \in PartialWrites
    BY <1>1, <2>1, WholeAndNone DEF WrittenByRotate
  <2>3. Pending' = Pending /\ Pending \in Seq(Records)
    BY <1>1, <1>3, MemoryTypes DEF Pending
  <2>4. /\ writeChan' = Suffix(writeChan, 0) /\ Pending' = Suffix(Pending, 0)
        /\ buf' = Suffix(buf, Len(buf))
    BY <1>1, <1>3, <2>3, SuffixEdges
  <2>5. Len(buf) >= Written(w)
    BY <1>1, <2>2, PartialWriteIs
  <2>6. Later(Written(w))
    <3>1. 0 \in Nat
      OBVIOUS
    <3> QED  BY <1>1, <2>4, <2>5, <3>1 DEF Later
  <2>7. diskFailed' \/ (w = buf /\ diskFailed' = diskFailed)
    BY <1>1, <2>1
  <2>8. flushed' + Unflushed' = flushed + Unflushed
    BY <1>1 DEF Unflushed
  <2>9. segs' \in AfterWrite(w)
    BY <2>1 DEF AfterWrite
  <2> QED  BY <1>1, <2>2, <2>3, <2>6, <2>7, <2>8, <2>9 DEF Writes
<1> QED  BY <1>2, <1>3 DEF Rotate

LEMMA CloseWrites ==
    ASSUME TypeOK, Places, CloseEnd, ~broken
    PROVE  \E w : Writes(w)
<1>1. /\ buf = <<>> /\ buf \in Seq(Records) /\ segs' = AppendToCurrent(buf) /\ buf' = <<>>
      /\ UNCHANGED <<sent, lost, writeChan, wpc, batch, pos, flushed, diskFailed>>
      /\ writeChan \in Seq(Records)
  BY DEF CloseEnd, Places, TypeOK, writerVars, history
<1>2. Pending' = Pending /\ Pending \in Seq(Records) /\ Unflushed' = Unflushed
  BY <1>1, MemoryTypes DEF Pending, Unflushed
<1>3. buf \in PartialWrites /\ Written(buf) = 0
  BY <1>1, WholeAndNone
<1>4. /\ writeChan' = Suffix(writeChan, 0) /\ Pending' = Suffix(Pending, 0)
      /\ buf' = Suffix(buf, 0)
  BY <1>1, <1>2, SuffixEdges
<1>5. Later(Written(buf))
  <2>1. 0 \in Nat /\ 0 >= 0
    OBVIOUS
  <2> QED  BY <1>3, <1>4, <2>1 DEF Later
<1>6. segs' \in AfterWrite(buf)
  BY <1>1 DEF AfterWrite
<1> QED  BY <1>1, <1>2, <1>3, <1>5, <1>6 DEF Writes

LEMMA EndIs ==
    ASSUME TypeOK, Places, Crash \/ Exit
    PROVE  \E w : Ends(w)
<1>1. PICK w : EndProcess(w) /\ (w = <<>> \/ (w \in PartialWrites /\ wpc = "write"))
  BY DEF Crash, Exit
<1>2. /\ buf \in Seq(Records) /\ Pending \in Seq(Records) /\ writeChan \in Seq(Records)
      /\ Len(buf) \in Nat /\ Len(Pending) \in Nat /\ Len(writeChan) \in Nat
  BY MemoryTypes, LenProperties
<1>3. w \in PartialWrites /\ Len(buf) >= Written(w)
  BY <1>1, <1>2, WholeAndNone, PartialWriteIs
<1>4. buf' = <<>> /\ writeChan' = <<>> /\ wpc' = "select" /\ batch' = <<>> /\ pos' = 0
  BY <1>1 DEF EndProcess
<1>5. Pending' = <<>>
  BY <1>4, EmptySeq, SuffixEdges DEF Pending, Suffix
<1>6. /\ writeChan' = Suffix(writeChan, Len(writeChan))
      /\ Pending' = Suffix(Pending, Len(Pending))
      /\ buf' = Suffix(buf, Len(buf))
  BY <1>2, <1>4, <1>5, SuffixEdges
<1>7. Later(Written(w))
  BY <1>2, <1>3, <1>6 DEF Later
<1> QED  BY <1>1, <1>3, <1>7 DEF Ends

\* The steps that leave every record where it is.
LEMMA OthersStay ==
    ASSUME TypeOK, Places,
           \/ \E c \in Callers : SendPanics(c) \/ TakeAck(c) \/ Timeout(c)
           \/ Tick \/ WriterStop \/ SendAck \/ EndFlush \/ CloseStart
           \/ (FlushAndSync \/ CloseEnd) /\ broken
           \/ UNCHANGED vars
    PROVE  Moves
<1> USE DEF Unflushed, Pending, writerVars, diskVars, history, callerVars
<1>1. ASSUME NEW c \in Callers, SendPanics(c) \/ TakeAck(c) \/ Timeout(c) PROVE Moves
  BY <1>1, StaysPut DEF SendPanics, TakeAck, Timeout
<1>2. CASE Tick
  BY <1>2, StaysPut DEF Tick
<1>3. CASE WriterStop
  <2>1. /\ UNCHANGED <<sent, segs, lost, diskFailed, buf, writeChan, flushed, batch, pos>>
        /\ wpc = "select" /\ wpc' \in {"write", "exited"}
    BY <1>3 DEF WriterStop, AfterStop
  <2>2. Pending' = Pending /\ Unflushed' = Unflushed
    BY <2>1
  <2> QED  BY <2>1, <2>2, StaysPut
<1>4. CASE SendAck
  BY <1>4, StaysPut DEF SendAck
<1>5. CASE EndFlush
  <2>1. /\ UNCHANGED <<sent, segs, lost, diskFailed, buf, writeChan, flushed>>
        /\ wpc = "ack" /\ wpc' \in {"select", "exited"} /\ batch' = <<>> /\ pos' = 0
    BY <1>5 DEF EndFlush, BatchAfterFlush
  <2>2. Len(batch') = 0 /\ SubSeq(<<>>, 1, 0) = <<>>
    BY <2>1, EmptySeq, SuffixEdges
  <2>3. Pending' = Pending
    BY <2>1, <2>2
  <2>4. Unflushed' = Unflushed
    BY <2>1, <2>2
  <2> QED  BY <2>1, <2>3, <2>4, StaysPut
<1>6. CASE CloseStart
  BY <1>6, StaysPut DEF CloseStart
<1>7. CASE FlushAndSync /\ broken
  <2>1. /\ UNCHANGED <<sent, segs, lost, diskFailed, buf, writeChan, batch>>
        /\ wpc = "write" /\ wpc' = "ack" /\ pos = Len(batch)
        /\ flushed' = flushed + Len(batch)
    BY <1>7 DEF FlushAndSync, Flushing
  <2>2. flushed \in Nat /\ Len(batch) \in Nat /\ Len(writeChan) \in Nat
    BY LenProperties DEF TypeOK
  <2>3. Pending = <<>> /\ Pending' = <<>>
    BY <2>1, PendingIs
  <2>4. flushed' + Unflushed' = flushed + Unflushed
    BY <2>1, <2>2
  <2> QED  BY <2>1, <2>3, <2>4 DEF Moves, InMemory
<1>8. CASE CloseEnd /\ broken
  BY <1>8, StaysPut DEF CloseEnd
<1>9. CASE UNCHANGED vars
  BY <1>9, StaysPut DEF vars
<1> QED  BY <1>1, <1>2, <1>3, <1>4, <1>5, <1>6, <1>7, <1>8, <1>9

Kind ==
    \/ \E c \in Callers : Send(c)
    \/ Moves \/ Skips
    \/ \E w : Writes(w)
    \/ \E w : Ends(w)
    \/ Restart

LEMMA Kinds ==
    ASSUME TypeOK, Places, [Next]_vars
    PROVE  Kind
<1>1. CASE \E c \in Callers : CallerStep(c)
  BY <1>1, OthersStay DEF CallerStep, Kind
<1>2. CASE Receive
  BY <1>2, ReceiveMoves DEF Kind
<1>3. CASE WriteRecord
  <2>1. CASE ~broken
    BY <1>3, <2>1, WriteMoves DEF Kind
  <2>2. CASE broken
    <3>1. /\ wpc = "write" /\ wpc' = wpc /\ pos < Len(batch) /\ pos' = pos + 1
          /\ UNCHANGED <<sent, segs, lost, buf, batch, writeChan, diskFailed>>
      BY <1>3, <2>2 DEF WriteRecord, Flushing, history
    <3>2. diskFailed'
      BY <2>2, <3>1 DEF Places
    <3> QED  BY <3>1, <3>2, SkippedIs DEF Kind
  <2> QED  BY <2>1, <2>2
<1>4. CASE Rotate
  BY <1>4, RotateWrites DEF Kind
<1>5. CASE FlushAndSync /\ ~broken
  BY <1>5, FlushWrites DEF Kind
<1>6. CASE CloseEnd /\ ~broken
  BY <1>6, CloseWrites DEF Kind
<1>7. CASE Crash \/ Exit
  BY <1>7, EndIs DEF Kind
<1>8. CASE Restart
  BY <1>8 DEF Kind
<1>9. CASE \/ Tick \/ WriterStop \/ SendAck \/ EndFlush \/ CloseStart
           \/ (FlushAndSync \/ CloseEnd) /\ broken
           \/ UNCHANGED vars
  BY <1>9, OthersStay DEF Kind
<1> QED  BY <1>1, <1>2, <1>3, <1>4, <1>5, <1>6, <1>7, <1>8, <1>9
         DEF Next, WriterStep, ProcessStep

-----------------------------------------------------------------------------
(* The files after a step *)

\* A write adds the entries of w at the end of the current segment, and nothing else.
LEMMA SegmentsAfterWrite ==
    ASSUME TypeOK, NEW w \in Seq(Entries), segs' \in AfterWrite(w)
    PROVE  /\ Cur \in 1..Len(segs) /\ segs[Cur] \in Seq(Entries)
           /\ Len(segs[Cur]) \in Nat /\ Len(w) \in Nat
           /\ \A s \in 1..Len(segs) : \A i \in 1..Len(segs[s]) :
                 s \in DOMAIN segs' /\ i \in DOMAIN segs'[s] /\ segs'[s][i] = segs[s][i]
           /\ \A s \in DOMAIN segs' : \A i \in DOMAIN segs'[s] :
                 \/ s \in 1..Len(segs) /\ i \in 1..Len(segs[s]) /\ segs'[s][i] = segs[s][i]
                 \/ /\ s = Cur /\ i - Len(segs[Cur]) \in 1..Len(w)
                    /\ segs'[s][i] = w[i - Len(segs[Cur])]
           /\ \A i \in 1..Len(w) :
                 /\ Cur \in DOMAIN segs' /\ Len(segs[Cur]) + i \in DOMAIN segs'[Cur]
                 /\ segs'[Cur][Len(segs[Cur]) + i] = w[i]
<1> DEFINE n == Len(segs)
           c == segs[Cur]
           a == AppendToCurrent(w)
<1>1. /\ n \in Nat /\ Cur = n /\ Cur \in 1..n /\ c \in Seq(Entries)
      /\ segs \in Seq(Seq(Entries)) /\ DOMAIN segs = 1..n
  BY EmptySeq, LenProperties, ElementOfSeq DEF TypeOK, Cur
<1>2. \A s \in 1..n : segs[s] \in Seq(Entries) /\ DOMAIN segs[s] = 1..Len(segs[s])
  BY <1>1, ElementOfSeq, LenProperties
<1>3. /\ Len(c) \in Nat /\ Len(w) \in Nat /\ c \o w \in Seq(Entries)
      /\ DOMAIN (c \o w) = 1..(Len(c) + Len(w))
      /\ \A i \in 1..(Len(c) + Len(w)) : (c \o w)[i] = IF i <= Len(c) THEN c[i] ELSE w[i - Len(c)]
  BY <1>1, ConcatProperties, LenProperties
<1>4. a = [segs EXCEPT ![Cur] = c \o w]
  BY DEF AppendToCurrent
<1>5. /\ a \in Seq(Seq(Entries)) /\ Len(a) = n /\ DOMAIN a = 1..n
      /\ a[Cur] = c \o w /\ \A s \in 1..n : s # Cur => a[s] = segs[s]
  BY <1>1, <1>3, <1>4, ExceptSeq, LenProperties
<1> HIDE DEF a, c, n
<1>6. \/ segs' = a
      \/ /\ DOMAIN segs' = 1..(n + 1) /\ DOMAIN segs'[n + 1] = {}
         /\ \A s \in 1..n : segs'[s] = a[s]
  <2>1. CASE segs' = Append(a, <<>>)
    <3>1. <<>> \in Seq(Entries) /\ DOMAIN <<>> = {}
      BY EmptySeq
    <3> QED  BY <1>1, <1>5, <2>1, <3>1, AppendProperties, LenProperties
  <2> QED  BY <2>1 DEF AfterWrite, a
<1>7. /\ \A s \in 1..n : s \in DOMAIN segs' /\ segs'[s] = a[s]
      /\ \A s \in DOMAIN segs' : s \in 1..n \/ DOMAIN segs'[s] = {}
  <2>1. CASE segs' = a
    BY <1>5, <2>1
  <2>2. CASE segs' # a
    <3>1. \A s \in 1..(n + 1) : s \in 1..n \/ s = n + 1
      BY <1>1
    <3>2. \A s \in 1..n : s \in 1..(n + 1)
      BY <1>1
    <3> QED  BY <1>6, <2>2, <3>1, <3>2
  <2> QED  BY <2>1, <2>2
<1>8. ASSUME NEW s \in 1..n, NEW i \in 1..Len(segs[s])
      PROVE  s \in DOMAIN segs' /\ i \in DOMAIN segs'[s] /\ segs'[s][i] = segs[s][i]
  <2>1. CASE s = Cur
    <3>1. segs[s] = c /\ segs'[s] = c \o w
      BY <1>5, <1>7, <2>1 DEF c
    <3>2. i \in 1..(Len(c) + Len(w)) /\ i <= Len(c)
      BY <1>3, <3>1
    <3> QED  BY <1>3, <1>7, <3>1, <3>2
  <2>2. CASE s # Cur
    BY <1>2, <1>5, <1>7, <2>2
  <2> QED  BY <2>1, <2>2
<1>9. ASSUME NEW s \in DOMAIN segs', NEW i \in DOMAIN segs'[s]
      PROVE  \/ s \in 1..n /\ i \in 1..Len(segs[s]) /\ segs'[s][i] = segs[s][i]
             \/ /\ s = Cur /\ i - Len(c) \in 1..Len(w)
                /\ segs'[s][i] = w[i - Len(c)]
  <2>1. s \in 1..n
    BY <1>7
  <2>2. CASE s = Cur
    <3>1. segs[s] = c /\ segs'[s] = c \o w
      BY <1>5, <1>7, <2>2, <2>1 DEF c
    <3>2. i \in 1..(Len(c) + Len(w))
      BY <1>3, <3>1
    <3>3. CASE i <= Len(c)
      BY <1>3, <2>1, <3>1, <3>2, <3>3
    <3>4. CASE i > Len(c)
      <4>1. i - Len(c) \in 1..Len(w)
        BY <1>3, <3>2, <3>4
      <4> QED  BY <1>3, <2>2, <3>1, <3>2, <3>4, <4>1
    <3> QED  BY <1>3, <3>2, <3>3, <3>4
  <2>3. CASE s # Cur
    BY <1>2, <1>5, <1>7, <2>1, <2>3
  <2> QED  BY <2>2, <2>3
<1>10. ASSUME NEW i \in 1..Len(w)
       PROVE  /\ Cur \in DOMAIN segs' /\ Len(c) + i \in DOMAIN segs'[Cur]
              /\ segs'[Cur][Len(c) + i] = w[i]
  <2>1. segs'[Cur] = c \o w /\ Cur \in DOMAIN segs'
    BY <1>1, <1>5, <1>7
  <2>2. Len(c) + i \in 1..(Len(c) + Len(w)) /\ (Len(c) + i) - Len(c) = i /\ ~(Len(c) + i <= Len(c))
    BY <1>3
  <2> QED  BY <1>3, <2>1, <2>2
<1> QED  BY <1>1, <1>3, <1>8, <1>9, <1>10 DEF c, n

\* What a start of the process leaves of the files: entries, or torn ones in their place.
LEMMA SegmentsAfterRestart ==
    ASSUME TypeOK, Restart
    PROVE  /\ Cur \in 1..Len(segs) /\ segs[Cur] \in Seq(Entries)
           /\ DOMAIN segs' = DOMAIN segs
           /\ \A s \in DOMAIN segs : s # Cur => segs'[s] = segs[s]
           /\ \E k \in WriteOffsets(segs[Cur]) : segs'[Cur] = Overwrite(segs[Cur], k)
           /\ \A s \in DOMAIN segs : DOMAIN segs'[s] = DOMAIN segs[s]
           /\ \A s \in DOMAIN segs : \A i \in DOMAIN segs[s] :
                 segs'[s][i] = segs[s][i] \/ segs'[s][i] = Torn
<1> DEFINE c == segs[Cur]
<1>1. /\ Cur \in 1..Len(segs) /\ c \in Seq(Entries) /\ DOMAIN segs = 1..Len(segs)
      /\ DOMAIN c = 1..Len(c)
  BY EmptySeq, LenProperties, ElementOfSeq DEF TypeOK, Cur
<1>2. PICK k \in WriteOffsets(c) : segs' = [segs EXCEPT ![Cur] = Overwrite(c, k)]
  BY DEF Restart
<1>3. DOMAIN Overwrite(c, k) = 1..Len(c)
      /\ \A i \in 1..Len(c) : Overwrite(c, k)[i] = c[i] \/ Overwrite(c, k)[i] = Torn
  BY DEF Overwrite
<1>4. DOMAIN segs' = DOMAIN segs /\ segs'[Cur] = Overwrite(c, k)
      /\ \A s \in DOMAIN segs : s # Cur => segs'[s] = segs[s]
  <2>1. segs = [s \in DOMAIN segs |-> segs[s]]
    BY DEF TypeOK
  <2> QED  BY <1>1, <1>2, <2>1
<1>5. \A s \in DOMAIN segs : DOMAIN segs'[s] = DOMAIN segs[s]
  BY <1>1, <1>3, <1>4
<1>6. \A s \in DOMAIN segs : \A i \in DOMAIN segs[s] :
                 segs'[s][i] = segs[s][i] \/ segs'[s][i] = Torn
  BY <1>1, <1>3, <1>4
<1> QED  BY <1>1, <1>2, <1>4, <1>5, <1>6

\* A restart touches nothing in memory.
LEMMA RestartMemory ==
    ASSUME Restart
    PROVE  /\ InMemory' = InMemory /\ sent' = sent
           /\ buf' = buf /\ Pending' = Pending /\ writeChan' = writeChan
           /\ flushed' = flushed /\ Unflushed' = Unflushed /\ diskFailed' = diskFailed
BY DEF Restart, writerVars, InMemory, Pending, Unflushed

\* Without a torn record it touches no file.
LEMMA RestartKeepsWhole ==
    ASSUME TypeOK, Restart, TornAt(segs[Cur]) = {}
    PROVE  segs' = segs
<1>1. /\ Cur \in 1..Len(segs) /\ segs[Cur] \in Seq(Entries) /\ DOMAIN segs = 1..Len(segs)
      /\ Len(segs[Cur]) \in Nat
  BY EmptySeq, LenProperties, ElementOfSeq DEF TypeOK, Cur
<1>2. WriteOffsets(segs[Cur]) = {Len(segs[Cur])}
  BY DEF WriteOffsets, Readable
<1>3. segs' = [segs EXCEPT ![Cur] = Overwrite(segs[Cur], Len(segs[Cur]))]
  BY <1>2 DEF Restart
<1>4. Overwrite(segs[Cur], Len(segs[Cur])) = segs[Cur]
  <2>1. segs[Cur] = [i \in 1..Len(segs[Cur]) |-> segs[Cur][i]]
    BY <1>1, LenProperties
  <2>2. \A i \in 1..Len(segs[Cur]) : i <= Len(segs[Cur])
    BY <1>1
  <2> QED  BY <2>1, <2>2 DEF Overwrite
<1>5. segs = [s \in DOMAIN segs |-> segs[s]]
  BY DEF TypeOK
<1> QED  BY <1>1, <1>3, <1>4, <1>5

-----------------------------------------------------------------------------
(* The order of records *)

FilesInOrder ==
    \A s \in DOMAIN segs : \A i \in DOMAIN segs[s] :
        /\ \A r \in InMemory : segs[s][i] < r
        /\ \A t \in DOMAIN segs : \A j \in DOMAIN segs[t] :
              (s < t \/ (s = t /\ i < j)) /\ segs[t][j] # Torn => segs[s][i] < segs[t][j]

MemoryInOrder == Increasing(buf \o Pending \o writeChan)

\* Nothing but what was accepted is anywhere.
Bounded ==
    /\ \A s \in DOMAIN segs : \A i \in DOMAIN segs[s] : segs[s][i] <= sent
    /\ \A r \in InMemory : r <= sent

LEMMA EntryTypes ==
    ASSUME TypeOK
    PROVE  /\ \A s \in DOMAIN segs : \A i \in DOMAIN segs[s] : segs[s][i] \in Entries
           /\ \A s \in DOMAIN segs : segs[s] \in Seq(Entries) /\ DOMAIN segs[s] = 1..Len(segs[s])
           /\ DOMAIN segs = 1..Len(segs)
           /\ Entries \subseteq Nat /\ Records \subseteq Nat \ {0} /\ Torn = 0
           /\ InMemory \subseteq Records /\ sent \in Nat
<1>1. /\ DOMAIN segs = 1..Len(segs)
      /\ \A s \in 1..Len(segs) : segs[s] \in Seq(Entries)
  BY LenProperties, ElementOfSeq DEF TypeOK
<1>2. \A s \in 1..Len(segs) :
          DOMAIN segs[s] = 1..Len(segs[s]) /\ \A i \in 1..Len(segs[s]) : segs[s][i] \in Entries
  BY <1>1, LenProperties, ElementOfSeq
<1>3. Entries \subseteq Nat /\ Records \subseteq Nat \ {0} /\ Torn = 0 /\ sent \in Nat
  BY SizesAssumption DEF Entries, Records, Torn, TypeOK
<1>4. InMemory \subseteq Records
  <2>1. ASSUME NEW s \in Seq(Records) PROVE ToSet(s) \subseteq Records
    BY ToSetIs, ElementOfSeq
  <2> QED  BY <2>1, MemoryTypes DEF InMemory
<1> QED  BY <1>1, <1>2, <1>3, <1>4

InOrder == FilesInOrder /\ MemoryInOrder /\ Bounded

\* The record a caller hands over is newer than all before it.
LEMMA SendOrder ==
    ASSUME TypeOK, InOrder, NEW c \in Callers, Send(c)
    PROVE  InOrder'
<1>1. /\ buf \in Seq(Records) /\ Pending \in Seq(Records) /\ writeChan \in Seq(Records)
      /\ sent \in Nat /\ sent + 1 \in Records
      /\ writeChan' = Append(writeChan, sent + 1)
      /\ UNCHANGED <<buf, Pending, segs>> /\ sent' = sent + 1
  BY MemoryTypes, SizesAssumption
     DEF Send, TypeOK, Records, Pending, writerVars, diskVars
<1> DEFINE m == buf \o Pending \o writeChan
<1>2. m \in Seq(Records) /\ (buf \o Pending \o writeChan)' = Append(m, sent + 1)
  <2>1. buf \o Pending \in Seq(Records)
    BY <1>1, ConcatProperties
  <2>2. (buf \o Pending) \o Append(writeChan, sent + 1)
          = Append((buf \o Pending) \o writeChan, sent + 1)
    BY <1>1, <2>1, ConcatAppend
  <2>3. m \in Seq(Records)
    BY <1>1, <2>1, ConcatProperties
  <2> QED  BY <1>1, <2>2, <2>3
<1>3. ToSet(m) = InMemory
  <2>1. buf \o Pending \in Seq(Records) /\ ToSet(buf \o Pending) = ToSet(buf) \cup ToSet(Pending)
    BY <1>1, ConcatProperties, ElementsOfConcat
  <2>2. ToSet(m) = ToSet(buf \o Pending) \cup ToSet(writeChan)
    <3> DEFINE p == buf \o Pending
    <3>1. p \in Seq(Records) /\ writeChan \in Seq(Records)
      BY <1>1, <2>1
    <3> HIDE DEF p
    <3>2. ToSet(p \o writeChan) = ToSet(p) \cup ToSet(writeChan)
      BY <3>1, ElementsOfConcat
    <3> QED  BY <3>2 DEF p
  <2> QED  BY <2>1, <2>2 DEF InMemory
<1> HIDE DEF m
<1>4. \A i \in 1..Len(m) : m[i] \in Nat /\ m[i] <= sent
  BY <1>2, <1>3, ToSetIs, ElementOfSeq, SizesAssumption DEF InOrder, Bounded, Records
<1>5. MemoryInOrder'
  <2>1. /\ Len(m) \in Nat /\ DOMAIN m = 1..Len(m)
        /\ DOMAIN Append(m, sent + 1) = 1..(Len(m) + 1)
        /\ Append(m, sent + 1)[Len(m) + 1] = sent + 1
        /\ \A i \in 1..Len(m) : Append(m, sent + 1)[i] = m[i]
    BY <1>1, <1>2, AppendProperties, LenProperties
  <2>2. Increasing(m)
    BY DEF InOrder, MemoryInOrder, m
  <2>3. ASSUME NEW i \in 1..(Len(m) + 1), NEW j \in 1..(Len(m) + 1), i < j
        PROVE  Append(m, sent + 1)[i] < Append(m, sent + 1)[j]
    <3>1. i \in 1..Len(m)
      BY <2>1, <2>3
    <3>2. CASE j = Len(m) + 1
      BY <1>1, <1>4, <2>1, <3>1, <3>2
    <3>3. CASE j \in 1..Len(m)
      BY <2>1, <2>2, <2>3, <3>1, <3>3 DEF Increasing
    <3> QED  BY <2>1, <3>2, <3>3
  <2>4. Increasing(Append(m, sent + 1))
    BY <2>1, <2>3 DEF Increasing
  <2> QED  BY <1>2, <2>4 DEF MemoryInOrder
<1>6. InMemory' = InMemory \cup {sent + 1}
  <2>1. ToSet(writeChan') = ToSet(writeChan) \cup {sent + 1}
    <3>1. /\ Append(writeChan, sent + 1) \in Seq(Records)
          /\ Len(Append(writeChan, sent + 1)) = Len(writeChan) + 1 /\ Len(writeChan) \in Nat
          /\ Append(writeChan, sent + 1)[Len(writeChan) + 1] = sent + 1
          /\ \A i \in 1..Len(writeChan) : Append(writeChan, sent + 1)[i] = writeChan[i]
      BY <1>1, AppendProperties, LenProperties
    <3>2. \A e : e \in ToSet(writeChan')
                  <=> \E i \in 1..(Len(writeChan) + 1) : Append(writeChan, sent + 1)[i] = e
      <4>1. writeChan' \in Seq(Records) /\ writeChan' = Append(writeChan, sent + 1)
        BY <1>1, <3>1
      <4>2. Len(writeChan') = Len(writeChan) + 1
        BY <3>1, <4>1
      <4>3. \A e : e \in ToSet(writeChan') <=> \E i \in 1..Len(writeChan') : writeChan'[i] = e
        BY <4>1, ToSetIs
      <4> QED  BY <4>1, <4>2, <4>3
    <3>3. \A e : e \in ToSet(writeChan) <=> \E i \in 1..Len(writeChan) : writeChan[i] = e
      BY <1>1, ToSetIs
    <3>4. \A i : i \in 1..(Len(writeChan) + 1) <=> i \in 1..Len(writeChan) \/ i = Len(writeChan) + 1
      BY <3>1
    <3> QED  BY <3>1, <3>2, <3>3, <3>4
  <2> QED  BY <1>1, <2>1 DEF InMemory
<1>7. \A s \in DOMAIN segs : \A i \in DOMAIN segs[s] : segs[s][i] \in Nat /\ segs[s][i] <= sent
  BY EntryTypes DEF InOrder, Bounded
<1>8. FilesInOrder'
  <2>1. \A s \in DOMAIN segs : \A i \in DOMAIN segs[s] : segs[s][i] < sent + 1
    BY <1>1, <1>7
  <2> QED  BY <1>1, <1>6, <2>1 DEF InOrder, FilesInOrder
<1>9. Bounded'
  <2>1. \A r \in InMemory : r \in Nat /\ r <= sent
    BY EntryTypes DEF InOrder, Bounded
  <2>2. \A r \in InMemory' : r <= sent + 1
    BY <1>1, <1>6, <2>1
  <2>3. \A s \in DOMAIN segs : \A i \in DOMAIN segs[s] : segs[s][i] <= sent + 1
    BY <1>1, <1>7
  <2> QED  BY <1>1, <2>2, <2>3 DEF Bounded
<1> QED  BY <1>5, <1>8, <1>9 DEF InOrder

LEMMA MovesOrder ==
    ASSUME TypeOK, InOrder, Moves
    PROVE  InOrder'
<1>1. MemoryInOrder'
  BY DEF InOrder, MemoryInOrder, Moves
<1>2. FilesInOrder' /\ Bounded'
  BY DEF InOrder, FilesInOrder, Bounded, Moves
<1> QED  BY <1>1, <1>2 DEF InOrder

LEMMA SkipsOrder ==
    ASSUME TypeOK, InOrder, Skips
    PROVE  InOrder'
<1>1. MemoryInOrder' /\ InMemory' \subseteq InMemory
  BY LaterKeeps DEF InOrder, MemoryInOrder, Skips
<1>2. FilesInOrder' /\ Bounded'
  BY <1>1 DEF InOrder, FilesInOrder, Bounded, Skips
<1> QED  BY <1>1, <1>2 DEF InOrder

LEMMA RestartOrder ==
    ASSUME TypeOK, InOrder, Restart
    PROVE  InOrder'
<1>1. /\ DOMAIN segs' = DOMAIN segs
      /\ \A s \in DOMAIN segs : DOMAIN segs'[s] = DOMAIN segs[s]
      /\ \A s \in DOMAIN segs : \A i \in DOMAIN segs[s] :
            segs'[s][i] = segs[s][i] \/ segs'[s][i] = Torn
  BY SegmentsAfterRestart
<1>2. /\ InMemory' = InMemory /\ sent' = sent
      /\ buf' = buf /\ Pending' = Pending /\ writeChan' = writeChan
  BY RestartMemory
<1>3. /\ \A s \in DOMAIN segs : \A i \in DOMAIN segs[s] : segs[s][i] \in Entries
      /\ Entries \subseteq Nat /\ Records \subseteq Nat \ {0} /\ Torn = 0
      /\ InMemory \subseteq Records /\ sent \in Nat /\ Entries = Records \cup {Torn}
  BY EntryTypes DEF Entries
<1>4. MemoryInOrder'
  BY <1>2 DEF InOrder, MemoryInOrder
<1>5. ASSUME NEW s \in DOMAIN segs', NEW i \in DOMAIN segs'[s]
      PROVE  /\ segs'[s][i] <= sent'
             /\ \A r \in InMemory' : segs'[s][i] < r
             /\ \A t \in DOMAIN segs' : \A j \in DOMAIN segs'[t] :
                  (s < t \/ (s = t /\ i < j)) /\ segs'[t][j] # Torn => segs'[s][i] < segs'[t][j]
  <2>1. s \in DOMAIN segs /\ i \in DOMAIN segs[s]
    BY <1>1
  <2>2. segs[s][i] <= sent /\ \A r \in InMemory : segs[s][i] < r
    BY <2>1 DEF InOrder, FilesInOrder, Bounded
  <2>3. segs'[s][i] <= sent' /\ \A r \in InMemory' : segs'[s][i] < r
    BY <1>1, <1>2, <1>3, <2>1, <2>2
  <2>4. ASSUME NEW t \in DOMAIN segs', NEW j \in DOMAIN segs'[t],
               s < t \/ (s = t /\ i < j), segs'[t][j] # Torn
        PROVE  segs'[s][i] < segs'[t][j]
    <3>1. t \in DOMAIN segs /\ j \in DOMAIN segs[t] /\ segs'[t][j] = segs[t][j]
      BY <1>1, <2>4
    <3>2. segs[s][i] < segs[t][j]
      BY <2>1, <2>4, <3>1 DEF InOrder, FilesInOrder
    <3>3. segs[t][j] \in Nat /\ 0 < segs[t][j]
      <4>1. segs[t][j] \in Entries /\ segs[t][j] # 0
        BY <1>3, <2>4, <3>1
      <4>2. \A e \in Entries : e \in Nat
        BY <1>3
      <4> QED  BY <4>1, <4>2
    <3> QED  BY <1>1, <1>3, <2>1, <3>1, <3>2, <3>3
  <2> QED  BY <2>3, <2>4
<1>6. FilesInOrder' /\ Bounded'
  <2>1. \A r \in InMemory' : r <= sent'
    BY <1>2 DEF InOrder, Bounded
  <2> QED  BY <1>5, <2>1 DEF FilesInOrder, Bounded
<1> QED  BY <1>4, <1>6 DEF InOrder

\* What a write adds to a file is torn, or a record that was in buf.
LEMMA WrittenEntries ==
    ASSUME TypeOK, NEW w \in PartialWrites, NEW i \in 1..Len(w)
    PROVE  /\ w[i] # Torn => /\ i \in 1..Written(w) /\ i \in 1..Len(buf)
                             /\ w[i] = buf[i] /\ w[i] \in InMemory
           /\ w[i] = Torn => i = Len(w)
<1>1. /\ Written(w) \in 0..Len(buf) /\ Len(buf) \in Nat
      /\ \A h \in 1..Written(w) : h \in 1..Len(w) /\ w[h] = buf[h]
      /\ \/ Len(w) = Written(w)
         \/ Len(w) = Written(w) + 1 /\ w[Len(w)] = Torn
  BY PartialWriteIs DEF TypeOK
<1>2. \A h \in 1..Len(buf) : buf[h] \in ToSet(buf) /\ buf[h] \in Records /\ buf[h] # Torn
  BY ToSetIs, ElementOfSeq, EntryTypes DEF TypeOK
<1>3. CASE i <= Written(w)
  <2>1. i \in 1..Written(w) /\ i \in 1..Len(buf)
    BY <1>1, <1>3
  <2> QED  BY <1>1, <1>2, <2>1 DEF InMemory
<1>4. CASE ~(i <= Written(w))
  <2>1. i = Len(w) /\ w[Len(w)] = Torn
    BY <1>1, <1>4
  <2> QED  BY <2>1
<1> QED  BY <1>3, <1>4

LEMMA AfterWriteType ==
    ASSUME TypeOK, NEW w \in Seq(Entries), NEW a \in AfterWrite(w)
    PROVE  a \in Seq(Seq(Entries)) /\ a # <<>>
<1> DEFINE b == AppendToCurrent(w)
<1>1. b \in Seq(Seq(Entries)) /\ b # <<>>
  BY AppendToCurrentType DEF TypeOK
<1> HIDE DEF b
<1>2. <<>> \in Seq(Entries)
  BY EmptySeq
<1>3. Append(b, <<>>) \in Seq(Seq(Entries)) /\ Append(b, <<>>) # <<>>
  <2>1. Append(b, <<>>) \in Seq(Seq(Entries)) /\ Len(Append(b, <<>>)) = Len(b) + 1 /\ Len(b) \in Nat
    BY <1>1, <1>2, AppendProperties, LenProperties
  <2> QED  BY <2>1, EmptySeq
<1>4. a = b \/ a = Append(b, <<>>)
  BY DEF AfterWrite, b
<1> QED  BY <1>1, <1>3, <1>4

LEMMA WriteOrder ==
    ASSUME TypeOK, InOrder, NEW w \in PartialWrites, segs' \in AfterWrite(w),
           Later(Written(w)), sent' = sent
    PROVE  InOrder'
<1> DEFINE n == Len(segs[Cur])
<1>1. w \in Seq(Entries) /\ Written(w) \in Nat /\ Written(w) <= Len(buf) /\ Len(buf) \in Nat
  BY PartialWriteIs DEF TypeOK
<1>2. /\ Cur \in 1..Len(segs) /\ Cur = Len(segs) /\ n \in Nat /\ Len(w) \in Nat
      /\ \A s \in DOMAIN segs' : \A i \in DOMAIN segs'[s] :
            \/ s \in 1..Len(segs) /\ i \in 1..Len(segs[s]) /\ segs'[s][i] = segs[s][i]
            \/ s = Cur /\ i - n \in 1..Len(w) /\ segs'[s][i] = w[i - n]
  BY <1>1, SegmentsAfterWrite DEF Cur
<1>3. /\ MemoryInOrder' /\ InMemory' \subseteq InMemory
      /\ \A r \in InMemory', i \in 1..Len(buf) : i <= Written(w) => buf[i] < r
  BY <1>1, LaterKeeps DEF InOrder, MemoryInOrder
<1>4. /\ DOMAIN segs = 1..Len(segs)
      /\ \A s \in DOMAIN segs : DOMAIN segs[s] = 1..Len(segs[s])
      /\ \A s \in DOMAIN segs : \A i \in DOMAIN segs[s] : segs[s][i] \in Entries
      /\ Entries \subseteq Nat /\ Records \subseteq Nat \ {0} /\ Torn = 0
      /\ InMemory \subseteq Records /\ sent \in Nat
  BY EntryTypes
<1>5. Len(segs) \in Nat
  BY LenProperties DEF TypeOK
<1>6. \A i \in 1..Len(w) :
         /\ w[i] # Torn => /\ i \in 1..Written(w) /\ i \in 1..Len(buf)
                           /\ w[i] = buf[i] /\ w[i] \in InMemory
         /\ w[i] = Torn => i = Len(w)
  BY WrittenEntries
<1>7. \A i, j \in 1..Len(buf) : i < j => buf[i] < buf[j]
  <2>1. Sorted(buf, Pending, writeChan)
    BY MemoryTypes, SortedConcat DEF InOrder, MemoryInOrder
  <2> QED  BY <2>1, LenProperties DEF Sorted, Increasing, TypeOK
<1> HIDE DEF n
<1>8. \A i \in 1..Len(w) : w[i] \in Nat /\ w[i] <= sent /\ \A r \in InMemory' : w[i] < r
  <2>1. ASSUME NEW i \in 1..Len(w), w[i] # Torn
        PROVE  w[i] \in Nat /\ w[i] <= sent /\ \A r \in InMemory' : w[i] < r
    <3>1. i \in 1..Written(w) /\ i \in 1..Len(buf) /\ w[i] = buf[i] /\ w[i] \in InMemory
      BY <1>6, <2>1
    <3>2. i <= Written(w)
      BY <1>1, <3>1
    <3>3. w[i] \in Nat /\ w[i] <= sent
      BY <1>4, <3>1 DEF InOrder, Bounded
    <3>4. \A r \in InMemory' : w[i] < r
      BY <1>3, <3>1, <3>2
    <3> QED  BY <3>3, <3>4
  <2>2. ASSUME NEW i \in 1..Len(w), w[i] = Torn
        PROVE  w[i] \in Nat /\ w[i] <= sent /\ \A r \in InMemory' : w[i] < r
    <3>1. \A r \in InMemory' : r \in Nat /\ 0 < r
      BY <1>3, <1>4
    <3> QED  BY <1>4, <2>2, <3>1
  <2> QED  BY <2>1, <2>2
<1>9. ASSUME NEW s \in DOMAIN segs', NEW i \in DOMAIN segs'[s]
      PROVE  segs'[s][i] <= sent' /\ \A r \in InMemory' : segs'[s][i] < r
  <2>1. CASE s \in 1..Len(segs) /\ i \in 1..Len(segs[s]) /\ segs'[s][i] = segs[s][i]
    <3>1. s \in DOMAIN segs /\ i \in DOMAIN segs[s]
      BY <1>4, <2>1
    <3>2. segs[s][i] <= sent /\ \A r \in InMemory : segs[s][i] < r
      BY <3>1 DEF InOrder, FilesInOrder, Bounded
    <3> QED  BY <1>3, <2>1, <3>2
  <2>2. CASE s = Cur /\ i - n \in 1..Len(w) /\ segs'[s][i] = w[i - n]
    BY <1>8, <2>2
  <2> QED  BY <1>2, <2>1, <2>2
<1>10. ASSUME NEW s \in DOMAIN segs', NEW i \in DOMAIN segs'[s],
              NEW t \in DOMAIN segs', NEW j \in DOMAIN segs'[t],
              s < t \/ (s = t /\ i < j), segs'[t][j] # Torn
       PROVE  segs'[s][i] < segs'[t][j]
  <2>1. CASE t \in 1..Len(segs) /\ j \in 1..Len(segs[t]) /\ segs'[t][j] = segs[t][j]
    <3>1. t \in DOMAIN segs /\ j \in DOMAIN segs[t]
      BY <1>4, <2>1
    <3>2. CASE s \in 1..Len(segs) /\ i \in 1..Len(segs[s]) /\ segs'[s][i] = segs[s][i]
      <4>1. s \in DOMAIN segs /\ i \in DOMAIN segs[s]
        BY <1>4, <3>2
      <4>2. segs[s][i] < segs[t][j]
        BY <1>10, <2>1, <3>1, <4>1 DEF InOrder, FilesInOrder
      <4> QED  BY <2>1, <3>2, <4>2
    <3>3. CASE s = Cur /\ i - n \in 1..Len(w) /\ segs'[s][i] = w[i - n]
      <4>1. ~(s < t)
        BY <1>2, <1>5, <2>1, <3>3
      <4>2. s = t /\ i < j /\ j \in 1..n
        BY <1>10, <2>1, <3>3, <4>1 DEF n
      <4>3. i \in 1..Len(segs[s]) \/ i \in DOMAIN segs'[s]
        OBVIOUS
      <4>4. ASSUME NEW d \in 1..Len(w), d = i - n, i \in Int PROVE FALSE
        BY <1>2, <4>2, <4>4
      <4>5. i \in Int
        <5>1. segs' \in Seq(Seq(Entries))
          BY <1>1, AfterWriteType
        <5>2. segs'[s] \in Seq(Entries)
          BY <5>1, ElementOfSeq, LenProperties
        <5> QED  BY <5>2, LenProperties
      <4> QED  BY <3>3, <4>4, <4>5
    <3> QED  BY <1>2, <3>2, <3>3
  <2>2. CASE t = Cur /\ j - n \in 1..Len(w) /\ segs'[t][j] = w[j - n]
    <3>1. w[j - n] # Torn /\ w[j - n] = buf[j - n] /\ j - n \in 1..Len(buf) /\ w[j - n] \in InMemory
      BY <1>6, <1>10, <2>2
    <3>2. CASE s \in 1..Len(segs) /\ i \in 1..Len(segs[s]) /\ segs'[s][i] = segs[s][i]
      <4>1. s \in DOMAIN segs /\ i \in DOMAIN segs[s]
        BY <1>4, <3>2
      <4>2. segs[s][i] < w[j - n]
        BY <3>1, <4>1 DEF InOrder, FilesInOrder
      <4> QED  BY <2>2, <3>2, <4>2
    <3>3. CASE s = Cur /\ i - n \in 1..Len(w) /\ segs'[s][i] = w[i - n]
      <4>1. i - n < j - n
        <5>1. s = t /\ i < j
          BY <1>2, <1>5, <1>10, <2>2, <3>3
        <5>2. i \in Int /\ j \in Int
          <6>1. segs' \in Seq(Seq(Entries))
            BY <1>1, AfterWriteType
          <6>2. segs'[s] \in Seq(Entries) /\ segs'[t] \in Seq(Entries)
            BY <6>1, ElementOfSeq, LenProperties
          <6> QED  BY <6>2, LenProperties
        <5> QED  BY <1>2, <5>1, <5>2
      <4>2. CASE w[i - n] = Torn
        <5>1. w[j - n] \in Nat \ {0}
          BY <1>4, <3>1
        <5> QED  BY <1>4, <2>2, <3>3, <4>2, <5>1
      <4>3. CASE w[i - n] # Torn
        <5>1. i - n \in 1..Len(buf) /\ w[i - n] = buf[i - n]
          BY <1>6, <3>3, <4>3
        <5>2. buf[i - n] < buf[j - n]
          BY <1>7, <3>1, <4>1, <5>1
        <5> QED  BY <2>2, <3>1, <3>3, <5>1, <5>2
      <4> QED  BY <4>2, <4>3
    <3> QED  BY <1>2, <3>2, <3>3
  <2> QED  BY <1>2, <2>1, <2>2
<1>11. FilesInOrder'
  BY <1>9, <1>10 DEF FilesInOrder
<1>12. Bounded'
  <2>1. \A r \in InMemory' : r <= sent'
    BY <1>3 DEF InOrder, Bounded
  <2> QED  BY <1>9, <2>1 DEF Bounded
<1> QED  BY <1>3, <1>11, <1>12 DEF InOrder

LEMMA OrderKeeps ==
    ASSUME TypeOK, InOrder, Kind
    PROVE  InOrder'
<1>1. ASSUME NEW w, Writes(w) PROVE InOrder'
  BY <1>1, WriteOrder DEF Writes
<1>2. ASSUME NEW w, Ends(w) PROVE InOrder'
  <2>1. segs' \in AfterWrite(w) /\ sent' = sent
    BY <1>2 DEF Ends, EndProcess, AfterWrite
  <2> QED  BY <1>2, <2>1, WriteOrder DEF Ends
<1> QED  BY <1>1, <1>2, SendOrder, MovesOrder, SkipsOrder, RestartOrder DEF Kind

LEMMA InitOrder == Init => InOrder
<1> SUFFICES ASSUME Init PROVE InOrder
  OBVIOUS
<1>1. buf = <<>> /\ Pending = <<>> /\ writeChan = <<>> /\ segs = << <<>> >> /\ sent = 0
  BY EmptySeq, SuffixEdges DEF Init, Pending, Suffix
<1>2. \A s \in DOMAIN segs : segs[s] = <<>>
  BY <1>1
<1>3. InMemory = {}
  <2>1. ToSet(<<>>) = {}
    BY DEF ToSet
  <2> QED  BY <1>1, <2>1 DEF InMemory
<1>4. MemoryInOrder
  <2>1. <<>> \o <<>> \o <<>> = <<>> /\ DOMAIN <<>> = {}
    BY EmptySeq, ConcatEmptySeq
  <2> QED  BY <1>1, <2>1 DEF MemoryInOrder, Increasing
<1>5. FilesInOrder /\ Bounded
  BY <1>2, <1>3 DEF FilesInOrder, Bounded
<1> QED  BY <1>4, <1>5 DEF InOrder

-----------------------------------------------------------------------------
(* No record is without a place *)

Located == ~diskFailed => 1..sent \subseteq Durable \cup lost \cup InMemory

\* Something accepted will never reach the files.
Gone == lost # {} \/ \E s \in DOMAIN segs : Torn \in ToSet(segs[s])

\* Each accepted record is counted once at most, and those that are gone are not.
Counted ==
    ~diskFailed =>
        /\ flushed + Unflushed <= sent
        /\ Gone => flushed + Unflushed < sent

LEMMA InFiles ==
    /\ \A r : r \in Durable
               <=> r # Torn /\ \E s \in DOMAIN segs : \E i \in DOMAIN segs[s] : segs[s][i] = r
    /\ \A s : Torn \in ToSet(segs[s]) <=> \E i \in DOMAIN segs[s] : segs[s][i] = Torn
BY DEF Durable, ToSet

LEMMA UnflushedType ==
    ASSUME TypeOK
    PROVE  /\ Unflushed \in Nat /\ flushed \in Nat /\ sent \in Nat
           /\ Len(writeChan) \in Nat /\ Len(batch) \in Nat
BY LenProperties, SizesAssumption DEF TypeOK, Unflushed

\* The files after a write hold what they held, and w.
LEMMA FilesAfterWrite ==
    ASSUME TypeOK, NEW w \in Seq(Entries), segs' \in AfterWrite(w)
    PROVE  /\ Durable' = Durable \cup (ToSet(w) \ {Torn})
           /\ Torn \notin ToSet(w) =>
                ((\E s \in DOMAIN segs' : Torn \in ToSet(segs'[s]))
                    => \E s \in DOMAIN segs : Torn \in ToSet(segs[s]))
<1> DEFINE n == Len(segs[Cur])
<1>1. /\ \A s \in 1..Len(segs) : \A i \in 1..Len(segs[s]) :
                 s \in DOMAIN segs' /\ i \in DOMAIN segs'[s] /\ segs'[s][i] = segs[s][i]
      /\ \A s \in DOMAIN segs' : \A i \in DOMAIN segs'[s] :
            \/ s \in 1..Len(segs) /\ i \in 1..Len(segs[s]) /\ segs'[s][i] = segs[s][i]
            \/ s = Cur /\ i - n \in 1..Len(w) /\ segs'[s][i] = w[i - n]
      /\ \A i \in 1..Len(w) :
                 /\ Cur \in DOMAIN segs' /\ n + i \in DOMAIN segs'[Cur]
                 /\ segs'[Cur][n + i] = w[i]
  BY SegmentsAfterWrite
<1> HIDE DEF n
<1>2. /\ DOMAIN segs = 1..Len(segs)
      /\ \A s \in DOMAIN segs : DOMAIN segs[s] = 1..Len(segs[s])
  BY EntryTypes
<1>3. \A e : e \in ToSet(w) <=> \E i \in 1..Len(w) : w[i] = e
  BY ToSetIs
<1>4. \A r : (\E s \in DOMAIN segs' : \E i \in DOMAIN segs'[s] : segs'[s][i] = r)
             <=> r \in ToSet(w) \/ \E s \in DOMAIN segs : \E i \in DOMAIN segs[s] : segs[s][i] = r
  BY <1>1, <1>2, <1>3
<1>5. Durable' = Durable \cup (ToSet(w) \ {Torn})
  <2>1. \A r : r \in Durable'
               <=> r # Torn /\ \E s \in DOMAIN segs' : \E i \in DOMAIN segs'[s] : segs'[s][i] = r
    BY DEF Durable, ToSet
  <2>2. \A r : r \in Durable' <=> r \in Durable \/ (r \in ToSet(w) /\ r # Torn)
    BY <1>4, <2>1, InFiles
  <2> QED  BY <2>2
<1>6. ASSUME Torn \notin ToSet(w), NEW s \in DOMAIN segs', Torn \in ToSet(segs'[s])
      PROVE  \E d \in DOMAIN segs : Torn \in ToSet(segs[d])
  <2>1. \E i \in DOMAIN segs'[s] : segs'[s][i] = Torn
    BY <1>6 DEF ToSet
  <2>2. \E d \in DOMAIN segs : \E i \in DOMAIN segs[d] : segs[d][i] = Torn
    BY <1>4, <1>6, <2>1
  <2> QED  BY <2>2, InFiles
<1> QED  BY <1>5, <1>6

LEMMA BufIsWhole ==
    ASSUME TypeOK
    PROVE  Torn \notin ToSet(buf) /\ ToSet(buf) \subseteq Records /\ Torn \notin Records
<1>1. buf \in Seq(Records) /\ Torn \notin Records
  BY EntryTypes DEF TypeOK
<1>2. ToSet(buf) \subseteq Records
  BY <1>1, ToSetIs, ElementOfSeq
<1> QED  BY <1>1, <1>2

LEMMA SendLocated ==
    ASSUME TypeOK, Located, Counted, NEW c \in Callers, Send(c)
    PROVE  Located' /\ Counted'
<1>1. /\ writeChan \in Seq(Records) /\ sent \in Nat /\ sent + 1 \in Records
      /\ writeChan' = Append(writeChan, sent + 1) /\ sent' = sent + 1
      /\ UNCHANGED <<buf, Pending, segs, wpc, batch, flushed, lost, diskFailed>>
  BY SizesAssumption
     DEF Send, TypeOK, Records, Pending, writerVars, diskVars, history
<1>2. /\ Len(writeChan') = Len(writeChan) + 1 /\ Len(writeChan) \in Nat
      /\ writeChan'[Len(writeChan) + 1] = sent + 1 /\ writeChan' \in Seq(Records)
      /\ \A i \in 1..Len(writeChan) : writeChan'[i] = writeChan[i]
  BY <1>1, AppendProperties, LenProperties
<1>3. ToSet(writeChan) \cup {sent + 1} \subseteq ToSet(writeChan')
  <2>1. ToSet(writeChan) \subseteq ToSet(writeChan')
    <3>1. \A e : e \in ToSet(writeChan') <=> \E i \in 1..Len(writeChan') : writeChan'[i] = e
      BY <1>2, ToSetIs
    <3>2. \A e : e \in ToSet(writeChan) <=> \E i \in 1..Len(writeChan) : writeChan[i] = e
      BY <1>1, ToSetIs
    <3> QED  BY <1>2, <3>1, <3>2
  <2>2. sent + 1 \in ToSet(writeChan')
    <3>1. \A e : e \in ToSet(writeChan') <=> \E i \in 1..Len(writeChan') : writeChan'[i] = e
      BY <1>2, ToSetIs
    <3>2. Len(writeChan) + 1 \in 1..Len(writeChan')
      BY <1>2
    <3> QED  BY <1>2, <3>1, <3>2
  <2> QED  BY <2>1, <2>2
<1>4. Located'
  <2>1. InMemory \cup {sent + 1} \subseteq InMemory'
    BY <1>1, <1>3 DEF InMemory
  <2>2. Durable' = Durable
    BY <1>1 DEF Durable
  <2>3. 1..(sent + 1) \subseteq (1..sent) \cup {sent + 1}
    BY <1>1
  <2> QED  BY <1>1, <2>1, <2>2, <2>3 DEF Located
<1>5. Counted'
  <2>1. Unflushed' = Unflushed + 1 /\ Unflushed \in Nat /\ flushed \in Nat
    <3>1. Unflushed \in Nat /\ flushed \in Nat /\ Len(batch) \in Nat /\ Len(writeChan) \in Nat
      BY UnflushedType
    <3>2. Unflushed' = Unflushed + 1
      <4>1. UNCHANGED <<wpc, batch>> /\ Len(writeChan') = Len(writeChan) + 1
        BY <1>1, <1>2
      <4>2. CASE wpc = "ack"
        BY <3>1, <4>1, <4>2 DEF Unflushed
      <4>3. CASE wpc # "ack"
        BY <3>1, <4>1, <4>3 DEF Unflushed
      <4> QED  BY <4>2, <4>3
    <3> QED  BY <3>1, <3>2
  <2>2. Gone' <=> Gone
    BY <1>1 DEF Gone
  <2> QED  BY <1>1, <2>1, <2>2 DEF Counted
<1> QED  BY <1>4, <1>5

LEMMA MovesLocated ==
    ASSUME TypeOK, Located, Counted, Moves \/ Skips
    PROVE  Located' /\ Counted'
<1>1. CASE Moves
  <2>1. Located'
    BY <1>1 DEF Moves, Located, Durable
  <2>2. Gone' <=> Gone
    BY <1>1 DEF Moves, Gone
  <2>3. Counted'
    BY <1>1, <2>2 DEF Moves, Counted
  <2> QED  BY <2>1, <2>3
<1>2. CASE Skips
  BY <1>2 DEF Skips, Located, Counted
<1> QED  BY <1>1, <1>2

LEMMA WritesLocated ==
    ASSUME TypeOK, Located, Counted, NEW w, Writes(w)
    PROVE  Located' /\ Counted'
<1> SUFFICES ASSUME ~diskFailed' PROVE Located' /\ Counted'
  BY DEF Located, Counted
<1>1. /\ w = buf /\ ~diskFailed /\ segs' \in AfterWrite(buf)
      /\ sent' = sent /\ lost' = lost /\ Pending' = Pending /\ writeChan' = writeChan
      /\ flushed' + Unflushed' = flushed + Unflushed
  BY DEF Writes
<1>2. buf \in Seq(Entries)
  BY SeqMonotonic DEF TypeOK, Entries
<1>3. Torn \notin ToSet(buf)
  BY BufIsWhole
<1>4. /\ Durable' = Durable \cup (ToSet(buf) \ {Torn})
      /\ (\E s \in DOMAIN segs' : Torn \in ToSet(segs'[s]))
            => \E s \in DOMAIN segs : Torn \in ToSet(segs[s])
  BY <1>1, <1>2, <1>3, FilesAfterWrite
<1>5. InMemory \subseteq ToSet(buf) \cup InMemory'
  BY <1>1 DEF InMemory
<1>6. Located'
  BY <1>1, <1>3, <1>4, <1>5 DEF Located
<1>7. Gone' => Gone
  BY <1>1, <1>4 DEF Gone
<1>8. Counted'
  BY <1>1, <1>7 DEF Counted
<1> QED  BY <1>6, <1>8

\* A buffer holds records only while their batch is being flushed.
LEMMA SomethingLeft ==
    ASSUME TypeOK, Places, ~diskFailed, wpc = "write" \/ InMemory # {}
    PROVE  Unflushed >= 1
<1>1. /\ writeChan \in Seq(Records) /\ batch \in Seq(Records) /\ pos \in 0..Len(batch)
      /\ Len(writeChan) \in Nat /\ Len(batch) \in Nat
      /\ wpc \in {"select", "write", "ack", "exited"} /\ ~broken
  BY UnflushedType DEF TypeOK, Places
<1>2. CASE wpc = "write"
  <2>1. batch # <<>>
    BY <1>2 DEF Places
  <2>2. Len(batch) # 0
    BY <1>1, <2>1, EmptySeq
  <2> QED  BY <1>1, <1>2, <2>2 DEF Unflushed
<1>3. CASE wpc # "write" /\ InMemory # {}
  <2>1. buf = <<>>
    BY <1>1, <1>3 DEF Places
  <2>2. ToSet(<<>>) = {}
    BY DEF ToSet
  <2>3. CASE ToSet(writeChan) # {}
    <3>1. Len(writeChan) # 0
      BY <1>1, <2>2, <2>3, EmptySeq
    <3> QED  BY <1>1, <3>1 DEF Unflushed
  <2>4. CASE ToSet(Pending) # {}
    <3>1. wpc # "ack"
      BY <2>2, <2>4, PendingIs
    <3>2. pos = 0
      BY <1>1, <1>3, <3>1 DEF Places
    <3>3. Pending = batch
      BY <3>1, <3>2, PendingIs
    <3>4. Len(batch) # 0
      BY <1>1, <2>2, <2>4, <3>3, EmptySeq
    <3> QED  BY <1>1, <3>1, <3>4 DEF Unflushed
  <2> QED  BY <1>3, <2>1, <2>2, <2>3, <2>4 DEF InMemory
<1> QED  BY <1>2, <1>3

LEMMA EndsLocated ==
    ASSUME TypeOK, Places, Located, Counted, NEW w, Ends(w)
    PROVE  Located' /\ Counted'
<1>1. /\ w \in PartialWrites /\ segs' \in AfterWrite(w)
      /\ lost' = lost \cup (InMemory \ ToSet(w))
      /\ sent' = sent /\ flushed' = flushed /\ diskFailed' = diskFailed
      /\ wpc' = "select" /\ batch' = <<>> /\ writeChan' = <<>>
      /\ w = <<>> \/ wpc = "write"
  BY DEF Ends, EndProcess, AfterWrite
<1>2. w \in Seq(Entries) /\ Torn \notin InMemory
  BY <1>1, PartialWriteIs, EntryTypes DEF TypeOK
<1>3. /\ Durable' = Durable \cup (ToSet(w) \ {Torn})
      /\ Torn \notin ToSet(w) =>
            ((\E s \in DOMAIN segs' : Torn \in ToSet(segs'[s]))
                => \E s \in DOMAIN segs : Torn \in ToSet(segs[s]))
  BY <1>1, <1>2, FilesAfterWrite
<1>4. Located'
  BY <1>1, <1>2, <1>3 DEF Located
<1>5. Counted'
  <2> SUFFICES ASSUME ~diskFailed PROVE /\ flushed' + Unflushed' <= sent'
                                        /\ Gone' => flushed' + Unflushed' < sent'
    BY <1>1 DEF Counted
  <2>1. Unflushed' = 0
    <3>1. Len(<<>>) = 0
      BY EmptySeq
    <3> QED  BY <1>1, <3>1 DEF Unflushed
  <2>2. Unflushed \in Nat /\ flushed \in Nat /\ sent \in Nat
    BY UnflushedType
  <2>3. flushed + Unflushed <= sent /\ (Gone => flushed + Unflushed < sent)
    BY DEF Counted
  <2>4. ASSUME Gone' PROVE Gone \/ wpc = "write" \/ InMemory # {}
    <3>1. CASE Torn \in ToSet(w)
      <4>1. w # <<>>
        BY <3>1 DEF ToSet
      <4> QED  BY <1>1, <4>1
    <3>2. CASE Torn \notin ToSet(w)
      BY <1>1, <1>3, <2>4, <3>2 DEF Gone
    <3> QED  BY <3>1, <3>2
  <2>5. ASSUME Gone' PROVE Gone \/ Unflushed >= 1
    BY <2>4, <2>5, SomethingLeft
  <2> QED  BY <1>1, <2>1, <2>2, <2>3, <2>5
<1> QED  BY <1>4, <1>5

LEMMA RestartLocated ==
    ASSUME TypeOK, Located, Counted, Restart
    PROVE  Located' /\ Counted'
<1>1. lost' = lost \cup (Durable \ Durable')
  BY DEF Restart
<1>2. /\ InMemory' = InMemory /\ sent' = sent
      /\ flushed' = flushed /\ Unflushed' = Unflushed /\ diskFailed' = diskFailed
  BY RestartMemory
<1>3. Located'
  BY <1>1, <1>2 DEF Located
<1>4. Gone' => Gone
  <2>1. CASE TornAt(segs[Cur]) = {}
    <3>1. segs' = segs
      BY <2>1, RestartKeepsWhole
    <3>2. Durable' = Durable
      BY <3>1 DEF Durable
    <3> QED  BY <1>1, <3>1, <3>2 DEF Gone
  <2>2. CASE TornAt(segs[Cur]) # {}
    <3>1. Cur \in DOMAIN segs
      BY SegmentsAfterRestart, EntryTypes
    <3>2. Torn \in ToSet(segs[Cur])
      BY <2>2, InFiles DEF TornAt
    <3> QED  BY <3>1, <3>2 DEF Gone
  <2> QED  BY <2>1, <2>2
<1>5. Counted'
  BY <1>2, <1>4 DEF Counted
<1> QED  BY <1>3, <1>5

LEMMA LocatedKeeps ==
    ASSUME TypeOK, Places, Located, Counted, Kind
    PROVE  Located' /\ Counted'
BY SendLocated, MovesLocated, WritesLocated, EndsLocated, RestartLocated DEF Kind

-----------------------------------------------------------------------------
(* No call is forgotten *)

Answered ==
    \A r \in 1..sent :
        r \in acked \/ r \in unanswered \/ \E c \in Callers : pc[c] = "waiting" /\ rec[c] = r

LEMMA AnsweredKeeps ==
    ASSUME TypeOK, Answered, [Next]_vars
    PROVE  Answered'
<1> USE DEF Answered
<1>1. ASSUME NEW c \in Callers, Send(c) PROVE Answered'
  <2>1. /\ pc[c] = "idle" /\ pc' = [pc EXCEPT ![c] = "waiting"]
        /\ rec' = [rec EXCEPT ![c] = sent + 1]
        /\ sent' = sent + 1 /\ acked' = acked /\ unanswered' = unanswered
        /\ pc = [d \in Callers |-> pc[d]] /\ rec = [d \in Callers |-> rec[d]] /\ sent \in Nat
    BY <1>1, SizesAssumption DEF Send, history, TypeOK
  <2>2. pc'[c] = "waiting" /\ rec'[c] = sent + 1
        /\ \A d \in Callers : d # c => pc'[d] = pc[d] /\ rec'[d] = rec[d]
    BY <2>1
  <2>3. \A r \in 1..(sent + 1) : r \in 1..sent \/ r = sent + 1
    BY <2>1
  <2> QED  BY <2>1, <2>2, <2>3
<1>2. ASSUME NEW c \in Callers, SendPanics(c) PROVE Answered'
  BY <1>2 DEF SendPanics, history, TypeOK
<1>3. ASSUME NEW c \in Callers, TakeAck(c) PROVE Answered'
  BY <1>3 DEF TakeAck, TypeOK
<1>4. ASSUME NEW c \in Callers, Timeout(c) PROVE Answered'
  BY <1>4 DEF Timeout, TypeOK
<1>5. ASSUME NEW w, EndProcess(w) PROVE Answered'
  BY <1>5 DEF EndProcess
<1>6. CASE UNCHANGED <<sent, callerVars, acked, unanswered>>
  BY <1>6 DEF callerVars
<1>7. CASE WriterStep
  <2>1. UNCHANGED <<sent, callerVars, acked, unanswered>>
    BY <1>7 DEF WriterStep, Receive, Tick, WriterStop, Rotate, WriteRecord, FlushAndSync,
                SendAck, EndFlush, history
  <2> QED  BY <1>6, <2>1
<1>8. CASE CloseStart \/ CloseEnd \/ Restart
  <2>1. UNCHANGED <<sent, callerVars, acked, unanswered>>
    BY <1>8 DEF CloseStart, CloseEnd, Restart, history
  <2> QED  BY <1>6, <2>1
<1>9. CASE UNCHANGED vars
  BY <1>6, <1>9 DEF vars, callerVars
<1> QED  BY <1>1, <1>2, <1>3, <1>4, <1>5, <1>7, <1>8, <1>9
         DEF Next, CallerStep, ProcessStep, Crash, Exit

-----------------------------------------------------------------------------
(* The invariant *)

LogInv ==
    /\ IInv /\ Places
    /\ InOrder
    /\ Located /\ Counted
    /\ Answered

LEMMA InitLogInv == Init => LogInv
<1> SUFFICES ASSUME Init PROVE LogInv
  OBVIOUS
<1>1. IInv
  BY InitIInv
<1>2. Places
  BY EmptySeq DEF Init, Places
<1>3. InOrder
  BY InitOrder
<1>4. sent = 0 /\ 1..sent = {}
  BY DEF Init
<1>5. Located /\ Answered
  BY <1>4 DEF Located, Answered
<1>6. Counted
  <2>1. flushed = 0 /\ Unflushed = 0
    <3>1. Len(<<>>) = 0
      BY EmptySeq
    <3> QED  BY <3>1 DEF Init, Unflushed
  <2>2. ~Gone
    <3>1. segs = << <<>> >> /\ lost = {}
      BY DEF Init
    <3>2. \A s \in DOMAIN segs : segs[s] = <<>>
      BY <3>1
    <3> QED  BY <3>1, <3>2 DEF Gone, ToSet
  <2> QED  BY <1>4, <2>1, <2>2 DEF Counted
<1> QED  BY <1>1, <1>2, <1>3, <1>5, <1>6 DEF LogInv

\* The invariant behind the next three theorems and the refinement.
THEOREM LogInvHolds == Spec => []LogInv
<1>1. Init => LogInv
  BY InitLogInv
<1>2. LogInv /\ IInv' /\ [Next]_vars => LogInv'
  <2> SUFFICES ASSUME LogInv, IInv', [Next]_vars PROVE LogInv'
    OBVIOUS
  <2>1. TypeOK
    BY DEF LogInv, IInv
  <2>2. Places'
    BY <2>1, PlacesKeep DEF LogInv
  <2>3. Kind
    BY <2>1, Kinds DEF LogInv
  <2>4. InOrder'
    BY <2>1, <2>3, OrderKeeps DEF LogInv
  <2>5. Located' /\ Counted'
    BY <2>1, <2>3, LocatedKeeps DEF LogInv
  <2>6. Answered'
    BY <2>1, AnsweredKeeps DEF LogInv
  <2> QED  BY <2>2, <2>4, <2>5, <2>6 DEF LogInv
<1> QED  BY <1>1, <1>2, IInvHolds, PTL DEF Spec

\* However calls, batches, rotations, failed and cut-short writes, crashes and restarts
\* interleave, records go from writeChan through batch and the bufio.Writer to the files
\* in the order of their acceptance, none twice (transactions.go:2448-2550).
THEOREM OrderHolds == Spec => []LogInOrder
<1>1. LogInv => LogInOrder
  BY DEF LogInv, InOrder, FilesInOrder, MemoryInOrder, LogInOrder
<1> QED  BY <1>1, LogInvHolds, PTL

\* When Close has returned and no write has failed, every accepted record is on disk,
\* but for what a crash took and what is still in writeChan (transactions.go:2484-2489
\* and 2656-2672).
THEOREM CloseHolds == Spec => []CloseFlushesReceived
<1>1. LogInv => CloseFlushesReceived
  <2> SUFFICES ASSUME LogInv, ~diskFailed, proc = "closed"
               PROVE  1..sent \subseteq Durable \cup lost \cup ToSet(writeChan)
    BY DEF CloseFlushesReceived
  <2>1. wpc = "exited" /\ batch = <<>> /\ pos = 0 /\ ~broken
    BY DEF LogInv, Places
  <2>2. buf = <<>> /\ Pending = <<>>
    BY <2>1, PendingIs DEF LogInv, IInv, Places
  <2>3. ToSet(<<>>) = {}
    BY DEF ToSet
  <2> QED  BY <2>2, <2>3 DEF LogInv, Located, InMemory
<1> QED  BY <1>1, LogInvHolds, PTL

\* The tokens of ackChan name no record, yet when every call has returned nil and no
\* write has failed, every record is on disk (transactions.go:2449-2459 and 2543-2548):
\* as many flushes as records leave nothing in memory and nothing lost.
THEOREM QuietHolds == Spec => []QuietMeansDurable
<1>1. LogInv => QuietMeansDurable
  <2> SUFFICES ASSUME LogInv, ~diskFailed, NobodyWaits, unanswered = {}
               PROVE  1..sent \subseteq Durable
    BY DEF QuietMeansDurable
  <2>1. TypeOK
    BY DEF LogInv, IInv
  <2>2. sent \in Nat /\ flushed \in Nat /\ acks \in Nat /\ Unflushed \in Nat
    BY <2>1, UnflushedType DEF TypeOK
  <2>3. 1..sent \subseteq acked
    BY DEF LogInv, Answered, NobodyWaits
  <2>4. sent <= Cardinality(acked) /\ Cardinality(acked) \in Nat
    <3>1. IsFiniteSet(acked) /\ Cardinality(acked) \in Nat
      BY <2>1, AckedIsFinite DEF TypeOK
    <3>2. Cardinality(1..sent) = sent
      BY <2>2, FS_Interval
    <3> QED  BY <2>3, <3>1, <3>2, FS_Subset
  <2>5. Cardinality(acked) <= flushed
    <3>1. Cardinality(acked) + acks + ToAck <= flushed
      BY DEF LogInv, IInv, AcksBackedByFlushes
    <3>2. ToAck \in Nat
      BY <2>1, LenProperties DEF ToAck, TypeOK
    <3> QED  BY <2>2, <2>4, <3>1, <3>2
  <2>6. Unflushed = 0 /\ ~Gone
    BY <2>2, <2>4, <2>5 DEF LogInv, Counted
  <2>7. InMemory = {}
    BY <2>1, <2>2, <2>6, SomethingLeft DEF LogInv
  <2> QED  BY <2>6, <2>7 DEF LogInv, Located, Gone
<1> QED  BY <1>1, LogInvHolds, PTL

-----------------------------------------------------------------------------
(* Sequences of sequences, put end to end *)

LEMMA LeastNumber ==
    ASSUME NEW S \in SUBSET Nat, S # {}
    PROVE  \E i \in S : \A j \in S : i <= j
<1>1. PICK i \in S : \A j \in S : ~(<<j, i>> \in OpToRel(<, Nat))
  BY NatLessThanWellFounded, WFMin
<1>2. \A j \in S : <<j, i>> \in Nat \X Nat
  OBVIOUS
<1>3. \A j \in S : ~(j < i)
  BY <1>1, <1>2 DEF OpToRel
<1> QED  BY <1>3

IsFlat(f, ss, n) == f = [i \in 1..n |-> IF i = 1 THEN ss[i] ELSE f[i - 1] \o ss[i]]

SameTo(k, ss, tt) == \A i \in 1..k : ss[i] = tt[i]

LEMMA FlatAgree ==
    ASSUME NEW f, NEW g, NEW ss, NEW tt, NEW n \in Nat, NEW m \in Nat,
           IsFlat(f, ss, n), IsFlat(g, tt, m), NEW k \in Nat, k <= n, k <= m,
           SameTo(k, ss, tt)
    PROVE  SameTo(k, f, g)
<1> DEFINE Bad == {i \in 1..k : f[i] # g[i]}
<1> SUFFICES ASSUME Bad # {} PROVE FALSE
  BY DEF SameTo
<1>1. PICK i \in Bad : \A j \in Bad : i <= j
  <2>1. Bad \in SUBSET Nat
    OBVIOUS
  <2> HIDE DEF Bad
  <2> QED  BY <2>1, LeastNumber
<1>2. i \in 1..k /\ f[i] # g[i]
  OBVIOUS
<1>3. i \in 1..n /\ i \in 1..m /\ ss[i] = tt[i]
  BY <1>2 DEF SameTo
<1>4. /\ f[i] = IF i = 1 THEN ss[i] ELSE f[i - 1] \o ss[i]
      /\ g[i] = IF i = 1 THEN tt[i] ELSE g[i - 1] \o tt[i]
  BY <1>3 DEF IsFlat
<1>5. ASSUME i # 1 PROVE f[i - 1] = g[i - 1]
  <2>1. i - 1 \in 1..k /\ ~(i <= i - 1)
    BY <1>2, <1>5
  <2> QED  BY <1>1, <2>1
<1> QED  BY <1>2, <1>3, <1>4, <1>5

LEMMA FlatUnique ==
    ASSUME NEW f, NEW g, NEW ss, NEW n \in Nat, IsFlat(f, ss, n), IsFlat(g, ss, n)
    PROVE  f = g
<1>1. n <= n /\ SameTo(n, ss, ss)
  BY DEF SameTo
<1>2. SameTo(n, f, g)
  BY <1>1, FlatAgree
<1>3. f = [i \in 1..n |-> f[i]] /\ g = [i \in 1..n |-> g[i]]
  BY DEF IsFlat
<1> QED  BY <1>2, <1>3 DEF SameTo

LEMMA FlatExists ==
    ASSUME NEW ss, NEW n \in Nat
    PROVE  \E f : IsFlat(f, ss, n)
<1> DEFINE Bad == {k \in Nat : ~ \E f : IsFlat(f, ss, k)}
<1> SUFFICES ASSUME Bad # {} PROVE FALSE
  OBVIOUS
<1>1. PICK k \in Bad : \A j \in Bad : k <= j
  <2>1. Bad \in SUBSET Nat
    OBVIOUS
  <2> HIDE DEF Bad
  <2> QED  BY <2>1, LeastNumber
<1>2. k \in Nat /\ ~ \E f : IsFlat(f, ss, k)
  OBVIOUS
<1>3. CASE k = 0
  <2> DEFINE f == [i \in 1..0 |-> IF i = 1 THEN ss[i] ELSE ss[i - 1] \o ss[i]]
  <2>1. f = [i \in 1..0 |-> IF i = 1 THEN ss[i] ELSE f[i - 1] \o ss[i]]
    OBVIOUS
  <2>2. IsFlat(f, ss, k)
    BY <1>3, <2>1 DEF IsFlat
  <2> QED  BY <1>2, <2>2
<1>4. CASE k # 0
  <2>1. k - 1 \in Nat /\ ~(k <= k - 1)
    BY <1>2, <1>4
  <2>2. PICK f : IsFlat(f, ss, k - 1)
    BY <1>1, <2>1
  <2> DEFINE g == [i \in 1..k |-> IF i = k THEN IF i = 1 THEN ss[i] ELSE f[i - 1] \o ss[i]
                                 ELSE f[i]]
  <2>3. ASSUME NEW i \in 1..k
        PROVE  g[i] = IF i = 1 THEN ss[i] ELSE g[i - 1] \o ss[i]
    <3>1. CASE i = k
      <4>1. i # 1 => i - 1 \in 1..k /\ i - 1 # k /\ g[i - 1] = f[i - 1]
        BY <1>2, <3>1
      <4> QED  BY <3>1, <4>1
    <3>2. CASE i # k
      <4>1. i \in 1..(k - 1) /\ g[i] = f[i]
        BY <1>2, <3>2
      <4>2. f[i] = IF i = 1 THEN ss[i] ELSE f[i - 1] \o ss[i]
        BY <2>2, <4>1 DEF IsFlat
      <4>3. i # 1 => i - 1 \in 1..k /\ i - 1 # k /\ g[i - 1] = f[i - 1]
        BY <1>2, <4>1
      <4> QED  BY <4>1, <4>2, <4>3
    <3> QED  BY <3>1, <3>2
  <2>4. g = [i \in 1..k |-> IF i = 1 THEN ss[i] ELSE g[i - 1] \o ss[i]]
    <3>1. g = [i \in 1..k |-> g[i]]
      OBVIOUS
    <3> HIDE DEF g
    <3> QED  BY <2>3, <3>1
  <2> HIDE DEF g
  <2> QED  BY <1>2, <2>4 DEF IsFlat
<1> QED  BY <1>3, <1>4

LEMMA FlattenSeqIs ==
    ASSUME NEW ss, Len(ss) \in Nat \ {0}, NEW f, IsFlat(f, ss, Len(ss))
    PROVE  FlattenSeq(ss) = f[Len(ss)]
<1> DEFINE h == CHOOSE g : g = [i \in 1..Len(ss) |-> IF i = 1 THEN ss[i] ELSE g[i - 1] \o ss[i]]
<1>1. FlattenSeq(ss) = h[Len(ss)]
  BY DEF FlattenSeq
<1>2. h = f
  <2>1. \E g : g = [i \in 1..Len(ss) |-> IF i = 1 THEN ss[i] ELSE g[i - 1] \o ss[i]]
    BY DEF IsFlat
  <2>2. h = [i \in 1..Len(ss) |-> IF i = 1 THEN ss[i] ELSE h[i - 1] \o ss[i]]
    BY <2>1
  <2> HIDE DEF h
  <2>3. IsFlat(h, ss, Len(ss))
    BY <2>2 DEF IsFlat
  <2> QED  BY <2>3, FlatUnique
<1> QED  BY <1>1, <1>2

LEMMA FlatType ==
    ASSUME NEW S, NEW ss \in Seq(Seq(S)), NEW f, IsFlat(f, ss, Len(ss))
    PROVE  \A i \in 1..Len(ss) : f[i] \in Seq(S)
<1> DEFINE Bad == {i \in 1..Len(ss) : f[i] \notin Seq(S)}
<1> SUFFICES ASSUME Bad # {} PROVE FALSE
  OBVIOUS
<1>1. PICK i \in Bad : \A j \in Bad : i <= j
  <2>1. Bad \in SUBSET Nat
    OBVIOUS
  <2> HIDE DEF Bad
  <2> QED  BY <2>1, LeastNumber
<1>2. i \in 1..Len(ss) /\ f[i] \notin Seq(S) /\ Len(ss) \in Nat
  BY LenProperties
<1>3. ss[i] \in Seq(S)
  BY <1>2, ElementOfSeq
<1>4. f[i] = IF i = 1 THEN ss[i] ELSE f[i - 1] \o ss[i]
  BY <1>2 DEF IsFlat
<1>5. ASSUME i # 1 PROVE f[i - 1] \in Seq(S)
  <2>1. i - 1 \in 1..Len(ss) /\ ~(i <= i - 1)
    BY <1>2, <1>5
  <2> QED  BY <1>1, <2>1
<1> QED  BY <1>2, <1>3, <1>4, <1>5, ConcatProperties

LEMMA FlattenType ==
    ASSUME NEW S, NEW ss \in Seq(Seq(S)), ss # <<>>
    PROVE  FlattenSeq(ss) \in Seq(S)
<1>1. Len(ss) \in Nat \ {0} /\ Len(ss) \in 1..Len(ss)
  BY EmptySeq
<1>2. PICK f : IsFlat(f, ss, Len(ss))
  BY <1>1, FlatExists
<1>3. f[Len(ss)] \in Seq(S)
  BY <1>1, <1>2, FlatType
<1> QED  BY <1>1, <1>2, <1>3, FlattenSeqIs

IsConcat(f, s, t) == f = s \o t

LEMMA Regroup ==
    ASSUME NEW S, NEW a \in Seq(S), NEW b \in Seq(S), NEW x \in Seq(S),
           NEW f, NEW g, NEW t, IsConcat(g, a, t), IsConcat(f, a, b), IsConcat(t, b, x)
    PROVE  IsConcat(g, f, x)
BY ConcatAssociative DEF IsConcat

\* The last sequence is the end of the whole.
LEMMA FlattenGrows ==
    ASSUME NEW S, NEW ss \in Seq(Seq(S)), ss # <<>>, NEW tt \in Seq(Seq(S)), NEW x \in Seq(S),
           Len(tt) = Len(ss), \A i \in 1..(Len(ss) - 1) : tt[i] = ss[i],
           tt[Len(ss)] = ss[Len(ss)] \o x
    PROVE  FlattenSeq(tt) = FlattenSeq(ss) \o x
<1> DEFINE n == Len(ss)
<1>1. n \in Nat /\ n # 0 /\ n \in 1..n /\ n - 1 \in Nat /\ n - 1 <= n
  BY EmptySeq
<1>2. PICK f : IsFlat(f, ss, n)
  BY <1>1, FlatExists
<1>3. PICK g : IsFlat(g, tt, n)
  BY <1>1, FlatExists
<1>4. FlattenSeq(ss) = f[n] /\ FlattenSeq(tt) = g[n]
  BY <1>1, <1>2, <1>3, FlattenSeqIs
<1>5. SameTo(n - 1, f, g)
  <2>1. SameTo(n - 1, ss, tt)
    BY DEF SameTo
  <2> HIDE DEF n
  <2> QED  BY <1>1, <1>2, <1>3, <2>1, FlatAgree
<1>6. /\ f[n] = IF n = 1 THEN ss[n] ELSE f[n - 1] \o ss[n]
      /\ g[n] = IF n = 1 THEN tt[n] ELSE g[n - 1] \o tt[n]
  BY <1>1, <1>2, <1>3 DEF IsFlat
<1>7. ss[n] \in Seq(S)
  BY <1>1, ElementOfSeq
<1>8. CASE n = 1
  BY <1>4, <1>6, <1>8
<1>9. CASE n # 1
  <2>1. n - 1 \in 1..(n - 1) /\ n - 1 \in 1..n
    BY <1>1, <1>9
  <2>2. f[n - 1] \in Seq(S) /\ f[n - 1] = g[n - 1]
    BY <1>2, <1>5, <2>1, FlatType DEF SameTo
  <2>3. /\ g[n] = f[n - 1] \o tt[n] /\ f[n] = f[n - 1] \o ss[n]
        /\ tt[n] = ss[n] \o x
    BY <1>6, <1>9, <2>2
  <2> HIDE DEF n
  <2>4. g[n] = f[n] \o x
    <3>1. PICK a \in Seq(S), b \in Seq(S) : a = f[n - 1] /\ b = ss[n]
      BY <1>7, <2>2
    <3>2. PICK u, v, t : u = f[n] /\ v = g[n] /\ t = tt[n]
      OBVIOUS
    <3>3. IsConcat(v, a, t) /\ IsConcat(u, a, b) /\ IsConcat(t, b, x)
      BY <2>3, <3>1, <3>2, Zenon DEF IsConcat
    <3>4. IsConcat(v, u, x)
      BY <3>3, Regroup
    <3> QED  BY <3>2, <3>4, Zenon DEF IsConcat
  <2> QED  BY <1>4, <2>4
<1> QED  BY <1>8, <1>9

LEMMA FlattenAppend ==
    ASSUME NEW S, NEW ss \in Seq(Seq(S)), ss # <<>>, NEW t \in Seq(S)
    PROVE  FlattenSeq(Append(ss, t)) = FlattenSeq(ss) \o t
<1> DEFINE n == Len(ss)
           tt == Append(ss, t)
<1>1. n \in Nat /\ n # 0 /\ n \in 1..n /\ n <= n + 1 /\ n + 1 \in Nat \ {0}
  BY EmptySeq
<1>2. /\ Len(tt) = n + 1 /\ tt[n + 1] = t
      /\ SameTo(n, ss, tt)
  BY AppendProperties DEF SameTo
<1> HIDE DEF tt
<1>3. PICK f : IsFlat(f, ss, n)
  BY <1>1, FlatExists
<1>4. PICK g : IsFlat(g, tt, n + 1)
  BY <1>1, FlatExists
<1>5. FlattenSeq(ss) = f[n] /\ FlattenSeq(tt) = g[n + 1]
  BY <1>1, <1>2, <1>3, <1>4, FlattenSeqIs
<1>6. f[n] = g[n]
  <2> HIDE DEF n
  <2>1. SameTo(n, f, g)
    BY <1>1, <1>2, <1>3, <1>4, FlatAgree
  <2> QED  BY <1>1, <2>1 DEF SameTo
<1>7. g[n + 1] = g[n] \o t
  <2>1. n + 1 \in 1..(n + 1) /\ n + 1 # 1 /\ (n + 1) - 1 = n
    BY <1>1
  <2>2. g[n + 1] = IF n + 1 = 1 THEN tt[n + 1] ELSE g[(n + 1) - 1] \o tt[n + 1]
    BY <1>4, <2>1 DEF IsFlat
  <2> QED  BY <1>2, <2>1, <2>2
<1> QED  BY <1>1, <1>5, <1>6, <1>7 DEF tt

-----------------------------------------------------------------------------
(* What a reader gets of a segment *)

Part(s) == SubSeq(s, 1, Readable(s))
Parts == [s \in DOMAIN segs |-> Part(segs[s])]

LEMMA ReadableIs ==
    ASSUME NEW s \in Seq(Entries)
    PROVE  /\ Readable(s) \in 0..Len(s) /\ Len(s) \in Nat
           /\ \A i \in 1..Readable(s) : i \in 1..Len(s) /\ s[i] # Torn
           /\ Readable(s) = Len(s) \/ s[Readable(s) + 1] = Torn
           /\ Readable(s) = Len(s) <=> TornAt(s) = {}
<1>1. Len(s) \in Nat /\ DOMAIN s = 1..Len(s)
  BY LenProperties
<1>2. CASE TornAt(s) = {}
  <2>1. Readable(s) = Len(s)
    BY <1>2 DEF Readable
  <2> QED  BY <1>1, <1>2, <2>1 DEF TornAt
<1>3. CASE TornAt(s) # {}
  <2> DEFINE k == CHOOSE i \in TornAt(s) : \A j \in TornAt(s) : i <= j
  <2>1. TornAt(s) \in SUBSET Nat
    BY <1>1 DEF TornAt
  <2>2. \E i \in TornAt(s) : \A j \in TornAt(s) : i <= j
    BY <1>3, <2>1, LeastNumber
  <2>3. k \in TornAt(s) /\ \A j \in TornAt(s) : k <= j
    BY <2>2
  <2>4. Readable(s) = k - 1
    BY <1>3 DEF Readable
  <2> HIDE DEF k
  <2>5. k \in 1..Len(s) /\ s[k] = Torn
    BY <1>1, <2>3 DEF TornAt
  <2>6. \A i \in 1..(k - 1) : i \in 1..Len(s) /\ s[i] # Torn
    <3>1. ASSUME NEW i \in 1..(k - 1), s[i] = Torn PROVE FALSE
      <4>1. i \in 1..Len(s) /\ ~(k <= i)
        BY <1>1, <2>5
      <4> QED  BY <1>1, <2>3, <3>1, <4>1 DEF TornAt
    <3> QED  BY <1>1, <2>5, <3>1
  <2>7. k - 1 \in 0..Len(s) /\ k - 1 # Len(s) /\ (k - 1) + 1 = k
    BY <1>1, <2>5
  <2> QED  BY <1>1, <1>3, <2>4, <2>5, <2>6, <2>7
<1> QED  BY <1>2, <1>3

\* It is the only such length.
LEMMA ReadableUnique ==
    ASSUME NEW s \in Seq(Entries), NEW k \in 0..Len(s),
           \A i \in 1..k : s[i] # Torn, k = Len(s) \/ s[k + 1] = Torn
    PROVE  Readable(s) = k
<1> DEFINE r == Readable(s)
<1>1. /\ r \in 0..Len(s) /\ Len(s) \in Nat
      /\ \A i \in 1..r : s[i] # Torn
      /\ r = Len(s) \/ s[r + 1] = Torn
  BY ReadableIs
<1> HIDE DEF r
<1>2. ~(r < k)
  <2>1. ASSUME r < k PROVE r + 1 \in 1..k /\ r # Len(s)
    BY <1>1, <2>1
  <2> QED  BY <1>1, <2>1
<1>3. ~(k < r)
  <2>1. ASSUME k < r PROVE k + 1 \in 1..r /\ k # Len(s)
    BY <1>1, <2>1
  <2> QED  BY <1>1, <2>1
<1>4. r = k
  BY <1>1, <1>2, <1>3
<1> QED  BY <1>4 DEF r

\* Sequences that agree up to a length have the same beginning.
LEMMA SameBeginning ==
    ASSUME NEW S, NEW s \in Seq(S), NEW t \in Seq(S), NEW k \in Nat, k <= Len(s), k <= Len(t),
           \A i \in 1..k : s[i] = t[i]
    PROVE  SubSeq(s, 1, k) = SubSeq(t, 1, k)
<1>1. Len(s) \in Nat /\ Len(t) \in Nat
  BY LenProperties
<1>2. \A i \in 1..k : s[i] \in S /\ t[i] \in S
  <2>1. \A i \in 1..k : i \in 1..Len(s) /\ i \in 1..Len(t)
    BY <1>1
  <2> QED  BY <2>1, ElementOfSeq
<1> DEFINE a == SubSeq(s, 1, k)
           b == SubSeq(t, 1, k)
<1>3. a \in Seq(S) /\ Len(a) = k /\ \A i \in 1..k : a[i] = s[i]
  BY <1>1, <1>2, SubSeqProperties
<1>4. b \in Seq(S) /\ Len(b) = k /\ \A i \in 1..k : b[i] = t[i]
  BY <1>1, <1>2, SubSeqProperties
<1> HIDE DEF a, b
<1>5. a = b
  BY <1>3, <1>4, SeqEqual
<1> QED  BY <1>5 DEF a, b

LEMMA PartIs ==
    ASSUME NEW s \in Seq(Entries)
    PROVE  /\ Part(s) \in Seq(Entries) /\ Len(Part(s)) = Readable(s)
           /\ \A i \in 1..Readable(s) : i \in 1..Len(s) /\ Part(s)[i] = s[i]
<1>1. /\ Readable(s) \in 0..Len(s) /\ Len(s) \in Nat
      /\ \A i \in 1..Readable(s) : i \in 1..Len(s)
  BY ReadableIs
<1>2. \A i \in 1..Readable(s) : s[i] \in Entries
  BY <1>1, ElementOfSeq
<1> HIDE DEF Readable
<1> QED  BY <1>1, <1>2, SubSeqProperties DEF Part

\* A segment with a torn record reads the same whatever is written behind it.
LEMMA PartBehindTorn ==
    ASSUME NEW s \in Seq(Entries), NEW w \in Seq(Entries), TornAt(s) # {}
    PROVE  Part(s \o w) = Part(s)
<1> DEFINE k == Readable(s)
           t == s \o w
<1>1. /\ k \in 0..Len(s) /\ Len(s) \in Nat /\ k # Len(s)
      /\ \A i \in 1..k : i \in 1..Len(s) /\ s[i] # Torn
      /\ s[k + 1] = Torn
  BY ReadableIs
<1>2. /\ t \in Seq(Entries) /\ Len(t) = Len(s) + Len(w) /\ Len(w) \in Nat
      /\ \A i \in 1..(Len(s) + Len(w)) : t[i] = IF i <= Len(s) THEN s[i] ELSE w[i - Len(s)]
  BY ConcatProperties, LenProperties
<1> HIDE DEF k, t
<1>3. \A i \in 1..(k + 1) : t[i] = s[i]
  <2>1. \A i \in 1..(k + 1) : i \in 1..(Len(s) + Len(w)) /\ i <= Len(s)
    BY <1>1, <1>2
  <2> QED  BY <1>2, <2>1
<1>4. /\ k \in 0..Len(t) /\ \A i \in 1..k : t[i] # Torn
      /\ t[k + 1] = Torn
  <2>1. k + 1 \in 1..(k + 1) /\ \A i \in 1..k : i \in 1..(k + 1)
    BY <1>1
  <2>2. k \in 0..Len(t)
    BY <1>1, <1>2
  <2>3. t[k + 1] = Torn
    BY <1>1, <1>3, <2>1
  <2>4. \A i \in 1..k : t[i] # Torn
    BY <1>1, <1>3, <2>1
  <2> QED  BY <2>2, <2>3, <2>4
<1>5. Readable(t) = k
  BY <1>2, <1>4, ReadableUnique
<1>6. SubSeq(t, 1, k) = SubSeq(s, 1, k)
  <2>1. k \in Nat /\ k <= Len(s) /\ k <= Len(t) /\ \A i \in 1..k : t[i] = s[i]
    BY <1>1, <1>2, <1>3
  <2> QED  BY <1>2, <2>1, SameBeginning
<1> QED  BY <1>5, <1>6 DEF Part, k, t

\* A whole segment reads whole, and what is written to it up to where that is cut.
LEMMA PartOfWhole ==
    ASSUME NEW s \in Seq(Entries), NEW w \in Seq(Entries), TornAt(s) = {}
    PROVE  Part(s) = s /\ Part(s \o w) = s \o Part(w)
<1> DEFINE n == Len(s)
           k == Readable(w)
           t == s \o w
<1>1. n \in Nat /\ (\A i \in 1..n : s[i] # Torn) /\ Readable(s) = n
  BY ReadableIs
<1>2. /\ k \in 0..Len(w) /\ Len(w) \in Nat
      /\ \A i \in 1..k : i \in 1..Len(w) /\ w[i] # Torn
      /\ k = Len(w) \/ w[k + 1] = Torn
  BY ReadableIs
<1>3. /\ t \in Seq(Entries) /\ Len(t) = n + Len(w)
      /\ \A i \in 1..(n + Len(w)) : t[i] = IF i <= n THEN s[i] ELSE w[i - n]
  BY ConcatProperties, LenProperties
<1>4. /\ Part(w) \in Seq(Entries) /\ Len(Part(w)) = k
      /\ \A i \in 1..k : Part(w)[i] = w[i]
  BY PartIs
<1> DEFINE p == Part(w)
           u == s \o p
<1>5. /\ u \in Seq(Entries) /\ Len(u) = n + k
      /\ \A i \in 1..(n + k) : u[i] = IF i <= n THEN s[i] ELSE p[i - n]
  BY <1>4, ConcatProperties
<1> HIDE DEF n, k, t, p, u
<1>6. \A i \in 1..(n + k) : /\ i \in 1..(n + Len(w))
                            /\ i <= n \/ i - n \in 1..k
                            /\ i <= n => i \in 1..n
  BY <1>1, <1>2
<1>7. Readable(t) = n + k
  <2>1. \A i \in 1..(n + k) : t[i] # Torn
    BY <1>1, <1>2, <1>3, <1>6
  <2>2. n + k \in 0..Len(t)
    BY <1>1, <1>2, <1>3
  <2>3. n + k = Len(t) \/ t[(n + k) + 1] = Torn
    <3>1. CASE k = Len(w)
      BY <1>3, <3>1
    <3>2. CASE k # Len(w)
      <4>1. /\ (n + k) + 1 \in 1..(n + Len(w)) /\ ~((n + k) + 1 <= n)
            /\ ((n + k) + 1) - n = k + 1
        BY <1>1, <1>2, <3>2
      <4> QED  BY <1>2, <1>3, <3>2, <4>1
    <3> QED  BY <3>1, <3>2
  <2> QED  BY <1>3, <2>1, <2>2, <2>3, ReadableUnique
<1>8. Part(t) = u
  <2>1. /\ Part(t) \in Seq(Entries) /\ Len(Part(t)) = n + k
        /\ \A i \in 1..(n + k) : Part(t)[i] = t[i]
    BY <1>3, <1>7, PartIs
  <2>2. \A i \in 1..(n + k) : Part(t)[i] = u[i]
    BY <1>3, <1>4, <1>5, <1>6, <2>1 DEF p
  <2> QED  BY <1>5, <2>1, <2>2, SeqEqual
<1>9. Part(s) = s
  <2>1. Readable(s) = Len(s)
    BY <1>1 DEF n
  <2> QED  BY <2>1, SuffixEdges DEF Part
<1> QED  BY <1>8, <1>9 DEF t, u, p

-----------------------------------------------------------------------------
(* What a reader gets of all of them *)

LEMMA PartsType ==
    ASSUME segs \in Seq(Seq(Entries)), segs # <<>>
    PROVE  /\ Parts \in Seq(Seq(Entries)) /\ Parts # <<>> /\ Len(Parts) = Len(segs)
           /\ Len(segs) \in Nat /\ Len(segs) \in 1..Len(segs)
           /\ \A s \in 1..Len(segs) : segs[s] \in Seq(Entries) /\ Parts[s] = Part(segs[s])
           /\ ReadAll = FlattenSeq(Parts)
<1>1. /\ Len(segs) \in Nat /\ DOMAIN segs = 1..Len(segs) /\ Len(segs) \in 1..Len(segs)
      /\ \A s \in 1..Len(segs) : segs[s] \in Seq(Entries)
  BY EmptySeq, LenProperties, ElementOfSeq
<1>2. \A s \in 1..Len(segs) : Part(segs[s]) \in Seq(Entries)
  BY <1>1, PartIs
<1>3. Parts = [s \in 1..Len(segs) |-> Part(segs[s])]
  BY <1>1 DEF Parts
<1>4. Parts \in Seq(Seq(Entries)) /\ Len(Parts) = Len(segs)
  BY <1>1, <1>2, <1>3, IsASeq, LenProperties
<1>5. Parts # <<>>
  BY <1>1, <1>4, EmptySeq
<1>6. ReadAll = FlattenSeq(Parts)
  BY DEF ReadAll, Parts, Part
<1> QED  BY <1>1, <1>3, <1>4, <1>5, <1>6

LEMMA ReadAllType ==
    ASSUME segs \in Seq(Seq(Entries)), segs # <<>>
    PROVE  ReadAll \in Seq(Entries)
BY PartsType, FlattenType

\* What is read was written.
LEMMA ReadAllElements ==
    ASSUME segs \in Seq(Seq(Entries)), segs # <<>>
    PROVE  \A j \in 1..Len(ReadAll) : \E s \in DOMAIN segs : \E i \in DOMAIN segs[s] :
               ReadAll[j] = segs[s][i]
<1> DEFINE S == {e \in Entries : \E s \in DOMAIN segs : \E i \in DOMAIN segs[s] : e = segs[s][i]}
<1>1. /\ Parts # <<>> /\ Len(Parts) = Len(segs) /\ Parts \in Seq(Seq(Entries))
      /\ \A s \in 1..Len(segs) : segs[s] \in Seq(Entries) /\ Parts[s] = Part(segs[s])
      /\ ReadAll = FlattenSeq(Parts) /\ Len(segs) \in Nat /\ DOMAIN segs = 1..Len(segs)
  BY PartsType, LenProperties
<1>2. ASSUME NEW s \in 1..Len(segs) PROVE Parts[s] \in Seq(S)
  <2>1. /\ Parts[s] \in Seq(Entries) /\ Len(Parts[s]) = Readable(segs[s])
        /\ \A i \in 1..Readable(segs[s]) : i \in 1..Len(segs[s]) /\ Parts[s][i] = segs[s][i]
    BY <1>1, PartIs
  <2>2. /\ segs[s] \in Seq(Entries) /\ DOMAIN segs[s] = 1..Len(segs[s])
        /\ \A i \in 1..Len(segs[s]) : segs[s][i] \in Entries
    BY <1>1, LenProperties, ElementOfSeq
  <2>3. \A i \in 1..Len(Parts[s]) : Parts[s][i] \in S
    BY <1>1, <2>1, <2>2
  <2>4. Len(Parts[s]) \in Nat /\ Parts[s] = [i \in 1..Len(Parts[s]) |-> Parts[s][i]]
    BY <2>1, LenProperties
  <2> HIDE DEF S
  <2>5. [i \in 1..Len(Parts[s]) |-> Parts[s][i]] \in Seq(S)
    BY <2>3, <2>4, IsASeq
  <2> QED  BY <2>4, <2>5
<1> HIDE DEF S
<1>3. Parts \in Seq(Seq(S))
  <2>1. Len(Parts) \in Nat /\ Parts = [s \in 1..Len(Parts) |-> Parts[s]]
    BY <1>1, LenProperties
  <2>2. [s \in 1..Len(Parts) |-> Parts[s]] \in Seq(Seq(S))
    BY <1>1, <1>2, <2>1, IsASeq
  <2> QED  BY <2>1, <2>2
<1>4. ReadAll \in Seq(S)
  BY <1>1, <1>3, FlattenType
<1>5. \A j \in 1..Len(ReadAll) : ReadAll[j] \in S
  BY <1>4, ElementOfSeq
<1> QED  BY <1>5 DEF S

LEMMA StartPart == ASSUME Init PROVE ReadAll = <<>>
<1>1. segs = << <<>> >> /\ <<>> \in Seq(Entries) /\ Len(<<>>) = 0
  BY EmptySeq DEF Init
<1>2. segs \in Seq(Seq(Entries)) /\ segs # <<>> /\ \A s \in DOMAIN segs : DOMAIN segs[s] = {}
  BY <1>1
<1>3. ReadAll \in Seq(Entries)
  BY <1>2, ReadAllType
<1>4. \A j \in 1..Len(ReadAll) : FALSE
  BY <1>2, ReadAllElements
<1>5. Len(ReadAll) \in Nat
  BY <1>3, LenProperties
<1>6. Len(ReadAll) = 0
  <2>1. Len(ReadAll) # 0 => 1 \in 1..Len(ReadAll)
    BY <1>5
  <2> QED  BY <1>4, <2>1
<1> QED  BY <1>3, <1>6, EmptySeq

\* A write adds the whole records of w at its end, or nothing.
LEMMA ReadAllAfterWrite ==
    ASSUME TypeOK, NEW w \in Seq(Entries), segs' \in AfterWrite(w)
    PROVE  ReadAll' = ReadAll \/ ReadAll' = ReadAll \o Part(w)
<1> DEFINE n == Len(segs)
           c == segs[n]
           a == AppendToCurrent(w)
           q == [s \in DOMAIN a |-> Part(a[s])]
           x == IF TornAt(c) = {} THEN Part(w) ELSE <<>>
<1>1. segs \in Seq(Seq(Entries)) /\ segs # <<>>
  BY DEF TypeOK
<1>2. /\ Parts \in Seq(Seq(Entries)) /\ Parts # <<>> /\ Len(Parts) = n
      /\ n \in Nat /\ n \in 1..n
      /\ \A s \in 1..n : segs[s] \in Seq(Entries) /\ Parts[s] = Part(segs[s])
      /\ ReadAll = FlattenSeq(Parts)
  BY <1>1, PartsType
<1>3. Part(w) \in Seq(Entries) /\ <<>> \in Seq(Entries) /\ x \in Seq(Entries)
  BY PartIs, EmptySeq
<1>4. c \o w \in Seq(Entries)
  BY <1>2, ConcatProperties
<1>5. /\ a \in Seq(Seq(Entries)) /\ a # <<>> /\ Len(a) = n /\ DOMAIN a = 1..n
      /\ a[n] = c \o w /\ \A s \in 1..n : s # n => a[s] = segs[s]
  <2>1. a = [segs EXCEPT ![n] = c \o w]
    BY DEF AppendToCurrent, Cur
  <2>0. n = Len(segs)
    OBVIOUS
  <2> HIDE DEF a, c, n
  <2>2. /\ a \in Seq(Seq(Entries)) /\ Len(a) = n
        /\ a[n] = c \o w /\ \A s \in 1..n : s # n => a[s] = segs[s]
    <3>1. n \in 1..Len(segs) /\ c \o w \in Seq(Entries) /\ segs \in Seq(Seq(Entries))
      BY <1>1, <1>2, <1>4, <2>0
    <3>2. /\ [segs EXCEPT ![n] = c \o w] \in Seq(Seq(Entries))
          /\ Len([segs EXCEPT ![n] = c \o w]) = Len(segs)
          /\ \A j \in 1..Len(segs) :
                [segs EXCEPT ![n] = c \o w][j] = IF j = n THEN c \o w ELSE segs[j]
      BY <3>1, ExceptSeq
    <3> QED  BY <1>2, <2>0, <2>1, <3>2
  <2> QED  BY <1>2, <2>2, EmptySeq, LenProperties
<1> HIDE DEF n, a, c
<1>6. \A s \in 1..n : a[s] \in Seq(Entries) /\ Part(a[s]) \in Seq(Entries)
  BY <1>5, ElementOfSeq, PartIs
<1>7. q \in Seq(Seq(Entries)) /\ Len(q) = n /\ q # <<>> /\ \A s \in 1..n : q[s] = Part(a[s])
  <2>1. q = [s \in 1..n |-> Part(a[s])]
    BY <1>5
  <2> HIDE DEF q
  <2>2. q \in Seq(Seq(Entries)) /\ Len(q) = n
    <3> DEFINE e(s) == Part(a[s])
    <3>1. \A s \in 1..n : e(s) \in Seq(Entries)
      BY <1>6
    <3>2. q = [s \in 1..n |-> e(s)]
      BY <2>1
    <3> HIDE DEF e
    <3>3. q \in Seq(Seq(Entries))
      BY <1>2, <3>1, <3>2, IsASeq
    <3> QED  BY <1>2, <3>2, <3>3, LenProperties
  <2> QED  BY <1>2, <2>1, <2>2, EmptySeq
<1>8. q[n] = Parts[n] \o x
  <2>1. c \in Seq(Entries) /\ q[n] = Part(c \o w) /\ Parts[n] = Part(c)
    BY <1>2, <1>5, <1>7 DEF c
  <2>2. CASE TornAt(c) = {}
    <3>1. Part(c) = c /\ Part(c \o w) = c \o Part(w)
      BY <2>1, <2>2, PartOfWhole
    <3>2. x = Part(w)
      BY <2>2
    <3> QED  BY <2>1, <3>1, <3>2, Zenon
  <2>3. CASE TornAt(c) # {}
    <3>1. Part(c) \in Seq(Entries) /\ Part(c \o w) = Part(c)
      BY <2>1, <2>3, PartIs, PartBehindTorn
    <3>2. Part(c) \o <<>> = Part(c)
      BY <3>1, ConcatEmptySeq
    <3> QED  BY <2>1, <2>3, <3>1, <3>2
  <2> QED  BY <2>2, <2>3
<1>9. \A s \in 1..(n - 1) : q[s] = Parts[s]
  <2>1. \A s \in 1..(n - 1) : s \in 1..n /\ s # n
    BY <1>2
  <2> QED  BY <1>2, <1>5, <1>7, <2>1
<1> HIDE DEF q, x
<1>10. FlattenSeq(q) = ReadAll \o x
  <2>1. /\ Parts \in Seq(Seq(Entries)) /\ Parts # <<>> /\ q \in Seq(Seq(Entries))
        /\ x \in Seq(Entries) /\ Len(q) = Len(Parts)
        /\ \A i \in 1..(Len(Parts) - 1) : q[i] = Parts[i]
        /\ q[Len(Parts)] = Parts[Len(Parts)] \o x
    BY <1>2, <1>3, <1>7, <1>8, <1>9
  <2>2. FlattenSeq(q) = FlattenSeq(Parts) \o x
    BY <2>1, FlattenGrows
  <2> QED  BY <1>2, <2>2
<1>11. ReadAll' = FlattenSeq(q)
  <2>1. CASE segs' = a
    BY <2>1 DEF ReadAll, q, Part
  <2>2. CASE segs' = Append(a, <<>>)
    <3>1. /\ segs' \in Seq(Seq(Entries)) /\ Len(segs') = n + 1 /\ DOMAIN segs' = 1..(n + 1)
          /\ segs'[n + 1] = <<>> /\ \A s \in 1..n : segs'[s] = a[s]
      BY <1>3, <1>5, <2>2, AppendProperties, LenProperties
    <3>2. Part(<<>>) = <<>>
      <4>1. <<>> \in Seq(Entries) /\ TornAt(<<>>) = {}
        BY EmptySeq DEF TornAt
      <4> QED  BY <4>1, PartOfWhole
    <3> DEFINE p == [s \in DOMAIN segs' |-> Part(segs'[s])]
    <3>3. p = Append(q, <<>>)
      <4>1. /\ Append(q, <<>>) \in Seq(Seq(Entries)) /\ Len(Append(q, <<>>)) = n + 1
            /\ Append(q, <<>>)[n + 1] = <<>> /\ \A s \in 1..n : Append(q, <<>>)[s] = q[s]
        BY <1>3, <1>7, AppendProperties
      <4>2. \A s \in 1..(n + 1) : s \in 1..n \/ s = n + 1
        BY <1>2
      <4>3. \A s \in 1..(n + 1) : p[s] = Append(q, <<>>)[s]
        BY <1>7, <3>1, <3>2, <4>1, <4>2
      <4>4. Append(q, <<>>) = [s \in 1..(n + 1) |-> Append(q, <<>>)[s]]
        BY <4>1, LenProperties
      <4> QED  BY <3>1, <4>3, <4>4
    <3>4. FlattenSeq(Append(q, <<>>)) = FlattenSeq(q) \o <<>>
      BY <1>3, <1>7, FlattenAppend
    <3>5. FlattenSeq(q) \o <<>> = FlattenSeq(q)
      BY <1>7, FlattenType, ConcatEmptySeq
    <3>6. ReadAll' = FlattenSeq(p)
      BY DEF ReadAll, Part
    <3> HIDE DEF p
    <3> QED  BY <3>3, <3>4, <3>5, <3>6
  <2> QED  BY <2>1, <2>2 DEF AfterWrite, a
<1>12. x = Part(w) \/ x = <<>>
  BY DEF x
<1>13. ReadAll \o <<>> = ReadAll
  BY <1>1, ReadAllType, ConcatEmptySeq
<1> QED  BY <1>10, <1>11, <1>12, <1>13

\* What a reader gets of a write is the beginning of buf.
LEMMA PartOfWrite ==
    ASSUME TypeOK, NEW w \in PartialWrites
    PROVE  /\ Len(Part(w)) = Written(w) /\ Part(w) \in Seq(Entries)
           /\ \A i \in 1..Written(w) : i \in 1..Len(buf) /\ Part(w)[i] = buf[i]
<1>1. /\ Written(w) \in 0..Len(buf) /\ Len(buf) \in Nat
      /\ \A i \in 1..Written(w) : i \in 1..Len(w) /\ w[i] = buf[i]
      /\ \/ Len(w) = Written(w)
         \/ Len(w) = Written(w) + 1 /\ w[Len(w)] = Torn
      /\ w \in Seq(Entries)
  BY PartialWriteIs DEF TypeOK
<1>2. \A i \in 1..Len(buf) : buf[i] # Torn
  BY BufIsWhole, ToSetIs DEF TypeOK
<1>3. \A i \in 1..Written(w) : i \in 1..Len(buf)
  BY <1>1
<1>4. Readable(w) = Written(w)
  <2>1. Written(w) \in 0..Len(w)
    BY <1>1
  <2>2. \A i \in 1..Written(w) : w[i] # Torn
    BY <1>1, <1>2, <1>3
  <2>3. Written(w) = Len(w) \/ w[Written(w) + 1] = Torn
    BY <1>1
  <2> QED  BY <1>1, <2>1, <2>2, <2>3, ReadableUnique
<1> QED  BY <1>1, <1>3, <1>4, PartIs

\* A start of the process leaves what a reader gets.
LEMMA ReadAllAfterRestart ==
    ASSUME TypeOK, Restart
    PROVE  ReadAll' = ReadAll
<1> DEFINE c == segs[Cur]
<1>1. /\ Cur \in DOMAIN segs /\ c \in Seq(Entries) /\ DOMAIN segs' = DOMAIN segs
      /\ \A s \in DOMAIN segs : s # Cur => segs'[s] = segs[s]
      /\ \E k \in WriteOffsets(c) : segs'[Cur] = Overwrite(c, k)
  BY SegmentsAfterRestart, EntryTypes
<1>2. PICK k \in WriteOffsets(c) : segs'[Cur] = Overwrite(c, k)
  BY <1>1
<1>3. /\ Readable(c) \in 0..Len(c) /\ Len(c) \in Nat
      /\ \A i \in 1..Readable(c) : i \in 1..Len(c) /\ c[i] # Torn
      /\ Readable(c) = Len(c) \/ c[Readable(c) + 1] = Torn
      /\ Readable(c) = Len(c) <=> TornAt(c) = {}
  BY <1>1, ReadableIs
<1>4. CASE TornAt(c) = {}
  <2>1. segs' = segs
    BY <1>4, RestartKeepsWhole
  <2> QED  BY <2>1 DEF ReadAll
<1>5. CASE TornAt(c) # {}
  <2> DEFINE r == Readable(c)
             d == Overwrite(c, k)
  <2>1. k \in (r + 1)..Len(c) /\ r # Len(c)
    BY <1>3, <1>5, <1>2 DEF WriteOffsets
  <2>2. \A i \in 1..Len(c) : c[i] \in Entries /\ Torn \in Entries
    BY <1>1, ElementOfSeq DEF Entries
  <2>3. /\ d \in Seq(Entries) /\ Len(d) = Len(c)
        /\ \A i \in 1..Len(c) : d[i] = IF i <= k THEN c[i] ELSE Torn
    <3>1. d = [i \in 1..Len(c) |-> IF i <= k THEN c[i] ELSE Torn]
      BY DEF Overwrite
    <3> HIDE DEF d
    <3>2. d \in Seq(Entries) /\ Len(d) = Len(c)
      <4> DEFINE e(i) == IF i <= k THEN c[i] ELSE Torn
      <4>1. \A i \in 1..Len(c) : e(i) \in Entries
        BY <2>2
      <4>2. d = [i \in 1..Len(c) |-> e(i)]
        BY <3>1
      <4> HIDE DEF e
      <4> QED  BY <1>3, <4>1, <4>2, IsASeq, LenProperties
    <3> QED  BY <3>1, <3>2
  <2>3a. r \in 0..Len(c) /\ Len(c) \in Nat /\ c[r + 1] = Torn
         /\ \A i \in 1..r : i \in 1..Len(c) /\ c[i] # Torn
    BY <1>3, <2>1
  <2> HIDE DEF r, d
  <2>4. \A i \in 1..(r + 1) : d[i] = c[i]
    <3>1. \A i \in 1..(r + 1) : i \in 1..Len(c) /\ i <= k
      BY <2>1, <2>3a
    <3> QED  BY <2>3, <3>1
  <2>5. Readable(d) = r
    <3>1. r + 1 \in 1..(r + 1) /\ \A i \in 1..r : i \in 1..(r + 1)
      BY <2>3a
    <3>2. \A i \in 1..r : d[i] # Torn
      BY <2>3a, <2>4, <3>1
    <3>3. d[r + 1] = Torn
      BY <2>3a, <2>4, <3>1
    <3>4. r \in 0..Len(d)
      BY <2>3, <2>3a
    <3> QED  BY <2>3, <3>2, <3>3, <3>4, ReadableUnique
  <2>6. SubSeq(d, 1, r) = SubSeq(c, 1, r)
    <3>1. r \in Nat /\ r <= Len(d) /\ r <= Len(c) /\ \A i \in 1..r : d[i] = c[i]
      BY <2>3, <2>3a, <2>4
    <3> QED  BY <1>1, <2>3, <3>1, SameBeginning
  <2>7. \A s \in DOMAIN segs :
            SubSeq(segs'[s], 1, Readable(segs'[s])) = SubSeq(segs[s], 1, Readable(segs[s]))
    <3>1. segs'[Cur] = d /\ segs[Cur] = c
      BY <1>2 DEF d
    <3>2. SubSeq(segs'[Cur], 1, Readable(segs'[Cur])) = SubSeq(segs[Cur], 1, Readable(segs[Cur]))
      BY <2>5, <2>6, <3>1 DEF r
    <3> QED  BY <1>1, <3>2
  <2>8. [s \in DOMAIN segs' |-> SubSeq(segs'[s], 1, Readable(segs'[s]))]
          = [s \in DOMAIN segs |-> SubSeq(segs[s], 1, Readable(segs[s]))]
    BY <1>1, <2>7
  <2> QED  BY <2>8 DEF ReadAll
<1> QED  BY <1>4, <1>5

-----------------------------------------------------------------------------
(* The log is a DurableLog *)

\* Records appended in the order of buf are an extension.
LEMMA WritePersists ==
    ASSUME TypeOK, InOrder, NEW w \in PartialWrites, segs' \in AfterWrite(w), sent' = sent
    PROVE  [Log!Next]_Log!vars
<1> DEFINE x == Part(w)
           a == ReadAll
           b == ReadAll'
<1>1. ReadAll' = ReadAll \/ ReadAll' = ReadAll \o Part(w)
  BY PartialWriteIs, ReadAllAfterWrite DEF TypeOK
<1>2. /\ x \in Seq(Entries) /\ Len(x) = Written(w) /\ Len(x) \in Nat
      /\ \A i \in 1..Len(x) : i \in 1..Len(buf) /\ x[i] = buf[i]
  BY PartOfWrite, LenProperties
<1>3. a \in Seq(Entries) /\ Len(a) \in Nat
  BY ReadAllType, LenProperties DEF TypeOK
<1>4. \A i \in 1..Len(buf) : buf[i] \in InMemory
  BY ToSetIs DEF TypeOK, InMemory
<1>5. \A i, j \in 1..Len(buf) : i < j => buf[i] < buf[j]
  <2>1. Sorted(buf, Pending, writeChan)
    BY MemoryTypes, SortedConcat DEF InOrder, MemoryInOrder
  <2> QED  BY <2>1, LenProperties DEF Sorted, Increasing, TypeOK
<1>6. \A j \in 1..Len(a) : \E s \in DOMAIN segs : \E i \in DOMAIN segs[s] : a[j] = segs[s][i]
  BY ReadAllElements DEF TypeOK
<1>7. /\ \A i \in 1..Len(x) : x[i] <= sent
      /\ \A i \in 1..Len(x) : \A j \in 1..Len(a) : a[j] < x[i]
      /\ \A i, j \in 1..Len(x) : i < j => x[i] < x[j]
  <2> HIDE DEF x, a
  <2>1. \A i \in 1..Len(x) : x[i] \in InMemory
    BY <1>2, <1>4
  <2>2. \A i \in 1..Len(x) : x[i] <= sent
    BY <2>1 DEF InOrder, Bounded
  <2>3. \A i \in 1..Len(x) : \A j \in 1..Len(a) : a[j] < x[i]
    BY <1>6, <2>1 DEF InOrder, FilesInOrder
  <2>4. \A i, j \in 1..Len(x) : i < j => x[i] < x[j]
    BY <1>2, <1>5
  <2> QED  BY <2>2, <2>3, <2>4
<1>8. CASE ReadAll' = ReadAll
  BY <1>8 DEF Log!vars
<1>9. CASE ReadAll' = ReadAll \o Part(w) /\ ReadAll' # ReadAll
  <2>1. b = a \o x /\ b # a
    BY <1>9
  <2> HIDE DEF a, b, x
  <2>2. /\ b \in Seq(Entries) /\ Len(b) = Len(a) + Len(x)
        /\ \A i \in 1..(Len(a) + Len(x)) : b[i] = IF i <= Len(a) THEN a[i] ELSE x[i - Len(a)]
    BY <1>2, <1>3, <2>1, ConcatProperties
  <2>3. SubSeq(a, 1, Len(a)) = SubSeq(b, 1, Len(a))
    <3>1. Len(a) \in Nat /\ Len(a) <= Len(a) /\ Len(a) <= Len(b)
      BY <1>2, <1>3, <2>2
    <3>2. \A i \in 1..Len(a) : a[i] = b[i]
      <4>1. \A i \in 1..Len(a) : i \in 1..(Len(a) + Len(x)) /\ i <= Len(a)
        BY <1>2, <1>3
      <4> QED  BY <2>2, <4>1
    <3> QED  BY <1>3, <2>2, <3>1, <3>2, SameBeginning
  <2>4. IsStrictPrefix(a, b)
    <3>1. Len(a) <= Len(b)
      BY <1>2, <1>3, <2>2
    <3> QED  BY <2>1, <2>3, <3>1 DEF IsStrictPrefix, IsPrefix
  <2>5. SubSeq(b, Len(a) + 1, Len(b)) = x
    <3> DEFINE y == Suffix(b, Len(a))
    <3>1. /\ y \in Seq(Entries)
          /\ Len(y) = IF Len(a) <= Len(b) THEN Len(b) - Len(a) ELSE 0
          /\ \A i \in 1..Len(y) : y[i] = b[Len(a) + i]
      BY <1>3, <2>2, SuffixElements
    <3> HIDE DEF y
    <3>2. Len(y) = Len(x)
      BY <1>2, <1>3, <2>2, <3>1
    <3>3. \A i \in 1..Len(x) : y[i] = x[i]
      <4>1. \A i \in 1..Len(x) : /\ Len(a) + i \in 1..(Len(a) + Len(x))
                                 /\ ~(Len(a) + i <= Len(a)) /\ (Len(a) + i) - Len(a) = i
        BY <1>2, <1>3
      <4> QED  BY <2>2, <3>1, <3>2, <4>1
    <3>4. y = x
      BY <1>2, <3>1, <3>2, <3>3, SeqEqual
    <3> QED  BY <3>4 DEF y, Suffix
  <2>6. Log!Extension(x)
    BY <1>7 DEF Log!Extension, a
  <2>7. Log!Persist
    BY <2>4, <2>5, <2>6
       DEF Log!Persist, Log!IsStrictPrefix, Log!IsPrefix, IsStrictPrefix, IsPrefix, a, b
  <2> QED  BY <2>7 DEF Log!Next
<1> QED  BY <1>1, <1>8, <1>9

\* Every step is one of the promised log, or leaves it.
LEMMA StepIsALogStep ==
    ASSUME TypeOK, InOrder, Kind
    PROVE  [Log!Next]_Log!vars
<1>1. ASSUME NEW c \in Callers, Send(c) PROVE Log!Next
  <2>1. segs' = segs /\ sent < MaxRecords /\ sent' = sent + 1
    BY <1>1 DEF Send, diskVars
  <2>2. ReadAll' = ReadAll
    BY <2>1 DEF ReadAll
  <2> QED  BY <2>1, <2>2 DEF Log!Next, Log!Accept
<1>2. CASE Moves \/ Skips
  <2>1. segs' = segs /\ sent' = sent
    BY <1>2 DEF Moves, Skips
  <2>2. ReadAll' = ReadAll
    BY <2>1 DEF ReadAll
  <2> QED  BY <2>1, <2>2 DEF Log!vars
<1>3. ASSUME NEW w, Writes(w) PROVE [Log!Next]_Log!vars
  BY <1>3, WritePersists DEF Writes
<1>4. ASSUME NEW w, Ends(w) PROVE [Log!Next]_Log!vars
  <2>1. w \in PartialWrites /\ segs' \in AfterWrite(w) /\ sent' = sent
    BY <1>4 DEF Ends, EndProcess, AfterWrite
  <2> QED  BY <2>1, WritePersists
<1>5. CASE Restart
  <2>1. sent' = sent /\ ReadAll' = ReadAll
    BY <1>5, RestartMemory, ReadAllAfterRestart
  <2> QED  BY <2>1 DEF Log!vars
<1> QED  BY <1>1, <1>2, <1>3, <1>4, <1>5 DEF Kind

\* The files, read back at any moment over any number of processes that wrote them, are
\* a log that only grows, at its end, by accepted records in their order: rotations,
\* write errors, torn records and restarts behind them included
\* (transactions.go:2348-2420, 2496-2550 and 2566-2650).
THEOREM Implements == Spec => ImplementsDurableLog
<1>1. Init => Log!Init
  BY StartPart DEF Init, Log!Init
<1>2. LogInv /\ [Next]_vars => [Log!Next]_Log!vars
  <2> SUFFICES ASSUME LogInv, [Next]_vars PROVE [Log!Next]_Log!vars
    OBVIOUS
  <2>1. TypeOK /\ Places /\ InOrder
    BY DEF LogInv, IInv
  <2>2. Kind
    BY <2>1, Kinds
  <2> QED  BY <2>1, <2>2, StepIsALogStep
<1> QED  BY <1>1, <1>2, LogInvHolds, PTL DEF Spec, ImplementsDurableLog, Log!Spec
=============================================================================
