----------------------------- MODULE MainProofs -----------------------------
(***************************************************************************)
(* Proofs about the three things main does to the data outside of serving: *)
(* Recovery, for every number of workers, records and errors and every     *)
(* capacity (a record the channel has taken is neither lost nor replayed   *)
(* twice, and a Stop that has returned leaves none behind);                *)
(* SchemaMigrator, for every number of migrations, errors and ends of the  *)
(* process (what the list on disk calls applied is in the schema on disk,  *)
(* unless a start has overwritten a schema it could not read, and no       *)
(* schema is ever seen half migrated); and Persistence, for every number   *)
(* of databases, collections, writes, rounds, errors and lives (no         *)
(* completed snapshot is lost while the loop runs, and a Stop without an   *)
(* error has saved everything).  The three share no state; each has its    *)
(* own part below.                                                         *)
(***************************************************************************)
EXTENDS Recovery, SchemaMigrator, Persistence, TLAPS, FiniteSetTheorems, SequenceTheorems

-----------------------------------------------------------------------------
(* Recovery *)

Pushed == 1..(next - 1)

\* The places a record can be in exclude each other, and every record pushed is in one.
Spread ==
    /\ \A i, j \in 1..Len(recordChan) : recordChan[i] = recordChan[j] => i = j
    /\ \A v, w \in Workers : doing[v] = doing[w] /\ doing[v] # NoRecord => v = w
    /\ Pushed = Queued \cup InWork \cup recovered \cup failed \cup dropped
    /\ Queued \cap InWork = {} /\ Queued \cap recovered = {} /\ Queued \cap failed = {}
    /\ Queued \cap dropped = {} /\ InWork \cap recovered = {} /\ InWork \cap failed = {}
    /\ InWork \cap dropped = {} /\ recovered \cap failed = {} /\ recovered \cap dropped = {}
    /\ failed \cap dropped = {}

\* A worker leaves a closed and empty channel with nothing to do, and Stop waits for them all.
Leaving ==
    /\ \A w \in exited : doing[w] = NoRecord
    /\ exited # {} => chanClosed /\ recordChan = <<>>
    /\ monitor = "stopped" => exited = Workers /\ Workers # {}

\* What the monitor and the loop over Push have read.
Reading ==
    /\ monitor # "range" => Workers # {}
    /\ monitor = "range" => errors <= ErrorLimit
    /\ pusher \in {"check", "send"} => next \in Records

\* The inductive invariant.
IInv == TypeOK /\ Spread /\ Leaving /\ Reading

-----------------------------------------------------------------------------
(* The channel *)

LEMMA QueuedByAppend ==
    ASSUME NEW S, NEW s \in Seq(S), NEW x \in S
    PROVE  /\ {Append(s, x)[i] : i \in 1..Len(Append(s, x))} = {s[i] : i \in 1..Len(s)} \cup {x}
           /\ \A i \in 1..Len(s) : Append(s, x)[i] = s[i]
           /\ Append(s, x)[Len(s) + 1] = x
           /\ Append(s, x) \in Seq(S) /\ Len(Append(s, x)) = Len(s) + 1 /\ Len(s) \in Nat
<1>1. /\ Append(s, x) \in Seq(S) /\ Len(Append(s, x)) = Len(s) + 1 /\ Len(s) \in Nat
      /\ \A i \in 1..Len(s) : Append(s, x)[i] = s[i]
      /\ Append(s, x)[Len(s) + 1] = x
  BY AppendProperties, LenProperties
<1>2. \A i \in 1..Len(Append(s, x)) : i \in 1..Len(s) \/ i = Len(s) + 1
  BY <1>1
<1>3. \A i \in 1..Len(s) : i \in 1..Len(Append(s, x))
  BY <1>1
<1>4. Len(s) + 1 \in 1..Len(Append(s, x))
  BY <1>1
<1> QED  BY <1>1, <1>2, <1>3, <1>4

LEMMA QueuedByTail ==
    ASSUME NEW S, NEW s \in Seq(S), s # <<>>
    PROVE  /\ {s[i] : i \in 1..Len(s)} = {Tail(s)[i] : i \in 1..Len(Tail(s))} \cup {Head(s)}
           /\ Head(s) \in S /\ Head(s) = s[1] /\ Tail(s) \in Seq(S)
           /\ Len(s) \in Nat /\ Len(s) >= 1 /\ Len(Tail(s)) = Len(s) - 1
           /\ \A i \in 1..Len(Tail(s)) : Tail(s)[i] = s[i + 1]
<1>1. /\ Head(s) \in S /\ Head(s) = s[1] /\ Tail(s) \in Seq(S)
      /\ Len(s) \in Nat /\ Len(s) >= 1 /\ Len(Tail(s)) = Len(s) - 1
      /\ \A i \in 1..Len(Tail(s)) : Tail(s)[i] = s[i + 1]
  BY HeadTailProperties, LenProperties, EmptySeq
<1>2. ASSUME NEW i \in 1..Len(s), i # 1
      PROVE  i - 1 \in 1..Len(Tail(s)) /\ Tail(s)[i - 1] = s[i]
  BY <1>1, <1>2
<1>3. \A i \in 1..Len(Tail(s)) : i + 1 \in 1..Len(s)
  BY <1>1
<1>4. 1 \in 1..Len(s)
  BY <1>1
<1>5. ASSUME NEW i \in 1..Len(s)
      PROVE  s[i] \in {Tail(s)[j] : j \in 1..Len(Tail(s))} \cup {Head(s)}
  BY <1>1, <1>2
<1>6. \A i \in 1..Len(Tail(s)) : Tail(s)[i] \in {s[j] : j \in 1..Len(s)}
  BY <1>1, <1>3
<1>7. Head(s) \in {s[j] : j \in 1..Len(s)}
  BY <1>1, <1>4
<1> QED  BY <1>1, <1>5, <1>6, <1>7

LEMMA UpTo ==
    ASSUME NEW n \in Nat
    PROVE  IsFiniteSet(1..n) /\ Cardinality(1..n) = n
<1>1. IsFiniteSet(1..n) /\ Cardinality(1..n) = IF 1 > n THEN 0 ELSE n - 1 + 1
  BY FS_Interval
<1> QED  BY <1>1

\* A channel without repetitions holds as many records as it is long.
LEMMA NoRepetitions ==
    ASSUME NEW S, NEW s \in Seq(S),
           \A i, j \in 1..Len(s) : s[i] = s[j] => i = j
    PROVE  Cardinality({s[i] : i \in 1..Len(s)}) = Len(s)
<1> DEFINE T == {s[i] : i \in 1..Len(s)}
           f == [i \in 1..Len(s) |-> s[i]]
<1>1. Len(s) \in Nat
  BY LenProperties
<1>2. f \in Bijection(1..Len(s), T)
  <2>1. f \in [1..Len(s) -> T]
    OBVIOUS
  <2>2. f \in Injection(1..Len(s), T)
    BY <2>1 DEF Injection, IsInjective
  <2>3. f \in Surjection(1..Len(s), T)
    BY <2>1 DEF Surjection
  <2> QED  BY <2>2, <2>3 DEF Bijection
<1>3. IsFiniteSet(1..Len(s)) /\ Cardinality(1..Len(s)) = Len(s)
  BY <1>1, UpTo
<1>4. Cardinality(T) = Cardinality(1..Len(s))
  <2>1. ExistsBijection(1..Len(s), T)
    BY <1>2 DEF ExistsBijection
  <2> HIDE DEF T
  <2> QED  BY <1>3, <2>1, FS_Bijection
<1> QED  BY <1>3, <1>4

-----------------------------------------------------------------------------
(* The invariant is inductive *)

LEMMA InitIInv == Init => IInv
<1> SUFFICES ASSUME Init PROVE IInv
  OBVIOUS
<1>1. Cardinality(Workers) \in Nat
  BY SizesAssumption, FS_CardinalityType
<1>2. TypeOK
  <2>1. recordChan \in Seq(Records) /\ Len(recordChan) = 0
    BY EmptySeq DEF Init
  <2>2. doing \in [Workers -> Records \cup {NoRecord}]
    BY DEF Init
  <2>3. Len(recordChan) <= ChanCap /\ next \in 1..(NumRecords + 1) /\ errors \in 0..(ErrorLimit + 1)
    BY <2>1, SizesAssumption DEF Init
  <2>4. errChan \in 0..Cardinality(Workers)
    BY <1>1 DEF Init
  <2> QED  BY <2>1, <2>2, <2>3, <2>4 DEF Init, TypeOK
<1>3. Queued = {} /\ InWork = {} /\ Pushed = {}
  BY DEF Init, Queued, InWork, Pushed, NoRecord
<1>4. Spread
  BY <1>3 DEF Init, Spread, NoRecord
<1>5. Leaving /\ Reading
  BY SizesAssumption DEF Init, Leaving, Reading, Records
<1> QED  BY <1>2, <1>4, <1>5 DEF IInv

\* Where no record moves, the records stay spread as they are.
LEMMA NothingMoves ==
    ASSUME Spread, UNCHANGED <<next, recordChan, doing, recovered, failed, dropped>>
    PROVE  Spread'
<1>1. Queued' = Queued /\ InWork' = InWork /\ Pushed' = Pushed
  BY DEF Pushed, Queued, InWork
<1> QED  BY <1>1 DEF Spread

\* Advance: the record that was pushed is a new one.
LEMMA Advances ==
    ASSUME IInv, pusher \in {"check", "send"}, Advance
    PROVE  /\ next \in Records /\ next \notin Pushed /\ Pushed' = Pushed \cup {next}
           /\ next' \in 1..(NumRecords + 1) /\ pusher' \in {"check", "done"}
           /\ pusher' = "check" => next' \in Records
<1>1. next \in Records /\ next \in Nat /\ NumRecords \in Nat
  BY SizesAssumption DEF IInv, Reading, Records
<1> QED  BY <1>1 DEF Advance, Records, Pushed

LEMMA PushCheckKeeps == IInv /\ PushCheck => IInv'
<1> SUFFICES ASSUME IInv, PushCheck PROVE IInv'
  OBVIOUS
<1>1. /\ pusher = "check"
      /\ UNCHANGED <<recordChan, chanClosed, doing, exited, errChan, monitor, errors,
                     isRunning, created, recovered, failed>>
  BY DEF PushCheck, workerVars, monitorVars
<1>2. CASE isRunning
  <2>1. pusher' = "send" /\ next' = next /\ dropped' = dropped
    BY <1>2 DEF PushCheck
  <2>2. Spread'
    BY <1>1, <2>1, NothingMoves DEF IInv
  <2> QED  BY <1>1, <2>1, <2>2 DEF IInv, TypeOK, Leaving, Reading
<1>3. CASE ~isRunning
  <2>1. Advance /\ dropped' = dropped \cup {next}
    BY <1>3 DEF PushCheck
  <2>2. /\ next \in Records /\ next \notin Pushed /\ Pushed' = Pushed \cup {next}
        /\ next' \in 1..(NumRecords + 1) /\ pusher' \in {"check", "done"}
        /\ pusher' = "check" => next' \in Records
    BY <1>1, <2>1, Advances
  <2>3. Queued' = Queued /\ InWork' = InWork
    BY <1>1 DEF Queued, InWork
  <2>4. Spread'
    BY <1>1, <2>1, <2>2, <2>3 DEF IInv, Spread
  <2> QED  BY <1>1, <2>1, <2>2, <2>4 DEF IInv, TypeOK, Leaving, Reading
<1> QED  BY <1>2, <1>3

LEMMA PushTimeoutKeeps == IInv /\ PushTimeout => IInv'
<1> SUFFICES ASSUME IInv, PushTimeout PROVE IInv'
  OBVIOUS
<1>1. /\ pusher = "send" /\ Advance /\ dropped' = dropped \cup {next}
      /\ UNCHANGED <<recordChan, chanClosed, doing, exited, errChan, monitor, errors,
                     isRunning, created, recovered, failed>>
  BY DEF PushTimeout, workerVars, monitorVars
<1>2. /\ next \in Records /\ next \notin Pushed /\ Pushed' = Pushed \cup {next}
      /\ next' \in 1..(NumRecords + 1) /\ pusher' \in {"check", "done"}
      /\ pusher' = "check" => next' \in Records
  BY <1>1, Advances
<1>3. Queued' = Queued /\ InWork' = InWork
  BY <1>1 DEF Queued, InWork
<1>4. Spread'
  BY <1>1, <1>2, <1>3 DEF IInv, Spread
<1> QED  BY <1>1, <1>2, <1>4 DEF IInv, TypeOK, Leaving, Reading

LEMMA PushSendKeeps == IInv /\ PushSend => IInv'
<1> SUFFICES ASSUME IInv, PushSend PROVE IInv'
  OBVIOUS
<1>1. /\ pusher = "send" /\ Advance /\ ~chanClosed /\ Len(recordChan) < ChanCap
      /\ recordChan' = Append(recordChan, next)
      /\ UNCHANGED <<chanClosed, doing, exited, errChan, monitor, errors, isRunning, created,
                     recovered, failed, dropped>>
  BY DEF PushSend, workerVars, monitorVars, results
<1>2. /\ next \in Records /\ next \notin Pushed /\ Pushed' = Pushed \cup {next}
      /\ next' \in 1..(NumRecords + 1) /\ pusher' \in {"check", "done"}
      /\ pusher' = "check" => next' \in Records
  BY <1>1, Advances
<1>3. /\ Queued' = Queued \cup {next}
      /\ \A i \in 1..Len(recordChan) : recordChan'[i] = recordChan[i]
      /\ recordChan'[Len(recordChan) + 1] = next
      /\ recordChan' \in Seq(Records) /\ Len(recordChan') = Len(recordChan) + 1
      /\ Len(recordChan) \in Nat
  BY <1>1, <1>2, QueuedByAppend DEF Queued, IInv, TypeOK
<1>4. InWork' = InWork
  BY <1>1 DEF InWork
<1>5. \A i \in 1..Len(recordChan) : recordChan[i] # next
  BY <1>2 DEF IInv, Spread, Queued
<1>6. \A i, j \in 1..Len(recordChan') : recordChan'[i] = recordChan'[j] => i = j
  <2>1. \A i \in 1..Len(recordChan') : i \in 1..Len(recordChan) \/ i = Len(recordChan) + 1
    BY <1>3
  <2> QED  BY <1>3, <1>5, <2>1 DEF IInv, Spread
<1>7. Spread'
  BY <1>1, <1>2, <1>3, <1>4, <1>6 DEF IInv, Spread
<1>8. TypeOK'
  BY <1>1, <1>2, <1>3, SizesAssumption DEF IInv, TypeOK
<1> QED  BY <1>1, <1>2, <1>7, <1>8 DEF IInv, Leaving, Reading

LEMMA TakeKeeps ==
    ASSUME IInv, NEW w \in Workers, Take(w)
    PROVE  IInv'
<1>1. /\ w \notin exited /\ doing[w] = NoRecord /\ recordChan # <<>>
      /\ doing' = [doing EXCEPT ![w] = Head(recordChan)]
      /\ recordChan' = Tail(recordChan)
      /\ UNCHANGED <<pusher, next, chanClosed, exited, errChan, monitor, errors, isRunning,
                     created, recovered, failed, dropped>>
  BY DEF Take, MayTake, pushVars, monitorVars, results
<1> DEFINE r == Head(recordChan)
<1>2. /\ Queued = Queued' \cup {r}
      /\ r \in Records /\ r = recordChan[1] /\ recordChan' \in Seq(Records)
      /\ Len(recordChan) \in Nat /\ Len(recordChan) >= 1
      /\ Len(recordChan') = Len(recordChan) - 1
      /\ \A i \in 1..Len(recordChan') : recordChan'[i] = recordChan[i + 1]
  <2>1. recordChan \in Seq(Records) /\ recordChan # <<>>
    BY <1>1 DEF IInv, TypeOK
  <2>2. Queued' = {Tail(recordChan)[i] : i \in 1..Len(Tail(recordChan))}
    BY <1>1 DEF Queued
  <2> QED  BY <1>1, <2>1, <2>2, QueuedByTail DEF Queued
<1>3. \A i \in 1..Len(recordChan') : i + 1 \in 1..Len(recordChan) /\ i + 1 # 1
  BY <1>2
<1>4. r \notin Queued'
  <2>1. \A i \in 1..Len(recordChan') : recordChan'[i] # r
    BY <1>2, <1>3 DEF IInv, Spread
  <2> QED  BY <2>1 DEF Queued
<1>5. \A i, j \in 1..Len(recordChan') : recordChan'[i] = recordChan'[j] => i = j
  BY <1>2, <1>3 DEF IInv, Spread
<1>6. r # NoRecord
  BY <1>2 DEF Records, NoRecord
<1> HIDE DEF r
<1>7. \A v \in Workers : doing'[v] = IF v = w THEN r ELSE doing[v]
  BY <1>1 DEF IInv, TypeOK, r
<1>8. InWork' = InWork \cup {r} /\ r \notin InWork
  <2>1. r \in Queued
    BY <1>2
  <2>2. r \notin InWork
    BY <2>1 DEF IInv, Spread
  <2> QED  BY <1>1, <1>6, <1>7, <2>2 DEF InWork
<1>9. \A v, u \in Workers : doing'[v] = doing'[u] /\ doing'[v] # NoRecord => v = u
  <2>1. \A v \in Workers : doing[v] # r
    BY <1>6, <1>8 DEF InWork
  <2> QED  BY <1>7, <2>1 DEF IInv, Spread
<1>10. Pushed' = Pushed
  BY <1>1 DEF Pushed
<1>11. Spread'
  BY <1>1, <1>2, <1>4, <1>5, <1>8, <1>9, <1>10 DEF IInv, Spread
<1>12. TypeOK'
  <2>1. doing' \in [Workers -> Records \cup {NoRecord}]
    BY <1>1, <1>2 DEF IInv, TypeOK, r
  <2> QED  BY <1>1, <1>2, <2>1, SizesAssumption DEF IInv, TypeOK
<1>13. exited = {}
  BY <1>1 DEF IInv, Leaving
<1> QED  BY <1>1, <1>11, <1>12, <1>13 DEF IInv, Leaving, Reading

LEMMA ReplayKeeps ==
    ASSUME IInv, NEW w \in Workers, Replay(w)
    PROVE  IInv'
<1> DEFINE r == doing[w]
<1>1. /\ r # NoRecord /\ doing' = [doing EXCEPT ![w] = NoRecord]
      /\ UNCHANGED <<pusher, next, recordChan, chanClosed, exited, monitor, errors,
                     isRunning, created, dropped>>
  BY DEF Replay, pushVars
<1>2. /\ \/ recovered' = recovered \cup {r} /\ failed' = failed
         \/ recovered' = recovered /\ failed' = failed \cup {r}
      /\ errChan' \in {errChan, errChan + 1}
      /\ errChan' # errChan => errChan < Cardinality(Workers)
  BY DEF Replay, Count, RoomForError
<1>3. r \in Records /\ r \in InWork
  BY <1>1 DEF IInv, TypeOK, InWork
<1>4. \A v \in Workers : doing'[v] = IF v = w THEN NoRecord ELSE doing[v]
  BY <1>1 DEF IInv, TypeOK
<1>5. \A v \in Workers : v # w => doing[v] # r
  BY <1>1 DEF IInv, Spread
<1> HIDE DEF r
<1>6. InWork' = InWork \ {r}
  <2>1. \A v \in Workers : v = w => doing[v] = r
    BY DEF r
  <2> QED  BY <1>4, <1>5, <2>1 DEF InWork
<1>7. Queued' = Queued /\ Pushed' = Pushed
  BY <1>1 DEF Queued, Pushed
<1>8. \A v, u \in Workers : doing'[v] = doing'[u] /\ doing'[v] # NoRecord => v = u
  BY <1>4 DEF IInv, Spread
<1>9. Spread'
  <2>1. \A i, j \in 1..Len(recordChan') : recordChan'[i] = recordChan'[j] => i = j
    BY <1>1 DEF IInv, Spread
  <2> QED  BY <1>1, <1>2, <1>3, <1>6, <1>7, <1>8, <2>1 DEF IInv, Spread
<1>10. TypeOK'
  <2>1. errChan' \in 0..Cardinality(Workers)
    <3>1. Cardinality(Workers) \in Nat /\ errChan \in 0..Cardinality(Workers)
      BY SizesAssumption, FS_CardinalityType DEF IInv, TypeOK
    <3> QED  BY <1>2, <3>1
  <2>2. doing' \in [Workers -> Records \cup {NoRecord}]
    BY <1>1 DEF IInv, TypeOK
  <2>3. recovered' \subseteq Records /\ failed' \subseteq Records
    BY <1>2, <1>3 DEF IInv, TypeOK
  <2> QED  BY <1>1, <2>1, <2>2, <2>3 DEF IInv, TypeOK
<1>11. \A v \in exited' : doing'[v] = NoRecord
  BY <1>1, <1>4 DEF IInv, Leaving, TypeOK
<1> QED  BY <1>1, <1>9, <1>10, <1>11 DEF IInv, Leaving, Reading

LEMMA LeaveKeeps ==
    ASSUME IInv, NEW w \in Workers, Leave(w)
    PROVE  IInv'
<1>1. /\ doing[w] = NoRecord /\ chanClosed /\ recordChan = <<>> /\ exited' = exited \cup {w}
      /\ w \notin exited
      /\ UNCHANGED <<pusher, next, recordChan, chanClosed, doing, errChan, monitor, errors,
                     isRunning, created, recovered, failed, dropped>>
  BY DEF Leave, WorkerMayLeave, pushVars, monitorVars, results
<1>2. Spread'
  BY <1>1, NothingMoves DEF IInv
<1> QED  BY <1>1, <1>2 DEF IInv, TypeOK, Leaving, Reading

LEMMA MonitorKeeps == IInv /\ Monitor => IInv'
<1> SUFFICES ASSUME IInv, Monitor PROVE IInv'
  OBVIOUS
<1>1. UNCHANGED <<pusher, next, recordChan, doing, exited, created, recovered, failed, dropped>>
  BY DEF Monitor, MonitorReads, StopMarks, StopCloses, StopEnds, pushVars, workerVars, results
<1>2. Spread'
  BY <1>1, NothingMoves DEF IInv
<1>3. Cardinality(Workers) \in Nat
  BY SizesAssumption, FS_CardinalityType
<1>4. CASE MonitorReads
  <2>1. /\ monitor = "range" /\ errChan > 0 /\ errChan' = errChan - 1 /\ errors' = errors + 1
        /\ monitor' = (IF errors + 1 > ErrorLimit THEN "stop" ELSE "range")
        /\ chanClosed' = chanClosed /\ isRunning' = isRunning
    BY <1>4 DEF MonitorReads
  <2>2. errors \in Nat /\ errors <= ErrorLimit /\ errChan \in 0..Cardinality(Workers)
    BY <2>1, SizesAssumption DEF IInv, Reading, TypeOK
  <2>3. Workers # {}
    BY <1>3, <2>1, <2>2, FS_EmptySet
  <2>4. errChan' \in 0..Cardinality(Workers) /\ errors' \in 0..(ErrorLimit + 1)
    BY <1>3, <2>1, <2>2, SizesAssumption
  <2>5. monitor' \in {"stop", "range"} /\ (monitor' = "range" => errors' <= ErrorLimit)
    BY <2>1, <2>2, SizesAssumption
  <2> QED  BY <1>1, <1>2, <2>1, <2>3, <2>4, <2>5 DEF IInv, TypeOK, Leaving, Reading
<1>5. CASE StopMarks
  BY <1>1, <1>2, <1>5 DEF StopMarks, IInv, TypeOK, Leaving, Reading
<1>6. CASE StopCloses
  BY <1>1, <1>2, <1>6 DEF StopCloses, IInv, TypeOK, Leaving, Reading
<1>7. CASE StopEnds
  BY <1>1, <1>2, <1>7 DEF StopEnds, MayCloseErrors, IInv, TypeOK, Leaving, Reading
<1> QED  BY <1>4, <1>5, <1>6, <1>7 DEF Monitor

LEMMA StepKeeps == IInv /\ [Next]_vars => IInv'
<1> SUFFICES ASSUME IInv, [Next]_vars PROVE IInv'
  OBVIOUS
<1>1. CASE PushPanics \/ CreateDatabase
  <2>1. UNCHANGED <<next, recordChan, doing, recovered, failed, dropped>>
    BY <1>1 DEF PushPanics, CreateDatabase, pushVars, workerVars, results
  <2>2. Spread'
    BY <2>1, NothingMoves DEF IInv
  <2> QED
    BY <1>1, <2>2
       DEF PushPanics, CreateDatabase, pushVars, workerVars, monitorVars, results,
           IInv, TypeOK, Leaving, Reading
<1>2. CASE UNCHANGED vars
  <2>1. Spread'
    BY <1>2, NothingMoves DEF IInv, vars
  <2> QED  BY <1>2, <2>1 DEF vars, IInv, TypeOK, Leaving, Reading
<1> QED
  BY <1>1, <1>2, PushCheckKeeps, PushTimeoutKeeps, PushSendKeeps, TakeKeeps, ReplayKeeps,
     LeaveKeeps, MonitorKeeps DEF Next, Push, Work

-----------------------------------------------------------------------------
(* What Push gives up *)

\* Push gives a record up when the channel is full of earlier ones, or after a stop.
Losing == isRunning => \A r \in dropped : r > ChanCap

LEMMA FullOfEarlier ==
    ASSUME IInv, Len(recordChan) = ChanCap
    PROVE  next > ChanCap
<1>1. next \in Nat /\ next >= 1 /\ ChanCap \in Nat
  BY SizesAssumption DEF IInv, TypeOK
<1>2. Cardinality(Queued) = ChanCap
  BY NoRepetitions DEF IInv, TypeOK, Spread, Queued
<1>3. IsFiniteSet(Pushed) /\ Cardinality(Pushed) = next - 1
  BY <1>1, UpTo DEF Pushed
<1>4. Queued \subseteq Pushed
  BY DEF IInv, Spread
<1>5. Cardinality(Queued) <= Cardinality(Pushed)
  BY <1>3, <1>4, FS_Subset
<1> QED  BY <1>1, <1>2, <1>3, <1>5

LEMMA LosingKeeps == IInv /\ Losing /\ [Next]_vars => Losing'
<1> SUFFICES ASSUME IInv, Losing, [Next]_vars PROVE Losing'
  OBVIOUS
<1>1. CASE PushCheck
  BY <1>1 DEF PushCheck, Losing, monitorVars
<1>2. CASE PushTimeout
  <2>1. next > ChanCap
    BY <1>2, FullOfEarlier DEF PushTimeout
  <2>2. dropped' = dropped \cup {next} /\ isRunning' = isRunning
    BY <1>2 DEF PushTimeout, monitorVars
  <2> QED  BY <2>1, <2>2 DEF Losing
<1>3. CASE PushSend \/ PushPanics \/ CreateDatabase
  BY <1>3 DEF PushSend, PushPanics, CreateDatabase, Losing, monitorVars, results
<1>4. CASE \E w \in Workers : Work(w)
  BY <1>4 DEF Work, Take, Replay, Leave, Losing, monitorVars, results
<1>5. CASE Monitor
  BY <1>5 DEF Monitor, MonitorReads, StopMarks, StopCloses, StopEnds, Losing, results
<1>6. CASE UNCHANGED vars
  BY <1>6 DEF vars, Losing
<1> QED  BY <1>1, <1>2, <1>3, <1>4, <1>5, <1>6 DEF Next, Push

-----------------------------------------------------------------------------
(* The theorems *)

\* The inductive invariant of the channel, the workers and the monitor.
THEOREM IInvHolds == Spec => []IInv
<1> QED  BY InitIInv, StepKeeps, PTL DEF Spec

\* The variables keep their types; neither channel ever exceeds its capacity.
THEOREM TypeCorrect == Spec => []TypeOK
<1>1. IInv => TypeOK
  BY DEF IInv
<1> QED  BY <1>1, IInvHolds, PTL

\* Push gives a record up only when it meets a channel full of earlier ones, or a stop.
THEOREM LosingHolds == Spec => []Losing
<1>1. Init => Losing
  BY DEF Init, Losing
<1> QED  BY <1>1, IInvHolds, LosingKeeps, PTL DEF Spec

\* A record the channel has taken is neither lost nor replayed twice, whatever the workers
\* and a Stop in the middle do.  One that Push gives up is lost for good, which happens to
\* none of the first ChanCap records before a stop.
THEOREM OnceHolds == Spec => []EachRecordOnce
<1>1. IInv /\ Losing => EachRecordOnce
  <2> SUFFICES ASSUME IInv, Losing PROVE EachRecordOnce
    OBVIOUS
  <2>1. Cardinality(Queued) = Len(recordChan)
    BY NoRepetitions DEF IInv, TypeOK, Spread, Queued
  <2>2. \A A, B \in {Queued, InWork, recovered, failed, dropped} : A # B => A \cap B = {}
    BY DEF IInv, Spread
  <2> QED  BY <2>1, <2>2 DEF IInv, Spread, Pushed, Losing, EachRecordOnce
<1> QED  BY <1>1, IInvHolds, LosingHolds, PTL

\* When Stop has returned no record is in the channel or with a worker, so that no worker
\* sends on the closed errChan.
THEOREM DrainsHolds == Spec => []StopDrains
<1>1. IInv => StopDrains
  <2> SUFFICES ASSUME IInv, monitor = "stopped" PROVE Queued = {} /\ InWork = {}
    BY DEF StopDrains
  <2>1. recordChan = <<>> /\ \A w \in Workers : doing[w] = NoRecord
    BY DEF IInv, Leaving
  <2> QED  BY <2>1 DEF Queued, InWork
<1> QED  BY <1>1, IInvHolds, PTL

-----------------------------------------------------------------------------
(* SchemaMigrator *)

\* The schema after the first k migrations.
FirstMigrations(k) == [version |-> k, changes |-> 1..k]
Full == FirstMigrations(N)

SchemaPlaces == {"off", "check", "up", "save schema", "save list", "done"}

\* MigrateSchema goes through the migrations from the first to the last: it starts from the
\* default schema only, since a schema of an earlier life is the default one or the last.
Working ==
    /\ schema = Default /\ applied = {}
    /\ \E k \in 0..N : target = FirstMigrations(k) /\ todo = (k + 1)..N /\ ran = 1..k

\* The inductive invariant: the two files and the two variables in memory hold nothing or
\* everything, the list on disk never holds everything before the schema does unless a start
\* has overwritten the schema, and the places of main tell which of them are done.
SchemaInv ==
    /\ schemaFile \in {{}, {Default}, {Full}} /\ schema \in {Default, Full}
    /\ applied \in {{}, Migrations} /\ appliedFile \in {{}, Migrations}
    /\ pc \in SchemaPlaces
    /\ target \in Schemas /\ todo \subseteq Migrations /\ ran \subseteq Migrations
    /\ appliedFile # {} => schemaFile = {Full} \/ overwritten
    /\ overwritten \in BOOLEAN
    /\ pc = "up" => Working
    /\ pc = "save schema" => schema = Full /\ applied = Migrations
    /\ pc = "save list" => schemaFile = {Full} /\ applied = Migrations

-----------------------------------------------------------------------------
(* Schemas and lists *)

\* The two schemas that are ever seen are different schemas.
LEMMA Wholes ==
    /\ Default \in Schemas /\ Full \in Schemas /\ Default # Full
    /\ Full.version = N /\ Full.changes = Migrations
    /\ Default.version = 0 /\ Default.changes = {}
    /\ Default = FirstMigrations(0) /\ Migrations # {}
<1>1. /\ Full.version = N /\ Full.changes = Migrations
      /\ Default.version = 0 /\ Default.changes = {}
  BY DEF Default, Full, FirstMigrations, Migrations
<1>2. 0 \in 0..N /\ N \in 0..N /\ N # 0 /\ 1 \in 1..N /\ 1..0 = {}
  BY MigrationsAssumption
<1>3. Default # Full
  BY <1>1, <1>2
<1>4. Default \in Schemas /\ Full \in Schemas
  BY <1>2 DEF Default, Full, FirstMigrations, Schemas, Migrations
<1>5. Default = FirstMigrations(0) /\ Migrations # {}
  BY <1>2 DEF Default, FirstMigrations, Migrations
<1> QED  BY <1>1, <1>3, <1>4, <1>5

\* While migrations are pending by the count of the list, the list is not complete.
LEMMA PendingIsIncomplete == SomePending => applied # Migrations
<1>1. Cardinality(1..N) = N
  BY MigrationsAssumption, FS_Interval
<1> QED  BY <1>1, MigrationsAssumption DEF SomePending, Migrations

\* The next migration is the one after those done.
LEMMA NextOne ==
    ASSUME NEW k \in 0..N, NEW m,
           (k + 1)..N # {}, m = CHOOSE i \in (k + 1)..N : \A j \in (k + 1)..N : i <= j
    PROVE  /\ k \in 0..(N - 1) /\ m = k + 1
           /\ ((k + 1)..N) \ {m} = (m + 1)..N
           /\ (1..k) \cup {m} = 1..m
<1>1. k + 1 <= N
  BY MigrationsAssumption
<1>2. k + 1 \in (k + 1)..N /\ \A j \in (k + 1)..N : k + 1 <= j
  BY <1>1, MigrationsAssumption
<1>3. m \in (k + 1)..N /\ \A j \in (k + 1)..N : m <= j
  BY <1>2
<1>4. m = k + 1
  BY <1>1, <1>2, <1>3, MigrationsAssumption
<1>5. ((k + 1)..N) \ {m} = (m + 1)..N
  BY <1>4, MigrationsAssumption
<1>6. (1..k) \cup {m} = 1..m
  BY <1>4, MigrationsAssumption
<1> QED  BY <1>1, <1>4, <1>5, <1>6, MigrationsAssumption

-----------------------------------------------------------------------------
(* The invariant is inductive *)

LEMMA InitSchemaInv == SchemaInit => SchemaInv
BY Wholes DEF SchemaInit, SchemaInv, SchemaPlaces

LEMMA LoadKeepsSchema == SchemaInv /\ Load => SchemaInv'
<1> SUFFICES ASSUME SchemaInv, Load PROVE SchemaInv'
  OBVIOUS
<1>1. /\ pc' = "check" /\ applied' \in {appliedFile, {}} /\ appliedFile' = appliedFile
      /\ target' = target /\ todo' = todo /\ ran' = ran
      /\ ReadSchema \/ \E written \in BOOLEAN : DefaultSchema(written)
  BY DEF Load, work
<1>2. /\ schema' \in {Default, Full} /\ schemaFile' \in {{}, {Default}, {Full}}
      /\ appliedFile # {} => schemaFile' = {Full} \/ overwritten'
      /\ overwritten' \in BOOLEAN
  <2>1. CASE ReadSchema
    <3>1. /\ schema' \in schemaFile /\ schemaFile' = schemaFile
          /\ overwritten' = overwritten
      BY <2>1 DEF ReadSchema
    <3>2. /\ schemaFile \in {{}, {Default}, {Full}} /\ overwritten \in BOOLEAN
          /\ appliedFile # {} => schemaFile = {Full} \/ overwritten
      BY DEF SchemaInv
    <3>3. schema' \in {Default, Full}
      BY <3>1, <3>2
    <3> QED  BY <3>1, <3>2, <3>3
  <2>2. ASSUME NEW written \in BOOLEAN, DefaultSchema(written)
        PROVE  /\ schema' \in {Default, Full} /\ schemaFile' \in {{}, {Default}, {Full}}
               /\ appliedFile # {} => schemaFile' = {Full} \/ overwritten'
               /\ overwritten' \in BOOLEAN
    <3>1. CASE written
      <4>1. /\ schema' = Default /\ schemaFile' = {Default}
            /\ overwritten' = (overwritten \/ schemaFile # {})
        BY <2>2, <3>1 DEF DefaultSchema
      <4>2. appliedFile # {} => overwritten'
        BY <4>1 DEF SchemaInv
      <4> QED  BY <4>1, <4>2
    <3>2. CASE ~written
      <4>1. schema' = Default /\ schemaFile' = schemaFile /\ overwritten' = (overwritten \/ FALSE)
        BY <2>2, <3>2 DEF DefaultSchema
      <4>2. overwritten' = overwritten
        BY <4>1 DEF SchemaInv
      <4> QED  BY <4>1, <4>2 DEF SchemaInv
    <3> QED  BY <3>1, <3>2
  <2> QED  BY <1>1, <2>1, <2>2
<1>3. applied' \in {{}, Migrations} /\ appliedFile' \in {{}, Migrations}
  BY <1>1 DEF SchemaInv
<1> QED  BY <1>1, <1>2, <1>3 DEF SchemaInv, SchemaPlaces

LEMMA BeginKeeps == SchemaInv /\ BeginMigration => SchemaInv'
<1> SUFFICES ASSUME SchemaInv, BeginMigration PROVE SchemaInv'
  OBVIOUS
<1>1. /\ pc' = "up" /\ target' = schema /\ ran' = {} /\ todo' = Selected
      /\ UNCHANGED <<schemaFile, appliedFile, schema, applied, overwritten>>
  BY DEF BeginMigration, schemaFiles, schemaMemory
<1>2. schema = Default /\ applied = {}
  BY PendingIsIncomplete, Wholes DEF BeginMigration, SchemaInv
<1>3. Selected = (0 + 1)..N
  BY <1>2, Wholes, MigrationsAssumption DEF Selected, Migrations
<1>4. target' = FirstMigrations(0) /\ ran' = 1..0 /\ 0 \in 0..N
  BY <1>1, <1>2, Wholes, MigrationsAssumption
<1>5. Working'
  BY <1>1, <1>2, <1>3, <1>4 DEF Working
<1>6. todo' \subseteq Migrations /\ ran' \subseteq Migrations /\ target' \in Schemas
  BY <1>1, <1>2, Wholes DEF Selected
<1> QED  BY <1>1, <1>5, <1>6 DEF SchemaInv, SchemaPlaces

LEMMA UpKeeps == SchemaInv /\ Up => SchemaInv'
<1> SUFFICES ASSUME SchemaInv, Up PROVE SchemaInv'
  OBVIOUS
<1>1. /\ pc' = "up" /\ pc = "up" /\ todo # {}
      /\ UNCHANGED <<schemaFile, appliedFile, schema, applied, overwritten>>
  BY DEF Up, schemaFiles, Worked
<1>2. PICK k \in 0..N : target = FirstMigrations(k) /\ todo = (k + 1)..N /\ ran = 1..k
  BY <1>1 DEF SchemaInv, Working
<1> DEFINE m == CHOOSE i \in todo : \A j \in todo : i <= j
<1>3. /\ target' = [version |-> m, changes |-> target.changes \cup {m}]
      /\ todo' = todo \ {m} /\ ran' = ran \cup {m}
  BY DEF Up, Worked
<1>4. /\ k \in 0..(N - 1) /\ m = k + 1
      /\ todo \ {m} = (m + 1)..N /\ ran \cup {m} = 1..m
  BY <1>1, <1>2, NextOne
<1>5. target' = FirstMigrations(m) /\ todo' = (m + 1)..N /\ ran' = 1..m
  BY <1>2, <1>3, <1>4 DEF FirstMigrations
<1>6. m \in 0..N
  BY <1>4, MigrationsAssumption
<1>7. Working'
  BY <1>1, <1>5, <1>6 DEF SchemaInv, Working
<1>8. target' \in Schemas /\ todo' \subseteq Migrations /\ ran' \subseteq Migrations
  <2> HIDE DEF m
  <2> QED  BY <1>5, <1>6, MigrationsAssumption DEF FirstMigrations, Schemas, Migrations
<1> QED  BY <1>1, <1>7, <1>8 DEF SchemaInv, SchemaPlaces

LEMMA CommitKeeps == SchemaInv /\ Commit => SchemaInv'
<1> SUFFICES ASSUME SchemaInv, Commit PROVE SchemaInv'
  OBVIOUS
<1>1. /\ pc' = "save schema" /\ pc = "up" /\ todo = {}
      /\ schema' = target /\ applied' = applied \cup ran
      /\ UNCHANGED <<schemaFile, appliedFile, target, todo, ran, overwritten>>
  BY DEF Commit, schemaFiles, work
<1>2. PICK k \in 0..N : target = FirstMigrations(k) /\ todo = (k + 1)..N /\ ran = 1..k
  BY <1>1 DEF SchemaInv, Working
<1>3. k = N
  <2>1. k + 1 \notin (k + 1)..N
    BY <1>1, <1>2
  <2> QED  BY <2>1, MigrationsAssumption
<1>4. schema' = Full /\ applied' = Migrations
  BY <1>1, <1>2, <1>3 DEF SchemaInv, Working, Full, Migrations
<1> QED  BY <1>1, <1>4 DEF SchemaInv, SchemaPlaces

LEMMA SaveSchemaKeeps == SchemaInv /\ SaveSchema => SchemaInv'
BY DEF SchemaInv, SchemaPlaces, SaveSchema, AfterSchemaError, schemaMemory, work

LEMMA SaveListKeeps == SchemaInv /\ SaveList => SchemaInv'
BY DEF SchemaInv, SchemaPlaces, SaveList, schemaMemory, work

LEMMA CrashKeeps == SchemaInv /\ Crash => SchemaInv'
<1> SUFFICES ASSUME SchemaInv, Crash PROVE SchemaInv'
  OBVIOUS
<1>1. /\ pc' = "off" /\ schema' = Default /\ applied' = {}
      /\ target' = Default /\ todo' = {} /\ ran' = {}
      /\ schemaFile' = schemaFile /\ appliedFile' = appliedFile
      /\ overwritten' = overwritten
  BY DEF Crash, schemaFiles
<1> QED  BY <1>1, Wholes DEF SchemaInv, SchemaPlaces

LEMMA SchemaStepKeeps == SchemaInv /\ [SchemaNext]_schemaVars => SchemaInv'
<1> SUFFICES ASSUME SchemaInv, [SchemaNext]_schemaVars PROVE SchemaInv'
  OBVIOUS
<1>1. CASE Load
  BY <1>1, LoadKeepsSchema
<1>2. CASE Skip
  BY <1>2 DEF SchemaInv, SchemaPlaces, Skip, schemaFiles, schemaMemory, work
<1>3. CASE BeginMigration
  BY <1>3, BeginKeeps
<1>4. CASE Up
  BY <1>4, UpKeeps
<1>5. CASE Commit
  BY <1>5, CommitKeeps
<1>6. CASE SaveSchema
  BY <1>6, SaveSchemaKeeps
<1>7. CASE SaveList
  BY <1>7, SaveListKeeps
<1>8. CASE Fails
  BY <1>8 DEF SchemaInv, SchemaPlaces, Fails, schemaFiles, schemaMemory, work
<1>9. CASE Crash
  BY <1>9, CrashKeeps
<1>10. CASE UNCHANGED schemaVars
  BY <1>10 DEF SchemaInv, Working, schemaVars, schemaFiles, schemaMemory, work
<1> QED
  BY <1>1, <1>2, <1>3, <1>4, <1>5, <1>6, <1>7, <1>8, <1>9, <1>10 DEF SchemaNext, Step

-----------------------------------------------------------------------------
(* The theorems *)

\* The inductive invariant holds in every state: files and memory are all or nothing, whatever
\* fails, and only a start that could not read the schema parts the schema from the list.
THEOREM SchemaInvHolds == SchemaSpec => []SchemaInv
<1> QED  BY InitSchemaInv, SchemaStepKeeps, PTL DEF SchemaSpec

\* The variables keep their types; in particular there is never more than one schema file.
THEOREM SchemaTypeCorrect == SchemaSpec => []SchemaTypeOK
<1>1. SchemaInv => SchemaTypeOK
  <2> SUFFICES ASSUME SchemaInv PROVE SchemaTypeOK
    OBVIOUS
  <2>1. Cardinality(schemaFile) <= 1
    <3>1. Cardinality({}) = 0 /\ Cardinality({Default}) = 1 /\ Cardinality({Full}) = 1
      BY FS_EmptySet, FS_Singleton
    <3>2. CASE schemaFile = {}
      BY <3>1, <3>2
    <3>3. CASE schemaFile = {Default}
      BY <3>1, <3>3
    <3>4. CASE schemaFile = {Full}
      BY <3>1, <3>4
    <3> QED  BY <3>2, <3>3, <3>4 DEF SchemaInv
  <2>2. schemaFile \subseteq Schemas /\ schema \in Schemas
    BY Wholes DEF SchemaInv
  <2> QED  BY <2>1, <2>2 DEF SchemaInv, SchemaPlaces, SchemaTypeOK
<1> QED  BY <1>1, SchemaInvHolds, PTL

\* MigrateSchema saves the schema before the list, and only a saved schema leads to the list:
\* what the list on disk calls applied is in the schema on disk, unless a start has written
\* the default over a schema it could not read.
THEOREM AppliedHolds == SchemaSpec => []AppliedIsInSchema
<1>1. SchemaInv => AppliedIsInSchema
  BY Wholes DEF SchemaInv, AppliedIsInSchema
<1> QED  BY <1>1, SchemaInvHolds, PTL

\* MigrateSchema works on a copy: no schema in memory or on disk is half migrated.
THEOREM WholeHolds == SchemaSpec => []SchemaIsWhole
<1>1. SchemaInv => SchemaIsWhole
  BY Wholes DEF SchemaInv, SchemaIsWhole
<1> QED  BY <1>1, SchemaInvHolds, PTL

-----------------------------------------------------------------------------
(* Persistence *)

\* Stamps of some collections; where a saver can be; the records of the model.
Parts == SUBSET (Collections \X (0..MaxWrites))
SavePlaces == {"idle", "next", "read", "write", "rename", "cleanup", "remove", "left",
               "wait", "done"}
SaverRecords == [pc : SavePlaces, todo : SUBSET Databases, db : Databases \cup {Nobody},
                 version : Nat, snapshot : Parts, at : Nat, error : BOOLEAN]
FileRecords == [db : Databases, version : Nat, tmp : BOOLEAN, at : Nat, content : Parts]

SaveTypes ==
    /\ SaveTypeOK
    /\ IsFiniteSet(disk) /\ disk \subseteq FileRecords /\ clock \in Nat /\ checkpointID \in Nat
    /\ saver \in [Savers -> SaverRecords]
    /\ saved \in [Databases -> Parts] /\ atStop \subseteq Databases \X Snapshots

\* The places of a call of SaveDatabase.
InSave == {"read", "write", "rename"}

\* No two files have one time, and no stamp is newer than the last.
Times ==
    /\ \A f, g \in disk : f.at = g.at => f = g
    /\ \A d \in Databases, c \in Collections : content[d][c] <= writes

Complete(snap) == \A c \in Collections : \E q \in snap : q[1] = c
OneEach(snap) == \A p, q \in snap : p[1] = q[1] => p = q

\* SaveDatabase holds pm.mu, what it writes is whole, and its temporary file is the newest.
Saving ==
    \A s \in Savers :
        /\ saver[s].pc \in InSave =>
               mu = s /\ saver[s].db \in Databases /\ OneEach(saver[s].snapshot)
        /\ saver[s].pc \in {"write", "rename"} => Complete(saver[s].snapshot)
        /\ saver[s].pc = "rename" =>
               /\ saver[s].at = clock
               /\ \A f \in TmpOf(saver[s], disk) : f.content = saver[s].snapshot

\* Which of the three savers run when.
SaveOrder ==
    /\ shutdown = "no" => saver["final"].pc = "idle"
    /\ shutdown # "stop" => saver["stop"].pc = "idle" /\ saver["loop"].pc # "left"
    /\ saver["stop"].pc \in InSave \cup {"next", "done"} => saver["loop"].pc = "left"

\* SaveAll saves databases there are, each once.
Chosen ==
    \A s \in Savers :
        /\ saver[s].todo \subseteq exists
        /\ saver[s].pc \in InSave => saver[s].db \in exists \ saver[s].todo

Newest(d, f) == f \in Valid(d) /\ \A g \in Valid(d) : g.at <= f.at

\* SavedStays, and a database saved is one of the storage.
Kept ==
    shutdown = "no" =>
        \A d \in Databases : saved[d] # Unread =>
            /\ d \in exists
            /\ MaxCheckpoints >= Cardinality(Databases) =>
                   \E f \in Valid(d) : Newest(d, f) /\ f.content = saved[d]

\* A round of checkpointLoop that began at time t has written one file of every database it
\* is past, and the newest file of every database saved that it is past is of the round.
Since(t) == {f \in disk : f.at > t}
InRound(r, t) ==
    /\ r.pc = "rename" => t < clock
    /\ \A f, g \in Since(t) : f.db = g.db => f = g
    /\ \A f \in Since(t) : f.db \notin r.todo /\ ~(r.pc \in {"read", "write"} /\ f.db = r.db)
    /\ \A d \in Databases :
           saved[d] # Unread /\ d \notin r.todo /\ ~(r.pc \in InSave /\ d = r.db) =>
               \A f \in Valid(d) : Newest(d, f) => f.at > t
LoopRound ==
    shutdown = "no" =>
        /\ saver["loop"].pc \in InSave \cup {"next", "cleanup", "remove"} /\ ~saver["loop"].error =>
               \E t \in 0..clock : InRound(saver["loop"], t)
        /\ saver["loop"].pc \in {"cleanup", "remove"} =>
               ~saver["loop"].error /\ saver["loop"].todo = {}
        /\ saver["loop"].pc = "remove" => listed = disk /\ Cardinality(disk) > MaxCheckpoints

\* What Stop has promised to save: a database it is past has a newest file that is new
\* enough, and so is what anybody reads of that database since.
Covers(p) == \E f \in Valid(p[1]) : Newest(p[1], f) /\ CoveredBy(AsSet(p[2]), f.content)
LateRead(r, p) == \A q \in r.snapshot : q[2] >= p[2][q[1]]
Promised(p) ==
    /\ \A c \in Collections : p[2][c] <= content[p[1]][c]
    /\ \A s \in Savers :
           saver[s].pc \in InSave /\ saver[s].db = p[1] /\ p[1] \notin saver["stop"].todo =>
               LateRead(saver[s], p)
    /\ \/ saver["stop"].error \/ p[1] \in saver["stop"].todo
       \/ saver["stop"].pc \in InSave /\ saver["stop"].db = p[1]
       \/ Covers(p)
Stopping ==
    /\ atStop # {} => saver["stop"].pc \in InSave \cup {"next", "done"}
    /\ saver["stop"].pc = "done" => saver["stop"].todo = {}
    /\ \A p \in atStop : Promised(p)

\* The inductive invariant.
SaveInv == SaveTypes /\ Times /\ Saving /\ SaveOrder /\ Chosen /\ Kept /\ LoopRound /\ Stopping

-----------------------------------------------------------------------------
(* What a step of a saver does *)

Others(s) == \A z \in Savers \ {s} : saver'[z] = saver[z]

LEMMA SaverNames ==
    /\ "loop" \in Savers /\ "final" \in Savers /\ "stop" \in Savers
    /\ Nobody \notin Savers
    /\ \A s \in Savers : s = "loop" \/ s = "final" \/ s = "stop"
BY DEF Savers, Nobody

LEMMA IdleRecord ==
    /\ Idle \in SaverRecords /\ Idle.pc = "idle" /\ Idle.todo = {} /\ Idle.snapshot = {}
    /\ Idle.error = FALSE
BY DEF Idle, SaverRecords, SavePlaces, Nobody, Unread, Parts

LEMMA Goes ==
    ASSUME SaveTypes, NEW s \in Savers, NEW r \in SaverRecords, Goto(s, r)
    PROVE  saver' \in [Savers -> SaverRecords] /\ saver'[s] = r /\ Others(s)
BY DEF SaveTypes, Goto, Others

\* SaveAll begins at the first of the databases there are.
LEMMA SaveAllDoes ==
    ASSUME SaveTypes, NEW s \in Savers, SaveAll(s)
    PROVE  /\ saver' \in [Savers -> SaverRecords] /\ Others(s)
           /\ saver'[s].pc = "next" /\ saver'[s].todo = exists /\ saver'[s].error = FALSE
<1> DEFINE r == [Idle EXCEPT !.pc = "next", !.todo = exists]
<1>1. r \in SaverRecords /\ r.pc = "next" /\ r.todo = exists /\ r.error = FALSE
  BY DEF SaveTypes, SaveTypeOK, Idle, SaverRecords, SavePlaces, Nobody, Unread, Parts
<1>2. Goto(s, r)
  BY DEF SaveAll
<1> HIDE DEF r
<1> QED  BY <1>1, <1>2, Goes

LEMMA BeginDoes ==
    ASSUME SaveTypes, NEW s \in Savers, NEW d \in Databases, Begin(s, d)
    PROVE  /\ saver' \in [Savers -> SaverRecords] /\ Others(s)
           /\ saver[s].pc = "next" /\ d \in saver[s].todo /\ mu = Nobody /\ mu' = s
           /\ saver'[s].pc = "read" /\ saver'[s].todo = saver[s].todo \ {d} /\ saver'[s].db = d
           /\ saver'[s].snapshot = {} /\ saver'[s].error = saver[s].error
           /\ checkpointID' \in Nat
<1> DEFINE r == [saver[s] EXCEPT !.pc = "read", !.todo = @ \ {d}, !.db = d,
                                 !.version = checkpointID + 1, !.snapshot = Unread]
<1>1. saver[s] \in SaverRecords /\ checkpointID + 1 \in Nat
  BY DEF SaveTypes
<1>2. /\ r \in SaverRecords /\ r.pc = "read" /\ r.todo = saver[s].todo \ {d} /\ r.db = d
      /\ r.snapshot = {} /\ r.error = saver[s].error
  BY <1>1 DEF SaverRecords, SavePlaces, Unread, Parts
<1>3. Goto(s, r) /\ saver[s].pc = "next" /\ d \in saver[s].todo /\ mu = Nobody /\ mu' = s
      /\ checkpointID' = checkpointID + 1
  BY DEF Begin, At, MayBegin
<1> HIDE DEF r
<1> QED  BY <1>1, <1>2, <1>3, Goes

LEMMA ReadDoes ==
    ASSUME SaveTypes, NEW s \in Savers, NEW c \in Collections, Read(s, c),
           saver[s].db \in Databases
    PROVE  /\ saver' \in [Savers -> SaverRecords] /\ Others(s)
           /\ saver[s].pc = "read" /\ c \notin {p[1] : p \in saver[s].snapshot}
           /\ saver'[s].todo = saver[s].todo /\ saver'[s].db = saver[s].db
           /\ saver'[s].snapshot = saver[s].snapshot \cup {<<c, content[saver[s].db][c]>>}
           /\ saver'[s].error = saver[s].error
           /\ saver'[s].pc = IF Cardinality(saver'[s].snapshot) = Cardinality(Collections)
                             THEN "write" ELSE "read"
           /\ <<c, content[saver[s].db][c]>> \in Collections \X (0..MaxWrites)
<1> DEFINE got == saver[s].snapshot \cup {<<c, content[saver[s].db][c]>>}
           r == [saver[s] EXCEPT !.snapshot = got,
                          !.pc = IF Cardinality(got) = Cardinality(Collections)
                                 THEN "write" ELSE "read"]
<1>1. saver[s] \in SaverRecords
  BY DEF SaveTypes
<1>2. <<c, content[saver[s].db][c]>> \in Collections \X (0..MaxWrites)
  BY DEF SaveTypes, SaveTypeOK, Snapshots
<1>3. got \in Parts
  BY <1>1, <1>2 DEF SaverRecords, Parts
<1>4. Goto(s, r) /\ saver[s].pc = "read" /\ c \notin {p[1] : p \in saver[s].snapshot}
  BY DEF Read, At
<1>5. got = saver[s].snapshot \cup {<<c, content[saver[s].db][c]>>}
  OBVIOUS
<1> HIDE DEF got
<1>6. /\ r \in SaverRecords /\ r.todo = saver[s].todo /\ r.db = saver[s].db /\ r.snapshot = got
      /\ r.error = saver[s].error
      /\ r.pc = IF Cardinality(got) = Cardinality(Collections) THEN "write" ELSE "read"
  BY <1>1, <1>3 DEF SaverRecords, SavePlaces
<1> HIDE DEF r
<1>7. saver' \in [Savers -> SaverRecords] /\ saver'[s] = r /\ Others(s)
  BY <1>4, <1>6, Goes
<1> QED  BY <1>2, <1>4, <1>5, <1>6, <1>7

LEMMA WriteTmpDoes ==
    ASSUME SaveTypes, NEW s \in Savers, WriteTmp(s), saver[s].db \in Databases
    PROVE  /\ saver' \in [Savers -> SaverRecords] /\ Others(s) /\ saver[s].pc = "write"
           /\ saver'[s].pc = "rename" /\ saver'[s].at = clock + 1 /\ clock' = clock + 1
           /\ saver'[s].todo = saver[s].todo /\ saver'[s].db = saver[s].db
           /\ saver'[s].snapshot = saver[s].snapshot /\ saver'[s].error = saver[s].error
           /\ \E f \in FileRecords :
                  /\ disk' = disk \cup {f} /\ f.at = clock + 1 /\ f.tmp /\ f.db = saver[s].db
                  /\ f.content = saver[s].snapshot
<1> DEFINE r == [saver[s] EXCEPT !.pc = "rename", !.at = clock + 1]
           f == File(saver[s].db, saver[s].version, TRUE, clock + 1, saver[s].snapshot)
<1>1. saver[s] \in SaverRecords /\ clock + 1 \in Nat
  BY DEF SaveTypes
<1>2. /\ r \in SaverRecords /\ r.pc = "rename" /\ r.at = clock + 1 /\ r.todo = saver[s].todo
      /\ r.db = saver[s].db /\ r.snapshot = saver[s].snapshot /\ r.error = saver[s].error
  BY <1>1 DEF SaverRecords, SavePlaces
<1>3. /\ f \in FileRecords /\ f.at = clock + 1 /\ f.tmp /\ f.db = saver[s].db
      /\ f.content = saver[s].snapshot
  BY <1>1 DEF File, FileRecords, SaverRecords
<1>4. Goto(s, r) /\ saver[s].pc = "write" /\ clock' = clock + 1 /\ disk' = disk \cup {f}
  BY DEF WriteTmp, At
<1> HIDE DEF r, f
<1> QED  BY <1>2, <1>3, <1>4, Goes

\* The temporary file, of which there is one, takes its name.
LEMMA RenameDoes ==
    ASSUME SaveTypes, Times, Saving, NEW s \in Savers, Rename(s)
    PROVE  /\ saver' \in [Savers -> SaverRecords] /\ Others(s) /\ saver[s].pc = "rename"
           /\ saver'[s].pc = "next" /\ saver'[s].todo = saver[s].todo
           /\ saver'[s].db = saver[s].db /\ saver'[s].error = saver[s].error
           /\ mu' = Nobody /\ saved' = [saved EXCEPT ![saver[s].db] = saver[s].snapshot]
           /\ saver[s].db \in Databases
           /\ \E f \in disk, g \in FileRecords :
                  /\ f.tmp /\ f.db = saver[s].db /\ f.at = clock
                  /\ ~g.tmp /\ g.at = clock /\ g.db = saver[s].db
                  /\ g.content = saver[s].snapshot
                  /\ g \in disk' /\ \A h \in disk' : h = g \/ h \in disk \ {f}
                  /\ \A h \in disk \ {f} : h.db # saver[s].db => h \in disk'
<1> DEFINE r == [saver[s] EXCEPT !.pc = "next"]
           tmp == TmpOf(saver[s], disk)
<1>1. saver[s] \in SaverRecords
  BY DEF SaveTypes
<1>2. /\ r \in SaverRecords /\ r.pc = "next" /\ r.todo = saver[s].todo
      /\ r.db = saver[s].db /\ r.error = saver[s].error
  BY <1>1 DEF SaverRecords, SavePlaces
<1>3. /\ Goto(s, r) /\ saver[s].pc = "rename" /\ mu' = Nobody /\ tmp # {}
      /\ disk' = {f \in disk \ tmp : f.tmp \/ f.db # saver[s].db \/ f.version # saver[s].version}
                    \cup {[f EXCEPT !.tmp = FALSE] : f \in tmp}
      /\ saved' = [saved EXCEPT ![saver[s].db] = saver[s].snapshot]
  BY DEF Rename, At
<1>4. saver[s].db \in Databases /\ saver[s].at = clock
  BY <1>3 DEF Saving, InSave
<1>5. PICK f \in tmp : TRUE
  BY <1>3
<1>6. /\ f \in disk /\ f.tmp /\ f.db = saver[s].db /\ f.at = clock
      /\ f.content = saver[s].snapshot
  BY <1>3, <1>4, <1>5 DEF TmpOf, Saving
<1>7. tmp = {f}
  BY <1>4, <1>5, <1>6 DEF TmpOf, Times
<1> DEFINE g == [f EXCEPT !.tmp = FALSE]
<1>8. f \in FileRecords
  BY <1>6 DEF SaveTypes
<1>9. g \in FileRecords /\ ~g.tmp /\ g.at = f.at /\ g.db = f.db /\ g.content = f.content
  BY <1>8 DEF FileRecords
<1>10. disk' = {h \in disk \ {f} : h.tmp \/ h.db # saver[s].db \/ h.version # saver[s].version}
                  \cup {g}
  BY <1>3, <1>7
<1> HIDE DEF r, tmp, g
<1>11. /\ g \in disk' /\ \A h \in disk' : h = g \/ h \in disk \ {f}
       /\ \A h \in disk \ {f} : h.db # saver[s].db => h \in disk'
  BY <1>10
<1>12. saver' \in [Savers -> SaverRecords] /\ saver'[s] = r /\ Others(s)
  BY <1>2, <1>3, Goes
<1>13. \E f1 \in disk, g1 \in FileRecords :
          /\ f1.tmp /\ f1.db = saver[s].db /\ f1.at = clock
          /\ ~g1.tmp /\ g1.at = clock /\ g1.db = saver[s].db
          /\ g1.content = saver[s].snapshot
          /\ g1 \in disk' /\ \A h \in disk' : h = g1 \/ h \in disk \ {f1}
          /\ \A h \in disk \ {f1} : h.db # saver[s].db => h \in disk'
  BY <1>6, <1>9, <1>11
<1> QED  BY <1>2, <1>3, <1>4, <1>12, <1>13

LEMMA SaveFailsDoes ==
    ASSUME SaveTypes, NEW s \in Savers, SaveFails(s)
    PROVE  /\ saver' \in [Savers -> SaverRecords] /\ Others(s) /\ saver[s].pc = "rename"
           /\ saver'[s].pc = "next" /\ saver'[s].error = TRUE /\ mu' = Nobody
           /\ saver'[s].todo = saver[s].todo
           /\ disk' \subseteq disk /\ \A f \in disk : ~f.tmp => f \in disk'
<1> DEFINE r == [saver[s] EXCEPT !.pc = "next", !.error = TRUE]
<1>1. saver[s] \in SaverRecords
  BY DEF SaveTypes
<1>2. r \in SaverRecords /\ r.pc = "next" /\ r.error = TRUE /\ r.todo = saver[s].todo
  BY <1>1 DEF SaverRecords, SavePlaces
<1>3. /\ Goto(s, r) /\ saver[s].pc = "rename" /\ mu' = Nobody
      /\ disk' \in {disk, disk \ TmpOf(saver[s], disk)}
  BY DEF SaveFails, At, Failed
<1> HIDE DEF r
<1>4. disk' \subseteq disk /\ \A f \in disk : ~f.tmp => f \in disk'
  BY <1>3 DEF TmpOf
<1> QED  BY <1>2, <1>3, <1>4, Goes

LEMMA AllSavedDoes ==
    ASSUME SaveTypes, NEW s \in Savers, AllSaved(s)
    PROVE  /\ saver' \in [Savers -> SaverRecords] /\ Others(s) /\ saver[s].pc = "next"
           /\ saver[s].todo = {} /\ saver'[s].todo = {} /\ saver'[s].error = saver[s].error
           /\ saver'[s].pc = IF s # "loop" THEN "done"
                             ELSE IF saver[s].error THEN "idle" ELSE "cleanup"
<1> DEFINE pc2 == IF s # "loop" THEN "done" ELSE IF saver[s].error THEN "idle" ELSE "cleanup"
           r == [saver[s] EXCEPT !.pc = pc2]
<1>1. saver[s] \in SaverRecords /\ pc2 \in SavePlaces
  BY DEF SaveTypes, SavePlaces
<1>2. Goto(s, r) /\ saver[s].pc = "next" /\ saver[s].todo = {}
  BY DEF AllSaved, At
<1>3. pc2 = IF s # "loop" THEN "done" ELSE IF saver[s].error THEN "idle" ELSE "cleanup"
  OBVIOUS
<1> HIDE DEF pc2
<1>4. /\ r \in SaverRecords /\ r.pc = pc2 /\ r.todo = saver[s].todo /\ r.error = saver[s].error
  BY <1>1 DEF SaverRecords
<1> HIDE DEF r
<1>5. saver' \in [Savers -> SaverRecords] /\ saver'[s] = r /\ Others(s)
  BY <1>2, <1>4, Goes
<1> QED  BY <1>2, <1>3, <1>4, <1>5

LEMMA ListDoes ==
    ASSUME SaveTypes, CleanupList
    PROVE  /\ saver' \in [Savers -> SaverRecords] /\ Others("loop")
           /\ saver["loop"].pc = "cleanup" /\ listed' = disk
           /\ saver'["loop"].todo = saver["loop"].todo
           /\ saver'["loop"].db = saver["loop"].db
           /\ saver'["loop"].error = saver["loop"].error
           /\ saver'["loop"].pc = IF Cardinality(disk) <= MaxCheckpoints THEN "idle" ELSE "remove"
<1> DEFINE pc2 == IF Cardinality(disk) <= MaxCheckpoints THEN "idle" ELSE "remove"
           r == [saver["loop"] EXCEPT !.pc = pc2]
<1>1. saver["loop"] \in SaverRecords /\ pc2 \in SavePlaces
  BY SaverNames DEF SaveTypes, SavePlaces
<1>2. Goto("loop", r) /\ saver["loop"].pc = "cleanup" /\ listed' = disk
  BY DEF CleanupList, At
<1>3. pc2 = IF Cardinality(disk) <= MaxCheckpoints THEN "idle" ELSE "remove"
  OBVIOUS
<1> HIDE DEF pc2
<1>4. /\ r \in SaverRecords /\ r.pc = pc2 /\ r.todo = saver["loop"].todo
      /\ r.db = saver["loop"].db /\ r.error = saver["loop"].error
  BY <1>1 DEF SaverRecords
<1> HIDE DEF r
<1>5. saver' \in [Savers -> SaverRecords] /\ saver'["loop"] = r /\ Others("loop")
  BY <1>2, <1>4, Goes, SaverNames
<1> QED  BY <1>2, <1>3, <1>4, <1>5

\* A saver that goes to a place of its own.
LEMMA PlaceDoes ==
    ASSUME SaveTypes, NEW s \in Savers, NEW pl \in SavePlaces, Goto(s, [Idle EXCEPT !.pc = pl])
    PROVE  /\ saver' \in [Savers -> SaverRecords] /\ Others(s) /\ saver'[s].pc = pl
           /\ saver'[s].todo = {} /\ saver'[s].error = FALSE
<1> DEFINE r == [Idle EXCEPT !.pc = pl]
<1>1. r \in SaverRecords /\ r.pc = pl /\ r.todo = {} /\ r.error = FALSE
  BY DEF Idle, SaverRecords, Nobody, Unread, Parts
<1> HIDE DEF r
<1>2. Goto(s, r)
  BY DEF r
<1> QED  BY <1>1, <1>2, Goes

LEMMA FreshDoes ==
    ASSUME Fresh
    PROVE  /\ saver' \in [Savers -> SaverRecords]
           /\ \A s \in Savers : saver'[s].pc = "idle" /\ saver'[s].todo = {}
           /\ shutdown' = "no" /\ stopChan' = FALSE /\ mu' = Nobody /\ exists' = {}
           /\ \A d \in Databases : saved'[d] = Unread
           /\ atStop' = {} /\ content' = [d \in Databases |-> Empty] /\ checkpointID' = 0
           /\ saved' = [d \in Databases |-> Unread]
<1>1. saver' = [s \in Savers |-> Idle]
  BY DEF Fresh
<1>2. /\ saver' \in [Savers -> SaverRecords]
      /\ \A s \in Savers : saver'[s].pc = "idle" /\ saver'[s].todo = {}
  BY <1>1, IdleRecord
<1>3. \A d \in Databases : saved'[d] = Unread
  BY DEF Fresh
<1> QED  BY <1>2, <1>3 DEF Fresh

-----------------------------------------------------------------------------
(* Types *)

\* SaveTypes by what a step changes.
LEMMA TypesByParts ==
    ASSUME SaveTypes,
           up' \in BOOLEAN, exists' \subseteq Databases, content' \in [Databases -> Snapshots],
           writes' \in 0..MaxWrites,
           mu' \in Savers \cup {Nobody}, shutdown' \in {"no", "save", "stop"},
           stopChan' = (shutdown' = "stop"),
           IsFiniteSet(disk'), disk' \subseteq FileRecords, clock' \in Nat,
           \A f \in disk' : f.at \in 1..clock',
           checkpointID' \in Nat, saver' \in [Savers -> SaverRecords],
           saved' \in [Databases -> Parts], atStop' \subseteq Databases \X Snapshots
    PROVE  SaveTypes'
<1>1. \A f \in disk' : f.db \in Databases /\ f.at \in 1..clock'
  BY DEF FileRecords
<1>2. \A s \in Savers : saver'[s].pc \in {"idle", "next", "read", "write", "rename",
            "cleanup", "remove", "left", "wait", "done"}
  BY DEF SaverRecords, SavePlaces
<1>3. SaveTypeOK'
  BY <1>1, <1>2 DEF SaveTypeOK
<1> QED  BY <1>3 DEF SaveTypes

LEMMA TypesNow ==
    ASSUME SaveTypes
    PROVE  /\ up \in BOOLEAN /\ exists \subseteq Databases /\ content \in [Databases -> Snapshots]
           /\ writes \in 0..MaxWrites
           /\ mu \in Savers \cup {Nobody} /\ shutdown \in {"no", "save", "stop"}
           /\ stopChan = (shutdown = "stop")
           /\ IsFiniteSet(disk) /\ disk \subseteq FileRecords /\ clock \in Nat
           /\ \A f \in disk : f.at \in 1..clock
           /\ checkpointID \in Nat /\ saver \in [Savers -> SaverRecords]
           /\ saved \in [Databases -> Parts] /\ atStop \subseteq Databases \X Snapshots
           /\ \A s \in Savers : saver[s] \in SaverRecords
BY DEF SaveTypes, SaveTypeOK

LEMMA InitTypes == SaveInit => SaveTypes
<1> SUFFICES ASSUME SaveInit PROVE SaveTypes
  OBVIOUS
<1>1. IsFiniteSet(disk)
  BY FS_EmptySet DEF SaveInit
<1>2. saver \in [Savers -> SaverRecords] /\ \A s \in Savers : saver[s].pc = "idle"
  BY IdleRecord DEF SaveInit
<1>3. content \in [Databases -> Snapshots] /\ writes \in 0..MaxWrites
  BY CheckpointsAssumption DEF SaveInit, Empty, Snapshots
<1>4. saved \in [Databases -> Parts]
  BY DEF SaveInit, Unread, Parts
<1>5. stopChan = (shutdown = "stop") /\ stopChan = FALSE /\ shutdown = "no"
  BY DEF SaveInit
<1>6. SaveTypeOK
  BY <1>2, <1>3, <1>5 DEF SaveInit, SaveTypeOK, Nobody
<1> QED  BY <1>1, <1>2, <1>4, <1>6 DEF SaveInit, SaveTypes

LEMMA NextTypes == SaveTypes /\ Times /\ Saving /\ [SaveNext]_saveVars => SaveTypes'
<1> SUFFICES ASSUME SaveTypes, Times, Saving, [SaveNext]_saveVars PROVE SaveTypes'
  OBVIOUS
<1> USE TypesNow, TypesByParts
<1>1. ASSUME NEW d \in Databases, Create(d) PROVE SaveTypes'
  BY <1>1 DEF Create, files
<1>2. ASSUME NEW d \in Databases, NEW c \in Collections, Write(d, c) PROVE SaveTypes'
  <2>1. writes + 1 \in 0..MaxWrites
    BY <1>2, CheckpointsAssumption DEF Write
  <2>2. content' \in [Databases -> Snapshots]
    BY <1>2, <2>1 DEF Write, Snapshots
  <2> QED  BY <1>2, <2>1, <2>2 DEF Write, files
<1>3. ASSUME NEW s \in Savers, NEW d \in Databases, Begin(s, d) PROVE SaveTypes'
  BY <1>3, BeginDoes DEF Begin, files, memory
<1>4. ASSUME NEW s \in Savers, NEW c \in Collections, Read(s, c) PROVE SaveTypes'
  <2>1. saver[s].db \in Databases
    BY <1>4 DEF Read, At, Saving, InSave
  <2>2. saver' \in [Savers -> SaverRecords]
    BY <1>4, <2>1, ReadDoes
  <2> QED  BY <1>4, <2>2 DEF Read, files, memory
<1>5. ASSUME NEW s \in Savers, WriteTmp(s) PROVE SaveTypes'
  <2>1. saver[s].db \in Databases
    BY <1>5 DEF WriteTmp, At, Saving, InSave
  <2>2. saver' \in [Savers -> SaverRecords] /\ clock' = clock + 1
    BY <1>5, <2>1, WriteTmpDoes
  <2>3. PICK f \in FileRecords : disk' = disk \cup {f} /\ f.at = clock + 1
    BY <1>5, <2>1, WriteTmpDoes
  <2>4. IsFiniteSet(disk')
    BY <2>3, FS_AddElement
  <2>5. disk' \subseteq FileRecords /\ clock' \in Nat /\ \A g \in disk' : g.at \in 1..clock'
    BY <2>2, <2>3
  <2>6. /\ up' = up /\ exists' = exists /\ content' = content /\ writes' = writes /\ mu' = mu
        /\ shutdown' = shutdown /\ stopChan' = stopChan /\ checkpointID' = checkpointID
        /\ saved' = saved /\ atStop' = atStop
    BY <1>5 DEF WriteTmp, memory
  <2> HIDE TypesNow, TypesByParts
  <2> QED  BY <2>2, <2>4, <2>5, <2>6, TypesNow, TypesByParts
<1>6. ASSUME NEW s \in Savers, Rename(s) PROVE SaveTypes'
  <2>1. /\ saver' \in [Savers -> SaverRecords] /\ mu' = Nobody
        /\ saved' = [saved EXCEPT ![saver[s].db] = saver[s].snapshot]
        /\ saver[s].db \in Databases
    BY <1>6, RenameDoes
  <2>2. PICK f \in disk, g \in FileRecords :
           g.at = clock /\ f.at = clock /\ \A h \in disk' : h = g \/ h \in disk \ {f}
    BY <1>6, RenameDoes
  <2>3. saved' \in [Databases -> Parts]
    BY <2>1 DEF SaverRecords
  <2>4. IsFiniteSet(disk')
    <3>1. IsFiniteSet(disk \cup {g}) /\ disk' \in SUBSET (disk \cup {g})
      BY <2>2, FS_AddElement
    <3> QED  BY <3>1, FS_Subset
  <2>5. \A h \in disk' : h \in FileRecords /\ h.at \in 1..clock
    BY <2>2
  <2> QED  BY <1>6, <2>1, <2>3, <2>4, <2>5 DEF Rename, memory
<1>7. ASSUME NEW s \in Savers, SaveFails(s) PROVE SaveTypes'
  <2>1. saver' \in [Savers -> SaverRecords] /\ mu' = Nobody /\ disk' \in SUBSET disk
    BY <1>7, SaveFailsDoes
  <2>2. IsFiniteSet(disk')
    BY <2>1, FS_Subset
  <2> QED  BY <1>7, <2>1, <2>2 DEF SaveFails, memory
<1>8. ASSUME NEW s \in Savers, AllSaved(s) PROVE SaveTypes'
  BY <1>8, AllSavedDoes DEF AllSaved, files, memory
<1>9. CASE Tick
  BY <1>9, SaveAllDoes, SaverNames DEF Tick, files, memory
<1>10. CASE LoopLeaves
  <2>1. saver' \in [Savers -> SaverRecords]
    BY <1>10, PlaceDoes, SaverNames DEF LoopLeaves, SavePlaces
  <2> QED  BY <1>10, <2>1 DEF LoopLeaves, files, memory
<1>11. CASE CleanupList
  BY <1>11, ListDoes DEF CleanupList, files, memory
<1>12. CASE CleanupRemove
  <2>1. saver' \in [Savers -> SaverRecords]
    BY <1>12, Goes, IdleRecord, SaverNames DEF CleanupRemove
  <2>2. disk' \in SUBSET disk
    BY <1>12 DEF CleanupRemove
  <2>3. IsFiniteSet(disk')
    BY <2>2, FS_Subset
  <2> QED  BY <1>12, <2>1, <2>2, <2>3 DEF CleanupRemove, memory
<1>13. CASE Signal
  BY <1>13, SaveAllDoes, SaverNames DEF Signal, files, memory
<1>14. CASE BeginStop
  <2>1. saver' \in [Savers -> SaverRecords]
    BY <1>14, PlaceDoes, SaverNames DEF BeginStop, SavePlaces
  <2> QED  BY <1>14, <2>1 DEF BeginStop, files, memory
<1>15. CASE StopWaited
  <2>1. saver' \in [Savers -> SaverRecords]
    BY <1>15, SaveAllDoes, SaverNames DEF StopWaited
  <2>2. atStop' \subseteq Databases \X Snapshots
    BY <1>15 DEF StopWaited
  <2> QED  BY <1>15, <2>1, <2>2 DEF StopWaited, files, memory
<1>16. CASE MainReturns \/ Killed
  <2>1. Fresh /\ up' = FALSE /\ writes' = writes /\ disk' = disk /\ clock' = clock
    BY <1>16 DEF MainReturns, Killed, files
  <2>2. content' \in [Databases -> Snapshots] /\ saved' \in [Databases -> Parts]
    BY <2>1, FreshDoes, CheckpointsAssumption DEF Empty, Snapshots, Unread, Parts
  <2>3. stopChan' = (shutdown' = "stop") /\ shutdown' = "no" /\ mu' = Nobody
    BY <2>1, FreshDoes
  <2>4. /\ exists' \subseteq Databases /\ atStop' \subseteq Databases \X Snapshots
        /\ checkpointID' \in Nat /\ saver' \in [Savers -> SaverRecords]
    BY <2>1, FreshDoes
  <2> QED  BY <2>1, <2>2, <2>3, <2>4
<1>17. CASE Restart
  BY <1>17 DEF Restart, files, memory
<1>18. CASE UNCHANGED saveVars
  BY <1>18 DEF saveVars, files, memory
<1> QED
  BY <1>1, <1>2, <1>3, <1>4, <1>5, <1>6, <1>7, <1>8, <1>9, <1>10, <1>11, <1>12, <1>13, <1>14,
     <1>15, <1>16, <1>17, <1>18 DEF SaveNext, SaverStep

-----------------------------------------------------------------------------
(* Times and the mutex *)

LEMMA NextTimes == SaveTypes /\ Times /\ Saving /\ [SaveNext]_saveVars => Times'
<1> SUFFICES ASSUME SaveTypes, Times, Saving, [SaveNext]_saveVars PROVE Times'
  OBVIOUS
<1>1. ASSUME disk' \subseteq disk, content' = content, writes' = writes PROVE Times'
  BY <1>1 DEF Times
<1>2. CASE (\E d \in Databases : Create(d)) \/ Tick \/ LoopLeaves \/ CleanupList \/ CleanupRemove
  BY <1>1, <1>2 DEF Create, Tick, LoopLeaves, CleanupList, CleanupRemove, files, memory
<1>3. CASE Signal \/ BeginStop \/ StopWaited \/ Restart \/ UNCHANGED saveVars
  BY <1>1, <1>3 DEF Signal, BeginStop, StopWaited, Restart, saveVars, files, memory
<1>4. ASSUME NEW s \in Savers,
             AllSaved(s) \/ (\E d \in Databases : Begin(s, d)) \/ (\E c \in Collections : Read(s, c))
      PROVE  Times'
  BY <1>1, <1>4 DEF AllSaved, Begin, Read, files, memory
<1>5. ASSUME NEW s \in Savers, SaveFails(s) PROVE Times'
  BY <1>1, <1>5, SaveFailsDoes DEF SaveFails, memory
<1>6. ASSUME NEW d \in Databases, NEW c \in Collections, Write(d, c) PROVE Times'
  <2>1. /\ content' = [content EXCEPT ![d][c] = writes + 1] /\ writes' = writes + 1
        /\ disk' = disk /\ writes \in Nat /\ content \in [Databases -> Snapshots]
    BY <1>6, TypesNow DEF Write, files
  <2>2. ASSUME NEW e \in Databases, NEW k \in Collections PROVE content'[e][k] <= writes'
    <3>1. content[e][k] \in Nat /\ content[e][k] <= writes
      BY <2>1, TypesNow DEF Times, Snapshots
    <3>2. content'[e][k] = content[e][k] \/ content'[e][k] = writes + 1
      BY <2>1 DEF Snapshots
    <3> QED  BY <2>1, <3>1, <3>2
  <2> QED  BY <2>1, <2>2 DEF Times
<1>7. ASSUME NEW s \in Savers, WriteTmp(s) PROVE Times'
  <2>1. saver[s].db \in Databases
    BY <1>7 DEF WriteTmp, At, Saving, InSave
  <2>2. PICK f \in FileRecords : disk' = disk \cup {f} /\ f.at = clock + 1
    BY <1>7, <2>1, WriteTmpDoes
  <2>3. \A g \in disk : g.at # clock + 1
    BY TypesNow
  <2>4. content' = content /\ writes' = writes
    BY <1>7 DEF WriteTmp, memory
  <2> QED  BY <2>2, <2>3, <2>4 DEF Times
<1>8. ASSUME NEW s \in Savers, Rename(s) PROVE Times'
  <2>1. PICK f \in disk, g \in FileRecords :
           /\ f.at = clock /\ g.at = clock /\ \A h \in disk' : h = g \/ h \in disk \ {f}
    BY <1>8, RenameDoes
  <2>2. \A h \in disk \ {f} : h.at # clock
    BY <2>1 DEF Times
  <2>3. content' = content /\ writes' = writes
    BY <1>8 DEF Rename, memory
  <2> QED  BY <2>1, <2>2, <2>3 DEF Times
<1>9. CASE MainReturns \/ Killed
  <2>0. Fresh /\ disk' = disk /\ writes' = writes
    BY <1>9 DEF MainReturns, Killed, files
  <2>1. content' = [d \in Databases |-> Empty] /\ disk' = disk /\ writes' = writes /\ writes \in Nat
    BY <2>0, FreshDoes, TypesNow
  <2>2. \A d \in Databases, c \in Collections : content'[d][c] <= writes'
    BY <2>1 DEF Empty
  <2> QED  BY <2>1, <2>2 DEF Times
<1> QED  BY <1>2, <1>3, <1>4, <1>5, <1>6, <1>7, <1>8, <1>9 DEF SaveNext, SaverStep

\* A step of a saver that leaves SaveDatabase, or is not in it, and makes no temporary file.
LEMMA SavingMoves ==
    ASSUME SaveTypes, Saving, NEW s \in Savers, Others(s), saver'[s].pc \notin InSave,
           clock' = clock, \A f \in disk' : f.tmp => f \in disk,
           mu' = mu \/ saver[s].pc \in InSave
    PROVE  Saving'
<1>1. ASSUME NEW z \in Savers, saver'[z].pc \in InSave
      PROVE  z # s /\ saver'[z] = saver[z] /\ mu' = mu /\ mu = z
  BY <1>1 DEF Others, Saving
<1>2. \A r : TmpOf(r, disk') \subseteq TmpOf(r, disk)
  BY DEF TmpOf
<1>3. ASSUME NEW z \in Savers
      PROVE  /\ saver'[z].pc \in InSave =>
                    mu' = z /\ saver'[z].db \in Databases /\ OneEach(saver'[z].snapshot)
             /\ saver'[z].pc \in {"write", "rename"} => Complete(saver'[z].snapshot)
             /\ saver'[z].pc = "rename" =>
                    /\ saver'[z].at = clock'
                    /\ \A f \in TmpOf(saver'[z], disk') : f.content = saver'[z].snapshot
  <2>1. CASE saver'[z].pc \in InSave
    <3>1. z # s /\ saver'[z] = saver[z] /\ mu' = z
      BY <1>1, <2>1
    <3> QED  BY <1>2, <2>1, <3>1 DEF Saving
  <2>2. CASE saver'[z].pc \notin InSave
    BY <2>2 DEF InSave
  <2> QED  BY <2>1, <2>2
<1> QED  BY <1>3 DEF Saving

LEMMA NextSaving == SaveTypes /\ Times /\ Saving /\ [SaveNext]_saveVars => Saving'
<1> SUFFICES ASSUME SaveTypes, Times, Saving, [SaveNext]_saveVars PROVE Saving'
  OBVIOUS
<1>1. ASSUME saver' = saver, mu' = mu, disk' = disk, clock' = clock PROVE Saving'
  BY <1>1 DEF Saving
<1>2. CASE \/ \E d \in Databases : Create(d)
           \/ \E d \in Databases, c \in Collections : Write(d, c)
           \/ Restart \/ UNCHANGED saveVars
  BY <1>1, <1>2 DEF Create, Write, Restart, saveVars, files
<1>3. CASE MainReturns \/ Killed
  <2>1. \A s \in Savers : saver'[s].pc = "idle"
    BY <1>3, FreshDoes DEF MainReturns, Killed
  <2> QED  BY <2>1 DEF Saving, InSave
<1>4. CASE Tick \/ Signal \/ StopWaited
  <2>1. PICK s \in Savers : SaveAll(s)
    BY <1>4, SaverNames DEF Tick, Signal, StopWaited
  <2>2. Others(s) /\ saver'[s].pc \notin InSave
    BY <2>1, SaveAllDoes DEF InSave
  <2>3. mu' = mu /\ disk' = disk /\ clock' = clock
    BY <1>4 DEF Tick, Signal, StopWaited, files
  <2> QED  BY <2>2, <2>3, SavingMoves
<1>5. CASE LoopLeaves \/ BeginStop
  <2>1. PICK s \in Savers, pl \in {"left", "wait"} : Goto(s, [Idle EXCEPT !.pc = pl])
    <3>1. CASE LoopLeaves
      <4>1. Goto("loop", [Idle EXCEPT !.pc = "left"])
        BY <3>1 DEF LoopLeaves
      <4> QED  BY <4>1, SaverNames
    <3>2. CASE BeginStop
      <4>1. Goto("stop", [Idle EXCEPT !.pc = "wait"])
        BY <3>2 DEF BeginStop
      <4> QED  BY <4>1, SaverNames
    <3> QED  BY <1>5, <3>1, <3>2
  <2>2. Others(s) /\ saver'[s].pc \notin InSave
    BY <2>1, PlaceDoes DEF InSave, SavePlaces
  <2>3. mu' = mu /\ disk' = disk /\ clock' = clock
    BY <1>5 DEF LoopLeaves, BeginStop, files
  <2> QED  BY <2>2, <2>3, SavingMoves
<1>6. ASSUME NEW s \in Savers, AllSaved(s) PROVE Saving'
  <2>1. Others(s) /\ saver'[s].pc \notin InSave
    BY <1>6, AllSavedDoes DEF InSave
  <2>2. mu' = mu /\ disk' = disk /\ clock' = clock
    BY <1>6 DEF AllSaved, files
  <2> QED  BY <2>1, <2>2, SavingMoves
<1>7. CASE CleanupList
  <2>1. Others("loop") /\ saver'["loop"].pc \notin InSave
    BY <1>7, ListDoes DEF InSave
  <2>2. mu' = mu /\ disk' = disk /\ clock' = clock
    BY <1>7 DEF CleanupList, files
  <2> QED  BY <2>1, <2>2, SavingMoves, SaverNames
<1>8. CASE CleanupRemove
  <2>1. Others("loop") /\ saver'["loop"].pc \notin InSave
    BY <1>8, Goes, IdleRecord, SaverNames DEF CleanupRemove, InSave
  <2>2. mu' = mu /\ disk' \subseteq disk /\ clock' = clock
    BY <1>8 DEF CleanupRemove
  <2> QED  BY <2>1, <2>2, SavingMoves, SaverNames
<1>9. ASSUME NEW s \in Savers, SaveFails(s) PROVE Saving'
  <2>1. /\ Others(s) /\ saver'[s].pc \notin InSave /\ saver[s].pc \in InSave
        /\ disk' \subseteq disk
    BY <1>9, SaveFailsDoes DEF InSave
  <2>2. clock' = clock
    BY <1>9 DEF SaveFails
  <2> QED  BY <2>1, <2>2, SavingMoves
<1>10. ASSUME NEW s \in Savers, Rename(s) PROVE Saving'
  <2>1. Others(s) /\ saver'[s].pc \notin InSave /\ saver[s].pc \in InSave
    BY <1>10, RenameDoes DEF InSave
  <2>2. \A f \in disk' : f.tmp => f \in disk
    BY <1>10, RenameDoes
  <2>3. clock' = clock
    BY <1>10 DEF Rename
  <2> QED  BY <2>1, <2>2, <2>3, SavingMoves
\* In the steps within SaveDatabase nobody else is in it.
<1>11. ASSUME NEW s \in Savers, mu = Nobody \/ mu = s, mu' = s, Others(s),
              saver'[s].pc \in InSave /\ saver'[s].db \in Databases,
              OneEach(saver'[s].snapshot),
              saver'[s].pc \in {"write", "rename"} => Complete(saver'[s].snapshot),
              saver'[s].pc = "rename" =>
                  /\ saver'[s].at = clock'
                  /\ \A f \in TmpOf(saver'[s], disk') : f.content = saver'[s].snapshot
       PROVE  Saving'
  <2>1. ASSUME NEW z \in Savers \ {s} PROVE saver'[z].pc \notin InSave
    BY <1>11, <2>1, SaverNames DEF Others, Saving
  <2>2. \A z \in Savers \ {s} : saver'[z].pc \notin {"write", "rename"} /\ saver'[z].pc # "rename"
    BY <2>1 DEF InSave
  <2> QED  BY <1>11, <2>1, <2>2 DEF Saving
<1>12. ASSUME NEW s \in Savers, NEW d \in Databases, Begin(s, d) PROVE Saving'
  <2>1. /\ Others(s) /\ mu = Nobody /\ mu' = s /\ saver'[s].pc = "read" /\ saver'[s].db = d
        /\ saver'[s].snapshot = {}
    BY <1>12, BeginDoes
  <2>2. OneEach(saver'[s].snapshot)
    BY <2>1 DEF OneEach
  <2> QED  BY <1>11, <2>1, <2>2 DEF InSave
<1>13. ASSUME NEW s \in Savers, NEW c \in Collections, Read(s, c) PROVE Saving'
  <2>1. saver[s].db \in Databases /\ mu = s /\ OneEach(saver[s].snapshot)
    BY <1>13 DEF Read, At, Saving, InSave
  <2>2. /\ Others(s) /\ c \notin {p[1] : p \in saver[s].snapshot}
        /\ saver'[s].db = saver[s].db
        /\ saver'[s].snapshot = saver[s].snapshot \cup {<<c, content[saver[s].db][c]>>}
        /\ saver'[s].pc = IF Cardinality(saver'[s].snapshot) = Cardinality(Collections)
                          THEN "write" ELSE "read"
        /\ saver' \in [Savers -> SaverRecords]
    BY <1>13, <2>1, ReadDoes
  <2> DEFINE S == saver'[s].snapshot
  <2>3. OneEach(S)
    BY <2>1, <2>2 DEF OneEach
  <2>4. S \subseteq Collections \X (0..MaxWrites)
    BY <2>2 DEF SaverRecords, Parts
  <2>5. ASSUME Cardinality(S) = Cardinality(Collections) PROVE Complete(S)
    <3> HIDE DEF S
    <3> DEFINE first == [q \in S |-> q[1]]
    <3>1. first \in Injection(S, Collections)
      BY <2>3, <2>4 DEF OneEach, Injection, IsInjective
    <3>2. first \in Surjection(S, Collections)
      BY <2>5, <3>1, FS_Injection, CheckpointsAssumption
    <3>3. ASSUME NEW k \in Collections PROVE \E q \in S : q[1] = k
      BY <3>2 DEF Surjection
    <3> QED  BY <3>3 DEF Complete
  <2>6. mu' = mu
    BY <1>13 DEF Read
  <2>7. saver'[s].pc \in InSave /\ saver'[s].pc # "rename"
    BY <2>2 DEF InSave
  <2>8. saver'[s].pc = "write" => Complete(S)
    BY <2>2, <2>5
  <2> QED  BY <1>11, <2>1, <2>2, <2>3, <2>6, <2>7, <2>8
<1>14. ASSUME NEW s \in Savers, WriteTmp(s) PROVE Saving'
  <2>1. saver[s].db \in Databases /\ mu = s /\ OneEach(saver[s].snapshot) /\ Complete(saver[s].snapshot)
    BY <1>14 DEF WriteTmp, At, Saving, InSave
  <2>2. /\ Others(s) /\ saver'[s].pc = "rename" /\ saver'[s].at = clock + 1 /\ clock' = clock + 1
        /\ saver'[s].db = saver[s].db /\ saver'[s].snapshot = saver[s].snapshot
    BY <1>14, <2>1, WriteTmpDoes
  <2>3. PICK f \in FileRecords : disk' = disk \cup {f} /\ f.content = saver[s].snapshot
    BY <1>14, <2>1, WriteTmpDoes
  <2>4. \A g \in disk : g.at # clock + 1
    BY TypesNow
  <2>5. \A g \in TmpOf(saver'[s], disk') : g = f
    BY <2>2, <2>3, <2>4 DEF TmpOf
  <2>6. mu' = mu
    BY <1>14 DEF WriteTmp
  <2> QED  BY <1>11, <2>1, <2>2, <2>3, <2>5, <2>6 DEF InSave
<1> QED
  BY <1>2, <1>3, <1>4, <1>5, <1>6, <1>7, <1>8, <1>9, <1>10, <1>12, <1>13, <1>14
     DEF SaveNext, SaverStep

-----------------------------------------------------------------------------
(* The three savers *)

LEMMA NextOrder ==
    SaveTypes /\ Times /\ Saving /\ SaveOrder /\ [SaveNext]_saveVars => SaveOrder'
<1> SUFFICES ASSUME SaveTypes, Times, Saving, SaveOrder, [SaveNext]_saveVars PROVE SaveOrder'
  OBVIOUS
<1> USE SaverNames
<1>1. ASSUME saver' = saver, shutdown' = shutdown PROVE SaveOrder'
  BY <1>1 DEF SaveOrder
<1>2. CASE \/ \E d \in Databases : Create(d)
           \/ \E d \in Databases, c \in Collections : Write(d, c)
           \/ Restart \/ UNCHANGED saveVars
  BY <1>1, <1>2 DEF Create, Write, Restart, saveVars
<1>3. CASE MainReturns \/ Killed
  <2>1. shutdown' = "no" /\ \A s \in Savers : saver'[s].pc = "idle"
    BY <1>3, FreshDoes DEF MainReturns, Killed
  <2> QED  BY <2>1 DEF SaveOrder, InSave
\* A step of a saver that has begun stays within what a saver does; the loop does not leave by it.
<1>4. ASSUME NEW s \in Savers, Others(s), shutdown' = shutdown,
             saver[s].pc \in InSave \cup {"next", "cleanup", "remove"},
             saver'[s].pc \in InSave \cup {"next", "cleanup", "remove", "done", "idle"},
             s = "stop" => saver[s].pc \in InSave \cup {"next"}
      PROVE  SaveOrder'
  <2>1. CASE s = "loop"
    <3>1. saver'["final"] = saver["final"] /\ saver'["stop"] = saver["stop"]
      BY <1>4, <2>1 DEF Others
    <3>2. saver'["loop"].pc # "left" /\ saver["loop"].pc # "left"
      BY <1>4, <2>1 DEF InSave
    <3> QED  BY <1>4, <3>1, <3>2 DEF SaveOrder
  <2>2. CASE s = "final"
    <3>1. saver'["loop"] = saver["loop"] /\ saver'["stop"] = saver["stop"]
      BY <1>4, <2>2 DEF Others
    <3>2. shutdown # "no"
      BY <1>4, <2>2 DEF SaveOrder, InSave
    <3> QED  BY <1>4, <3>1, <3>2 DEF SaveOrder
  <2>3. CASE s = "stop"
    <3>1. saver'["loop"] = saver["loop"] /\ saver'["final"] = saver["final"]
      BY <1>4, <2>3 DEF Others
    <3>2. shutdown = "stop" /\ saver["loop"].pc = "left"
      BY <1>4, <2>3, TypesNow DEF SaveOrder, InSave
    <3> QED  BY <1>4, <3>1, <3>2 DEF SaveOrder
  <2> QED  BY <2>1, <2>2, <2>3
<1>5. ASSUME NEW s \in Savers, NEW d \in Databases, Begin(s, d) PROVE SaveOrder'
  BY <1>4, <1>5, BeginDoes DEF Begin, InSave
<1>6. ASSUME NEW s \in Savers, NEW c \in Collections, Read(s, c) PROVE SaveOrder'
  <2>1. saver[s].db \in Databases
    BY <1>6 DEF Read, At, Saving, InSave
  <2>2. Others(s) /\ saver[s].pc = "read" /\ saver'[s].pc \in {"read", "write"}
    BY <1>6, <2>1, ReadDoes
  <2>3. shutdown' = shutdown
    BY <1>6 DEF Read
  <2> QED  BY <1>4, <2>2, <2>3 DEF InSave
<1>7. ASSUME NEW s \in Savers, WriteTmp(s) PROVE SaveOrder'
  <2>1. saver[s].db \in Databases
    BY <1>7 DEF WriteTmp, At, Saving, InSave
  <2>2. Others(s) /\ saver[s].pc = "write" /\ saver'[s].pc = "rename"
    BY <1>7, <2>1, WriteTmpDoes
  <2>3. shutdown' = shutdown
    BY <1>7 DEF WriteTmp
  <2> QED  BY <1>4, <2>2, <2>3 DEF InSave
<1>8. ASSUME NEW s \in Savers, Rename(s) PROVE SaveOrder'
  <2>1. Others(s) /\ saver[s].pc = "rename" /\ saver'[s].pc = "next"
    BY <1>8, RenameDoes
  <2>2. shutdown' = shutdown
    BY <1>8 DEF Rename
  <2> QED  BY <1>4, <2>1, <2>2 DEF InSave
<1>9. ASSUME NEW s \in Savers, SaveFails(s) PROVE SaveOrder'
  <2>1. Others(s) /\ saver[s].pc = "rename" /\ saver'[s].pc = "next"
    BY <1>9, SaveFailsDoes
  <2>2. shutdown' = shutdown
    BY <1>9 DEF SaveFails
  <2> QED  BY <1>4, <2>1, <2>2 DEF InSave
<1>10. ASSUME NEW s \in Savers, AllSaved(s) PROVE SaveOrder'
  <2>1. Others(s) /\ saver[s].pc = "next" /\ saver'[s].pc \in {"done", "idle", "cleanup"}
    BY <1>10, AllSavedDoes
  <2>2. shutdown' = shutdown
    BY <1>10 DEF AllSaved
  <2> QED  BY <1>4, <2>1, <2>2 DEF InSave
<1>11. CASE CleanupList
  <2>1. /\ Others("loop") /\ saver["loop"].pc = "cleanup"
        /\ saver'["loop"].pc \in {"idle", "remove"}
    BY <1>11, ListDoes
  <2>2. shutdown' = shutdown
    BY <1>11 DEF CleanupList
  <2> QED  BY <1>4, <2>1, <2>2 DEF InSave
<1>12. CASE CleanupRemove
  <2>1. /\ Others("loop") /\ saver["loop"].pc = "remove"
        /\ saver'["loop"].pc = "idle"
    BY <1>12, Goes, IdleRecord DEF CleanupRemove, At
  <2>2. shutdown' = shutdown
    BY <1>12 DEF CleanupRemove
  <2> QED  BY <1>4, <2>1, <2>2 DEF InSave
<1>13. CASE Tick
  <2>1. Others("loop") /\ saver["loop"].pc = "idle" /\ saver'["loop"].pc = "next"
    BY <1>13, SaveAllDoes DEF Tick, At
  <2>2. shutdown' = shutdown
    BY <1>13 DEF Tick
  <2>3. saver'["final"] = saver["final"] /\ saver'["stop"] = saver["stop"]
    BY <2>1 DEF Others
  <2> QED  BY <2>1, <2>2, <2>3 DEF SaveOrder
<1>14. CASE LoopLeaves
  <2>1. Others("loop") /\ saver'["loop"].pc = "left"
    BY <1>14, PlaceDoes DEF LoopLeaves, SavePlaces
  <2>2. shutdown' = shutdown /\ shutdown = "stop"
    BY <1>14, TypesNow DEF LoopLeaves, MayLeave
  <2> QED  BY <2>1, <2>2 DEF SaveOrder
<1>15. CASE Signal
  <2>1. Others("final") /\ shutdown = "no" /\ shutdown' = "save"
    BY <1>15, SaveAllDoes DEF Signal
  <2>2. saver'["loop"] = saver["loop"] /\ saver'["stop"] = saver["stop"]
    BY <2>1 DEF Others
  <2> QED  BY <2>1, <2>2 DEF SaveOrder
<1>16. CASE BeginStop
  <2>1. Others("stop") /\ saver'["stop"].pc = "wait" /\ shutdown' = "stop"
    BY <1>16, PlaceDoes DEF BeginStop, SavePlaces
  <2> QED  BY <2>1 DEF SaveOrder, InSave
<1>17. CASE StopWaited
  <2>1. Others("stop") /\ saver["loop"].pc = "left" /\ saver["stop"].pc = "wait"
    BY <1>17, SaveAllDoes DEF StopWaited, MayStopSave, At
  <2>2. saver'["loop"].pc = "left" /\ shutdown' = shutdown /\ shutdown = "stop"
    BY <1>17, <2>1, TypesNow DEF Others, StopWaited, SaveOrder
  <2> QED  BY <2>1, <2>2 DEF SaveOrder
<1> QED
  BY <1>2, <1>3, <1>5, <1>6, <1>7, <1>8, <1>9, <1>10, <1>11, <1>12, <1>13, <1>14, <1>15, <1>16,
     <1>17 DEF SaveNext, SaverStep

LEMMA NextChosen ==
    SaveTypes /\ Times /\ Saving /\ Chosen /\ [SaveNext]_saveVars => Chosen'
<1> SUFFICES ASSUME SaveTypes, Times, Saving, Chosen, [SaveNext]_saveVars PROVE Chosen'
  OBVIOUS
<1> USE SaverNames
<1>1. ASSUME saver' = saver, exists \subseteq exists' PROVE Chosen'
  BY <1>1 DEF Chosen
<1>2. CASE \/ \E d \in Databases : Create(d)
           \/ \E d \in Databases, c \in Collections : Write(d, c)
           \/ Restart \/ UNCHANGED saveVars
  BY <1>1, <1>2 DEF Create, Write, Restart, saveVars, memory
<1>3. CASE MainReturns \/ Killed
  <2>1. \A s \in Savers : saver'[s].pc = "idle" /\ saver'[s].todo = {}
    BY <1>3, FreshDoes DEF MainReturns, Killed
  <2> QED  BY <2>1 DEF Chosen, InSave
<1>4. ASSUME NEW s \in Savers, Others(s), exists' = exists, saver'[s].todo \subseteq exists,
             saver'[s].pc \in InSave => saver'[s].db \in exists \ saver'[s].todo
      PROVE  Chosen'
  BY <1>4 DEF Chosen, Others
<1>5. CASE Tick \/ Signal \/ StopWaited
  <2>1. PICK s \in Savers : SaveAll(s)
    BY <1>5 DEF Tick, Signal, StopWaited
  <2>2. Others(s) /\ saver'[s].pc \notin InSave /\ saver'[s].todo = exists
    BY <2>1, SaveAllDoes DEF InSave
  <2>3. exists' = exists
    BY <1>5 DEF Tick, Signal, StopWaited, memory
  <2> QED  BY <1>4, <2>2, <2>3
<1>6. CASE LoopLeaves
  <2>1. Others("loop") /\ saver'["loop"].pc = "left" /\ saver'["loop"].todo = {}
    BY <1>6, PlaceDoes DEF LoopLeaves, SavePlaces
  <2> QED  BY <1>4, <1>6, <2>1 DEF LoopLeaves, memory, InSave
<1>7. CASE BeginStop
  <2>1. Others("stop") /\ saver'["stop"].pc = "wait" /\ saver'["stop"].todo = {}
    BY <1>7, PlaceDoes DEF BeginStop, SavePlaces
  <2> QED  BY <1>4, <1>7, <2>1 DEF BeginStop, memory, InSave
<1>8. ASSUME NEW s \in Savers, AllSaved(s) PROVE Chosen'
  <2>1. Others(s) /\ saver'[s].pc \notin InSave /\ saver'[s].todo = {}
    BY <1>8, AllSavedDoes DEF InSave
  <2> QED  BY <1>4, <1>8, <2>1 DEF AllSaved, memory
<1>9. CASE CleanupList
  <2>1. /\ Others("loop") /\ saver'["loop"].pc \notin InSave
        /\ saver'["loop"].todo = saver["loop"].todo
    BY <1>9, ListDoes DEF InSave
  <2> QED  BY <1>4, <1>9, <2>1 DEF CleanupList, memory, Chosen
<1>10. CASE CleanupRemove
  <2>1. Others("loop") /\ saver'["loop"].pc \notin InSave /\ saver'["loop"].todo = {}
    BY <1>10, Goes, IdleRecord DEF CleanupRemove, InSave
  <2> QED  BY <1>4, <1>10, <2>1 DEF CleanupRemove, memory
<1>11. ASSUME NEW s \in Savers, NEW d \in Databases, Begin(s, d) PROVE Chosen'
  <2>1. /\ Others(s) /\ saver'[s].todo = saver[s].todo \ {d} /\ saver'[s].db = d
        /\ d \in saver[s].todo
    BY <1>11, BeginDoes
  <2> QED  BY <1>4, <1>11, <2>1 DEF Begin, memory, Chosen
<1>12. ASSUME NEW s \in Savers, NEW c \in Collections, Read(s, c) PROVE Chosen'
  <2>1. saver[s].db \in Databases /\ saver[s].db \in exists \ saver[s].todo
    BY <1>12 DEF Read, At, Saving, Chosen, InSave
  <2>2. Others(s) /\ saver'[s].todo = saver[s].todo /\ saver'[s].db = saver[s].db
    BY <1>12, <2>1, ReadDoes
  <2> QED  BY <1>4, <1>12, <2>1, <2>2 DEF Read, memory, Chosen
<1>13. ASSUME NEW s \in Savers, WriteTmp(s) PROVE Chosen'
  <2>1. saver[s].db \in Databases /\ saver[s].db \in exists \ saver[s].todo
    BY <1>13 DEF WriteTmp, At, Saving, Chosen, InSave
  <2>2. Others(s) /\ saver'[s].todo = saver[s].todo /\ saver'[s].db = saver[s].db
    BY <1>13, <2>1, WriteTmpDoes
  <2> QED  BY <1>4, <1>13, <2>1, <2>2 DEF WriteTmp, memory, Chosen
<1>14. ASSUME NEW s \in Savers, Rename(s) PROVE Chosen'
  <2>1. Others(s) /\ saver'[s].todo = saver[s].todo /\ saver'[s].pc \notin InSave
    BY <1>14, RenameDoes DEF InSave
  <2> QED  BY <1>4, <1>14, <2>1 DEF Rename, memory, Chosen
<1>15. ASSUME NEW s \in Savers, SaveFails(s) PROVE Chosen'
  <2>1. Others(s) /\ saver'[s].todo = saver[s].todo /\ saver'[s].pc \notin InSave
    BY <1>15, SaveFailsDoes DEF InSave
  <2> QED  BY <1>4, <1>15, <2>1 DEF SaveFails, memory, Chosen
<1> QED
  BY <1>2, <1>3, <1>5, <1>6, <1>7, <1>8, <1>9, <1>10, <1>11, <1>12, <1>13, <1>14, <1>15
     DEF SaveNext, SaverStep

-----------------------------------------------------------------------------
(* The files *)

\* A step that only adds or removes temporary files.
LEMMA SameSnapshots ==
    ASSUME \A f : (f \in disk' /\ ~f.tmp) <=> (f \in disk /\ ~f.tmp)
    PROVE  /\ \A d : Valid(d)' = Valid(d)
           /\ \A d, f : Newest(d, f)' <=> Newest(d, f)
<1>1. \A d : Valid(d)' = Valid(d)
  BY DEF Valid
<1> QED  BY <1>1 DEF Newest

\* The file a rename leaves is the newest of its database; other databases keep their files.
LEMMA RenamedIsNewest ==
    ASSUME SaveTypes, Times, Saving, NEW s \in Savers, Rename(s),
           NEW db \in Databases, db = saver[s].db
    PROVE  /\ \E g \in Valid(db)' : Newest(db, g)' /\ g.content = saver[s].snapshot
           /\ \A d : d # db => Valid(d)' = Valid(d)
           /\ \A d, f : d # db => (Newest(d, f)' <=> Newest(d, f))
           /\ \E g : g.at = clock /\ g.db = db /\ \A h \in disk' : h = g \/ h \in disk
<1>1. PICK f \in disk, g \in FileRecords :
          /\ f.db = db /\ f.at = clock
          /\ ~g.tmp /\ g.at = clock /\ g.db = db
          /\ g.content = saver[s].snapshot
          /\ g \in disk' /\ \A h \in disk' : h = g \/ h \in disk \ {f}
          /\ \A h \in disk \ {f} : h.db # db => h \in disk'
  BY RenameDoes
<1>2. g \in Valid(db)'
  BY <1>1 DEF Valid
<1>3. \A h \in disk' : h.at <= g.at
  BY <1>1, TypesNow
<1>4. Newest(db, g)'
  BY <1>2, <1>3 DEF Newest, Valid
<1>5. ASSUME NEW d, d # db PROVE Valid(d)' = Valid(d)
  <2>1. \A h : h \in disk' /\ h.db = d <=> h \in disk /\ h.db = d
    BY <1>1, <1>5
  <2> QED  BY <2>1 DEF Valid
<1>6. \A d, h : d # db => (Newest(d, h)' <=> Newest(d, h))
  BY <1>5 DEF Newest
<1>7. /\ \E h \in Valid(db)' : Newest(db, h)' /\ h.content = saver[s].snapshot
      /\ \E k : k.at = clock /\ k.db = db /\ \A h \in disk' : h = k \/ h \in disk
  BY <1>1, <1>2, <1>4
<1> QED  BY <1>5, <1>6, <1>7

\* With as many checkpoints as databases, no file of the round is among the oldest.
LEMMA RemoveSparesRound ==
    ASSUME SaveTypes, LoopRound, CleanupRemove, shutdown = "no",
           MaxCheckpoints >= Cardinality(Databases)
    PROVE  \E t \in 0..clock : InRound(saver["loop"], t) /\ Since(t) \subseteq disk'
<1>1. saver["loop"].pc = "remove"
  BY DEF CleanupRemove, At
<1>2. listed = disk /\ Cardinality(disk) > MaxCheckpoints
  BY <1>1 DEF LoopRound
<1>3. PICK t \in 0..clock : InRound(saver["loop"], t)
  BY <1>1 DEF LoopRound
<1> DEFINE Now(f) == {g \in disk : SameName(f, g)}
           n == Cardinality(disk) - MaxCheckpoints
<1>4. \A f \in disk : f \in Now(f) /\ Now(f) \subseteq disk
  BY DEF SameName
<1>5. UNION {Now(f) : f \in disk} = disk
  BY <1>4
<1>6. \A f \in disk : Now(f) # {}
  BY <1>4
<1>7. PICK A \in Oldest(disk, n) : disk' = disk \ A
  BY <1>2, <1>5, <1>6 DEF CleanupRemove
<1>8. IsFiniteSet(disk) /\ Cardinality(disk) \in Nat /\ MaxCheckpoints \in Nat
  BY TypesNow, FS_CardinalityType, CheckpointsAssumption
<1>9. A \subseteq disk /\ Cardinality(A) = n /\ \A f \in A, g \in disk \ A : f.at <= g.at
  BY <1>7 DEF Oldest
<1>10. IsFiniteSet(disk \ A) /\ Cardinality(disk \ A) = MaxCheckpoints
  <2>1. disk \cap A = A
    BY <1>9
  <2>2. IsFiniteSet(disk \ A) /\ Cardinality(disk \ A) = Cardinality(disk) - Cardinality(A)
    BY <1>8, <2>1, FS_Difference
  <2> QED  BY <1>8, <1>9, <2>2
<1>11. ASSUME NEW f \in A, f \in Since(t) PROVE FALSE
  <2> DEFINE B == (disk \ A) \cup {f}
             of == [g \in B |-> g.db]
  <2>1. \A g \in B : g \in Since(t)
    <3>1. ASSUME NEW g \in disk \ A PROVE g.at > t
      <4>1. f.at <= g.at /\ f.at > t /\ f \in disk
        BY <1>9, <1>11 DEF Since
      <4>2. f.at \in Nat /\ g.at \in Nat /\ t \in Nat
        BY <1>3, <4>1, TypesNow DEF FileRecords
      <4> QED  BY <4>1, <4>2
    <3> QED  BY <1>11, <3>1 DEF Since
  <2>2. Cardinality(B) = MaxCheckpoints + 1 /\ IsFiniteSet(B)
    BY <1>10, <1>8, FS_AddElement
  <2>3. B \subseteq disk
    BY <1>9
  <2>4. of \in Injection(B, Databases)
    <3>1. \A g, h \in B : g.db = h.db => g = h
      BY <1>3, <2>1 DEF InRound
    <3>2. \A g \in B : g.db \in Databases
      BY <2>3, TypesNow DEF FileRecords
    <3> HIDE DEF B
    <3> QED  BY <3>1, <3>2 DEF Injection, IsInjective
  <2> HIDE DEF B, of
  <2>5. Cardinality(B) <= Cardinality(Databases)
    BY <2>4, FS_Injection, CheckpointsAssumption
  <2>6. Cardinality(Databases) \in Nat
    BY CheckpointsAssumption, FS_CardinalityType
  <2> QED  BY <1>8, <2>2, <2>5, <2>6
<1>12. Since(t) \subseteq disk'
  BY <1>7, <1>11 DEF Since
<1> QED  BY <1>3, <1>12

-----------------------------------------------------------------------------
(* What SaveDatabase completed stays *)

LEMMA NextKept ==
    /\ SaveTypes /\ Times /\ Saving /\ SaveOrder /\ Chosen /\ Kept /\ LoopRound
    /\ [SaveNext]_saveVars
    => Kept'
<1> SUFFICES ASSUME SaveTypes, Times, Saving, SaveOrder, Chosen, Kept, LoopRound,
                    [SaveNext]_saveVars
             PROVE  Kept'
  OBVIOUS
\* A step that leaves the snapshots alone.
<1>1. ASSUME \A f : (f \in disk' /\ ~f.tmp) <=> (f \in disk /\ ~f.tmp),
             saved' = saved, exists \subseteq exists', shutdown' = "no" => shutdown = "no"
      PROVE  Kept'
  <2>1. /\ \A d : Valid(d)' = Valid(d)
        /\ \A d, f : Newest(d, f)' <=> Newest(d, f)
    BY <1>1, SameSnapshots
  <2> QED  BY <1>1, <2>1 DEF Kept
<1>2. CASE \/ \E d \in Databases : Create(d)
           \/ \E d \in Databases, c \in Collections : Write(d, c)
           \/ Restart \/ UNCHANGED saveVars
  BY <1>1, <1>2 DEF Create, Write, Restart, saveVars, files, memory
<1>3. CASE Tick \/ LoopLeaves \/ CleanupList \/ Signal \/ BeginStop \/ StopWaited
  BY <1>1, <1>3 DEF Tick, LoopLeaves, CleanupList, Signal, BeginStop, StopWaited, files, memory
<1>4. ASSUME NEW s \in Savers,
             AllSaved(s) \/ (\E d \in Databases : Begin(s, d)) \/ (\E c \in Collections : Read(s, c))
      PROVE  Kept'
  BY <1>1, <1>4 DEF AllSaved, Begin, Read, files, memory
<1>5. ASSUME NEW s \in Savers, WriteTmp(s) PROVE Kept'
  <2>1. saver[s].db \in Databases
    BY <1>5 DEF WriteTmp, At, Saving, InSave
  <2>2. PICK f \in FileRecords : disk' = disk \cup {f} /\ f.tmp
    BY <1>5, <2>1, WriteTmpDoes
  <2>3. \A g : (g \in disk' /\ ~g.tmp) <=> (g \in disk /\ ~g.tmp)
    BY <2>2
  <2> QED  BY <1>1, <1>5, <2>3 DEF WriteTmp, memory
<1>6. ASSUME NEW s \in Savers, SaveFails(s) PROVE Kept'
  <2>1. \A g : (g \in disk' /\ ~g.tmp) <=> (g \in disk /\ ~g.tmp)
    BY <1>6, SaveFailsDoes
  <2> QED  BY <1>1, <1>6, <2>1 DEF SaveFails, memory
<1>7. ASSUME NEW s \in Savers, Rename(s) PROVE Kept'
  <2>0. PICK db \in Databases : db = saver[s].db
    BY <1>7, RenameDoes
  <2>1. /\ \E g \in Valid(db)' : Newest(db, g)' /\ g.content = saver[s].snapshot
        /\ \A d : d # db => Valid(d)' = Valid(d)
        /\ \A d, f : d # db => (Newest(d, f)' <=> Newest(d, f))
    BY <1>7, <2>0, RenamedIsNewest
  <2>2. db \in Databases /\ db \in exists /\ saved' = [saved EXCEPT ![db] = saver[s].snapshot]
    BY <1>7, <2>0, RenameDoes DEF Chosen, InSave
  <2>3. exists' = exists /\ shutdown' = shutdown
    BY <1>7 DEF Rename, memory
  <2>4. /\ \A d \in Databases \ {db} : saved'[d] = saved[d]
        /\ saved'[db] = saver[s].snapshot
    BY <2>2, TypesNow
  <2>5. ASSUME shutdown' = "no", NEW d \in Databases, saved'[d] # Unread
        PROVE  /\ d \in exists'
               /\ MaxCheckpoints >= Cardinality(Databases) =>
                      \E f \in Valid(d)' : Newest(d, f)' /\ f.content = saved'[d]
    <3>1. CASE d = db
      BY <2>1, <2>2, <2>3, <2>4, <3>1
    <3>2. CASE d # db
      BY <2>1, <2>3, <2>4, <2>5, <3>2 DEF Kept
    <3> QED  BY <3>1, <3>2
  <2> QED  BY <2>5 DEF Kept
<1>8. CASE CleanupRemove
  <2>1. saved' = saved /\ exists' = exists /\ shutdown' = shutdown /\ disk' \subseteq disk
    BY <1>8 DEF CleanupRemove, memory
  <2>2. ASSUME shutdown' = "no", NEW d \in Databases, saved'[d] # Unread,
               MaxCheckpoints >= Cardinality(Databases)
        PROVE  \E f \in Valid(d)' : Newest(d, f)' /\ f.content = saved'[d]
    <3>1. PICK t \in 0..clock : InRound(saver["loop"], t) /\ Since(t) \subseteq disk'
      BY <1>8, <2>1, <2>2, RemoveSparesRound
    <3>2. PICK f \in Valid(d) : Newest(d, f) /\ f.content = saved[d]
      BY <2>1, <2>2 DEF Kept
    <3>3. saver["loop"].pc = "remove" /\ saver["loop"].todo = {}
      BY <1>8, <2>1, <2>2 DEF CleanupRemove, At, LoopRound
    <3>4. f.at > t
      BY <2>1, <2>2, <3>1, <3>2, <3>3 DEF InRound, InSave
    <3>5. f \in disk' /\ f.db = d /\ ~f.tmp
      BY <3>1, <3>2, <3>4 DEF Valid, Since
    <3>6. f \in Valid(d)' /\ Valid(d)' \subseteq Valid(d)
      BY <2>1, <3>5 DEF Valid
    <3>7. Newest(d, f)'
      BY <3>2, <3>6 DEF Newest
    <3> QED  BY <2>1, <3>2, <3>6, <3>7
  <2>3. \A d \in Databases : shutdown' = "no" /\ saved'[d] # Unread => d \in exists'
    BY <2>1 DEF Kept
  <2> QED  BY <2>2, <2>3 DEF Kept
<1>9. CASE MainReturns \/ Killed
  <2>1. \A d \in Databases : saved'[d] = Unread
    BY <1>9, FreshDoes DEF MainReturns, Killed
  <2>2. \A d \in Databases : ~(saved'[d] # Unread)
    BY <2>1 DEF Unread
  <2> QED  BY <2>2 DEF Kept, Unread
<1> QED
  BY <1>2, <1>3, <1>4, <1>5, <1>6, <1>7, <1>8, <1>9 DEF SaveNext, SaverStep

-----------------------------------------------------------------------------
(* A round of the loop *)

LEMMA OnlyTheLoop ==
    ASSUME SaveTypes, SaveOrder, shutdown = "no", NEW s \in Savers, saver[s].pc \in InSave \cup {"next"}
    PROVE  s = "loop"
BY SaverNames DEF SaveOrder, InSave

\* The loop after a step that does not end a round without errors, or ends it.
LEMMA RoundGoesOn ==
    ASSUME shutdown' = "no", saver'["loop"].pc \notin {"cleanup", "remove"},
           saver'["loop"].pc \in InSave \cup {"next"} /\ ~saver'["loop"].error =>
               \E t \in 0..clock' : InRound(saver["loop"], t)'
    PROVE  LoopRound'
BY DEF LoopRound

LEMMA NextRound ==
    /\ SaveTypes /\ Times /\ Saving /\ SaveOrder /\ Chosen /\ Kept /\ LoopRound
    /\ [SaveNext]_saveVars
    => LoopRound'
<1> SUFFICES ASSUME SaveTypes, Times, Saving, SaveOrder, Chosen, Kept, LoopRound,
                    [SaveNext]_saveVars
             PROVE  LoopRound'
  OBVIOUS
<1> USE SaverNames
<1>1. CASE shutdown' # "no"
  BY <1>1 DEF LoopRound
<1>2. CASE MainReturns \/ Killed
  <2>1. saver'["loop"].pc = "idle"
    BY <1>2, FreshDoes DEF MainReturns, Killed
  <2> QED  BY <2>1 DEF LoopRound, InSave
<1>3. ASSUME saver'["loop"] = saver["loop"], disk' = disk, clock' = clock, saved' = saved,
             listed' = listed, shutdown' = shutdown
      PROVE  LoopRound'
  <2>1. \A t : InRound(saver["loop"], t)' <=> InRound(saver["loop"], t)
    BY <1>3 DEF InRound, Since, Newest, Valid
  <2> QED  BY <1>3, <2>1 DEF LoopRound
<1>4. CASE \/ \E d \in Databases : Create(d)
           \/ \E d \in Databases, c \in Collections : Write(d, c)
           \/ Restart \/ UNCHANGED saveVars
  BY <1>3, <1>4 DEF Create, Write, Restart, saveVars, files
<1>5. ASSUME shutdown' = "no", StopWaited PROVE LoopRound'
  <2>1. Others("stop")
    BY <1>5, SaveAllDoes DEF StopWaited
  <2> QED  BY <1>3, <1>5, <2>1 DEF StopWaited, Others, files
<1>6. ASSUME shutdown' = "no", Signal \/ BeginStop PROVE LoopRound'
  BY <1>6 DEF Signal, BeginStop
<1>7. ASSUME shutdown' = "no", Tick PROVE LoopRound'
  <2>1. saver'["loop"].pc = "next" /\ saver'["loop"].todo = exists
    BY <1>7, SaveAllDoes DEF Tick
  <2>2. saved' = saved /\ disk' = disk /\ clock' = clock /\ shutdown = "no" /\ clock \in 0..clock
    BY <1>7, TypesNow DEF Tick, files
  <2>3. Since(clock)' = {}
    BY <2>2, TypesNow DEF Since
  <2>4. \A d \in Databases : saved'[d] # Unread => d \in saver'["loop"].todo
    BY <2>1, <2>2 DEF Kept
  <2>5. InRound(saver["loop"], clock)'
    BY <2>1, <2>2, <2>3, <2>4 DEF InRound, Since
  <2>6. \E t \in 0..clock' : InRound(saver["loop"], t)'
    BY <2>2, <2>5 
  <2> QED  BY <1>7, <2>1, <2>6, RoundGoesOn
<1>8. ASSUME shutdown' = "no", LoopLeaves PROVE LoopRound'
  <2>1. saver'["loop"].pc = "left"
    BY <1>8, PlaceDoes DEF LoopLeaves, SavePlaces
  <2> QED  BY <2>1 DEF LoopRound, InSave
<1>9. ASSUME shutdown' = "no", CleanupRemove PROVE LoopRound'
  <2>1. saver'["loop"].pc = "idle"
    BY <1>9, Goes, IdleRecord DEF CleanupRemove
  <2> QED  BY <2>1 DEF LoopRound, InSave
<1>10. ASSUME shutdown' = "no", CleanupList PROVE LoopRound'
  <2>1. /\ saver["loop"].pc = "cleanup" /\ listed' = disk
        /\ saver'["loop"].todo = saver["loop"].todo
        /\ saver'["loop"].db = saver["loop"].db
        /\ saver'["loop"].error = saver["loop"].error
        /\ saver'["loop"].pc = IF Cardinality(disk) <= MaxCheckpoints THEN "idle" ELSE "remove"
    BY <1>10, ListDoes
  <2>2. saved' = saved /\ disk' = disk /\ clock' = clock /\ shutdown = "no"
    BY <1>10 DEF CleanupList, files
  <2>3. CASE saver'["loop"].pc = "idle"
    BY <2>3 DEF LoopRound, InSave
  <2>4. CASE saver'["loop"].pc = "remove"
    <3>1. Cardinality(disk) \in Nat /\ MaxCheckpoints \in Nat
      BY TypesNow, FS_CardinalityType, CheckpointsAssumption
    <3>2. Cardinality(disk') > MaxCheckpoints
      BY <2>1, <2>2, <2>4, <3>1
    <3>3. ~saver["loop"].error /\ saver["loop"].todo = {}
      BY <2>1, <2>2 DEF LoopRound
    <3>4. PICK t \in 0..clock : InRound(saver["loop"], t)
      BY <2>1, <2>2, <3>3 DEF LoopRound
    <3>5. InRound(saver["loop"], t)'
      BY <2>1, <2>2, <2>4, <3>4 DEF InRound, Since, Newest, Valid, InSave
    <3> QED  BY <2>1, <2>2, <3>2, <3>3, <3>4, <3>5 DEF LoopRound
  <2> QED  BY <2>1, <2>3, <2>4
<1>11. ASSUME NEW s \in Savers, shutdown' = "no", AllSaved(s) PROVE LoopRound'
  <2>1. /\ saved' = saved /\ disk' = disk /\ clock' = clock /\ shutdown = "no" /\ listed' = listed
        /\ saver[s].pc = "next"
    BY <1>11 DEF AllSaved, files, At
  <2>2. s = "loop"
    BY <2>1, OnlyTheLoop
  <2>3. /\ saver["loop"].todo = {} /\ saver'["loop"].todo = {}
        /\ saver'["loop"].error = saver["loop"].error
        /\ saver'["loop"].pc = IF saver["loop"].error THEN "idle" ELSE "cleanup"
    BY <1>11, <2>2, AllSavedDoes
  <2>4. CASE saver["loop"].error
    BY <2>3, <2>4 DEF LoopRound, InSave
  <2>5. CASE ~saver["loop"].error
    <3>1. PICK t \in 0..clock : InRound(saver["loop"], t)
      BY <2>1, <2>2, <2>5 DEF LoopRound
    <3>2. InRound(saver["loop"], t)'
      BY <2>1, <2>2, <2>3, <2>5, <3>1 DEF InRound, Since, Newest, Valid, InSave
    <3> QED  BY <2>1, <2>3, <2>5, <3>1, <3>2 DEF LoopRound
  <2> QED  BY <2>4, <2>5
<1>12. ASSUME NEW s \in Savers, shutdown' = "no", SaveFails(s) PROVE LoopRound'
  <2>1. shutdown = "no" /\ saver[s].pc = "rename" /\ saver'[s].pc = "next" /\ saver'[s].error = TRUE
    BY <1>12, SaveFailsDoes DEF SaveFails
  <2>2. s = "loop"
    BY <2>1, OnlyTheLoop DEF InSave
  <2> QED  BY <1>12, <2>1, <2>2, RoundGoesOn
<1>13. ASSUME NEW s \in Savers, NEW d \in Databases, shutdown' = "no", Begin(s, d) PROVE LoopRound'
  <2>1. /\ saved' = saved /\ disk' = disk /\ clock' = clock /\ shutdown = "no"
        /\ saver[s].pc = "next"
    BY <1>13 DEF Begin, files, At
  <2>2. s = "loop"
    BY <2>1, OnlyTheLoop
  <2>3. /\ d \in saver["loop"].todo /\ saver'["loop"].todo = saver["loop"].todo \ {d}
        /\ saver'["loop"].error = saver["loop"].error
        /\ saver'["loop"].pc = "read" /\ saver'["loop"].db = d
    BY <1>13, <2>2, BeginDoes
  <2>4. ASSUME ~saver["loop"].error PROVE \E t \in 0..clock' : InRound(saver["loop"], t)'
    <3>1. PICK t \in 0..clock : InRound(saver["loop"], t)
      BY <2>1, <2>2, <2>4 DEF LoopRound
    <3>2. InRound(saver["loop"], t)'
      BY <2>1, <2>2, <2>3, <3>1 DEF InRound, Since, Newest, Valid, InSave
    <3> QED  BY <2>1, <3>1, <3>2
  <2> QED  BY <1>13, <2>3, <2>4, RoundGoesOn
<1>14. ASSUME NEW s \in Savers, NEW c \in Collections, shutdown' = "no", Read(s, c)
       PROVE  LoopRound'
  <2>1. /\ saved' = saved /\ disk' = disk /\ clock' = clock /\ shutdown = "no"
        /\ saver[s].pc = "read" /\ saver[s].db \in Databases
    BY <1>14 DEF Read, files, At, Saving, InSave
  <2>2. s = "loop"
    BY <2>1, OnlyTheLoop DEF InSave
  <2>3. /\ saver'["loop"].todo = saver["loop"].todo /\ saver'["loop"].db = saver["loop"].db
        /\ saver'["loop"].error = saver["loop"].error
        /\ saver'["loop"].pc \in {"read", "write"}
    BY <1>14, <2>1, <2>2, ReadDoes
  <2>4. ASSUME ~saver["loop"].error PROVE \E t \in 0..clock' : InRound(saver["loop"], t)'
    <3>1. PICK t \in 0..clock : InRound(saver["loop"], t)
      BY <2>1, <2>2, <2>4 DEF LoopRound, InSave
    <3>2. InRound(saver["loop"], t)'
      BY <2>1, <2>2, <2>3, <3>1 DEF InRound, Since, Newest, Valid, InSave
    <3> QED  BY <2>1, <3>1, <3>2
  <2> QED  BY <1>14, <2>3, <2>4, RoundGoesOn
<1>15. ASSUME NEW s \in Savers, shutdown' = "no", WriteTmp(s) PROVE LoopRound'
  <2>1. saved' = saved /\ shutdown = "no" /\ saver[s].pc = "write" /\ saver[s].db \in Databases
    BY <1>15 DEF WriteTmp, At, Saving, InSave
  <2>2. s = "loop"
    BY <2>1, OnlyTheLoop DEF InSave
  <2>3. /\ saver'["loop"].todo = saver["loop"].todo /\ saver'["loop"].db = saver["loop"].db
        /\ saver'["loop"].error = saver["loop"].error /\ clock' = clock + 1
        /\ saver'["loop"].pc = "rename"
    BY <1>15, <2>1, <2>2, WriteTmpDoes
  <2>4. PICK f \in FileRecords : /\ disk' = disk \cup {f} /\ f.at = clock + 1 /\ f.tmp
                                 /\ f.db = saver["loop"].db
    BY <1>15, <2>1, <2>2, WriteTmpDoes
  <2>5. \A d, g : Newest(d, g)' <=> Newest(d, g)
    <3>1. \A g : (g \in disk' /\ ~g.tmp) <=> (g \in disk /\ ~g.tmp)
      BY <2>4
    <3> QED  BY <3>1, SameSnapshots
  <2>6. saver["loop"].db \notin saver["loop"].todo
    BY <2>1, <2>2 DEF Chosen, InSave
  <2>7. ASSUME ~saver["loop"].error PROVE \E t \in 0..clock' : InRound(saver["loop"], t)'
    <3>1. PICK t \in 0..clock : InRound(saver["loop"], t)
      BY <2>1, <2>2, <2>7 DEF LoopRound, InSave
    <3>2. clock \in Nat /\ t < clock' /\ t \in 0..clock'
      BY <2>3, TypesNow
    <3>3. Since(t)' = Since(t) \cup {f}
      BY <2>4, <3>2, TypesNow DEF Since
    <3>4. \A g \in Since(t) : g.db # f.db /\ g.db \notin saver["loop"].todo
      BY <2>1, <2>2, <2>4, <3>1 DEF InRound
    <3>5. \A g, h \in Since(t)' : g.db = h.db => g = h
      BY <3>1, <3>3, <3>4 DEF InRound
    <3>6. \A g \in Since(t)' : g.db \notin saver'["loop"].todo
      BY <2>3, <2>4, <2>6, <3>3, <3>4
    <3>7. ASSUME NEW d \in Databases, saved'[d] # Unread, d \notin saver'["loop"].todo,
                 d # saver'["loop"].db, NEW g \in Valid(d)', Newest(d, g)'
          PROVE  g.at > t
      <4>1. Newest(d, g) /\ g \in Valid(d) /\ saved[d] # Unread
        BY <2>1, <2>5, <3>7 DEF Newest, Unread
      <4>2. d \notin saver["loop"].todo /\ d # saver["loop"].db
        BY <2>3, <3>7
      <4> QED  BY <3>1, <4>1, <4>2 DEF InRound
    <3>8. InRound(saver["loop"], t)'
      BY <2>3, <3>2, <3>5, <3>6, <3>7 DEF InRound, InSave
    <3> QED  BY <3>2, <3>8
  <2> QED  BY <1>15, <2>3, <2>7, RoundGoesOn
<1>16. ASSUME NEW s \in Savers, shutdown' = "no", Rename(s) PROVE LoopRound'
  <2>1. shutdown = "no" /\ saver[s].pc = "rename" /\ clock' = clock
    BY <1>16 DEF Rename, At
  <2>2. s = "loop"
    BY <2>1, OnlyTheLoop DEF InSave
  <2>3. PICK db \in Databases : db = saver["loop"].db
    BY <1>16, <2>2, RenameDoes
  <2>4. /\ saver'["loop"].todo = saver["loop"].todo
        /\ saver'["loop"].error = saver["loop"].error
        /\ saver'["loop"].pc = "next"
        /\ saved' = [saved EXCEPT ![db] = saver["loop"].snapshot]
    BY <1>16, <2>2, <2>3, RenameDoes
  <2>5. PICK f \in disk, g \in FileRecords :
           /\ f.db = db /\ f.at = clock /\ ~g.tmp /\ g.at = clock /\ g.db = db
           /\ g \in disk' /\ \A h \in disk' : h = g \/ h \in disk \ {f}
    BY <1>16, <2>2, <2>3, RenameDoes
  <2>6. /\ \A d : d # db => Valid(d)' = Valid(d)
        /\ \A d, h : d # db => (Newest(d, h)' <=> Newest(d, h))
    BY <1>16, <2>2, <2>3, RenamedIsNewest
  <2>7. db \notin saver["loop"].todo
    BY <2>1, <2>2, <2>3 DEF Chosen, InSave
  <2>8. ASSUME ~saver["loop"].error PROVE \E t \in 0..clock' : InRound(saver["loop"], t)'
    <3>1. PICK t \in 0..clock : InRound(saver["loop"], t)
      BY <2>1, <2>2, <2>8 DEF LoopRound, InSave
    <3>2. t < clock
      BY <2>1, <2>2, <3>1 DEF InRound
    <3>3. f \in Since(t) /\ \A h \in Since(t)' : h = g \/ h \in Since(t) \ {f}
      BY <2>5, <3>2 DEF Since
    <3>4. \A h \in Since(t) \ {f} : h.db # db
      BY <2>5, <3>1, <3>3 DEF InRound
    <3>5. \A h, k \in Since(t)' : h.db = k.db => h = k
      BY <2>5, <3>1, <3>3, <3>4 DEF InRound
    <3>6. \A h \in Since(t)' : h.db \notin saver'["loop"].todo
      BY <2>4, <2>5, <2>7, <3>1, <3>3 DEF InRound
    <3>7. ASSUME NEW d \in Databases, saved'[d] # Unread, d \notin saver'["loop"].todo,
                 NEW h \in Valid(d)', Newest(d, h)'
          PROVE  h.at > t
      <4>1. CASE d = db
        <5>1. g \in Valid(d)'
          BY <2>5, <4>1 DEF Valid
        <5>2. g.at <= h.at
          BY <3>7, <5>1 DEF Newest
        <5>3. h.at \in Nat /\ clock \in Nat /\ t \in Nat
          <6>1. h \in disk'
            BY <3>7 DEF Valid
          <6> QED  BY <2>5, <6>1, <3>1, TypesNow DEF FileRecords
        <5> QED  BY <2>5, <3>2, <5>2, <5>3
      <4>2. CASE d # db
        <5>1. Newest(d, h) /\ h \in Valid(d) /\ saved[d] # Unread
          BY <2>4, <2>6, <3>7, <4>2, TypesNow DEF Unread
        <5>2. d \notin saver["loop"].todo /\ d # saver["loop"].db
          BY <2>3, <2>4, <3>7, <4>2
        <5> QED  BY <3>1, <5>1, <5>2 DEF InRound
      <4> QED  BY <4>1, <4>2
    <3>8. InRound(saver["loop"], t)'
      BY <2>4, <3>5, <3>6, <3>7 DEF InRound, InSave
    <3> QED  BY <2>1, <3>1, <3>8
  <2> QED  BY <1>16, <2>4, <2>8, RoundGoesOn
<1> QED
  BY <1>1, <1>2, <1>4, <1>5, <1>6, <1>7, <1>8, <1>9, <1>10, <1>11, <1>12, <1>13, <1>14, <1>15,
     <1>16 DEF SaveNext, SaverStep

-----------------------------------------------------------------------------
(* What Stop has promised *)

LEMMA LateCovers ==
    ASSUME NEW r, NEW p, Complete(r.snapshot), LateRead(r, p)
    PROVE  CoveredBy(AsSet(p[2]), r.snapshot)
<1>1. ASSUME NEW c \in Collections
      PROVE  \E q \in r.snapshot : q[1] = c /\ q[2] >= p[2][c]
  BY DEF Complete, LateRead
<1> QED  BY <1>1 DEF CoveredBy, AsSet

\* Whoever is in SaveDatabase is so alone.
LEMMA AloneInSave ==
    ASSUME Saving, NEW s \in Savers, saver[s].pc \in InSave \/ mu = Nobody,
           NEW z \in Savers, z # s
    PROVE  saver[z].pc \notin InSave
BY SaverNames DEF Saving

LEMMA AtStopTypes ==
    ASSUME SaveTypes, NEW p \in atStop
    PROVE  p[1] \in Databases /\ p[2] \in Snapshots
BY DEF SaveTypes

LEMMA NextStopping ==
    /\ SaveTypes /\ Times /\ Saving /\ SaveOrder /\ Chosen /\ Stopping
    /\ [SaveNext]_saveVars
    => Stopping'
<1> SUFFICES ASSUME SaveTypes, Times, Saving, SaveOrder, Chosen, Stopping, [SaveNext]_saveVars
             PROVE  Stopping'
  OBVIOUS
<1> USE SaverNames
<1>1. CASE \/ \E d \in Databases : Create(d)
           \/ Restart \/ UNCHANGED saveVars
  <2>1. saver' = saver /\ disk' = disk /\ content' = content /\ atStop' = atStop
    BY <1>1 DEF Create, Restart, saveVars, files, memory
  <2>2. \A p : Promised(p)' <=> Promised(p)
    BY <2>1 DEF Promised, Covers, Newest, Valid
  <2> QED  BY <2>1, <2>2 DEF Stopping
<1>2. CASE MainReturns \/ Killed
  <2>1. atStop' = {} /\ saver'["stop"].pc = "idle"
    BY <1>2, FreshDoes DEF MainReturns, Killed
  <2> QED  BY <2>1 DEF Stopping
<1>3. CASE Tick \/ LoopLeaves \/ CleanupList \/ CleanupRemove
  <2>1. saver["loop"].pc # "left" /\ atStop' = atStop
    BY <1>3 DEF Tick, LoopLeaves, CleanupList, CleanupRemove, At
  <2>2. atStop = {}
    BY <2>1 DEF Stopping, SaveOrder
  <2>3. Others("loop")
    BY <1>3, SaveAllDoes, PlaceDoes, ListDoes, Goes, IdleRecord
       DEF Tick, LoopLeaves, CleanupRemove, SavePlaces
  <2>4. saver'["stop"] = saver["stop"]
    BY <2>3 DEF Others
  <2> QED  BY <2>1, <2>2, <2>4 DEF Stopping
<1>4. CASE Signal
  <2>1. atStop' = atStop /\ saver["stop"].pc = "idle" /\ Others("final")
    BY <1>4, SaveAllDoes DEF Signal, SaveOrder
  <2>2. atStop = {} /\ saver'["stop"] = saver["stop"]
    BY <2>1 DEF Stopping, Others, InSave
  <2> QED  BY <2>1, <2>2 DEF Stopping
<1>5. CASE BeginStop
  <2>1. atStop' = atStop /\ saver["stop"].pc = "idle" /\ saver'["stop"].pc = "wait"
    BY <1>5, PlaceDoes DEF BeginStop, SaveOrder, SavePlaces
  <2>2. atStop = {}
    BY <2>1 DEF Stopping, InSave
  <2> QED  BY <2>1, <2>2 DEF Stopping
<1>6. CASE StopWaited
  <2>1. /\ saver'["stop"].pc = "next" /\ saver'["stop"].todo = exists
        /\ atStop' = {<<d, content[d]>> : d \in exists} /\ content' = content
    BY <1>6, SaveAllDoes DEF StopWaited, memory
  <2>2. ASSUME NEW p \in atStop' PROVE Promised(p)'
    <3>1. p[1] \in exists /\ p[2] = content[p[1]] /\ p[1] \in Databases
      BY <2>1, TypesNow
    <3>2. \A c \in Collections : p[2][c] <= content'[p[1]][c]
      BY <2>1, <3>1, TypesNow DEF Snapshots
    <3> QED  BY <2>1, <3>1, <3>2 DEF Promised
  <2> QED  BY <2>1, <2>2 DEF Stopping
<1>7. ASSUME NEW d \in Databases, NEW c \in Collections, Write(d, c) PROVE Stopping'
  <2>1. /\ saver' = saver /\ disk' = disk /\ atStop' = atStop
        /\ content' = [content EXCEPT ![d][c] = writes + 1]
    BY <1>7 DEF Write, files
  <2>2. ASSUME NEW p \in atStop PROVE Promised(p)'
    <3>1. p[1] \in Databases /\ p[2] \in Snapshots
      BY AtStopTypes
    <3>2. ASSUME NEW k \in Collections PROVE p[2][k] <= content'[p[1]][k]
      <4>1. /\ content[p[1]][k] \in Nat /\ content[p[1]][k] <= writes /\ writes \in Nat
            /\ p[2][k] \in Nat /\ p[2][k] <= content[p[1]][k]
        BY <3>1, TypesNow DEF Times, Snapshots, Stopping, Promised
      <4>2. content'[p[1]][k] = content[p[1]][k] \/ content'[p[1]][k] = writes + 1
        BY <2>1, <3>1, TypesNow DEF Snapshots
      <4> QED  BY <4>1, <4>2
    <3>3. Covers(p)' <=> Covers(p)
      BY <2>1 DEF Covers, Newest, Valid
    <3>4. Promised(p)
      BY DEF Stopping
    <3> QED  BY <2>1, <3>2, <3>3, <3>4 DEF Promised
  <2> QED  BY <2>1, <2>2 DEF Stopping
<1>8. ASSUME NEW s \in Savers, AllSaved(s) PROVE Stopping'
  <2>1. /\ Others(s) /\ saver[s].pc = "next" /\ saver[s].todo = {} /\ saver'[s].todo = {}
        /\ saver'[s].error = saver[s].error /\ saver'[s].pc \in {"done", "idle", "cleanup"}
        /\ s = "stop" => saver'[s].pc = "done"
    BY <1>8, AllSavedDoes
  <2>2. disk' = disk /\ content' = content /\ atStop' = atStop
    BY <1>8 DEF AllSaved, files, memory
  <2>3. /\ saver'["stop"].todo = saver["stop"].todo /\ saver'["stop"].error = saver["stop"].error
        /\ saver["stop"].pc \in InSave => saver'["stop"] = saver["stop"]
        /\ saver'["stop"].pc = "done" => saver'["stop"].todo = {}
        /\ atStop # {} => saver'["stop"].pc \in InSave \cup {"next", "done"}
    <3>1. CASE s = "stop"
      BY <2>1, <3>1 DEF InSave
    <3>2. CASE s # "stop"
      BY <2>1, <3>2 DEF Others, Stopping
    <3> QED  BY <3>1, <3>2
  <2>4. \A z \in Savers : saver'[z].pc \in InSave => saver'[z] = saver[z]
    BY <2>1 DEF Others, InSave
  <2>5. ASSUME NEW p \in atStop PROVE Promised(p)'
    <3>1. Covers(p)' <=> Covers(p)
      BY <2>2 DEF Covers, Newest, Valid
    <3>2. Promised(p)
      BY DEF Stopping
    <3> QED  BY <2>2, <2>3, <2>4, <3>1, <3>2 DEF Promised
  <2> QED  BY <2>2, <2>3, <2>5 DEF Stopping
<1>9. ASSUME NEW s \in Savers, NEW d \in Databases, Begin(s, d) PROVE Stopping'
  <2>1. /\ Others(s) /\ saver[s].pc = "next" /\ d \in saver[s].todo /\ mu = Nobody
        /\ saver'[s].pc = "read" /\ saver'[s].todo = saver[s].todo \ {d} /\ saver'[s].db = d
        /\ saver'[s].snapshot = {} /\ saver'[s].error = saver[s].error
    BY <1>9, BeginDoes
  <2>2. disk' = disk /\ content' = content /\ atStop' = atStop
    BY <1>9 DEF Begin, files, memory
  <2>3. /\ saver'["stop"].error = saver["stop"].error
        /\ saver["stop"].pc \notin InSave
        /\ saver'["stop"].pc = "done" => saver'["stop"].todo = {}
        /\ atStop # {} => saver'["stop"].pc \in InSave \cup {"next", "done"}
    <3>1. saver["stop"].pc \notin InSave
      BY <2>1, AloneInSave DEF InSave
    <3>2. CASE s = "stop"
      BY <2>1, <3>1, <3>2 DEF InSave
    <3>3. CASE s # "stop"
      BY <2>1, <3>1, <3>3 DEF Others, Stopping
    <3> QED  BY <3>2, <3>3
  <2>4. ASSUME NEW z \in Savers, saver'[z].pc \in InSave PROVE saver'[z].snapshot = {}
    <3>1. CASE z = s
      BY <2>1, <3>1
    <3>2. CASE z # s
      BY <2>1, <2>4, <3>2, AloneInSave DEF Others
    <3> QED  BY <3>1, <3>2
  <2>5. ASSUME NEW p \in atStop PROVE Promised(p)'
    <3>1. Covers(p)' <=> Covers(p)
      BY <2>2 DEF Covers, Newest, Valid
    <3>2. Promised(p)
      BY DEF Stopping
    <3>3. \A z \in Savers : saver'[z].pc \in InSave => LateRead(saver'[z], p)
      BY <2>4 DEF LateRead
    <3>4. \/ saver'["stop"].error \/ p[1] \in saver'["stop"].todo
          \/ saver'["stop"].pc \in InSave /\ saver'["stop"].db = p[1]
          \/ Covers(p)'
      <4>1. CASE s = "stop"
        BY <2>1, <2>3, <3>1, <3>2, <4>1 DEF Promised, InSave
      <4>2. CASE s # "stop"
        BY <2>1, <2>3, <3>1, <3>2, <4>2 DEF Promised, Others
      <4> QED  BY <4>1, <4>2
    <3> QED  BY <2>2, <3>2, <3>3, <3>4 DEF Promised
  <2> QED  BY <2>2, <2>3, <2>5 DEF Stopping
<1>10. ASSUME NEW s \in Savers, NEW c \in Collections, Read(s, c) PROVE Stopping'
  <2>1. saver[s].db \in Databases /\ saver[s].pc = "read"
    BY <1>10 DEF Read, At, Saving, InSave
  <2>2. /\ Others(s) /\ saver'[s].todo = saver[s].todo /\ saver'[s].db = saver[s].db
        /\ saver'[s].snapshot = saver[s].snapshot \cup {<<c, content[saver[s].db][c]>>}
        /\ saver'[s].error = saver[s].error /\ saver'[s].pc \in {"read", "write"}
    BY <1>10, <2>1, ReadDoes
  <2>3. disk' = disk /\ content' = content /\ atStop' = atStop
    BY <1>10 DEF Read, files, memory
  <2>4. /\ saver'["stop"].todo = saver["stop"].todo /\ saver'["stop"].error = saver["stop"].error
        /\ saver["stop"].pc \in InSave =>
               saver'["stop"].pc \in InSave /\ saver'["stop"].db = saver["stop"].db
        /\ saver'["stop"].pc = "done" => saver'["stop"].todo = {}
        /\ atStop # {} => saver'["stop"].pc \in InSave \cup {"next", "done"}
    <3>1. CASE s = "stop"
      BY <2>2, <3>1 DEF InSave
    <3>2. CASE s # "stop"
      BY <2>2, <3>2 DEF Others, Stopping
    <3> QED  BY <3>1, <3>2
  <2>5. ASSUME NEW p \in atStop PROVE Promised(p)'
    <3>1. Covers(p)' <=> Covers(p)
      BY <2>3 DEF Covers, Newest, Valid
    <3>2. Promised(p)
      BY DEF Stopping
    <3>3. ASSUME NEW z \in Savers, saver'[z].pc \in InSave, saver'[z].db = p[1],
                 p[1] \notin saver'["stop"].todo
          PROVE  LateRead(saver'[z], p)
      <4>1. CASE z = s
        <5>1. LateRead(saver[s], p)
          BY <2>1, <2>2, <2>4, <3>2, <3>3, <4>1 DEF Promised, InSave
        <5>2. content[saver[s].db][c] >= p[2][c]
          <6>1. p[2][c] <= content[p[1]][c] /\ saver[s].db = p[1]
            BY <2>2, <3>2, <3>3, <4>1 DEF Promised
          <6>2. p[2][c] \in Nat /\ content[p[1]][c] \in Nat
            BY AtStopTypes, TypesNow DEF Snapshots
          <6> QED  BY <6>1, <6>2
        <5> QED  BY <2>2, <4>1, <5>1, <5>2 DEF LateRead
      <4>2. CASE z # s
        BY <2>2, <2>4, <3>2, <3>3, <4>2 DEF Promised, Others
      <4> QED  BY <4>1, <4>2
    <3> QED  BY <2>3, <2>4, <3>1, <3>2, <3>3 DEF Promised
  <2> QED  BY <2>3, <2>4, <2>5 DEF Stopping
<1>11. ASSUME NEW s \in Savers, WriteTmp(s) PROVE Stopping'
  <2>1. saver[s].db \in Databases /\ saver[s].pc = "write"
    BY <1>11 DEF WriteTmp, At, Saving, InSave
  <2>2. /\ Others(s) /\ saver'[s].todo = saver[s].todo /\ saver'[s].db = saver[s].db
        /\ saver'[s].snapshot = saver[s].snapshot
        /\ saver'[s].error = saver[s].error /\ saver'[s].pc = "rename"
    BY <1>11, <2>1, WriteTmpDoes
  <2>3. content' = content /\ atStop' = atStop
    BY <1>11 DEF WriteTmp, memory
  <2>4. /\ saver'["stop"].todo = saver["stop"].todo /\ saver'["stop"].error = saver["stop"].error
        /\ saver["stop"].pc \in InSave =>
               saver'["stop"].pc \in InSave /\ saver'["stop"].db = saver["stop"].db
        /\ saver'["stop"].pc = "done" => saver'["stop"].todo = {}
        /\ atStop # {} => saver'["stop"].pc \in InSave \cup {"next", "done"}
    <3>1. CASE s = "stop"
      BY <2>2, <3>1 DEF InSave
    <3>2. CASE s # "stop"
      BY <2>2, <3>2 DEF Others, Stopping
    <3> QED  BY <3>1, <3>2
  <2>5. \A z \in Savers :
           /\ saver'[z].pc \in InSave => saver[z].pc \in InSave
           /\ saver'[z].db = saver[z].db /\ saver'[z].snapshot = saver[z].snapshot
    BY <2>1, <2>2 DEF Others, InSave
  <2>6. PICK f \in FileRecords : disk' = disk \cup {f} /\ f.tmp
    BY <1>11, <2>1, WriteTmpDoes
  <2>7. /\ \A d : Valid(d)' = Valid(d)
        /\ \A d, f1 : Newest(d, f1)' <=> Newest(d, f1)
    <3>1. \A g : (g \in disk' /\ ~g.tmp) <=> (g \in disk /\ ~g.tmp)
      BY <2>6
    <3> QED  BY <3>1, SameSnapshots
  <2>8. ASSUME NEW p \in atStop PROVE Promised(p)'
    <3>1. Covers(p)' <=> Covers(p)
      BY <2>7 DEF Covers
    <3>2. Promised(p)
      BY DEF Stopping
    <3>3. \A z \in Savers : LateRead(saver'[z], p) <=> LateRead(saver[z], p)
      BY <2>5 DEF LateRead
    <3> QED  BY <2>3, <2>4, <2>5, <3>1, <3>2, <3>3 DEF Promised
  <2> QED  BY <2>3, <2>4, <2>8 DEF Stopping
<1>12. ASSUME NEW s \in Savers, SaveFails(s) PROVE Stopping'
  <2>1. /\ Others(s) /\ saver[s].pc = "rename" /\ saver'[s].pc = "next" /\ saver'[s].error = TRUE
        /\ saver'[s].todo = saver[s].todo
        /\ disk' \subseteq disk /\ \A f \in disk : ~f.tmp => f \in disk'
    BY <1>12, SaveFailsDoes
  <2>2. content' = content /\ atStop' = atStop
    BY <1>12 DEF SaveFails, memory
  <2>3. /\ saver'["stop"].todo = saver["stop"].todo
        /\ saver'["stop"].error \/ saver'["stop"] = saver["stop"]
        /\ saver'["stop"].pc = "done" => saver'["stop"].todo = {}
        /\ atStop # {} => saver'["stop"].pc \in InSave \cup {"next", "done"}
    <3>1. CASE s = "stop"
      BY <2>1, <3>1
    <3>2. CASE s # "stop"
      BY <2>1, <3>2 DEF Others, Stopping
    <3> QED  BY <3>1, <3>2
  <2>4. \A z \in Savers : saver'[z].pc \notin InSave
    BY <2>1, AloneInSave DEF Others, InSave
  <2>5. /\ \A d : Valid(d)' = Valid(d)
        /\ \A d, f1 : Newest(d, f1)' <=> Newest(d, f1)
    <3>1. \A g : (g \in disk' /\ ~g.tmp) <=> (g \in disk /\ ~g.tmp)
      BY <2>1
    <3> QED  BY <3>1, SameSnapshots
  <2>6. ASSUME NEW p \in atStop PROVE Promised(p)'
    <3>1. Covers(p)' <=> Covers(p)
      BY <2>5 DEF Covers
    <3>2. Promised(p)
      BY DEF Stopping
    <3> QED  BY <2>2, <2>3, <2>4, <3>1, <3>2 DEF Promised
  <2> QED  BY <2>2, <2>3, <2>6 DEF Stopping
<1>13. ASSUME NEW s \in Savers, Rename(s) PROVE Stopping'
  <2>1. PICK db \in Databases : db = saver[s].db
    BY <1>13, RenameDoes
  <2>2. /\ Others(s) /\ saver[s].pc = "rename" /\ saver'[s].pc = "next"
        /\ saver'[s].todo = saver[s].todo /\ saver'[s].error = saver[s].error
    BY <1>13, RenameDoes
  <2>3. content' = content /\ atStop' = atStop
    BY <1>13 DEF Rename, memory
  <2>4. /\ saver'["stop"].todo = saver["stop"].todo
        /\ saver'["stop"].error = saver["stop"].error
        /\ saver'["stop"].pc = "done" => saver'["stop"].todo = {}
        /\ atStop # {} => saver'["stop"].pc \in InSave \cup {"next", "done"}
        /\ saver["stop"].pc \in InSave => s = "stop"
    <3>1. CASE s = "stop"
      BY <2>2, <3>1
    <3>2. CASE s # "stop"
      <4>1. saver["stop"].pc \notin InSave
        BY <2>2, <3>2, AloneInSave DEF InSave
      <4> QED  BY <2>2, <3>2, <4>1 DEF Others, Stopping
    <3> QED  BY <3>1, <3>2
  <2>5. \A z \in Savers : saver'[z].pc \notin InSave
    BY <2>2, AloneInSave DEF Others, InSave
  <2>6. /\ \E g \in Valid(db)' : Newest(db, g)' /\ g.content = saver[s].snapshot
        /\ \A d : d # db => Valid(d)' = Valid(d)
        /\ \A d, f : d # db => (Newest(d, f)' <=> Newest(d, f))
    BY <1>13, <2>1, RenamedIsNewest
  <2>7. Complete(saver[s].snapshot) /\ db \notin saver[s].todo
    BY <2>1, <2>2 DEF Saving, Chosen, InSave
  <2>8. ASSUME NEW p \in atStop PROVE Promised(p)'
    <3>1. Promised(p)
      BY DEF Stopping
    <3>2. CASE p[1] = db /\ p[1] \notin saver["stop"].todo
      <4>1. LateRead(saver[s], p)
        BY <2>1, <2>2, <3>1, <3>2 DEF Promised, InSave
      <4>2. CoveredBy(AsSet(p[2]), saver[s].snapshot)
        BY <2>7, <4>1, LateCovers
      <4>3. Covers(p)'
        BY <2>6, <3>2, <4>2 DEF Covers
      <4> QED  BY <2>3, <2>5, <3>1, <4>3 DEF Promised
    <3>3. CASE p[1] = db /\ p[1] \in saver["stop"].todo
      BY <2>3, <2>4, <2>5, <3>1, <3>3 DEF Promised
    <3>4. CASE p[1] # db
      <4>1. Covers(p)' <=> Covers(p)
        BY <2>6, <3>4 DEF Covers
      <4>2. ~(saver["stop"].pc \in InSave /\ saver["stop"].db = p[1])
        BY <2>1, <2>4, <3>4
      <4> QED  BY <2>3, <2>4, <2>5, <3>1, <4>1, <4>2 DEF Promised
    <3> QED  BY <3>2, <3>3, <3>4
  <2> QED  BY <2>3, <2>4, <2>8 DEF Stopping
<1> QED
  BY <1>1, <1>2, <1>3, <1>4, <1>5, <1>6, <1>7, <1>8, <1>9, <1>10, <1>11, <1>12, <1>13
     DEF SaveNext, SaverStep

-----------------------------------------------------------------------------
(* The theorems *)

LEMMA InitSaveInv == SaveInit => SaveInv
<1> SUFFICES ASSUME SaveInit PROVE SaveInv
  OBVIOUS
<1>1. SaveTypes
  BY InitTypes
<1>2. /\ disk = {} /\ writes = 0 /\ content = [d \in Databases |-> Empty]
      /\ atStop = {} /\ \A d \in Databases : saved[d] = {}
  BY DEF SaveInit, Unread
<1>3. \A s \in Savers : saver[s].pc = "idle" /\ saver[s].todo = {}
  BY IdleRecord DEF SaveInit
<1>4. Times
  BY <1>2 DEF Times, Empty
<1>5. Saving /\ SaveOrder /\ Chosen
  BY <1>3, SaverNames DEF Saving, SaveOrder, Chosen, InSave
<1>6. Kept /\ LoopRound /\ Stopping
  BY <1>2, <1>3, SaverNames DEF Kept, LoopRound, Stopping, InSave, Unread
<1> QED  BY <1>1, <1>4, <1>5, <1>6 DEF SaveInv

\* The inductive invariant holds in every state: snapshots are whole, one saver writes at a
\* time, and the loop, SaveAll and Stop have done what their places say.
THEOREM SaveInvHolds == SaveSpec => []SaveInv
<1>1. SaveInv /\ [SaveNext]_saveVars => SaveInv'
  BY NextTypes, NextTimes, NextSaving, NextOrder, NextChosen, NextKept, NextRound, NextStopping
     DEF SaveInv
<1> QED  BY <1>1, InitSaveInv, PTL DEF SaveSpec

\* The variables of the persistence keep their types.
THEOREM SaveTypeCorrect == SaveSpec => []SaveTypeOK
<1>1. SaveInv => SaveTypeOK
  BY DEF SaveInv, SaveTypes
<1> QED  BY <1>1, SaveInvHolds, PTL

\* The newest file is what findLatestSnapshot would find.
LEMMA LatestIsNewest ==
    ASSUME SaveInv, NEW d \in Databases, NEW f \in Valid(d), Newest(d, f)
    PROVE  OnDisk(d) = f.content
<1>1. \A g \in Valid(d) : g.at \in Nat /\ g \in disk
  BY DEF SaveInv, SaveTypes, FileRecords, Valid
<1>2. ASSUME NEW g \in Valid(d), \A h \in Valid(d) : h.at <= g.at PROVE g = f
  <2>1. g.at <= f.at /\ f.at <= g.at
    BY <1>2 DEF Newest
  <2>2. g.at = f.at
    BY <1>1, <2>1
  <2> QED  BY <1>1, <2>2 DEF SaveInv, Times
<1>3. LatestSnapshot(d) = f
  BY <1>2 DEF LatestSnapshot, Newest
<1> QED  BY <1>3 DEF OnDisk

\* While no shutdown runs, what checkpointLoop completed stays the newest snapshot, over
\* failed saves, removals and file names of earlier lives, if there are no more databases
\* than checkpoints that are kept.
THEOREM SavedHolds == SaveSpec => []SavedStays
<1>1. SaveInv => SavedStays
  <2> SUFFICES ASSUME SaveInv, shutdown = "no", MaxCheckpoints >= Cardinality(Databases),
                      NEW d \in Databases, saved[d] # Unread
               PROVE  OnDisk(d) = saved[d]
    BY DEF SavedStays
  <2>1. PICK f \in Valid(d) : Newest(d, f) /\ f.content = saved[d]
    BY DEF SaveInv, Kept
  <2> QED  BY <2>1, LatestIsNewest
<1> QED  BY <1>1, SaveInvHolds, PTL

\* A Stop that has returned without an error has saved every database as new as it was when
\* Stop began, whatever the loop and the SaveAll of the shutdown were doing.
THEOREM StopHolds == SaveSpec => []StopSavesAll
<1>1. SaveInv => StopSavesAll
  <2> SUFFICES ASSUME SaveInv, saver["stop"].pc = "done", ~saver["stop"].error, NEW p \in atStop
               PROVE  CoveredBy(AsSet(p[2]), OnDisk(p[1]))
    BY DEF StopSavesAll
  <2>1. Promised(p) /\ saver["stop"].todo = {} /\ p[1] \in Databases
    BY AtStopTypes DEF SaveInv, Stopping
  <2>2. PICK f \in Valid(p[1]) : Newest(p[1], f) /\ CoveredBy(AsSet(p[2]), f.content)
    BY <2>1 DEF Promised, Covers, InSave
  <2> QED  BY <2>1, <2>2, LatestIsNewest
<1> QED  BY <1>1, SaveInvHolds, PTL
==============================================================================
