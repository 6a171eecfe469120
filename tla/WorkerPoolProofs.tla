-------------------------- MODULE WorkerPoolProofs --------------------------
(***************************************************************************)
(* Proofs about WorkerPool for every number of callers, workers and tasks: *)
(* its two counts match its goroutines, the pool keeps within its limit    *)
(* until a task panics, and a pool that stopped gracefully runs nothing.   *)
(***************************************************************************)
EXTENDS WorkerPool, TLAPS, FiniteSetTheorems, SequenceTheorems

-----------------------------------------------------------------------------
(* Counting goroutines *)

One(b) == IF b THEN 1 ELSE 0

\* Moving one element changes the count of a set by one at most.
LEMMA CountMoves ==
    ASSUME NEW S, IsFiniteSet(S), NEW x, NEW T,
           T \in {S, S \cup {x}, S \ {x}}
    PROVE  /\ IsFiniteSet(T) /\ Cardinality(S) \in Nat /\ Cardinality(T) \in Nat
           /\ Cardinality(T) = Cardinality(S) + One(x \in T) - One(x \in S)
<1>1. CASE T = S
  BY <1>1, FS_CardinalityType DEF One
<1>2. CASE T = S \cup {x}
  BY <1>2, FS_AddElement, FS_CardinalityType DEF One
<1>3. CASE T = S \ {x}
  <2>1. /\ IsFiniteSet(T) /\ Cardinality(S) \in Nat /\ Cardinality(T) \in Nat
        /\ Cardinality(T) = IF x \in S THEN Cardinality(S) - 1 ELSE Cardinality(S)
    BY <1>3, FS_RemoveElement, FS_CardinalityType
  <2>2. x \notin T
    BY <1>3
  <2> QED  BY <2>1, <2>2 DEF One
<1> QED  BY <1>1, <1>2, <1>3

LEMMA CountsAreNumbers ==
    /\ IsFiniteSet(Working) /\ Cardinality(Working) \in Nat
    /\ IsFiniteSet(Leaving) /\ Cardinality(Leaving) \in Nat
    /\ IsFiniteSet(Restarting) /\ Cardinality(Restarting) \in Nat
    /\ IsFiniteSet(Starting) /\ Cardinality(Starting) \in Nat
<1>1. /\ Working \subseteq Goroutines /\ Leaving \subseteq Goroutines
      /\ Restarting \subseteq Goroutines /\ Starting \subseteq Submitters
  BY DEF Working, Leaving, Restarting, Starting
<1> QED  BY <1>1, PoolAssumption, FS_Subset, FS_CardinalityType

\* The step of one worker.
LEMMA WorkerMoves ==
    ASSUME TypeOK, NEW w \in Goroutines, NEW from, NEW to \in WorkerPlaces, WorkerAt(w, from, to)
    PROVE  /\ wpc' \in [Goroutines -> WorkerPlaces]
           /\ wpc[w] = from /\ wpc'[w] = to
           /\ \A v \in Goroutines : v # w => wpc'[v] = wpc[v]
           /\ Cardinality(Working') = Cardinality(Working) + One(to \in AtWork) - One(from \in AtWork)
           /\ Cardinality(Leaving') = Cardinality(Leaving) + One(to \in {"left", "fallen"})
                                         - One(from \in {"left", "fallen"})
           /\ Cardinality(Restarting') = Cardinality(Restarting) + One(to = "restart")
                                            - One(from = "restart")
<1>1. /\ wpc' \in [Goroutines -> WorkerPlaces]
      /\ wpc[w] = from /\ wpc'[w] = to
      /\ \A v \in Goroutines : v # w => wpc'[v] = wpc[v]
  BY DEF TypeOK, WorkerAt
<1>2. /\ Working' \in {Working, Working \cup {w}, Working \ {w}}
      /\ w \in Working' <=> to \in AtWork
      /\ w \in Working <=> from \in AtWork
  BY <1>1 DEF Working
<1>3. /\ Leaving' \in {Leaving, Leaving \cup {w}, Leaving \ {w}}
      /\ w \in Leaving' <=> to \in {"left", "fallen"}
      /\ w \in Leaving <=> from \in {"left", "fallen"}
  BY <1>1 DEF Leaving
<1>4. /\ Restarting' \in {Restarting, Restarting \cup {w}, Restarting \ {w}}
      /\ w \in Restarting' <=> to = "restart"
      /\ w \in Restarting <=> from = "restart"
  BY <1>1 DEF Restarting
<1>5. Cardinality(Working') = Cardinality(Working) + One(to \in AtWork) - One(from \in AtWork)
  BY <1>2, CountMoves, CountsAreNumbers DEF One
<1>6. Cardinality(Leaving') = Cardinality(Leaving) + One(to \in {"left", "fallen"})
                                 - One(from \in {"left", "fallen"})
  BY <1>3, CountMoves, CountsAreNumbers DEF One
<1>7. Cardinality(Restarting') = Cardinality(Restarting) + One(to = "restart")
                                    - One(from = "restart")
  BY <1>4, CountMoves, CountsAreNumbers DEF One
<1> QED  BY <1>1, <1>5, <1>6, <1>7

\* The step of one caller of Submit.
LEMMA SubmitMoves ==
    ASSUME TypeOK, NEW s \in Submitters, NEW from, NEW to \in SubmitPlaces, SubmitAt(s, from, to)
    PROVE  /\ spc' \in [Submitters -> SubmitPlaces]
           /\ Cardinality(Starting') = Cardinality(Starting) + One(to = "start") - One(from = "start")
<1>1. /\ spc' \in [Submitters -> SubmitPlaces]
      /\ spc[s] = from /\ spc'[s] = to
      /\ \A v \in Submitters : v # s => spc'[v] = spc[v]
  BY DEF TypeOK, SubmitAt
<1>2. /\ Starting' \in {Starting, Starting \cup {s}, Starting \ {s}}
      /\ s \in Starting' <=> to = "start"
      /\ s \in Starting <=> from = "start"
  BY <1>1 DEF Starting
<1>3. Cardinality(Starting') = Cardinality(Starting) + One(to = "start") - One(from = "start")
  BY <1>2, CountMoves, CountsAreNumbers DEF One
<1> QED  BY <1>1, <1>3

\* Workers that did not move are counted as before, and so are callers.
LEMMA WorkersStay ==
    ASSUME UNCHANGED wpc
    PROVE  Working' = Working /\ Leaving' = Leaving /\ Restarting' = Restarting
BY DEF Working, Leaving, Restarting

LEMMA CallersStay ==
    ASSUME UNCHANGED spc
    PROVE  Starting' = Starting
BY DEF Starting

\* What is counted is a number, so the two counts are.
LEMMA CountsAreNumbersNext ==
    ASSUME CountsMatch'
    PROVE  active' \in Nat /\ wg' \in Nat
<1>1. /\ Working' \subseteq Goroutines /\ Leaving' \subseteq Goroutines
      /\ Restarting' \subseteq Goroutines /\ Starting' \subseteq Submitters
  BY DEF Working, Leaving, Restarting, Starting
<1>2. /\ Cardinality(Working') \in Nat /\ Cardinality(Leaving') \in Nat
      /\ Cardinality(Restarting') \in Nat /\ Cardinality(Starting') \in Nat
  BY <1>1, PoolAssumption, FS_Subset, FS_CardinalityType
<1> QED  BY <1>2 DEF CountsMatch

-----------------------------------------------------------------------------
(* The queue *)

QueueTypeOK ==
    /\ queue \in Seq(Tasks \cup {StopWorker}) /\ calling \subseteq Goroutines
    /\ sawEmpty \subseteq Goroutines
    /\ got \in [Goroutines -> Tasks \cup {Nil, StopWorker}]

\* Every operation of the queue, and every step that is none, keeps its types.
LEMMA QueueKeepsTypes ==
    ASSUME TypeOK, Q!Watch,
           \/ UNCHANGED tasks
           \/ \E t \in Tasks \cup {StopWorker} : Q!Enqueue(t)
           \/ \E w \in Goroutines : Q!Call(w) \/ Q!Dequeue(w) \/ Q!AnswerNil(w)
    PROVE  QueueTypeOK'
<1>1. sawEmpty' \subseteq calling'
  BY DEF Q!Watch
<1>2. CASE UNCHANGED tasks
  BY <1>1, <1>2 DEF TypeOK, QueueTypeOK, tasks
<1>3. CASE \E t \in Tasks \cup {StopWorker} : Q!Enqueue(t)
  <2>1. PICK t \in Tasks \cup {StopWorker} : Q!Enqueue(t)
    BY <1>3
  <2>2. Append(queue, t) \in Seq(Tasks \cup {StopWorker})
    BY AppendProperties DEF TypeOK
  <2> QED  BY <1>1, <2>1, <2>2 DEF TypeOK, QueueTypeOK, Q!Enqueue
<1>4. CASE \E w \in Goroutines : Q!Call(w) \/ Q!Dequeue(w) \/ Q!AnswerNil(w)
  <2>1. PICK w \in Goroutines : Q!Call(w) \/ Q!Dequeue(w) \/ Q!AnswerNil(w)
    BY <1>4
  <2>2. CASE Q!Call(w)
    BY <1>1, <2>2 DEF TypeOK, QueueTypeOK, Q!Call
  <2>3. CASE Q!Dequeue(w)
    <3>1. /\ Tail(queue) \in Seq(Tasks \cup {StopWorker})
          /\ Head(queue) \in Tasks \cup {StopWorker}
      BY <2>3, HeadTailProperties DEF TypeOK, Q!Dequeue
    <3> QED  BY <1>1, <2>3, <3>1 DEF TypeOK, QueueTypeOK, Q!Dequeue
  <2>4. CASE Q!AnswerNil(w)
    BY <1>1, <2>4 DEF TypeOK, QueueTypeOK, Q!AnswerNil
  <2> QED  BY <2>1, <2>2, <2>3, <2>4
<1> QED  BY <1>2, <1>3, <1>4

-----------------------------------------------------------------------------
(* The parts of the invariant *)

PlacesOK ==
    /\ size \in Int /\ stopped \in BOOLEAN
    /\ spc \in [Submitters -> SubmitPlaces] /\ wpc \in [Goroutines -> WorkerPlaces]
    /\ dpc \in DispatcherPlaces /\ dsize \in Int /\ dactive \in Nat
    /\ stop \in {"none", "waiting", "graceful", "timeout"}
    /\ made \in 0..MaxTasks /\ retirements \in 0..MaxRetirements /\ panics \in 0..MaxPanics
    /\ ran \subseteq Tasks

GuardsHold ==
    /\ StopIsQuiet
    /\ stop # "none" => stopped
    /\ dpc = "cas" => dactive < MaxWorkers
    /\ dpc = "retire" => retirements < MaxRetirements
    /\ \A w \in Goroutines : wpc[w] = "took" => got[w] # Nil
    /\ panics = 0 =>
          \A w \in Goroutines : wpc[w] \notin {"fell", "fallen", "load", "add", "restart"}

\* The types of the counts follow from what they count.
LEMMA PartsSuffice ==
    ASSUME QueueTypeOK', PlacesOK', CountsMatch', WithinLimit', GuardsHold'
    PROVE  IInv'
<1>1. active' \in Nat /\ wg' \in Nat
  BY CountsAreNumbersNext
<1>2. TypeOK'
  BY <1>1 DEF QueueTypeOK, PlacesOK, TypeOK
<1> QED  BY <1>2 DEF IInv, GuardsHold

\* A step of one worker that goes to no place of those Stop and the panics speak of,
\* but from one.
LEMMA WorkerGuards ==
    ASSUME IInv, NEW w \in Goroutines, NEW from, NEW to \in WorkerPlaces, WorkerAt(w, from, to),
           UNCHANGED stopping, dpc' = "cas" => dactive' < MaxWorkers,
           dpc' = "retire" => retirements' < MaxRetirements,
           to = "took" => got'[w] # Nil, \A v \in Goroutines : v # w => got'[v] = got[v],
           to \in {"dequeue", "took", "run"} => from \in {"dequeue", "took", "run"} \/ ~stopped,
           to \in {"fell", "fallen", "load", "add", "restart"} =>
               from \in {"fell", "fallen", "load", "add", "restart"} \/ panics' # 0,
           panics' = panics \/ panics' # 0
    PROVE  GuardsHold'
<1>1. /\ wpc[w] = from /\ wpc'[w] = to
      /\ \A v \in Goroutines : v # w => wpc'[v] = wpc[v]
  BY WorkerMoves DEF IInv
<1>2. StopIsQuiet'
  BY <1>1 DEF IInv, StopIsQuiet, stopping
<1>3. (panics = 0 =>
          \A v \in Goroutines : wpc[v] \notin {"fell", "fallen", "load", "add", "restart"})'
  BY <1>1 DEF IInv
<1>4. (\A v \in Goroutines : wpc[v] = "took" => got[v] # Nil)'
  BY <1>1 DEF IInv
<1> QED  BY <1>2, <1>3, <1>4 DEF IInv, GuardsHold, stopping

\* Where the workers stay, so do the promises about them.
LEMMA OtherGuards ==
    ASSUME IInv, UNCHANGED <<wpc, got, stopping, panics>>,
           dpc' = "cas" => dactive' < MaxWorkers,
           dpc' = "retire" => retirements' < MaxRetirements
    PROVE  GuardsHold'
BY DEF IInv, GuardsHold, StopIsQuiet, stopping

-----------------------------------------------------------------------------
(* The steps of a worker *)

LEMMA WorkerPreserves ==
    ASSUME IInv, Q!Watch, NEW w \in Goroutines, WorkerStep(w)
    PROVE  IInv'
<1> USE DEF IInv
<1>1. CASE WorkerLoop(w)
  <2>1. PICK to \in {"leave", "dequeue"} :
            WorkerAt(w, "loop", to) /\ (to = "dequeue" => ~stopped)
    BY <1>1 DEF WorkerLoop, SeesStop
  <2>2. to \in WorkerPlaces
    BY <2>1 DEF WorkerPlaces
  <2>3. QueueTypeOK'
    BY <1>1, QueueKeepsTypes DEF WorkerLoop
  <2>4. PlacesOK'
    BY <1>1, <2>1, <2>2, WorkerMoves DEF WorkerLoop, TypeOK, PlacesOK, dispatcher, stopping, history
  <2>5. CountsMatch' /\ WithinLimit'
    BY <1>1, <2>1, <2>2, WorkerMoves, CallersStay, CountsAreNumbers
       DEF WorkerLoop, dispatcher, history, CountsMatch, WithinLimit, One, AtWork
  <2>6. GuardsHold'
    BY <1>1, <2>1, <2>2, WorkerGuards DEF WorkerLoop, tasks, dispatcher, history, Q!Call
  <2> QED  BY <2>3, <2>4, <2>5, <2>6, PartsSuffice
<1>2. CASE WorkerDequeue(w)
  <2>1. PICK to \in {"leave", "took"} : WorkerAt(w, "dequeue", to)
    BY <1>2 DEF WorkerDequeue
  <2>2. to \in WorkerPlaces
    BY <2>1 DEF WorkerPlaces
  <2>3. QueueTypeOK'
    BY <1>2, QueueKeepsTypes DEF WorkerDequeue
  <2>4. PlacesOK'
    BY <1>2, <2>1, <2>2, WorkerMoves DEF WorkerDequeue, TypeOK, PlacesOK, dispatcher, stopping, history
  <2>5. CountsMatch' /\ WithinLimit'
    BY <1>2, <2>1, <2>2, WorkerMoves, CallersStay, CountsAreNumbers
       DEF WorkerDequeue, dispatcher, history, CountsMatch, WithinLimit, One, AtWork
  <2>6. /\ \A v \in Goroutines : v # w => got'[v] = got[v]
        /\ to = "took" => got'[w] # Nil
    <3>1. CASE Q!Dequeue(w)
      <4>1. Head(queue) \in Tasks \cup {StopWorker}
        BY <3>1, HeadTailProperties DEF TypeOK, Q!Dequeue
      <4>2. Head(queue) # Nil
        BY <4>1, PoolAssumption DEF Tasks, StopWorker, Nil
      <4> QED  BY <3>1, <4>2 DEF TypeOK, Q!Dequeue
    <3>2. CASE Q!AnswerNil(w) /\ WorkerAt(w, "dequeue", "leave")
      <4>1. to = "leave"
        BY <2>1, <2>2, <3>2, WorkerMoves DEF WorkerPlaces
      <4> QED  BY <3>2, <4>1 DEF TypeOK, Q!AnswerNil
    <3> QED  BY <1>2, <3>1, <3>2 DEF WorkerDequeue
  <2>7. GuardsHold'
    BY <1>2, <2>1, <2>2, <2>6, WorkerGuards DEF WorkerDequeue, dispatcher, history
  <2> QED  BY <2>3, <2>4, <2>5, <2>7, PartsSuffice
<1>3. CASE WorkerTook(w)
  <2>1. PICK to \in {"leave", "run"} : WorkerAt(w, "took", to)
    BY <1>3 DEF WorkerTook
  <2>2. to \in WorkerPlaces
    BY <2>1 DEF WorkerPlaces
  <2>3. QueueTypeOK'
    BY <1>3, QueueKeepsTypes DEF WorkerTook
  <2>4. ran' \subseteq Tasks
    <3>1. wpc[w] = "took" /\ got[w] \in Tasks \cup {Nil, StopWorker} /\ got[w] # Nil
      BY <2>1 DEF WorkerAt, TypeOK
    <3> QED  BY <1>3, <3>1 DEF WorkerTook, TypeOK
  <2>5. PlacesOK'
    BY <1>3, <2>1, <2>2, <2>4, WorkerMoves DEF WorkerTook, TypeOK, PlacesOK, dispatcher, stopping
  <2>6. CountsMatch' /\ WithinLimit'
    BY <1>3, <2>1, <2>2, WorkerMoves, CallersStay, CountsAreNumbers
       DEF WorkerTook, dispatcher, CountsMatch, WithinLimit, One, AtWork
  <2>7. GuardsHold'
    BY <1>3, <2>1, <2>2, WorkerGuards DEF WorkerTook, tasks, dispatcher
  <2> QED  BY <2>3, <2>5, <2>6, <2>7, PartsSuffice
<1>4. CASE WorkerRun(w)
  <2>1. PICK to \in {"loop", "fell"} :
            /\ WorkerAt(w, "run", to)
            /\ panics' \in 0..MaxPanics /\ (panics' = panics \/ panics' # 0)
            /\ to = "fell" => panics' # 0
    BY <1>4, PoolAssumption DEF WorkerRun, TypeOK
  <2>2. to \in WorkerPlaces
    BY <2>1 DEF WorkerPlaces
  <2>3. QueueTypeOK'
    BY <1>4, QueueKeepsTypes DEF WorkerRun
  <2>4. PlacesOK'
    BY <1>4, <2>1, <2>2, WorkerMoves DEF WorkerRun, TypeOK, PlacesOK, dispatcher, stopping
  <2>5. /\ Cardinality(Working') = Cardinality(Working)
        /\ Cardinality(Leaving') = Cardinality(Leaving)
        /\ Cardinality(Restarting') = Cardinality(Restarting) /\ Starting' = Starting
        /\ \A c \in {Cardinality(Working), Cardinality(Leaving), Cardinality(Restarting),
                     Cardinality(Starting)} : c \in Nat
    BY <1>4, <2>1, <2>2, WorkerMoves, CallersStay, CountsAreNumbers DEF WorkerRun, One, AtWork
  <2>6. CountsMatch'
    BY <1>4, <2>1, <2>5 DEF WorkerRun, dispatcher, CountsMatch
  <2>7. WithinLimit'
    BY <1>4, <2>1, PoolAssumption DEF WorkerRun, WithinLimit, TypeOK
  <2>8. GuardsHold'
    BY <1>4, <2>1, <2>2, WorkerGuards DEF WorkerRun, tasks, dispatcher
  <2> QED  BY <2>3, <2>4, <2>6, <2>7, <2>8, PartsSuffice
<1>5. CASE WorkerLeave(w)
  <2>1. PICK from \in {"leave", "fell"}, to \in {"left", "fallen"} :
            WorkerAt(w, from, to) /\ (to = "fallen" => from = "fell")
    BY <1>5 DEF WorkerLeave
  <2>2. to \in WorkerPlaces
    BY <2>1 DEF WorkerPlaces
  <2>3. QueueTypeOK'
    BY <1>5, QueueKeepsTypes DEF WorkerLeave
  <2>4. PlacesOK'
    BY <1>5, <2>1, <2>2, WorkerMoves DEF WorkerLeave, TypeOK, PlacesOK, dispatcher, stopping, history
  <2>5. /\ Cardinality(Working') = Cardinality(Working) - 1
        /\ Cardinality(Leaving') = Cardinality(Leaving) + 1
        /\ Cardinality(Restarting') = Cardinality(Restarting) /\ Starting' = Starting
        /\ \A c \in {Cardinality(Working), Cardinality(Leaving), Cardinality(Restarting),
                     Cardinality(Starting)} : c \in Nat
    BY <1>5, <2>1, <2>2, WorkerMoves, CallersStay, CountsAreNumbers DEF WorkerLeave, One, AtWork
  <2>6. CountsMatch'
    BY <1>5, <2>1, <2>5 DEF WorkerLeave, dispatcher, CountsMatch
  <2>7. WithinLimit'
    BY <1>5, <2>1, PoolAssumption DEF WorkerLeave, WithinLimit, TypeOK, history
  <2>8. GuardsHold'
    BY <1>5, <2>1, <2>2, WorkerGuards DEF WorkerLeave, tasks, dispatcher, history
  <2> QED  BY <2>3, <2>4, <2>6, <2>7, <2>8, PartsSuffice
<1>6. CASE WorkerDone(w)
  <2>1. PICK from \in {"left", "fallen"}, to \in {"none", "load"} :
            /\ WorkerAt(w, from, to) /\ (to = "load" => from = "fallen")
            /\ wg' = wg - 1
    BY <1>6 DEF WorkerDone, Left
  <2>2. to \in WorkerPlaces
    BY <2>1 DEF WorkerPlaces
  <2>3. QueueTypeOK'
    BY <1>6, QueueKeepsTypes DEF WorkerDone
  <2>4. PlacesOK'
    BY <1>6, <2>1, <2>2, WorkerMoves DEF WorkerDone, TypeOK, PlacesOK, dispatcher, stopping, history
  <2>5. /\ Cardinality(Working') = Cardinality(Working)
        /\ Cardinality(Leaving') = Cardinality(Leaving) - 1
        /\ Cardinality(Restarting') = Cardinality(Restarting) /\ Starting' = Starting
        /\ \A c \in {Cardinality(Working), Cardinality(Leaving), Cardinality(Restarting),
                     Cardinality(Starting)} : c \in Nat
    BY <1>6, <2>1, <2>2, WorkerMoves, CallersStay, CountsAreNumbers DEF WorkerDone, One, AtWork
  <2>6. CountsMatch'
    BY <1>6, <2>1, <2>5 DEF WorkerDone, dispatcher, CountsMatch
  <2>7. WithinLimit'
    BY <1>6, <2>1, PoolAssumption DEF WorkerDone, WithinLimit, TypeOK, history
  <2>8. GuardsHold'
    BY <1>6, <2>1, <2>2, WorkerGuards DEF WorkerDone, tasks, dispatcher, history
  <2> QED  BY <2>3, <2>4, <2>6, <2>7, <2>8, PartsSuffice
<1>7. CASE WorkerLoad(w)
  <2>1. PICK to \in {"add", "none"} : WorkerAt(w, "load", to)
    BY <1>7 DEF WorkerLoad
  <2>2. to \in WorkerPlaces
    BY <2>1 DEF WorkerPlaces
  <2>3. QueueTypeOK'
    BY <1>7, QueueKeepsTypes DEF WorkerLoad
  <2>4. PlacesOK'
    BY <1>7, <2>1, <2>2, WorkerMoves DEF WorkerLoad, TypeOK, PlacesOK, dispatcher, stopping, history
  <2>5. CountsMatch' /\ WithinLimit'
    BY <1>7, <2>1, <2>2, WorkerMoves, CallersStay, CountsAreNumbers
       DEF WorkerLoad, dispatcher, history, CountsMatch, WithinLimit, One, AtWork
  <2>6. GuardsHold'
    BY <1>7, <2>1, <2>2, WorkerGuards DEF WorkerLoad, tasks, dispatcher, history
  <2> QED  BY <2>3, <2>4, <2>5, <2>6, PartsSuffice
<1>8. CASE WorkerAdd(w)
  <2>1. WorkerAt(w, "add", "restart") /\ "restart" \in WorkerPlaces
    BY <1>8 DEF WorkerAdd, WorkerPlaces
  <2>2. panics # 0
    BY <2>1 DEF WorkerAt
  <2>3. QueueTypeOK'
    BY <1>8, QueueKeepsTypes DEF WorkerAdd
  <2>4. PlacesOK'
    BY <1>8, <2>1, WorkerMoves DEF WorkerAdd, TypeOK, PlacesOK, dispatcher, stopping, history
  <2>5. CountsMatch' /\ WithinLimit'
    BY <1>8, <2>1, <2>2, WorkerMoves, CallersStay, CountsAreNumbers
       DEF WorkerAdd, Reactivated, dispatcher, history, CountsMatch, WithinLimit, One, AtWork
  <2>6. GuardsHold'
    BY <1>8, <2>1, WorkerGuards DEF WorkerAdd, tasks, dispatcher, history
  <2> QED  BY <2>3, <2>4, <2>5, <2>6, PartsSuffice
<1>9. CASE WorkerRestart(w)
  <2>1. WorkerAt(w, "restart", "loop") /\ "loop" \in WorkerPlaces
    BY <1>9 DEF WorkerRestart, WorkerPlaces
  <2>2. QueueTypeOK'
    BY <1>9, QueueKeepsTypes DEF WorkerRestart
  <2>3. PlacesOK'
    BY <1>9, <2>1, WorkerMoves DEF WorkerRestart, TypeOK, PlacesOK, dispatcher, stopping, history
  <2>4. CountsMatch' /\ WithinLimit'
    BY <1>9, <2>1, WorkerMoves, CallersStay, CountsAreNumbers
       DEF WorkerRestart, Replaced, dispatcher, history, CountsMatch, WithinLimit, One, AtWork
  <2>5. GuardsHold'
    BY <1>9, <2>1, WorkerGuards DEF WorkerRestart, tasks, dispatcher, history
  <2> QED  BY <2>2, <2>3, <2>4, <2>5, PartsSuffice
<1> QED  BY <1>1, <1>2, <1>3, <1>4, <1>5, <1>6, <1>7, <1>8, <1>9 DEF WorkerStep

-----------------------------------------------------------------------------
(* The steps of Submit *)

LEMMA SubmitPreserves ==
    ASSUME IInv, Q!Watch, NEW s \in Submitters, SubmitEnqueue(s) \/ SubmitStep(s)
    PROVE  IInv'
<1> USE DEF IInv
<1>1. CASE SubmitEnqueue(s)
  <2>1. SubmitAt(s, "idle", "count") /\ "count" \in SubmitPlaces
    BY <1>1 DEF SubmitEnqueue, SubmitPlaces
  <2>2. made + 1 \in Tasks /\ made' \in 0..MaxTasks
    BY <1>1, PoolAssumption DEF SubmitEnqueue, TypeOK, Tasks
  <2>3. QueueTypeOK'
    BY <1>1, <2>2, QueueKeepsTypes DEF SubmitEnqueue
  <2>4. PlacesOK'
    BY <1>1, <2>1, <2>2, SubmitMoves DEF SubmitEnqueue, TypeOK, PlacesOK, dispatcher, stopping
  <2>5. CountsMatch' /\ WithinLimit'
    BY <1>1, <2>1, SubmitMoves, WorkersStay, CountsAreNumbers
       DEF SubmitEnqueue, dispatcher, CountsMatch, WithinLimit, One
  <2>6. GuardsHold'
    BY <1>1, OtherGuards DEF SubmitEnqueue, dispatcher, Q!Enqueue
  <2> QED  BY <2>3, <2>4, <2>5, <2>6, PartsSuffice
<1>2. CASE SubmitCount(s)
  <2>1. SubmitAt(s, "count", "load") /\ "load" \in SubmitPlaces
    BY <1>2 DEF SubmitCount, SubmitPlaces
  <2>2. QueueTypeOK'
    BY <1>2, QueueKeepsTypes DEF SubmitCount
  <2>3. PlacesOK'
    BY <1>2, <2>1, SubmitMoves DEF SubmitCount, TypeOK, PlacesOK, dispatcher, stopping, history
  <2>4. CountsMatch' /\ WithinLimit'
    BY <1>2, <2>1, SubmitMoves, WorkersStay, CountsAreNumbers
       DEF SubmitCount, dispatcher, history, CountsMatch, WithinLimit, One
  <2>5. GuardsHold'
    BY <1>2, OtherGuards DEF SubmitCount, dispatcher, history, tasks
  <2> QED  BY <2>2, <2>3, <2>4, <2>5, PartsSuffice
<1>3. CASE SubmitLoad(s)
  <2>1. PICK to \in {"cas", "idle"} : SubmitAt(s, "load", to)
    BY <1>3 DEF SubmitLoad
  <2>2. to \in SubmitPlaces
    BY <2>1 DEF SubmitPlaces
  <2>3. QueueTypeOK'
    BY <1>3, QueueKeepsTypes DEF SubmitLoad
  <2>4. PlacesOK'
    BY <1>3, <2>1, <2>2, SubmitMoves DEF SubmitLoad, TypeOK, PlacesOK, dispatcher, stopping, history
  <2>5. CountsMatch' /\ WithinLimit'
    <3>1. /\ active' = active /\ wg' = wg /\ wpc' = wpc /\ dpc' = dpc /\ panics' = panics
      BY <1>3 DEF SubmitLoad, dispatcher, history
    <3>2. One(to = "start") = 0 /\ One("load" = "start") = 0
      BY <2>1 DEF One
    <3>3. Cardinality(Starting') = Cardinality(Starting)
      BY <2>1, <2>2, <3>2, SubmitMoves, CountsAreNumbers
    <3>4. Working' = Working /\ Leaving' = Leaving /\ Restarting' = Restarting
      BY <3>1, WorkersStay
    <3>5. CountsMatch /\ WithinLimit
      OBVIOUS
    <3> QED  BY <3>1, <3>3, <3>4, <3>5 DEF CountsMatch, WithinLimit
  <2>6. GuardsHold'
    BY <1>3, OtherGuards DEF SubmitLoad, dispatcher, history, tasks
  <2> QED  BY <2>3, <2>4, <2>5, <2>6, PartsSuffice
<1>4. CASE SubmitCAS(s)
  <2>1. PICK to \in {"start", "idle"} :
            /\ SubmitAt(s, "cas", to)
            /\ active' = active + One(to = "start")
            /\ to = "start" => active = 0
    BY <1>4 DEF SubmitCAS, FirstWorker, TypeOK, One
  <2>2. to \in SubmitPlaces
    BY <2>1 DEF SubmitPlaces
  <2>3. QueueTypeOK'
    BY <1>4, QueueKeepsTypes DEF SubmitCAS
  <2>4. PlacesOK'
    BY <1>4, <2>1, <2>2, SubmitMoves DEF SubmitCAS, TypeOK, PlacesOK, dispatcher, stopping, history
  <2>5. CountsMatch'
    BY <1>4, <2>1, <2>2, SubmitMoves, WorkersStay, CountsAreNumbers
       DEF SubmitCAS, dispatcher, history, CountsMatch, One
  <2>6. WithinLimit'
    BY <1>4, <2>1, PoolAssumption DEF SubmitCAS, history, WithinLimit, TypeOK, One
  <2>7. GuardsHold'
    BY <1>4, OtherGuards DEF SubmitCAS, dispatcher, history, tasks
  <2> QED  BY <2>3, <2>4, <2>5, <2>6, <2>7, PartsSuffice
<1>5. CASE SubmitStart(s)
  <2>1. SubmitAt(s, "start", "idle") /\ "idle" \in SubmitPlaces
    BY <1>5 DEF SubmitStart, SubmitPlaces
  <2>2. PICK w \in Goroutines : WorkerAt(w, "none", "loop")
    BY <1>5 DEF SubmitStart, Start
  <2>3. "loop" \in WorkerPlaces
    BY DEF WorkerPlaces
  <2>4. QueueTypeOK'
    BY <1>5, QueueKeepsTypes DEF SubmitStart
  <2>5. PlacesOK'
    BY <1>5, <2>1, <2>2, <2>3, SubmitMoves, WorkerMoves
       DEF SubmitStart, TypeOK, PlacesOK, dispatcher, stopping, history
  <2>6. /\ Cardinality(Working') = Cardinality(Working) + 1
        /\ Cardinality(Leaving') = Cardinality(Leaving)
        /\ Cardinality(Restarting') = Cardinality(Restarting)
    BY <2>2, <2>3, WorkerMoves, CountsAreNumbers DEF One, AtWork
  <2>7. Cardinality(Starting') = Cardinality(Starting) - 1
    BY <2>1, SubmitMoves, CountsAreNumbers DEF One
  <2>8. CountsMatch' /\ WithinLimit'
    BY <1>5, <2>6, <2>7, CountsAreNumbers
       DEF SubmitStart, Start, dispatcher, history, CountsMatch, WithinLimit
  <2>9. GuardsHold'
    BY <1>5, <2>2, <2>3, WorkerGuards DEF SubmitStart, dispatcher, history, tasks
  <2> QED  BY <2>4, <2>5, <2>8, <2>9, PartsSuffice
<1> QED  BY <1>1, <1>2, <1>3, <1>4, <1>5 DEF SubmitStep

-----------------------------------------------------------------------------
(* The steps of the dispatcher and of Stop *)

LEMMA DispatcherPreserves ==
    ASSUME IInv, Q!Watch, DispatcherStep
    PROVE  IInv'
<1> USE DEF IInv
<1> USE DEF DispatcherPlaces
<1>1. CASE Tick \/ SeeStop
  <2>1. QueueTypeOK'
    BY <1>1, QueueKeepsTypes DEF Tick, SeeStop
  <2>2. PlacesOK'
    BY <1>1 DEF Tick, SeeStop, TypeOK, PlacesOK, stopping, history
  <2>3. CountsMatch' /\ WithinLimit'
    BY <1>1, WorkersStay, CallersStay DEF Tick, SeeStop, history, CountsMatch, WithinLimit
  <2>4. GuardsHold'
    BY <1>1, OtherGuards DEF Tick, SeeStop, history, tasks
  <2> QED  BY <2>1, <2>2, <2>3, <2>4, PartsSuffice
<1>2. CASE Adjust
  <2>1. QueueTypeOK'
    BY <1>2, QueueKeepsTypes DEF Adjust
  <2>2. PlacesOK'
    BY <1>2 DEF Adjust, Await, TypeOK, PlacesOK, stopping, history
  <2>3. CountsMatch' /\ WithinLimit'
    BY <1>2, WorkersStay, CallersStay DEF Adjust, Await, history, CountsMatch, WithinLimit
  <2>4. GuardsHold'
    BY <1>2, OtherGuards DEF Adjust, NeedsWorker, Await, history, tasks
  <2> QED  BY <2>1, <2>2, <2>3, <2>4, PartsSuffice
<1>3. CASE AddWorker
  <2>1. QueueTypeOK'
    BY <1>3, QueueKeepsTypes DEF AddWorker
  <2>2. PlacesOK'
    BY <1>3 DEF AddWorker, Await, TypeOK, PlacesOK, stopping, history
  <2>3. CountsMatch'
    <3>1. wg' = wg /\ wpc' = wpc /\ spc' = spc /\ dpc = "cas" /\ active \in Nat
      BY <1>3 DEF AddWorker, TypeOK
    <3>2. \/ active' = active + 1 /\ dpc' = "start"
          \/ active' = active /\ dpc' = "wait"
      BY <1>3 DEF AddWorker, Await
    <3>3. /\ Working' = Working /\ Leaving' = Leaving /\ Restarting' = Restarting
          /\ Starting' = Starting
      BY <3>1, WorkersStay, CallersStay
    <3>4. CountsMatch
      OBVIOUS
    <3> HIDE DEF IInv
    <3> QED  BY <3>1, <3>2, <3>3, <3>4, CountsAreNumbers DEF CountsMatch
  <2>4. WithinLimit'
    BY <1>3, PoolAssumption DEF AddWorker, history, WithinLimit, TypeOK
  <2>5. GuardsHold'
    BY <1>3, OtherGuards DEF AddWorker, Await, history, tasks
  <2> QED  BY <2>1, <2>2, <2>3, <2>4, <2>5, PartsSuffice
<1>4. CASE StartAdded
  <2>1. PICK w \in Goroutines : WorkerAt(w, "none", "loop")
    BY <1>4 DEF StartAdded, Start
  <2>2. "loop" \in WorkerPlaces
    BY DEF WorkerPlaces
  <2>3. QueueTypeOK'
    BY <1>4, QueueKeepsTypes DEF StartAdded
  <2>4. PlacesOK'
    BY <1>4, <2>1, <2>2, WorkerMoves
       DEF StartAdded, Await, TypeOK, PlacesOK, stopping, history
  <2>5. /\ Cardinality(Working') = Cardinality(Working) + 1
        /\ Cardinality(Leaving') = Cardinality(Leaving)
        /\ Cardinality(Restarting') = Cardinality(Restarting)
    BY <2>1, <2>2, WorkerMoves, CountsAreNumbers DEF One, AtWork
  <2>6. CountsMatch' /\ WithinLimit'
    BY <1>4, <2>5, CallersStay, CountsAreNumbers
       DEF StartAdded, Start, Await, history, CountsMatch, WithinLimit
  <2>7. GuardsHold'
    BY <1>4, <2>1, <2>2, WorkerGuards DEF StartAdded, Await, history, tasks
  <2> QED  BY <2>3, <2>4, <2>6, <2>7, PartsSuffice
<1>5. CASE Retire
  <2>1. retirements' \in 0..MaxRetirements
    BY <1>5, PoolAssumption DEF Retire, TypeOK
  <2>2. QueueTypeOK'
    BY <1>5, QueueKeepsTypes DEF Retire
  <2>3. PlacesOK'
    BY <1>5, <2>1 DEF Retire, TypeOK, PlacesOK, stopping
  <2>4. CountsMatch' /\ WithinLimit'
    BY <1>5, WorkersStay, CallersStay DEF Retire, CountsMatch, WithinLimit
  <2>5. GuardsHold'
    BY <1>5, OtherGuards DEF Retire, Q!Enqueue
  <2> QED  BY <2>2, <2>3, <2>4, <2>5, PartsSuffice
<1>6. CASE RetireCount
  <2>1. QueueTypeOK'
    BY <1>6, QueueKeepsTypes DEF RetireCount
  <2>2. PlacesOK'
    BY <1>6 DEF RetireCount, Await, TypeOK, PlacesOK, stopping, history
  <2>3. CountsMatch' /\ WithinLimit'
    BY <1>6, WorkersStay, CallersStay DEF RetireCount, Await, history, CountsMatch, WithinLimit
  <2>4. GuardsHold'
    BY <1>6, OtherGuards DEF RetireCount, Await, history, tasks
  <2> QED  BY <2>1, <2>2, <2>3, <2>4, PartsSuffice
<1> QED  BY <1>1, <1>2, <1>3, <1>4, <1>5, <1>6 DEF DispatcherStep

\* Stop answers that the pool stopped when nobody is working.
LEMMA StopPreserves ==
    ASSUME IInv, Q!Watch, StopCall \/ StopDone \/ StopTimeout
    PROVE  IInv'
<1> USE DEF IInv
<1>1. QueueTypeOK'
  BY QueueKeepsTypes DEF StopCall, StopDone, StopTimeout
<1>2. PlacesOK'
  BY DEF StopCall, StopDone, StopTimeout, TypeOK, PlacesOK, dispatcher, history
<1>3. CountsMatch' /\ WithinLimit'
  BY WorkersStay, CallersStay
     DEF StopCall, StopDone, StopTimeout, dispatcher, history, CountsMatch, WithinLimit
<1>4. StopDone => Working = {}
  <2> SUFFICES ASSUME StopDone PROVE Working = {}
    OBVIOUS
  <2>1. Cardinality(Working) = 0
    BY CountsAreNumbers DEF StopDone, CountsMatch
  <2> QED  BY <2>1, CountsAreNumbers, FS_EmptySet
<1>5. StopIsQuiet'
  BY <1>4 DEF StopCall, StopDone, StopTimeout, StopIsQuiet, Working, AtWork
<1>6. GuardsHold'
  BY <1>5 DEF StopCall, StopDone, StopTimeout, GuardsHold, dispatcher, history, tasks
<1> QED  BY <1>1, <1>2, <1>3, <1>6, PartsSuffice

-----------------------------------------------------------------------------
(* The invariant *)

LEMMA InitEstablishes == Init => IInv
<1> SUFFICES ASSUME Init PROVE IInv
  OBVIOUS
<1>1. TypeOK
  <2>1. <<>> \in Seq(Tasks \cup {StopWorker})
    OBVIOUS
  <2>2. /\ 0 \in 0..MaxTasks /\ 0 \in 0..MaxRetirements /\ 0 \in 0..MaxPanics
    BY PoolAssumption
  <2>3. /\ spc \in [Submitters -> SubmitPlaces] /\ wpc \in [Goroutines -> WorkerPlaces]
        /\ got \in [Goroutines -> Tasks \cup {Nil, StopWorker}]
    BY DEF Init, Q!Init, SubmitPlaces, WorkerPlaces
  <2>4. stopped \in BOOLEAN /\ calling \subseteq Goroutines /\ sawEmpty \subseteq Goroutines
    BY DEF Init, Q!Init
  <2>5. /\ queue = <<>> /\ size \in Int /\ active \in Nat /\ wg \in Nat /\ dsize \in Int
        /\ dactive \in Nat /\ ran \subseteq Tasks
        /\ dpc \in DispatcherPlaces /\ stop \in {"none", "waiting", "graceful", "timeout"}
    BY DEF Init, Q!Init, DispatcherPlaces
  <2>6. made \in 0..MaxTasks /\ retirements \in 0..MaxRetirements /\ panics \in 0..MaxPanics
    BY <2>2 DEF Init
  <2> QED  BY <2>1, <2>3, <2>4, <2>5, <2>6 DEF TypeOK
<1>2. Working = {} /\ Leaving = {} /\ Restarting = {} /\ Starting = {}
  BY DEF Init, Working, AtWork, Leaving, Restarting, Starting
<1>3. CountsMatch /\ WithinLimit
  BY <1>2, FS_EmptySet, PoolAssumption DEF Init, CountsMatch, WithinLimit
<1> QED  BY <1>1, <1>3 DEF Init, IInv, StopIsQuiet

LEMMA NextPreserves == IInv /\ [Next]_vars => IInv'
<1> SUFFICES ASSUME IInv, [Next]_vars PROVE IInv'
  OBVIOUS
<1>1. CASE UNCHANGED vars
  <2>1. Working' = Working /\ Leaving' = Leaving /\ Restarting' = Restarting /\ Starting' = Starting
    BY <1>1, WorkersStay, CallersStay DEF vars
  <2> QED  BY <1>1, <2>1 DEF IInv, vars, tasks, dispatcher, stopping, history,
                             TypeOK, CountsMatch, WithinLimit, StopIsQuiet
<1>2. CASE Next
  BY <1>2, SubmitPreserves, WorkerPreserves, DispatcherPreserves, StopPreserves DEF Next
<1> QED  BY <1>1, <1>2

\* The inductive invariant of the pool.
THEOREM IInvHolds == Spec => []IInv
BY InitEstablishes, NextPreserves, PTL DEF Spec

\* The variables of the pool keep their types: in particular wg.Done never takes the
\* counter of the WaitGroup below zero.
THEOREM TypeCorrect == Spec => []TypeOK
<1>1. IInv => TypeOK
  BY DEF IInv
<1> QED  BY <1>1, IInvHolds, PTL

\* activeWorkers and wg count the goroutines they stand for, through every panic,
\* retirement and race of Submit with the dispatcher.
THEOREM CountsHold == Spec => []CountsMatch
<1>1. IInv => CountsMatch
  BY DEF IInv
<1> QED  BY <1>1, IInvHolds, PTL

\* Until a task panics the pool has no more than maxWorkers workers.
THEOREM LimitHolds == Spec => []WithinLimit
<1>1. IInv => WithinLimit
  BY DEF IInv
<1> QED  BY <1>1, IInvHolds, PTL

\* When Stop has answered that the pool stopped gracefully no task is run any more.
THEOREM QuietHolds == Spec => []StopIsQuiet
<1>1. IInv => StopIsQuiet
  BY DEF IInv
<1> QED  BY <1>1, IInvHolds, PTL
=============================================================================
