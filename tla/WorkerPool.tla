----------------------------- MODULE WorkerPool -----------------------------
(***************************************************************************)
(* WorkerPool of internal/cluster/worker_pool.go: Submit, the workers, the *)
(* dispatcher and Stop, over the queue that TaskQueue specifies.           *)
(*                                                                         *)
(* A call of the queue takes effect in one step, as LockFreeQueue is shown *)
(* to do; size, which follows it, is updated in a step of its own.  Every  *)
(* load, add and compare-and-swap of activeWorkers and every operation of  *)
(* wg is a step.                                                           *)
(***************************************************************************)
EXTENDS Integers, Sequences, FiniteSets

CONSTANTS
    Submitters,      \* goroutines that call Submit
    Goroutines,      \* bound: workers alive at a time; go wp.worker() waits for one
    MaxWorkers,      \* maxWorkers
    MaxTasks,        \* bound: tasks submitted
    MaxRetirements,  \* bound: stop_worker tasks of the dispatcher
    MaxPanics        \* bound: tasks that panic

ASSUME PoolAssumption ==
    /\ IsFiniteSet(Submitters) /\ IsFiniteSet(Goroutines)
    /\ MaxWorkers \in Nat \ {0}
    /\ MaxTasks \in Nat /\ MaxRetirements \in Nat /\ MaxPanics \in Nat

Nil == 0
Tasks == 1..MaxTasks
StopWorker == MaxTasks + 1

VARIABLES
    queue, calling, sawEmpty, got,   \* of TaskQueue
    size,        \* tasks.size
    active,      \* activeWorkers
    wg,
    stopped,     \* stopChan is closed
    spc,         \* Submitters -> where its Submit is
    wpc,         \* Goroutines -> where its worker is
    dpc, dsize, dactive,  \* the dispatcher: where it is, queueSize and activeWorkers
    stop,        \* Stop: "none", "waiting", "graceful" or "timeout"
    made, retirements, panics,
    ran          \* history: tasks whose Execute was called

tasks == <<queue, calling, got>>
dispatcher == <<dpc, dsize, dactive>>
stopping == <<stopped, stop>>
history == <<made, retirements, panics, ran>>
vars == <<tasks, sawEmpty, size, active, wg, spc, wpc, dispatcher, stopping, history>>

Q == INSTANCE TaskQueue WITH Consumers <- Goroutines, Tasks <- Tasks \cup {StopWorker}

Init ==
    /\ Q!Init
    /\ size = 0 /\ active = 0 /\ wg = 0 /\ stopped = FALSE
    /\ spc = [s \in Submitters |-> "idle"]
    /\ wpc = [w \in Goroutines |-> "none"]
    /\ dpc = "wait" /\ dsize = 0 /\ dactive = 0
    /\ stop = "none" /\ made = 0 /\ retirements = 0 /\ panics = 0 /\ ran = {}

-----------------------------------------------------------------------------
(* The small decisions.  A definition called ..._slip is a slip in the one below it,
   used by no action. *)

\* activeWorkers.CompareAndSwap(0, 1), after a load that was 0
FirstWorker_slip == TRUE
FirstWorker == active = 0

\* queueSize > 0 && activeWorkers < maxWorkers, and the inner if
NeedsWorker_slip(waiting, workers) ==
    waiting > 1 /\ workers < MaxWorkers /\ (workers = 0 \/ waiting > workers * 2)
NeedsWorker(waiting, workers) ==
    waiting > 0 /\ workers < MaxWorkers /\ (workers = 0 \/ waiting > workers * 2)

\* case <-wp.stopChan
SeesStop_slip == FALSE
SeesStop == stopped

\* wg.Done of a worker that leaves
Left_slip == IF stopped THEN wg ELSE wg - 1
Left == wg - 1

\* wg.Add(1) for the worker that takes the place of one that panicked
Replaced_slip == wg
Replaced == wg + 1

\* activeWorkers.Add(1) for it
Reactivated_slip == active
Reactivated == active + 1

-----------------------------------------------------------------------------
SubmitAt(s, from, to) == spc[s] = from /\ spc' = [spc EXCEPT ![s] = to]
WorkerAt(w, from, to) == wpc[w] = from /\ wpc' = [wpc EXCEPT ![w] = to]

\* wg.Add(1); go wp.worker()
Start ==
    /\ \E w \in Goroutines : WorkerAt(w, "none", "loop")
    /\ wg' = wg + 1

(* Submit *)

SubmitEnqueue(s) ==
    /\ made < MaxTasks
    /\ SubmitAt(s, "idle", "count")
    /\ made' = made + 1
    /\ Q!Enqueue(made + 1)
    /\ UNCHANGED <<size, active, wg, wpc, dispatcher, stopping, retirements, panics, ran>>

SubmitCount(s) ==
    /\ SubmitAt(s, "count", "load")
    /\ size' = size + 1
    /\ UNCHANGED <<tasks, active, wg, wpc, dispatcher, stopping, history>>

SubmitLoad(s) ==
    /\ SubmitAt(s, "load", IF active = 0 THEN "cas" ELSE "idle")
    /\ UNCHANGED <<tasks, size, active, wg, wpc, dispatcher, stopping, history>>

SubmitCAS(s) ==
    /\ \/ FirstWorker /\ active' = active + 1 /\ SubmitAt(s, "cas", "start")
       \/ ~FirstWorker /\ UNCHANGED active /\ SubmitAt(s, "cas", "idle")
    /\ UNCHANGED <<tasks, size, wg, wpc, dispatcher, stopping, history>>

SubmitStart(s) ==
    /\ SubmitAt(s, "start", "idle") /\ Start
    /\ UNCHANGED <<tasks, size, active, dispatcher, stopping, history>>

-----------------------------------------------------------------------------
(* worker *)

WorkerLoop(w) ==
    /\ \/ SeesStop /\ WorkerAt(w, "loop", "leave") /\ UNCHANGED tasks
       \/ ~SeesStop /\ WorkerAt(w, "loop", "dequeue") /\ Q!Call(w)
    /\ UNCHANGED <<size, active, wg, spc, dispatcher, stopping, history>>

WorkerDequeue(w) ==
    /\ \/ Q!Dequeue(w) /\ WorkerAt(w, "dequeue", "took")
       \/ Q!AnswerNil(w) /\ WorkerAt(w, "dequeue", "leave")
    /\ UNCHANGED <<size, active, wg, spc, dispatcher, stopping, history>>

\* q.size.Add(-1); then it leaves for a stop_worker task and runs any other.
WorkerTook(w) ==
    /\ size' = size - 1
    /\ \/ got[w] = StopWorker /\ WorkerAt(w, "took", "leave") /\ UNCHANGED ran
       \/ got[w] # StopWorker /\ WorkerAt(w, "took", "run") /\ ran' = ran \cup {got[w]}
    /\ UNCHANGED <<tasks, active, wg, spc, dispatcher, stopping, made, retirements, panics>>

\* Execute returns, an error or not, or panics.
WorkerRun(w) ==
    /\ \/ WorkerAt(w, "run", "loop") /\ UNCHANGED panics
       \/ panics < MaxPanics /\ panics' = panics + 1 /\ WorkerAt(w, "run", "fell")
    /\ UNCHANGED <<tasks, size, active, wg, spc, dispatcher, stopping, made, retirements, ran>>

\* activeWorkers.Add(-1)
WorkerLeave(w) ==
    /\ WorkerAt(w, "leave", "left") \/ WorkerAt(w, "fell", "fallen")
    /\ active' = active - 1
    /\ UNCHANGED <<tasks, size, wg, spc, dispatcher, stopping, history>>

\* wg.Done(): the end, or the rest of the deferred function.
WorkerDone(w) ==
    /\ \/ WorkerAt(w, "left", "none") /\ wg' = Left
       \/ WorkerAt(w, "fallen", "load") /\ wg' = wg - 1
    /\ UNCHANGED <<tasks, size, active, spc, dispatcher, stopping, history>>

WorkerLoad(w) ==
    /\ WorkerAt(w, "load", IF active < MaxWorkers THEN "add" ELSE "none")
    /\ UNCHANGED <<tasks, size, active, wg, spc, dispatcher, stopping, history>>

WorkerAdd(w) ==
    /\ WorkerAt(w, "add", "restart")
    /\ active' = Reactivated
    /\ UNCHANGED <<tasks, size, wg, spc, dispatcher, stopping, history>>

\* wg.Add(1); go wp.worker(), in the place of the one that ends.
WorkerRestart(w) ==
    /\ WorkerAt(w, "restart", "loop")
    /\ wg' = Replaced
    /\ UNCHANGED <<tasks, size, active, spc, dispatcher, stopping, history>>

-----------------------------------------------------------------------------
(* dispatcher, adjustWorkers *)

\* The next round forgets what this one loaded.
Await == dpc' = "wait" /\ dsize' = 0 /\ dactive' = 0

\* The ticker; then the load of size.
Tick ==
    /\ dpc = "wait" /\ dpc' = "load"
    /\ dsize' = size
    /\ UNCHANGED <<tasks, size, active, wg, spc, wpc, dactive, stopping, history>>

\* stopChan
SeeStop ==
    /\ dpc = "wait" /\ stopped /\ dpc' = "ended"
    /\ UNCHANGED <<tasks, size, active, wg, spc, wpc, dsize, dactive, stopping, history>>

\* The last completion may or may not be five seconds ago.
Adjust ==
    /\ dpc = "load"
    /\ \/ /\ NeedsWorker(dsize, active)
          /\ dpc' = "cas" /\ dsize' = 0 /\ dactive' = active
       \/ /\ dsize = 0 /\ active > 1 /\ retirements < MaxRetirements
          /\ dpc' = "retire" /\ UNCHANGED <<dsize, dactive>>
       \/ ~NeedsWorker(dsize, active) /\ Await
    /\ UNCHANGED <<tasks, size, active, wg, spc, wpc, stopping, history>>

AddWorker ==
    /\ dpc = "cas"
    /\ \/ /\ active = dactive
          /\ active' = dactive + 1 /\ dpc' = "start" /\ UNCHANGED <<dsize, dactive>>
       \/ active # dactive /\ UNCHANGED active /\ Await
    /\ UNCHANGED <<tasks, size, wg, spc, wpc, stopping, history>>

StartAdded ==
    /\ dpc = "start" /\ Await /\ Start
    /\ UNCHANGED <<tasks, size, active, spc, stopping, history>>

Retire ==
    /\ dpc = "retire" /\ dpc' = "count"
    /\ retirements' = retirements + 1
    /\ Q!Enqueue(StopWorker)
    /\ UNCHANGED <<size, active, wg, spc, wpc, dsize, dactive, stopping, made, panics, ran>>

RetireCount ==
    /\ dpc = "count" /\ Await
    /\ size' = size + 1
    /\ UNCHANGED <<tasks, active, wg, spc, wpc, stopping, history>>

-----------------------------------------------------------------------------
(* Stop: close(wp.stopChan), then wg.Wait or ten seconds. *)

StopCall ==
    /\ stop = "none" /\ stop' = "waiting" /\ stopped' = TRUE
    /\ UNCHANGED <<tasks, size, active, wg, spc, wpc, dispatcher, history>>

StopDone ==
    /\ stop = "waiting" /\ wg = 0 /\ stop' = "graceful"
    /\ UNCHANGED <<tasks, size, active, wg, spc, wpc, dispatcher, stopped, history>>

StopTimeout ==
    /\ stop = "waiting" /\ stop' = "timeout"
    /\ UNCHANGED <<tasks, size, active, wg, spc, wpc, dispatcher, stopped, history>>

-----------------------------------------------------------------------------
SubmitStep(s) == SubmitCount(s) \/ SubmitLoad(s) \/ SubmitCAS(s) \/ SubmitStart(s)
WorkerStep(w) ==
    \/ WorkerLoop(w) \/ WorkerDequeue(w) \/ WorkerTook(w) \/ WorkerRun(w) \/ WorkerLeave(w)
    \/ WorkerDone(w) \/ WorkerLoad(w) \/ WorkerAdd(w) \/ WorkerRestart(w)
DispatcherStep == Tick \/ SeeStop \/ Adjust \/ AddWorker \/ StartAdded \/ Retire \/ RetireCount

Next ==
    /\ \/ \E s \in Submitters : SubmitEnqueue(s) \/ SubmitStep(s)
       \/ \E w \in Goroutines : WorkerStep(w)
       \/ DispatcherStep
       \/ StopCall \/ StopDone \/ StopTimeout
    /\ Q!Watch

Spec == Init /\ [][Next]_vars

\* Goroutines are scheduled, the ticker fires and tasks end; nobody need call Submit or
\* Stop, and the ten seconds of Stop need not pass.  select chooses at random among the
\* cases that are ready: it does not choose the ticker for ever once stopChan is closed.
FairSpec ==
    /\ Spec
    /\ \A s \in Submitters : WF_vars(SubmitStep(s) /\ Q!Watch)
    /\ \A w \in Goroutines : WF_vars(WorkerStep(w) /\ Q!Watch)
    /\ WF_vars(DispatcherStep /\ Q!Watch) /\ WF_vars(StopDone /\ Q!Watch)
    /\ SF_vars(SeeStop /\ Q!Watch)

-----------------------------------------------------------------------------
(* Properties *)

SubmitPlaces == {"idle", "count", "load", "cas", "start"}
WorkerPlaces == {"none", "loop", "dequeue", "took", "run", "leave", "left", "fell", "fallen",
                 "load", "add", "restart"}
DispatcherPlaces == {"wait", "load", "cas", "start", "retire", "count", "ended"}

\* The variables keep their types; wg never goes below zero, which would panic.
TypeOK ==
    /\ queue \in Seq(Tasks \cup {StopWorker}) /\ calling \subseteq Goroutines
    /\ sawEmpty \subseteq Goroutines
    /\ got \in [Goroutines -> Tasks \cup {Nil, StopWorker}]
    /\ size \in Int /\ active \in Nat /\ wg \in Nat /\ stopped \in BOOLEAN
    /\ spc \in [Submitters -> SubmitPlaces] /\ wpc \in [Goroutines -> WorkerPlaces]
    /\ dpc \in DispatcherPlaces /\ dsize \in Int /\ dactive \in Nat
    /\ stop \in {"none", "waiting", "graceful", "timeout"}
    /\ made \in 0..MaxTasks /\ retirements \in 0..MaxRetirements /\ panics \in 0..MaxPanics
    /\ ran \subseteq Tasks

AtWork == {"loop", "dequeue", "took", "run", "leave", "fell"}
Working == {w \in Goroutines : wpc[w] \in AtWork}
Leaving == {w \in Goroutines : wpc[w] \in {"left", "fallen"}}
Restarting == {w \in Goroutines : wpc[w] = "restart"}
Starting == {s \in Submitters : spc[s] = "start"}

\* activeWorkers counts the workers that will still look at the queue, those about to
\* start among them, and wg the goroutines Stop has to wait for.
CountsMatch ==
    /\ active = Cardinality(Working) + Cardinality(Restarting) + Cardinality(Starting)
                  + (IF dpc = "start" THEN 1 ELSE 0)
    /\ wg = Cardinality(Working) + Cardinality(Leaving)

\* Submit and the dispatcher never take the pool beyond maxWorkers; only the replacement
\* of a worker that panicked can.
WithinLimit == panics = 0 => active <= MaxWorkers

\* When Stop has answered that the pool stopped gracefully no task is running and none
\* will: a worker that starts after that leaves at once.
StopIsQuiet ==
    stop = "graceful" => \A w \in Goroutines : wpc[w] \notin {"dequeue", "took", "run"}

\* What makes those inductive: the dispatcher adds to a count below the limit, a
\* worker that took a task has one, and only a panic leads to the code that replaces a
\* worker.
IInv ==
    /\ TypeOK /\ CountsMatch /\ WithinLimit /\ StopIsQuiet
    /\ stop # "none" => stopped
    /\ dpc = "cas" => dactive < MaxWorkers
    /\ dpc = "retire" => retirements < MaxRetirements
    /\ \A w \in Goroutines : wpc[w] = "took" => got[w] # Nil
    /\ panics = 0 =>
          \A w \in Goroutines : wpc[w] \notin {"fell", "fallen", "load", "add", "restart"}

\* A task that Submit accepted runs unless the pool is stopped, though Submit may have
\* counted on a worker that was about to leave.
EveryTaskRuns == \A task \in Tasks : task <= made ~> task \in ran \/ stopped

\* Stop returns without the help of its ten seconds.
StopEnds == stopped ~> stop \in {"graceful", "timeout"}
=============================================================================
