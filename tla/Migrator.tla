------------------------------ MODULE Migrator ------------------------------
(***************************************************************************)
(* CrossDCMigrator of internal/cluster/crossdc_migrator.go: the goroutines *)
(* that copy the collections of a task to another data centre, their       *)
(* checkpoints, pause, resume and cancel, the loops that flush the change  *)
(* queue and save checkpoints, Stop, a crash and a restart.                *)
(*                                                                         *)
(* The documents do not change while they are migrated: nothing in the     *)
(* program feeds client writes to the queue.  A send is one POST with all  *)
(* its retries, of which there is at least one.  Stop waits for every      *)
(* goroutine before it clears active and saves the tasks, but the calls    *)
(* of the user test neither: a migration may begin between these steps.    *)
(***************************************************************************)
EXTENDS Integers, Sequences, FiniteSets

CONSTANTS
    Nil,
    Tasks,       \* bound: ids of the migrations a user may start
    Runs,        \* bound: goroutines of runMigration alive at a time
    Collections, \* a sequence: the document ids of each collection to migrate, in order
    Workers,     \* Settings.Workers
    BatchSize,   \* Settings.BatchSize
    MaxFailures, \* bound: sends that fail after all retries
    MaxPauses,   \* bound: calls of PauseMigration and CancelMigration
    MaxCrashes   \* bound

ASSUME MigratorAssumption ==
    /\ IsFiniteSet(Tasks) /\ IsFiniteSet(Runs) /\ Nil \notin Tasks
    /\ Collections \in Seq({Collections[c] : c \in DOMAIN Collections})
    /\ \A c \in DOMAIN Collections :
          Collections[c] \in Seq({Collections[c][i] : i \in DOMAIN Collections[c]})
    /\ Workers \in Nat \ {0} /\ BatchSize \in Nat \ {0}
    /\ MaxFailures \in Nat /\ MaxPauses \in Nat /\ MaxCrashes \in Nat

Active == {"Migrating", "DeltaSync"}
Waited == {"waited", "inactive", "stopped"}   \* places of Stop past wg.Wait

\* A document is its collection and its id.
DocsOf(c) == {<<c, Collections[c][i]>> : i \in DOMAIN Collections[c]}
AllDocs == UNION {DocsOf(c) : c \in DOMAIN Collections}

VARIABLES
    proc,      \* "up"; Stop at wg.Wait ("stopping"), at active.Store ("waited"), at
               \* saveTasks ("inactive") or back ("stopped"); or "down"
    started,   \* history: ids that were given to a migration
    current,   \* currentTaskID
    status,    \* Tasks -> Status, "none" for an id that tasks does not hold
    tasksFile, \* tasks.json: Tasks -> Status
    failedFile, \* and Tasks -> FailedDocs
    ckptFile,  \* Tasks -> the ProcessedDocs of its checkpoint file, Nil when there is none
    ckptData,  \* Tasks -> CheckpointData
    failed,    \* Tasks -> FailedDocs
    run,       \* Runs -> one runMigration
    passed,    \* runs that tested active before it was cleared, for the document they are at
    late,      \* history: tasks of the calls made when Stop had waited
    queued,    \* changeQueue: the documents it has changes of
    target,    \* documents the target has received
    faults     \* history: how many [failures, pauses, crashes] there were

files == <<tasksFile, failedFile>>
taskVars == <<started, current, status, files, ckptFile, ckptData, failed, passed, late>>
vars == <<queued, proc, taskVars, run, target, faults>>

(* A run: at, its task, the collection and the document it is at, how many it has put in
   docChan, docChan, the documents its workers send, those whose worker waits to put an
   error in resultChan, how many errors that holds, the checkpoint of migrateData and the
   one that migrateCollection uses. *)
IdleRun == [at |-> "none", task |-> Nil, coll |-> 1, next |-> 1, sent |-> 0, chan |-> <<>>,
            sending |-> {}, blocked |-> {}, errors |-> 0, ckpt |-> Nil, mine |-> Nil]

Init ==
    /\ queued = {}
    /\ proc = "up" /\ current = Nil /\ started = {}
    /\ status = [t \in Tasks |-> "none"] /\ tasksFile = status
    /\ failedFile = [t \in Tasks |-> 0] /\ passed = {} /\ late = {}
    /\ ckptFile = [t \in Tasks |-> Nil]
    /\ ckptData = [t \in Tasks |-> {}]
    /\ failed = [t \in Tasks |-> 0]
    /\ run = [r \in Runs |-> IdleRun]
    /\ target = {}
    /\ faults = [failures |-> 0, pauses |-> 0, crashes |-> 0]

At(r, place) == proc # "down" /\ run[r].at = place
Task(r) == run[r].task
Goto(r, place) == run' = [run EXCEPT ![r].at = place]
Coll(r) == Collections[run[r].coll]
Marked(checkpoint, key) == checkpoint # Nil /\ key \in checkpoint
Known(t) == status[t] # "none"
IsActive == proc \in {"up", "stopping", "waited"}

-----------------------------------------------------------------------------
(* The small decisions.  A definition called ..._slip is a slip in the one below it,
   used by no action. *)

\* wg.Wait() of migrateCollection: no worker has work, and the channel is closed and empty
WorkersDone_slip(r) == run[r].chan = <<>>
WorkersDone(r) == run[r].chan = <<>> /\ run[r].sending = {} /\ run[r].blocked = {}

\* make(chan error, workers), nobody receiving before wg.Wait returns
RoomForError_slip(r) == run[r].errors < Workers - 1
RoomForError(r) == run[r].errors < Workers

\* cdm.wg.Wait() of Stop
NothingRuns_slip == TRUE
NothingRuns == (\A r \in Runs : run[r].at = "none")

-----------------------------------------------------------------------------
(* Calls of the user *)

Launch(t) ==
    \E r \in Runs :
        /\ run[r].at = "none"
        /\ run' = [run EXCEPT ![r] = [IdleRun EXCEPT !.at = "prepare", !.task = t]]
        /\ late' = IF proc \in Waited THEN late \cup {t} ELSE late

StartMigration(t) ==
    /\ proc # "down" /\ t \notin started   \* an id is made of the time: never used again
    /\ current # Nil => status[current] \notin Active
    /\ started' = started \cup {t}
    /\ status' = [status EXCEPT ![t] = "Preparing"]
    /\ current' = t
    /\ Launch(t)
    /\ UNCHANGED <<queued, proc, files, passed, ckptFile, ckptData, failed, target, faults>>

PauseMigration(t) ==
    /\ proc # "down" /\ status[t] \in Active /\ faults.pauses < MaxPauses
    /\ faults' = [faults EXCEPT !.pauses = @ + 1]
    /\ status' = [status EXCEPT ![t] = "Paused"]
    /\ UNCHANGED <<queued, proc, started, current, files, passed, late, ckptFile, ckptData, failed, run, target>>

\* The run that was paused has not stopped: a second one joins it.
ResumeMigration(t) ==
    /\ proc # "down" /\ status[t] = "Paused"
    /\ status' = [status EXCEPT ![t] = "Migrating"]
    /\ Launch(t)
    /\ UNCHANGED <<queued, proc, started, current, files, passed, ckptFile, ckptData, failed, target, faults>>

\* Allowed in every state of the task; the run goes on.
CancelMigration(t) ==
    /\ proc # "down" /\ Known(t) /\ faults.pauses < MaxPauses
    /\ faults' = [faults EXCEPT !.pauses = @ + 1]
    /\ status' = [status EXCEPT ![t] = "Failed"]
    /\ UNCHANGED <<queued, proc, started, current, files, passed, late, ckptFile, ckptData, failed, run, target>>

-----------------------------------------------------------------------------
(* runMigration *)

Still == UNCHANGED <<proc, started, current, files, late, faults>>
Quiet == Still /\ UNCHANGED passed

Prepare(r) ==
    /\ At(r, "prepare") /\ Goto(r, "load")
    /\ status' = [status EXCEPT ![Task(r)] = "Migrating"]
    /\ UNCHANGED <<queued, ckptFile, ckptData, failed, target>> /\ Quiet

\* The run goes on to the first collection after it that its checkpoint does not have; it
\* tests active before each.
Enter(state, checkpoint) ==
    LET ahead == {c \in DOMAIN Collections : c >= state.coll}
        left == {c \in ahead : ~Marked(checkpoint, c)}
    IN
    IF ~IsActive /\ ahead # {} THEN [state EXCEPT !.at = "error", !.ckpt = Nil, !.mine = Nil]
    ELSE IF left = {} THEN [state EXCEPT !.at = "delta", !.ckpt = Nil, !.mine = Nil]
    ELSE [state EXCEPT !.at = "send", !.coll = CHOOSE c \in left : \A d \in left : c <= d,
                       !.next = 1, !.sent = 0, !.errors = 0,
                       !.ckpt = checkpoint, !.mine = checkpoint]

LoadCheckpoint(r) ==
    /\ At(r, "load")
    /\ LET saved == ckptFile[Task(r)] IN
       /\ run' = [run EXCEPT ![r] = Enter(@, saved)]
       /\ ckptData' = IF saved = Nil THEN ckptData ELSE [ckptData EXCEPT ![Task(r)] = saved]
    /\ UNCHANGED <<queued, status, ckptFile, failed, target>> /\ Quiet

\* The sender puts the next document in docChan and, every BatchSize documents, marks it.
Mark(r, id) == IF run[r].mine = Nil THEN {id} ELSE run[r].mine \cup {id}

Queue(r) ==
    /\ At(r, "send") /\ run[r].next <= Len(Coll(r))
    /\ IsActive \/ r \in passed
    /\ passed' = passed \ {r}
    /\ LET id == Coll(r)[run[r].next]
           n == run[r].sent + 1
           save == n % BatchSize = 0
           shared == run[r].ckpt # Nil       \* the caller's map, passed by reference
       IN \/ /\ Marked(run[r].mine, id)
             /\ run' = [run EXCEPT ![r].next = @ + 1]
             /\ UNCHANGED ckptFile
          \/ /\ ~Marked(run[r].mine, id)
             /\ Len(run[r].chan) < BatchSize
             /\ run' = [run EXCEPT ![r].next = @ + 1, ![r].sent = n,
                          ![r].chan = Append(@, id),
                          ![r].mine = IF save THEN Mark(r, id) ELSE @,
                          ![r].ckpt = IF save /\ shared THEN Mark(r, id) ELSE @]
             /\ ckptFile' = IF save THEN [ckptFile EXCEPT ![Task(r)] = Mark(r, id)] ELSE ckptFile
    /\ UNCHANGED <<queued, status, ckptData, failed, target>> /\ Still

\* "migration stopped": the sender goes no further, the workers send what is in docChan.
StopSending(r) ==
    /\ At(r, "send") /\ run[r].next <= Len(Coll(r))
    /\ ~IsActive /\ r \notin passed
    /\ run' = [run EXCEPT ![r].next = Len(Coll(r)) + 1]
    /\ UNCHANGED <<queued, status, ckptFile, ckptData, failed, target>> /\ Quiet

\* A worker receives a document and adds its change to the queue.
Receive(r) ==
    /\ At(r, "send") /\ run[r].chan # <<>>
    /\ Cardinality(run[r].sending) + Cardinality(run[r].blocked) < Workers
    /\ LET id == Head(run[r].chan) IN
       /\ run' = [run EXCEPT ![r].chan = Tail(@), ![r].sending = @ \cup {id}]
       /\ queued' = queued \cup {<<run[r].coll, id>>}
    /\ UNCHANGED <<status, ckptFile, ckptData, failed, target>> /\ Quiet

Sent(r, id) ==
    /\ At(r, "send") /\ id \in run[r].sending
    /\ run' = [run EXCEPT ![r].sending = @ \ {id}]
    /\ target' = target \cup {<<run[r].coll, id>>}
    /\ UNCHANGED <<queued, status, ckptFile, ckptData, failed>> /\ Quiet

\* Every try failed; that the target received one all the same is as if Deliver had sent it.
SendFails(r, id) ==
    /\ At(r, "send") /\ id \in run[r].sending /\ faults.failures < MaxFailures
    /\ faults' = [faults EXCEPT !.failures = @ + 1]
    /\ run' = [run EXCEPT ![r].sending = @ \ {id}, ![r].blocked = @ \cup {id}]
    /\ UNCHANGED <<queued, proc, taskVars, target>>

\* resultChan <- err, and only then FailedDocs++
Report(r, id) ==
    /\ At(r, "send") /\ id \in run[r].blocked /\ RoomForError(r)
    /\ run' = [run EXCEPT ![r].blocked = @ \ {id}, ![r].errors = @ + 1]
    /\ failed' = [failed EXCEPT ![Task(r)] = @ + 1]
    /\ UNCHANGED <<queued, status, ckptFile, ckptData, target>> /\ Quiet

\* migrateCollection returns; the collection is marked, whatever it returns.
CollectionDone(r) ==
    /\ At(r, "send") /\ run[r].next > Len(Coll(r)) /\ WorkersDone(r)
    /\ LET marks == (IF run[r].ckpt = Nil THEN {} ELSE run[r].ckpt) \cup {run[r].coll}
           after == [run[r] EXCEPT !.coll = @ + 1]
       IN
       /\ run' = [run EXCEPT ![r] = Enter(after, marks)]
       /\ ckptFile' = [ckptFile EXCEPT ![Task(r)] = marks]
       /\ ckptData' = [ckptData EXCEPT ![Task(r)] = marks]
    /\ UNCHANGED <<queued, status, failed, target>> /\ Quiet

\* setTaskError, for a run that met active cleared between two collections.
SetTaskError(r) ==
    /\ At(r, "error")
    /\ run' = [run EXCEPT ![r] = IdleRun]
    /\ status' = [status EXCEPT ![Task(r)] = "Failed"]
    /\ UNCHANGED <<queued, ckptFile, ckptData, failed, target>> /\ Quiet

StartDelta(r) ==
    /\ At(r, "delta") /\ Goto(r, "apply")
    /\ status' = [status EXCEPT ![Task(r)] = "DeltaSync"]
    /\ UNCHANGED <<queued, ckptFile, ckptData, failed, target>> /\ Quiet

\* runDeltaSync sends again what the queue holds; an error of it is only logged.
Deliver == \E arrived \in SUBSET queued :
                 target' = target \cup arrived

\* The validation that follows changes nothing but the status.
ApplyDelta(r) ==
    /\ At(r, "apply") /\ Goto(r, "complete")
    /\ Deliver
    /\ status' = [status EXCEPT ![Task(r)] = "Validating"]
    /\ UNCHANGED <<queued, ckptFile, ckptData, failed>> /\ Quiet

Complete(r) ==
    /\ At(r, "complete")
    /\ run' = [run EXCEPT ![r] = IdleRun]
    /\ status' = [status EXCEPT ![Task(r)] = "Completed"]
    /\ UNCHANGED <<queued, ckptFile, ckptData, failed, target>> /\ Quiet

-----------------------------------------------------------------------------
(* The loops.  Once stopChan is closed a select still takes a tick that is ready, at random;
   wg.Wait waits for the loops too. *)
Looping == proc \in {"up", "stopping"}

\* flushChangeQueue: GetAll, then applyChange for each; one that fails is not put back,
\* and without a task they are all dropped.
Flush ==
    /\ Looping /\ queued # {}
    /\ IF current = Nil THEN UNCHANGED target ELSE Deliver
    /\ queued' = {}
    /\ UNCHANGED <<proc, taskVars, run, faults>>

PeriodicDelta ==
    /\ Looping /\ current # Nil /\ status[current] \in {"Completed", "DeltaSync"}
    /\ Deliver
    /\ UNCHANGED <<queued, proc, taskVars, run, faults>>

\* checkpointLoop puts CheckpointData, which has no documents yet, in place of the file.
Tick ==
    /\ Looping /\ current # Nil /\ status[current] \in Active
    /\ ckptFile' = [ckptFile EXCEPT ![current] = ckptData[current]]
    /\ UNCHANGED <<queued, proc, started, current, status, files, passed, late, ckptData, failed, run,
                   target, faults>>

-----------------------------------------------------------------------------
(* Stop, a crash and a restart *)

StopCall ==
    /\ proc = "up" /\ proc' = "stopping"
    /\ UNCHANGED <<queued, taskVars, run, target, faults>>

\* wg.Wait() returns
StopWaited ==
    /\ proc = "stopping" /\ NothingRuns
    /\ proc' = "waited"
    /\ UNCHANGED <<queued, taskVars, run, target, faults>>

\* active.Store(false): a run may be between its test of active and its send.
StopClears ==
    /\ proc = "waited" /\ proc' = "inactive"
    /\ passed' \in SUBSET {r \in Runs : run[r].at = "send" /\ run[r].next <= Len(Coll(r))}
    /\ UNCHANGED <<queued, started, current, status, files, ckptFile, ckptData, failed, late, run,
                   target, faults>>

\* saveTasks; an error leaves the file of before, or one cut short that loadTasks ignores.
StopSaves ==
    /\ proc = "inactive" /\ proc' = "stopped"
    /\ \/ tasksFile' = status /\ failedFile' = failed
       \/ tasksFile' = [t \in Tasks |-> "none"] /\ UNCHANGED failedFile
       \/ UNCHANGED files
    /\ UNCHANGED <<queued, started, current, status, ckptFile, ckptData, failed, passed, late, run,
                   target, faults>>

\* The process goes down with what it has in memory.
Down ==
    /\ proc' = "down" /\ current' = Nil
    /\ status' = [t \in Tasks |-> "none"]
    /\ ckptData' = [t \in Tasks |-> {}] /\ failed' = [t \in Tasks |-> 0]
    /\ run' = [r \in Runs |-> IdleRun] /\ passed' = {}
    /\ UNCHANGED <<queued, started, files, ckptFile, late, target>>

Exit ==
    /\ proc = "stopped"
    /\ Down /\ UNCHANGED faults

Crash ==
    /\ proc # "down" /\ faults.crashes < MaxCrashes
    /\ faults' = [faults EXCEPT !.crashes = @ + 1]
    /\ Down

\* NewCrossDCMigrator with loadTasks and load of the queue; Start with resumePendingMigrations.
Pending == {t \in Tasks : tasksFile[t] \in Active}

Restart ==
    /\ proc = "down" /\ proc' = "up"
    /\ status' = tasksFile /\ failed' = failedFile
    /\ queued' = {}
    /\ \E resumed \in [Runs -> Pending \cup {Nil}] :
         /\ \A t \in Pending : Cardinality({r \in Runs : resumed[r] = t}) = 1
         /\ run' = [r \in Runs |-> IF resumed[r] = Nil THEN IdleRun
                                   ELSE [IdleRun EXCEPT !.at = "prepare", !.task = resumed[r]]]
    /\ UNCHANGED <<started, current, files, ckptFile, ckptData, passed, late, target, faults>>

-----------------------------------------------------------------------------
RunStep(r) ==
    \/ Prepare(r) \/ LoadCheckpoint(r) \/ Queue(r) \/ StopSending(r) \/ Receive(r)
    \/ \E d \in AllDocs : Sent(r, d[2]) \/ SendFails(r, d[2]) \/ Report(r, d[2])
    \/ CollectionDone(r) \/ SetTaskError(r) \/ StartDelta(r) \/ ApplyDelta(r) \/ Complete(r)

LoopStep == Flush \/ PeriodicDelta \/ Tick
StopStep == StopWaited \/ StopClears \/ StopSaves

Next ==
    \/ \E t \in Tasks : \/ StartMigration(t) \/ PauseMigration(t)
                        \/ ResumeMigration(t) \/ CancelMigration(t)
    \/ \E r \in Runs : RunStep(r)
    \/ LoopStep
    \/ StopCall \/ StopStep \/ Exit \/ Crash \/ Restart

\* Goroutines run; calls, ticks of the loops, Stop and faults come when they come.
Fairness ==
    /\ \A r \in Runs : WF_vars(RunStep(r))
    /\ WF_vars(StopStep)

Spec == Init /\ [][Next]_vars /\ Fairness

-----------------------------------------------------------------------------
TypeOK ==
    /\ proc \in {"up", "stopping", "down"} \cup Waited /\ current \in Tasks \cup {Nil}
    /\ target \subseteq AllDocs
    /\ \A t \in Tasks : failed[t] \in 0..MaxFailures
    /\ \A r \in Runs : /\ Len(run[r].chan) <= BatchSize
                       /\ run[r].errors \in 0..Workers
                       /\ Cardinality(run[r].sending \cup run[r].blocked) <= Workers

(* The keys of a checkpoint are ids of documents, which a client chooses and which need not
   be unique over the collections of a task, and keys of collections. *)
Ids == {d[2] : d \in AllDocs}
Plain(d) == d[1] \notin Ids /\ d[2] \notin DOMAIN Collections
Received(d) == \E e \in target : e[2] = d[2]

(* When no run of a task is under way and none of its sends is counted as failed, the
   target has every document of it, or another one with the same id: whatever was paused,
   resumed, cancelled or saved too early in a checkpoint (runMigration, migrateData,
   migrateCollection).  The exceptions are a task that was started or resumed when Stop had
   waited for its runs, whose checkpoints may mark what it was kept from sending, and an id
   that is the key of a collection. *)
NoRun(t) == \A r \in Runs : run[r].task # t
QuietMeansMigrated ==
    \A t \in Tasks \ late : (Known(t) /\ NoRun(t) /\ failed[t] = 0) =>
        \A d \in AllDocs : Plain(d) => Received(d)

(* Stop waits for every run before it saves the tasks: what resumePendingMigrations finds in
   the file was started or resumed behind its back, by a call that came when it had waited.
   No migration is resumed that an earlier process left unfinished in any other way. *)
OnlyLateResumed == \A t \in Tasks : tasksFile[t] \in Active => t \in late

(* Every run ends and Stop returns, except that a run whose collection has more failures
   than workers waits for ever: nobody receives from resultChan before the workers are done
   (migrateCollection, Stop). *)
Jammed(r) == run[r].errors + Cardinality(run[r].blocked) > Workers
RunsEnd ==
    /\ \A r \in Runs : run[r].at # "none" ~> run[r].at = "none" \/ Jammed(r)
    /\ proc = "stopping" ~> proc \in {"stopped", "down"} \/ \E r \in Runs : Jammed(r)
=============================================================================
