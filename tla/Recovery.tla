------------------------------ MODULE Recovery ------------------------------
(***************************************************************************)
(* startAsyncRecovery and AsyncRecoveryManager of                          *)
(* internal/storage/transactions.go: at start the records ReadAll found in *)
(* the log are pushed, in order, on recordChan; workers replay them        *)
(* against the storage; errorMonitor stops everything after too many       *)
(* errors.  The storage is created empty, and nothing loads a database:    *)
(* databases exist when a client creates them again, after the start.      *)
(***************************************************************************)
EXTENDS Naturals, Sequences, FiniteSets

CONSTANTS
    Workers,     \* AsyncRecoveryWorkers (4 in the code)
    NumRecords,  \* records in the log
    ChanCap,     \* AsyncRecoveryBufferSize (10000 in the code)
    ErrorLimit   \* errors errorMonitor tolerates (10 in the code)

ASSUME SizesAssumption ==
    /\ IsFiniteSet(Workers)
    /\ NumRecords \in Nat \ {0} /\ ChanCap \in Nat \ {0} /\ ErrorLimit \in Nat

Records == 1..NumRecords
NoRecord == 0

VARIABLES
    pusher,        \* where the loop over Push is
    next,          \* the record it pushes now
    recordChan,
    chanClosed,    \* recordChan is closed
    doing,         \* Workers -> record in the callback, NoRecord
    exited,        \* workers past their range loop
    errChan,       \* errors in errChan
    monitor,       \* where errorMonitor is
    errors,        \* criticalErrors
    isRunning,
    created        \* a client has created the databases again

VARIABLES          \* history
    recovered,     \* records whose callback returned nil
    failed,        \* records whose callback returned an error
    dropped        \* records for which Push returned false

vars == <<pusher, next, recordChan, chanClosed, doing, exited, errChan, monitor,
          errors, isRunning, created, recovered, failed, dropped>>

Init ==
    /\ pusher = "check" /\ next = 1
    /\ recordChan = <<>> /\ chanClosed = FALSE
    /\ doing = [w \in Workers |-> NoRecord] /\ exited = {}
    /\ errChan = 0
    /\ monitor = "range" /\ errors = 0
    /\ isRunning = TRUE
    /\ created = FALSE
    /\ recovered = {} /\ failed = {} /\ dropped = {}

pushVars == <<pusher, next>>
workerVars == <<doing, exited>>
monitorVars == <<errChan, monitor, errors, isRunning>>
results == <<recovered, failed, dropped>>

-----------------------------------------------------------------------------
(* The decisions below, each with a slip (..._slip) that no action uses. *)

\* Stop closes errChan when wg.Wait has seen every worker leave.
MayCloseErrors_slip == chanClosed
MayCloseErrors == exited = Workers

\* A closed channel is drained before range ends.
WorkerMayLeave_slip == chanClosed
WorkerMayLeave == chanClosed /\ recordChan = <<>>

\* A failing callback counts its record as failed, a good one as recovered.
Count_slip(r, ok) == /\ recovered' = recovered \cup {r}
                     /\ failed' = IF ok THEN failed ELSE failed \cup {r}
Count(r, ok) == /\ recovered' = IF ok THEN recovered \cup {r} ELSE recovered
                /\ failed' = IF ok THEN failed ELSE failed \cup {r}

\* select { case arm.errChan <- err: default: }
RoomForError_slip == errChan <= Cardinality(Workers)
RoomForError == errChan < Cardinality(Workers)

\* Workers block on an empty channel; this is what wakes them.
MayTake_slip == Len(recordChan) > 1
MayTake == recordChan # <<>>

-----------------------------------------------------------------------------
(* Push, in the loop of startAsyncRecovery *)

Advance == /\ next' = next + 1
           /\ pusher' = IF next = NumRecords THEN "done" ELSE "check"

\* isRunning is read under arm.mu, which is given back before the send.
PushCheck ==
    /\ pusher = "check"
    /\ IF isRunning
       THEN pusher' = "send" /\ UNCHANGED <<next, dropped>>
       ELSE Advance /\ dropped' = dropped \cup {next}
    /\ UNCHANGED <<recordChan, chanClosed, workerVars, monitorVars, created, recovered, failed>>

PushSend ==
    /\ pusher = "send" /\ ~chanClosed
    /\ Len(recordChan) < ChanCap
    /\ recordChan' = Append(recordChan, next)
    /\ Advance
    /\ UNCHANGED <<chanClosed, workerVars, monitorVars, created, results>>

\* case <-time.After(100ms): the caller logs "some records may be delayed" and goes on to
\* the next record; nothing pushes this one again.
PushTimeout ==
    /\ pusher = "send" /\ ~chanClosed
    /\ Len(recordChan) = ChanCap
    /\ dropped' = dropped \cup {next}
    /\ Advance
    /\ UNCHANGED <<recordChan, chanClosed, workerVars, monitorVars, created, recovered, failed>>

\* The channel was closed between the check and the send: the process panics.
PushPanics ==
    /\ pusher = "send" /\ chanClosed
    /\ pusher' = "panicked"
    /\ UNCHANGED <<next, recordChan, chanClosed, workerVars, monitorVars, created, results>>

-----------------------------------------------------------------------------
(* worker *)

Take(w) ==
    /\ w \notin exited /\ doing[w] = NoRecord
    /\ MayTake
    /\ doing' = [doing EXCEPT ![w] = Head(recordChan)]
    /\ recordChan' = Tail(recordChan)
    /\ UNCHANGED <<pushVars, chanClosed, exited, monitorVars, created, results>>

\* applyOperation looks its database up: "database not found" until it is created, and
\* then its outcome depends on the documents, such as one that is there already.
\* The error goes to errChan if there is room; one monitor reads it.
Replay(w) ==
    /\ doing[w] # NoRecord
    /\ \E ok \in IF created THEN BOOLEAN ELSE {FALSE} :
         /\ Count(doing[w], ok)
         /\ errChan' = IF ~ok /\ RoomForError THEN errChan + 1 ELSE errChan
    /\ doing' = [doing EXCEPT ![w] = NoRecord]
    /\ UNCHANGED <<pushVars, recordChan, chanClosed, exited, monitor, errors, isRunning,
                   created, dropped>>

Leave(w) ==
    /\ w \notin exited /\ doing[w] = NoRecord
    /\ WorkerMayLeave
    /\ exited' = exited \cup {w}
    /\ UNCHANGED <<pushVars, recordChan, chanClosed, doing, monitorVars, created, results>>

-----------------------------------------------------------------------------
(* errorMonitor and Stop, which only it calls *)

MonitorReads ==
    /\ monitor = "range" /\ errChan > 0
    /\ errChan' = errChan - 1
    /\ errors' = errors + 1
    /\ monitor' = IF errors + 1 > ErrorLimit THEN "stop" ELSE "range"
    /\ UNCHANGED <<pushVars, recordChan, chanClosed, workerVars, isRunning, created, results>>

StopMarks ==
    /\ monitor = "stop" /\ isRunning
    /\ isRunning' = FALSE
    /\ UNCHANGED <<pushVars, recordChan, chanClosed, workerVars, errChan, monitor, errors,
                   created, results>>

StopCloses ==
    /\ monitor = "stop" /\ ~isRunning
    /\ chanClosed' = TRUE
    /\ monitor' = "wait"
    /\ UNCHANGED <<pushVars, recordChan, workerVars, errChan, errors, isRunning, created, results>>

StopEnds ==
    /\ monitor = "wait" /\ MayCloseErrors
    /\ monitor' = "stopped"
    /\ UNCHANGED <<pushVars, recordChan, chanClosed, workerVars, errChan, errors, isRunning,
                   created, results>>

-----------------------------------------------------------------------------
\* CreateDatabase, by a client of the REPL or of the HTTP interface, which main starts
\* after startAsyncRecovery returned.  No client has to.
CreateDatabase ==
    /\ ~created /\ pusher = "done"
    /\ created' = TRUE
    /\ UNCHANGED <<pushVars, recordChan, chanClosed, workerVars, monitorVars, results>>

\* recoveryComplete is left out: the goroutine that would set it waits on doneChan, which
\* Wait closes, and nothing calls Wait.

Running == pusher # "panicked"
Push == PushCheck \/ PushSend \/ PushTimeout \/ PushPanics
Work(w) == Take(w) \/ Replay(w) \/ Leave(w)
Monitor == MonitorReads \/ StopMarks \/ StopCloses \/ StopEnds

Next == Running /\ (Push \/ CreateDatabase \/ Monitor \/ \E w \in Workers : Work(w))

Fairness ==
    /\ WF_vars(Running /\ Push) /\ WF_vars(Running /\ Monitor)
    /\ \A w \in Workers : WF_vars(Running /\ Work(w))

Spec == Init /\ [][Next]_vars
FairSpec == Spec /\ Fairness

-----------------------------------------------------------------------------
(* Properties *)

TypeOK ==
    /\ pusher \in {"check", "send", "done", "panicked"}
    /\ next \in 1..(NumRecords + 1)
    /\ recordChan \in Seq(Records) /\ Len(recordChan) <= ChanCap
    /\ chanClosed \in BOOLEAN
    /\ doing \in [Workers -> Records \cup {NoRecord}]
    /\ exited \subseteq Workers
    /\ errChan \in 0..Cardinality(Workers)
    /\ monitor \in {"range", "stop", "wait", "stopped"}
    /\ errors \in 0..(ErrorLimit + 1)
    /\ isRunning \in BOOLEAN /\ created \in BOOLEAN
    /\ recovered \subseteq Records /\ failed \subseteq Records /\ dropped \subseteq Records

\* A record the loop is past is in exactly one place: in the channel, with one worker,
\* counted once as recovered or failed, or given up.  A record in the channel or with a
\* worker is never lost or replayed twice by other workers or by Stop.  A record that
\* Push gave up is lost for good, whatever the log line says of a delay: none of the
\* first ChanCap records is, as long as nothing has stopped the recovery.
Queued == {recordChan[i] : i \in 1..Len(recordChan)}
InWork == {doing[w] : w \in Workers} \ {NoRecord}
EachRecordOnce ==
    /\ 1..(next - 1) = Queued \cup InWork \cup recovered \cup failed \cup dropped
    /\ Cardinality(Queued) = Len(recordChan)
    /\ \A v, w \in Workers : doing[v] = doing[w] /\ doing[v] # NoRecord => v = w
    /\ \A A, B \in {Queued, InWork, recovered, failed, dropped} : A # B => A \cap B = {}
    /\ isRunning => \A r \in dropped : r > ChanCap

\* "Wait for the buffer to be processed before closing": when Stop has returned no
\* record is left in the channel or with a worker, so none sends on a closed errChan.
StopDrains == monitor = "stopped" => Queued = {} /\ InWork = {}

\* The workers get through the channel, whether or not the monitor stops them.
EveryRecordSettles ==
    \A r \in Records : r \in Queued ~> r \in recovered \cup failed \/ ~Running
=============================================================================
