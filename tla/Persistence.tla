----------------------------- MODULE Persistence -----------------------------
(***************************************************************************)
(* PersistenceManager of internal/storage/persistence.go under main of     *)
(* cmd/futriis/main.go: checkpointLoop saves every database now and then   *)
(* and removes old snapshots; on a signal the shutdown goroutine calls     *)
(* SaveAll and then Stop, which saves once more, while main leaves half a  *)
(* second after the signal; the process may end anywhere and start again.  *)
(* LoadAll has no callers: a start finds the storage empty.                *)
(* Snapshots are compressed, as by default, so that one cut short cannot be*)
(* read, and no two files have the same time of modification.              *)
(***************************************************************************)
EXTENDS Naturals, FiniteSets, FiniteSetsExt

CONSTANTS
    Databases,
    Collections,     \* of every database
    MaxCheckpoints,  \* files cleanupOldCheckpoints keeps, of all databases (10 in the code)
    MaxWrites,       \* bound on client writes
    MaxRounds,       \* bound on ticks of checkpointLoop
    MaxLives,        \* bound on starts of the process
    MaxFailures      \* bound on disk errors

ASSUME CheckpointsAssumption ==
    /\ IsFiniteSet(Databases) /\ IsFiniteSet(Collections)
    /\ MaxCheckpoints \in Nat \ {0}
    /\ MaxWrites \in Nat /\ MaxRounds \in Nat /\ MaxLives \in Nat /\ MaxFailures \in Nat

\* Who calls SaveDatabase: checkpointLoop, the SaveAll of the shutdown, and Stop.
Savers == {"loop", "final", "stop"}
Nobody == "nobody"
Empty == [c \in Collections |-> 0]
Unread == {}

VARIABLES
    up,            \* the process runs
    exists,        \* databases of the storage
    content,       \* Databases -> Collections -> stamp of the last write
    writes,        \* stamps used
    disk,          \* snapshot files
    clock,         \* modification times used
    checkpointID,
    mu,            \* who holds pm.mu
    saver,         \* Savers -> where it is
    listed,        \* the files cleanupOldCheckpoints has listed, or {}
    stopChan,      \* closed by Stop
    shutdown,      \* where the shutdown goroutine is
    rounds, lives, failures

VARIABLES          \* history
    saved,         \* the content of the last snapshot of each database SaveDatabase
                   \* completed in this life of the process; Unread before
    atStop         \* the databases and their content when Stop began to save

files == <<disk, clock>>
bounds == <<rounds, lives, failures>>
memory == <<exists, content, writes>>
saveVars == <<up, memory, files, checkpointID, mu, saver, listed, stopChan, shutdown,
          bounds, saved, atStop>>

Idle == [pc |-> "idle", todo |-> {}, db |-> Nobody, version |-> 0,
         snapshot |-> Unread, at |-> 0, error |-> FALSE]

\* The memory of a process that has not begun.
Fresh ==
    /\ exists' = {} /\ content' = [d \in Databases |-> Empty]
    /\ checkpointID' = 0 /\ mu' = Nobody
    /\ saver' = [s \in Savers |-> Idle]
    /\ listed' = {} /\ stopChan' = FALSE /\ shutdown' = "no"
    /\ saved' = [d \in Databases |-> Unread] /\ atStop' = {}

SaveInit ==
    /\ up = TRUE
    /\ exists = {} /\ content = [d \in Databases |-> Empty] /\ writes = 0
    /\ disk = {} /\ clock = 0
    /\ checkpointID = 0 /\ mu = Nobody
    /\ saver = [s \in Savers |-> Idle]
    /\ listed = {} /\ stopChan = FALSE /\ shutdown = "no"
    /\ rounds = 0 /\ lives = 1 /\ failures = 0
    /\ saved = [d \in Databases |-> Unread] /\ atStop = {}

\* A snapshot file: snapshot_<db>_<version>.json.gz, with .tmp.<checksum> behind it
\* while it is written; `at' is its modification time.
File(d, v, tmp, at, snap) ==
    [db |-> d, version |-> v, tmp |-> tmp, at |-> at, content |-> snap]
SameName(f, g) ==
    f.db = g.db /\ f.version = g.version /\ f.tmp = g.tmp /\ (f.tmp => f.at = g.at)

\* findLatestSnapshot: a file that does not end in .gz is not unpacked and skipped.
Valid(d) == {f \in disk : f.db = d /\ ~f.tmp}
LatestSnapshot(d) == CHOOSE f \in Valid(d) : \A g \in Valid(d) : g.at <= f.at

-----------------------------------------------------------------------------
(* The decisions below, each with a slip (..._slip) that no action uses. *)

\* cleanupOldCheckpoints sorts by modification time and removes the oldest.
Oldest_slip(F, n) == {A \in SUBSET F : Cardinality(A) = n
                        /\ \A f \in A, g \in F \ A : f.version <= g.version}
Oldest(F, n) == {A \in SUBSET F : Cardinality(A) = n
                        /\ \A f \in A, g \in F \ A : f.at <= g.at}

\* SaveDatabase holds pm.mu from the version it draws to the rename.
MayBegin_slip == TRUE
MayBegin == mu = Nobody

\* Stop waits for checkpointLoop (wg.Wait) and saves after it.
MayStopSave_slip == stopChan
MayStopSave == stopChan /\ saver["loop"].pc = "left"

\* checkpointLoop returns once stopChan is closed.
MayLeave_slip == stopChan /\ rounds = 0
MayLeave == stopChan

-----------------------------------------------------------------------------
(* Clients *)

\* CreateDatabase
Create(d) ==
    /\ up /\ d \notin exists
    /\ exists' = exists \cup {d}
    /\ UNCHANGED <<up, content, writes, files, checkpointID, mu, saver, listed, stopChan,
                   shutdown, bounds, saved, atStop>>

\* A change of a document.
Write(d, c) ==
    /\ up /\ d \in exists /\ writes < MaxWrites
    /\ writes' = writes + 1
    /\ content' = [content EXCEPT ![d][c] = writes + 1]
    /\ UNCHANGED <<up, exists, files, checkpointID, mu, saver, listed, stopChan, shutdown,
                   bounds, saved, atStop>>

-----------------------------------------------------------------------------
(* SaveAll and SaveDatabase *)

At(s, pc) == up /\ saver[s].pc = pc
Goto(s, r) == saver' = [saver EXCEPT ![s] = r]

\* SaveAll lists the databases.
SaveAll(s) == Goto(s, [Idle EXCEPT !.pc = "next", !.todo = exists])

\* SaveDatabase: pm.mu is taken and the next version drawn.
Begin(s, d) ==
    /\ At(s, "next") /\ d \in saver[s].todo /\ MayBegin
    /\ mu' = s
    /\ checkpointID' = checkpointID + 1
    /\ Goto(s, [saver[s] EXCEPT !.pc = "read", !.todo = @ \ {d}, !.db = d,
                                !.version = checkpointID + 1, !.snapshot = Unread])
    /\ UNCHANGED <<up, memory, files, listed, stopChan, shutdown, bounds, saved, atStop>>

\* The documents of one collection after the other, without a lock on the database.
Read(s, c) ==
    LET r == saver[s]
    IN /\ At(s, "read") /\ c \notin {p[1] : p \in r.snapshot}
       /\ LET got == r.snapshot \cup {<<c, content[r.db][c]>>}
          IN Goto(s, [r EXCEPT !.snapshot = got,
                          !.pc = IF Cardinality(got) = Cardinality(Collections)
                                 THEN "write" ELSE "read"])
       /\ UNCHANGED <<up, memory, files, checkpointID, mu, listed, stopChan, shutdown,
                      bounds, saved, atStop>>

TmpOf(r, F) == {f \in F : f.tmp /\ f.db = r.db /\ f.version = r.version /\ f.at = r.at}

\* syncWriteFile: WriteFile and fsync of the temporary file.
WriteTmp(s) ==
    LET r == saver[s]
    IN /\ At(s, "write")
       /\ clock' = clock + 1
       /\ disk' = disk \cup {File(r.db, r.version, TRUE, clock + 1, r.snapshot)}
       /\ Goto(s, [r EXCEPT !.pc = "rename", !.at = clock + 1])
       /\ UNCHANGED <<up, memory, checkpointID, mu, listed, stopChan, shutdown, bounds,
                      saved, atStop>>

\* Rename puts the file in the place of one of the same name from an earlier life.  The
\* temporary file is there: it is the newest, and cleanupOldCheckpoints keeps that one.
Rename(s) ==
    LET r == saver[s]
        tmp == TmpOf(r, disk)
    IN /\ At(s, "rename") /\ tmp # {}
       /\ disk' = {f \in disk \ tmp : f.tmp \/ f.db # r.db \/ f.version # r.version}
                    \cup {[f EXCEPT !.tmp = FALSE] : f \in tmp}
       /\ saved' = [saved EXCEPT ![r.db] = r.snapshot]
       /\ mu' = Nobody
       /\ Goto(s, [r EXCEPT !.pc = "next"])
       /\ UNCHANGED <<up, memory, clock, checkpointID, listed, stopChan, shutdown, bounds, atStop>>

Failed(s) ==
    /\ mu' = Nobody
    /\ Goto(s, [saver[s] EXCEPT !.pc = "next", !.error = TRUE])

\* An error of WriteFile leaves the temporary file; one of fsync or Rename removes it.
SaveFails(s) ==
    LET r == saver[s]
    IN /\ failures < MaxFailures
       /\ At(s, "rename") /\ disk' \in {disk, disk \ TmpOf(r, disk)}
       /\ failures' = failures + 1
       /\ Failed(s)
       /\ UNCHANGED <<up, memory, clock, checkpointID, listed, stopChan, shutdown, rounds,
                      lives, saved, atStop>>

\* SaveAll returns: checkpointLoop goes on to the cleanup if nothing failed.
AllSaved(s) ==
    /\ At(s, "next") /\ saver[s].todo = {}
    /\ Goto(s, [saver[s] EXCEPT !.pc = IF s # "loop" THEN "done"
                                       ELSE IF saver[s].error THEN "idle" ELSE "cleanup"])
    /\ UNCHANGED <<up, memory, files, checkpointID, mu, listed, stopChan, shutdown, bounds,
                   saved, atStop>>

-----------------------------------------------------------------------------
(* checkpointLoop *)

Tick ==
    /\ At("loop", "idle") /\ rounds < MaxRounds
    /\ rounds' = rounds + 1
    /\ SaveAll("loop")
    /\ UNCHANGED <<up, memory, files, checkpointID, mu, listed, stopChan, shutdown, lives,
                   failures, saved, atStop>>

LoopLeaves ==
    /\ At("loop", "idle") /\ MayLeave
    /\ Goto("loop", [Idle EXCEPT !.pc = "left"])
    /\ UNCHANGED <<up, memory, files, checkpointID, mu, listed, stopChan, shutdown, bounds,
                   saved, atStop>>

\* cleanupOldCheckpoints: the pattern takes in temporary files and every database.
CleanupList ==
    /\ At("loop", "cleanup")
    /\ listed' = disk
    /\ Goto("loop", [saver["loop"] EXCEPT !.pc =
                       IF Cardinality(disk) <= MaxCheckpoints THEN "idle" ELSE "remove"])
    /\ UNCHANGED <<up, memory, files, checkpointID, mu, stopChan, shutdown, bounds, saved, atStop>>

\* The sort asks for the times now.  With a file gone meanwhile the comparison is no
\* order, and any files may come first.  Files are removed by name.
CleanupRemove ==
    LET Now(f) == {g \in disk : SameName(f, g)}
        n == Cardinality(listed) - MaxCheckpoints
        here == UNION {Now(f) : f \in listed}
    IN /\ At("loop", "remove")
       /\ \E A \in IF \A f \in listed : Now(f) # {} THEN Oldest(here, n)
                    ELSE UNION {kSubset(k, here) : k \in 0..n} :
             disk' = disk \ A
       /\ listed' = {}
       /\ Goto("loop", Idle)
       /\ UNCHANGED <<up, memory, clock, checkpointID, mu, stopChan, shutdown, bounds,
                      saved, atStop>>

-----------------------------------------------------------------------------
(* The shutdown goroutine of main, and the end of the process *)

\* A signal has come and the REPL and the HTTP server are closed.
Signal ==
    /\ up /\ shutdown = "no"
    /\ shutdown' = "save"
    /\ SaveAll("final")
    /\ UNCHANGED <<up, memory, files, checkpointID, mu, listed, stopChan, bounds, saved, atStop>>

\* SaveAll is done, or 15 seconds are over and it goes on meanwhile; raftCoordinator.Stop
\* comes to PersistenceManager.Stop, which closes stopChan.
BeginStop ==
    /\ up /\ shutdown = "save"
    /\ shutdown' = "stop" /\ stopChan' = TRUE
    /\ Goto("stop", [Idle EXCEPT !.pc = "wait"])
    /\ UNCHANGED <<up, memory, files, checkpointID, mu, listed, bounds, saved, atStop>>

\* wg.Wait returns.
StopWaited ==
    /\ At("stop", "wait") /\ MayStopSave
    /\ SaveAll("stop")
    /\ atStop' = {<<d, content[d]>> : d \in exists}
    /\ UNCHANGED <<up, memory, files, checkpointID, mu, listed, stopChan, shutdown, bounds, saved>>

\* main returns half a second after replInstance.Run did, wherever the shutdown
\* goroutine is.
MainReturns ==
    /\ up /\ shutdown # "no"
    /\ up' = FALSE /\ Fresh
    /\ UNCHANGED <<writes, files, bounds>>

\* A crash, Ctrl-D or the command quit: nothing is saved.
Killed ==
    /\ up /\ shutdown = "no"
    /\ up' = FALSE /\ Fresh
    /\ UNCHANGED <<writes, files, bounds>>

\* NewPersistenceManager and Start: versions start at 1 again, nothing is loaded.
Restart ==
    /\ ~up /\ lives < MaxLives
    /\ up' = TRUE /\ lives' = lives + 1
    /\ UNCHANGED <<memory, files, checkpointID, mu, saver, listed, stopChan, shutdown,
                   rounds, failures, saved, atStop>>

-----------------------------------------------------------------------------
SaverStep(s) ==
    \/ WriteTmp(s) \/ Rename(s) \/ AllSaved(s)
    \/ \E d \in Databases : Begin(s, d)
    \/ \E c \in Collections : Read(s, c)

SaveNext ==
    \/ \E d \in Databases : Create(d)
    \/ \E d \in Databases, c \in Collections : Write(d, c)
    \/ \E s \in Savers : SaverStep(s) \/ SaveFails(s)
    \/ Tick \/ LoopLeaves \/ CleanupList \/ CleanupRemove
    \/ Signal \/ BeginStop \/ StopWaited
    \/ MainReturns \/ Killed \/ Restart

SaveSpec == SaveInit /\ [][SaveNext]_saveVars

\* Goroutines run on; nothing forces ticks, clients, signals, failures or ends.
SaveFairSpec ==
    /\ SaveSpec
    /\ \A s \in Savers : WF_saveVars(SaverStep(s))
    /\ WF_saveVars(LoopLeaves) /\ WF_saveVars(CleanupList) /\ WF_saveVars(CleanupRemove)
    /\ WF_saveVars(StopWaited)

-----------------------------------------------------------------------------
(* Properties *)

Snapshots == [Collections -> 0..MaxWrites]
AsSet(snap) == {<<c, snap[c]>> : c \in Collections}

SaveTypeOK ==
    /\ up \in BOOLEAN /\ exists \subseteq Databases
    /\ content \in [Databases -> Snapshots] /\ writes \in 0..MaxWrites
    /\ \A f \in disk : f.db \in Databases /\ f.at \in 1..clock
    /\ mu \in Savers \cup {Nobody}
    /\ \A s \in Savers : saver[s].pc \in {"idle", "next", "read", "write", "rename",
            "cleanup", "remove", "left", "wait", "done"}
    /\ shutdown \in {"no", "save", "stop"} /\ stopChan = (shutdown = "stop")

\* What a recovery would find for d if it were to run now.
OnDisk(d) == IF Valid(d) = {} THEN Unread ELSE LatestSnapshot(d).content
CoveredBy(old, new) == \A p \in old : \E q \in new : q[1] = p[1] /\ q[2] >= p[2]

\* While no shutdown runs, the newest readable snapshot of each database is the last one
\* SaveDatabase completed: neither the removal of old checkpoints, nor a temporary file
\* a failed save left, nor a file name an earlier life of the process has used, takes it
\* away.  It needs as many checkpoints as there are databases.
SavedStays ==
    (up /\ shutdown = "no" /\ MaxCheckpoints >= Cardinality(Databases)) =>
        \A d \in Databases : saved[d] # Unread => OnDisk(d) = saved[d]

\* When Stop has returned without an error, the newest snapshot of every database
\* that existed when it began to save is at least as new in every collection, whatever
\* the loop and a SaveAll that outlived its 15 seconds were doing.
StopSavesAll ==
    (up /\ saver["stop"].pc = "done" /\ ~saver["stop"].error) =>
        \A p \in atStop : CoveredBy(AsSet(p[2]), OnDisk(p[1]))

\* Stop returns unless the process ends first: it waits for a loop that may be in a save
\* or a cleanup, and for the mutex.
StopReturns == shutdown = "stop" ~> (saver["stop"].pc = "done" \/ ~up)
=============================================================================
