---------------------------- MODULE Transactions ----------------------------
(***************************************************************************)
(* TransactionManager of internal/storage/transactions.go and the inserts  *)
(* of internal/commands/crud.go that go through it.                        *)
(*                                                                         *)
(* The process has one current transaction, currentTx, shared by every     *)
(* client: the REPL, each HTTP request, the plugins and the migrator.      *)
(* Begin overwrites it, staging appends to it, commit logs its operations, *)
(* waits for the log, applies them one by one and clears it.  Each         *)
(* transaction has a timer that aborts it.  A client is between two steps  *)
(* wherever another client, a timer or the log can act before its next one.*)
(* Merged are the stores of a begin, the three of a timer that aborts, and *)
(* State with the counters and the timer at the end of a commit or an abort:*)
(* no guard of another step reads two of them, so what would be seen between*)
(* two of these stores is only a statistic or a listing of the transactions.*)
(*                                                                         *)
(* The log is WAL with one record per flush: a token of WriteSync says     *)
(* that some record was flushed.                                           *)
(***************************************************************************)
EXTENDS Naturals, Sequences, FiniteSets

CONSTANTS
    Clients,
    Docs,        \* documents, each staged or inserted once: IDs are fresh
    UniqueKey,   \* Docs -> the key the unique index of the collection stores
    MaxTx,       \* bound: transactions ever begun
    MaxWrites,   \* bound: records ever handed to the log
    Width        \* the counter wraps at Width (2^64 in the code)

ASSUME BoundsAssumption ==
    /\ MaxTx \in Nat /\ MaxWrites \in Nat
    /\ Width \in Nat \ {0}

Tx == 1..MaxTx
NoTx == 0                  \* txHolder{tx: nil}
NoRecord == [tx |-> NoTx, ops |-> <<>>]

VARIABLES
    current,               \* currentTx
    nextTxID,
    state,                 \* Tx -> Transaction.State, "none" before it begins
    ops,                   \* Tx -> Transaction.Operations
    active,                \* keys of activeTransactions
    armed,                 \* transactions whose timeoutTimer is running
    elapsed,               \* transactions older than their timeout
    firing,                \* timer callbacks past their check of State
    committed, aborted, timedOut, activeCount,      \* stats
    at,                    \* Clients -> where its call is
    tx,                    \* Clients -> the transaction that call read
    todo,                  \* Clients -> operations its range loop has left
    queue,                 \* records on their way through the log
    wal,                   \* records on disk
    tokens,                \* ackChan
    docs                   \* documents in the storage

VARIABLES                  \* history, read by no action
    used,                  \* documents handed out so far
    applied,               \* Tx -> documents its commits inserted
    wrote,                 \* Clients -> the record its latest commit handed to the log
    nils,                  \* the records of the commits that returned nil
    removed                \* documents that ever left the storage

txVars == <<current, nextTxID, state, ops, active>>
timerVars == <<armed, elapsed, firing>>
stats == <<committed, aborted, timedOut, activeCount>>
clientVars == <<at, tx, todo>>
logVars == <<queue, wal, tokens>>
history == <<used, applied, wrote, nils, removed>>
vars == <<current, nextTxID, state, ops, active, armed, elapsed, firing, committed,
          aborted, timedOut, activeCount, at, tx, todo, queue, wal, tokens, docs,
          used, applied, wrote, nils, removed>>

Init ==
    /\ current = NoTx /\ nextTxID = 1
    /\ state = [t \in Tx |-> "none"]
    /\ ops = [t \in Tx |-> <<>>]
    /\ active = {}
    /\ armed = {} /\ elapsed = {} /\ firing = {}
    /\ committed = 0 /\ aborted = 0 /\ timedOut = 0 /\ activeCount = 0
    /\ at = [c \in Clients |-> "idle"]
    /\ tx = [c \in Clients |-> NoTx]
    /\ todo = [c \in Clients |-> <<>>]
    /\ queue = <<>> /\ wal = <<>> /\ tokens = 0
    /\ docs = {}
    /\ used = {}
    /\ applied = [t \in Tx |-> {}]
    /\ wrote = [c \in Clients |-> NoRecord]
    /\ nils = <<>>
    /\ removed = {}

-----------------------------------------------------------------------------
(* Helpers.  A definition called ..._slip is a slip in the one below it. *)

\* atomic.Uint64: Add(1) and Add(^uint64(0)).
Up(n) == IF n = Width - 1 THEN 0 ELSE n + 1
Down_slip(n) == IF n = 0 THEN Width ELSE n - 1
Down(n) == IF n = 0 THEN Width - 1 ELSE n - 1

\* Collection.Insert refuses a document that is there now, and a second document with
\* the key of the unique index.
Insertable_slip(d) == \A e \in docs : e = d \/ UniqueKey[e] # UniqueKey[d]
Insertable(d) == \A e \in docs : UniqueKey[e] # UniqueKey[d]

Goto(c, where) == at' = [at EXCEPT ![c] = where]
Return(c) ==
    /\ at' = [at EXCEPT ![c] = "idle"]
    /\ tx' = [tx EXCEPT ![c] = NoTx]
    /\ todo' = [todo EXCEPT ![c] = <<>>]
    /\ wrote' = [wrote EXCEPT ![c] = NoRecord]

\* Records of t the log accepted.
Record(t) == [tx |-> t, ops |-> ops[t]]
Accepted(t) == {i \in 1..Len(queue) : queue[i].tx = t} # {}
                 \/ {i \in 1..Len(wal) : wal[i].tx = t} # {}

\* wal.WriteSync(walRecord), whatever the transaction holds and the log has to do.
LogWith_slip(t) == IF queue # <<>> THEN queue ELSE Append(queue, Record(t))
LogWith(t) == Append(queue, Record(t))

\* tx.mu, a sync.RWMutex: a writer waits for the readers, and a reader for the writers
\* that wait.
Read(t) == \E c \in Clients : at[c] = "listing" /\ tx[c] = t
WriterWaits(t) == \E c \in Clients : at[c] = "locking" /\ tx[c] = t
MayRead_slip(t) == ~WriterWaits(t) /\ ~Read(t)
MayRead(t) == ~WriterWaits(t)

\* The timers still running after transaction t is marked as ended.
TimersAfter(t) == armed \ {t}

\* What Begin does to activeTransactions and to the timers.
Tracked_slip(t) == active
Tracked(t) == active \cup {t}

\* CommitCurrentTransaction leaves the timer of t alone until t is committed.
TimersDuringCommit_slip(t) == armed \ {t}
TimersDuringCommit(t) == armed

\* The timer callback counts what it ends.
TimerCount_slip == activeCount
TimerCount == Down(activeCount)

-----------------------------------------------------------------------------
(* BeginTransactionWithOptions *)

Begin(c) ==
    /\ at[c] = "idle"
    /\ nextTxID \in Tx
    /\ nextTxID' = nextTxID + 1
    /\ state' = [state EXCEPT ![nextTxID] = "active"]
    /\ active' = Tracked(nextTxID)
    /\ current' = nextTxID
    /\ armed' = armed \cup {nextTxID}
    /\ activeCount' = Up(activeCount)
    /\ UNCHANGED <<ops, elapsed, firing, committed, aborted, timedOut, clientVars,
                   logVars, docs, history>>

\* The time.AfterFunc callback: it checks State, and acts on what it saw.
Elapse(t) ==
    /\ state[t] = "active"
    /\ t \notin elapsed
    /\ elapsed' = elapsed \cup {t}
    /\ UNCHANGED <<txVars, armed, firing, stats, clientVars, logVars, docs, history>>

TimerFires(t) ==
    /\ t \in armed \cap elapsed
    /\ armed' = armed \ {t}
    /\ firing' = IF state[t] = "active" THEN firing \cup {t} ELSE firing
    /\ UNCHANGED <<txVars, elapsed, stats, clientVars, logVars, docs, history>>

TimerAborts(t) ==
    /\ t \in firing
    /\ firing' = firing \ {t}
    /\ state' = [state EXCEPT ![t] = "aborted"]
    /\ active' = active \ {t}
    /\ timedOut' = timedOut + 1
    /\ activeCount' = TimerCount
    /\ UNCHANGED <<current, nextTxID, ops, armed, elapsed, committed, aborted,
                   clientVars, logVars, docs, history>>

-----------------------------------------------------------------------------
(* Inserts of a client (executeInsertWithTransaction).  Updates and deletes say "staged
   for transaction" and stage nothing. *)

\* AddToTransaction reads currentTx and its State ...
StageCheck(c, d) ==
    /\ at[c] = "idle" /\ d \notin used
    /\ current # NoTx /\ state[current] = "active"
    /\ used' = used \cup {d}
    /\ tx' = [tx EXCEPT ![c] = current]
    /\ todo' = [todo EXCEPT ![c] = <<d>>]
    /\ Goto(c, "staging")
    /\ UNCHANGED <<txVars, timerVars, stats, logVars, docs, applied, wrote, nils, removed>>

\* ... and appends under tx.mu, which commit does not take.
StageLock(c) ==
    /\ at[c] = "staging" /\ Read(tx[c])
    /\ Goto(c, "locking")
    /\ UNCHANGED <<txVars, timerVars, stats, tx, todo, logVars, docs, history>>

StageAppend(c) ==
    /\ at[c] \in {"staging", "locking"} /\ ~Read(tx[c])
    /\ ops' = [ops EXCEPT ![tx[c]] = @ \o todo[c]]
    /\ Return(c)
    /\ UNCHANGED <<current, nextTxID, state, active, timerVars, stats, logVars, docs,
                   used, applied, nils, removed>>

\* Without a current transaction the insert goes straight to the collection.
DirectInsert(c, d) ==
    /\ at[c] = "idle" /\ d \notin used
    /\ current = NoTx
    /\ used' = used \cup {d}
    /\ docs' = IF Insertable(d) THEN docs \cup {d} ELSE docs
    /\ UNCHANGED <<txVars, timerVars, stats, clientVars, logVars, applied, wrote,
                   nils, removed>>

\* A document leaves the storage: by Delete or PermanentDelete of its collection, which the
\* REPL, the HTTP handlers and the plugins call whatever is current, by the drop of its
\* collection or database, or because it expired.
Remove(d) ==
    /\ d \in docs
    /\ docs' = docs \ {d}
    /\ removed' = removed \cup {d}
    /\ UNCHANGED <<txVars, timerVars, stats, clientVars, logVars, used, applied, wrote,
                   nils>>

-----------------------------------------------------------------------------
(* GetActiveTransactions, at one of the transactions it lists *)

ListRead(c, t) ==
    /\ at[c] = "idle" /\ t \in active /\ MayRead(t)
    /\ tx' = [tx EXCEPT ![c] = t]
    /\ Goto(c, "listing")
    /\ UNCHANGED <<txVars, timerVars, stats, todo, logVars, docs, history>>

\* GetSavepoints takes tx.mu again, under the first lock.
ListAgain(c) ==
    /\ at[c] = "listing" /\ MayRead(tx[c])
    /\ Return(c)
    /\ UNCHANGED <<txVars, timerVars, stats, logVars, docs, used, applied, nils,
                   removed>>

-----------------------------------------------------------------------------
(* CommitCurrentTransaction *)

\* Its checks pass, the operations are marshalled and sent to the log.
CommitLog(c) ==
    /\ at[c] = "idle"
    /\ current # NoTx /\ state[current] = "active" /\ current \notin elapsed
    /\ Len(queue) + Len(wal) < MaxWrites
    /\ tx' = [tx EXCEPT ![c] = current]
    /\ queue' = LogWith(current)
    /\ armed' = TimersDuringCommit(current)
    /\ Goto(c, "logging")
    /\ wrote' = [wrote EXCEPT ![c] = Record(current)]
    /\ UNCHANGED <<txVars, elapsed, firing, stats, todo, wal, tokens, docs, used, applied,
                   nils, removed>>

\* The timeout check fails: AbortCurrentTransaction, which reads currentTx anew.
CommitTooLate(c) ==
    /\ at[c] = "idle"
    /\ current \in elapsed /\ state[current] = "active"
    /\ Goto(c, "aborting")
    /\ UNCHANGED <<txVars, timerVars, stats, tx, todo, logVars, docs, history>>

\* WriteSync returned nil; the range loop takes the operations as they are now.
CommitLogged(c) ==
    /\ at[c] = "logging" /\ tokens > 0
    /\ tokens' = tokens - 1
    /\ todo' = [todo EXCEPT ![c] = ops[tx[c]]]
    /\ Goto(c, "applying")
    /\ UNCHANGED <<txVars, timerVars, stats, tx, queue, wal, docs, history>>

\* WriteSync timed out: the error is returned, the transaction stays current.
CommitLogFails(c) ==
    /\ at[c] = "logging"
    /\ Return(c)
    /\ UNCHANGED <<txVars, timerVars, stats, logVars, docs, used, applied, nils,
                   removed>>

\* applyOperation inserts the next document ...
Apply(c) ==
    /\ at[c] = "applying" /\ todo[c] # <<>>
    /\ LET d == Head(todo[c]) IN
         /\ Insertable(d)
         /\ docs' = docs \cup {d}
         /\ applied' = [applied EXCEPT ![tx[c]] = @ \cup {d}]
    /\ todo' = [todo EXCEPT ![c] = Tail(@)]
    /\ UNCHANGED <<txVars, timerVars, stats, at, tx, logVars, used, wrote, nils, removed>>

\* ... or fails, at whichever operation: the collection refuses the document, it is at
\* its limit, or it or its database has been dropped.  What was applied stays.
ApplyFails(c) ==
    /\ at[c] = "applying" /\ todo[c] # <<>>
    /\ Goto(c, "aborting")
    /\ UNCHANGED <<txVars, timerVars, stats, tx, todo, logVars, docs, history>>

\* State.Store, the counters and timeoutTimer.Stop ...
CommitMark(c) ==
    /\ at[c] = "applying" /\ todo[c] = <<>>
    /\ state' = [state EXCEPT ![tx[c]] = "committed"]
    /\ committed' = committed + 1
    /\ activeCount' = Down(activeCount)
    /\ armed' = TimersAfter(tx[c])
    /\ Goto(c, "clearing")
    /\ nils' = Append(nils, wrote[c])
    /\ UNCHANGED <<current, nextTxID, ops, active, elapsed, firing, aborted, timedOut,
                   tx, todo, logVars, docs, used, applied, wrote, removed>>

\* ... then clearCurrentTx, whatever is current by now, and Delete.
Clear(c) ==
    /\ at[c] = "clearing"
    /\ current' = NoTx
    /\ active' = active \ {tx[c]}
    /\ Return(c)
    /\ UNCHANGED <<nextTxID, state, ops, timerVars, stats, logVars, docs, used, applied,
                   nils, removed>>

-----------------------------------------------------------------------------
(* AbortCurrentTransaction: as a call of its own, or from a commit that failed *)

AbortCall(c) ==
    /\ at[c] = "idle" /\ current # NoTx
    /\ Goto(c, "aborting")
    /\ UNCHANGED <<txVars, timerVars, stats, tx, todo, logVars, docs, history>>

AbortRead(c) ==
    /\ at[c] = "aborting"
    /\ \/ /\ current # NoTx
          /\ tx' = [tx EXCEPT ![c] = current]
          /\ todo' = [todo EXCEPT ![c] = <<>>]
          /\ Goto(c, "marking")
          /\ UNCHANGED wrote
       \/ current = NoTx /\ Return(c)
    /\ UNCHANGED <<txVars, timerVars, stats, logVars, docs, used, applied, nils,
                   removed>>

\* No check of State: an ended transaction is ended, and counted, again.
AbortMark(c) ==
    /\ at[c] = "marking"
    /\ state' = [state EXCEPT ![tx[c]] = "aborted"]
    /\ aborted' = aborted + 1
    /\ activeCount' = Down(activeCount)
    /\ armed' = TimersAfter(tx[c])
    /\ Goto(c, "clearing")
    /\ UNCHANGED <<current, nextTxID, ops, active, elapsed, firing, committed, timedOut,
                   tx, todo, logVars, docs, history>>

-----------------------------------------------------------------------------
\* The writer goroutine of the log flushes the oldest record.
Flush ==
    /\ queue # <<>>
    /\ wal' = Append(wal, Head(queue))
    /\ queue' = Tail(queue)
    /\ tokens' = tokens + 1
    /\ UNCHANGED <<txVars, timerVars, stats, clientVars, docs, history>>

ClientCall(c) ==
    \/ Begin(c) \/ CommitLog(c) \/ CommitTooLate(c) \/ AbortCall(c)
    \/ \E d \in Docs : StageCheck(c, d) \/ DirectInsert(c, d)
    \/ \E t \in Tx : ListRead(c, t)
ClientStep(c) ==
    \/ StageLock(c) \/ StageAppend(c) \/ ListAgain(c) \/ CommitLogged(c) \/ CommitLogFails(c)
    \/ Apply(c) \/ ApplyFails(c) \/ CommitMark(c) \/ Clear(c) \/ AbortRead(c) \/ AbortMark(c)
TimerStep(t) == Elapse(t) \/ TimerFires(t) \/ TimerAborts(t)

Next ==
    \/ \E c \in Clients : ClientCall(c) \/ ClientStep(c)
    \/ \E d \in Docs : Remove(d)
    \/ \E t \in Tx : TimerStep(t)
    \/ Flush

\* Timers go off and calls under way go on; no client need ever call again.
Fairness ==
    /\ \A t \in Tx : WF_vars(TimerStep(t))
    /\ \A c \in Clients : WF_vars(ClientStep(c))

Spec == Init /\ [][Next]_vars
FairSpec == Spec /\ Fairness

-----------------------------------------------------------------------------
(* Properties *)

\* The variables keep their types.
Places == {"idle", "staging", "locking", "listing", "logging", "applying", "clearing", "aborting", "marking"}
TypeOK ==
    /\ current \in Tx \cup {NoTx}
    /\ nextTxID \in 1..(MaxTx + 1)
    /\ state \in [Tx -> {"none", "active", "committed", "aborted"}]
    /\ ops \in [Tx -> Seq(Docs)]
    /\ active \subseteq Tx
    /\ armed \subseteq Tx /\ elapsed \subseteq Tx /\ firing \subseteq Tx
    /\ committed \in Nat /\ aborted \in Nat /\ timedOut \in Nat
    /\ activeCount \in 0..(Width - 1)
    /\ at \in [Clients -> Places]
    /\ tx \in [Clients -> Tx \cup {NoTx}]
    /\ todo \in [Clients -> Seq(Docs)]
    /\ queue \in Seq([tx : Tx, ops : Seq(Docs)])
    /\ wal \in Seq([tx : Tx, ops : Seq(Docs)])
    /\ tokens \in Nat
    /\ docs \subseteq Docs /\ used \subseteq Docs
    /\ applied \in [Tx -> SUBSET Docs]
    /\ wrote \in [Clients -> [tx : Tx \cup {NoTx}, ops : Seq(Docs)]]
    /\ nils \in Seq([tx : Tx, ops : Seq(Docs)])
    /\ removed \subseteq Docs

\* GetActiveTransactions lists every active transaction, and beyond those only ones
\* that some client is about to take off the list, however commits, aborts, timers
\* and overwritten currentTx interleave.
ActiveIsTracked ==
    /\ \A t \in Tx : state[t] = "active" => t \in active
    /\ \A t \in active : state[t] = "active"
                         \/ \E c \in Clients : at[c] = "clearing" /\ tx[c] = t

\* "First the WAL, then apply": nothing of a transaction reaches the storage before
\* the log accepted a record of that transaction.
LogBeforeApply == \A t \in Tx : applied[t] # {} => Accepted(t)

\* The four counters of TransactionStats balance modulo their width on every path
\* that ends a transaction, also where ActiveCount passes below zero.
Started == nextTxID - 1
CountersBalance ==
    (committed + aborted + timedOut + activeCount) % Width = Started % Width

\* Two clients may commit the same transaction at once, or one may retry after the
\* log timed out.  A nil commit applied all it logged, and a document is in the records
\* of two nil commits only if it has left the storage: a commit that finds what
\* another one stored fails.
InRecord(r) == {r.ops[i] : i \in 1..Len(r.ops)}
CommittedOnce ==
    /\ \A i \in 1..Len(nils) : InRecord(nils[i]) \subseteq applied[nils[i].tx]
    /\ \A i \in 1..Len(nils) : InRecord(nils[i]) \subseteq docs \cup removed
    /\ \A i, j \in 1..Len(nils) :
          i # j => InRecord(nils[i]) \cap InRecord(nils[j]) \subseteq removed

\* A transaction nobody can reach any more, because another Begin replaced it or its
\* commit failed, is still ended by its timer; and every call returns, unless a client
\* that appends to a transaction waits between the two locks of one that lists it.
Stuck(c) == Read(tx[c]) /\ WriterWaits(tx[c])
EverythingEnds ==
    /\ \A t \in Tx : []<>(state[t] # "active")
    /\ \A c \in Clients : []<>(at[c] = "idle" \/ Stuck(c))
=============================================================================
