------------------------- MODULE TransactionsProofs -------------------------
(***************************************************************************)
(* Proofs about Transactions for every number of clients, documents,       *)
(* transactions and records: the list of active transactions, the order of *)
(* log and storage, the four counters and commits that return nil.         *)
(***************************************************************************)
EXTENDS Transactions, TLAPS, SequenceTheorems

Begun == 1..(nextTxID - 1)
Holding == {"staging", "locking", "listing", "logging", "applying", "clearing", "marking"}
Committing == {"logging", "applying"}

\* What a client, a timer or currentTx refers to has begun, and what has not begun is "none".
Refers ==
    /\ current \in Begun \cup {NoTx}
    /\ armed \subseteq Begun /\ firing \subseteq Begun
    /\ \A t \in Tx : t \in Begun <=> state[t] # "none"
    /\ \A c \in Clients : at[c] \in Holding => tx[c] \in Begun
    /\ \A c \in Clients : at[c] \in Committing => wrote[c].tx = tx[c]

\* An active transaction is on the list, another one only for the client that clears it.
Tracking ==
    /\ ActiveIsTracked
    /\ \A c \in Clients : at[c] = "clearing" => state[tx[c]] # "active"

\* A client that logs or applies has handed a record to the log.
Logging ==
    /\ LogBeforeApply
    /\ \A c \in Clients : at[c] \in Committing => Accepted(tx[c])

\* What a commit logged was staged, and it has applied it or has it still to do.
Elements(s) == {s[i] : i \in 1..Len(s)}
Stored == docs \cup removed
Applying ==
    /\ \A t \in Tx : applied[t] \subseteq Stored
    /\ \A c \in Clients : at[c] = "logging" => InRecord(wrote[c]) \subseteq Elements(ops[tx[c]])
    /\ \A c \in Clients : at[c] = "applying" =>
          InRecord(wrote[c]) \subseteq applied[tx[c]] \cup Elements(todo[c])
    /\ \A i \in 1..Len(nils) : InRecord(nils[i]) \subseteq applied[nils[i].tx]

\* What a commit logged and has behind it.
Behind(c) == IF at[c] = "applying" THEN InRecord(wrote[c]) \ Elements(todo[c]) ELSE {}

\* Two commits have a document behind them only if it left the storage, because the
\* storage refuses a document that it has; the commits that returned nil included.
Once ==
    /\ \A c, e \in Clients : c # e => Behind(c) \cap Behind(e) \subseteq removed
    /\ \A c \in Clients, i \in 1..Len(nils) :
          Behind(c) \cap InRecord(nils[i]) \subseteq removed
    /\ \A i, j \in 1..Len(nils) :
          i # j => InRecord(nils[i]) \cap InRecord(nils[j]) \subseteq removed

\* The counters differ from the transactions begun by whole turns of the counter.
Balanced ==
    \E k \in Int : committed + aborted + timedOut + activeCount = Started + k * Width

\* The inductive invariant.
IInv == TypeOK /\ Refers /\ Tracking /\ Logging /\ Applying /\ Once /\ Balanced

-----------------------------------------------------------------------------
(* Sequences *)

LEMMA ElementsOfConcat ==
    ASSUME NEW S, NEW s \in Seq(S), NEW t \in Seq(S)
    PROVE  Elements(s \o t) = Elements(s) \cup Elements(t)
<1>1. /\ s \o t \in Seq(S) /\ Len(s \o t) = Len(s) + Len(t)
      /\ Len(s) \in Nat /\ Len(t) \in Nat
      /\ \A i \in 1..(Len(s) + Len(t)) :
            (s \o t)[i] = IF i <= Len(s) THEN s[i] ELSE t[i - Len(s)]
  BY ConcatProperties, LenProperties
<1>2. ASSUME NEW i \in 1..Len(s) PROVE s[i] \in Elements(s \o t)
  <2>1. i \in 1..Len(s \o t) /\ (s \o t)[i] = s[i]
    BY <1>1
  <2> QED  BY <2>1 DEF Elements
<1>3. ASSUME NEW i \in 1..Len(t) PROVE t[i] \in Elements(s \o t)
  <2>1. Len(s) + i \in 1..Len(s \o t) /\ (s \o t)[Len(s) + i] = t[i]
    BY <1>1
  <2> QED  BY <2>1 DEF Elements
<1>4. ASSUME NEW i \in 1..Len(s \o t) PROVE (s \o t)[i] \in Elements(s) \cup Elements(t)
  BY <1>1 DEF Elements
<1> QED  BY <1>2, <1>3, <1>4 DEF Elements

LEMMA ElementsOfTail ==
    ASSUME NEW S, NEW s \in Seq(S), s # <<>>
    PROVE  Elements(s) = {Head(s)} \cup Elements(Tail(s))
<1>1. /\ Len(s) \in Nat /\ Len(s) >= 1 /\ Head(s) = s[1]
      /\ Len(Tail(s)) = Len(s) - 1
      /\ \A i \in 1..Len(Tail(s)) : Tail(s)[i] = s[i + 1]
  BY HeadTailProperties, LenProperties, EmptySeq
<1>2. ASSUME NEW i \in 1..Len(s), i # 1 PROVE s[i] \in Elements(Tail(s))
  <2>1. i - 1 \in 1..Len(Tail(s)) /\ Tail(s)[i - 1] = s[i]
    BY <1>1, <1>2
  <2> QED  BY <2>1 DEF Elements
<1>3. ASSUME NEW i \in 1..Len(Tail(s)) PROVE Tail(s)[i] \in Elements(s)
  <2>1. i + 1 \in 1..Len(s)
    BY <1>1
  <2> QED  BY <1>1, <2>1 DEF Elements
<1>4. s[1] \in Elements(s)
  BY <1>1 DEF Elements
<1> QED  BY <1>1, <1>2, <1>3, <1>4 DEF Elements

\* A record that is appended is the last one, and the others stay where they are.
LEMMA AppendIndexes ==
    ASSUME NEW S, NEW s \in Seq(S), NEW x \in S
    PROVE  /\ Append(s, x) \in Seq(S) /\ Len(s) \in Nat
           /\ Len(Append(s, x)) = Len(s) + 1
           /\ Append(s, x)[Len(s) + 1] = x
           /\ \A i \in 1..Len(s) : Append(s, x)[i] = s[i]
BY LenProperties, AppendProperties

-----------------------------------------------------------------------------
(* Types, and references to transactions that have begun *)

LEMMA InitIInv == Init => IInv
<1> SUFFICES ASSUME Init PROVE IInv
  OBVIOUS
<1>1. TypeOK
  BY BoundsAssumption DEF Init, TypeOK, NoTx, NoRecord, Places
<1>2. Refers
  BY BoundsAssumption DEF Init, Refers, Begun, NoTx, Tx, Holding, Committing
<1>3. Tracking
  BY DEF Init, Tracking, ActiveIsTracked
<1>4. Logging
  BY DEF Init, Logging, LogBeforeApply, Committing
<1>5. Applying
  BY DEF Init, Applying, Committing
<1>6. Once
  BY DEF Init, Once, Behind
<1>7. Balanced
  <2>1. committed + aborted + timedOut + activeCount = Started + 0 * Width
    BY BoundsAssumption DEF Init, Started
  <2> QED  BY <2>1 DEF Balanced
<1> QED  BY <1>1, <1>2, <1>3, <1>4, <1>5, <1>6, <1>7 DEF IInv

\* The record of a transaction that has begun.
LEMMA RecordType ==
    ASSUME TypeOK, NEW t \in Tx
    PROVE  Record(t) \in [tx : Tx, ops : Seq(Docs)]
BY DEF TypeOK, Record

\* atomic.Uint64 stays a number of its width.
LEMMA CounterType ==
    ASSUME NEW n \in 0..(Width - 1)
    PROVE  Up(n) \in 0..(Width - 1) /\ Down(n) \in 0..(Width - 1)
BY BoundsAssumption DEF Up, Down

\* A client that holds a transaction holds one that has begun.
LEMMA HeldType ==
    ASSUME TypeOK, Refers, NEW c \in Clients, at[c] \in Holding
    PROVE  tx[c] \in Tx /\ ops[tx[c]] \in Seq(Docs) /\ applied[tx[c]] \subseteq Docs
<1>1. tx[c] \in Tx
  BY BoundsAssumption DEF TypeOK, Refers, Begun, Tx
<1> QED  BY <1>1 DEF TypeOK

\* What a call leaves of its client.
ClientTypes ==
    /\ at \in [Clients -> Places]
    /\ tx \in [Clients -> Tx \cup {NoTx}]
    /\ todo \in [Clients -> Seq(Docs)]
    /\ wrote \in [Clients -> [tx : Tx \cup {NoTx}, ops : Seq(Docs)]]

LEMMA ReturnType ==
    ASSUME TypeOK, NEW c \in Clients, Return(c)
    PROVE  ClientTypes'
<1>1. <<>> \in Seq(Docs) /\ NoRecord \in [tx : Tx \cup {NoTx}, ops : Seq(Docs)]
  BY DEF NoRecord
<1>2. "idle" \in Places
  BY DEF Places
<1>3. (at \in [Clients -> Places])'
  BY <1>2 DEF TypeOK, Return
<1>4. (tx \in [Clients -> Tx \cup {NoTx}])'
  BY DEF TypeOK, Return
<1>5. (todo \in [Clients -> Seq(Docs)])'
  BY <1>1 DEF TypeOK, Return
<1>6. (wrote \in [Clients -> [tx : Tx \cup {NoTx}, ops : Seq(Docs)]])'
  BY <1>1 DEF TypeOK, Return
<1> QED  BY <1>3, <1>4, <1>5, <1>6 DEF ClientTypes

LEMMA TypeKeeps ==
    ASSUME IInv, Next
    PROVE  TypeOK'
<1> USE DEF IInv
<1>1. ASSUME NEW c \in Clients, Begin(c) PROVE TypeOK'
  <2>1. /\ nextTxID \in Tx /\ nextTxID' \in 1..(MaxTx + 1)
        /\ activeCount' \in 0..(Width - 1)
    BY <1>1, BoundsAssumption, CounterType DEF TypeOK, Begin, Tx
  <2>2. /\ current' \in Tx \cup {NoTx}
        /\ state' \in [Tx -> {"none", "active", "committed", "aborted"}]
        /\ active' \subseteq Tx /\ armed' \subseteq Tx
    BY <1>1, <2>1 DEF TypeOK, Begin, Tracked
  <2>3. UNCHANGED <<ops, elapsed, firing, committed, aborted, timedOut, clientVars, logVars,
                    docs, history>>
    BY <1>1 DEF Begin
  <2> QED
    BY <2>1, <2>2, <2>3 DEF TypeOK, clientVars, logVars, history
<1>2. ASSUME NEW c \in Clients, NEW d \in Docs, StageCheck(c, d) PROVE TypeOK'
  BY <1>2
     DEF TypeOK, StageCheck, Goto, Places, txVars, timerVars, stats, logVars
<1>3. ASSUME NEW c \in Clients, StageAppend(c) PROVE TypeOK'
  <2>1. ops[tx[c]] \o todo[c] \in Seq(Docs)
    BY <1>3, HeldType, ConcatProperties DEF StageAppend, Holding, TypeOK
  <2>2. ops' \in [Tx -> Seq(Docs)] /\ ClientTypes'
    BY <1>3, <2>1, ReturnType DEF StageAppend, TypeOK
  <2> QED
    BY <1>3, <2>2 DEF TypeOK, StageAppend, ClientTypes, timerVars, stats, logVars
<1>4. ASSUME NEW c \in Clients, NEW d \in Docs, DirectInsert(c, d) PROVE TypeOK'
  BY <1>4
     DEF TypeOK, DirectInsert, txVars, timerVars, stats, clientVars, logVars
<1>5. ASSUME NEW c \in Clients, CommitLog(c) PROVE TypeOK'
  BY <1>5, RecordType, AppendProperties
     DEF TypeOK, CommitLog, LogWith, TimersDuringCommit, Goto, Places, NoTx, Refers, Begun,
         Tx, txVars, stats
<1>6. ASSUME NEW c \in Clients, CommitTooLate(c) PROVE TypeOK'
  BY <1>6
     DEF TypeOK, CommitTooLate, Goto, Places, txVars, timerVars, stats, logVars, history
<1>7. ASSUME NEW c \in Clients, CommitLogged(c) PROVE TypeOK'
  <2>1. ops[tx[c]] \in Seq(Docs) /\ tokens - 1 \in Nat
    BY <1>7, HeldType DEF CommitLogged, Holding, TypeOK
  <2> QED
    BY <1>7, <2>1 DEF TypeOK, CommitLogged, Goto, Places, txVars, timerVars, stats, history
<1>8. ASSUME NEW c \in Clients, CommitLogFails(c) PROVE TypeOK'
  BY <1>8, ReturnType
     DEF TypeOK, CommitLogFails, ClientTypes, txVars, timerVars, stats, logVars
<1>9. ASSUME NEW c \in Clients, Apply(c) PROVE TypeOK'
  <2>1. /\ Head(todo[c]) \in Docs /\ Tail(todo[c]) \in Seq(Docs) /\ tx[c] \in Tx
        /\ applied[tx[c]] \cup {Head(todo[c])} \subseteq Docs
    BY <1>9, HeldType, HeadTailProperties DEF Apply, Holding, TypeOK
  <2> QED
    BY <1>9, <2>1 DEF TypeOK, Apply, txVars, timerVars, stats, logVars
<1>10. ASSUME NEW c \in Clients, CommitMark(c) PROVE TypeOK'
  <2>1. tx[c] \in Tx /\ wrote[c] \in [tx : Tx, ops : Seq(Docs)]
    BY <1>10, HeldType DEF CommitMark, Holding, Committing, Refers, TypeOK
  <2>2. Append(nils, wrote[c]) \in Seq([tx : Tx, ops : Seq(Docs)])
    BY <2>1, AppendProperties DEF TypeOK
  <2>3. Down(activeCount) \in 0..(Width - 1) /\ committed + 1 \in Nat
    BY CounterType DEF TypeOK
  <2> QED
    BY <1>10, <2>2, <2>3 DEF TypeOK, CommitMark, TimersAfter, Goto, Places, logVars
<1>11. ASSUME NEW c \in Clients, Clear(c) PROVE TypeOK'
  BY <1>11, ReturnType
     DEF TypeOK, Clear, ClientTypes, timerVars, stats, logVars
<1>12. ASSUME NEW c \in Clients, AbortCall(c) PROVE TypeOK'
  BY <1>12
     DEF TypeOK, AbortCall, Goto, Places, txVars, timerVars, stats, logVars, history
<1>13. ASSUME NEW c \in Clients, AbortRead(c) PROVE TypeOK'
  <2>1. ClientTypes'
    <3>1. CASE current # NoTx
      <4>1. /\ at' = [at EXCEPT ![c] = "marking"] /\ tx' = [tx EXCEPT ![c] = current]
            /\ todo' = [todo EXCEPT ![c] = <<>>] /\ wrote' = wrote
        BY <1>13, <3>1 DEF AbortRead, Goto
      <4>2. "marking" \in Places /\ <<>> \in Seq(Docs)
        BY DEF Places
      <4> QED  BY <4>1, <4>2 DEF TypeOK, ClientTypes
    <3>2. CASE current = NoTx
      BY <1>13, <3>2, ReturnType DEF AbortRead
    <3> QED  BY <3>1, <3>2
  <2> QED
    BY <1>13, <2>1 DEF TypeOK, AbortRead, ClientTypes, txVars, timerVars, stats, logVars
<1>14. ASSUME NEW c \in Clients, AbortMark(c) PROVE TypeOK'
  <2>1. Down(activeCount) \in 0..(Width - 1) /\ aborted + 1 \in Nat
    BY CounterType DEF TypeOK
  <2> QED
    BY <1>14, <2>1 DEF TypeOK, AbortMark, Goto, Places, TimersAfter, logVars, history
<1>15. ASSUME NEW t \in Tx, Elapse(t) PROVE TypeOK'
  BY <1>15
     DEF TypeOK, Elapse, txVars, stats, clientVars, logVars, history
<1>16. ASSUME NEW t \in Tx, TimerFires(t) PROVE TypeOK'
  BY <1>16
     DEF TypeOK, TimerFires, txVars, stats, clientVars, logVars, history
<1>17. ASSUME NEW t \in Tx, TimerAborts(t) PROVE TypeOK'
  <2>1. Down(activeCount) \in 0..(Width - 1) /\ timedOut + 1 \in Nat
    BY CounterType DEF TypeOK
  <2> QED
    BY <1>17, <2>1 DEF TypeOK, TimerAborts, TimerCount, clientVars, logVars, history
<1>18. CASE Flush
  <2>1. /\ Head(queue) \in [tx : Tx, ops : Seq(Docs)]
        /\ Tail(queue) \in Seq([tx : Tx, ops : Seq(Docs)])
    BY <1>18, HeadTailProperties DEF Flush, TypeOK
  <2>2. Append(wal, Head(queue)) \in Seq([tx : Tx, ops : Seq(Docs)])
    BY <2>1, AppendProperties DEF TypeOK
  <2>3. /\ queue' \in Seq([tx : Tx, ops : Seq(Docs)])
        /\ wal' \in Seq([tx : Tx, ops : Seq(Docs)])
        /\ tokens' \in Nat
    BY <1>18, <2>1, <2>2 DEF Flush, TypeOK
  <2>4. UNCHANGED <<txVars, timerVars, stats, clientVars, history, docs>>
    BY <1>18 DEF Flush
  <2> QED
    BY <2>3, <2>4 DEF TypeOK, txVars, timerVars, stats, clientVars, history
<1>19. ASSUME NEW c \in Clients, NEW t \in Tx, ListRead(c, t) PROVE TypeOK'
  BY <1>19
     DEF TypeOK, ListRead, Goto, Places, txVars, timerVars, stats, logVars, history
<1>20. ASSUME NEW c \in Clients, StageLock(c) PROVE TypeOK'
  BY <1>20
     DEF TypeOK, StageLock, Goto, Places, txVars, timerVars, stats, logVars, history
<1>21. ASSUME NEW c \in Clients, ListAgain(c) PROVE TypeOK'
  BY <1>21, ReturnType
     DEF TypeOK, ListAgain, ClientTypes, txVars, timerVars, stats, logVars
<1>22. ASSUME NEW c \in Clients, ApplyFails(c) PROVE TypeOK'
  BY <1>22
     DEF TypeOK, ApplyFails, Goto, Places, txVars, timerVars, stats, logVars, history
<1>23. ASSUME NEW d \in Docs, Remove(d) PROVE TypeOK'
  BY <1>23
     DEF TypeOK, Remove, txVars, timerVars, stats, clientVars, logVars
<1> QED
  BY <1>1, <1>2, <1>3, <1>4, <1>5, <1>6, <1>7, <1>8, <1>9, <1>10, <1>11, <1>12, <1>13, <1>14,
     <1>15, <1>16, <1>17, <1>18, <1>19, <1>20, <1>21, <1>22, <1>23
     DEF Next, ClientCall, ClientStep, TimerStep

\* Begun transactions stay begun, and only Begin adds one.
LEMMA RefersKeeps ==
    ASSUME IInv, Next
    PROVE  Refers'
<1> USE DEF IInv
<1>1. ASSUME NEW c \in Clients, Begin(c) PROVE Refers'
  BY <1>1
     DEF TypeOK, Refers, Begun, Holding, Committing, Begin, Tracked, Tx, NoTx, clientVars,
         logVars, history
<1>2. ASSUME NEW c \in Clients, NEW d \in Docs, StageCheck(c, d) PROVE Refers'
  BY <1>2
     DEF TypeOK, Refers, Begun, Holding, Committing, StageCheck, Goto, NoTx, txVars,
         timerVars, stats, logVars
<1>3. ASSUME NEW c \in Clients, StageAppend(c) PROVE Refers'
  BY <1>3
     DEF TypeOK, Refers, Begun, Holding, Committing, StageAppend, Return, timerVars, stats,
         logVars
<1>4. ASSUME NEW c \in Clients, NEW d \in Docs, DirectInsert(c, d) PROVE Refers'
  BY <1>4
     DEF TypeOK, Refers, Begun, Holding, Committing, DirectInsert, txVars, timerVars, stats,
         clientVars, logVars
<1>5. ASSUME NEW c \in Clients, CommitLog(c) PROVE Refers'
  BY <1>5
     DEF TypeOK, Refers, Begun, Holding, Committing, CommitLog, TimersDuringCommit, Goto,
         Record, NoTx, txVars, stats
<1>6. ASSUME NEW c \in Clients, CommitTooLate(c) PROVE Refers'
  BY <1>6
     DEF TypeOK, Refers, Begun, Holding, Committing, CommitTooLate, Goto, txVars, timerVars,
         stats, logVars, history
<1>7. ASSUME NEW c \in Clients, CommitLogged(c) PROVE Refers'
  BY <1>7
     DEF TypeOK, Refers, Begun, Holding, Committing, CommitLogged, Goto, txVars, timerVars,
         stats, history
<1>8. ASSUME NEW c \in Clients, CommitLogFails(c) PROVE Refers'
  BY <1>8
     DEF TypeOK, Refers, Begun, Holding, Committing, CommitLogFails, Return, txVars,
         timerVars, stats, logVars
<1>9. ASSUME NEW c \in Clients, Apply(c) PROVE Refers'
  BY <1>9
     DEF TypeOK, Refers, Begun, Holding, Committing, Apply, Goto, txVars, timerVars, stats,
         logVars
<1>10. ASSUME NEW c \in Clients, CommitMark(c) PROVE Refers'
  BY <1>10
     DEF TypeOK, Refers, Begun, Holding, Committing, CommitMark, TimersAfter, Goto, logVars
<1>11. ASSUME NEW c \in Clients, Clear(c) PROVE Refers'
  BY <1>11
     DEF TypeOK, Refers, Begun, Holding, Committing, Clear, Return, timerVars, stats, logVars
<1>12. ASSUME NEW c \in Clients, AbortCall(c) PROVE Refers'
  BY <1>12
     DEF TypeOK, Refers, Begun, Holding, Committing, AbortCall, Goto, txVars, timerVars,
         stats, logVars, history
<1>13. ASSUME NEW c \in Clients, AbortRead(c) PROVE Refers'
  <2>1. UNCHANGED <<txVars, timerVars, stats, logVars>>
    BY <1>13 DEF AbortRead
  <2>2. CASE current = NoTx /\ Return(c)
    BY <2>1, <2>2
       DEF TypeOK, Refers, Begun, Holding, Committing, Return, txVars, timerVars
  <2>3. CASE /\ current # NoTx
             /\ tx' = [tx EXCEPT ![c] = current]
             /\ Goto(c, "marking")
             /\ UNCHANGED wrote
    BY <2>1, <2>3
       DEF TypeOK, Refers, Begun, Holding, Committing, Goto, txVars, timerVars
  <2> QED  BY <1>13, <2>2, <2>3 DEF AbortRead
<1>14. ASSUME NEW c \in Clients, AbortMark(c) PROVE Refers'
  BY <1>14
     DEF TypeOK, Refers, Begun, Holding, Committing, AbortMark, Goto, TimersAfter, logVars,
         history
<1>15. ASSUME NEW t \in Tx, Elapse(t) PROVE Refers'
  BY <1>15
     DEF TypeOK, Refers, Begun, Holding, Committing, Elapse, txVars, stats, clientVars,
         logVars, history
<1>16. ASSUME NEW t \in Tx, TimerFires(t) PROVE Refers'
  BY <1>16
     DEF TypeOK, Refers, Begun, Holding, Committing, TimerFires, txVars, stats, clientVars,
         logVars, history
<1>17. ASSUME NEW t \in Tx, TimerAborts(t) PROVE Refers'
  BY <1>17
     DEF TypeOK, Refers, Begun, Holding, Committing, TimerAborts, clientVars, logVars,
         history
<1>18. CASE Flush
  BY <1>18
     DEF TypeOK, Refers, Begun, Holding, Committing, Flush, txVars, timerVars, stats,
         clientVars, history
<1>19. ASSUME NEW c \in Clients, NEW t \in Tx, ListRead(c, t) PROVE Refers'
  <2>1. t \in Begun
    BY <1>19 DEF ListRead, Tracking, ActiveIsTracked, Refers, Holding
  <2> QED
    BY <1>19, <2>1
       DEF TypeOK, Refers, Begun, Holding, Committing, ListRead, Goto, NoTx, txVars,
           timerVars, stats, logVars, history
<1>20. ASSUME NEW c \in Clients, StageLock(c) PROVE Refers'
  BY <1>20
     DEF TypeOK, Refers, Begun, Holding, Committing, StageLock, Goto, NoTx, txVars, timerVars,
         stats, logVars, history
<1>21. ASSUME NEW c \in Clients, ListAgain(c) PROVE Refers'
  BY <1>21
     DEF TypeOK, Refers, Begun, Holding, Committing, ListAgain, Return, NoTx, txVars,
         timerVars, stats, logVars
<1>22. ASSUME NEW c \in Clients, ApplyFails(c) PROVE Refers'
  BY <1>22
     DEF TypeOK, Refers, Begun, Holding, Committing, ApplyFails, Goto, txVars, timerVars,
         stats, logVars, history
<1>23. ASSUME NEW d \in Docs, Remove(d) PROVE Refers'
  BY <1>23
     DEF TypeOK, Refers, Begun, Holding, Committing, Remove, txVars, timerVars, stats,
         clientVars, logVars
<1> QED
  BY <1>1, <1>2, <1>3, <1>4, <1>5, <1>6, <1>7, <1>8, <1>9, <1>10, <1>11, <1>12, <1>13, <1>14,
     <1>15, <1>16, <1>17, <1>18, <1>19, <1>20, <1>21, <1>22, <1>23
     DEF Next, ClientCall, ClientStep, TimerStep

\* A client marks a transaction as ended, and is about to take it off the list.
LEMMA EndingTracks ==
    ASSUME IInv, NEW c \in Clients, at[c] \in Holding \ {"clearing"},
           NEW end \in {"committed", "aborted"},
           state' = [state EXCEPT ![tx[c]] = end],
           at' = [at EXCEPT ![c] = "clearing"], tx' = tx, active' = active
    PROVE  Tracking'
<1> USE DEF IInv
<1>1. tx[c] \in Tx
  BY HeldType
<1>2. \A t \in Tx : state'[t] = IF t = tx[c] THEN end ELSE state[t]
  BY <1>1 DEF TypeOK
<1>3. \A e \in Clients : at'[e] = IF e = c THEN "clearing" ELSE at[e]
  BY DEF TypeOK
<1>4. \A t \in Tx : state'[t] = "active" => t \in active
  BY <1>2 DEF Tracking, ActiveIsTracked
<1>5. ASSUME NEW t \in active
      PROVE  state'[t] = "active" \/ \E e \in Clients : at'[e] = "clearing" /\ tx[e] = t
  BY <1>2, <1>3 DEF TypeOK, Tracking, ActiveIsTracked
<1>6. ASSUME NEW e \in Clients, at'[e] = "clearing" PROVE state'[tx[e]] # "active"
  <2>1. tx[e] \in Tx
    BY <1>1, <1>3, <1>6, HeldType DEF Holding
  <2> QED  BY <1>2, <1>3, <1>6, <2>1 DEF Tracking
<1> QED  BY <1>4, <1>5, <1>6 DEF Tracking, ActiveIsTracked

\* Whoever ends a transaction takes it off the list.
LEMMA TrackingKeeps ==
    ASSUME IInv, Next
    PROVE  Tracking'
<1> USE DEF IInv
<1>1. ASSUME NEW c \in Clients, Begin(c) PROVE Tracking'
  BY <1>1
     DEF TypeOK, Refers, Begun, Holding, Tracking, ActiveIsTracked, Begin, Tracked, Tx, NoTx,
         clientVars, logVars, history
<1>2. ASSUME NEW c \in Clients, NEW d \in Docs, StageCheck(c, d) PROVE Tracking'
  BY <1>2
     DEF TypeOK, Refers, Begun, Holding, Tracking, ActiveIsTracked, StageCheck, Goto, NoTx,
         txVars, timerVars, stats, logVars
<1>3. ASSUME NEW c \in Clients, StageAppend(c) PROVE Tracking'
  BY <1>3
     DEF TypeOK, Refers, Begun, Holding, Tracking, ActiveIsTracked, StageAppend, Return,
         timerVars, stats, logVars
<1>4. ASSUME NEW c \in Clients, NEW d \in Docs, DirectInsert(c, d) PROVE Tracking'
  BY <1>4
     DEF TypeOK, Refers, Begun, Holding, Tracking, ActiveIsTracked, DirectInsert, txVars,
         timerVars, stats, clientVars, logVars
<1>5. ASSUME NEW c \in Clients, CommitLog(c) PROVE Tracking'
  BY <1>5
     DEF TypeOK, Refers, Begun, Holding, Tracking, ActiveIsTracked, CommitLog,
         TimersDuringCommit, Goto, Record, NoTx, txVars, stats
<1>6. ASSUME NEW c \in Clients, CommitTooLate(c) PROVE Tracking'
  BY <1>6
     DEF TypeOK, Refers, Begun, Holding, Tracking, ActiveIsTracked, CommitTooLate, Goto,
         txVars, timerVars, stats, logVars, history
<1>7. ASSUME NEW c \in Clients, CommitLogged(c) PROVE Tracking'
  BY <1>7
     DEF TypeOK, Refers, Begun, Holding, Tracking, ActiveIsTracked, CommitLogged, Goto,
         txVars, timerVars, stats, history
<1>8. ASSUME NEW c \in Clients, CommitLogFails(c) PROVE Tracking'
  BY <1>8
     DEF TypeOK, Refers, Begun, Holding, Tracking, ActiveIsTracked, CommitLogFails, Return,
         txVars, timerVars, stats, logVars
<1>9. ASSUME NEW c \in Clients, Apply(c) PROVE Tracking'
  BY <1>9
     DEF TypeOK, Refers, Begun, Holding, Tracking, ActiveIsTracked, Apply, Goto, txVars,
         timerVars, stats, logVars
<1>10. ASSUME NEW c \in Clients, CommitMark(c) PROVE Tracking'
  <2>1. state' = [state EXCEPT ![tx[c]] = "committed"]
    BY <1>10 DEF CommitMark
  <2>2. /\ at[c] = "applying" /\ at' = [at EXCEPT ![c] = "clearing"] /\ tx' = tx
        /\ active' = active
    BY <1>10 DEF CommitMark, Goto
  <2> QED  BY <2>1, <2>2, EndingTracks DEF Holding
<1>11. ASSUME NEW c \in Clients, Clear(c) PROVE Tracking'
  BY <1>11
     DEF TypeOK, Refers, Begun, Holding, Tracking, ActiveIsTracked, Clear, Return, timerVars,
         stats, logVars
<1>12. ASSUME NEW c \in Clients, AbortCall(c) PROVE Tracking'
  BY <1>12
     DEF TypeOK, Refers, Begun, Holding, Tracking, ActiveIsTracked, AbortCall, Goto, txVars,
         timerVars, stats, logVars, history
<1>13. ASSUME NEW c \in Clients, AbortRead(c) PROVE Tracking'
  <2>1. /\ state' = state /\ active' = active /\ at[c] = "aborting"
        /\ at' = [at EXCEPT ![c] = at'[c]] /\ at'[c] \in {"marking", "idle"}
        /\ tx' = [tx EXCEPT ![c] = tx'[c]]
    BY <1>13 DEF AbortRead, Goto, Return, txVars, TypeOK
  <2>2. \A e \in Clients : (at'[e] = "clearing" <=> at[e] = "clearing")
                           /\ (at[e] = "clearing" => tx'[e] = tx[e])
    BY <2>1 DEF TypeOK
  <2> QED  BY <2>1, <2>2 DEF Tracking, ActiveIsTracked
<1>14. ASSUME NEW c \in Clients, AbortMark(c) PROVE Tracking'
  <2>1. state' = [state EXCEPT ![tx[c]] = "aborted"]
    BY <1>14 DEF AbortMark
  <2>2. /\ at[c] = "marking" /\ at' = [at EXCEPT ![c] = "clearing"] /\ tx' = tx
        /\ active' = active
    BY <1>14 DEF AbortMark, Goto
  <2> QED  BY <2>1, <2>2, EndingTracks DEF Holding
<1>15. ASSUME NEW t \in Tx, Elapse(t) PROVE Tracking'
  BY <1>15
     DEF TypeOK, Refers, Begun, Holding, Tracking, ActiveIsTracked, Elapse, txVars, stats,
         clientVars, logVars, history
<1>16. ASSUME NEW t \in Tx, TimerFires(t) PROVE Tracking'
  BY <1>16
     DEF TypeOK, Refers, Begun, Holding, Tracking, ActiveIsTracked, TimerFires, txVars,
         stats, clientVars, logVars, history
<1>17. ASSUME NEW t \in Tx, TimerAborts(t) PROVE Tracking'
  BY <1>17
     DEF TypeOK, Refers, Begun, Holding, Tracking, ActiveIsTracked, TimerAborts, clientVars,
         logVars, history
<1>18. CASE Flush
  BY <1>18
     DEF TypeOK, Refers, Begun, Holding, Tracking, ActiveIsTracked, Flush, txVars, timerVars,
         stats, clientVars, history
<1>19. ASSUME NEW c \in Clients, NEW t \in Tx, ListRead(c, t) PROVE Tracking'
  BY <1>19
     DEF TypeOK, Refers, Begun, Holding, Tracking, ActiveIsTracked, ListRead, Goto, NoTx,
         txVars, timerVars, stats, logVars, history
<1>20. ASSUME NEW c \in Clients, StageLock(c) PROVE Tracking'
  BY <1>20
     DEF TypeOK, Refers, Begun, Holding, Tracking, ActiveIsTracked, StageLock, Goto, NoTx,
         txVars, timerVars, stats, logVars, history
<1>21. ASSUME NEW c \in Clients, ListAgain(c) PROVE Tracking'
  BY <1>21
     DEF TypeOK, Refers, Begun, Holding, Tracking, ActiveIsTracked, ListAgain, Return, NoTx,
         txVars, timerVars, stats, logVars
<1>22. ASSUME NEW c \in Clients, ApplyFails(c) PROVE Tracking'
  BY <1>22
     DEF TypeOK, Refers, Begun, Holding, Tracking, ActiveIsTracked, ApplyFails, Goto, txVars,
         timerVars, stats, logVars, history
<1>23. ASSUME NEW d \in Docs, Remove(d) PROVE Tracking'
  BY <1>23
     DEF TypeOK, Refers, Begun, Holding, Tracking, ActiveIsTracked, Remove, txVars,
         timerVars, stats, clientVars, logVars
<1> QED
  BY <1>1, <1>2, <1>3, <1>4, <1>5, <1>6, <1>7, <1>8, <1>9, <1>10, <1>11, <1>12, <1>13, <1>14,
     <1>15, <1>16, <1>17, <1>18, <1>19, <1>20, <1>21, <1>22, <1>23
     DEF Next, ClientCall, ClientStep, TimerStep

-----------------------------------------------------------------------------
(* The log before the storage *)

\* The oldest record leaves the queue, and the others move up.
LEMMA TailIndexes ==
    ASSUME NEW S, NEW s \in Seq(S), s # <<>>
    PROVE  /\ Head(s) \in S /\ Head(s) = s[1] /\ Tail(s) \in Seq(S)
           /\ Len(s) \in Nat /\ Len(Tail(s)) = Len(s) - 1
           /\ \A i \in 1..Len(Tail(s)) : Tail(s)[i] = s[i + 1]
BY HeadTailProperties, LenProperties

\* A record that the log accepted stays in the queue or on disk.
LEMMA AcceptedStays ==
    ASSUME TypeOK, NEW t \in Tx, Accepted(t),
           \/ UNCHANGED <<queue, wal>>
           \/ \E r \in [tx : Tx, ops : Seq(Docs)] : queue' = Append(queue, r) /\ wal' = wal
           \/ Flush
    PROVE  Accepted(t)'
<1>1. CASE UNCHANGED <<queue, wal>>
  BY <1>1 DEF Accepted
<1>2. ASSUME NEW r \in [tx : Tx, ops : Seq(Docs)], queue' = Append(queue, r), wal' = wal
      PROVE  Accepted(t)'
  <2>1. /\ Len(queue) \in Nat /\ Len(queue') = Len(queue) + 1
        /\ \A i \in 1..Len(queue) : queue'[i] = queue[i]
    BY <1>2, AppendIndexes DEF TypeOK
  <2> QED  BY <1>2, <2>1 DEF Accepted
<1>3. CASE Flush
  <2>1. /\ Head(queue) \in [tx : Tx, ops : Seq(Docs)] /\ Head(queue) = queue[1]
        /\ Len(queue) \in Nat /\ Len(queue') = Len(queue) - 1
        /\ \A i \in 1..Len(queue') : queue'[i] = queue[i + 1]
    BY <1>3, TailIndexes DEF Flush, TypeOK
  <2>2. /\ Len(wal) \in Nat /\ Len(wal') = Len(wal) + 1
        /\ wal'[Len(wal) + 1] = Head(queue)
        /\ \A i \in 1..Len(wal) : wal'[i] = wal[i]
    <3>1. wal \in Seq([tx : Tx, ops : Seq(Docs)]) /\ wal' = Append(wal, Head(queue))
      BY <1>3 DEF Flush, TypeOK
    <3> QED  BY <2>1, <3>1, AppendIndexes
  <2>3. ASSUME NEW i \in 1..Len(wal), wal[i].tx = t PROVE Accepted(t)'
    BY <2>2, <2>3 DEF Accepted
  <2>4. ASSUME NEW i \in 1..Len(queue), queue[i].tx = t PROVE Accepted(t)'
    <3>1. CASE i = 1
      <4>1. Len(wal) + 1 \in 1..Len(wal') /\ wal'[Len(wal) + 1].tx = t
        BY <2>1, <2>2, <2>4, <3>1
      <4> QED  BY <4>1 DEF Accepted
    <3>2. CASE i # 1
      <4>1. i - 1 \in 1..Len(queue') /\ queue'[i - 1].tx = t
        BY <2>1, <2>4, <3>2
      <4> QED  BY <4>1 DEF Accepted
    <3> QED  BY <3>1, <3>2
  <2> QED  BY <2>3, <2>4 DEF Accepted
<1> QED  BY <1>1, <1>2, <1>3

\* CommitLog hands the record over and nothing else fills the queue.
LEMMA AcceptedGrows ==
    ASSUME IInv, Next, NEW t \in Tx, Accepted(t)
    PROVE  Accepted(t)'
<1> USE DEF IInv
<1>1. ASSUME NEW c \in Clients, CommitLog(c) PROVE Accepted(t)'
  <2>1. current \in Tx
    BY <1>1 DEF CommitLog, TypeOK
  <2> QED
    BY <1>1, <2>1, RecordType, AcceptedStays DEF CommitLog, LogWith, logVars
<1>2. CASE Flush
  BY <1>2, AcceptedStays
<1>3. ASSUME NEW c \in Clients, ClientCall(c) \/ ClientStep(c), ~CommitLog(c)
      PROVE  UNCHANGED <<queue, wal>>
  BY <1>3
     DEF ClientCall, ListRead, ClientStep, StageLock, ListAgain, Begin, CommitTooLate,
         AbortCall, StageCheck, DirectInsert, StageAppend, CommitLogged, CommitLogFails,
         Apply, ApplyFails, CommitMark, Clear, AbortRead, AbortMark, logVars
<1>4. ASSUME NEW u \in Tx, TimerStep(u) PROVE UNCHANGED <<queue, wal>>
  BY <1>4 DEF TimerStep, Elapse, TimerFires, TimerAborts, logVars
<1>5. ASSUME NEW d \in Docs, Remove(d) PROVE UNCHANGED <<queue, wal>>
  BY <1>5 DEF Remove, logVars
<1> QED  BY <1>1, <1>2, <1>3, <1>4, <1>5, AcceptedStays DEF Next

LEMMA LogAccepts ==
    ASSUME IInv, NEW c \in Clients, CommitLog(c)
    PROVE  tx'[c] \in Tx /\ Accepted(tx[c])'
<1> USE DEF IInv
<1>1. current \in Tx /\ tx'[c] = current
  BY DEF CommitLog, TypeOK
<1>2. /\ Len(queue) \in Nat /\ Len(queue') = Len(queue) + 1
      /\ queue'[Len(queue) + 1] = Record(current)
  <2>1. queue \in Seq([tx : Tx, ops : Seq(Docs)])
    BY DEF TypeOK
  <2>2. Record(current) \in [tx : Tx, ops : Seq(Docs)]
    BY <1>1, RecordType
  <2>3. queue' = Append(queue, Record(current))
    BY DEF CommitLog, LogWith
  <2> HIDE DEF IInv
  <2> QED  BY <2>1, <2>2, <2>3, AppendIndexes
<1>3. Len(queue) + 1 \in 1..Len(queue') /\ queue'[Len(queue) + 1].tx = tx'[c]
  BY <1>1, <1>2 DEF Record
<1> QED  BY <1>1, <1>3 DEF Accepted

LEMMA LoggingKeeps ==
    ASSUME IInv, Next
    PROVE  Logging'
<1> USE DEF IInv
<1>1. ASSUME NEW c \in Clients, at'[c] \in Committing
      PROVE  Accepted(tx[c])' /\ tx'[c] \in Tx
  <2>1. CASE at[c] \in Committing /\ tx'[c] = tx[c]
    BY <2>1, HeldType, AcceptedGrows DEF Logging, Committing, Holding
  <2>2. CASE CommitLog(c)
    BY <2>2, LogAccepts
  <2>3. (at[c] \in Committing /\ tx'[c] = tx[c]) \/ CommitLog(c)
    <3>1. ASSUME NEW e \in Clients, ClientCall(e) \/ ClientStep(e), e # c
          PROVE  at'[c] = at[c] /\ tx'[c] = tx[c]
      BY <3>1
         DEF ClientCall, ListRead, ClientStep, StageLock, ListAgain, Begin, CommitTooLate,
             AbortCall, StageCheck, DirectInsert, StageAppend, CommitLog, CommitLogged,
             CommitLogFails, Apply, ApplyFails, CommitMark, Clear, AbortRead, AbortMark, Goto, Return,
             clientVars, TypeOK
    <3>2. CASE ClientCall(c) \/ ClientStep(c)
      BY <1>1, <3>2
         DEF ClientCall, ListRead, ClientStep, StageLock, ListAgain, Begin, CommitTooLate,
             AbortCall, StageCheck, DirectInsert, StageAppend, CommitLogged, CommitLogFails,
             Apply, ApplyFails, CommitMark, Clear, AbortRead, AbortMark, Goto, Return, clientVars,
             TypeOK, Committing
    <3>3. CASE Flush
      BY <1>1, <3>3 DEF Flush, clientVars
    <3>4. ASSUME NEW t \in Tx, TimerStep(t) PROVE at' = at /\ tx' = tx
      BY <3>4 DEF TimerStep, Elapse, TimerFires, TimerAborts, clientVars
    <3>5. ASSUME NEW d \in Docs, Remove(d) PROVE at' = at /\ tx' = tx
      BY <3>5 DEF Remove, clientVars
    <3> QED  BY <1>1, <3>1, <3>2, <3>3, <3>4, <3>5 DEF Next
  <2> QED  BY <2>1, <2>2, <2>3
<1>2. ASSUME NEW t \in Tx, applied'[t] # {} PROVE Accepted(t)
  <2>1. CASE applied[t] # {}
    BY <2>1 DEF Logging, LogBeforeApply
  <2>2. CASE \E c \in Clients : Apply(c) /\ tx[c] = t
    BY <2>2 DEF Apply, Logging, Committing
  <2>3. applied' = applied \/ \E c \in Clients : Apply(c)
    BY DEF Next, ClientCall, ListRead, ClientStep, StageLock, ListAgain, TimerStep, Begin,
           CommitTooLate, AbortCall, StageCheck, DirectInsert, StageAppend, CommitLog,
           CommitLogged, CommitLogFails, ApplyFails, CommitMark, Clear, AbortRead, AbortMark, Elapse,
           TimerFires, TimerAborts, Flush, Remove, history
  <2>4. ASSUME NEW c \in Clients, Apply(c), tx[c] # t PROVE applied'[t] = applied[t]
    BY <2>4 DEF Apply, TypeOK
  <2> QED  BY <1>2, <2>1, <2>2, <2>3, <2>4
<1> QED  BY <1>1, <1>2, AcceptedGrows DEF Logging, LogBeforeApply

-----------------------------------------------------------------------------
(* The counters *)

LEMMA CounterMoves ==
    ASSUME NEW n \in 0..(Width - 1)
    PROVE  /\ \E i \in {0, -1} : Up(n) = n + 1 + i * Width
           /\ \E i \in {0, 1} : Down(n) = n - 1 + i * Width
BY BoundsAssumption DEF Up, Down

LEMMA BalancedKeeps ==
    ASSUME IInv, Next
    PROVE  Balanced'
<1> USE DEF IInv
<1>1. PICK k \in Int :
        committed + aborted + timedOut + activeCount = Started + k * Width
  BY DEF Balanced
<1>2. /\ committed \in Nat /\ aborted \in Nat /\ timedOut \in Nat
      /\ activeCount \in 0..(Width - 1) /\ nextTxID \in Nat /\ Width \in Nat
      /\ nextTxID' \in Nat
  <2>1. TypeOK'
    BY TypeKeeps
  <2>2. nextTxID' \in Nat
    BY <2>1, BoundsAssumption DEF TypeOK
  <2>3. committed \in Nat /\ aborted \in Nat /\ timedOut \in Nat /\ nextTxID \in Nat
    BY BoundsAssumption DEF TypeOK
  <2>4. activeCount \in 0..(Width - 1) /\ Width \in Nat
    BY BoundsAssumption DEF TypeOK
  <2> QED  BY <2>2, <2>3, <2>4
<1>3. ASSUME NEW i \in {-1, 0, 1},
             committed' + aborted' + timedOut' + activeCount' = Started' + k * Width + i * Width
      PROVE  Balanced'
  <2>1. k + i \in Int /\ k * Width + i * Width = (k + i) * Width
    BY <1>2
  <2>2. /\ Started' \in Int /\ k * Width \in Int /\ i * Width \in Int
        /\ Started' + k * Width + i * Width = Started' + (k * Width + i * Width)
    BY <1>2 DEF Started
  <2>3. committed' + aborted' + timedOut' + activeCount' = Started' + (k + i) * Width
    BY <1>3, <2>1, <2>2
  <2> QED  BY <2>1, <2>3 DEF Balanced
<1>4. ASSUME NEW c \in Clients, Begin(c) PROVE Balanced'
  BY <1>1, <1>2, <1>3, <1>4, CounterMoves DEF Begin, Started
<1>5. ASSUME NEW c \in Clients, CommitMark(c) PROVE Balanced'
  <2>1. PICK i \in {0, 1} : activeCount' = activeCount - 1 + i * Width
    BY <1>2, <1>5, CounterMoves DEF CommitMark
  <2>2. /\ committed' = committed + 1 /\ aborted' = aborted /\ timedOut' = timedOut
        /\ Started' = Started
    BY <1>5 DEF CommitMark, Started
  <2>3. i * Width \in Int /\ k * Width \in Int /\ Started \in Int
    BY <1>2 DEF Started
  <2>4. committed' + aborted' + timedOut' + activeCount' = Started' + k * Width + i * Width
    BY <1>1, <1>2, <2>1, <2>2, <2>3
  <2> QED  BY <1>3, <2>4
<1>6. ASSUME NEW c \in Clients, AbortMark(c) PROVE Balanced'
  BY <1>1, <1>2, <1>3, <1>6, CounterMoves DEF AbortMark, Started, txVars
<1>7. ASSUME NEW t \in Tx, TimerAborts(t) PROVE Balanced'
  BY <1>1, <1>2, <1>3, <1>7, CounterMoves DEF TimerAborts, TimerCount, Started
<1>8. CASE UNCHANGED <<nextTxID, committed, aborted, timedOut, activeCount>>
  BY <1>8 DEF Balanced, Started
<1> QED
  BY <1>4, <1>5, <1>6, <1>7, <1>8
     DEF Next, ClientCall, ListRead, ClientStep, StageLock, ListAgain, TimerStep,
         CommitTooLate, AbortCall, StageCheck, DirectInsert, StageAppend, CommitLog,
         CommitLogged, CommitLogFails, Apply, ApplyFails, Clear, AbortRead, Elapse, TimerFires, Flush,
         Remove, txVars, stats

LEMMA Division ==
    ASSUME NEW w \in Nat \ {0}, NEW a \in Nat
    PROVE  a = w * (a \div w) + (a % w) /\ a % w \in 0..(w - 1) /\ a \div w \in Int
<1>1. a % w \in 0..(w - 1)
  OBVIOUS
<1>2. a \div w \in Int
  OBVIOUS
<1>3. a = w * (a \div w) + (a % w)
  OBVIOUS
<1> QED  BY <1>1, <1>2, <1>3

\* A sum that differs by whole turns leaves the same rest.
LEMMA WholeTurns ==
    ASSUME NEW w \in Nat \ {0}, NEW a \in Nat, NEW b \in Nat, NEW k \in Int
    PROVE  a = b + k * w => a % w = b % w
<1>1. a = w * (a \div w) + (a % w) /\ a % w \in 0..(w - 1) /\ a \div w \in Int
  BY Division
<1>2. b = w * (b \div w) + (b % w) /\ b % w \in 0..(w - 1) /\ b \div w \in Int
  BY Division
<1> SUFFICES ASSUME a = b + k * w PROVE a % w = b % w
  OBVIOUS
<1> DEFINE q == (a \div w) - (b \div w) - k
<1>3. q \in Int /\ w * q = (b % w) - (a % w)
  <2>1. w * q = w * (a \div w) - w * (b \div w) - k * w
    BY <1>1, <1>2
  <2> QED  BY <1>1, <1>2, <2>1
<1> HIDE DEF q
<1>4. q < 1
  <2> SUFFICES ASSUME q >= 1 PROVE FALSE
    BY <1>3
  <2>1. w * q >= w
    BY <1>3
  <2> QED  BY <1>1, <1>2, <1>3, <2>1
<1>5. q > -1
  <2> SUFFICES ASSUME q <= -1 PROVE FALSE
    BY <1>3
  <2>1. w * q <= -w
    BY <1>3
  <2> QED  BY <1>1, <1>2, <1>3, <2>1
<1>6. w * q = 0
  BY <1>3, <1>4, <1>5
<1> QED  BY <1>1, <1>2, <1>3, <1>6

-----------------------------------------------------------------------------
(* What a step can do to the operations, the storage and a client *)

Same(c) ==
    /\ at'[c] = at[c] /\ tx'[c] = tx[c] /\ todo'[c] = todo[c] /\ wrote'[c] = wrote[c]

\* A client stays where it is, or the step is its own.
LEMMA OwnSteps ==
    ASSUME IInv, Next, NEW c \in Clients
    PROVE  Same(c) \/ ClientCall(c) \/ ClientStep(c)
<1> USE DEF IInv
<1>1. ASSUME NEW e \in Clients, ClientCall(e), e # c PROVE Same(c)
  BY <1>1
     DEF ClientCall, ListRead, Begin, CommitLog, CommitTooLate, AbortCall, StageCheck,
         DirectInsert, Goto, clientVars, history, TypeOK, Same
<1>2. ASSUME NEW e \in Clients, ClientStep(e), e # c PROVE Same(c)
  BY <1>2
     DEF ClientStep, StageLock, ListAgain, StageAppend, CommitLogged, CommitLogFails, Apply,
         ApplyFails, CommitMark, Clear, AbortRead, AbortMark, Goto, Return, history, TypeOK, Same
<1>3. ASSUME NEW t \in Tx, TimerStep(t) PROVE Same(c)
  BY <1>3 DEF TimerStep, Elapse, TimerFires, TimerAborts, clientVars, history, Same
<1>4. CASE Flush
  BY <1>4 DEF Flush, clientVars, history, Same
<1>5. ASSUME NEW d \in Docs, Remove(d) PROVE Same(c)
  BY <1>5 DEF Remove, clientVars, Same
<1> QED  BY <1>1, <1>2, <1>3, <1>4, <1>5 DEF Next

\* A client that commits has just begun to, or goes on with what it logged.
LEMMA CommitSteps ==
    ASSUME IInv, Next, NEW c \in Clients
    PROVE  /\ at'[c] = "logging" => Same(c) \/ CommitLog(c)
           /\ at'[c] = "applying" => Same(c) \/ CommitLogged(c) \/ Apply(c)
<1> USE DEF IInv
<1>1. CASE Same(c)
  BY <1>1
<1>2. CASE ClientCall(c) /\ ~Same(c)
  BY <1>2
     DEF ClientCall, ListRead, Begin, CommitTooLate, AbortCall, StageCheck, DirectInsert,
         CommitLog, Goto, clientVars, history, TypeOK, Same
<1>3. CASE ClientStep(c)
  BY <1>3
     DEF ClientStep, StageLock, ListAgain, StageAppend, CommitLogged, CommitLogFails, Apply,
         ApplyFails, CommitMark, Clear, AbortRead, AbortMark, Goto, Return, TypeOK
<1> QED  BY <1>1, <1>2, <1>3, OwnSteps

\* What Apply adds to a transaction it adds to the storage.
LEMMA ApplyStep ==
    ASSUME applied \in [Tx -> SUBSET Docs], NEW c \in Clients, Apply(c), NEW t \in Tx
    PROVE  /\ docs \subseteq docs' /\ removed' = removed /\ applied[t] \subseteq applied'[t]
           /\ applied'[t] \subseteq applied[t] \cup docs'
<1> DEFINE d == Head(todo[c])
<1>1. /\ docs' = docs \cup {d} /\ applied' = [applied EXCEPT ![tx[c]] = @ \cup {d}]
      /\ removed' = removed
  BY DEF Apply
<1>2. CASE t = tx[c]
  <2>1. applied'[t] = applied[t] \cup {d}
    BY <1>1, <1>2
  <2> QED  BY <1>1, <2>1
<1>3. CASE t # tx[c]
  <2>1. applied'[t] = applied[t]
    BY <1>1, <1>3
  <2> QED  BY <1>1, <2>1
<1> QED  BY <1>2, <1>3

\* Nothing else adds to what a transaction has applied.
LEMMA OnlyApplyApplies ==
    ASSUME Next
    PROVE  applied' = applied \/ \E c \in Clients : Apply(c)
<1>1. ASSUME NEW c \in Clients, ClientCall(c) PROVE applied' = applied
  BY <1>1 DEF ClientCall, ListRead, Begin, CommitTooLate, AbortCall, StageCheck,
              DirectInsert, CommitLog, history
<1>2. ASSUME NEW c \in Clients, ClientStep(c) PROVE applied' = applied \/ Apply(c)
  BY <1>2 DEF ClientStep, StageLock, ListAgain, StageAppend, CommitLogged, CommitLogFails,
              ApplyFails, CommitMark, Clear, AbortRead, AbortMark, history
<1>3. ASSUME NEW u \in Tx, TimerStep(u) PROVE applied' = applied
  BY <1>3 DEF TimerStep, Elapse, TimerFires, TimerAborts, history
<1>4. CASE Flush
  BY <1>4 DEF Flush, history
<1>5. ASSUME NEW d \in Docs, Remove(d) PROVE applied' = applied
  BY <1>5 DEF Remove
<1> QED  BY <1>1, <1>2, <1>3, <1>4, <1>5 DEF Next

\* What was ever stored stays so.
LEMMA StoredGrows ==
    ASSUME Next
    PROVE  Stored \subseteq Stored' /\ removed \subseteq removed'
<1>1. ASSUME NEW c \in Clients, NEW d \in Docs, DirectInsert(c, d)
      PROVE  docs \subseteq docs' /\ removed' = removed
  BY <1>1 DEF DirectInsert
<1>2. ASSUME NEW c \in Clients, ClientCall(c)
      PROVE  \/ docs' = docs /\ removed' = removed
             \/ \E d \in Docs : DirectInsert(c, d)
  BY <1>2 DEF ClientCall, ListRead, Begin, CommitTooLate, AbortCall, StageCheck, CommitLog,
              history
<1>3. ASSUME NEW c \in Clients, ClientStep(c)
      PROVE  docs \subseteq docs' /\ removed' = removed
  BY <1>3 DEF ClientStep, StageLock, ListAgain, StageAppend, CommitLogged, CommitLogFails,
              Apply, ApplyFails, CommitMark, Clear, AbortRead, AbortMark, history
<1>4. ASSUME NEW u \in Tx, TimerStep(u) PROVE docs' = docs /\ removed' = removed
  BY <1>4 DEF TimerStep, Elapse, TimerFires, TimerAborts, history
<1>5. CASE Flush
  BY <1>5 DEF Flush, history, Stored
<1>6. ASSUME NEW d \in Docs, Remove(d)
      PROVE  Stored \subseteq Stored' /\ removed \subseteq removed'
  BY <1>6 DEF Remove, Stored
<1> QED  BY <1>1, <1>2, <1>3, <1>4, <1>5, <1>6 DEF Next, Stored

\* What a transaction applied and its operations only grow.
LEMMA Growth ==
    ASSUME IInv, Next, NEW t \in Tx
    PROVE  /\ applied[t] \subseteq applied'[t]
           /\ Elements(ops[t]) \subseteq Elements(ops'[t])
<1> USE DEF IInv
<1>1. applied[t] \subseteq applied'[t]
  BY OnlyApplyApplies, ApplyStep DEF TypeOK
<1>2. ops' = ops \/ \E c \in Clients : StageAppend(c)
  <2>1. ASSUME NEW c \in Clients, ClientCall(c) PROVE ops' = ops
    BY <2>1 DEF ClientCall, ListRead, Begin, CommitTooLate, AbortCall, StageCheck,
                DirectInsert, CommitLog, txVars
  <2>2. ASSUME NEW c \in Clients, ClientStep(c) PROVE ops' = ops \/ StageAppend(c)
    BY <2>2 DEF ClientStep, StageLock, ListAgain, CommitLogged, CommitLogFails, Apply,
                ApplyFails, CommitMark, Clear, AbortRead, AbortMark, txVars
  <2>3. ASSUME NEW u \in Tx, TimerStep(u) PROVE ops' = ops
    BY <2>3 DEF TimerStep, Elapse, TimerFires, TimerAborts, txVars
  <2>4. CASE Flush
    BY <2>4 DEF Flush, txVars
  <2>5. ASSUME NEW d \in Docs, Remove(d) PROVE ops' = ops
    BY <2>5 DEF Remove, txVars
  <2> QED  BY <2>1, <2>2, <2>3, <2>4, <2>5 DEF Next
<1>3. ASSUME NEW c \in Clients, StageAppend(c)
      PROVE  Elements(ops[t]) \subseteq Elements(ops'[t])
  <2>1. CASE tx[c] # t
    BY <1>3, <2>1 DEF StageAppend, TypeOK
  <2>2. CASE tx[c] = t
    <3>1. ops'[t] = ops[t] \o todo[c] /\ ops[t] \in Seq(Docs) /\ todo[c] \in Seq(Docs)
      BY <1>3, <2>2 DEF StageAppend, TypeOK
    <3> QED  BY <3>1, ElementsOfConcat
  <2> QED  BY <2>1, <2>2
<1> QED  BY <1>1, <1>2, <1>3

\* A commit that returns nil is remembered, and nothing else is.
LEMMA NilSteps ==
    ASSUME IInv, Next
    PROVE  nils' = nils \/ \E c \in Clients : CommitMark(c)
BY DEF Next, ClientCall, ListRead, ClientStep, StageLock, ListAgain, TimerStep, Begin,
       CommitTooLate, AbortCall, StageCheck, DirectInsert, StageAppend, CommitLog,
       CommitLogged, CommitLogFails, Apply, ApplyFails, Clear, AbortRead, AbortMark, Elapse, TimerFires,
       TimerAborts, Flush, Remove, history

LEMMA NilIndexes ==
    ASSUME IInv, NEW c \in Clients, CommitMark(c)
    PROVE  /\ tx[c] \in Tx /\ wrote[c].tx = tx[c] /\ wrote[c].ops \in Seq(Docs)
           /\ Len(nils) \in Nat /\ Len(nils') = Len(nils) + 1
           /\ nils'[Len(nils) + 1] = wrote[c]
           /\ \A i \in 1..Len(nils) : nils'[i] = nils[i]
<1> USE DEF IInv
<1>1. /\ tx[c] \in Tx /\ wrote[c].tx = tx[c] /\ wrote[c].ops \in Seq(Docs)
      /\ wrote[c] \in [tx : Tx, ops : Seq(Docs)]
  BY HeldType DEF CommitMark, Holding, Committing, Refers, TypeOK
<1>2. nils \in Seq([tx : Tx, ops : Seq(Docs)]) /\ nils' = Append(nils, wrote[c])
  BY DEF CommitMark, TypeOK
<1> QED  BY <1>1, <1>2, AppendIndexes

LEMMA NilType ==
    ASSUME TypeOK, NEW i \in 1..Len(nils)
    PROVE  nils[i].tx \in Tx /\ nils[i].ops \in Seq(Docs)
<1>1. nils[i] \in [tx : Tx, ops : Seq(Docs)]
  BY ElementOfSeq DEF TypeOK
<1> QED  BY <1>1

-----------------------------------------------------------------------------
(* A nil commit applied what it logged *)

LEMMA ApplyingKeeps ==
    ASSUME IInv, Next
    PROVE  Applying'
<1> USE DEF IInv
<1>1. ASSUME NEW t \in Tx PROVE applied'[t] \subseteq Stored'
  <2>1. applied[t] \subseteq Stored /\ Stored \subseteq Stored'
    BY StoredGrows DEF Applying
  <2>2. ASSUME NEW c \in Clients, Apply(c) PROVE applied'[t] \subseteq Stored'
    <3>1. applied'[t] \subseteq applied[t] \cup docs'
      BY <2>2, ApplyStep DEF TypeOK
    <3> QED  BY <2>1, <3>1 DEF Stored
  <2> QED  BY <2>1, <2>2, OnlyApplyApplies
<1>2. ASSUME NEW c \in Clients, at'[c] = "logging"
      PROVE  InRecord(wrote[c])' \subseteq Elements(ops'[tx'[c]])
  <2>1. CASE Same(c)
    <3>1. at[c] = "logging" /\ tx[c] \in Tx
      BY <1>2, <2>1, HeldType DEF Same, Holding
    <3> QED  BY <2>1, <3>1, Growth DEF Same, Applying, InRecord
  <2>2. CASE CommitLog(c)
    BY <2>2 DEF CommitLog, InRecord, Elements, Record, txVars, TypeOK
  <2> QED  BY <1>2, <2>1, <2>2, CommitSteps
<1>3. ASSUME NEW c \in Clients, at'[c] = "applying"
      PROVE  InRecord(wrote[c])' \subseteq applied'[tx'[c]] \cup Elements(todo'[c])
  <2>1. CASE Same(c)
    <3>1. at[c] = "applying" /\ tx[c] \in Tx
      BY <1>3, <2>1, HeldType DEF Same, Holding
    <3> QED  BY <2>1, <3>1, Growth DEF Same, Applying, InRecord
  <2>2. CASE CommitLogged(c)
    <3>1. /\ at[c] = "logging" /\ wrote' = wrote /\ tx' = tx /\ todo'[c] = ops[tx[c]]
      BY <2>2 DEF CommitLogged, TypeOK, history
    <3> QED  BY <3>1 DEF Applying, InRecord
  <2>3. CASE Apply(c)
    <3>1. /\ at[c] = "applying" /\ wrote' = wrote /\ tx' = tx /\ todo[c] # <<>>
          /\ todo'[c] = Tail(todo[c]) /\ tx[c] \in Tx
          /\ applied'[tx[c]] = applied[tx[c]] \cup {Head(todo[c])}
      BY <2>3, HeldType DEF Apply, TypeOK, Holding
    <3>2. Elements(todo[c]) = {Head(todo[c])} \cup Elements(Tail(todo[c]))
      BY <3>1, ElementsOfTail DEF TypeOK
    <3> QED  BY <3>1, <3>2 DEF Applying, InRecord
  <2> QED  BY <1>3, <2>1, <2>2, <2>3, CommitSteps
<1>4. ASSUME NEW i \in 1..Len(nils')
      PROVE  InRecord(nils'[i]) \subseteq applied'[nils'[i].tx]
  <2>1. CASE i \in 1..Len(nils) /\ nils'[i] = nils[i]
    BY <2>1, NilType, Growth DEF Applying
  <2>2. ASSUME NEW c \in Clients, CommitMark(c), nils'[i] = wrote[c]
        PROVE  InRecord(nils'[i]) \subseteq applied'[nils'[i].tx]
    <3>1. at[c] = "applying" /\ todo[c] = <<>> /\ applied' = applied
      BY <2>2 DEF CommitMark
    <3>2. Elements(todo[c]) = {}
      BY <3>1 DEF Elements
    <3>3. wrote[c].tx = tx[c]
      BY <2>2, NilIndexes
    <3> QED  BY <2>2, <3>1, <3>2, <3>3 DEF Applying
  <2>3. \/ i \in 1..Len(nils) /\ nils'[i] = nils[i]
        \/ \E c \in Clients : CommitMark(c) /\ nils'[i] = wrote[c]
    BY NilSteps, NilIndexes
  <2> QED  BY <2>1, <2>2, <2>3
<1> QED  BY <1>1, <1>2, <1>3, <1>4 DEF Applying

-----------------------------------------------------------------------------
(* Two commits do not insert the same document, unless it left the storage *)

LEMMA BehindIsStored ==
    ASSUME IInv, NEW c \in Clients
    PROVE  Behind(c) \subseteq Stored
<1>1. CASE at[c] = "applying"
  <2>1. tx[c] \in Tx
    BY <1>1, HeldType DEF IInv, Holding
  <2>2. Behind(c) \subseteq applied[tx[c]] /\ applied[tx[c]] \subseteq Stored
    BY <1>1, <2>1 DEF IInv, Applying, Behind
  <2> QED  BY <2>2
<1> QED  BY <1>1 DEF Behind

LEMMA NilIsStored ==
    ASSUME IInv, NEW i \in 1..Len(nils)
    PROVE  InRecord(nils[i]) \subseteq Stored
<1>1. nils[i].tx \in Tx
  BY NilType DEF IInv
<1> QED  BY <1>1 DEF IInv, Applying

\* A commit gets one document behind it when the storage accepts it, nothing otherwise.
LEMMA BehindMoves ==
    ASSUME IInv, Next, NEW c \in Clients
    PROVE  \/ Behind(c)' \subseteq Behind(c)
           \/ /\ Apply(c) /\ nils' = nils /\ Head(todo[c]) \notin docs
              /\ Behind(c)' \subseteq Behind(c) \cup {Head(todo[c])}
              /\ \A e \in Clients \ {c} : Behind(e)' \subseteq Behind(e)
<1> USE DEF IInv
<1>1. CASE at'[c] # "applying"
  BY <1>1 DEF Behind
<1>2. ASSUME NEW e \in Clients, Same(e) PROVE Behind(e)' = Behind(e)
  BY <1>2 DEF Same, Behind, InRecord
<1>3. CASE CommitLogged(c)
  <2>1. /\ at[c] = "logging" /\ wrote' = wrote /\ todo'[c] = ops[tx[c]]
    BY <1>3 DEF CommitLogged, TypeOK, history
  <2>2. InRecord(wrote[c])' \subseteq Elements(todo'[c])
    BY <2>1 DEF Applying, InRecord
  <2> QED  BY <2>2 DEF Behind
<1>4. CASE Apply(c)
  <2> DEFINE d == Head(todo[c])
  <2>1. /\ at[c] = "applying" /\ wrote' = wrote /\ todo[c] # <<>> /\ nils' = nils
        /\ todo'[c] = Tail(todo[c]) /\ todo[c] \in Seq(Docs) /\ Insertable(d)
    BY <1>4 DEF Apply, TypeOK
  <2>2. d \notin docs
    BY <2>1 DEF Insertable
  <2>3. Elements(todo[c]) = {d} \cup Elements(todo'[c])
    BY <2>1, ElementsOfTail
  <2>4. InRecord(wrote[c])' = InRecord(wrote[c])
    BY <2>1 DEF InRecord
  <2>5. Behind(c)' \subseteq Behind(c) \cup {d}
    BY <2>1, <2>3, <2>4 DEF Behind
  <2>6. ASSUME NEW e \in Clients \ {c} PROVE Same(e)
    BY <1>4, <2>6 DEF Apply, Same, TypeOK
  <2> QED  BY <1>2, <1>4, <2>1, <2>2, <2>5, <2>6
<1> QED  BY <1>1, <1>2, <1>3, <1>4, CommitSteps

\* A record of a nil commit is an old one, or that of a commit with all behind it.
LEMMA NilMoves ==
    ASSUME IInv, Next, NEW i \in 1..Len(nils')
    PROVE  \/ i \in 1..Len(nils) /\ nils'[i] = nils[i]
           \/ \E c \in Clients : /\ nils'[i] = wrote[c] /\ i = Len(nils) + 1
                                 /\ InRecord(nils'[i]) \subseteq Behind(c) /\ Behind(c)' = {}
                                 /\ \A e \in Clients \ {c} : Behind(e)' = Behind(e)
<1> USE DEF IInv
<1>1. CASE nils' = nils
  BY <1>1
<1>2. ASSUME NEW c \in Clients, CommitMark(c), i = Len(nils) + 1
      PROVE  /\ nils'[i] = wrote[c]
             /\ InRecord(nils'[i]) \subseteq Behind(c) /\ Behind(c)' = {}
             /\ \A e \in Clients \ {c} : Behind(e)' = Behind(e)
  <2>1. nils'[i] = wrote[c]
    BY <1>2, NilIndexes
  <2>2. at[c] = "applying" /\ todo[c] = <<>> /\ at'[c] # "applying"
    BY <1>2 DEF CommitMark, Goto, TypeOK
  <2>3. Elements(todo[c]) = {}
    BY <2>2 DEF Elements
  <2>4. ASSUME NEW e \in Clients \ {c} PROVE Behind(e)' = Behind(e)
    <3>1. at'[e] = at[e] /\ wrote' = wrote /\ todo' = todo
      BY <1>2 DEF CommitMark, Goto, TypeOK
    <3> QED  BY <3>1 DEF Behind, InRecord
  <2> QED  BY <2>1, <2>2, <2>3, <2>4 DEF Behind
<1>3. ASSUME NEW c \in Clients, CommitMark(c), i # Len(nils) + 1
      PROVE  i \in 1..Len(nils) /\ nils'[i] = nils[i]
  BY <1>3, NilIndexes
<1> QED  BY <1>1, <1>2, <1>3, NilSteps

LEMMA OnceKeeps ==
    ASSUME IInv, Next
    PROVE  Once'
<1> USE DEF IInv
<1>1. removed \subseteq removed'
  BY StoredGrows
<1>2. ASSUME NEW c \in Clients, NEW e \in Clients, c # e
      PROVE  Behind(c)' \cap Behind(e)' \subseteq removed'
  <2>1. Behind(c) \cap Behind(e) \subseteq removed
    BY <1>2 DEF Once
  <2>2. Behind(c) \subseteq docs \cup removed /\ Behind(e) \subseteq docs \cup removed
    BY BehindIsStored DEF Stored
  <2>3. CASE Behind(c)' \subseteq Behind(c) /\ Behind(e)' \subseteq Behind(e)
    BY <1>1, <2>1, <2>3
  <2>4. ASSUME NEW d, d \notin docs, Behind(c)' \subseteq Behind(c) \cup {d},
               Behind(e)' \subseteq Behind(e)
        PROVE  Behind(c)' \cap Behind(e)' \subseteq removed'
    BY <1>1, <2>1, <2>2, <2>4
  <2>5. ASSUME NEW d, d \notin docs, Behind(e)' \subseteq Behind(e) \cup {d},
               Behind(c)' \subseteq Behind(c)
        PROVE  Behind(c)' \cap Behind(e)' \subseteq removed'
    BY <1>1, <2>1, <2>2, <2>5
  <2>6. \/ Behind(c)' \subseteq Behind(c)
        \/ \E d : /\ d \notin docs /\ Behind(c)' \subseteq Behind(c) \cup {d}
                  /\ Behind(e)' \subseteq Behind(e)
    BY <1>2, BehindMoves
  <2>7. \/ Behind(e)' \subseteq Behind(e)
        \/ \E d : /\ d \notin docs /\ Behind(e)' \subseteq Behind(e) \cup {d}
                  /\ Behind(c)' \subseteq Behind(c)
    BY <1>2, BehindMoves
  <2> QED  BY <2>3, <2>4, <2>5, <2>6, <2>7
<1>3. ASSUME NEW c \in Clients, NEW i \in 1..Len(nils')
      PROVE  Behind(c)' \cap InRecord(nils'[i]) \subseteq removed'
  <2>1. CASE i \in 1..Len(nils) /\ nils'[i] = nils[i]
    <3>1. /\ Behind(c) \cap InRecord(nils[i]) \subseteq removed
          /\ InRecord(nils[i]) \subseteq docs \cup removed
      BY <2>1, NilIsStored DEF Once, Stored
    <3>2. Behind(c)' \subseteq Behind(c)
          \/ \E d : d \notin docs /\ Behind(c)' \subseteq Behind(c) \cup {d}
      BY BehindMoves
    <3> QED  BY <1>1, <2>1, <3>1, <3>2
  <2>2. ASSUME NEW e \in Clients, InRecord(nils'[i]) \subseteq Behind(e), Behind(e)' = {},
               \A f \in Clients \ {e} : Behind(f)' = Behind(f)
        PROVE  Behind(c)' \cap InRecord(nils'[i]) \subseteq removed'
    <3>1. CASE c = e
      BY <2>2, <3>1
    <3>2. CASE c # e
      <4>1. Behind(c) \cap Behind(e) \subseteq removed /\ Behind(c)' = Behind(c)
        BY <2>2, <3>2 DEF Once
      <4> QED  BY <1>1, <2>2, <4>1
    <3> QED  BY <3>1, <3>2
  <2> QED  BY <2>1, <2>2, NilMoves
<1>4. ASSUME NEW i \in 1..Len(nils'), NEW j \in 1..Len(nils'), i # j
      PROVE  InRecord(nils'[i]) \cap InRecord(nils'[j]) \subseteq removed'
  <2>1. CASE i \in 1..Len(nils) /\ nils'[i] = nils[i] /\ j \in 1..Len(nils) /\ nils'[j] = nils[j]
    <3>1. InRecord(nils[i]) \cap InRecord(nils[j]) \subseteq removed
      BY <1>4, <2>1 DEF Once
    <3> QED  BY <1>1, <2>1, <3>1
  <2>2. ASSUME NEW e \in Clients, InRecord(nils'[i]) \subseteq Behind(e),
               j \in 1..Len(nils), nils'[j] = nils[j]
        PROVE  InRecord(nils'[i]) \cap InRecord(nils'[j]) \subseteq removed'
    <3>1. Behind(e) \cap InRecord(nils[j]) \subseteq removed
      BY <2>2 DEF Once
    <3> QED  BY <1>1, <2>2, <3>1
  <2>3. ASSUME NEW e \in Clients, InRecord(nils'[j]) \subseteq Behind(e),
               i \in 1..Len(nils), nils'[i] = nils[i]
        PROVE  InRecord(nils'[i]) \cap InRecord(nils'[j]) \subseteq removed'
    <3>1. Behind(e) \cap InRecord(nils[i]) \subseteq removed
      BY <2>3 DEF Once
    <3> QED  BY <1>1, <2>3, <3>1
  <2> QED  BY <1>4, <2>1, <2>2, <2>3, NilMoves
<1>5. \A c, e \in Clients : c # e => Behind(c)' \cap Behind(e)' \subseteq removed'
  BY <1>2
<1>6. \A c \in Clients, i \in 1..Len(nils') :
         Behind(c)' \cap InRecord(nils'[i]) \subseteq removed'
  BY <1>3
<1>7. \A i, j \in 1..Len(nils') :
         i # j => InRecord(nils'[i]) \cap InRecord(nils'[j]) \subseteq removed'
  BY <1>4
<1>8. \A i \in 1..Len(nils') : InRecord(nils[i])' = InRecord(nils'[i])
  BY DEF InRecord
<1> QED  BY <1>5, <1>6, <1>7, <1>8 DEF Once

-----------------------------------------------------------------------------
(* The theorems *)

LEMMA StutterKeeps ==
    ASSUME IInv, UNCHANGED vars
    PROVE  IInv'
<1> USE DEF IInv, vars
<1>1. TypeOK' /\ Refers' /\ Tracking' /\ Balanced'
  BY DEF TypeOK, Refers, Begun, Tracking, ActiveIsTracked, Balanced, Started
<1>2. Logging'
  BY DEF Logging, LogBeforeApply, Accepted
<1>3. /\ applied' = applied /\ docs' = docs /\ at' = at /\ wrote' = wrote /\ ops' = ops
      /\ tx' = tx /\ todo' = todo /\ nils' = nils /\ removed' = removed
  OBVIOUS
<1>4. /\ \A c \in Clients : InRecord(wrote[c])' = InRecord(wrote[c])
      /\ \A i \in 1..Len(nils) : InRecord(nils[i])' = InRecord(nils[i])
  BY <1>3 DEF InRecord
<1>5. \A c \in Clients : Behind(c)' = Behind(c)
  BY <1>3 DEF Behind, InRecord
<1>6. Applying /\ Once
  OBVIOUS
<1>7. Applying' /\ Once'
  <2> HIDE DEF IInv, vars
  <2>1. Applying'
    BY <1>3, <1>4, <1>6 DEF Applying, Stored
  <2>2. Once'
    BY <1>3, <1>4, <1>5, <1>6 DEF Once
  <2> QED  BY <2>1, <2>2
<1> QED  BY <1>1, <1>2, <1>7

LEMMA StepKeeps == IInv /\ [Next]_vars => IInv'
BY TypeKeeps, RefersKeeps, TrackingKeeps, LoggingKeeps, ApplyingKeeps, OnceKeeps,
   BalancedKeeps, StutterKeeps DEF IInv

\* The inductive invariant of the transactions, their clients, timers and the log.
THEOREM IInvHolds == Spec => []IInv
<1> QED  BY InitIInv, StepKeeps, PTL DEF Spec

\* The variables keep their types; activeCount stays within its width.
THEOREM TypeCorrect == Spec => []TypeOK
<1>1. IInv => TypeOK
  BY DEF IInv
<1> QED  BY <1>1, IInvHolds, PTL

\* However Begin, commit, abort and the timers interleave, activeTransactions holds what is
\* active and otherwise only what some client is about to delete from it.
THEOREM TrackedHolds == Spec => []ActiveIsTracked
<1>1. IInv => ActiveIsTracked
  BY DEF IInv, Tracking
<1> QED  BY <1>1, IInvHolds, PTL

\* CommitCurrentTransaction calls WriteSync before it applies: no operation reaches the
\* storage of which no record of its transaction was handed to the log.
THEOREM LogFirst == Spec => []LogBeforeApply
<1>1. IInv => LogBeforeApply
  BY DEF IInv, Logging
<1> QED  BY <1>1, IInvHolds, PTL

\* The counters of TransactionStats add up modulo their width, double ends included.
THEOREM BalanceHolds == Spec => []CountersBalance
<1>1. IInv => CountersBalance
  <2> SUFFICES ASSUME IInv PROVE CountersBalance
    OBVIOUS
  <2> DEFINE sum == committed + aborted + timedOut + activeCount
  <2>1. PICK k \in Int : sum = Started + k * Width
    BY DEF IInv, Balanced
  <2>2. sum \in Nat /\ Started \in Nat /\ Width \in Nat \ {0}
    BY BoundsAssumption DEF IInv, TypeOK, Started
  <2> HIDE DEF sum
  <2>3. sum % Width = Started % Width
    BY <2>1, <2>2, WholeTurns
  <2> QED  BY <2>3 DEF CountersBalance, sum
<1> QED  BY <1>1, IInvHolds, PTL

\* Two commits, by two clients of one transaction or by a retry after the log timed out,
\* both return nil for a document only if it left the storage; a nil commit has applied
\* all it logged, and what it applied is stored until somebody removes it.
THEOREM OnceHolds == Spec => []CommittedOnce
<1>1. IInv => CommittedOnce
  BY NilIsStored DEF IInv, Applying, Once, CommittedOnce, Stored
<1> QED  BY <1>1, IInvHolds, PTL
=============================================================================
