--------------------------- MODULE MigratorProofs ---------------------------
(***************************************************************************)
(* Proofs about Migrator for every number of tasks, runs, workers,         *)
(* documents and faults, whatever ids the documents have: a task that is   *)
(* quiet and counts no failure has all its ids on the target, unless it    *)
(* was started or resumed when Stop had waited for its runs, and only such *)
(* a task is resumed by a restart.                                         *)
(***************************************************************************)
EXTENDS Migrator, TLAPS, SequenceTheorems, NaturalsInduction, WellFoundedInduction

Keys == Ids \cup DOMAIN Collections
Checkpoints == (SUBSET Keys) \cup {Nil}
Ended == {"Completed", "Failed"}
Statuses == Ended \cup {"none", "Preparing", "Migrating", "DeltaSync", "Validating", "Paused"}
Places == {"none", "prepare", "load", "send", "error", "delta", "apply", "complete"}
RunType == [at : Places, task : Tasks \cup {Nil}, coll : Nat, next : Nat, sent : Nat,
            chan : Seq(Ids), sending : SUBSET Ids, blocked : SUBSET Ids,
            errors : Nat, ckpt : Checkpoints, mine : Checkpoints]

\* Types of the variables, those of a run in full.
Types ==
    /\ proc \in {"up", "stopping", "down"} \cup Waited /\ current \in Tasks \cup {Nil}
    /\ started \subseteq Tasks /\ late \subseteq Tasks
    /\ status \in [Tasks -> Statuses] /\ tasksFile \in [Tasks -> Statuses]
    /\ ckptFile \in [Tasks -> Checkpoints] /\ ckptData \in [Tasks -> Checkpoints]
    /\ failed \in [Tasks -> Nat] /\ failedFile \in [Tasks -> Nat]
    /\ run \in [Runs -> RunType]

\* The elements of a channel.
Elems(s) == {s[i] : i \in 1..Len(s)}

\* What a run has taken from its collection and not yet sent or reported.
Hand(r) == Elems(run[r].chan) \cup run[r].sending \cup run[r].blocked
Carries(r, t, d) ==
    run[r].at = "send" /\ run[r].task = t /\ d[2] \in Hand(r)

\* A document that need not be sent again: the target has its id, a run of the task is about
\* to send one with its id, a failure is counted, or nothing is claimed about it.
Exempt(t, d) == t \in late \/ ~Plain(d)
Safe(t, d) == Exempt(t, d) \/ Received(d) \/ failed[t] > 0
Held(t, d) == Safe(t, d) \/ \E r \in Runs : Carries(r, t, d)

\* A checkpoint marks only what is held.
Good(t, checkpoint) ==
    \A d \in AllDocs : Marked(checkpoint, d[1]) \/ Marked(checkpoint, d[2]) => Held(t, d)

\* A run at work, what it has behind it, and a run that has sent all it had to send.
RunOK(r) ==
    LET t == run[r].task IN
    /\ run[r].at = "none" => t = Nil
    /\ run[r].at # "none" => t \in Tasks /\ Known(t)
    /\ run[r].at = "error" => t \in late
    /\ run[r].at \in {"prepare", "load"} => run[r].coll = 1
    /\ run[r].at = "send" =>
         /\ run[r].coll \in DOMAIN Collections /\ run[r].next >= 1
         /\ Good(t, run[r].ckpt) /\ Good(t, run[r].mine)
         /\ \A d \in AllDocs : d[1] < run[r].coll => Held(t, d)
         /\ \A i \in DOMAIN Coll(r) : i < run[r].next => Held(t, <<run[r].coll, Coll(r)[i]>>)
    /\ run[r].at \in {"delta", "apply", "complete"} => \A d \in AllDocs : Held(t, d)

\* A task in memory: its checkpoints are good, and without a run it has ended.
TaskOK(t) ==
    /\ Known(t) => t \in started /\ Good(t, ckptFile[t]) /\ Good(t, ckptData[t])
    /\ Known(t) /\ NoRun(t) => /\ status[t] \in Ended \/ t \in late
                              /\ \A d \in AllDocs : Held(t, d)
    /\ t \notin started => ckptFile[t] = Nil /\ ckptData[t] = {}

\* A task in the file has ended.
FileSafe(t, d) == Exempt(t, d) \/ Received(d) \/ failedFile[t] > 0
FileOK(t) ==
    tasksFile[t] # "none" =>
        /\ t \in started /\ (tasksFile[t] \in Ended \/ t \in late)
        /\ \A d \in AllDocs : FileSafe(t, d)

DownOK == proc = "down" => \A r \in Runs : run[r].at = "none"

\* When Stop has waited, whatever runs was launched after that.
LateOK == proc \in Waited => \A r \in Runs : run[r].at # "none" => run[r].task \in late

\* The inductive invariant.
IInv ==
    /\ Types /\ DownOK /\ LateOK
    /\ \A r \in Runs : RunOK(r)
    /\ \A t \in Tasks : TaskOK(t) /\ FileOK(t)

-----------------------------------------------------------------------------
(* Documents, collections and channels *)

LEMMA DocsType ==
    /\ \A d \in AllDocs : /\ d = <<d[1], d[2]>> /\ d[1] \in DOMAIN Collections
                          /\ d[2] \in Ids
                          /\ \E i \in DOMAIN Collections[d[1]] : d[2] = Collections[d[1]][i]
    /\ \A c \in DOMAIN Collections : \A i \in DOMAIN Collections[c] :
          <<c, Collections[c][i]>> \in AllDocs /\ Collections[c][i] \in Ids
    /\ \A c \in DOMAIN Collections : c \in Nat /\ c >= 1
    /\ \A c \in DOMAIN Collections : /\ Len(Collections[c]) \in Nat
                                     /\ DOMAIN Collections[c] = 1..Len(Collections[c])
<1>1. \A d \in AllDocs : \E c \in DOMAIN Collections : \E i \in DOMAIN Collections[c] :
          d = <<c, Collections[c][i]>>
  BY DEF AllDocs, DocsOf
<1>2. \A c \in DOMAIN Collections : \A i \in DOMAIN Collections[c] :
          <<c, Collections[c][i]>> \in AllDocs
  BY DEF AllDocs, DocsOf
<1>3. \A c \in DOMAIN Collections : c \in Nat /\ c >= 1
  <2>1. Len(Collections) \in Nat /\ DOMAIN Collections = 1..Len(Collections)
    BY MigratorAssumption, LenProperties
  <2> QED  BY <2>1
<1>4. \A c \in DOMAIN Collections : /\ Len(Collections[c]) \in Nat
                                    /\ DOMAIN Collections[c] = 1..Len(Collections[c])
  BY MigratorAssumption, LenProperties
<1> QED  BY <1>1, <1>2, <1>3, <1>4 DEF Ids

LEMMA Least ==
    ASSUME NEW S \in SUBSET Nat, S # {}
    PROVE  \E i \in S : \A j \in S : i <= j
<1>1. PICK i \in S : \A j \in S : ~(<<j, i>> \in OpToRel(<, Nat))
  BY NatLessThanWellFounded, WFMin
<1>2. \A j \in S : <<j, i>> \in Nat \X Nat
  OBVIOUS
<1>3. \A j \in S : ~(j < i)
  BY <1>1, <1>2 DEF OpToRel
<1> QED  BY <1>3

LEMMA InAppend ==
    ASSUME NEW S, NEW s \in Seq(S), NEW x \in S
    PROVE  Append(s, x) \in Seq(S) /\ Elems(s) \cup {x} \subseteq Elems(Append(s, x))
<1>1. /\ Append(s, x) \in Seq(S) /\ Len(Append(s, x)) = Len(s) + 1 /\ Len(s) \in Nat
      /\ \A i \in 1..Len(s) : Append(s, x)[i] = s[i]
      /\ Append(s, x)[Len(s) + 1] = x
  BY AppendProperties, LenProperties
<1>2. \A i \in 1..Len(s) : i \in 1..Len(Append(s, x))
  BY <1>1
<1>3. Len(s) + 1 \in 1..Len(Append(s, x))
  BY <1>1
<1> QED  BY <1>1, <1>2, <1>3 DEF Elems

LEMMA InTail ==
    ASSUME NEW S, NEW s \in Seq(S), s # <<>>
    PROVE  /\ Tail(s) \in Seq(S) /\ Head(s) \in S
           /\ Elems(s) \subseteq {Head(s)} \cup Elems(Tail(s))
<1>1. /\ Head(s) \in S /\ Head(s) = s[1] /\ Tail(s) \in Seq(S)
      /\ Len(s) \in Nat /\ Len(s) >= 1 /\ Len(Tail(s)) = Len(s) - 1
      /\ \A i \in 1..Len(Tail(s)) : Tail(s)[i] = s[i + 1]
  BY HeadTailProperties, LenProperties, EmptySeq
<1>2. ASSUME NEW i \in 1..Len(s), i # 1
      PROVE  i - 1 \in 1..Len(Tail(s)) /\ Tail(s)[i - 1] = s[i]
  BY <1>1, <1>2
<1>3. 1 \in 1..Len(s)
  BY <1>1
<1> QED  BY <1>1, <1>2, <1>3 DEF Elems

LEMMA NoElems == Elems(<<>>) = {}
BY DEF Elems

\* Enter goes to a collection all of whose predecessors are in G, or past all of them.
LEMMA EnterAt ==
    ASSUME NEW state \in RunType, NEW checkpoint \in Checkpoints, NEW G,
           \A d \in AllDocs : d[1] < state.coll \/ Marked(checkpoint, d[1]) => d \in G
    PROVE  /\ Enter(state, checkpoint) \in RunType
           /\ Enter(state, checkpoint).task = state.task
           /\ \/ Enter(state, checkpoint).at = "error" /\ ~IsActive
              \/ /\ Enter(state, checkpoint).at = "delta"
                 /\ \A d \in AllDocs : d \in G
              \/ /\ Enter(state, checkpoint).at = "send"
                 /\ Enter(state, checkpoint).coll \in DOMAIN Collections
                 /\ Enter(state, checkpoint).next = 1
                 /\ Enter(state, checkpoint).ckpt = checkpoint
                 /\ Enter(state, checkpoint).mine = checkpoint
                 /\ \A d \in AllDocs : d[1] < Enter(state, checkpoint).coll => d \in G
<1> DEFINE ahead == {c \in DOMAIN Collections : c >= state.coll}
           left == {c \in ahead : ~Marked(checkpoint, c)}
           stops == ~IsActive /\ ahead # {}
<1>0. CASE stops
  <2>1. Enter(state, checkpoint)
           = [state EXCEPT !.at = "error", !.ckpt = Nil, !.mine = Nil]
    BY <1>0 DEF Enter
  <2>2. Enter(state, checkpoint).at = "error" /\ Enter(state, checkpoint).task = state.task
    BY <2>1 DEF RunType
  <2>3. Enter(state, checkpoint) \in RunType
    <3>1. "error" \in Places /\ Nil \in Checkpoints
      BY DEF Places, Checkpoints
    <3> QED  BY <2>1, <3>1 DEF RunType
  <2> QED  BY <1>0, <2>2, <2>3
<1>1. left \subseteq Nat /\ state.coll \in Nat
  BY DocsType DEF RunType
<1>2. \A d \in AllDocs : d[1] \in DOMAIN Collections /\ d[1] \in Nat
  BY DocsType
<1>3. CASE ~stops /\ left = {}
  <2>1. Enter(state, checkpoint)
           = [state EXCEPT !.at = "delta", !.ckpt = Nil, !.mine = Nil]
    BY <1>3 DEF Enter
  <2>2. \A d \in AllDocs : d \in G
    BY <1>1, <1>2, <1>3
  <2>3. Enter(state, checkpoint).at = "delta" /\ Enter(state, checkpoint).task = state.task
    BY <2>1 DEF RunType
  <2>4. Enter(state, checkpoint) \in RunType
    <3>1. "delta" \in Places /\ Nil \in Checkpoints
      BY DEF Places, Checkpoints
    <3> QED  BY <2>1, <3>1 DEF RunType
  <2> QED  BY <2>2, <2>3, <2>4
<1>4. CASE ~stops /\ left # {}
  <2> DEFINE m == CHOOSE c \in left : \A d \in left : c <= d
  <2>1. m \in left /\ \A c \in left : m <= c
    BY <1>1, <1>4, Least
  <2>2. Enter(state, checkpoint)
           = [state EXCEPT !.at = "send", !.coll = m, !.next = 1, !.sent = 0, !.errors = 0,
                           !.ckpt = checkpoint, !.mine = checkpoint]
    BY <1>4 DEF Enter
  <2>3. m \in DOMAIN Collections /\ m \in Nat
    BY <1>1, <2>1
  <2>4. \A d \in AllDocs : d[1] < m => d \in G
    <3> SUFFICES ASSUME NEW d \in AllDocs, d[1] < m PROVE d \in G
      OBVIOUS
    <3>1. d[1] \notin left
      BY <1>1, <1>2, <2>1, <2>3
    <3> QED  BY <1>1, <1>2, <3>1
  <2> HIDE DEF m, left, ahead, stops
  <2>5. Enter(state, checkpoint) \in RunType
    <3>1. "send" \in Places /\ 0 \in Nat /\ 1 \in Nat
      BY DEF Places
    <3> QED  BY <2>2, <2>3, <3>1 DEF RunType
  <2>6. /\ Enter(state, checkpoint).at = "send" /\ Enter(state, checkpoint).task = state.task
        /\ Enter(state, checkpoint).coll = m /\ Enter(state, checkpoint).next = 1
        /\ Enter(state, checkpoint).ckpt = checkpoint
        /\ Enter(state, checkpoint).mine = checkpoint
    BY <2>2 DEF RunType
  <2> QED  BY <2>3, <2>4, <2>5, <2>6
<1> QED  BY <1>0, <1>3, <1>4

-----------------------------------------------------------------------------
(* What is held stays held *)

\* A run keeps what it carries, or it has come to the target, or a failure is counted.
Keeps(r) ==
    run[r].at = "send" =>
        \A id \in Hand(r) :
            \/ /\ run'[r].at = "send" /\ run'[r].task = run[r].task
               /\ run'[r].coll = run[r].coll /\ id \in Hand(r)'
            \/ <<run[r].coll, id>> \in target'
            \/ failed'[run[r].task] > 0

Grows ==
    /\ target \subseteq target' /\ late \subseteq late'
    /\ \A t \in Tasks : failed[t] > 0 => failed'[t] > 0

HeldStays == \A t \in Tasks : \A d \in AllDocs : Held(t, d) => Held(t, d)'

LEMMA Stays ==
    ASSUME Grows, \A r \in Runs : Keeps(r)
    PROVE  HeldStays
<1> SUFFICES ASSUME NEW t \in Tasks, NEW d \in AllDocs, Held(t, d) PROVE Held(t, d)'
  BY DEF HeldStays
<1>1. CASE Safe(t, d)
  BY <1>1 DEF Safe, Exempt, Received, Held, Grows
<1>2. ASSUME NEW r \in Runs, Carries(r, t, d) PROVE Held(t, d)'
  <2>1. <<run[r].coll, d[2]>>[2] = d[2]
    OBVIOUS
  <2>2. CASE <<run[r].coll, d[2]>> \in target'
    BY <2>1, <2>2 DEF Held, Safe, Received
  <2>3. CASE failed'[t] > 0
    BY <2>3 DEF Held, Safe
  <2>4. CASE run'[r].at = "send" /\ run'[r].task = t /\ d[2] \in Hand(r)'
    BY <2>4 DEF Held, Carries
  <2> QED  BY <1>2, <2>2, <2>3, <2>4 DEF Carries, Keeps
<1> QED  BY <1>1, <1>2 DEF Held

\* Another run, and what the files and the memory say of a task, stay as good.
LEMMA RunStays ==
    ASSUME HeldStays, Grows, NEW r \in Runs, RunOK(r), run'[r] = run[r],
           run[r].at # "none" => Known(run[r].task)'
    PROVE  RunOK(r)'
<1>1. ASSUME NEW t \in Tasks, NEW k, Good(t, k) PROVE Good(t, k)'
  BY <1>1 DEF Good, HeldStays
<1>2. \A i \in DOMAIN Coll(r) : run[r].at = "send" /\ RunOK(r) =>
          <<run[r].coll, Coll(r)[i]>> \in AllDocs
  BY DocsType DEF RunOK, Coll
<1>3. Coll(r)' = Coll(r)
  BY DEF Coll
<1>4. ASSUME run[r].at = "send"
      PROVE  /\ Good(run[r].task, run[r].ckpt)' /\ Good(run[r].task, run[r].mine)'
  BY <1>1, <1>4 DEF RunOK
<1> QED  BY <1>2, <1>3, <1>4 DEF RunOK, HeldStays, Grows

LEMMA FileStays ==
    ASSUME NEW t \in Tasks, FileOK(t), Grows, UNCHANGED <<tasksFile, failedFile>>,
           started \subseteq started'
    PROVE  FileOK(t)'
BY DEF FileOK, Grows, FileSafe, Exempt, Received

LEMMA TaskStays ==
    ASSUME HeldStays, Grows, NEW t \in Tasks, TaskOK(t), started \subseteq started',
           Known(t)' => Known(t),
           \/ ckptFile'[t] = ckptFile[t]
           \/ t \in started' /\ Good(t, ckptFile[t])',
           \/ ckptData'[t] = ckptData[t]
           \/ t \in started' /\ Good(t, ckptData[t])',
           NoRun(t)' => NoRun(t),
           NoRun(t) => status'[t] \in {status[t], "Failed"} \/ t \in late
    PROVE  TaskOK(t)'
<1>1. ASSUME NEW k, Good(t, k) PROVE Good(t, k)'
  BY <1>1 DEF Good, HeldStays
<1>2. Known(t)' => t \in started' /\ Good(t, ckptFile[t])' /\ Good(t, ckptData[t])'
  BY <1>1 DEF TaskOK
<1>3. Known(t)' /\ NoRun(t)' => /\ status'[t] \in Ended \/ t \in late'
                                /\ \A d \in AllDocs : Held(t, d)'
  BY DEF TaskOK, Ended, HeldStays, Grows
<1> QED  BY <1>2, <1>3 DEF TaskOK

-----------------------------------------------------------------------------
(* A step of a run that goes on *)

LEMMA OneRun ==
    ASSUME IInv, Types', NEW r \in Runs, NEW t \in Tasks, t = run[r].task,
           NEW n, run' = [run EXCEPT ![r] = n],
           run[r].at # "none", n.at # "none", n.task = t,
           UNCHANGED <<proc, started, tasksFile, failedFile, late>>, Grows, Keeps(r),
           \A u \in Tasks \ {t} :
               status'[u] = status[u] /\ ckptFile'[u] = ckptFile[u] /\ ckptData'[u] = ckptData[u],
           status'[t] # "none",
           HeldStays => ckptFile'[t] = ckptFile[t] \/ Good(t, ckptFile[t])',
           HeldStays => ckptData'[t] = ckptData[t] \/ Good(t, ckptData[t])',
           HeldStays => RunOK(r)'
    PROVE  IInv'
<1>1. run'[r] = n /\ \A q \in Runs : q # r => run'[q] = run[q]
  BY DEF IInv, Types
<1>2. \A q \in Runs : Keeps(q)
  <2> SUFFICES ASSUME NEW q \in Runs, q # r PROVE Keeps(q)
    OBVIOUS
  <2> QED  BY <1>1 DEF Keeps, Hand
<1>3. HeldStays
  BY <1>2, Stays
<1>4. Known(t) /\ t \in started
  BY DEF IInv, RunOK, TaskOK
<1>5. ASSUME NEW q \in Runs, q # r PROVE RunOK(q)'
  <2>1. run[q].at # "none" => run[q].task \in Tasks /\ Known(run[q].task)
    BY DEF IInv, RunOK
  <2>2. run[q].at # "none" => Known(run[q].task)'
    BY <1>1, <1>5, <2>1 DEF Known
  <2> QED  BY <1>1, <1>3, <1>5, <2>2, RunStays DEF IInv
<1>6. ASSUME NEW u \in Tasks PROVE TaskOK(u)'
  <2>1. Known(u)' => Known(u)
    BY <1>4 DEF Known
  <2>2. NoRun(u)' => NoRun(u)
    BY <1>1 DEF NoRun
  <2>3. NoRun(u) => u # t
    BY DEF NoRun
  <2> QED  BY <1>3, <1>4, <2>1, <2>2, <2>3, TaskStays DEF IInv
<1>7. \A u \in Tasks : FileOK(u)'
  BY FileStays DEF IInv
<1>8. DownOK'
  BY <1>1 DEF IInv, DownOK
<1>9. LateOK'
  BY <1>1 DEF IInv, LateOK
<1> QED  BY <1>3, <1>5, <1>6, <1>7, <1>8, <1>9 DEF IInv

LEMMA PrepareKeeps ==
    ASSUME IInv, NEW r \in Runs, Prepare(r)
    PROVE  IInv'
<1>1. PICK t \in Tasks : t = run[r].task
  BY DEF IInv, RunOK, Prepare, At
<1> DEFINE n == [run[r] EXCEPT !.at = "load"]
<1>2. /\ run[r].at = "prepare" /\ run' = [run EXCEPT ![r] = n]
      /\ status' = [status EXCEPT ![t] = "Migrating"]
      /\ UNCHANGED <<ckptFile, ckptData, failed, target, proc, started, current,
                   tasksFile, failedFile, late>>
  BY <1>1 DEF Prepare, At, Goto, Task, Quiet, Still, files
<1>3. /\ n \in RunType /\ n.at = "load" /\ n.task = t /\ n.coll = run[r].coll
      /\ run[r].coll = 1
  BY <1>1, <1>2 DEF IInv, Types, RunType, Places, RunOK
<1> HIDE DEF n
<1>4. Types'
  BY <1>2, <1>3 DEF IInv, Types, Statuses, Ended
<1>5. run'[r] = n
  BY <1>2 DEF IInv, Types
<1>6. status'[t] = "Migrating" /\ \A u \in Tasks \ {t} : status'[u] = status[u]
  BY <1>2 DEF IInv, Types
<1>7. RunOK(r)'
  BY <1>3, <1>5, <1>6 DEF RunOK, Known
<1>8. Keeps(r) /\ Grows
  BY <1>2 DEF Keeps, Grows
<1> QED  BY <1>1, <1>2, <1>3, <1>4, <1>6, <1>7, <1>8, OneRun

\* The run that has entered what Enter chose.
LEMMA EnteredOK ==
    ASSUME NEW r \in Runs, NEW state \in RunType, NEW k \in Checkpoints,
           run'[r] = Enter(state, k), state.task \in Tasks, Known(state.task)', Good(state.task, k)',
           IsActive \/ state.task \in late',
           \A d \in AllDocs : d[1] < state.coll => Held(state.task, d)'
    PROVE  RunOK(r)' /\ run'[r] \in RunType /\ run'[r].task = state.task /\ run'[r].at # "none"
<1> DEFINE G == {d \in AllDocs : Held(state.task, d)'}
           n == Enter(state, k)
<1>1. \A d \in AllDocs : d[1] < state.coll \/ Marked(k, d[1]) => d \in G
  BY DEF Good
<1>2. \A d \in AllDocs : d \in G => Held(state.task, d)'
  OBVIOUS
<1> HIDE DEF G
<1>3. /\ n \in RunType /\ n.task = state.task
      /\ \/ n.at = "error" /\ ~IsActive
         \/ n.at = "delta" /\ \A d \in AllDocs : d \in G
         \/ /\ n.at = "send" /\ n.coll \in DOMAIN Collections /\ n.next = 1
            /\ n.ckpt = k /\ n.mine = k
            /\ \A d \in AllDocs : d[1] < n.coll => d \in G
  BY <1>1, EnterAt
<1> HIDE DEF n
<1>4. run'[r] = n
  BY DEF n
<1>5. CASE n.at = "delta"
  BY <1>2, <1>3, <1>4, <1>5 DEF RunOK
<1>7. CASE n.at = "error"
  BY <1>3, <1>4, <1>7 DEF RunOK
<1>6. CASE n.at = "send"
  <2>1. \A i \in DOMAIN Collections[n.coll] : ~(i < 1)
    BY <1>3, <1>6, DocsType
  <2>2. Coll(r)' = Collections[n.coll]
    BY <1>4 DEF Coll
  <2> QED  BY <1>2, <1>3, <1>4, <1>6, <2>1, <2>2 DEF RunOK
<1> QED  BY <1>3, <1>4, <1>5, <1>6, <1>7

\* A run that meets active cleared was launched when Stop had waited.
LEMMA StoppedIsLate ==
    ASSUME IInv, NEW r \in Runs, run[r].at # "none"
    PROVE  IsActive \/ run[r].task \in late
BY DEF IInv, Types, DownOK, LateOK, IsActive, Waited

LEMMA LoadKeeps ==
    ASSUME IInv, NEW r \in Runs, LoadCheckpoint(r)
    PROVE  IInv'
<1>1. PICK t \in Tasks, k \in Checkpoints : t = run[r].task /\ k = ckptFile[t]
  BY DEF IInv, RunOK, LoadCheckpoint, At, Types
<1>2. /\ run[r].at = "load" /\ run' = [run EXCEPT ![r] = Enter(run[r], k)]
      /\ ckptData' = IF k = Nil THEN ckptData ELSE [ckptData EXCEPT ![t] = k]
      /\ UNCHANGED <<status, ckptFile, failed, target, proc, started, current,
                   tasksFile, failedFile, late>>
  BY <1>1 DEF LoadCheckpoint, At, Task, Quiet, Still, files
<1>3. run[r] \in RunType /\ Known(t) /\ run[r].coll = 1 /\ Good(t, k)
  BY <1>1, <1>2 DEF IInv, Types, RunOK, TaskOK
<1>4. run'[r] = Enter(run[r], k)
  BY <1>2 DEF IInv, Types
<1>5. Keeps(r) /\ Grows
  BY <1>2 DEF Keeps, Grows
<1>6. \A d \in AllDocs : ~(d[1] < 1)
  BY DocsType
<1>7. Enter(run[r], k) \in RunType /\ Enter(run[r], k).task = t /\ Enter(run[r], k).at # "none"
  <2>1. \A d \in AllDocs : d[1] < run[r].coll \/ Marked(k, d[1]) => d \in AllDocs
    OBVIOUS
  <2> QED  BY <1>1, <1>3, <2>1, EnterAt
<1>8. ASSUME HeldStays PROVE Good(t, k)' /\ RunOK(r)'
  <2>1. Good(t, k)'
    BY <1>3, <1>8 DEF Good, HeldStays
  <2>2. Known(t)'
    BY <1>2, <1>3 DEF Known
  <2>3. RunOK(r)'
    <3>1. IsActive \/ t \in late'
      BY <1>1, <1>2, StoppedIsLate
    <3> QED  BY <1>1, <1>3, <1>4, <1>6, <2>1, <2>2, <3>1, EnteredOK
  <2> QED  BY <2>1, <2>3
<1>9. Types'
  <2>1. ckptData' \in [Tasks -> Checkpoints]
    BY <1>2 DEF IInv, Types
  <2> QED  BY <1>2, <1>7, <2>1 DEF IInv, Types
<1>10. ckptData'[t] \in {ckptData[t], k} /\ \A u \in Tasks \ {t} : ckptData'[u] = ckptData[u]
  BY <1>2 DEF IInv, Types
<1>11. HeldStays => ckptData'[t] = ckptData[t] \/ Good(t, ckptData[t])'
  BY <1>8, <1>10
<1>12. status'[t] # "none"
  BY <1>2, <1>3 DEF Known
<1> DEFINE n == Enter(run[r], k)
<1>13. run' = [run EXCEPT ![r] = n] /\ n.task = t /\ n.at # "none"
  BY <1>2, <1>7
<1> HIDE DEF n
<1>14. /\ t \in Tasks /\ t = run[r].task /\ run[r].at # "none"
       /\ UNCHANGED <<proc, started, tasksFile, failedFile, late, status, ckptFile>>
  BY <1>1, <1>2
<1>15. \A u \in Tasks \ {t} :
          status'[u] = status[u] /\ ckptFile'[u] = ckptFile[u] /\ ckptData'[u] = ckptData[u]
  BY <1>10, <1>14
<1>16. HeldStays => RunOK(r)'
  BY <1>8
<1>17. HeldStays => ckptFile'[t] = ckptFile[t]
  BY <1>14
<1> QED  BY <1>5, <1>9, <1>11, <1>12, <1>13, <1>14, <1>15, <1>16, <1>17, OneRun

\* A step inside a collection.
LEMMA OneSend ==
    ASSUME IInv, Types', NEW r \in Runs, NEW t \in Tasks, t = run[r].task,
           NEW n, run' = [run EXCEPT ![r] = n], run[r].at = "send",
           n.at = "send", n.task = t, n.coll = run[r].coll,
           UNCHANGED <<proc, started, tasksFile, failedFile, late, status, ckptData>>,
           Grows, Keeps(r),
           \A u \in Tasks \ {t} : ckptFile'[u] = ckptFile[u],
           HeldStays => ckptFile'[t] = ckptFile[t] \/ Good(t, ckptFile[t])',
           n.next >= 1,
           HeldStays => /\ n.ckpt = run[r].ckpt \/ Good(t, n.ckpt)'
                        /\ n.mine = run[r].mine \/ Good(t, n.mine)',
           HeldStays => \A i \in DOMAIN Collections[n.coll] : i < n.next =>
                            i < run[r].next \/ Held(t, <<n.coll, Collections[n.coll][i]>>)'
    PROVE  IInv'
<1>1. run'[r] = n
  BY DEF IInv, Types
<1>2. /\ Known(t) /\ n.coll \in DOMAIN Collections
      /\ Good(t, run[r].ckpt) /\ Good(t, run[r].mine)
      /\ \A d \in AllDocs : d[1] < n.coll => Held(t, d)
      /\ \A i \in DOMAIN Collections[n.coll] : i < run[r].next =>
             Held(t, <<n.coll, Collections[n.coll][i]>>)
  BY DEF IInv, RunOK, Coll
<1>3. ASSUME HeldStays PROVE RunOK(r)'
  <2>1. \A k : Good(t, k) => Good(t, k)'
    BY <1>3 DEF Good, HeldStays
  <2>2. Good(t, n.ckpt)' /\ Good(t, n.mine)'
    BY <1>2, <1>3, <2>1
  <2>3. \A d \in AllDocs : d[1] < n.coll => Held(t, d)'
    BY <1>2, <1>3 DEF HeldStays
  <2>4. \A i \in DOMAIN Collections[n.coll] : i < n.next =>
            Held(t, <<n.coll, Collections[n.coll][i]>>)'
    <3>1. \A i \in DOMAIN Collections[n.coll] : <<n.coll, Collections[n.coll][i]>> \in AllDocs
      BY <1>2, DocsType
    <3> QED  BY <1>2, <1>3, <3>1 DEF HeldStays
  <2>5. Known(t)'
    BY <1>2 DEF Known
  <2>6. Coll(r)' = Collections[n.coll]
    BY <1>1 DEF Coll
  <2> QED  BY <1>1, <1>2, <2>2, <2>3, <2>4, <2>5, <2>6 DEF RunOK
<1>4. status'[t] # "none"
  BY <1>2 DEF Known
<1> QED  BY <1>3, <1>4, OneRun

LEMMA QueueKeeps ==
    ASSUME IInv, NEW r \in Runs, Queue(r)
    PROVE  IInv'
<1>1. PICK t \in Tasks : t = run[r].task
  BY DEF IInv, RunOK, Queue, At
<1>2. /\ run[r].at = "send" /\ run[r].next <= Len(Coll(r)) /\ run[r] \in RunType
      /\ run[r].coll \in DOMAIN Collections
  BY DEF Queue, At, IInv, Types, RunOK
<1>3. PICK id, c : id = Coll(r)[run[r].next] /\ c = run[r].coll
  OBVIOUS
<1>4. UNCHANGED <<status, ckptData, failed, target, proc, started, current,
                   tasksFile, failedFile, late>>
  BY DEF Queue, Quiet, Still, files
<1>5. /\ Coll(r) = Collections[c] /\ c \in DOMAIN Collections
      /\ run[r].next \in Nat /\ run[r].sent \in Nat
      /\ \A i \in DOMAIN Collections[c] : i < run[r].next + 1 => i < run[r].next \/ i = run[r].next
  BY <1>2, <1>3, DocsType DEF Coll, RunType
<1>6. CASE /\ Marked(run[r].mine, id)
           /\ run' = [run EXCEPT ![r].next = @ + 1]
           /\ UNCHANGED ckptFile
  <2> PICK n : n = [run[r] EXCEPT !.next = @ + 1]
    OBVIOUS
  <2>1. run' = [run EXCEPT ![r] = n]
    BY <1>6
  <2>2. /\ n \in RunType /\ n.at = "send" /\ n.task = t /\ n.coll = c /\ n.next = run[r].next + 1
        /\ n.ckpt = run[r].ckpt /\ n.mine = run[r].mine /\ n.chan = run[r].chan
        /\ n.sending = run[r].sending /\ n.blocked = run[r].blocked
    <3>1. run[r].next + 1 \in Nat
      BY <1>5
    <3> QED  BY <1>1, <1>2, <1>3, <3>1 DEF RunType
  <2>3. Types'
    BY <1>4, <1>6, <2>1, <2>2 DEF IInv, Types
  <2>4. Keeps(r) /\ Grows
    BY <1>1, <1>3, <1>4, <2>1, <2>2 DEF Keeps, Grows, Hand, IInv, Types
  <2>5. ASSUME HeldStays, NEW i \in DOMAIN Collections[c], i = run[r].next
        PROVE  Held(t, <<c, Collections[c][i]>>)'
    <3>1. <<c, Collections[c][i]>> \in AllDocs
      BY <1>5, DocsType
    <3>2. Held(t, <<c, Collections[c][i]>>)
      BY <1>1, <1>2, <1>3, <1>5, <1>6, <2>5, <3>1 DEF IInv, RunOK, Good
    <3> QED  BY <2>5, <3>1, <3>2 DEF HeldStays
  <2>6. HeldStays => \A i \in DOMAIN Collections[n.coll] : i < n.next =>
                         i < run[r].next \/ Held(t, <<n.coll, Collections[n.coll][i]>>)'
    BY <1>5, <2>2, <2>5
  <2>7. n.coll = run[r].coll /\ n.next >= 1
    BY <1>2, <1>3, <1>5, <2>2
  <2>8. ckptFile' = ckptFile
    BY <1>6
  <2> QED  BY <1>1, <1>2, <1>4, <2>1, <2>2, <2>3, <2>4, <2>6, <2>7, <2>8, OneSend
<1>7. CASE /\ ~Marked(run[r].mine, id)
           /\ run' = [run EXCEPT ![r].next = @ + 1, ![r].sent = run[r].sent + 1,
                         ![r].chan = Append(@, id),
                         ![r].mine = IF (run[r].sent + 1) % BatchSize = 0 THEN Mark(r, id) ELSE @,
                         ![r].ckpt = IF (run[r].sent + 1) % BatchSize = 0 /\ run[r].ckpt # Nil
                                     THEN Mark(r, id) ELSE @]
           /\ ckptFile' = IF (run[r].sent + 1) % BatchSize = 0
                          THEN [ckptFile EXCEPT ![run[r].task] = Mark(r, id)] ELSE ckptFile
  <2>1. PICK k : k = Mark(r, id)
    OBVIOUS
  <2>2. PICK m, e : /\ m = IF (run[r].sent + 1) % BatchSize = 0 THEN k ELSE run[r].mine
                    /\ e = IF (run[r].sent + 1) % BatchSize = 0 /\ run[r].ckpt # Nil
                          THEN k ELSE run[r].ckpt
    OBVIOUS
  <2> PICK n : n = [run[r] EXCEPT !.next = @ + 1, !.sent = @ + 1, !.chan = Append(@, id),
                                  !.mine = m, !.ckpt = e]
    OBVIOUS
  <2>3. run' = [run EXCEPT ![r] = n]
    BY <1>7, <2>1, <2>2
  <2>4. run[r].next \in DOMAIN Collections[c] /\ id = Collections[c][run[r].next]
    <3>1. run[r].next >= 1
      BY <1>2 DEF IInv, RunOK
    <3> QED  BY <1>2, <1>3, <1>5, <3>1, DocsType
  <2>5. id \in Ids /\ <<c, id>> \in AllDocs
    BY <1>5, <2>4, DocsType
  <2>6. k \in Checkpoints /\ \A x : Marked(k, x) => x = id \/ Marked(run[r].mine, x)
    <3>1. id \in Keys /\ run[r].mine \in (SUBSET Keys) \cup {Nil}
      BY <1>2, <2>5 DEF Keys, RunType, Checkpoints
    <3>2. CASE run[r].mine = Nil
      BY <2>1, <3>1, <3>2 DEF Mark, Marked, Checkpoints
    <3>3. CASE run[r].mine # Nil
      BY <2>1, <3>1, <3>3 DEF Mark, Marked, Checkpoints
    <3> QED  BY <3>2, <3>3
  <2>7. /\ Append(run[r].chan, id) \in Seq(Ids)
        /\ Elems(run[r].chan) \cup {id} \subseteq Elems(Append(run[r].chan, id))
    <3>1. run[r].chan \in Seq(Ids)
      BY <1>2 DEF RunType
    <3> QED  BY <2>5, <3>1, InAppend
  <2>8. n \in RunType
    <3>1. m \in Checkpoints /\ e \in Checkpoints
      BY <1>2, <2>2, <2>6 DEF RunType
    <3>2. run[r].next + 1 \in Nat /\ run[r].sent + 1 \in Nat
      BY <1>5
    <3> QED  BY <1>2, <2>7, <3>1, <3>2 DEF RunType
  <2>9. /\ n.at = "send" /\ n.task = t /\ n.coll = c /\ n.next = run[r].next + 1
        /\ n.chan = Append(run[r].chan, id)
        /\ n.ckpt = e /\ n.mine = m
        /\ n.sending = run[r].sending /\ n.blocked = run[r].blocked
    BY <1>1, <1>2, <1>3 DEF RunType
  <2>10. run'[r] = n
    BY <2>3 DEF IInv, Types
  <2>11. Hand(r) \subseteq Hand(r)' /\ id \in Hand(r)'
    BY <2>7, <2>9, <2>10 DEF Hand
  <2>12. Keeps(r) /\ Grows
    BY <1>1, <1>3, <1>4, <2>9, <2>10, <2>11 DEF Keeps, Grows
  <2>13. ckptFile' \in [Tasks -> Checkpoints]
    BY <1>7, <2>1, <2>6 DEF IInv, Types
  <2>14. /\ ckptFile'[t] \in {ckptFile[t], k}
         /\ \A u \in Tasks \ {t} : ckptFile'[u] = ckptFile[u]
    BY <1>1, <1>7, <2>1 DEF IInv, Types
  <2>15. Types'
    BY <1>4, <2>3, <2>8, <2>13 DEF IInv, Types
  <2>16. \A d : d[2] = id => Held(t, d)'
    BY <2>9, <2>10, <2>11 DEF Held, Carries
  <2>17. ASSUME HeldStays PROVE Good(t, k)'
    <3> SUFFICES ASSUME NEW d \in AllDocs, Marked(k, d[1]) \/ Marked(k, d[2])
                 PROVE  Held(t, d)'
      BY DEF Good
    <3>1. Good(t, run[r].mine)
      BY <1>1, <1>2 DEF IInv, RunOK
    <3>2. CASE Marked(run[r].mine, d[1]) \/ Marked(run[r].mine, d[2])
      BY <2>17, <3>1, <3>2 DEF Good, HeldStays
    <3>3. CASE d[2] = id
      BY <2>16, <3>3
    <3>4. CASE ~Plain(d)
      BY <3>4 DEF Held, Safe, Exempt
    <3>5. CASE Plain(d)
      <4>1. d[1] # id
        BY <2>5, <3>5 DEF Plain
      <4> QED  BY <2>6, <3>2, <3>3, <4>1
    <3> QED  BY <3>4, <3>5
  <2>18. HeldStays => \A i \in DOMAIN Collections[n.coll] : i < n.next =>
                          i < run[r].next \/ Held(t, <<n.coll, Collections[n.coll][i]>>)'
    <3>1. Held(t, <<c, id>>)'
      BY <2>16
    <3> QED  BY <1>5, <2>4, <2>9, <3>1
  <2>19. n.coll = run[r].coll /\ n.next >= 1
    BY <1>2, <1>3, <1>5, <2>9
  <2>20. HeldStays => /\ n.ckpt = run[r].ckpt \/ Good(t, n.ckpt)'
                      /\ n.mine = run[r].mine \/ Good(t, n.mine)'
    BY <2>2, <2>9, <2>17
  <2>21. HeldStays => ckptFile'[t] = ckptFile[t] \/ Good(t, ckptFile[t])'
    BY <2>14, <2>17
  <2> QED
    BY <1>1, <1>2, <1>4, <2>3, <2>9, <2>12, <2>14, <2>15, <2>18, <2>19, <2>20, <2>21, OneSend
<1> QED
  <2>1. Task(r) = run[r].task
    BY DEF Task
  <2> QED  BY <1>3, <1>6, <1>7, <2>1 DEF Queue

LEMMA StopSendingKeeps ==
    ASSUME IInv, NEW r \in Runs, StopSending(r)
    PROVE  IInv'
<1>1. PICK t \in Tasks : t = run[r].task
  BY DEF IInv, RunOK, StopSending, At
<1>2. PICK k : k = Len(Coll(r)) + 1
  OBVIOUS
<1>3. PICK n : n = [run[r] EXCEPT !.next = k]
  OBVIOUS
<1>4. /\ run[r].at = "send" /\ run' = [run EXCEPT ![r] = n] /\ ~IsActive
      /\ UNCHANGED <<status, ckptFile, ckptData, failed, target, proc, started, current,
                     tasksFile, failedFile, late>>
  BY <1>2, <1>3 DEF StopSending, At, Quiet, Still, files
<1>5. run[r] \in RunType /\ t \in late
  BY <1>1, <1>4, StoppedIsLate DEF IInv, Types
<1>6. k \in Nat /\ k >= 1
  <2>1. run[r].coll \in DOMAIN Collections
    BY <1>4 DEF IInv, RunOK
  <2>2. Len(Coll(r)) \in Nat
    BY <2>1, DocsType DEF Coll
  <2> QED  BY <1>2, <2>2
<1>7. /\ n \in RunType /\ n.at = "send" /\ n.task = t /\ n.coll = run[r].coll
      /\ n.next = k /\ n.chan = run[r].chan /\ n.sending = run[r].sending
      /\ n.blocked = run[r].blocked /\ n.ckpt = run[r].ckpt /\ n.mine = run[r].mine
  BY <1>1, <1>3, <1>4, <1>5, <1>6 DEF RunType
<1>8. run'[r] = n
  BY <1>4 DEF IInv, Types
<1>9. Keeps(r) /\ Grows
  <2>1. Hand(r) \subseteq Hand(r)'
    BY <1>7, <1>8 DEF Hand
  <2> QED  BY <1>1, <1>4, <1>7, <1>8, <2>1 DEF Keeps, Grows
<1>10. Types'
  BY <1>4, <1>7 DEF IInv, Types
<1>11. \A d : Held(t, d)'
  BY <1>4, <1>5 DEF Held, Safe, Exempt
<1> QED  BY <1>1, <1>4, <1>6, <1>7, <1>9, <1>10, <1>11, OneSend

LEMMA ReceiveKeeps ==
    ASSUME IInv, NEW r \in Runs, Receive(r)
    PROVE  IInv'
<1>1. PICK t \in Tasks : t = run[r].task
  BY DEF IInv, RunOK, Receive, At
<1>2. PICK id, rest : id = Head(run[r].chan) /\ rest = Tail(run[r].chan)
  OBVIOUS
<1>3. PICK n : n = [run[r] EXCEPT !.chan = rest, !.sending = @ \cup {id}]
  OBVIOUS
<1>4. /\ run[r].at = "send" /\ run[r].chan # <<>> /\ run' = [run EXCEPT ![r] = n]
      /\ UNCHANGED <<status, ckptFile, ckptData, failed, target, proc, started, current,
                   tasksFile, failedFile, late>>
  BY <1>2, <1>3 DEF Receive, At, Quiet, Still, files
<1>5. run[r] \in RunType /\ run[r].chan \in Seq(Ids) /\ run[r].next >= 1
  BY <1>4 DEF IInv, Types, RunType, RunOK
<1>6. /\ rest \in Seq(Ids) /\ id \in Ids
      /\ Elems(run[r].chan) \subseteq {id} \cup Elems(rest)
  BY <1>2, <1>4, <1>5, InTail
<1>7. /\ n \in RunType /\ n.at = "send" /\ n.task = t /\ n.coll = run[r].coll
      /\ n.next = run[r].next /\ n.chan = rest /\ n.sending = run[r].sending \cup {id}
      /\ n.blocked = run[r].blocked /\ n.ckpt = run[r].ckpt /\ n.mine = run[r].mine
  BY <1>1, <1>3, <1>4, <1>5, <1>6 DEF RunType
<1>8. run'[r] = n
  BY <1>4 DEF IInv, Types
<1>9. Keeps(r) /\ Grows
  <2>1. Hand(r) \subseteq Hand(r)'
    BY <1>6, <1>7, <1>8 DEF Hand
  <2> QED  BY <1>1, <1>4, <1>7, <1>8, <2>1 DEF Keeps, Grows
<1>10. Types'
  BY <1>4, <1>7 DEF IInv, Types
<1> QED  BY <1>1, <1>4, <1>5, <1>7, <1>9, <1>10, OneSend

LEMMA SentKeeps ==
    ASSUME IInv, NEW r \in Runs, NEW id, Sent(r, id)
    PROVE  IInv'
<1>1. PICK t \in Tasks : t = run[r].task
  BY DEF IInv, RunOK, Sent, At
<1>2. PICK n : n = [run[r] EXCEPT !.sending = @ \ {id}]
  OBVIOUS
<1>3. /\ run[r].at = "send" /\ run' = [run EXCEPT ![r] = n]
      /\ target' = target \cup {<<run[r].coll, id>>}
      /\ UNCHANGED <<status, ckptFile, ckptData, failed, proc, started, current,
                   tasksFile, failedFile, late>>
  BY <1>2 DEF Sent, At, Quiet, Still, files
<1>4. run[r] \in RunType /\ run[r].next >= 1
  BY <1>3 DEF IInv, Types, RunOK
<1>5. /\ n \in RunType /\ n.at = "send" /\ n.task = t /\ n.coll = run[r].coll
      /\ n.next = run[r].next /\ n.chan = run[r].chan /\ n.sending = run[r].sending \ {id}
      /\ n.blocked = run[r].blocked /\ n.ckpt = run[r].ckpt /\ n.mine = run[r].mine
  BY <1>1, <1>2, <1>3, <1>4 DEF RunType
<1>6. run'[r] = n
  BY <1>3 DEF IInv, Types
<1>7. Keeps(r) /\ Grows
  <2>1. \A x \in Hand(r) : x = id \/ x \in Hand(r)'
    BY <1>5, <1>6 DEF Hand
  <2> QED  BY <1>1, <1>3, <1>5, <1>6, <2>1 DEF Keeps, Grows
<1>8. Types'
  BY <1>3, <1>5 DEF IInv, Types
<1> QED  BY <1>1, <1>3, <1>4, <1>5, <1>7, <1>8, OneSend

LEMMA SendFailsKeeps ==
    ASSUME IInv, NEW r \in Runs, NEW id, SendFails(r, id)
    PROVE  IInv'
<1>1. PICK t \in Tasks : t = run[r].task
  BY DEF IInv, RunOK, SendFails, At
<1>2. PICK n : n = [run[r] EXCEPT !.sending = @ \ {id}, !.blocked = @ \cup {id}]
  OBVIOUS
<1>3. /\ run[r].at = "send" /\ run' = [run EXCEPT ![r] = n] /\ id \in run[r].sending
      /\ UNCHANGED <<status, ckptFile, ckptData, failed, target, proc, started, current,
                   tasksFile, failedFile, late>>
  BY <1>2 DEF SendFails, At, taskVars, files
<1>4. run[r] \in RunType /\ run[r].next >= 1
  BY <1>3 DEF IInv, Types, RunOK
<1>5. /\ n \in RunType /\ n.at = "send" /\ n.task = t /\ n.coll = run[r].coll
      /\ n.next = run[r].next /\ n.chan = run[r].chan /\ n.sending = run[r].sending \ {id}
      /\ n.blocked = run[r].blocked \cup {id} /\ n.ckpt = run[r].ckpt /\ n.mine = run[r].mine
  BY <1>1, <1>2, <1>3, <1>4 DEF RunType
<1>6. run'[r] = n
  BY <1>3 DEF IInv, Types
<1>7. Keeps(r) /\ Grows
  <2>1. Hand(r) \subseteq Hand(r)'
    BY <1>5, <1>6 DEF Hand
  <2> QED  BY <1>1, <1>3, <1>5, <1>6, <2>1 DEF Keeps, Grows
<1>8. Types'
  BY <1>3, <1>5 DEF IInv, Types
<1> QED  BY <1>1, <1>3, <1>4, <1>5, <1>7, <1>8, OneSend

LEMMA ReportKeeps ==
    ASSUME IInv, NEW r \in Runs, NEW id, Report(r, id)
    PROVE  IInv'
<1>1. PICK t \in Tasks : t = run[r].task
  BY DEF IInv, RunOK, Report, At
<1>2. PICK n : n = [run[r] EXCEPT !.blocked = @ \ {id}, !.errors = @ + 1]
  OBVIOUS
<1>3. /\ run[r].at = "send" /\ run' = [run EXCEPT ![r] = n]
      /\ failed' = [failed EXCEPT ![t] = @ + 1]
      /\ UNCHANGED <<status, ckptFile, ckptData, target, proc, started, current,
                   tasksFile, failedFile, late>>
  BY <1>1, <1>2 DEF Report, At, Quiet, Still, files, Task
<1>4. run[r] \in RunType /\ run[r].next >= 1 /\ run[r].errors + 1 \in Nat
  BY <1>3 DEF IInv, Types, RunOK, RunType
<1>5. /\ n \in RunType /\ n.at = "send" /\ n.task = t /\ n.coll = run[r].coll
      /\ n.next = run[r].next /\ n.ckpt = run[r].ckpt /\ n.mine = run[r].mine
  BY <1>1, <1>2, <1>3, <1>4 DEF RunType
<1>6. failed' \in [Tasks -> Nat] /\ failed'[t] > 0
      /\ \A u \in Tasks : failed[u] > 0 => failed'[u] > 0
  BY <1>3 DEF IInv, Types
<1>7. Keeps(r) /\ Grows
  BY <1>1, <1>3, <1>6 DEF Keeps, Grows
<1>8. Types'
  BY <1>3, <1>5, <1>6 DEF IInv, Types
<1> QED  BY <1>1, <1>3, <1>4, <1>5, <1>7, <1>8, OneSend

LEMMA CollectionDoneKeeps ==
    ASSUME IInv, NEW r \in Runs, CollectionDone(r)
    PROVE  IInv'
<1>1. PICK t \in Tasks, c \in {run[r].coll} : t = run[r].task /\ c = run[r].coll
  BY DEF IInv, RunOK, CollectionDone, At
<1>2. PICK k : k = (IF run[r].ckpt = Nil THEN {} ELSE run[r].ckpt) \cup {c}
  OBVIOUS
<1>3. PICK m : m = [run[r] EXCEPT !.coll = @ + 1]
  OBVIOUS
<1>4. PICK n : n = Enter(m, k)
  OBVIOUS
<1>5. /\ run[r].at = "send" /\ run[r].next > Len(Coll(r)) /\ WorkersDone(r)
      /\ run' = [run EXCEPT ![r] = n]
      /\ ckptFile' = [ckptFile EXCEPT ![t] = k] /\ ckptData' = [ckptData EXCEPT ![t] = k]
      /\ UNCHANGED <<status, failed, target, proc, started, current,
                   tasksFile, failedFile, late>>
  BY <1>1, <1>2, <1>3, <1>4 DEF CollectionDone, At, Task, Quiet, Still, files
<1>6. /\ run[r] \in RunType /\ c \in DOMAIN Collections /\ Known(t)
      /\ Good(t, run[r].ckpt)
      /\ \A d \in AllDocs : d[1] < c => Held(t, d)
      /\ \A i \in DOMAIN Collections[c] : i < run[r].next => Held(t, <<c, Collections[c][i]>>)
  BY <1>1, <1>5 DEF IInv, Types, RunOK, Coll
<1>7. c \in Nat /\ Coll(r) = Collections[c] /\ run[r].next \in Nat
      /\ \A i \in DOMAIN Collections[c] : i < run[r].next
  <2>1. c \in Nat /\ Coll(r) = Collections[c] /\ run[r].next \in Nat
    BY <1>1, <1>6, DocsType DEF Coll, RunType
  <2> QED  BY <1>5, <1>6, <2>1, DocsType
<1>8. k \in Checkpoints /\ \A x : Marked(k, x) => x = c \/ Marked(run[r].ckpt, x)
  <2>1. c \in Keys /\ run[r].ckpt \in (SUBSET Keys) \cup {Nil}
    BY <1>6 DEF Keys, RunType, Checkpoints
  <2>2. CASE run[r].ckpt = Nil
    BY <1>2, <2>1, <2>2 DEF Marked, Checkpoints
  <2>3. CASE run[r].ckpt # Nil
    BY <1>2, <2>1, <2>3 DEF Marked, Checkpoints
  <2> QED  BY <2>2, <2>3
<1>9. m \in RunType /\ m.task = t /\ m.coll = c + 1
  <2>1. run[r].coll + 1 \in Nat
    BY <1>1, <1>7
  <2> QED  BY <1>1, <1>3, <1>6, <2>1 DEF RunType
<1>10. \A d \in AllDocs : d[1] < c + 1 => Held(t, d)
  <2> SUFFICES ASSUME NEW d \in AllDocs, d[1] < c + 1 PROVE Held(t, d)
    OBVIOUS
  <2>1. d[1] \in Nat
    BY DocsType
  <2>2. CASE d[1] < c
    BY <1>6, <2>2
  <2>3. CASE d[1] = c
    <3>1. PICK i \in DOMAIN Collections[c] : d = <<c, Collections[c][i]>>
      BY <2>3, DocsType
    <3> QED  BY <1>6, <1>7, <3>1
  <2> QED  BY <1>7, <2>1, <2>2, <2>3
<1>11. Good(t, k)
  <2> SUFFICES ASSUME NEW d \in AllDocs, Marked(k, d[1]) \/ Marked(k, d[2]) PROVE Held(t, d)
    BY DEF Good
  <2>1. d[1] \in Nat
    BY DocsType
  <2>4. CASE ~Plain(d)
    BY <2>4 DEF Held, Safe, Exempt
  <2>5. Plain(d) => d[2] # c
    BY <1>6 DEF Plain
  <2>2. CASE d[1] = c
    BY <1>7, <1>10, <2>2
  <2>3. CASE Marked(run[r].ckpt, d[1]) \/ Marked(run[r].ckpt, d[2])
    BY <1>6, <2>3 DEF Good
  <2> QED  BY <1>8, <2>1, <2>2, <2>3, <2>4, <2>5
<1>12. n \in RunType /\ n.task = t /\ n.at # "none"
  <2>1. \A d \in AllDocs : d[1] < m.coll \/ Marked(k, d[1]) => d \in AllDocs
    OBVIOUS
  <2> QED  BY <1>4, <1>8, <1>9, <2>1, EnterAt
<1>13. run'[r] = n
  BY <1>5 DEF IInv, Types
<1>14. Keeps(r) /\ Grows
  <2>1. Hand(r) = {}
    BY <1>5, NoElems DEF WorkersDone, Hand
  <2> QED  BY <1>5, <2>1 DEF Keeps, Grows
<1>15. Types'
  <2>1. ckptFile' \in [Tasks -> Checkpoints] /\ ckptData' \in [Tasks -> Checkpoints]
    BY <1>5, <1>8 DEF IInv, Types
  <2> QED  BY <1>5, <1>12, <2>1 DEF IInv, Types
<1>16. /\ ckptFile'[t] = k /\ ckptData'[t] = k
       /\ \A u \in Tasks \ {t} : ckptFile'[u] = ckptFile[u] /\ ckptData'[u] = ckptData[u]
  BY <1>5 DEF IInv, Types
<1>17. ASSUME HeldStays PROVE Good(t, k)' /\ RunOK(r)'
  <2>1. Good(t, k)'
    BY <1>11, <1>17 DEF Good, HeldStays
  <2>2. \A d \in AllDocs : d[1] < m.coll => Held(t, d)'
    BY <1>9, <1>10, <1>17 DEF HeldStays
  <2>3. Known(t)'
    BY <1>5, <1>6 DEF Known
  <2>4. IsActive \/ t \in late'
    BY <1>1, <1>5, StoppedIsLate
  <2> QED  BY <1>4, <1>8, <1>9, <1>13, <2>1, <2>2, <2>3, <2>4, EnteredOK
<1>18. status'[t] # "none"
  BY <1>5, <1>6 DEF Known
<1>19. HeldStays => Good(t, ckptFile[t])' /\ Good(t, ckptData[t])'
  BY <1>16, <1>17
<1> QED  BY <1>1, <1>5, <1>12, <1>14, <1>15, <1>16, <1>17, <1>18, <1>19, OneRun

\* A run that has all documents behind it goes to its next place.
LEMMA MoveKeeps ==
    ASSUME IInv, NEW r \in Runs, NEW t \in Tasks, t = run[r].task,
           run[r].at \in {"delta", "apply"}, NEW place \in {"apply", "complete"},
           run' = [run EXCEPT ![r].at = place],
           NEW s \in Statuses \ {"none"}, status' = [status EXCEPT ![t] = s],
           target \subseteq target',
           UNCHANGED <<ckptFile, ckptData, failed, proc, started, current,
                   tasksFile, failedFile, late>>
    PROVE  IInv'
<1>1. PICK n : n = [run[r] EXCEPT !.at = place]
  OBVIOUS
<1>2. /\ run[r] \in RunType /\ run' = [run EXCEPT ![r] = n]
      /\ n \in RunType /\ n.at = place /\ n.task = t
  <2>1. run[r] \in RunType /\ place \in Places
    BY DEF IInv, Types, Places
  <2>2. n \in RunType /\ n.at = place /\ n.task = run[r].task
    BY <1>1, <2>1 DEF RunType
  <2>3. run' = [run EXCEPT ![r] = n]
    BY <1>1
  <2> QED  BY <2>1, <2>2, <2>3
<1>3. run'[r] = n
  BY <1>2 DEF IInv, Types
<1>4. Types'
  BY <1>2 DEF IInv, Types
<1>5. status'[t] # "none" /\ \A u \in Tasks \ {t} : status'[u] = status[u]
  BY DEF IInv, Types
<1>6. Keeps(r) /\ Grows
  BY DEF Keeps, Grows
<1>7. ASSUME HeldStays PROVE RunOK(r)'
  <2>1. \A d \in AllDocs : Held(t, d)'
    BY <1>7 DEF IInv, RunOK, HeldStays
  <2>2. run'[r].at = place /\ run'[r].task = t /\ Known(t)'
    BY <1>2, <1>3, <1>5 DEF Known
  <2>3. CASE place = "apply"
    BY <2>1, <2>2, <2>3 DEF RunOK
  <2>4. CASE place = "complete"
    BY <2>1, <2>2, <2>4 DEF RunOK
  <2> QED  BY <2>3, <2>4
<1>8. n.at # "none" /\ run[r].at # "none"
  BY <1>2
<1>9. run' = [run EXCEPT ![r] = n] /\ n.task = t
  BY <1>2
<1> QED  BY <1>4, <1>5, <1>6, <1>7, <1>8, <1>9, OneRun

LEMMA StartDeltaKeeps ==
    ASSUME IInv, NEW r \in Runs, StartDelta(r)
    PROVE  IInv'
<1>1. PICK t \in Tasks : t = run[r].task
  BY DEF IInv, RunOK, StartDelta, At
<1>2. /\ run[r].at = "delta" /\ run' = [run EXCEPT ![r].at = "apply"]
      /\ status' = [status EXCEPT ![t] = "DeltaSync"] /\ target \subseteq target'
      /\ UNCHANGED <<ckptFile, ckptData, failed, proc, started, current,
                   tasksFile, failedFile, late>>
  BY <1>1 DEF StartDelta, At, Goto, Task, Quiet, Still, files
<1>3. "DeltaSync" \in Statuses \ {"none"}
  BY DEF Statuses
<1> QED  BY <1>1, <1>2, <1>3, MoveKeeps

LEMMA ApplyDeltaKeeps ==
    ASSUME IInv, NEW r \in Runs, ApplyDelta(r)
    PROVE  IInv'
<1>1. PICK t \in Tasks : t = run[r].task
  BY DEF IInv, RunOK, ApplyDelta, At
<1>2. /\ run[r].at = "apply" /\ run' = [run EXCEPT ![r].at = "complete"]
      /\ status' = [status EXCEPT ![t] = "Validating"] /\ target \subseteq target'
      /\ UNCHANGED <<ckptFile, ckptData, failed, proc, started, current,
                   tasksFile, failedFile, late>>
  BY <1>1 DEF ApplyDelta, At, Goto, Task, Quiet, Still, files, Deliver
<1>3. "Validating" \in Statuses \ {"none"}
  BY DEF Statuses
<1> QED  BY <1>1, <1>2, <1>3, MoveKeeps

LEMMA IdleRunType == IdleRun \in RunType /\ IdleRun.at = "none" /\ IdleRun.task = Nil
BY EmptySeq DEF IdleRun, RunType, Places, Checkpoints

\* A run that has all documents behind it ends.
LEMMA EndKeeps ==
    ASSUME IInv, NEW r \in Runs, NEW t \in Tasks, t = run[r].task, run[r].at # "none",
           run' = [run EXCEPT ![r] = IdleRun],
           NEW s \in Ended, status' = [status EXCEPT ![t] = s],
           \A d \in AllDocs : Held(t, d), run[r].at # "send",
           UNCHANGED <<ckptFile, ckptData, failed, target, proc, started, current,
                       tasksFile, failedFile, late>>
    PROVE  IInv'
<1>2. s # "none" /\ s \in Statuses
  BY DEF Ended, Statuses
<1>3. run'[r] = IdleRun /\ \A q \in Runs : q # r => run'[q] = run[q]
  BY DEF IInv, Types
<1>4. Types'
  BY <1>2, IdleRunType DEF IInv, Types
<1>5. HeldStays /\ Grows
  <2>1. ASSUME NEW q \in Runs PROVE Keeps(q)
    BY <1>3 DEF Keeps, Hand
  <2>2. Grows
    BY DEF Grows
  <2> QED  BY <2>1, <2>2, Stays
<1>6. status'[t] = s /\ \A u \in Tasks \ {t} : status'[u] = status[u]
  BY DEF IInv, Types
<1>7. ASSUME NEW q \in Runs PROVE RunOK(q)'
  <2>1. CASE q = r
    BY <1>3, <2>1, IdleRunType DEF RunOK
  <2>2. CASE q # r
    <3>1. run[q].at # "none" => run[q].task \in Tasks /\ Known(run[q].task)
      BY DEF IInv, RunOK
    <3>2. run[q].at # "none" => Known(run[q].task)'
      BY <1>2, <1>3, <1>6, <2>2, <3>1 DEF Known
    <3> QED  BY <1>3, <1>5, <2>2, <3>2, RunStays DEF IInv
  <2> QED  BY <2>1, <2>2
<1>8. ASSUME NEW u \in Tasks PROVE TaskOK(u)'
  <2>1. CASE u = t
    <3>1. Known(t) /\ t \in started
      BY DEF IInv, RunOK, TaskOK
    <3>2. Good(t, ckptFile[t])' /\ Good(t, ckptData[t])'
      BY <1>5 DEF Good, HeldStays
    <3> QED  BY <1>5, <1>6, <2>1, <3>1, <3>2 DEF TaskOK, HeldStays
  <2>2. CASE u # t
    <3>1. NoRun(u)' => NoRun(u)
      BY <1>3, <2>2 DEF NoRun
    <3>2. (Known(u)' => Known(u)) /\ status'[u] = status[u]
      BY <1>6, <2>2 DEF Known
    <3> QED  BY <1>5, <3>1, <3>2, TaskStays DEF IInv
  <2> QED  BY <2>1, <2>2
<1>9. \A u \in Tasks : FileOK(u)'
  BY <1>5, FileStays DEF IInv
<1>10. DownOK' /\ LateOK'
  BY <1>3, IdleRunType DEF IInv, DownOK, LateOK
<1> QED  BY <1>4, <1>7, <1>8, <1>9, <1>10 DEF IInv

LEMMA CompleteKeeps ==
    ASSUME IInv, NEW r \in Runs, Complete(r)
    PROVE  IInv'
<1>1. PICK t \in Tasks : t = run[r].task
  BY DEF IInv, RunOK, Complete, At
<1>2. /\ run[r].at = "complete" /\ run' = [run EXCEPT ![r] = IdleRun]
      /\ status' = [status EXCEPT ![t] = "Completed"]
      /\ UNCHANGED <<ckptFile, ckptData, failed, target, proc, started, current,
                     tasksFile, failedFile, late>>
  BY <1>1 DEF Complete, At, Task, Quiet, Still, files
<1>3. \A d \in AllDocs : Held(t, d)
  BY <1>1, <1>2 DEF IInv, RunOK
<1>4. "Completed" \in Ended
  BY DEF Ended
<1> QED  BY <1>1, <1>2, <1>3, <1>4, EndKeeps

LEMMA SetTaskErrorKeeps ==
    ASSUME IInv, NEW r \in Runs, SetTaskError(r)
    PROVE  IInv'
<1>1. PICK t \in Tasks : t = run[r].task
  BY DEF IInv, RunOK, SetTaskError, At
<1>2. /\ run[r].at = "error" /\ run' = [run EXCEPT ![r] = IdleRun]
      /\ status' = [status EXCEPT ![t] = "Failed"]
      /\ UNCHANGED <<ckptFile, ckptData, failed, target, proc, started, current,
                     tasksFile, failedFile, late>>
  BY <1>1 DEF SetTaskError, At, Task, Quiet, Still, files
<1>3. \A d \in AllDocs : Held(t, d)
  BY <1>1, <1>2 DEF IInv, RunOK, Held, Safe, Exempt
<1>4. "Failed" \in Ended
  BY DEF Ended
<1> QED  BY <1>1, <1>2, <1>3, <1>4, EndKeeps

-----------------------------------------------------------------------------
(* Calls, loops, Stop, a crash and a restart *)

LEMMA LaunchKeeps ==
    ASSUME IInv, NEW t \in Tasks, Launch(t), t \notin started \/ Known(t),
           started' = started \cup {t}, current' \in Tasks \cup {Nil},
           NEW s \in Statuses \ {"none"}, status' = [status EXCEPT ![t] = s],
           proc # "down",
           UNCHANGED <<proc, tasksFile, failedFile, ckptFile, ckptData, failed, target>>
    PROVE  IInv'
<1>1. PICK n : n = [IdleRun EXCEPT !.at = "prepare", !.task = t]
  OBVIOUS
<1>2. PICK r \in Runs : run[r].at = "none" /\ run' = [run EXCEPT ![r] = n]
  BY <1>1 DEF Launch
<1>3. n \in RunType /\ n.at = "prepare" /\ n.task = t /\ n.coll = 1
  <2>1. IdleRun \in RunType /\ IdleRun.coll = 1
    BY IdleRunType DEF IdleRun
  <2>2. "prepare" \in Places
    BY DEF Places
  <2> QED  BY <1>1, <2>1, <2>2 DEF RunType
<1>4. run'[r] = n /\ \A q \in Runs : q # r => run'[q] = run[q]
  BY <1>2 DEF IInv, Types
<1>0. late \subseteq late' /\ late' \subseteq Tasks /\ (proc \in Waited => t \in late')
  BY DEF Launch, IInv, Types
<1>5. Types'
  <2>1. status' \in [Tasks -> Statuses] /\ run' \in [Runs -> RunType]
    BY <1>2, <1>3 DEF IInv, Types
  <2> QED  BY <1>0, <2>1 DEF IInv, Types
<1>6. Grows /\ HeldStays
  <2>1. ASSUME NEW q \in Runs PROVE Keeps(q)
    BY <1>2, <1>4 DEF Keeps, Hand
  <2>2. Grows
    BY <1>0 DEF Grows
  <2> QED  BY <2>1, <2>2, Stays
<1>7. status'[t] = s /\ s # "none" /\ \A u \in Tasks \ {t} : status'[u] = status[u]
  BY DEF IInv, Types
<1>8. ASSUME NEW q \in Runs PROVE RunOK(q)'
  <2>1. CASE q = r
    BY <1>3, <1>4, <1>7, <2>1 DEF RunOK, Known
  <2>2. CASE q # r
    <3>1. run[q].at # "none" => run[q].task \in Tasks /\ Known(run[q].task)
      BY DEF IInv, RunOK
    <3>2. run[q].at # "none" => Known(run[q].task)'
      BY <1>4, <1>7, <2>2, <3>1 DEF Known
    <3> QED  BY <1>4, <1>6, <2>2, <3>2, RunStays DEF IInv
  <2> QED  BY <2>1, <2>2
<1>9. ASSUME NEW u \in Tasks PROVE TaskOK(u)'
  <2>1. CASE u = t
    <3>1. ~NoRun(t)'
      BY <1>3, <1>4 DEF NoRun
    <3>2. CASE t \notin started
      <4>1. ckptFile[t] = Nil /\ ckptData[t] = {}
        BY <3>2 DEF IInv, TaskOK
      <4>2. Good(t, ckptFile[t])' /\ Good(t, ckptData[t])'
        BY <4>1 DEF Good, Marked
      <4> QED  BY <2>1, <3>1, <4>2 DEF TaskOK
    <3>3. CASE Known(t)
      <4>1. Good(t, ckptFile[t]) /\ Good(t, ckptData[t])
        BY <3>3 DEF IInv, TaskOK
      <4>2. Good(t, ckptFile[t])' /\ Good(t, ckptData[t])'
        BY <1>6, <4>1 DEF Good, HeldStays
      <4> QED  BY <2>1, <3>1, <4>2 DEF TaskOK
    <3> QED  BY <3>2, <3>3
  <2>2. CASE u # t
    <3>1. NoRun(u)' => NoRun(u)
      <4>1. run[r].task # u
        BY <1>2, MigratorAssumption DEF IInv, RunOK
      <4> QED  BY <1>4, <4>1 DEF NoRun
    <3>2. (Known(u)' => Known(u)) /\ status'[u] = status[u]
      BY <1>7, <2>2 DEF Known
    <3> QED  BY <1>6, <3>1, <3>2, TaskStays DEF IInv
  <2> QED  BY <2>1, <2>2
<1>10. \A u \in Tasks : FileOK(u)'
  BY <1>6, FileStays DEF IInv
<1>11. DownOK'
  BY DEF DownOK
<1>12. LateOK'
  <2> SUFFICES ASSUME proc \in Waited, NEW q \in Runs, run'[q].at # "none"
               PROVE  run'[q].task \in late'
    BY DEF LateOK
  <2>1. CASE q = r
    BY <1>0, <1>3, <1>4, <2>1
  <2>2. CASE q # r
    BY <1>0, <1>4, <2>2 DEF IInv, LateOK
  <2> QED  BY <2>1, <2>2
<1> QED  BY <1>5, <1>8, <1>9, <1>10, <1>11, <1>12 DEF IInv

LEMMA StartKeeps ==
    ASSUME IInv, NEW t \in Tasks, StartMigration(t)
    PROVE  IInv'
<1>1. "Preparing" \in Statuses \ {"none"}
  BY DEF Statuses
<1> QED  BY <1>1, LaunchKeeps DEF StartMigration, files

LEMMA ResumeKeeps ==
    ASSUME IInv, NEW t \in Tasks, ResumeMigration(t)
    PROVE  IInv'
<1>1. "Migrating" \in Statuses \ {"none"}
  BY DEF Statuses
<1>2. Known(t)
  BY DEF ResumeMigration, Known
<1>3. started = started \cup {t} /\ current \in Tasks \cup {Nil}
  BY <1>2 DEF IInv, TaskOK, Types
<1> QED  BY <1>1, <1>2, <1>3, LaunchKeeps DEF ResumeMigration, files

\* The runs, the files and the memory stay, and only one status changes.
LEMMA CallKeeps ==
    ASSUME IInv, NEW t \in Tasks, Known(t), NEW s \in Statuses \ {"none"},
           s = "Failed" \/ ~NoRun(t) \/ t \in late, status' = [status EXCEPT ![t] = s],
           UNCHANGED <<proc, started, current, tasksFile, failedFile, ckptFile, ckptData, failed,
                       late, run, target>>
    PROVE  IInv'
<1>1. Types'
  BY DEF IInv, Types
<1>2. Grows /\ HeldStays
  BY DEF Grows, HeldStays, Held, Safe, Exempt, Received, Carries, Hand
<1>3. status'[t] = s /\ s # "none" /\ \A u \in Tasks \ {t} : status'[u] = status[u]
  BY DEF IInv, Types
<1>4. ASSUME NEW q \in Runs PROVE RunOK(q)'
  <2>1. run[q].at # "none" => run[q].task \in Tasks /\ Known(run[q].task)
    BY DEF IInv, RunOK
  <2>2. run[q].at # "none" => Known(run[q].task)'
    BY <1>3, <2>1 DEF Known
  <2> QED  BY <1>2, <2>2, RunStays DEF IInv
<1>5. ASSUME NEW u \in Tasks PROVE TaskOK(u)'
  <2>1. NoRun(u)' <=> NoRun(u)
    BY DEF NoRun
  <2>2. Known(u)' => Known(u)
    BY <1>3 DEF Known
  <2>3. NoRun(u) => status'[u] \in {status[u], "Failed"} \/ u \in late
    BY <1>3
  <2> QED  BY <1>2, <2>1, <2>2, <2>3, TaskStays DEF IInv
<1>6. \A u \in Tasks : FileOK(u)'
  BY <1>2, FileStays DEF IInv
<1>7. DownOK' /\ LateOK'
  BY DEF IInv, DownOK, LateOK
<1> QED  BY <1>1, <1>4, <1>5, <1>6, <1>7 DEF IInv

LEMMA PauseKeeps ==
    ASSUME IInv, NEW t \in Tasks, PauseMigration(t)
    PROVE  IInv'
<1>1. Known(t) /\ (~NoRun(t) \/ t \in late)
  BY DEF PauseMigration, Active, Known, IInv, TaskOK, Ended
<1>2. "Paused" \in Statuses \ {"none"}
  BY DEF Statuses
<1> QED  BY <1>1, <1>2, CallKeeps DEF PauseMigration, files

LEMMA CancelKeeps ==
    ASSUME IInv, NEW t \in Tasks, CancelMigration(t)
    PROVE  IInv'
<1>1. "Failed" \in Statuses \ {"none"}
  BY DEF Statuses, Ended
<1> QED  BY <1>1, CallKeeps DEF CancelMigration, files

\* The runs and the memory stay: documents arrive, a checkpoint file is put in place of
\* another, Stop goes on or the tasks are saved.
LEMMA CalmKeeps ==
    ASSUME IInv, target \subseteq target',
           proc' \in {"up", "stopping", "down"} \cup Waited, proc' = "down" => proc = "down",
           LateOK',
           \/ ckptFile' = ckptFile
           \/ \E t \in Tasks : Known(t) /\ ckptFile' = [ckptFile EXCEPT ![t] = ckptData[t]],
           tasksFile' \in [Tasks -> Statuses], failedFile' \in [Tasks -> Nat],
           Grows => \A t \in Tasks : FileOK(t)',
           UNCHANGED <<started, current, status, ckptData, failed, late, run>>
    PROVE  IInv'
<1>1. Types'
  <2>1. ckptFile' \in [Tasks -> Checkpoints]
    BY DEF IInv, Types
  <2> QED
    <3>1. target' = target' /\ started' \subseteq Tasks /\ late' \subseteq Tasks
      BY DEF IInv, Types
    <3> QED  BY <2>1, <3>1 DEF IInv, Types
<1>2. Grows /\ HeldStays
  <2>1. Grows
    BY DEF Grows
  <2>2. \A q \in Runs : Keeps(q)
    BY DEF Keeps, Hand
  <2> QED  BY <2>1, <2>2, Stays
<1>3. ASSUME NEW q \in Runs PROVE RunOK(q)'
  <2>1. run[q].at # "none" => Known(run[q].task)'
    BY DEF IInv, RunOK, Known
  <2> QED  BY <1>2, <2>1, RunStays DEF IInv
<1>4. ASSUME NEW u \in Tasks PROVE TaskOK(u)'
  <2>1. (NoRun(u)' => NoRun(u)) /\ (Known(u)' => Known(u)) /\ status'[u] = status[u]
    BY DEF NoRun, Known
  <2>2. ckptFile'[u] = ckptFile[u] \/ (Known(u) /\ ckptFile'[u] = ckptData[u])
    BY DEF IInv, Types
  <2>3. Known(u) => u \in started' /\ Good(u, ckptData[u])'
    <3>1. Known(u) => u \in started /\ Good(u, ckptData[u])
      BY DEF IInv, TaskOK
    <3> QED  BY <1>2, <3>1 DEF Good, HeldStays
  <2>4. ckptFile'[u] = ckptFile[u] \/ (u \in started' /\ Good(u, ckptFile[u])')
    BY <2>2, <2>3
  <2> QED  BY <1>2, <2>1, <2>4, TaskStays DEF IInv
<1>5. \A u \in Tasks : FileOK(u)'
  BY <1>2
<1>6. DownOK'
  BY DEF IInv, DownOK
<1> QED  BY <1>1, <1>3, <1>4, <1>5, <1>6 DEF IInv

LEMMA LoopKeeps ==
    ASSUME IInv, target \subseteq target',
           proc' = proc \/ proc' = "stopping" \/ (proc' \in Waited /\ LateOK'),
           \/ ckptFile' = ckptFile
           \/ \E t \in Tasks : Known(t) /\ ckptFile' = [ckptFile EXCEPT ![t] = ckptData[t]],
           UNCHANGED <<started, current, status, tasksFile, failedFile, ckptData, failed, late, run>>
    PROVE  IInv'
<1>1. /\ proc' \in {"up", "stopping", "down"} \cup Waited /\ (proc' = "down" => proc = "down")
  BY DEF IInv, Types, Waited
<1>2. LateOK'
  BY DEF IInv, LateOK, Waited
<1>3. Grows => \A t \in Tasks : FileOK(t)'
  BY FileStays DEF IInv
<1>4. tasksFile' \in [Tasks -> Statuses] /\ failedFile' \in [Tasks -> Nat]
  BY DEF IInv, Types
<1> QED  BY <1>1, <1>2, <1>3, <1>4, CalmKeeps

LEMMA FlushKeeps ==
    ASSUME IInv, Flush
    PROVE  IInv'
<1>1. target \subseteq target'
  BY DEF Flush, Deliver
<1> QED  BY <1>1, LoopKeeps DEF Flush, taskVars, files

LEMMA PeriodicKeeps ==
    ASSUME IInv, PeriodicDelta
    PROVE  IInv'
<1>1. target \subseteq target'
  BY DEF PeriodicDelta, Deliver
<1> QED  BY <1>1, LoopKeeps DEF PeriodicDelta, taskVars, files

LEMMA TickKeeps ==
    ASSUME IInv, Tick
    PROVE  IInv'
<1>1. current \in Tasks /\ Known(current)
  BY DEF IInv, Types, Tick, Active, Known
<1>2. \E t \in Tasks : Known(t) /\ ckptFile' = [ckptFile EXCEPT ![t] = ckptData[t]]
  BY <1>1 DEF Tick
<1> QED  BY <1>2, LoopKeeps DEF Tick, files

LEMMA StopCallKeeps ==
    ASSUME IInv, StopCall
    PROVE  IInv'
BY LoopKeeps DEF StopCall, taskVars, files

LEMMA StopWaitedKeeps ==
    ASSUME IInv, StopWaited
    PROVE  IInv'
<1>1. LateOK'
  BY DEF StopWaited, NothingRuns, LateOK
<1> QED  BY <1>1, LoopKeeps DEF StopWaited, taskVars, files, Waited

LEMMA StopClearsKeeps ==
    ASSUME IInv, StopClears
    PROVE  IInv'
<1>1. LateOK'
  BY DEF StopClears, IInv, LateOK, Waited
<1> QED  BY <1>1, LoopKeeps DEF StopClears, files, Waited

LEMMA StopSavesKeeps ==
    ASSUME IInv, StopSaves
    PROVE  IInv'
<1>1. LateOK' /\ proc' \in Waited /\ proc \in Waited
  BY DEF StopSaves, IInv, LateOK, Waited
<1>2. ASSUME NEW t \in Tasks, Known(t)
      PROVE  /\ t \in started /\ (status[t] \in Ended \/ t \in late)
             /\ \A d \in AllDocs : Safe(t, d)
  <2>1. t \in late \/ \A r \in Runs : run[r].task # t
    BY <1>1, MigratorAssumption DEF IInv, LateOK, RunOK
  <2>2. CASE t \in late
    BY <1>2, <2>2 DEF IInv, TaskOK, Safe, Exempt
  <2>3. CASE \A r \in Runs : run[r].task # t
    BY <1>2, <2>3 DEF IInv, TaskOK, NoRun, Held, Carries
  <2> QED  BY <2>1, <2>2, <2>3
<1>3. CASE tasksFile' = status /\ failedFile' = failed
  <2>1. tasksFile' \in [Tasks -> Statuses] /\ failedFile' \in [Tasks -> Nat]
    BY <1>3 DEF IInv, Types
  <2>2. ASSUME NEW t \in Tasks, status[t] # "none" PROVE FileOK(t)'
    <3>1. Known(t)
      BY <2>2 DEF Known
    <3>2. /\ t \in started /\ (status[t] \in Ended \/ t \in late)
          /\ \A d \in AllDocs : Safe(t, d)
      BY <1>2, <3>1
    <3>3. started' = started /\ late' = late /\ target' = target
      BY DEF StopSaves
    <3>4. \A d \in AllDocs : FileSafe(t, d)'
      BY <1>3, <3>2, <3>3 DEF FileSafe, Safe, Exempt, Received
    <3> QED  BY <1>3, <3>2, <3>3, <3>4 DEF FileOK
  <2>3. \A t \in Tasks : FileOK(t)'
    BY <1>3, <2>2 DEF FileOK
  <2> QED  BY <1>1, <2>1, <2>3, CalmKeeps DEF StopSaves, Waited
<1>4. CASE tasksFile' = [t \in Tasks |-> "none"] /\ UNCHANGED failedFile
  <2>1. tasksFile' \in [Tasks -> Statuses] /\ failedFile' \in [Tasks -> Nat]
    BY <1>4 DEF IInv, Types, Statuses
  <2>2. \A t \in Tasks : FileOK(t)'
    BY <1>4 DEF FileOK
  <2> QED  BY <1>1, <2>1, <2>2, CalmKeeps DEF StopSaves, Waited
<1>5. CASE UNCHANGED files
  BY <1>1, <1>5, LoopKeeps DEF StopSaves, files
<1> QED  BY <1>3, <1>4, <1>5 DEF StopSaves

\* The process ends: what was in memory is gone.
LEMMA DownKeeps ==
    ASSUME IInv, Down
    PROVE  IInv'
<1>1. Types'
  <2>1. {} \in Checkpoints /\ "none" \in Statuses
    BY DEF Checkpoints, Statuses
  <2> QED  BY <2>1, IdleRunType DEF IInv, Types, Down, files
<1>2. \A r \in Runs : RunOK(r)' /\ run'[r].at = "none"
  BY IdleRunType DEF Down, RunOK
<1>3. \A t \in Tasks : TaskOK(t)'
  BY DEF IInv, TaskOK, Down, Known
<1>4. \A t \in Tasks : FileOK(t)'
  BY DEF IInv, Down, FileOK, FileSafe, Exempt, Received, files
<1>5. DownOK' /\ LateOK'
  BY <1>2 DEF DownOK, LateOK
<1> QED  BY <1>1, <1>2, <1>3, <1>4, <1>5 DEF IInv

LEMMA ExitKeeps == ASSUME IInv, Exit PROVE IInv'
BY DownKeeps DEF Exit

LEMMA CrashKeeps == ASSUME IInv, Crash PROVE IInv'
BY DownKeeps DEF Crash

\* Whatever is resumed is late.
LEMMA RestartKeeps ==
    ASSUME IInv, Restart
    PROVE  IInv'
<1>1. PICK resumed \in [Runs -> Pending \cup {Nil}] :
         run' = [r \in Runs |-> IF resumed[r] = Nil THEN IdleRun
                                ELSE [IdleRun EXCEPT !.at = "prepare", !.task = resumed[r]]]
  BY DEF Restart
<1>2. UNCHANGED <<started, current, tasksFile, failedFile, ckptFile, ckptData, late, target>>
      /\ proc' = "up" /\ status' = tasksFile /\ failed' = failedFile
  BY DEF Restart, files
<1>3. ASSUME NEW r \in Runs
      PROVE  /\ run'[r] \in RunType
             /\ \/ run'[r].at = "none" /\ run'[r].task = Nil
                \/ /\ run'[r].at = "prepare" /\ run'[r].coll = 1
                   /\ run'[r].task \in Tasks /\ tasksFile[run'[r].task] \in Active
  <2>1. CASE resumed[r] = Nil
    BY <1>1, <2>1, IdleRunType
  <2>2. CASE resumed[r] \in Pending
    <3>1. run'[r] = [IdleRun EXCEPT !.at = "prepare", !.task = resumed[r]]
      BY <1>1, <2>2, MigratorAssumption DEF Pending
    <3>2. IdleRun \in RunType /\ IdleRun.coll = 1 /\ "prepare" \in Places
      BY IdleRunType DEF IdleRun, Places
    <3>3. resumed[r] \in Tasks /\ tasksFile[resumed[r]] \in Active
      BY <2>2 DEF Pending
    <3> QED  BY <3>1, <3>2, <3>3 DEF RunType
  <2> QED  BY <2>1, <2>2
<1>4. Types'
  <2>1. run' \in [Runs -> RunType]
    BY <1>1, <1>3
  <2> QED  BY <1>2, <2>1 DEF IInv, Types
<1>5. \A r \in Runs : RunOK(r)'
  BY <1>2, <1>3 DEF RunOK, Known, Active
<1>6. ASSUME NEW t \in Tasks PROVE TaskOK(t)' /\ FileOK(t)'
  <2>1. FileOK(t)'
    BY <1>2 DEF IInv, FileOK, FileSafe, Exempt, Received
  <2>2. Known(t)' => /\ t \in started' /\ (status'[t] \in Ended \/ t \in late')
                     /\ \A d \in AllDocs : Held(t, d)'
    BY <1>2, <2>1 DEF FileOK, FileSafe, Exempt, Received, Known, Held, Safe
  <2>3. Known(t)' => Good(t, ckptFile[t])' /\ Good(t, ckptData[t])'
    BY <2>2 DEF Good
  <2>4. t \notin started' => ckptFile'[t] = Nil /\ ckptData'[t] = {}
    BY <1>2 DEF IInv, TaskOK
  <2> QED  BY <2>1, <2>2, <2>3, <2>4 DEF TaskOK
<1> QED  BY <1>2, <1>4, <1>5, <1>6 DEF IInv, DownOK, LateOK, Waited

-----------------------------------------------------------------------------
LEMMA InitOK == Init => IInv
<1> SUFFICES ASSUME Init PROVE IInv
  OBVIOUS
<1>1. Types
  <2>1. {} \in Checkpoints /\ Nil \in Checkpoints /\ "none" \in Statuses
    BY DEF Checkpoints, Statuses
  <2> QED  BY <2>1, IdleRunType DEF Init, Types
<1>2. \A r \in Runs : RunOK(r) /\ run[r].at = "none"
  BY IdleRunType DEF Init, RunOK
<1>3. \A t \in Tasks : TaskOK(t) /\ FileOK(t)
  BY DEF Init, TaskOK, FileOK, Known
<1> QED  BY <1>1, <1>2, <1>3 DEF IInv, DownOK, LateOK

LEMMA RunStepKeeps ==
    ASSUME IInv, NEW r \in Runs, RunStep(r)
    PROVE  IInv'
<1>1. ASSUME NEW d \in AllDocs, Sent(r, d[2]) \/ SendFails(r, d[2]) \/ Report(r, d[2])
      PROVE  IInv'
  BY <1>1, SentKeeps, SendFailsKeeps, ReportKeeps
<1> QED
  BY <1>1, PrepareKeeps, LoadKeeps, QueueKeeps, StopSendingKeeps, ReceiveKeeps,
     CollectionDoneKeeps, SetTaskErrorKeeps, StartDeltaKeeps, ApplyDeltaKeeps, CompleteKeeps
     DEF RunStep

LEMMA StepKeeps ==
    ASSUME IInv, [Next]_vars
    PROVE  IInv'
<1>1. CASE UNCHANGED vars
  BY <1>1, LoopKeeps DEF vars, taskVars, files
<1>2. ASSUME NEW t \in Tasks,
             \/ StartMigration(t) \/ PauseMigration(t)
             \/ ResumeMigration(t) \/ CancelMigration(t)
      PROVE  IInv'
  BY <1>2, StartKeeps, PauseKeeps, ResumeKeeps, CancelKeeps
<1>3. CASE LoopStep
  BY <1>3, FlushKeeps, PeriodicKeeps, TickKeeps DEF LoopStep
<1>4. CASE StopCall \/ StopStep
  BY <1>4, StopCallKeeps, StopWaitedKeeps, StopClearsKeeps, StopSavesKeeps DEF StopStep
<1>5. CASE Exit \/ Crash \/ Restart
  BY <1>5, ExitKeeps, CrashKeeps, RestartKeeps
<1> QED  BY <1>1, <1>2, <1>3, <1>4, <1>5, RunStepKeeps DEF Next

\* A checkpoint marks, for a task that was not begun behind the back of Stop, only what is on
\* the target, on its way there or counted as failed; what the file of tasks has, has ended
\* (runMigration with its checkpoints, pause, resume, Stop, crash and restart).
THEOREM Inductive == Spec => []IInv
<1>1. Init => IInv
  BY InitOK
<1>2. IInv /\ [Next]_vars => IInv'
  BY StepKeeps
<1> QED  BY <1>1, <1>2, PTL DEF Spec

\* A task without a run and without a counted failure has every id on the target, for every
\* number of runs, workers, pauses and crashes and whatever ids the documents have.
THEOREM MigratedWhenQuiet == Spec => []QuietMeansMigrated
<1>1. IInv => QuietMeansMigrated
  <2> SUFFICES ASSUME IInv, NEW t \in Tasks, t \notin late, Known(t), NoRun(t), failed[t] = 0,
                      NEW d \in AllDocs, Plain(d)
               PROVE  Received(d)
    BY DEF QuietMeansMigrated
  <2>1. Held(t, d)
    BY DEF IInv, TaskOK
  <2>2. ~(failed[t] > 0)
    OBVIOUS
  <2> QED  BY <2>1, <2>2 DEF Held, Safe, Exempt, Carries, NoRun
<1> QED  BY <1>1, Inductive, PTL

\* What resumePendingMigrations finds in tasks.json was started or resumed when Stop had
\* waited for the runs: no other task that is under way is ever in the file.
THEOREM NoneResumed == Spec => []OnlyLateResumed
<1>1. IInv => OnlyLateResumed
  BY DEF IInv, FileOK, OnlyLateResumed, Active, Ended
<1> QED  BY <1>1, Inductive, PTL
=============================================================================
