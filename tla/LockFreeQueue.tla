--------------------------- MODULE LockFreeQueue ----------------------------
(***************************************************************************)
(* LockFreeQueue of internal/cluster/worker_pool.go: a linked list with a  *)
(* dummy node, whose head and tail are moved by compare-and-swap.          *)
(*                                                                         *)
(* Each load, each compare-and-swap and each update of size is a step.     *)
(* Node number t is the one Enqueue made for task t; node 0 is the dummy.  *)
(* The garbage collector keeps a node that someone still refers to, so no  *)
(* node comes back under an old reference.                                 *)
(***************************************************************************)
EXTENDS Integers, Sequences, FiniteSets

CONSTANTS
    Producers,   \* goroutines in Enqueue: callers of Submit, the dispatcher
    Consumers,   \* goroutines in Dequeue: the workers
    MaxTasks     \* bound: tasks ever enqueued

ASSUME QueueAssumption ==
    /\ MaxTasks \in Nat
    /\ IsFiniteSet(Producers) /\ IsFiniteSet(Consumers)
    /\ Producers \cap Consumers = {}

Dummy == 0
Nodes == 0..MaxTasks
Nil == MaxTasks + 1
Tasks == 1..MaxTasks
Procs == Producers \cup Consumers

VARIABLES
    head, tail,  \* nodes
    next,        \* Nodes -> node or Nil
    size,
    pc,          \* Procs -> where its call is
    h, t, n,     \* Procs -> the node this round of its loop loaded from head, tail, next
    node,        \* Producers -> the node of its call
    made         \* nodes made so far

VARIABLES        \* history, read by no action
    linked,      \* every node ever in the list, in the order of their links
    taken,       \* number of tasks taken out
    got,         \* Consumers -> the answer of its last Dequeue
    sawEmpty     \* consumers for which the queue was empty during the call under way

list == <<head, tail, next>>
regs == <<h, t, n>>
vars == <<head, tail, next, size, pc, h, t, n, node, made, linked, taken, got, sawEmpty>>

Init ==
    /\ head = Dummy /\ tail = Dummy
    /\ next = [x \in Nodes |-> Nil]
    /\ size = 0
    /\ pc = [p \in Procs |-> "idle"]
    /\ h = [p \in Procs |-> Nil] /\ t = [p \in Procs |-> Nil] /\ n = [p \in Procs |-> Nil]
    /\ node = [p \in Producers |-> Dummy] /\ made = 0
    /\ linked = <<Dummy>> /\ taken = 0
    /\ got = [c \in Consumers |-> Nil] /\ sawEmpty = {}

\* The tasks in the list after the node head is at, and the calls that have yet to
\* take one.
Queue == SubSeq(linked, taken + 2, Len(linked))
Calling == {c \in Consumers : pc[c] \in {"head", "tail", "next", "check", "help", "take"}}

-----------------------------------------------------------------------------
(* The comparisons the two calls make.  A definition called ..._slip is a slip in
   the one below it, used by no action. *)

\* tailVal != q.tail.Load()
TailMoved_slip(p) == t[p] = tail
TailMoved(p) == t[p] # tail

\* tail.next.CompareAndSwap(nil, newNode)
MayLink_slip(p) == n[p] = Nil
MayLink(p) == next[t[p]] = Nil

\* q.tail.CompareAndSwap(tailVal, new)
TailAfter_slip(p, new) == new
TailAfter(p, new) == IF tail = t[p] THEN new ELSE tail

\* next == nil
AtEnd_slip(p) == FALSE
AtEnd(p) == n[p] = Nil

\* head == tail: the list is empty or tail lags.
MeetsTail_slip(p) == FALSE
MeetsTail(p) == h[p] = t[p]

\* q.head.CompareAndSwap(headVal, next)
MayTake_slip(p) == n[p] # Nil
MayTake(p) == head = h[p]

\* q.size.Add(-1)
SizeAfterTake_slip == IF size > 0 THEN size - 1 ELSE 0
SizeAfterTake == size - 1

-----------------------------------------------------------------------------
Goto(p, where) == pc' = [pc EXCEPT ![p] = where]
Load(reg, p, value) == reg' = [reg EXCEPT ![p] = value]

\* The locals end with the round: continue, or return.
Round(p, where) ==
    /\ Goto(p, where)
    /\ h' = [h EXCEPT ![p] = Nil] /\ t' = [t EXCEPT ![p] = Nil] /\ n' = [n EXCEPT ![p] = Nil]

(* Enqueue *)

EnqueueCall(p) ==
    /\ pc[p] = "idle" /\ made < MaxTasks
    /\ made' = made + 1
    /\ node' = [node EXCEPT ![p] = made + 1]
    /\ Goto(p, "tail")
    /\ UNCHANGED <<list, size, regs, linked, taken, got>>

LoadTail(p) ==
    /\ pc[p] = "tail"
    /\ Load(t, p, tail)
    /\ Goto(p, "next")
    /\ UNCHANGED <<list, size, h, n, node, made, linked, taken, got>>

EnqueueLoadNext(p) ==
    /\ p \in Producers /\ pc[p] = "next"
    /\ Load(n, p, next[t[p]])
    /\ Goto(p, "check")
    /\ UNCHANGED <<list, size, h, t, node, made, linked, taken, got>>

EnqueueCheck(p) ==
    /\ p \in Producers /\ pc[p] = "check"
    /\ \/ TailMoved(p) /\ Round(p, "tail")
       \/ ~TailMoved(p) /\ Goto(p, IF n[p] # Nil THEN "help" ELSE "link") /\ UNCHANGED regs
    /\ UNCHANGED <<list, size, node, made, linked, taken, got>>

\* q.tail.CompareAndSwap(tailVal, next), in Enqueue and in Dequeue, and from the top.
Help(p) ==
    /\ pc[p] = "help"
    /\ tail' = TailAfter(p, n[p])
    /\ Round(p, IF p \in Producers THEN "tail" ELSE "head")
    /\ UNCHANGED <<head, next, size, node, made, linked, taken, got>>

Link(p) ==
    /\ pc[p] = "link"
    /\ IF MayLink(p)
       THEN /\ next' = [next EXCEPT ![t[p]] = node[p]]
            /\ linked' = Append(linked, node[p])
            /\ Goto(p, "swing")
            /\ UNCHANGED regs
       ELSE /\ Round(p, "tail")
            /\ UNCHANGED <<next, linked>>
    /\ UNCHANGED <<head, tail, size, node, made, taken, got>>

Swing(p) ==
    /\ pc[p] = "swing"
    /\ tail' = TailAfter(p, node[p])
    /\ Round(p, "enqueued")
    /\ UNCHANGED <<head, next, size, node, made, linked, taken, got>>

EnqueueReturn(p) ==
    /\ pc[p] = "enqueued"
    /\ size' = size + 1
    /\ Goto(p, "idle")
    /\ UNCHANGED <<list, regs, node, made, linked, taken, got>>

-----------------------------------------------------------------------------
(* Dequeue *)

DequeueCall(p) ==
    /\ pc[p] = "idle"
    /\ Goto(p, "head")
    /\ UNCHANGED <<list, size, regs, node, made, linked, taken, got>>

LoadHead(p) ==
    /\ pc[p] = "head"
    /\ Load(h, p, head)
    /\ Goto(p, "tail")
    /\ UNCHANGED <<list, size, t, n, node, made, linked, taken, got>>

DequeueLoadNext(p) ==
    /\ p \in Consumers /\ pc[p] = "next"
    /\ Load(n, p, next[h[p]])
    /\ Goto(p, "check")
    /\ UNCHANGED <<list, size, h, t, node, made, linked, taken, got>>

\* headVal != q.head.Load(): from the top.  Else nil, help or take.
DequeueCheck(p) ==
    /\ p \in Consumers /\ pc[p] = "check"
    /\ \/ head # h[p] /\ Round(p, "head") /\ UNCHANGED got
       \/ head = h[p] /\ ~AtEnd(p) /\ UNCHANGED <<regs, got>>
             /\ Goto(p, IF MeetsTail(p) THEN "help" ELSE "take")
       \/ head = h[p] /\ AtEnd(p) /\ Round(p, "idle")
             /\ got' = [got EXCEPT ![p] = Nil]
    /\ UNCHANGED <<list, size, node, made, linked, taken>>

Take(p) ==
    /\ pc[p] = "take"
    /\ IF MayTake(p)
       THEN /\ head' = n[p]
            /\ taken' = taken + 1
            /\ got' = [got EXCEPT ![p] = n[p]]
            /\ Round(p, "dequeued")
       ELSE /\ Round(p, "head")
            /\ UNCHANGED <<head, taken, got>>
    /\ UNCHANGED <<tail, next, size, node, made, linked>>

DequeueReturn(p) ==
    /\ pc[p] = "dequeued"
    /\ size' = SizeAfterTake
    /\ Goto(p, "idle")
    /\ UNCHANGED <<list, regs, node, made, linked, taken, got>>

-----------------------------------------------------------------------------
EnqueueStep(p) ==
    \/ LoadTail(p) \/ EnqueueLoadNext(p) \/ EnqueueCheck(p) \/ Help(p) \/ Link(p)
    \/ Swing(p) \/ EnqueueReturn(p)
DequeueStep(p) ==
    \/ LoadHead(p) \/ LoadTail(p) \/ DequeueLoadNext(p) \/ DequeueCheck(p) \/ Help(p)
    \/ Take(p) \/ DequeueReturn(p)

Watch ==
    sawEmpty' = (sawEmpty \cap Calling')
                   \cup (IF Queue' = <<>> THEN Calling' ELSE {})

Next ==
    /\ \/ \E p \in Producers : EnqueueCall(p) \/ EnqueueStep(p)
       \/ \E c \in Consumers : DequeueCall(c) \/ DequeueStep(c)
    /\ Watch

Spec == Init /\ [][Next]_vars

\* The scheduler runs every goroutine that is in a call; nobody need call.
FairSpec ==
    /\ Spec
    /\ \A p \in Producers : WF_vars(EnqueueStep(p) /\ Watch)
    /\ \A c \in Consumers : WF_vars(DequeueStep(c) /\ Watch)

-----------------------------------------------------------------------------
(* Properties *)

\* The variables keep their types.
EnqueuePlaces == {"idle", "tail", "next", "check", "help", "link", "swing", "enqueued"}
DequeuePlaces == {"idle", "head", "tail", "next", "check", "help", "take", "dequeued"}
TypeOK ==
    /\ head \in Nodes /\ tail \in Nodes
    /\ next \in [Nodes -> Nodes \cup {Nil}]
    /\ size \in Int
    /\ pc \in [Procs -> EnqueuePlaces \cup DequeuePlaces]
    /\ \A p \in Producers : pc[p] \in EnqueuePlaces
    /\ \A c \in Consumers : pc[c] \in DequeuePlaces
    /\ h \in [Procs -> Nodes \cup {Nil}] /\ t \in [Procs -> Nodes \cup {Nil}]
    /\ n \in [Procs -> Nodes \cup {Nil}]
    /\ node \in [Producers -> Nodes] /\ made \in Nodes
    /\ linked \in Seq(Nodes) /\ taken \in Nat
    /\ got \in [Consumers -> Nodes \cup {Nil}]
    /\ sawEmpty \subseteq Consumers

\* The list is one chain of distinct nodes, head is at the node taken last, and tail,
\* which may lag, is at the last node or the one before it and never behind head:
\* a dequeue that found head # tail can follow next.
OneChain ==
    /\ taken < Len(linked) /\ head = linked[taken + 1]
    /\ \A i, j \in 1..Len(linked) : linked[i] = linked[j] => i = j
    /\ \A i \in 1..Len(linked) :
          next[linked[i]] = IF i = Len(linked) THEN Nil ELSE linked[i + 1]
    /\ \E i \in {Len(linked) - 1, Len(linked)} : i > taken /\ tail = linked[i]

\* size differs from the length of the queue by exactly the calls that have yet to
\* count; it may be negative, but with no call under way it is right, and the
\* dispatcher that reads it is not misled for good.
Uncounted == {p \in Producers : pc[p] \in {"swing", "enqueued"}}
Undiscounted == {c \in Consumers : pc[c] = "dequeued"}
SizeCatchesUp ==
    size = Len(Queue) - Cardinality(Uncounted) + Cardinality(Undiscounted)

\* What makes those two inductive: the nodes that are not in the list yet are new, and
\* what a call has loaded is where it was, or further back, in the chain.
NoLater(s, x, y) == \E i, j \in 1..Len(s) : s[i] = x /\ s[j] = y /\ i <= j
Follows(s, x, y) == \E i \in 1..(Len(s) - 1) : s[i] = x /\ s[i + 1] = y

HasNode == {p \in Producers : pc[p] \in {"tail", "next", "check", "help", "link"}}
NewNodes ==
    /\ \A i \in 1..Len(linked) : linked[i] <= made
    /\ \A x \in Nodes : (\A i \in 1..Len(linked) : linked[i] # x) => next[x] = Nil
    /\ \A p \in HasNode :
          /\ node[p] \in 1..made
          /\ \A i \in 1..Len(linked) : linked[i] # node[p]
          /\ \A q \in HasNode : node[p] = node[q] => p = q

EnqueueRegs(p) ==
    /\ pc[p] \in {"next", "check", "help", "link", "swing"} => NoLater(linked, t[p], tail)
    /\ pc[p] = "check" => n[p] = Nil \/ Follows(linked, t[p], n[p])
    /\ pc[p] = "help" => Follows(linked, t[p], n[p])
    /\ pc[p] = "swing" => Follows(linked, t[p], node[p])

DequeueRegs(p) ==
    /\ pc[p] \in {"tail", "next", "check", "help", "take"} => NoLater(linked, h[p], head)
    /\ pc[p] \in {"next", "check", "help", "take"}
          => NoLater(linked, h[p], t[p]) /\ NoLater(linked, t[p], tail)
    /\ pc[p] = "check" => (n[p] = Nil /\ p \in sawEmpty) \/ Follows(linked, h[p], n[p])
    /\ pc[p] = "help" => h[p] = t[p] /\ Follows(linked, h[p], n[p])
    /\ pc[p] = "take" => h[p] # t[p] /\ Follows(linked, h[p], n[p])

SeenEmpty == /\ sawEmpty \subseteq Calling
             /\ taken + 1 = Len(linked) => sawEmpty = Calling

IInv ==
    /\ TypeOK /\ OneChain /\ SizeCatchesUp /\ NewNodes /\ SeenEmpty
    /\ \A p \in Producers : EnqueueRegs(p)
    /\ \A c \in Consumers : DequeueRegs(c)

\* Enqueue and Dequeue, interleaved load by load, are those of a FIFO queue.
Abstract == INSTANCE TaskQueue WITH queue <- Queue, calling <- Calling
ImplementsTaskQueue == Abstract!Spec

\* No call spins forever: each retry is due to a link or a take that succeeded.
EveryCallReturns == \A p \in Procs : pc[p] # "idle" ~> pc[p] = "idle"
=============================================================================
