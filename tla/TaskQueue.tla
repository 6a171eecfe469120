----------------------------- MODULE TaskQueue ------------------------------
(***************************************************************************)
(* What the worker pool of internal/cluster/worker_pool.go relies on: a    *)
(* first-in first-out queue of tasks.  Enqueue and Dequeue take effect at  *)
(* one moment of the call.  Dequeue answers nil only if the queue was      *)
(* empty at some moment of that call.                                      *)
(***************************************************************************)
EXTENDS Naturals, Sequences

CONSTANTS Consumers, Tasks, Nil

VARIABLES queue,
          calling,     \* consumers whose Dequeue has not taken effect yet
          sawEmpty,    \* those for which the queue has been empty meanwhile
          got          \* Consumers -> the answer of the last Dequeue

vars == <<queue, calling, sawEmpty, got>>

Init ==
    /\ queue = <<>> /\ calling = {} /\ sawEmpty = {}
    /\ got = [c \in Consumers |-> Nil]

Enqueue(t) ==
    /\ queue' = Append(queue, t)
    /\ UNCHANGED <<calling, got>>

Call(c) ==
    /\ c \notin calling
    /\ calling' = calling \cup {c}
    /\ UNCHANGED <<queue, got>>

Dequeue(c) ==
    /\ c \in calling
    /\ queue # <<>>
    /\ queue' = Tail(queue)
    /\ got' = [got EXCEPT ![c] = Head(queue)]
    /\ calling' = calling \ {c}

AnswerNil(c) ==
    /\ c \in calling \cap sawEmpty
    /\ got' = [got EXCEPT ![c] = Nil]
    /\ calling' = calling \ {c}
    /\ UNCHANGED queue

Watch ==
    sawEmpty' = (sawEmpty \cap calling') \cup (IF queue' = <<>> THEN calling' ELSE {})

Next ==
    /\ \/ \E t \in Tasks : Enqueue(t)
       \/ \E c \in Consumers : Call(c) \/ Dequeue(c) \/ AnswerNil(c)
    /\ Watch

Spec == Init /\ [][Next]_vars
=============================================================================
