------------------------ MODULE LockFreeQueueProofs -------------------------
(***************************************************************************)
(* Proofs about LockFreeQueue for every number of goroutines and tasks:    *)
(* its list stays one chain, its size catches up with its length, and it   *)
(* implements TaskQueue.                                                   *)
(***************************************************************************)
EXTENDS LockFreeQueue, TLAPS, FiniteSetTheorems, SequenceTheorems

-----------------------------------------------------------------------------
(* Places in a sequence *)

Distinct(s) == \A i, j \in 1..Len(s) : s[i] = s[j] => i = j

\* Being no later is transitive where places are unique.
LEMMA NoLaterTransitive ==
    ASSUME NEW s, Len(s) \in Nat, Distinct(s), NEW x, NEW y, NEW z,
           NoLater(s, x, y), NoLater(s, y, z)
    PROVE  NoLater(s, x, z)
<1>1. PICK i, j \in 1..Len(s) : s[i] = x /\ s[j] = y /\ i <= j
  BY DEF NoLater
<1>2. PICK k, l \in 1..Len(s) : s[k] = y /\ s[l] = z /\ k <= l
  BY DEF NoLater
<1>3. j = k
  BY <1>1, <1>2 DEF Distinct
<1> QED  BY <1>1, <1>2, <1>3 DEF NoLater

\* A chain only grows at its end: what was said of places stays true.
LEMMA PlacesStay ==
    ASSUME NEW S, NEW s \in Seq(S), NEW e \in S, NEW x, NEW y
    PROVE  /\ NoLater(s, x, y) => NoLater(Append(s, e), x, y)
           /\ Follows(s, x, y) => Follows(Append(s, e), x, y)
<1> DEFINE a == Append(s, e)
<1>1. /\ Len(s) \in Nat /\ Len(a) = Len(s) + 1
      /\ \A i \in 1..Len(s) : a[i] = s[i]
  BY AppendProperties, LenProperties
<1> HIDE DEF a
<1>2. ASSUME NoLater(s, x, y) PROVE NoLater(a, x, y)
  <2>1. PICK i, j \in 1..Len(s) : s[i] = x /\ s[j] = y /\ i <= j
    BY <1>2 DEF NoLater
  <2>2. i \in 1..Len(a) /\ j \in 1..Len(a) /\ a[i] = x /\ a[j] = y
    BY <1>1, <2>1
  <2> QED  BY <2>1, <2>2 DEF NoLater
<1>3. ASSUME Follows(s, x, y) PROVE Follows(a, x, y)
  <2>1. PICK i \in 1..(Len(s) - 1) : s[i] = x /\ s[i + 1] = y
    BY <1>3 DEF Follows
  <2>2. i \in 1..(Len(a) - 1) /\ a[i] = x /\ a[i + 1] = y
    BY <1>1, <2>1
  <2> QED  BY <2>1, <2>2 DEF Follows
<1> QED  BY <1>2, <1>3 DEF a

\* The calls of q that have loaded something keep what they know when the chain grows
\* and head and tail move on.
LEMMA RegsStay ==
    ASSUME TypeOK, TypeOK', OneChain', NEW e \in Nodes, linked' \in {linked, Append(linked, e)},
           NoLater(linked', head, head'), NoLater(linked', tail, tail'),
           sawEmpty \cap Calling' \subseteq sawEmpty',
           NEW q \in Procs,
           pc'[q] = pc[q], h'[q] = h[q], t'[q] = t[q], n'[q] = n[q],
           q \in Producers => node'[q] = node[q]
    PROVE  /\ q \in Producers /\ EnqueueRegs(q) => EnqueueRegs(q)'
           /\ q \in Consumers /\ DequeueRegs(q) => DequeueRegs(q)'
<1>1. Distinct(linked') /\ Len(linked') \in Nat
  BY LenProperties DEF OneChain, Distinct, TypeOK
<1>2. \A x, y : NoLater(linked, x, y) => NoLater(linked', x, y)
  BY PlacesStay DEF TypeOK
<1>3. \A x, y : Follows(linked, x, y) => Follows(linked', x, y)
  BY PlacesStay DEF TypeOK
<1>4. \A x : NoLater(linked, x, tail) => NoLater(linked', x, tail')
  BY <1>1, <1>2, NoLaterTransitive
<1>5. \A x : NoLater(linked, x, head) => NoLater(linked', x, head')
  BY <1>1, <1>2, NoLaterTransitive
<1>6. ASSUME q \in Producers, EnqueueRegs(q) PROVE EnqueueRegs(q)'
  BY <1>6, <1>3, <1>4 DEF EnqueueRegs
<1>7. ASSUME q \in Consumers, DequeueRegs(q) PROVE DequeueRegs(q)'
  <2>1. pc[q] = "check" => (q \in sawEmpty => q \in sawEmpty')
    BY <1>7 DEF Calling
  <2> QED  BY <1>7, <1>2, <1>3, <1>4, <1>5, <2>1 DEF DequeueRegs
<1> QED  BY <1>6, <1>7

-----------------------------------------------------------------------------
(* What every step does *)

\* What is on the chain is a node.
LEMMA OnChain ==
    ASSUME linked \in Seq(Nodes), NEW x, NEW y
    PROVE  /\ NoLater(linked, x, y) => x \in Nodes /\ y \in Nodes
           /\ Follows(linked, x, y) => x \in Nodes /\ y \in Nodes
<1>1. Len(linked) \in Nat /\ \A i \in 1..Len(linked) : linked[i] \in Nodes
  BY ElementOfSeq, LenProperties
<1>2. NoLater(linked, x, y) => x \in Nodes /\ y \in Nodes
  BY <1>1 DEF NoLater
<1>3. ASSUME NEW i \in 1..(Len(linked) - 1) PROVE i \in 1..Len(linked) /\ i + 1 \in 1..Len(linked)
  BY <1>1
<1>4. Follows(linked, x, y) => x \in Nodes /\ y \in Nodes
  BY <1>1, <1>3 DEF Follows
<1> QED  BY <1>2, <1>4

\* How long the queue is, and when it is empty.
LEMMA QueueLength ==
    ASSUME NEW s \in Seq(Nodes), NEW k \in Nat, k < Len(s)
    PROVE  /\ Len(SubSeq(s, k + 2, Len(s))) = Len(s) - k - 1
           /\ SubSeq(s, k + 2, Len(s)) = <<>> <=> k + 1 = Len(s)
<1>1. Len(s) \in Nat
  BY LenProperties
<1>2. \A i \in (k + 2)..Len(s) : s[i] \in Nodes
  BY <1>1, ElementOfSeq
<1>3. /\ SubSeq(s, k + 2, Len(s)) \in Seq(Nodes)
      /\ Len(SubSeq(s, k + 2, Len(s))) = IF k + 2 <= Len(s) THEN Len(s) - (k + 2) + 1 ELSE 0
  BY <1>1, <1>2, SubSeqProperties
<1>4. SubSeq(s, k + 2, Len(s)) = <<>> <=> Len(SubSeq(s, k + 2, Len(s))) = 0
  BY <1>3, EmptySeq
<1> QED  BY <1>1, <1>3, <1>4

\* A step moves the registers of one goroutine only.
Others(p) ==
    \A q \in Procs \ {p} :
        /\ pc'[q] = pc[q] /\ h'[q] = h[q] /\ t'[q] = t[q] /\ n'[q] = n[q]
        /\ q \in Producers => node'[q] = node[q]

\* It is enough to look at the shared variables and at the goroutine that steps.
LEMMA OneSteps ==
    ASSUME IInv, Watch, TypeOK', OneChain', NewNodes', SizeCatchesUp',
           NEW e \in Nodes, linked' \in {linked, Append(linked, e)},
           NoLater(linked', head, head'), NoLater(linked', tail, tail'),
           NEW p \in Procs, Others(p),
           p \in Producers => EnqueueRegs(p)',
           p \in Consumers => DequeueRegs(p)'
    PROVE  IInv'
<1>1. sawEmpty \cap Calling' \subseteq sawEmpty'
  BY DEF Watch
<1>2. ASSUME NEW q \in Producers PROVE EnqueueRegs(q)'
  <2>1. CASE q = p
    BY <2>1
  <2>2. CASE q # p
    <3>1. q \in Procs /\ q \in Procs \ {p}
      BY <2>2 DEF Procs
    <3>2. /\ pc'[q] = pc[q] /\ h'[q] = h[q] /\ t'[q] = t[q] /\ n'[q] = n[q]
          /\ q \in Producers => node'[q] = node[q]
      BY <3>1 DEF Others
    <3>3. TypeOK /\ EnqueueRegs(q)
      BY DEF IInv
    <3> QED  BY ONLY <1>1, <1>2, <3>1, <3>2, <3>3, RegsStay, TypeOK', OneChain', e \in Nodes,
                     linked' \in {linked, Append(linked, e)},
                     NoLater(linked', head, head'), NoLater(linked', tail, tail')
  <2> QED  BY <2>1, <2>2
<1>3. ASSUME NEW q \in Consumers PROVE DequeueRegs(q)'
  <2>1. CASE q = p
    BY <2>1
  <2>2. CASE q # p
    <3>1. q \in Procs /\ q \in Procs \ {p}
      BY <2>2 DEF Procs
    <3>2. /\ pc'[q] = pc[q] /\ h'[q] = h[q] /\ t'[q] = t[q] /\ n'[q] = n[q]
          /\ q \in Producers => node'[q] = node[q]
      BY <3>1 DEF Others
    <3>3. TypeOK /\ DequeueRegs(q)
      BY DEF IInv
    <3> QED  BY ONLY <1>1, <1>3, <3>1, <3>2, <3>3, RegsStay, TypeOK', OneChain', e \in Nodes,
                     linked' \in {linked, Append(linked, e)},
                     NoLater(linked', head, head'), NoLater(linked', tail, tail')
  <2> QED  BY <2>1, <2>2
<1>4. SeenEmpty'
  <2>1. (Queue = <<>>)' <=> (taken + 1 = Len(linked))'
    BY QueueLength DEF Queue, TypeOK, OneChain
  <2> QED  BY <2>1 DEF Watch, SeenEmpty
<1> QED  BY <1>2, <1>3, <1>4 DEF IInv

-----------------------------------------------------------------------------
(* Steps that only read what is shared *)

\* Going to w, p is where it may be.
MayBeAt(p, w) ==
    /\ p \in Producers => w \in EnqueuePlaces
    /\ p \in Consumers => w \in DequeuePlaces

\* Going to w changes nothing about who holds an unlinked node and who is to update size.
SameCount(p, w) ==
    /\ p \in Producers =>
          /\ w \in {"tail", "next", "check", "help", "link"}
                <=> pc[p] \in {"tail", "next", "check", "help", "link"}
          /\ w \in {"swing", "enqueued"} <=> pc[p] \in {"swing", "enqueued"}
    /\ p \in Consumers => (w = "dequeued" <=> pc[p] = "dequeued")

LEMMA CountsStay ==
    ASSUME TypeOK, NEW p \in Procs, NEW w, pc' = [pc EXCEPT ![p] = w], SameCount(p, w)
    PROVE  HasNode' = HasNode /\ Uncounted' = Uncounted /\ Undiscounted' = Undiscounted
<1>1. \A q \in Procs : pc'[q] = IF q = p THEN w ELSE pc[q]
  BY DEF TypeOK
<1>2. Producers \subseteq Procs /\ Consumers \subseteq Procs
  BY DEF Procs
<1>3. HasNode' = HasNode
  BY <1>1, <1>2 DEF HasNode, SameCount
<1>4. Uncounted' = Uncounted
  BY <1>1, <1>2 DEF Uncounted, SameCount
<1>5. Undiscounted' = Undiscounted
  BY <1>1, <1>2 DEF Undiscounted, SameCount
<1> QED  BY <1>3, <1>4, <1>5

\* p goes to w, having set its registers alone.
Moves(p, w) ==
    /\ pc' = [pc EXCEPT ![p] = w]
    /\ \E x, y, z \in Nodes \cup {Nil} :
          /\ h' = [h EXCEPT ![p] = x]
          /\ t' = [t EXCEPT ![p] = y]
          /\ n' = [n EXCEPT ![p] = z]

LEMMA MovesType ==
    ASSUME TypeOK, NEW p \in Procs, NEW w, Moves(p, w), MayBeAt(p, w)
    PROVE  /\ pc' \in [Procs -> EnqueuePlaces \cup DequeuePlaces]
           /\ \A q \in Producers : pc'[q] \in EnqueuePlaces
           /\ \A q \in Consumers : pc'[q] \in DequeuePlaces
           /\ h' \in [Procs -> Nodes \cup {Nil}]
           /\ t' \in [Procs -> Nodes \cup {Nil}]
           /\ n' \in [Procs -> Nodes \cup {Nil}]
           /\ \A q \in Procs \ {p} : /\ pc'[q] = pc[q]
                                     /\ h'[q] = h[q] /\ t'[q] = t[q] /\ n'[q] = n[q]
<1>1. w \in EnqueuePlaces \cup DequeuePlaces
  BY DEF MayBeAt, Procs
<1>2. \A q \in Procs : pc'[q] = IF q = p THEN w ELSE pc[q]
  BY DEF TypeOK, Moves
<1> QED  BY <1>1, <1>2 DEF TypeOK, Moves, MayBeAt, Procs

\* Calls that ended are not remembered.
LEMMA WatchType ==
    ASSUME Watch
    PROVE  sawEmpty' \subseteq Consumers
BY DEF Watch, Calling

\* head and tail are on the chain, so each is no later than itself.
LEMMA HeadTailOnChain ==
    ASSUME TypeOK, OneChain
    PROVE  NoLater(linked, head, head) /\ NoLater(linked, tail, tail)
<1>1. Len(linked) \in Nat /\ taken \in Nat
  BY LenProperties DEF TypeOK
<1>2. taken + 1 \in 1..Len(linked) /\ head = linked[taken + 1]
  BY <1>1 DEF OneChain
<1>3. \E i \in 1..Len(linked) : tail = linked[i]
  BY <1>1 DEF OneChain
<1> QED  BY <1>1, <1>2, <1>3 DEF NoLater

LEMMA PrivateStep ==
    ASSUME IInv, Watch, NEW p \in Procs, NEW w, Moves(p, w), MayBeAt(p, w), SameCount(p, w),
           UNCHANGED <<list, size, node, made, linked, taken>>,
           got' \in [Consumers -> Nodes \cup {Nil}],
           p \in Producers => EnqueueRegs(p)',
           p \in Consumers => DequeueRegs(p)'
    PROVE  IInv'
<1> USE DEF list
<1>1. TypeOK /\ OneChain /\ SizeCatchesUp /\ NewNodes
  BY DEF IInv
<1>2. TypeOK' /\ Others(p)
  BY <1>1, MovesType, WatchType DEF TypeOK, Others
<1>3. HasNode' = HasNode /\ Uncounted' = Uncounted /\ Undiscounted' = Undiscounted
  BY <1>1, CountsStay DEF Moves
<1>4. OneChain'
  BY <1>1 DEF OneChain
<1>5. NewNodes'
  BY <1>1, <1>3 DEF NewNodes
<1>6. SizeCatchesUp'
  BY <1>1, <1>3 DEF SizeCatchesUp, Queue
<1>7. NoLater(linked', head, head') /\ NoLater(linked', tail, tail')
  BY <1>1, HeadTailOnChain
<1>8. Dummy \in Nodes /\ linked' \in {linked, Append(linked, Dummy)}
  BY QueueAssumption DEF Dummy, Nodes
<1> QED  BY <1>2, <1>4, <1>5, <1>6, <1>7, <1>8, OneSteps

\* What the hypotheses of the lemmas below give.
LEMMA Known ==
    ASSUME IInv
    PROVE  /\ TypeOK /\ OneChain /\ SizeCatchesUp /\ NewNodes /\ SeenEmpty
           /\ linked \in Seq(Nodes) /\ Len(linked) \in Nat /\ Distinct(linked)
           /\ \A i \in 1..Len(linked) : linked[i] \in Nodes
           /\ Nil \notin Nodes /\ Dummy \in Nodes
           /\ \A p \in Producers : p \in Procs /\ p \notin Consumers /\ EnqueueRegs(p)
           /\ \A p \in Consumers : p \in Procs /\ p \notin Producers /\ DequeueRegs(p)
<1>1. linked \in Seq(Nodes) /\ Len(linked) \in Nat
  BY LenProperties DEF IInv, TypeOK
<1>2. \A i \in 1..Len(linked) : linked[i] \in Nodes
  BY <1>1, ElementOfSeq
<1>3. Nil \notin Nodes /\ Dummy \in Nodes
  BY QueueAssumption DEF Nil, Nodes, Dummy
<1> QED  BY <1>1, <1>2, <1>3, QueueAssumption DEF IInv, Procs, Distinct, OneChain

LEMMA LoadTailStep ==
    ASSUME IInv, Watch, NEW p \in Procs, LoadTail(p)
    PROVE  IInv'
<1>1. TypeOK /\ OneChain /\ NoLater(linked, tail, tail) /\ NoLater(linked, head, head)
  BY Known, HeadTailOnChain
<1>2. pc' = [pc EXCEPT ![p] = "next"] /\ t' = [t EXCEPT ![p] = tail] /\ pc[p] = "tail"
      /\ UNCHANGED <<list, size, h, n, node, made, linked, taken, got>>
  BY DEF LoadTail, Load, Goto
<1>3. pc'[p] = "next" /\ t'[p] = tail /\ h'[p] = h[p]
  BY <1>1, <1>2 DEF TypeOK
<1>4. Moves(p, "next")
  <2>1. h[p] \in Nodes \cup {Nil} /\ n[p] \in Nodes \cup {Nil} /\ tail \in Nodes \cup {Nil}
        /\ h' = [h EXCEPT ![p] = h[p]] /\ n' = [n EXCEPT ![p] = n[p]]
    BY <1>1, <1>2 DEF TypeOK
  <2> QED  BY <1>2, <2>1 DEF Moves
<1>5. MayBeAt(p, "next") /\ SameCount(p, "next")
  BY <1>2 DEF MayBeAt, SameCount, EnqueuePlaces, DequeuePlaces
<1>6. EnqueueRegs(p)'
  BY <1>1, <1>2, <1>3 DEF EnqueueRegs, list
<1>7. ASSUME p \in Consumers PROVE DequeueRegs(p)'
  <2>1. NoLater(linked, h[p], head)
    BY <1>2, <1>7, Known DEF DequeueRegs
  <2>2. NoLater(linked, head, tail)
    <3>1. taken \in Nat /\ Len(linked) \in Nat
      BY Known DEF TypeOK
    <3>2. taken + 1 \in 1..Len(linked) /\ head = linked[taken + 1]
      BY <1>1, <3>1 DEF OneChain
    <3>3. PICK i \in {Len(linked) - 1, Len(linked)} : i > taken /\ tail = linked[i]
      BY <1>1 DEF OneChain
    <3> QED  BY <3>1, <3>2, <3>3 DEF NoLater
  <2>3. NoLater(linked, h[p], tail)
    BY <2>1, <2>2, NoLaterTransitive, Known
  <2> QED  BY <1>1, <1>2, <1>3, <2>1, <2>3 DEF DequeueRegs, list
<1>8. got' \in [Consumers -> Nodes \cup {Nil}]
  BY <1>1, <1>2 DEF TypeOK
<1> QED  BY <1>2, <1>4, <1>5, <1>6, <1>7, <1>8, PrivateStep DEF list

\* What a next that was loaded says: nil at the last node, else the node linked after.
LEMMA NextOnChain ==
    ASSUME IInv, NEW x, NEW y, NoLater(linked, x, y)
    PROVE  /\ x \in Nodes /\ next[x] \in Nodes \cup {Nil}
           /\ next[x] = Nil => x = linked[Len(linked)]
           /\ next[x] # Nil => Follows(linked, x, next[x])
<1>1. PICK i \in 1..Len(linked) : linked[i] = x
  BY DEF NoLater
<1>2. next[x] = IF i = Len(linked) THEN Nil ELSE linked[i + 1]
  BY <1>1, Known DEF OneChain
<1>3. x \in Nodes
  BY <1>1, Known
<1>4. CASE i = Len(linked)
  BY <1>1, <1>2, <1>3, <1>4
<1>5. CASE i # Len(linked)
  <2>1. i \in 1..(Len(linked) - 1) /\ i + 1 \in 1..Len(linked)
    BY <1>5, Known
  <2>2. next[x] = linked[i + 1] /\ linked[i + 1] \in Nodes
    BY <1>2, <1>5, <2>1, Known
  <2>3. next[x] # Nil
    BY <2>2, Known
  <2> QED  BY <1>1, <1>3, <2>1, <2>2, <2>3 DEF Follows
<1> QED  BY <1>4, <1>5

LEMMA EnqueueLoadNextStep ==
    ASSUME IInv, Watch, NEW p \in Producers, EnqueueLoadNext(p)
    PROVE  IInv'
<1>1. TypeOK /\ p \in Procs /\ p \notin Consumers /\ EnqueueRegs(p)
  BY Known
<1>2. pc' = [pc EXCEPT ![p] = "check"] /\ n' = [n EXCEPT ![p] = next[t[p]]] /\ pc[p] = "next"
      /\ UNCHANGED <<list, size, h, t, node, made, linked, taken, got>>
  BY DEF EnqueueLoadNext, Load, Goto
<1>3. pc'[p] = "check" /\ n'[p] = next[t[p]] /\ t'[p] = t[p]
  BY <1>1, <1>2 DEF TypeOK
<1>4. NoLater(linked, t[p], tail)
  BY <1>1, <1>2 DEF EnqueueRegs
<1>5. next[t[p]] \in Nodes \cup {Nil}
      /\ (next[t[p]] # Nil => Follows(linked, t[p], next[t[p]]))
  BY <1>4, NextOnChain
<1>6. Moves(p, "check")
  <2>1. h[p] \in Nodes \cup {Nil} /\ t[p] \in Nodes \cup {Nil}
        /\ h' = [h EXCEPT ![p] = h[p]] /\ t' = [t EXCEPT ![p] = t[p]]
    BY <1>1, <1>2 DEF TypeOK
  <2> QED  BY <1>2, <1>5, <2>1 DEF Moves
<1>7. MayBeAt(p, "check") /\ SameCount(p, "check")
  BY <1>1, <1>2 DEF MayBeAt, SameCount, EnqueuePlaces
<1>8. EnqueueRegs(p)'
  BY <1>2, <1>3, <1>4, <1>5 DEF EnqueueRegs, list
<1>9. got' \in [Consumers -> Nodes \cup {Nil}]
  BY <1>1, <1>2 DEF TypeOK
<1> QED  BY <1>1, <1>2, <1>6, <1>7, <1>8, <1>9, PrivateStep DEF list

\* The end of a round forgets the registers.
LEMMA RoundMoves ==
    ASSUME TypeOK, NEW p \in Procs, NEW w, Round(p, w)
    PROVE  Moves(p, w) /\ pc'[p] = w
BY DEF Round, Goto, Moves, TypeOK

LEMMA GotoMoves ==
    ASSUME TypeOK, NEW p \in Procs, NEW w, Goto(p, w), UNCHANGED regs
    PROVE  Moves(p, w) /\ pc'[p] = w
<1>1. h[p] \in Nodes \cup {Nil} /\ t[p] \in Nodes \cup {Nil} /\ n[p] \in Nodes \cup {Nil}
      /\ h' = [h EXCEPT ![p] = h[p]] /\ t' = [t EXCEPT ![p] = t[p]]
      /\ n' = [n EXCEPT ![p] = n[p]]
  BY DEF TypeOK, regs
<1> QED  BY <1>1 DEF Moves, Goto, TypeOK

LEMMA EnqueueCheckStep ==
    ASSUME IInv, Watch, NEW p \in Producers, EnqueueCheck(p)
    PROVE  IInv'
<1>1. TypeOK /\ p \in Procs /\ p \notin Consumers /\ EnqueueRegs(p)
  BY Known
<1>2. pc[p] = "check" /\ UNCHANGED <<list, size, node, made, linked, taken, got>>
  BY DEF EnqueueCheck
<1>3. got' \in [Consumers -> Nodes \cup {Nil}]
  BY <1>1, <1>2 DEF TypeOK
<1>4. CASE Round(p, "tail")
  <2>1. Moves(p, "tail") /\ pc'[p] = "tail"
    BY <1>1, <1>4, RoundMoves
  <2>2. MayBeAt(p, "tail") /\ SameCount(p, "tail")
    BY <1>1, <1>2 DEF MayBeAt, SameCount, EnqueuePlaces
  <2>3. EnqueueRegs(p)'
    BY <2>1 DEF EnqueueRegs
  <2> QED  BY <1>1, <1>2, <1>3, <2>1, <2>2, <2>3, PrivateStep
<1>5. ASSUME ~TailMoved(p), Goto(p, IF n[p] # Nil THEN "help" ELSE "link"), UNCHANGED regs
      PROVE  IInv'
  <2> DEFINE w == IF n[p] # Nil THEN "help" ELSE "link"
  <2>1. Moves(p, w) /\ pc'[p] = w
    BY <1>1, <1>5, GotoMoves
  <2>2. MayBeAt(p, w) /\ SameCount(p, w)
    BY <1>1, <1>2 DEF MayBeAt, SameCount, EnqueuePlaces
  <2>3. NoLater(linked, t[p], tail) /\ (n[p] # Nil => Follows(linked, t[p], n[p]))
    BY <1>1, <1>2 DEF EnqueueRegs
  <2>4. EnqueueRegs(p)'
    BY <1>2, <1>5, <2>1, <2>3 DEF EnqueueRegs, regs, list
  <2> HIDE DEF w
  <2> QED  BY <1>1, <1>2, <1>3, <2>1, <2>2, <2>4, PrivateStep
<1> QED  BY <1>4, <1>5 DEF EnqueueCheck

LEMMA DequeueCallStep ==
    ASSUME IInv, Watch, NEW p \in Consumers, DequeueCall(p)
    PROVE  IInv'
<1>1. TypeOK /\ p \in Procs /\ p \notin Producers
  BY Known
<1>2. pc[p] = "idle" /\ UNCHANGED <<list, size, regs, node, made, linked, taken, got>>
      /\ Moves(p, "head") /\ pc'[p] = "head"
  BY <1>1, GotoMoves DEF DequeueCall
<1>3. MayBeAt(p, "head") /\ SameCount(p, "head")
  BY <1>1, <1>2 DEF MayBeAt, SameCount, DequeuePlaces
<1>4. DequeueRegs(p)' /\ got' \in [Consumers -> Nodes \cup {Nil}]
  BY <1>1, <1>2 DEF DequeueRegs, TypeOK
<1> QED  BY <1>1, <1>2, <1>3, <1>4, PrivateStep

LEMMA LoadHeadStep ==
    ASSUME IInv, Watch, NEW p \in Consumers, LoadHead(p)
    PROVE  IInv'
<1>1. TypeOK /\ OneChain /\ p \in Procs /\ p \notin Producers
  BY Known
<1>2. pc' = [pc EXCEPT ![p] = "tail"] /\ h' = [h EXCEPT ![p] = head] /\ pc[p] = "head"
      /\ UNCHANGED <<list, size, t, n, node, made, linked, taken, got>>
  BY DEF LoadHead, Load, Goto
<1>3. pc'[p] = "tail" /\ h'[p] = head
  BY <1>1, <1>2 DEF TypeOK
<1>4. Moves(p, "tail")
  <2>1. t[p] \in Nodes \cup {Nil} /\ n[p] \in Nodes \cup {Nil} /\ head \in Nodes \cup {Nil}
        /\ t' = [t EXCEPT ![p] = t[p]] /\ n' = [n EXCEPT ![p] = n[p]]
    BY <1>1, <1>2 DEF TypeOK
  <2> QED  BY <1>2, <2>1 DEF Moves
<1>5. MayBeAt(p, "tail") /\ SameCount(p, "tail")
  BY <1>1, <1>2 DEF MayBeAt, SameCount, DequeuePlaces
<1>6. NoLater(linked, head, head)
  BY <1>1, HeadTailOnChain
<1>7. DequeueRegs(p)' /\ got' \in [Consumers -> Nodes \cup {Nil}]
  BY <1>1, <1>2, <1>3, <1>6 DEF DequeueRegs, TypeOK, list
<1> QED  BY <1>1, <1>2, <1>4, <1>5, <1>7, PrivateStep DEF list

\* An old head followed by nothing is the last node, and then head has not moved on.
LEMMA LastNodeEmpty ==
    ASSUME IInv, NEW x, NoLater(linked, x, head), next[x] = Nil
    PROVE  taken + 1 = Len(linked) /\ Queue = <<>>
<1>1. taken \in Nat /\ Len(linked) \in Nat /\ taken < Len(linked) /\ Distinct(linked)
      /\ head = linked[taken + 1] /\ linked \in Seq(Nodes)
  BY Known DEF TypeOK, OneChain
<1>2. PICK i, j \in 1..Len(linked) : linked[i] = x /\ linked[j] = head /\ i <= j
  BY DEF NoLater
<1>3. x = linked[Len(linked)]
  BY NextOnChain
<1>4. i = Len(linked) /\ j = taken + 1
  BY <1>1, <1>2, <1>3 DEF Distinct
<1>5. taken + 1 = Len(linked)
  BY <1>1, <1>2, <1>4
<1> QED  BY <1>1, <1>5, QueueLength DEF Queue

LEMMA DequeueLoadNextStep ==
    ASSUME IInv, Watch, NEW p \in Consumers, DequeueLoadNext(p)
    PROVE  IInv'
<1>1. TypeOK /\ p \in Procs /\ p \notin Producers /\ DequeueRegs(p)
  BY Known
<1>2. pc' = [pc EXCEPT ![p] = "check"] /\ n' = [n EXCEPT ![p] = next[h[p]]] /\ pc[p] = "next"
      /\ UNCHANGED <<list, size, h, t, node, made, linked, taken, got>>
  BY DEF DequeueLoadNext, Load, Goto
<1>3. pc'[p] = "check" /\ n'[p] = next[h[p]] /\ t'[p] = t[p] /\ h'[p] = h[p]
  BY <1>1, <1>2 DEF TypeOK
<1>4. /\ NoLater(linked, h[p], head) /\ NoLater(linked, h[p], t[p])
      /\ NoLater(linked, t[p], tail)
  BY <1>1, <1>2 DEF DequeueRegs
<1>5. next[h[p]] \in Nodes \cup {Nil}
      /\ (next[h[p]] # Nil => Follows(linked, h[p], next[h[p]]))
  BY <1>4, NextOnChain
<1>6. next[h[p]] = Nil => p \in sawEmpty'
  <2>1. p \in Calling'
    BY <1>3 DEF Calling
  <2>2. next[h[p]] = Nil => Queue' = <<>>
    BY <1>2, <1>4, LastNodeEmpty DEF Queue
  <2> QED  BY <2>1, <2>2 DEF Watch
<1>7. Moves(p, "check")
  <2>1. h[p] \in Nodes \cup {Nil} /\ t[p] \in Nodes \cup {Nil}
        /\ h' = [h EXCEPT ![p] = h[p]] /\ t' = [t EXCEPT ![p] = t[p]]
    BY <1>1, <1>2 DEF TypeOK
  <2> QED  BY <1>2, <1>5, <2>1 DEF Moves
<1>8. MayBeAt(p, "check") /\ SameCount(p, "check")
  BY <1>1, <1>2 DEF MayBeAt, SameCount, DequeuePlaces
<1>9. DequeueRegs(p)' /\ got' \in [Consumers -> Nodes \cup {Nil}]
  BY <1>1, <1>2, <1>3, <1>4, <1>5, <1>6 DEF DequeueRegs, TypeOK, list
<1> QED  BY <1>1, <1>2, <1>7, <1>8, <1>9, PrivateStep DEF list

LEMMA DequeueCheckStep ==
    ASSUME IInv, Watch, NEW p \in Consumers, DequeueCheck(p)
    PROVE  IInv'
<1>1. TypeOK /\ p \in Procs /\ p \notin Producers /\ DequeueRegs(p)
  BY Known
<1>2. pc[p] = "check" /\ UNCHANGED <<list, size, node, made, linked, taken>>
  BY DEF DequeueCheck
<1>3. got' \in [Consumers -> Nodes \cup {Nil}]
  BY <1>1 DEF DequeueCheck, TypeOK
<1>4. CASE \E w \in {"head", "idle"} : Round(p, w)
  <2>1. PICK w \in {"head", "idle"} : Round(p, w)
    BY <1>4
  <2>2. Moves(p, w) /\ pc'[p] = w
    BY <1>1, <2>1, RoundMoves
  <2>3. MayBeAt(p, w) /\ SameCount(p, w)
    BY <1>1, <1>2 DEF MayBeAt, SameCount, DequeuePlaces
  <2>4. DequeueRegs(p)'
    BY <2>2 DEF DequeueRegs
  <2> QED  BY <1>1, <1>2, <1>3, <2>2, <2>3, <2>4, PrivateStep
<1>5. ASSUME ~AtEnd(p), Goto(p, IF MeetsTail(p) THEN "help" ELSE "take"), UNCHANGED regs
      PROVE  IInv'
  <2> DEFINE w == IF MeetsTail(p) THEN "help" ELSE "take"
  <2>1. Moves(p, w) /\ pc'[p] = w
    BY <1>1, <1>5, GotoMoves
  <2>2. MayBeAt(p, w) /\ SameCount(p, w)
    BY <1>1, <1>2 DEF MayBeAt, SameCount, DequeuePlaces
  <2>3. /\ NoLater(linked, h[p], head) /\ NoLater(linked, h[p], t[p])
        /\ NoLater(linked, t[p], tail) /\ Follows(linked, h[p], n[p])
    BY <1>1, <1>2, <1>5 DEF DequeueRegs, AtEnd
  <2>4. DequeueRegs(p)'
    BY <1>2, <1>5, <2>1, <2>3 DEF DequeueRegs, regs, list, MeetsTail
  <2> HIDE DEF w
  <2> QED  BY <1>1, <1>2, <1>3, <2>1, <2>2, <2>4, PrivateStep
<1> QED  BY <1>4, <1>5 DEF DequeueCheck

-----------------------------------------------------------------------------
(* Steps that move tail, link a node, take one or count *)

\* Whoever moves tail moves it one node on: if it is still where it was loaded and a node
\* follows, that node is the last.
LEMMA TailMoves ==
    ASSUME IInv, Watch, NEW p \in Procs, NEW x, Follows(linked, t[p], x),
           tail' = TailAfter(p, x), NEW w, Round(p, w), MayBeAt(p, w), SameCount(p, w),
           UNCHANGED <<head, next, size, node, made, linked, taken, got>>,
           w \in {"tail", "head", "enqueued"}, w = "tail" => p \in Producers
    PROVE  IInv'
<1>1. TypeOK /\ OneChain /\ SizeCatchesUp /\ NewNodes /\ linked \in Seq(Nodes)
      /\ Len(linked) \in Nat /\ taken \in Nat /\ Distinct(linked)
      /\ \A i \in 1..Len(linked) : linked[i] \in Nodes
  BY Known DEF TypeOK
<1>2. Moves(p, w) /\ pc'[p] = w
  BY <1>1, RoundMoves
<1>3. NoLater(linked, tail, tail) /\ NoLater(linked, head, head)
  BY <1>1, HeadTailOnChain
<1>4. /\ \E i \in {Len(linked) - 1, Len(linked)} : i > taken /\ tail' = linked[i]
      /\ NoLater(linked, tail, tail')
  <2>1. CASE tail # t[p]
    BY <1>1, <1>3, <2>1 DEF OneChain, TailAfter
  <2>2. CASE tail = t[p]
    <3>1. PICK i \in 1..(Len(linked) - 1) : linked[i] = t[p] /\ linked[i + 1] = x
      BY DEF Follows
    <3>2. PICK j \in {Len(linked) - 1, Len(linked)} : j > taken /\ tail = linked[j]
      BY <1>1 DEF OneChain
    <3>3. i \in 1..Len(linked) /\ j \in 1..Len(linked)
      BY <1>1, <3>1, <3>2
    <3>4. i = j
      BY <1>1, <2>2, <3>1, <3>2, <3>3 DEF Distinct
    <3>5. i + 1 = Len(linked) /\ tail' = linked[i + 1] /\ i + 1 > taken
      BY <1>1, <2>2, <3>1, <3>2, <3>4 DEF TailAfter
    <3> QED  BY <1>1, <3>1, <3>2, <3>3, <3>4, <3>5 DEF NoLater
  <2> QED  BY <2>1, <2>2
<1>5. tail' \in Nodes
  <2>1. PICK i \in {Len(linked) - 1, Len(linked)} : i > taken /\ tail' = linked[i]
    BY <1>4
  <2>2. i \in 1..Len(linked)
    BY <1>1, <2>1
  <2> QED  BY <1>1, <2>1, <2>2
<1>6. TypeOK' /\ Others(p)
  BY <1>1, <1>2, <1>5, MovesType, WatchType DEF TypeOK, Others
<1>7. HasNode' = HasNode /\ Uncounted' = Uncounted /\ Undiscounted' = Undiscounted
  BY <1>1, <1>2, CountsStay DEF Moves
<1>8. OneChain'
  BY <1>1, <1>4 DEF OneChain
<1>9. NewNodes' /\ SizeCatchesUp'
  BY <1>1, <1>7 DEF NewNodes, SizeCatchesUp, Queue
<1>10. (p \in Producers => EnqueueRegs(p)') /\ (p \in Consumers => DequeueRegs(p)')
  BY <1>2, Known DEF EnqueueRegs, DequeueRegs
<1>11. Dummy \in Nodes /\ linked' \in {linked, Append(linked, Dummy)}
  BY Known
<1> QED  BY <1>3, <1>4, <1>6, <1>8, <1>9, <1>10, <1>11, OneSteps

LEMMA HelpStep ==
    ASSUME IInv, Watch, NEW p \in Procs, Help(p)
    PROVE  IInv'
<1> DEFINE w == IF p \in Producers THEN "tail" ELSE "head"
<1>1. pc[p] = "help" /\ tail' = TailAfter(p, n[p]) /\ Round(p, w)
      /\ UNCHANGED <<head, next, size, node, made, linked, taken, got>>
  BY DEF Help
<1>2. p \in Producers => p \notin Consumers /\ EnqueueRegs(p)
  BY Known
<1>3. p \in Consumers => p \notin Producers /\ DequeueRegs(p)
  BY Known
<1>4. Follows(linked, t[p], n[p])
  BY <1>1, <1>2, <1>3 DEF EnqueueRegs, DequeueRegs, Procs
<1>5. MayBeAt(p, w) /\ SameCount(p, w)
  BY <1>1, <1>2, <1>3 DEF MayBeAt, SameCount, EnqueuePlaces, DequeuePlaces
<1>6. w \in {"tail", "head", "enqueued"} /\ (w = "tail" => p \in Producers)
  OBVIOUS
<1> HIDE DEF w
<1> QED  BY <1>1, <1>4, <1>5, <1>6, TailMoves

LEMMA SwingStep ==
    ASSUME IInv, Watch, NEW p \in Producers, Swing(p)
    PROVE  IInv'
<1>1. pc[p] = "swing" /\ tail' = TailAfter(p, node[p]) /\ Round(p, "enqueued")
      /\ UNCHANGED <<head, next, size, node, made, linked, taken, got>>
  BY DEF Swing
<1>2. p \in Procs /\ p \notin Consumers /\ EnqueueRegs(p)
  BY Known
<1>3. Follows(linked, t[p], node[p])
  BY <1>1, <1>2 DEF EnqueueRegs
<1>4. MayBeAt(p, "enqueued") /\ SameCount(p, "enqueued")
  BY <1>1, <1>2 DEF MayBeAt, SameCount, EnqueuePlaces
<1> QED  BY <1>1, <1>2, <1>3, <1>4, TailMoves

\* The goroutines that have yet to count are finitely many.
LEMMA FiniteCounts ==
    /\ IsFiniteSet(Uncounted) /\ Cardinality(Uncounted) \in Nat
    /\ IsFiniteSet(Undiscounted) /\ Cardinality(Undiscounted) \in Nat
<1>1. Uncounted \subseteq Producers /\ Undiscounted \subseteq Consumers
  BY DEF Uncounted, Undiscounted
<1> QED  BY <1>1, QueueAssumption, FS_Subset, FS_CardinalityType

LEMMA EnqueueReturnStep ==
    ASSUME IInv, Watch, NEW p \in Producers, EnqueueReturn(p)
    PROVE  IInv'
<1>1. TypeOK /\ OneChain /\ SizeCatchesUp /\ NewNodes /\ p \in Procs /\ p \notin Consumers
  BY Known
<1>2. pc[p] = "enqueued" /\ size' = size + 1 /\ Goto(p, "idle")
      /\ UNCHANGED <<list, regs, node, made, linked, taken, got>>
  BY DEF EnqueueReturn
<1>3. Moves(p, "idle") /\ pc'[p] = "idle" /\ pc' = [pc EXCEPT ![p] = "idle"]
  BY <1>1, <1>2, GotoMoves DEF Goto
<1>4. MayBeAt(p, "idle")
  BY <1>1 DEF MayBeAt, EnqueuePlaces
<1>5. TypeOK' /\ Others(p)
  BY <1>1, <1>2, <1>3, <1>4, MovesType, WatchType DEF TypeOK, Others, list
<1>6. \A q \in Procs : pc'[q] = IF q = p THEN "idle" ELSE pc[q]
  BY <1>1, <1>3 DEF TypeOK
<1>7. HasNode' = HasNode /\ Undiscounted' = Undiscounted
  BY <1>1, <1>2, <1>6 DEF HasNode, Undiscounted, Procs
<1>8. Uncounted' = Uncounted \ {p} /\ p \in Uncounted
  BY <1>1, <1>2, <1>6 DEF Uncounted, Procs
<1>9. Cardinality(Uncounted') = Cardinality(Uncounted) - 1
  BY <1>8, FiniteCounts, FS_RemoveElement
<1>10. OneChain' /\ NewNodes'
  BY <1>1, <1>2, <1>7 DEF OneChain, NewNodes, list
<1>11. SizeCatchesUp'
  <2>1. Len(Queue) \in Nat
    BY <1>1, Known, QueueLength DEF Queue, OneChain, TypeOK
  <2>2. size = Len(Queue) - Cardinality(Uncounted) + Cardinality(Undiscounted)
    BY <1>1 DEF SizeCatchesUp
  <2>3. Queue' = Queue
    BY <1>2 DEF Queue
  <2>4. size' = Len(Queue') - Cardinality(Uncounted') + Cardinality(Undiscounted')
    BY <1>2, <1>7, <1>9, <2>1, <2>2, <2>3, FiniteCounts
  <2> QED  BY <2>4 DEF SizeCatchesUp
<1>12. NoLater(linked', head, head') /\ NoLater(linked', tail, tail')
  BY <1>1, <1>2, HeadTailOnChain DEF list
<1>13. EnqueueRegs(p)'
  BY <1>3 DEF EnqueueRegs
<1>14. Dummy \in Nodes /\ linked' \in {linked, Append(linked, Dummy)}
  BY Known, <1>2
<1> QED  BY <1>1, <1>5, <1>10, <1>11, <1>12, <1>13, <1>14, OneSteps

LEMMA DequeueReturnStep ==
    ASSUME IInv, Watch, NEW p \in Consumers, DequeueReturn(p)
    PROVE  IInv'
<1>1. TypeOK /\ OneChain /\ SizeCatchesUp /\ NewNodes /\ p \in Procs /\ p \notin Producers
  BY Known
<1>2. pc[p] = "dequeued" /\ size' = size - 1 /\ Goto(p, "idle")
      /\ UNCHANGED <<list, regs, node, made, linked, taken, got>>
  BY DEF DequeueReturn, SizeAfterTake
<1>3. Moves(p, "idle") /\ pc'[p] = "idle" /\ pc' = [pc EXCEPT ![p] = "idle"]
  BY <1>1, <1>2, GotoMoves DEF Goto
<1>4. MayBeAt(p, "idle")
  BY <1>1 DEF MayBeAt, DequeuePlaces
<1>5. TypeOK' /\ Others(p)
  BY <1>1, <1>2, <1>3, <1>4, MovesType, WatchType DEF TypeOK, Others, list
<1>6. \A q \in Procs : pc'[q] = IF q = p THEN "idle" ELSE pc[q]
  BY <1>1, <1>3 DEF TypeOK
<1>7. HasNode' = HasNode /\ Uncounted' = Uncounted
  BY <1>1, <1>6 DEF HasNode, Uncounted, Procs
<1>8. Undiscounted' = Undiscounted \ {p} /\ p \in Undiscounted
  BY <1>1, <1>2, <1>6 DEF Undiscounted, Procs
<1>9. Cardinality(Undiscounted') = Cardinality(Undiscounted) - 1
  BY <1>8, FiniteCounts, FS_RemoveElement
<1>10. OneChain' /\ NewNodes'
  BY <1>1, <1>2, <1>7 DEF OneChain, NewNodes, list
<1>11. SizeCatchesUp'
  <2>1. Len(Queue) \in Nat
    BY <1>1, Known, QueueLength DEF Queue, OneChain, TypeOK
  <2>2. size = Len(Queue) - Cardinality(Uncounted) + Cardinality(Undiscounted)
    BY <1>1 DEF SizeCatchesUp
  <2>3. Queue' = Queue
    BY <1>2 DEF Queue
  <2>4. size' = Len(Queue') - Cardinality(Uncounted') + Cardinality(Undiscounted')
    BY <1>2, <1>7, <1>9, <2>1, <2>2, <2>3, FiniteCounts
  <2> QED  BY <2>4 DEF SizeCatchesUp
<1>12. NoLater(linked', head, head') /\ NoLater(linked', tail, tail')
  BY <1>1, <1>2, HeadTailOnChain DEF list
<1>13. DequeueRegs(p)'
  BY <1>3 DEF DequeueRegs
<1>14. Dummy \in Nodes /\ linked' \in {linked, Append(linked, Dummy)}
  BY Known, <1>2
<1> QED  BY <1>1, <1>5, <1>10, <1>11, <1>12, <1>13, <1>14, OneSteps

LEMMA EnqueueCallStep ==
    ASSUME IInv, Watch, NEW p \in Producers, EnqueueCall(p)
    PROVE  IInv'
<1>1. TypeOK /\ OneChain /\ SizeCatchesUp /\ NewNodes /\ p \in Procs /\ p \notin Consumers
  BY Known
<1>2. pc[p] = "idle" /\ made < MaxTasks /\ made' = made + 1 /\ Goto(p, "tail")
      /\ node' = [node EXCEPT ![p] = made + 1]
      /\ UNCHANGED <<list, size, regs, linked, taken, got>>
  BY DEF EnqueueCall
<1>3. Moves(p, "tail") /\ pc'[p] = "tail" /\ pc' = [pc EXCEPT ![p] = "tail"]
  BY <1>1, <1>2, GotoMoves DEF Goto
<1>4. MayBeAt(p, "tail")
  BY <1>1 DEF MayBeAt, EnqueuePlaces
<1>5. made \in Nat /\ MaxTasks \in Nat /\ made' \in Nodes
  BY <1>1, <1>2, QueueAssumption DEF TypeOK, Nodes
<1>6. TypeOK' /\ Others(p)
  <2>1. node' \in [Producers -> Nodes]
    BY <1>1, <1>2, <1>5 DEF TypeOK
  <2>2. Others(p)
    BY <1>1, <1>2, <1>3, <1>4, MovesType DEF TypeOK, Others
  <2>3. TypeOK'
    BY <1>1, <1>2, <1>3, <1>4, <1>5, <2>1, MovesType, WatchType DEF TypeOK, list
  <2> QED  BY <2>2, <2>3
<1>7. \A q \in Procs : pc'[q] = IF q = p THEN "tail" ELSE pc[q]
  BY <1>1, <1>3 DEF TypeOK
<1>8. HasNode' = HasNode \cup {p} /\ p \notin HasNode
  BY <1>1, <1>2, <1>7 DEF HasNode, Procs
<1>9. Uncounted' = Uncounted /\ Undiscounted' = Undiscounted
  BY <1>1, <1>2, <1>7 DEF Uncounted, Undiscounted, Procs
<1>10. OneChain' /\ SizeCatchesUp'
  BY <1>1, <1>2, <1>9 DEF OneChain, SizeCatchesUp, Queue, list
<1>11. NewNodes'
  <2>1. \A i \in 1..Len(linked) : linked[i] \in Nat /\ linked[i] <= made
    BY <1>1, Known DEF NewNodes, Nodes
  <2>2. \A i \in 1..Len(linked') : linked'[i] <= made' /\ linked'[i] # made + 1
    BY <1>2, <1>5, <2>1
  <2>3. \A x \in Nodes : (\A i \in 1..Len(linked') : linked'[i] # x) => next'[x] = Nil
    BY <1>1, <1>2 DEF NewNodes, list
  <2>4. node'[p] = made + 1 /\ \A q \in HasNode : node'[q] = node[q]
    BY <1>1, <1>2, <1>8 DEF TypeOK, HasNode
  <2>5. ASSUME NEW q \in HasNode'
        PROVE  /\ node'[q] \in 1..made'
               /\ \A i \in 1..Len(linked') : linked'[i] # node'[q]
               /\ \A r \in HasNode' : node'[q] = node'[r] => q = r
    <3>1. \A r \in HasNode : node[r] \in 1..made
      BY <1>1 DEF NewNodes
    <3>2. CASE q = p
      BY <1>2, <1>5, <1>8, <2>2, <2>4, <3>1, <3>2
    <3>3. CASE q \in HasNode
      <4>1. node'[q] \in 1..made'
        BY <1>2, <1>5, <2>4, <3>1, <3>3
      <4>2. \A i \in 1..Len(linked') : linked'[i] # node'[q]
        BY <1>1, <1>2, <2>4, <3>3 DEF NewNodes
      <4>3. \A r \in HasNode : node'[q] = node'[r] => q = r
        BY <1>1, <2>4, <3>3 DEF NewNodes
      <4>4. node'[q] # node'[p]
        BY <1>5, <2>4, <3>1, <3>3
      <4> QED  BY <1>8, <4>1, <4>2, <4>3, <4>4
    <3> QED  BY <1>8, <3>2, <3>3
  <2> QED  BY <2>2, <2>3, <2>5 DEF NewNodes
<1>12. NoLater(linked', head, head') /\ NoLater(linked', tail, tail')
  BY <1>1, <1>2, HeadTailOnChain DEF list
<1>13. EnqueueRegs(p)'
  BY <1>3 DEF EnqueueRegs
<1>14. Dummy \in Nodes /\ linked' \in {linked, Append(linked, Dummy)}
  BY Known, <1>2
<1> QED  BY <1>1, <1>6, <1>10, <1>11, <1>12, <1>13, <1>14, OneSteps

\* The tail a CAS on next succeeds at is the last node, so tail is there too.
LEMMA LinkAtEnd ==
    ASSUME IInv, NEW x, NoLater(linked, x, tail), next[x] = Nil
    PROVE  x = linked[Len(linked)] /\ tail = x
<1>1. Len(linked) \in Nat /\ Distinct(linked) /\ taken \in Nat /\ OneChain
  BY Known DEF TypeOK
<1>2. PICK i, j \in 1..Len(linked) : linked[i] = x /\ linked[j] = tail /\ i <= j
  BY DEF NoLater
<1>3. x = linked[Len(linked)] /\ i = Len(linked)
  BY <1>1, <1>2, NextOnChain DEF Distinct
<1> QED  BY <1>1, <1>2, <1>3

LEMMA LinkStep ==
    ASSUME IInv, Watch, NEW p \in Producers, Link(p)
    PROVE  IInv'
<1>1. TypeOK /\ OneChain /\ SizeCatchesUp /\ NewNodes /\ p \in Procs /\ p \notin Consumers
      /\ linked \in Seq(Nodes) /\ Len(linked) \in Nat /\ taken \in Nat /\ Distinct(linked)
      /\ EnqueueRegs(p) /\ \A i \in 1..Len(linked) : linked[i] \in Nodes
  BY Known DEF TypeOK
<1>2. pc[p] = "link" /\ UNCHANGED <<head, tail, size, node, made, taken, got>>
  BY DEF Link
<1>3. NoLater(linked, t[p], tail)
  BY <1>1, <1>2 DEF EnqueueRegs
<1>4. CASE ~MayLink(p)
  <2>1. Round(p, "tail") /\ UNCHANGED <<next, linked>>
    BY <1>4 DEF Link
  <2>2. Moves(p, "tail") /\ pc'[p] = "tail"
    BY <1>1, <2>1, RoundMoves
  <2>3. MayBeAt(p, "tail") /\ SameCount(p, "tail")
    BY <1>1, <1>2 DEF MayBeAt, SameCount, EnqueuePlaces
  <2>4. EnqueueRegs(p)' /\ got' \in [Consumers -> Nodes \cup {Nil}]
    BY <1>1, <1>2, <2>2 DEF EnqueueRegs, TypeOK
  <2> QED  BY <1>1, <1>2, <2>1, <2>2, <2>3, <2>4, PrivateStep DEF list
<1>5. CASE MayLink(p)
  <2> DEFINE e == node[p]
             l == Len(linked)
  <2>1. next' = [next EXCEPT ![t[p]] = e] /\ linked' = Append(linked, e)
        /\ Goto(p, "swing") /\ UNCHANGED regs
    BY <1>5 DEF Link
  <2>2. next[t[p]] = Nil
    BY <1>5 DEF MayLink
  <2>3. t[p] = linked[l] /\ tail = linked[l] /\ l \in 1..l
    <3>1. l >= 1
      BY <1>1 DEF OneChain
    <3> QED  BY <1>1, <1>3, <2>2, <3>1, LinkAtEnd
  <2>4. p \in HasNode /\ e \in Nodes /\ e \in 1..made /\ \A i \in 1..l : linked[i] # e
    <3>1. p \in HasNode
      BY <1>2 DEF HasNode
    <3> QED  BY <1>1, <3>1 DEF NewNodes, TypeOK
  <2>5. /\ linked' \in Seq(Nodes) /\ Len(linked') = l + 1 /\ linked'[l + 1] = e
        /\ \A i \in 1..l : linked'[i] = linked[i]
    BY <1>1, <2>1, <2>4, AppendProperties
  <2>6. next[e] = Nil /\ e # t[p] /\ t[p] \in Nodes
    BY <1>1, <2>3, <2>4 DEF NewNodes
  <2>7. /\ next' \in [Nodes -> Nodes \cup {Nil}]
        /\ \A x \in Nodes : next'[x] = IF x = t[p] THEN e ELSE next[x]
    BY <1>1, <2>1, <2>4 DEF TypeOK
  <2>8. Moves(p, "swing") /\ pc'[p] = "swing" /\ pc' = [pc EXCEPT ![p] = "swing"]
    BY <1>1, <2>1, GotoMoves DEF Goto
  <2>9. MayBeAt(p, "swing")
    BY <1>1 DEF MayBeAt, EnqueuePlaces
  <2>10. Others(p)
    BY <1>1, <1>2, <2>8, <2>9, MovesType DEF TypeOK, Others
  <2>11. TypeOK'
    BY <1>1, <1>2, <2>5, <2>7, <2>8, <2>9, MovesType, WatchType DEF TypeOK
  <2>12. OneChain'
    <3>1. taken' < Len(linked') /\ head' = linked'[taken' + 1]
      <4>1. taken < l /\ head = linked[taken + 1] /\ taken + 1 \in 1..l
        BY <1>1 DEF OneChain
      <4> QED  BY <1>1, <1>2, <2>5, <4>1
    <3>2. \A i, j \in 1..Len(linked') : linked'[i] = linked'[j] => i = j
      <4>1. \A i \in 1..Len(linked') : i \in 1..l \/ i = l + 1
        BY <1>1, <2>5
      <4>2. \A i, j \in 1..l : linked[i] = linked[j] => i = j
        BY <1>1 DEF OneChain
      <4> HIDE DEF l, e
      <4> QED  BY <2>4, <2>5, <4>1, <4>2
    <3>3. ASSUME NEW i \in 1..Len(linked')
          PROVE  next'[linked'[i]] = IF i = Len(linked') THEN Nil ELSE linked'[i + 1]
      <4>1. CASE i = l + 1
        BY <2>4, <2>5, <2>6, <2>7, <4>1
      <4>2. CASE i = l
        BY <1>1, <2>3, <2>5, <2>6, <2>7, <4>2
      <4>3. CASE i \in 1..(l - 1)
        <5>1. i \in 1..l /\ i + 1 \in 1..l /\ i # l /\ i # l + 1
          BY <1>1, <4>3
        <5>2. next[linked[i]] = linked[i + 1]
          BY <1>1, <5>1 DEF OneChain
        <5>3. linked[i] # t[p] /\ linked[i] \in Nodes
          BY <1>1, <2>3, <5>1 DEF Distinct
        <5> QED  BY <2>5, <2>7, <5>1, <5>2, <5>3
      <4> QED  BY <1>1, <2>5, <4>1, <4>2, <4>3
    <3>4. \E i \in {Len(linked') - 1, Len(linked')} : i > taken' /\ tail' = linked'[i]
      BY <1>1, <1>2, <2>3, <2>5 DEF OneChain
    <3> QED  BY <3>1, <3>2, <3>3, <3>4 DEF OneChain
  <2>13. \A q \in Procs : pc'[q] = IF q = p THEN "swing" ELSE pc[q]
    BY <1>1, <2>8 DEF TypeOK
  <2>14. HasNode' = HasNode \ {p} /\ Undiscounted' = Undiscounted
    BY <1>1, <1>2, <2>13 DEF HasNode, Undiscounted, Procs
  <2>15. Uncounted' = Uncounted \cup {p} /\ p \notin Uncounted
    BY <1>1, <1>2, <2>13 DEF Uncounted, Procs
  <2>16. Cardinality(Uncounted') = Cardinality(Uncounted) + 1
    BY <2>15, FiniteCounts, FS_AddElement
  <2>17. SizeCatchesUp'
    <3>1. taken < l
      BY <1>1 DEF OneChain
    <3>2. Len(Queue) = l - taken - 1
      BY <1>1, <3>1, QueueLength DEF Queue
    <3>3. Len(Queue') = l + 1 - taken - 1
      <4>1. taken' = taken /\ taken' < Len(linked')
        BY <1>1, <1>2, <2>5, <3>1
      <4> QED  BY <1>1, <2>5, <4>1, QueueLength DEF Queue
    <3>4. size = Len(Queue) - Cardinality(Uncounted) + Cardinality(Undiscounted)
      BY <1>1 DEF SizeCatchesUp
    <3>5. size' = Len(Queue') - Cardinality(Uncounted') + Cardinality(Undiscounted')
      BY <1>1, <1>2, <2>14, <2>16, <3>2, <3>3, <3>4, FiniteCounts
    <3> QED  BY <3>5 DEF SizeCatchesUp
  <2>18. NewNodes'
    <3>1. \A i \in 1..Len(linked') : i \in 1..l \/ i = l + 1
      BY <1>1, <2>5
    <3>2. \A i \in 1..Len(linked') : linked'[i] <= made'
      <4>1. e <= made
        BY <1>1, <2>4 DEF TypeOK, Nodes
      <4> QED  BY <1>1, <1>2, <2>5, <3>1, <4>1 DEF NewNodes
    <3>3. ASSUME NEW x \in Nodes, \A i \in 1..Len(linked') : linked'[i] # x
          PROVE  next'[x] = Nil
      <4>1. \A i \in 1..l : i \in 1..Len(linked')
        BY <1>1, <2>5
      <4>2. \A i \in 1..l : linked[i] # x
        BY <2>5, <3>3, <4>1
      <4> QED  BY <1>1, <2>3, <2>7, <4>2 DEF NewNodes
    <3>4. ASSUME NEW q \in HasNode'
          PROVE  /\ node'[q] \in 1..made'
                 /\ \A i \in 1..Len(linked') : linked'[i] # node'[q]
                 /\ \A r \in HasNode' : node'[q] = node'[r] => q = r
      <4>1. q \in HasNode /\ q # p /\ node' = node /\ made' = made
        BY <1>2, <2>14
      <4>2. node[q] # e
        BY <1>1, <2>4, <4>1 DEF NewNodes
      <4>3. \A i \in 1..l : linked[i] # node[q]
        BY <1>1, <4>1 DEF NewNodes
      <4>4. node[q] \in 1..made /\ \A r \in HasNode : node[q] = node[r] => q = r
        BY <1>1, <4>1 DEF NewNodes
      <4> HIDE DEF l, e
      <4> QED  BY <2>5, <2>14, <3>1, <4>1, <4>2, <4>3, <4>4
    <3> QED  BY <3>2, <3>3, <3>4 DEF NewNodes
  <2>19. NoLater(linked', head, head') /\ NoLater(linked', tail, tail')
    BY <1>1, <1>2, <2>1, <2>4, HeadTailOnChain, PlacesStay
  <2>20. EnqueueRegs(p)'
    <3>1. t'[p] = t[p] /\ node'[p] = e
      BY <1>2, <2>1 DEF regs
    <3>2. l \in 1..(Len(linked') - 1) /\ linked'[l] = t[p] /\ linked'[l + 1] = e
      BY <1>1, <2>3, <2>5
    <3>3. Follows(linked', t[p], e)
      BY <3>2 DEF Follows
    <3>4. NoLater(linked', t[p], tail)
      BY <1>1, <1>3, <2>1, <2>4, PlacesStay
    <3> HIDE DEF e
    <3> QED  BY <1>2, <2>8, <3>1, <3>3, <3>4 DEF EnqueueRegs
  <2> QED  BY <1>1, <2>1, <2>4, <2>10, <2>11, <2>12, <2>17, <2>18, <2>19, <2>20, OneSteps
<1> QED  BY <1>4, <1>5

LEMMA TakeStep ==
    ASSUME IInv, Watch, NEW p \in Consumers, Take(p)
    PROVE  IInv'
<1>1. TypeOK /\ OneChain /\ SizeCatchesUp /\ NewNodes /\ p \in Procs /\ p \notin Producers
      /\ linked \in Seq(Nodes) /\ Len(linked) \in Nat /\ taken \in Nat /\ Distinct(linked)
      /\ DequeueRegs(p) /\ \A i \in 1..Len(linked) : linked[i] \in Nodes
  BY Known DEF TypeOK
<1>2. pc[p] = "take" /\ UNCHANGED <<tail, next, size, node, made, linked>>
  BY DEF Take
<1>3. CASE ~MayTake(p)
  <2>1. Round(p, "head") /\ UNCHANGED <<head, taken, got>>
    BY <1>3 DEF Take
  <2>2. Moves(p, "head") /\ pc'[p] = "head"
    BY <1>1, <2>1, RoundMoves
  <2>3. MayBeAt(p, "head") /\ SameCount(p, "head")
    BY <1>1, <1>2 DEF MayBeAt, SameCount, DequeuePlaces
  <2>4. DequeueRegs(p)' /\ got' \in [Consumers -> Nodes \cup {Nil}]
    BY <1>1, <1>2, <2>1, <2>2 DEF DequeueRegs, TypeOK
  <2> QED  BY <1>1, <1>2, <2>1, <2>2, <2>3, <2>4, PrivateStep DEF list
<1>4. CASE MayTake(p)
  <2> DEFINE l == Len(linked)
  <2>1. head' = n[p] /\ taken' = taken + 1 /\ got' = [got EXCEPT ![p] = n[p]]
        /\ Round(p, "dequeued")
    BY <1>4 DEF Take
  <2>2. taken + 1 \in 1..l /\ head = linked[taken + 1]
    BY <1>1 DEF OneChain
  <2>3. h[p] = head /\ h[p] # t[p] /\ Follows(linked, h[p], n[p])
        /\ NoLater(linked, h[p], t[p]) /\ NoLater(linked, t[p], tail)
    BY <1>1, <1>2, <1>4 DEF DequeueRegs, MayTake
  <2>4. taken + 2 \in 1..l /\ n[p] = linked[taken + 2]
    <3>1. PICK i \in 1..(l - 1) : linked[i] = h[p] /\ linked[i + 1] = n[p]
      BY <2>3 DEF Follows
    <3>2. i \in 1..l
      BY <1>1, <3>1
    <3>3. i = taken + 1
      BY <1>1, <2>2, <2>3, <3>1, <3>2 DEF Distinct
    <3> QED  BY <1>1, <3>1, <3>3
  <2>5. \E i \in {l - 1, l} : i > taken + 1 /\ tail = linked[i]
    <3>1. PICK i \in {l - 1, l} : i > taken /\ tail = linked[i]
      BY <1>1 DEF OneChain
    <3>2. PICK a, b \in 1..l : linked[a] = h[p] /\ linked[b] = t[p] /\ a <= b
      BY <2>3 DEF NoLater
    <3>3. PICK c, d \in 1..l : linked[c] = t[p] /\ linked[d] = tail /\ c <= d
      BY <2>3 DEF NoLater
    <3>4. i \in 1..l
      BY <1>1, <3>1
    <3>5. a = taken + 1 /\ b = c /\ d = i /\ a # b
      BY <1>1, <2>2, <2>3, <3>1, <3>2, <3>3, <3>4 DEF Distinct
    <3> QED  BY <1>1, <3>1, <3>2, <3>3, <3>5
  <2>6. n[p] \in Nodes
    BY <1>1, <2>4
  <2>7. Moves(p, "dequeued") /\ pc'[p] = "dequeued" /\ pc' = [pc EXCEPT ![p] = "dequeued"]
    BY <1>1, <2>1, RoundMoves DEF Round, Goto
  <2>8. MayBeAt(p, "dequeued")
    BY <1>1 DEF MayBeAt, DequeuePlaces
  <2>9. TypeOK' /\ Others(p)
    BY <1>1, <1>2, <2>1, <2>6, <2>7, <2>8, MovesType, WatchType DEF TypeOK, Others
  <2>10. OneChain'
    <3>1. taken' < l /\ head' = linked[taken' + 1]
      BY <1>1, <2>1, <2>4
    <3> QED  BY <1>1, <1>2, <2>1, <2>5, <3>1 DEF OneChain
  <2>11. \A q \in Procs : pc'[q] = IF q = p THEN "dequeued" ELSE pc[q]
    BY <1>1, <2>7 DEF TypeOK
  <2>12. HasNode' = HasNode /\ Uncounted' = Uncounted
    BY <1>1, <2>11 DEF HasNode, Uncounted, Procs
  <2>13. Undiscounted' = Undiscounted \cup {p} /\ p \notin Undiscounted
    BY <1>1, <1>2, <2>11 DEF Undiscounted, Procs
  <2>14. Cardinality(Undiscounted') = Cardinality(Undiscounted) + 1
    BY <2>13, FiniteCounts, FS_AddElement
  <2>15. SizeCatchesUp'
    <3>1. Len(Queue) = l - taken - 1
      BY <1>1, <2>2, QueueLength DEF Queue
    <3>2. Len(Queue') = l - (taken + 1) - 1
      <4>1. taken' = taken + 1 /\ taken' \in Nat /\ taken' < l /\ linked' = linked
        BY <1>1, <1>2, <2>1, <2>4
      <4> QED  BY <1>1, <4>1, QueueLength DEF Queue
    <3>3. size = Len(Queue) - Cardinality(Uncounted) + Cardinality(Undiscounted)
      BY <1>1 DEF SizeCatchesUp
    <3>4. size' = Len(Queue') - Cardinality(Uncounted') + Cardinality(Undiscounted')
      BY <1>1, <1>2, <2>12, <2>14, <3>1, <3>2, <3>3, FiniteCounts
    <3> QED  BY <3>4 DEF SizeCatchesUp
  <2>16. NewNodes'
    BY <1>1, <1>2, <2>12 DEF NewNodes
  <2>17. NoLater(linked', head, head') /\ NoLater(linked', tail, tail')
    <3>1. NoLater(linked, tail, tail)
      BY <1>1, HeadTailOnChain
    <3>2. NoLater(linked, head, n[p])
      BY <1>1, <2>2, <2>4 DEF NoLater
    <3> QED  BY <1>2, <2>1, <3>1, <3>2
  <2>18. DequeueRegs(p)'
    BY <2>7 DEF DequeueRegs
  <2>19. Dummy \in Nodes /\ linked' \in {linked, Append(linked, Dummy)}
    BY Known, <1>2
  <2> QED  BY <1>1, <2>9, <2>10, <2>15, <2>16, <2>17, <2>18, <2>19, OneSteps
<1> QED  BY <1>3, <1>4

-----------------------------------------------------------------------------
(* The invariant *)

\* The list before any call: the dummy alone.
LEMMA InitHolds == Init => IInv
<1> SUFFICES ASSUME Init PROVE IInv
  OBVIOUS
<1>1. MaxTasks \in Nat /\ Dummy \in Nodes /\ Nil \notin Nodes
  BY QueueAssumption DEF Nodes, Dummy, Nil
<1>2. linked \in Seq(Nodes) /\ Len(linked) = 1 /\ linked[1] = Dummy /\ taken = 0
  BY <1>1 DEF Init
<1>3. \A p \in Procs : pc[p] = "idle"
  BY DEF Init
<1>4. Calling = {} /\ HasNode = {} /\ Uncounted = {} /\ Undiscounted = {}
  BY <1>3 DEF Calling, HasNode, Uncounted, Undiscounted, Procs
<1>5. TypeOK
  <2>1. 0 \in Nodes /\ \A p \in Procs : "idle" \in EnqueuePlaces \cap DequeuePlaces
    BY <1>1 DEF Dummy, EnqueuePlaces, DequeuePlaces
  <2> QED  BY <1>1, <1>2, <2>1 DEF Init, TypeOK, Procs
<1>6. OneChain
  BY <1>1, <1>2 DEF Init, OneChain
<1>7. SizeCatchesUp
  <2>1. Len(Queue) = 0
    BY <1>2, QueueLength DEF Queue
  <2>2. Cardinality({}) = 0
    BY FS_EmptySet
  <2> QED  BY <1>4, <2>1, <2>2 DEF SizeCatchesUp, Init
<1>8. NewNodes
  BY <1>1, <1>2, <1>4 DEF NewNodes, Init, Dummy
<1>9. SeenEmpty
  BY <1>4 DEF SeenEmpty, Init
<1>10. (\A p \in Producers : EnqueueRegs(p)) /\ (\A c \in Consumers : DequeueRegs(c))
  BY <1>3 DEF EnqueueRegs, DequeueRegs, Procs
<1> QED  BY <1>5, <1>6, <1>7, <1>8, <1>9, <1>10 DEF IInv

LEMMA StutterHolds == IInv /\ UNCHANGED vars => IInv'
<1> SUFFICES ASSUME IInv, UNCHANGED vars PROVE IInv'
  OBVIOUS
<1>1. TypeOK' /\ OneChain' /\ SizeCatchesUp'
  BY DEF vars, IInv, TypeOK, OneChain, SizeCatchesUp, Queue, Uncounted, Undiscounted
<1>2. NewNodes' /\ SeenEmpty'
  BY DEF vars, IInv, NewNodes, HasNode, SeenEmpty, Calling
<1>3. (\A p \in Producers : EnqueueRegs(p))' /\ (\A c \in Consumers : DequeueRegs(c))'
  BY DEF vars, IInv, EnqueueRegs, DequeueRegs
<1> QED  BY <1>1, <1>2, <1>3 DEF IInv

LEMMA NextHolds == IInv /\ Next => IInv'
<1> SUFFICES ASSUME IInv, Next PROVE IInv'
  OBVIOUS
<1>1. Watch
  BY DEF Next
<1>2. ASSUME NEW p \in Producers, EnqueueCall(p) \/ EnqueueStep(p) PROVE IInv'
  <2>1. p \in Procs
    BY DEF Procs
  <2> QED  BY <1>1, <1>2, <2>1, EnqueueCallStep, LoadTailStep, EnqueueLoadNextStep,
              EnqueueCheckStep, HelpStep, LinkStep, SwingStep, EnqueueReturnStep
           DEF EnqueueStep
<1>3. ASSUME NEW p \in Consumers, DequeueCall(p) \/ DequeueStep(p) PROVE IInv'
  <2>1. p \in Procs
    BY DEF Procs
  <2> QED  BY <1>1, <1>3, <2>1, DequeueCallStep, LoadHeadStep, LoadTailStep,
              DequeueLoadNextStep, DequeueCheckStep, HelpStep, TakeStep, DequeueReturnStep
           DEF DequeueStep
<1> QED  BY <1>2, <1>3 DEF Next

\* The inductive invariant of Enqueue and Dequeue holds, whatever the interleaving of
\* their loads and compare-and-swaps.
THEOREM IInvHolds == Spec => []IInv
<1>1. IInv /\ [Next]_vars => IInv'
  BY NextHolds, StutterHolds
<1> QED  BY <1>1, InitHolds, PTL DEF Spec

\* Every variable of LockFreeQueue keeps its type: no call follows nil.
THEOREM TypeCorrect == Spec => []TypeOK
<1>1. IInv => TypeOK
  BY DEF IInv
<1> QED  BY <1>1, IInvHolds, PTL

\* Enqueue and Dequeue keep the list one chain of distinct nodes with tail at most one
\* node behind its end and never behind head.
THEOREM ChainHolds == Spec => []OneChain
<1>1. IInv => OneChain
  BY DEF IInv
<1> QED  BY <1>1, IInvHolds, PTL

\* The size that Size answers is off by the calls yet to count and by nothing else.
THEOREM SizeHolds == Spec => []SizeCatchesUp
<1>1. IInv => SizeCatchesUp
  BY DEF IInv
<1> QED  BY <1>1, IInvHolds, PTL

-----------------------------------------------------------------------------
(* The queue of TaskQueue is the chain after head: a link appends to it, a take takes its
   first task, and nothing else touches it. *)

LEMMA QueueGrows ==
    ASSUME NEW s \in Seq(Nodes), NEW k \in Nat, k < Len(s), NEW e \in Nodes
    PROVE  SubSeq(Append(s, e), k + 2, Len(Append(s, e))) = Append(SubSeq(s, k + 2, Len(s)), e)
<1> DEFINE a == Append(s, e)
           u == SubSeq(s, k + 2, Len(s))
           v == SubSeq(a, k + 2, Len(a))
<1>1. /\ a \in Seq(Nodes) /\ Len(s) \in Nat /\ Len(a) = Len(s) + 1 /\ a[Len(s) + 1] = e
      /\ \A i \in 1..Len(s) : a[i] = s[i]
  BY AppendProperties, LenProperties
<1>2. /\ u \in Seq(Nodes) /\ Len(u) = Len(s) - k - 1
      /\ \A i \in 1..(Len(s) - k - 1) : u[i] = s[k + 1 + i]
  <2>1. \A i \in (k + 2)..Len(s) : s[i] \in Nodes
    BY <1>1, ElementOfSeq
  <2>2. /\ u \in Seq(Nodes) /\ Len(u) = IF k + 2 <= Len(s) THEN Len(s) - (k + 2) + 1 ELSE 0
        /\ \A i \in 1..(Len(s) - (k + 2) + 1) : u[i] = s[(k + 2) + i - 1]
    BY <1>1, <2>1, SubSeqProperties
  <2> HIDE DEF u, a, v
  <2>3. u \in Seq(Nodes) /\ Len(u) = Len(s) - k - 1
    BY <1>1, <2>2
  <2>4. ASSUME NEW i \in 1..(Len(s) - k - 1) PROVE u[i] = s[k + 1 + i]
    <3>1. i \in 1..(Len(s) - (k + 2) + 1) /\ (k + 2) + i - 1 = k + 1 + i
      BY <1>1
    <3> QED  BY <2>2, <3>1
  <2> QED  BY <2>3, <2>4
<1>3. /\ v \in Seq(Nodes) /\ Len(v) = Len(s) - k
      /\ \A i \in 1..(Len(s) - k) : v[i] = a[k + 1 + i]
  <2>1. \A i \in (k + 2)..Len(a) : a[i] \in Nodes
    BY <1>1, ElementOfSeq
  <2>2. k + 2 \in Int /\ Len(a) \in Int
    BY <1>1
  <2> HIDE DEF a
  <2>3. /\ v \in Seq(Nodes) /\ Len(v) = IF k + 2 <= Len(a) THEN Len(a) - (k + 2) + 1 ELSE 0
        /\ \A i \in 1..(Len(a) - (k + 2) + 1) : v[i] = a[(k + 2) + i - 1]
    BY <2>1, <2>2, SubSeqProperties
  <2> HIDE DEF u, v
  <2>4. v \in Seq(Nodes) /\ Len(v) = Len(s) - k
    BY <1>1, <2>3
  <2>5. ASSUME NEW i \in 1..(Len(s) - k) PROVE v[i] = a[k + 1 + i]
    <3>1. i \in 1..(Len(a) - (k + 2) + 1) /\ (k + 2) + i - 1 = k + 1 + i
      BY <1>1
    <3> QED  BY <2>3, <3>1
  <2> QED  BY <2>4, <2>5
<1> DEFINE b == Append(u, e)
<1>4. /\ b \in Seq(Nodes) /\ Len(b) = Len(s) - k /\ b[Len(s) - k] = e
      /\ \A i \in 1..(Len(s) - k - 1) : b[i] = u[i]
  <2> HIDE DEF u
  <2> QED  BY <1>1, <1>2, AppendProperties
<1> HIDE DEF a, u, v, b
<1>5. ASSUME NEW i \in 1..(Len(s) - k) PROVE v[i] = b[i]
  <2>1. i \in Int /\ Len(s) \in Int /\ v[i] = a[k + 1 + i]
    BY <1>1, <1>3
  <2>2. CASE i = Len(s) - k
    <3>1. k + 1 + i = Len(s) + 1
      BY <2>1, <2>2
    <3>2. a[k + 1 + i] = e
      BY <1>1, <3>1
    <3>3. b[i] = e
      BY <1>4, <2>2
    <3> QED  BY <2>1, <3>2, <3>3
  <2>3. CASE i # Len(s) - k
    <3>1. i \in 1..(Len(s) - k - 1) /\ k + 1 + i \in 1..Len(s)
      BY <2>1, <2>3
    <3>2. b[i] = s[k + 1 + i]
      BY <1>2, <1>4, <3>1
    <3>3. a[k + 1 + i] = s[k + 1 + i]
      BY <1>1, <3>1
    <3> QED  BY <2>1, <3>2, <3>3
  <2> QED  BY <2>2, <2>3
<1>6. v = b
  BY <1>3, <1>4, <1>5, SeqEqual
<1> QED  BY <1>6 DEF a, u, v, b

\* A step that neither links, takes, calls nor answers is no step of TaskQueue.
LEMMA Quiet ==
    ASSUME IInv, Watch, UNCHANGED <<linked, taken, got>>, Calling' = Calling
    PROVE  UNCHANGED Abstract!vars
<1>1. Queue' = Queue
  BY DEF Queue
<1>2. SeenEmpty /\ (Queue = <<>> <=> taken + 1 = Len(linked))
  BY Known, QueueLength DEF Queue, OneChain, TypeOK
<1>3. sawEmpty' = sawEmpty
  BY <1>1, <1>2 DEF Watch, SeenEmpty
<1> QED  BY <1>1, <1>3 DEF Abstract!vars

\* Who is in a call changes by the goroutine that steps only.
CallPlaces == {"head", "tail", "next", "check", "help", "take"}
LEMMA CallingChanges ==
    ASSUME TypeOK, NEW p \in Procs, NEW w, pc' = [pc EXCEPT ![p] = w]
    PROVE  /\ p \in Producers => Calling' = Calling
           /\ p \in Consumers /\ w \in CallPlaces => Calling' = Calling \cup {p}
           /\ p \in Consumers /\ w \notin CallPlaces => Calling' = Calling \ {p}
           /\ p \in Consumers => (p \in Calling <=> pc[p] \in CallPlaces)
<1>1. \A q \in Procs : pc'[q] = IF q = p THEN w ELSE pc[q]
  BY DEF TypeOK
<1>2. Calling = {c \in Consumers : pc[c] \in CallPlaces}
      /\ Calling' = {c \in Consumers : pc'[c] \in CallPlaces}
  BY DEF Calling, CallPlaces
<1>3. Consumers \subseteq Procs /\ Producers \cap Consumers = {}
  BY QueueAssumption DEF Procs
<1> QED  BY <1>1, <1>2, <1>3

LEMMA EnqueueRefines ==
    ASSUME IInv, Watch, NEW p \in Producers, EnqueueCall(p) \/ EnqueueStep(p)
    PROVE  [Abstract!Next]_(Abstract!vars)
<1>1. TypeOK /\ p \in Procs /\ OneChain /\ NewNodes /\ linked \in Seq(Nodes)
  BY Known
<1>2. Calling' = Calling
  <2>1. \E w : pc' = [pc EXCEPT ![p] = w]
    BY <1>1 DEF EnqueueCall, EnqueueStep, LoadTail, EnqueueLoadNext, EnqueueCheck, Help, Link,
                Swing, EnqueueReturn, Round, Goto
  <2> QED  BY <1>1, <2>1, CallingChanges
<1>3. CASE Link(p) /\ MayLink(p)
  <2>1. pc[p] = "link" /\ linked' = Append(linked, node[p]) /\ UNCHANGED <<taken, got, made>>
    BY <1>3 DEF Link
  <2>2. node[p] \in 1..made /\ made \in 0..MaxTasks
    BY <1>1, <2>1 DEF HasNode, NewNodes, TypeOK, Nodes
  <2>3. node[p] \in Tasks /\ node[p] \in Nodes
    BY <2>2, QueueAssumption DEF Tasks, Nodes
  <2>4. taken \in Nat /\ taken < Len(linked)
    BY <1>1 DEF TypeOK, OneChain
  <2>5. Queue' = Append(Queue, node[p])
    BY <1>1, <2>1, <2>3, <2>4, QueueGrows DEF Queue
  <2>6. Abstract!Enqueue(node[p])
    BY <1>2, <2>1, <2>5 DEF Abstract!Enqueue
  <2>7. Abstract!Watch
    BY DEF Watch, Abstract!Watch
  <2> QED  BY <2>3, <2>6, <2>7 DEF Abstract!Next
<1>4. CASE ~(Link(p) /\ MayLink(p))
  <2>1. UNCHANGED <<linked, taken, got>>
    BY <1>4 DEF EnqueueCall, EnqueueStep, LoadTail, EnqueueLoadNext, EnqueueCheck, Help, Link,
                Swing, EnqueueReturn
  <2> QED  BY <1>2, <2>1, Quiet
<1> QED  BY <1>3, <1>4

LEMMA DequeueRefines ==
    ASSUME IInv, Watch, NEW p \in Consumers, DequeueCall(p) \/ DequeueStep(p)
    PROVE  [Abstract!Next]_(Abstract!vars)
<1>1. TypeOK /\ p \in Procs /\ p \notin Producers /\ OneChain /\ DequeueRegs(p)
      /\ linked \in Seq(Nodes) /\ Len(linked) \in Nat /\ taken \in Nat /\ Distinct(linked)
  BY Known DEF TypeOK
<1>2. Abstract!Watch
  BY DEF Watch, Abstract!Watch
<1>3. CASE DequeueCall(p)
  <2>1. pc[p] = "idle" /\ pc' = [pc EXCEPT ![p] = "head"] /\ UNCHANGED <<linked, taken, got>>
    BY <1>3 DEF DequeueCall, Goto
  <2>2. Calling' = Calling \cup {p} /\ p \notin Calling
    BY <1>1, <2>1, CallingChanges DEF CallPlaces
  <2>3. Abstract!Call(p)
    BY <2>1, <2>2 DEF Abstract!Call, Queue
  <2> QED  BY <1>2, <2>3 DEF Abstract!Next
<1>4. CASE DequeueCheck(p) /\ head = h[p] /\ AtEnd(p)
  <2>1. CASE Round(p, "idle")
    <3>1. pc[p] = "check" /\ pc' = [pc EXCEPT ![p] = "idle"] /\ UNCHANGED <<linked, taken>>
      BY <1>4, <2>1 DEF DequeueCheck, Round, Goto
    <3>2. got' = [got EXCEPT ![p] = Nil]
      BY <1>4 DEF DequeueCheck
    <3>3. Calling' = Calling \ {p} /\ p \in Calling
      <4>1. "check" \in CallPlaces /\ "idle" \notin CallPlaces
        BY DEF CallPlaces
      <4>2. p \in Calling
        BY <3>1 DEF Calling
      <4>3. Calling' = Calling \ {p}
        BY <1>1, <3>1, <4>1, CallingChanges
      <4> QED  BY <4>2, <4>3
    <3>4. p \in sawEmpty
      <4>1. ~Follows(linked, h[p], Nil)
        BY OnChain, Known
      <4> QED  BY <1>1, <1>4, <3>1, <4>1 DEF DequeueRegs, AtEnd
    <3>5. Abstract!AnswerNil(p)
      BY <3>1, <3>2, <3>3, <3>4 DEF Abstract!AnswerNil, Queue
    <3> QED  BY <1>2, <3>5 DEF Abstract!Next
  <2> QED  BY <1>4, <2>1 DEF DequeueCheck
<1>5. CASE Take(p) /\ MayTake(p)
  <2>1. pc[p] = "take" /\ pc' = [pc EXCEPT ![p] = "dequeued"] /\ UNCHANGED linked
        /\ taken' = taken + 1 /\ got' = [got EXCEPT ![p] = n[p]]
    BY <1>5 DEF Take, Round, Goto
  <2>2. Calling' = Calling \ {p} /\ p \in Calling
    <3>1. "take" \in CallPlaces /\ "dequeued" \notin CallPlaces
      BY DEF CallPlaces
    <3>2. p \in Calling
      BY <2>1 DEF Calling
    <3>3. Calling' = Calling \ {p}
      BY <1>1, <2>1, <3>1, CallingChanges
    <3> QED  BY <3>2, <3>3
  <2>3. taken + 2 \in 1..Len(linked) /\ n[p] = linked[taken + 2]
    <3>1. taken + 1 \in 1..Len(linked) /\ h[p] = linked[taken + 1]
      BY <1>1, <1>5 DEF OneChain, MayTake
    <3>2. PICK i \in 1..(Len(linked) - 1) : linked[i] = h[p] /\ linked[i + 1] = n[p]
      BY <1>1, <2>1 DEF DequeueRegs, Follows
    <3>3. i = taken + 1
      BY <1>1, <3>1, <3>2 DEF Distinct
    <3> QED  BY <1>1, <3>2, <3>3
  <2>4. Queue # <<>>
    <3>1. taken < Len(linked) /\ taken + 1 # Len(linked)
      BY <1>1, <2>3
    <3> QED  BY <1>1, <3>1, QueueLength DEF Queue
  <2>5. Head(Queue) = n[p] /\ Tail(Queue) = Queue'
    <3>1. Len(linked) \in (taken + 2)..Len(linked)
      BY <1>1, <2>3
    <3>2. Head(Queue) = linked[taken + 2]
          /\ Tail(Queue) = SubSeq(linked, (taken + 2) + 1, Len(linked))
      BY <1>1, <2>3, <3>1, HeadTailOfSubSeq DEF Queue
    <3>3. (taken + 2) + 1 = taken' + 2
      BY <1>1, <2>1
    <3> QED  BY <2>1, <2>3, <3>2, <3>3 DEF Queue
  <2>6. Abstract!Dequeue(p)
    BY <2>1, <2>2, <2>4, <2>5 DEF Abstract!Dequeue
  <2> QED  BY <1>2, <2>6 DEF Abstract!Next
<1>6. CASE /\ DequeueStep(p)
           /\ ~(DequeueCheck(p) /\ head = h[p] /\ AtEnd(p))
           /\ ~(Take(p) /\ MayTake(p))
  <2>1. UNCHANGED <<linked, taken, got>>
    BY <1>6 DEF DequeueStep, LoadHead, LoadTail, DequeueLoadNext, DequeueCheck, Help, Take,
                DequeueReturn
  <2>2. Calling' = Calling
    <3>1. CASE DequeueReturn(p)
      <4>1. pc[p] = "dequeued" /\ pc' = [pc EXCEPT ![p] = "idle"]
        BY <3>1 DEF DequeueReturn, Goto
      <4>2. "dequeued" \notin CallPlaces /\ "idle" \notin CallPlaces
        BY DEF CallPlaces
      <4> QED  BY <1>1, <4>1, <4>2, CallingChanges
    <3>2. CASE ~DequeueReturn(p)
      <4>1. \E w \in CallPlaces : pc' = [pc EXCEPT ![p] = w]
        BY <1>1, <1>6, <3>2
           DEF DequeueStep, LoadHead, LoadTail, DequeueLoadNext, DequeueCheck, Help, Take,
               Round, Goto, CallPlaces
      <4>2. pc[p] \in CallPlaces
        BY <1>6, <3>2
           DEF DequeueStep, LoadHead, LoadTail, DequeueLoadNext, DequeueCheck, Help, Take,
               CallPlaces
      <4> QED  BY <1>1, <4>1, <4>2, CallingChanges
    <3> QED  BY <3>1, <3>2
  <2> QED  BY <2>1, <2>2, Quiet
<1> QED  BY <1>3, <1>4, <1>5, <1>6

\* Enqueue and Dequeue are those of a FIFO queue: each task comes out once, in the order of
\* the links, and nil is answered only for a queue that was empty during the call.
THEOREM Implements == Spec => ImplementsTaskQueue
<1>1. Init => Abstract!Init
  <2> SUFFICES ASSUME Init PROVE Abstract!Init
    OBVIOUS
  <2>1. Queue = <<>>
    <3>1. linked \in Seq(Nodes) /\ Len(linked) = 1 /\ taken = 0
      BY QueueAssumption DEF Init, Nodes, Dummy
    <3> QED  BY <3>1, QueueLength DEF Queue
  <2>2. Calling = {}
    BY DEF Calling, Init, Procs
  <2> QED  BY <2>1, <2>2 DEF Init, Abstract!Init
<1>2. IInv /\ [Next]_vars => [Abstract!Next]_(Abstract!vars)
  <2> SUFFICES ASSUME IInv, [Next]_vars PROVE [Abstract!Next]_(Abstract!vars)
    OBVIOUS
  <2>1. CASE Next
    BY <2>1, EnqueueRefines, DequeueRefines DEF Next
  <2>2. CASE UNCHANGED vars
    BY <2>2 DEF vars, Abstract!vars, Queue, Calling
  <2> QED  BY <2>1, <2>2
<1> QED  BY <1>1, <1>2, IInvHolds, PTL DEF Spec, ImplementsTaskQueue, Abstract!Spec
=============================================================================
