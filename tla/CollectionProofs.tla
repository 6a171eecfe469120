-------------------------- MODULE CollectionProofs --------------------------
(***************************************************************************)
(* Proofs about Collection for every number of callers, documents and ids: *)
(* an inserted document stays until somebody deletes its id, the metadata  *)
(* catch up with the count, and a collection called by one goroutine at a  *)
(* time keeps count, indexes and constraints in step with its documents.   *)
(***************************************************************************)
EXTENDS Collection, FiniteSetTheorems, TLAPS

Ops == {"none", "insert", "delete", "permanent", "restore", "create", "dropIndex", "add",
        "remove", "drop"}
Places == {"none", "check", "unique", "store", "index", "count", "meta", "load", "lock",
           "mark", "unindex", "remove", "reindex", "start", "build", "publish", "unlock",
           "create"}
Data == [Keys -> Ids \cup {None}]
Call == [op : Ops, at : Places, id : Ids \cup {None}, obj : Objects \cup {None},
         name : Indexes \cup Maps \cup {None}, field : Fields \cup {None},
         copy : {None} \cup Data \cup SUBSET Fields]

Types ==
    /\ soft \in BOOLEAN /\ auto \in BOOLEAN /\ dead \in BOOLEAN /\ overlapped \in BOOLEAN
    /\ docs \in [Ids -> Objects \cup {None}] /\ deleted \subseteq Objects
    /\ index \in [Indexes -> [built : BOOLEAN, data : Data]]
    /\ docCount \in Int /\ metaCount \in Int
    /\ mu \in Callers \cup {None} /\ indexMu \in Callers \cup {None}
    /\ map \in [Maps -> SUBSET Fields] /\ applied \in [Maps -> SUBSET Fields]
    /\ call \in [Callers -> Call]
    /\ inserted \subseteq Objects /\ touched \subseteq Ids

OnId == {"delete", "permanent", "restore"}

\* What a call was asked and has found so far.  An id is touched when its call begins; an
\* Insert that has stored finds its document there unless the id was touched since.
Asked(r) ==
    /\ r.op = "insert" => r.obj \in Objects
    /\ r.op = "insert" /\ r.at \in {"index", "count", "meta"} /\ IdOf[r.obj] \notin touched
         => docs[IdOf[r.obj]] = r.obj
    /\ r.op \in OnId => r.id \in touched
    /\ r.op \in OnId /\ r.at # "load" => r.obj \in Objects /\ IdOf[r.obj] = r.id
    /\ r.op \in {"create", "dropIndex"} => r.name \in Indexes
    /\ r.op = "create" /\ r.at = "publish" => r.copy \in Data
    /\ r.op \in {"add", "remove"} =>
         r.name \in Maps /\ r.field \in Fields /\ r.copy \in SUBSET Fields
    /\ r.op = "drop" => touched = Ids

\* A document lies under its own id.
Homes == \A i \in Ids : docs[i] # None => IdOf[docs[i]] = i

\* Whoever changes docCount without the metadata comes to the metadata after it.
Metadata == dead \/ metaCount = docCount \/ \E c \in Callers : call[c].at = "meta"

\* The inductive invariant for any number of calls at once.
IInv ==
    /\ Types /\ (\A c \in Callers : Asked(call[c]))
    /\ Homes /\ InsertedStays /\ Metadata

-----------------------------------------------------------------------------
(* What a step does to the calls *)

LEMMA IdleIsACall == Idle \in Call
BY DEF Idle, Call, Ops, Places

LEMMA GotoIs ==
    ASSUME call \in [Callers -> Call], NEW c \in Callers, NEW at \in Places, Goto(c, at)
    PROVE  /\ call' \in [Callers -> Call]
           /\ call'[c] = [call[c] EXCEPT !.at = at]
           /\ \A d \in Callers : d # c => call'[d] = call[d]
BY DEF Goto, Call

LEMMA SetIs ==
    ASSUME call \in [Callers -> Call], NEW c \in Callers, NEW r \in Call,
           call' = [call EXCEPT ![c] = r]
    PROVE  /\ call' \in [Callers -> Call]
           /\ call'[c] = r
           /\ \A d \in Callers : d # c => call'[d] = call[d]
OBVIOUS

LEMMA ReturnIs ==
    ASSUME call \in [Callers -> Call], NEW c \in Callers, Return(c)
    PROVE  /\ call' \in [Callers -> Call]
           /\ call'[c] = Idle
           /\ \A d \in Callers : d # c => call'[d] = call[d]
BY IdleIsACall, SetIs DEF Return

LEMMA IdleAsksNothing == Asked(Idle) /\ Asked(Idle)'
BY DEF Asked, Idle, OnId

-----------------------------------------------------------------------------
(* What a step leaves to the others *)

\* No step takes a document from an id that no call was asked to delete.
Careful ==
    /\ touched \subseteq touched' /\ touched' \subseteq Ids
    /\ \A i \in Ids : i \notin touched' /\ docs[i] # None => docs'[i] = docs[i]

LEMMA AskedStays ==
    ASSUME Types, Careful, NEW r \in Call, Asked(r)
    PROVE  Asked(r)'
<1>1. r.op = "insert" /\ r.at \in {"index", "count", "meta"} /\ IdOf[r.obj] \notin touched'
        => docs'[IdOf[r.obj]] = r.obj
  <2> SUFFICES ASSUME r.op = "insert", r.at \in {"index", "count", "meta"},
                      IdOf[r.obj] \notin touched'
               PROVE  docs'[IdOf[r.obj]] = r.obj
    OBVIOUS
  <2>1. r.obj \in Objects /\ docs[IdOf[r.obj]] = r.obj
    BY DEF Asked, Careful
  <2> QED  BY <2>1, CollectionAssumption DEF Careful
<1>2. r.op = "drop" => touched' = Ids
  BY DEF Asked, Careful
<1>3. r.op \in OnId => r.id \in touched'
  BY DEF Asked, Careful
<1> QED  BY <1>1, <1>2, <1>3 DEF Asked

LEMMA InsertedStay ==
    ASSUME Types, Careful, InsertedStays, inserted' = inserted
    PROVE  InsertedStays'
<1> SUFFICES ASSUME NEW o \in inserted, IdOf[o] \notin touched'
             PROVE  docs'[IdOf[o]] = o
  BY DEF InsertedStays
<1>1. o \in Objects /\ docs[IdOf[o]] = o
  BY DEF InsertedStays, Types, Careful
<1> QED  BY <1>1, CollectionAssumption DEF Careful

\* The step of c that makes its call r: what is left to show of it.
LEMMA StepOfOne ==
    ASSUME IInv, Careful, NEW c \in Callers, Types', Homes', InsertedStays',
           \A d \in Callers : d # c => call'[d] = call[d],
           Asked(call[c])',
           \/ dead' \/ metaCount' = docCount' \/ call'[c].at = "meta"
           \/ metaCount' = metaCount /\ docCount' = docCount /\ dead' = dead
                /\ call[c].at # "meta"
    PROVE  IInv'
<1>1. ASSUME NEW d \in Callers PROVE Asked(call[d])'
  <2>1. CASE d = c
    BY <2>1
  <2>2. CASE d # c
    <3>1. PICK r \in Call : r = call[d]
      BY DEF IInv, Types
    <3>2. Asked(r)'
      BY <3>1, AskedStays DEF IInv
    <3> QED  BY <2>2, <3>1, <3>2
  <2> QED  BY <2>1, <2>2
<1>2. Metadata'
  <2>1. CASE metaCount' = metaCount /\ docCount' = docCount /\ dead' = dead
              /\ call[c].at # "meta"
    <3>1. \A d \in Callers : call[d].at = "meta" => call'[d].at = "meta"
      BY <2>1
    <3> QED  BY <2>1, <3>1 DEF IInv, Metadata
  <2>2. CASE dead' \/ metaCount' = docCount' \/ call'[c].at = "meta"
    BY <2>2 DEF Metadata
  <2> QED  BY <2>1, <2>2
<1> QED  BY <1>1, <1>2 DEF IInv

-----------------------------------------------------------------------------
(* The calls begin *)

LEMMA BeginKeeps ==
    ASSUME IInv, NEW c \in Callers, NEW r \in Call, Begin(c, r),
           touched \subseteq touched', touched' \subseteq Ids, Asked(r)'
    PROVE  IInv'
<1>1. /\ call[c] = Idle /\ call' = [call EXCEPT ![c] = r]
      /\ UNCHANGED <<soft, auto, docs, deleted, index, docCount, metaCount, mu, indexMu, map,
                     dead, inserted, applied>>
      /\ overlapped' \in BOOLEAN
  BY DEF Begin, settings, data, locks, IInv, Types
<1>2. /\ call' \in [Callers -> Call] /\ call'[c] = r
      /\ \A d \in Callers : d # c => call'[d] = call[d]
  BY <1>1, SetIs DEF IInv, Types
<1>3. Careful
  BY <1>1 DEF Careful
<1>4. Types'
  BY <1>1, <1>2 DEF IInv, Types
<1>5. Homes' /\ InsertedStays'
  BY <1>1, <1>3, InsertedStay DEF IInv, Homes
<1>6. call[c].at # "meta"
  BY <1>1 DEF Idle
<1> QED  BY <1>1, <1>2, <1>3, <1>4, <1>5, <1>6, StepOfOne

LEMMA StartKeeps ==
    ASSUME IInv, NEW c \in Callers, Start(c)
    PROVE  IInv'
<1>0. touched \subseteq Ids
  BY DEF IInv, Types
<1>1. CASE BeginInsert(c)
  <2>1. PICK o \in Objects : Begin(c, [Idle EXCEPT !.op = "insert", !.at = "check", !.obj = o])
    BY <1>1 DEF BeginInsert
  <2>2. touched' = touched
    BY <1>1 DEF BeginInsert
  <2> DEFINE r == [Idle EXCEPT !.op = "insert", !.at = "check", !.obj = o]
  <2>3. r \in Call /\ Asked(r)'
    BY DEF Idle, Call, Ops, Places, Asked, OnId
  <2> QED  BY <1>0, <2>1, <2>2, <2>3, BeginKeeps
<1>2. CASE BeginOnId(c)
  <2>1. PICK i \in Ids, op \in {"delete", "permanent", "restore"} :
          /\ Begin(c, [Idle EXCEPT !.op = op, !.at = "load", !.id = i])
          /\ touched' = touched \cup {i}
    BY <1>2 DEF BeginOnId
  <2> DEFINE r == [Idle EXCEPT !.op = op, !.at = "load", !.id = i]
  <2>2. r \in Call /\ Asked(r)'
    BY <2>1 DEF Idle, Call, Ops, Places, Asked, OnId
  <2> QED  BY <1>0, <2>1, <2>2, BeginKeeps
<1>3. CASE BeginOnIndex(c)
  <2>1. PICK n \in Indexes, op \in {"create", "dropIndex"} :
          Begin(c, [Idle EXCEPT !.op = op, !.at = "start", !.name = n])
    BY <1>3 DEF BeginOnIndex
  <2>2. touched' = touched
    BY <1>3 DEF BeginOnIndex
  <2> DEFINE r == [Idle EXCEPT !.op = op, !.at = "start", !.name = n]
  <2>3. r \in Call /\ Asked(r)'
    BY DEF Idle, Call, Ops, Places, Asked, OnId
  <2> QED  BY <1>0, <2>1, <2>2, <2>3, BeginKeeps
<1>4. CASE BeginOnMap(c)
  <2>1. PICK m \in Maps, f \in Fields, add \in BOOLEAN :
          Begin(c, [Idle EXCEPT !.op = IF add THEN "add" ELSE "remove", !.at = "store",
                         !.name = m, !.field = f,
                         !.copy = IF add THEN map[m] \cup {f} ELSE map[m] \ {f}])
    BY <1>4 DEF BeginOnMap
  <2>2. touched' = touched
    BY <1>4 DEF BeginOnMap
  <2>3. PICK op \in {"add", "remove"}, new \in SUBSET Fields :
          Begin(c, [Idle EXCEPT !.op = op, !.at = "store", !.name = m, !.field = f,
                         !.copy = new])
    BY <2>1 DEF IInv, Types
  <2> DEFINE r == [Idle EXCEPT !.op = op, !.at = "store", !.name = m, !.field = f,
                         !.copy = new]
  <2>4. r \in Call /\ Asked(r)'
    BY DEF Idle, Call, Ops, Places, Asked, OnId
  <2> QED  BY <1>0, <2>2, <2>3, <2>4, BeginKeeps
<1>5. CASE BeginDrop(c)
  <2>1. Begin(c, [Idle EXCEPT !.op = "drop", !.at = "lock"]) /\ touched' = Ids
    BY <1>5 DEF BeginDrop
  <2> DEFINE r == [Idle EXCEPT !.op = "drop", !.at = "lock"]
  <2>2. r \in Call /\ Asked(r)'
    BY <2>1 DEF Idle, Call, Ops, Places, Asked, OnId
  <2> QED  BY <1>0, <2>1, <2>2, BeginKeeps
<1> QED  BY <1>1, <1>2, <1>3, <1>4, <1>5 DEF Start

-----------------------------------------------------------------------------
(* Steps that change nothing but the call, the locks and the indexes *)

\* The frame of a step that leaves documents, counts and history alone.
Quietly ==
    UNCHANGED <<soft, auto, docs, deleted, docCount, metaCount, map, dead, overlapped,
                inserted, touched, applied>>

LEMMA QuietKeeps ==
    ASSUME IInv, NEW c \in Callers, Quietly,
           index' \in [Indexes -> [built : BOOLEAN, data : Data]],
           mu' \in Callers \cup {None}, indexMu' \in Callers \cup {None},
           call[c].at # "meta",
           call' \in [Callers -> Call], \A d \in Callers : d # c => call'[d] = call[d],
           Asked(call[c])'
    PROVE  IInv'
<1>1. Careful
  BY DEF Quietly, Careful, IInv, Types
<1>2. Types'
  BY DEF Quietly, IInv, Types
<1>3. Homes' /\ InsertedStays'
  BY <1>1, InsertedStay DEF Quietly, IInv, Homes
<1>4. metaCount' = metaCount /\ docCount' = docCount /\ dead' = dead
  BY DEF Quietly
<1> QED  BY <1>1, <1>2, <1>3, <1>4, StepOfOne

\* What a step to another place of the same call has to show.
LEMMA GotoQuietly ==
    ASSUME IInv, NEW c \in Callers, Quietly, NEW at \in Places, Goto(c, at),
           index' \in [Indexes -> [built : BOOLEAN, data : Data]],
           mu' \in Callers \cup {None}, indexMu' \in Callers \cup {None},
           call[c].at # "meta",
           call[c].op = "insert" => at \in {"unique", "store"} \/ call[c].at = "index",
           call[c].op \in OnId => call[c].at # "load",
           call[c].op = "create" => at # "publish"
    PROVE  IInv'
<1>1. /\ call' \in [Callers -> Call]
      /\ call'[c] = [call[c] EXCEPT !.at = at]
      /\ \A d \in Callers : d # c => call'[d] = call[d]
  BY GotoIs DEF IInv, Types
<1>2. Asked(call[c])
  BY DEF IInv
<1>3. call[c] \in Call
  BY DEF IInv, Types
<1>4. touched' = touched /\ docs' = docs
  BY DEF Quietly
<1>5. Asked(call[c])'
  BY <1>1, <1>2, <1>3, <1>4 DEF Asked, Call
<1> QED  BY <1>1, <1>5, QuietKeeps

LEMMA ReturnQuietly ==
    ASSUME IInv, NEW c \in Callers, Quietly, Return(c), call[c].at # "meta",
           index' \in [Indexes -> [built : BOOLEAN, data : Data]],
           mu' \in Callers \cup {None}, indexMu' \in Callers \cup {None}
    PROVE  IInv'
<1>1. /\ call' \in [Callers -> Call]
      /\ call'[c] = Idle
      /\ \A d \in Callers : d # c => call'[d] = call[d]
  BY ReturnIs DEF IInv, Types
<1> QED  BY <1>1, IdleAsksNothing, QuietKeeps DEF Asked

\* The indexes after addToIndexes and after a removal from them are still indexes.
LEMMA IndexTypes ==
    ASSUME Types, NEW o \in Objects
    PROVE  /\ WithKey(o) \in [Indexes -> [built : BOOLEAN, data : Data]]
           /\ WithoutKey(o) \in [Indexes -> [built : BOOLEAN, data : Data]]
<1>1. IdOf[o] \in Ids /\ KeyOf[o] \in Keys
  BY CollectionAssumption
<1>2. ASSUME NEW n \in Indexes, NEW x \in Ids \cup {None}
      PROVE  /\ [index[n] EXCEPT !.data[KeyOf[o]] = x] \in [built : BOOLEAN, data : Data]
             /\ index[n] \in [built : BOOLEAN, data : Data]
  BY <1>1 DEF Types, Data
<1> QED  BY <1>1, <1>2 DEF WithKey, WithoutKey

LEMMA OverType ==
    ASSUME NEW S \in SUBSET Objects
    PROVE  Over(S) \in Data
<1> SUFFICES ASSUME NEW k \in Keys, \E o \in S : KeyOf[o] = k
             PROVE  IdOf[CHOOSE o \in S : KeyOf[o] = k] \in Ids
  BY DEF Over, Data
<1>1. (CHOOSE o \in S : KeyOf[o] = k) \in S
  OBVIOUS
<1> QED  BY <1>1, CollectionAssumption

LEMMA NoIndexType == NoIndex \in [built : BOOLEAN, data : Data]
BY DEF NoIndex, Data

LEMMA StoredTypes ==
    ASSUME Types
    PROVE  /\ Stored \subseteq Objects /\ IsFiniteSet(Stored)
           /\ \A o : o \in Stored <=> o # None /\ \E i \in Ids : docs[i] = o
<1>1. \A o : o \in Stored <=> o # None /\ \E i \in Ids : docs[i] = o
  BY DEF Stored
<1>2. Stored \subseteq Objects
  BY <1>1 DEF Types
<1> QED  BY <1>1, <1>2, FS_Subset, CollectionAssumption

LEMMA InsertReads ==
    ASSUME IInv, NEW c \in Callers, InsertCheck(c) \/ InsertUnique(c)
    PROVE  IInv'
<1>1. Quietly /\ index' = index /\ mu' = mu /\ indexMu' = indexMu
  BY DEF InsertCheck, InsertUnique, Quietly, settings, data, locks, history
<1>2. /\ index' \in [Indexes -> [built : BOOLEAN, data : Data]]
      /\ mu' \in Callers \cup {None} /\ indexMu' \in Callers \cup {None}
  BY <1>1 DEF IInv, Types
<1>3. call[c].at \in {"check", "unique"} /\ call[c].op = "insert"
  BY DEF InsertCheck, InsertUnique, Run
<1>4. Return(c) \/ Goto(c, "unique") \/ Goto(c, "store")
  BY DEF InsertCheck, InsertUnique
<1>5. CASE Return(c)
  BY <1>1, <1>2, <1>3, <1>5, ReturnQuietly
<1>6. ASSUME NEW at \in {"unique", "store"}, Goto(c, at) PROVE IInv'
  <2>1. at \in Places
    BY DEF Places
  <2> QED  BY <1>1, <1>2, <1>3, <1>6, <2>1, GotoQuietly DEF OnId
<1> QED  BY <1>4, <1>5, <1>6

LEMMA InsertStoreKeeps ==
    ASSUME IInv, NEW c \in Callers, InsertStore(c)
    PROVE  IInv'
<1> DEFINE o == call[c].obj
<1>1. /\ o \in Objects /\ IdOf[o] \in Ids /\ o # None
      /\ call[c].op = "insert" /\ call[c].at = "store"
  BY CollectionAssumption DEF IInv, Asked, InsertStore, Run
<1>2. CASE ~MayStore(o)
  <2>1. /\ Quietly /\ index' = index /\ mu' = mu /\ indexMu' = indexMu /\ Return(c)
    BY <1>2 DEF InsertStore, Quietly, settings, locks, history
  <2> QED  BY <1>1, <2>1, ReturnQuietly DEF IInv, Types
<1>3. CASE MayStore(o)
  <2>1. /\ docs' = [docs EXCEPT ![IdOf[o]] = o] /\ deleted' = deleted \ {o}
        /\ Goto(c, "index") /\ docs[IdOf[o]] = None
        /\ UNCHANGED <<soft, auto, index, docCount, metaCount, mu, indexMu, map, dead,
                       inserted, touched, applied, overlapped>>
    BY <1>3 DEF InsertStore, MayStore, settings, locks, history
  <2>2. /\ call' \in [Callers -> Call]
        /\ call'[c] = [call[c] EXCEPT !.at = "index"]
        /\ \A d \in Callers : d # c => call'[d] = call[d]
    <3>1. "index" \in Places
      BY DEF Places
    <3> QED  BY <2>1, <3>1, GotoIs DEF IInv, Types
  <2>3. /\ docs' \in [Ids -> Objects \cup {None}] /\ docs'[IdOf[o]] = o
        /\ \A i \in Ids : i # IdOf[o] => docs'[i] = docs[i]
    BY <1>1, <2>1 DEF IInv, Types
  <2>4. Types'
    BY <2>1, <2>2, <2>3 DEF IInv, Types
  <2>5. Careful
    BY <2>1, <2>3 DEF Careful, IInv, Types
  <2>6. Homes'
    BY <1>1, <2>3 DEF IInv, Homes
  <2>7. InsertedStays'
    BY <2>1, <2>5, InsertedStay DEF IInv
  <2>8. Asked(call[c])'
    <3>1. call[c] \in Call
      BY DEF IInv, Types
    <3>2. call'[c].op = "insert" /\ call'[c].obj = o
      BY <1>1, <2>2, <3>1 DEF Call
    <3> QED  BY <1>1, <2>3, <3>2 DEF Asked, OnId
  <2> QED  BY <1>1, <2>1, <2>2, <2>4, <2>5, <2>6, <2>7, <2>8, StepOfOne
<1> QED  BY <1>2, <1>3

LEMMA InsertIndexKeeps ==
    ASSUME IInv, NEW c \in Callers, InsertIndex(c)
    PROVE  IInv'
<1>1. /\ Quietly /\ index' = WithKey(call[c].obj) /\ mu' = mu /\ indexMu' = indexMu
      /\ Goto(c, "count") /\ call[c].op = "insert" /\ call[c].at = "index"
  BY DEF InsertIndex, Run, Quietly, settings, locks, history
<1>2. call[c].obj \in Objects
  BY <1>1 DEF IInv, Asked
<1>3. /\ index' \in [Indexes -> [built : BOOLEAN, data : Data]]
      /\ mu' \in Callers \cup {None} /\ indexMu' \in Callers \cup {None}
  BY <1>1, <1>2, IndexTypes DEF IInv, Types
<1>4. "count" \in Places
  BY DEF Places
<1> QED  BY <1>1, <1>3, <1>4, GotoQuietly DEF OnId

\* c.docCount.Add, before the metadata
LEMMA CountKeeps ==
    ASSUME IInv, NEW c \in Callers, InsertCount(c) \/ Discount(c)
    PROVE  IInv'
<1>1. /\ UNCHANGED <<soft, auto, docs, deleted, index, metaCount, mu, indexMu, map, dead,
                     inserted, touched, applied, overlapped>>
      /\ docCount' \in Int /\ Goto(c, "meta") /\ call[c].at = "count"
      /\ call[c].op \in {"insert", "delete", "permanent"}
  BY DEF InsertCount, Discount, Run, settings, locks, history, IInv, Types
<1>2. /\ call' \in [Callers -> Call]
      /\ call'[c] = [call[c] EXCEPT !.at = "meta"]
      /\ \A d \in Callers : d # c => call'[d] = call[d]
  <2>1. "meta" \in Places
    BY DEF Places
  <2> QED  BY <1>1, <2>1, GotoIs DEF IInv, Types
<1>3. Types' /\ Homes'
  BY <1>1, <1>2 DEF IInv, Types, Homes
<1>4. Careful
  BY <1>1 DEF Careful, IInv, Types
<1>5. InsertedStays'
  BY <1>1, <1>4, InsertedStay DEF IInv
<1>6. Asked(call[c])' /\ call'[c].at = "meta"
  <2>1. call[c] \in Call /\ Asked(call[c])
    BY DEF IInv, Types
  <2> QED  BY <1>1, <1>2, <2>1 DEF Asked, Call, OnId
<1> QED  BY <1>2, <1>3, <1>4, <1>5, <1>6, StepOfOne

\* The metadata take the count of this moment, and the call has returned nil.
LEMMA MetaKeeps ==
    ASSUME IInv, NEW c \in Callers, Meta(c)
    PROVE  IInv'
<1>1. /\ UNCHANGED <<soft, auto, docs, deleted, index, docCount, mu, indexMu, map, dead,
                     touched, applied, overlapped>>
      /\ metaCount' = docCount /\ Return(c) /\ call[c].at = "meta"
      /\ inserted' = IF call[c].op = "insert" THEN inserted \cup {call[c].obj} ELSE inserted
  BY DEF Meta, Counted, Run, settings, locks
<1>2. /\ call' \in [Callers -> Call]
      /\ call'[c] = Idle
      /\ \A d \in Callers : d # c => call'[d] = call[d]
  BY <1>1, ReturnIs DEF IInv, Types
<1>3. call[c].op = "insert" => call[c].obj \in Objects
        /\ (IdOf[call[c].obj] \notin touched => docs[IdOf[call[c].obj]] = call[c].obj)
  BY <1>1 DEF IInv, Asked
<1>4. Types'
  BY <1>1, <1>2, <1>3 DEF IInv, Types
<1>5. Homes' /\ InsertedStays'
  BY <1>1, <1>3 DEF IInv, Homes, InsertedStays
<1>6. Careful
  BY <1>1 DEF Careful, IInv, Types
<1>7. Asked(call[c])'
  BY <1>2, IdleAsksNothing DEF Asked
<1> QED  BY <1>1, <1>2, <1>4, <1>5, <1>6, <1>7, StepOfOne

-----------------------------------------------------------------------------
(* Delete, PermanentDelete and RestoreDeleted *)

LEMMA LoadIdKeeps ==
    ASSUME IInv, NEW c \in Callers, LoadId(c)
    PROVE  IInv'
<1> DEFINE o == docs[call[c].id]
<1>1. /\ Quietly /\ index' = index /\ mu' = mu /\ indexMu' = indexMu
      /\ call[c].op \in OnId /\ call[c].at = "load"
  BY DEF LoadId, Run, Quietly, OnId, settings, data, locks, history
<1>2. call[c].id \in touched /\ call[c].id \in Ids /\ call[c] \in Call
  BY <1>1 DEF IInv, Asked, Types
<1>3. CASE Return(c)
  BY <1>1, <1>3, ReturnQuietly DEF IInv, Types
<1>4. CASE o # None /\ call' = [call EXCEPT ![c].at = "lock", ![c].obj = o]
  <2>1. o \in Objects /\ IdOf[o] = call[c].id
    BY <1>2, <1>4 DEF IInv, Types, Homes
  <2> DEFINE r == [call[c] EXCEPT !.at = "lock", !.obj = o]
  <2>2. r \in Call
    BY <1>2, <2>1 DEF Call, Places
  <2>3. call' = [call EXCEPT ![c] = r]
    BY <1>2, <1>4 DEF IInv, Types, Call
  <2>4. /\ call' \in [Callers -> Call] /\ call'[c] = r
        /\ \A d \in Callers : d # c => call'[d] = call[d]
    BY <2>2, <2>3 DEF IInv, Types
  <2>5. /\ call'[c].op = call[c].op /\ call'[c].id = call[c].id /\ call'[c].obj = o
        /\ touched' = touched
    BY <1>1, <1>2, <2>4 DEF Call, Quietly
  <2>6. Asked(call[c])'
    BY <1>1, <1>2, <2>1, <2>5 DEF Asked, OnId
  <2> QED  BY <1>1, <2>4, <2>6, QuietKeeps DEF IInv, Types
<1> QED  BY <1>3, <1>4 DEF LoadId

LEMMA LockIndexesKeeps ==
    ASSUME IInv, NEW c \in Callers, LockIndexes(c)
    PROVE  IInv'
<1>1. /\ Quietly /\ index' = index /\ mu' = mu /\ indexMu' = c
      /\ call[c].op \in OnId /\ call[c].at = "lock"
  BY DEF LockIndexes, Run, Quietly, OnId, settings, data, history
<1>2. PICK at \in {"unindex", "mark"} : Goto(c, at)
  BY DEF LockIndexes
<1>3. at \in Places
  BY DEF Places
<1> QED  BY <1>1, <1>2, <1>3, GotoQuietly DEF OnId, IInv, Types

LEMMA UnindexKeeps ==
    ASSUME IInv, NEW c \in Callers, Unindex(c)
    PROVE  IInv'
<1>1. /\ Quietly /\ index' = WithoutKey(call[c].obj) /\ mu' = mu /\ indexMu' = indexMu
      /\ call[c].op \in OnId /\ call[c].at = "unindex" /\ Goto(c, "remove")
  BY DEF Unindex, Run, Quietly, OnId, settings, locks, history
<1>2. call[c].obj \in Objects
  BY <1>1 DEF IInv, Asked
<1>3. index' \in [Indexes -> [built : BOOLEAN, data : Data]]
  BY <1>1, <1>2, IndexTypes DEF IInv
<1>4. "remove" \in Places
  BY DEF Places
<1> QED  BY <1>1, <1>3, <1>4, GotoQuietly DEF OnId, IInv, Types

\* A call that was asked to delete an id, and has loaded its document, goes on to another
\* place of the call or returns; it puts at most that document there or takes it away.
LEMMA TouchingKeeps ==
    ASSUME IInv, NEW c \in Callers, NEW i \in touched,
           call[c].op \in OnId, call[c].at \notin {"load", "meta"}, call[c].id = i,
           docs' = docs \/ (\E x \in {None, call[c].obj} : docs' = [docs EXCEPT ![i] = x]),
           deleted' \subseteq Objects,
           index' \in [Indexes -> [built : BOOLEAN, data : Data]],
           indexMu' \in Callers \cup {None},
           UNCHANGED <<soft, auto, docCount, metaCount, mu, map, dead, overlapped, inserted,
                       touched, applied>>,
           Return(c) \/ \E at \in Places \ {"load"} : Goto(c, at)
    PROVE  IInv'
<1>1. i \in Ids /\ call[c].obj \in Objects /\ IdOf[call[c].obj] = i
      /\ call[c] \in Call /\ Asked(call[c])
  BY DEF IInv, Types, Asked
<1>2. /\ docs' \in [Ids -> Objects \cup {None}]
      /\ \A j \in Ids : j # i => docs'[j] = docs[j]
      /\ docs'[i] \in {docs[i], None, call[c].obj}
  BY <1>1 DEF IInv, Types
<1>3. Homes'
  BY <1>1, <1>2 DEF IInv, Homes
<1>4. Careful
  BY <1>2 DEF Careful, IInv, Types
<1>5. InsertedStays'
  BY <1>4, InsertedStay DEF IInv
<1>6. /\ call' \in [Callers -> Call]
      /\ \A d \in Callers : d # c => call'[d] = call[d]
      /\ call'[c] = Idle \/ \E at \in Places \ {"load"} : call'[c] = [call[c] EXCEPT !.at = at]
  <2>1. CASE Return(c)
    BY <2>1, ReturnIs DEF IInv, Types
  <2>2. ASSUME NEW at \in Places \ {"load"}, Goto(c, at) 
        PROVE  /\ call' \in [Callers -> Call]
               /\ \A d \in Callers : d # c => call'[d] = call[d]
               /\ call'[c] = [call[c] EXCEPT !.at = at]
    BY <2>2, GotoIs DEF IInv, Types
  <2> QED  BY <2>1, <2>2
<1>7. Asked(call[c])'
  <2>1. CASE call'[c] = Idle
    BY <2>1, IdleAsksNothing DEF Asked
  <2>2. ASSUME NEW at \in Places \ {"load"}, call'[c] = [call[c] EXCEPT !.at = at]
        PROVE  Asked(call[c])'
    BY <1>1, <2>2 DEF Asked, Call, OnId
  <2> QED  BY <1>6, <2>1, <2>2
<1>8. Types'
  BY <1>2, <1>6 DEF IInv, Types
<1> QED  BY <1>3, <1>4, <1>5, <1>6, <1>7, <1>8, StepOfOne

\* Mark, Remove, Reindex: the steps of a call on an id that may store.
LEMMA OnIdKeeps ==
    ASSUME IInv, NEW c \in Callers, Mark(c) \/ Remove(c) \/ Reindex(c)
    PROVE  IInv'
<1>0. /\ "unindex" \in Places \ {"load"} /\ "reindex" \in Places \ {"load"}
      /\ "count" \in Places \ {"load"}
  BY DEF Places
<1>1. /\ call[c].op \in OnId /\ call[c].at \in {"mark", "remove", "reindex"}
      /\ UNCHANGED <<soft, auto, docCount, metaCount, mu, map, dead, overlapped, inserted,
                     touched, applied>>
  BY DEF Mark, Remove, Reindex, Run, OnId, settings, locks, history
<1>2. PICK i \in touched : i = call[c].id
  BY <1>1 DEF IInv, Asked
<1>3. call[c].obj \in Objects
  BY <1>1 DEF IInv, Asked
<1>4. CASE Mark(c)
  <2>1. /\ docs' = docs \/ docs' = [docs EXCEPT ![i] = call[c].obj]
        /\ deleted' \subseteq Objects /\ index' = index /\ indexMu' = indexMu
        /\ Goto(c, "unindex") \/ Goto(c, "reindex")
    BY <1>2, <1>3, <1>4 DEF Mark, locks, IInv, Types
  <2> QED  BY <1>0, <1>1, <1>2, <2>1, TouchingKeeps DEF IInv, Types
<1>5. CASE Remove(c)
  <2>1. /\ docs' = docs \/ docs' = [docs EXCEPT ![i] = None]
        /\ deleted' = deleted /\ index' = index /\ indexMu' = None /\ Goto(c, "count")
    BY <1>2, <1>5 DEF Remove
  <2> QED  BY <1>0, <1>1, <1>2, <2>1, TouchingKeeps DEF IInv, Types
<1>6. CASE Reindex(c)
  <2>1. /\ docs' = [docs EXCEPT ![i] = call[c].obj]
        /\ deleted' = deleted /\ index' = WithKey(call[c].obj) /\ indexMu' = None /\ Return(c)
    BY <1>2, <1>6 DEF Reindex
  <2>2. index' \in [Indexes -> [built : BOOLEAN, data : Data]]
    BY <1>3, <2>1, IndexTypes DEF IInv
  <2> QED  BY <1>0, <1>1, <1>2, <2>1, <2>2, TouchingKeeps DEF IInv, Types
<1> QED  BY <1>4, <1>5, <1>6

-----------------------------------------------------------------------------
(* CreateIndex, DropIndex, Drop, and the maps *)

LEMMA CreateKeeps ==
    ASSUME IInv, NEW c \in Callers,
           CreateStart(c) \/ CreateBuild(c) \/ CreatePublish(c) \/ DropIndex(c)
    PROVE  IInv'
<1>0. "build" \in Places /\ "publish" \in Places /\ "unlock" \in Places
  BY DEF Places
<1>1. /\ Quietly /\ indexMu' = indexMu /\ call[c].op \in {"create", "dropIndex"}
      /\ call[c].at \in {"start", "build", "publish"}
  BY DEF CreateStart, CreateBuild, CreatePublish, DropIndex, Run, Quietly, settings, data,
         locks, history
<1>2. call[c].name \in Indexes /\ call[c] \in Call
  BY <1>1 DEF IInv, Asked, Types
<1>3. CASE CreateStart(c)
  <2>1. index' = index /\ mu' \in Callers \cup {None} /\ (Return(c) \/ Goto(c, "build"))
    BY <1>3 DEF CreateStart, GivenBack, data
  <2> QED  BY <1>0, <1>1, <2>1, ReturnQuietly, GotoQuietly DEF OnId, IInv, Types
<1>4. CASE CreateBuild(c)
  <2>1. index' = index /\ (mu' = mu \/ mu' = None) /\ call[c].op = "create"
    BY <1>4 DEF CreateBuild, data, Run
  <2>2. PICK S \in SUBSET Stored :
          call' = [call EXCEPT ![c].at = "publish", ![c].copy = Over(S)]
    <3> DEFINE visible == {o \in Stored : ~Hidden(o)}
    <3>1. visible \in SUBSET Stored /\ SUBSET visible \subseteq SUBSET Stored
      OBVIOUS
    <3>2. \/ call' = [call EXCEPT ![c].at = "publish", ![c].copy = Over(visible)]
          \/ \E some \in SUBSET visible :
               call' = [call EXCEPT ![c].at = "publish", ![c].copy = Over(some)]
      BY <1>4 DEF CreateBuild
    <3> HIDE DEF visible
    <3> QED  BY <3>1, <3>2
  <2>3. Over(S) \in Data
    BY StoredTypes, OverType DEF IInv
  <2> DEFINE r == [call[c] EXCEPT !.at = "publish", !.copy = Over(S)]
  <2>4. r \in Call /\ r.op = "create" /\ r.name = call[c].name /\ r.copy = Over(S)
    BY <1>0, <1>2, <2>1, <2>3 DEF Call
  <2>5. call' = [call EXCEPT ![c] = r]
    BY <1>2, <2>2 DEF IInv, Types, Call
  <2>6. /\ call' \in [Callers -> Call] /\ call'[c] = r
        /\ \A d \in Callers : d # c => call'[d] = call[d]
    BY <2>4, <2>5 DEF IInv, Types
  <2>7. Asked(call[c])'
    BY <1>2, <2>3, <2>4, <2>6 DEF Asked, OnId
  <2> QED  BY <1>1, <2>1, <2>6, <2>7, QuietKeeps DEF IInv, Types
<1>5. CASE CreatePublish(c)
  <2>1. /\ index' = [index EXCEPT ![call[c].name] = [built |-> TRUE, data |-> call[c].copy]]
        /\ mu' = mu /\ Goto(c, "unlock") /\ call[c].op = "create" /\ call[c].at = "publish"
    BY <1>5 DEF CreatePublish, locks, Run
  <2>2. call[c].copy \in Data
    BY <2>1 DEF IInv, Asked
  <2>3. index' \in [Indexes -> [built : BOOLEAN, data : Data]]
    BY <1>2, <2>1, <2>2 DEF IInv, Types
  <2> QED  BY <1>0, <1>1, <2>1, <2>3, GotoQuietly DEF OnId, IInv, Types
<1>6. CASE DropIndex(c)
  <2>1. index' = [index EXCEPT ![call[c].name] = NoIndex] /\ mu' = mu /\ Return(c)
    BY <1>6 DEF DropIndex, locks
  <2>2. index' \in [Indexes -> [built : BOOLEAN, data : Data]]
    BY <1>2, <2>1, NoIndexType DEF IInv, Types
  <2> QED  BY <1>1, <2>1, <2>2, ReturnQuietly DEF IInv, Types
<1> QED  BY <1>3, <1>4, <1>5, <1>6

LEMMA UnlockKeeps ==
    ASSUME IInv, NEW c \in Callers, CreateUnlock(c) \/ DropCount(c)
    PROVE  IInv'
<1>1. /\ UNCHANGED <<soft, auto, docs, deleted, index, indexMu, map, inserted, touched,
                     applied, overlapped>>
      /\ Return(c) /\ mu' \in {mu, None} /\ dead' \in {dead, TRUE}
      /\ call[c].at # "meta"
      /\ \/ docCount' = docCount /\ metaCount' = metaCount
         \/ docCount' = 0 /\ metaCount' = 0
  BY DEF CreateUnlock, DropCount, Unlock, Run, settings, data, history
<1>2. /\ call' \in [Callers -> Call]
      /\ call'[c] = Idle
      /\ \A d \in Callers : d # c => call'[d] = call[d]
  BY <1>1, ReturnIs DEF IInv, Types
<1>3. Careful
  BY <1>1 DEF Careful, IInv, Types
<1>4. Types'
  <2>1. mu' \in Callers \cup {None} /\ docCount' \in Int /\ metaCount' \in Int
    BY <1>1 DEF IInv, Types
  <2>2. dead' \in BOOLEAN
    BY <1>1, Zenon DEF IInv, Types
  <2> QED  BY <1>1, <1>2, <2>1, <2>2 DEF IInv, Types
<1>5. Homes' /\ InsertedStays'
  BY <1>1, <1>3, InsertedStay DEF IInv, Homes
<1>6. Asked(call[c])'
  BY <1>2, IdleAsksNothing DEF Asked
<1> QED  BY <1>1, <1>2, <1>3, <1>4, <1>5, <1>6, StepOfOne

LEMMA DropResetKeeps ==
    ASSUME IInv, NEW c \in Callers, DropReset(c)
    PROVE  IInv'
<1>1. /\ UNCHANGED <<soft, auto, deleted, docCount, metaCount, indexMu, map, dead, inserted,
                     touched, applied, overlapped>>
      /\ docs' = [i \in Ids |-> None] /\ index' = [n \in Indexes |-> NoIndex] /\ mu' = c
      /\ call[c].op = "drop" /\ call[c].at = "lock"
  BY DEF DropReset, Run, settings, history
<1>2. PICK at \in {"create", "count"} : Goto(c, at)
  BY DEF DropReset
<1>3. at \in Places
  BY DEF Places
<1>4. /\ call' \in [Callers -> Call]
      /\ call'[c] = [call[c] EXCEPT !.at = at]
      /\ \A d \in Callers : d # c => call'[d] = call[d]
  BY <1>2, <1>3, GotoIs DEF IInv, Types
<1>5. touched = Ids
  BY <1>1 DEF IInv, Asked
<1>6. Types'
  BY <1>1, <1>4, NoIndexType DEF IInv, Types
<1>7. Careful
  BY <1>1, <1>5 DEF Careful
<1>8. Homes' /\ InsertedStays'
  BY <1>1, <1>7, InsertedStay DEF IInv, Homes
<1>9. Asked(call[c])'
  <2>1. call[c] \in Call
    BY DEF IInv, Types
  <2>2. call'[c].op = "drop"
    BY <1>1, <1>4, <2>1 DEF Call
  <2> QED  BY <1>1, <1>5, <2>2 DEF Asked, OnId
<1> QED  BY <1>1, <1>4, <1>6, <1>7, <1>8, <1>9, StepOfOne

\* The map that was loaded is published; for uniqueFields the call goes on with an index.
LEMMA StoreMapKeeps ==
    ASSUME IInv, NEW c \in Callers, StoreMap(c)
    PROVE  IInv'
<1> DEFINE r == call[c]
<1>1. /\ UNCHANGED <<soft, auto, docs, deleted, index, docCount, metaCount, mu, indexMu, dead,
                     inserted, touched, overlapped>>
      /\ map' = [map EXCEPT ![r.name] = r.copy]
      /\ applied' = [applied EXCEPT ![r.name] =
                       IF r.op = "add" THEN @ \cup {r.field} ELSE @ \ {r.field}]
      /\ r.op \in {"add", "remove"} /\ r.at = "store"
  BY DEF StoreMap, Run, settings, data, locks
<1>2. r.name \in Maps /\ r.field \in Fields /\ r.copy \in SUBSET Fields
  BY <1>1 DEF IInv, Asked
<1>3. PICK next \in {Idle} \cup {[Idle EXCEPT !.at = "start", !.name = "unique_field", !.op = op] :
                                    op \in {"create", "dropIndex"}} :
        call' = [call EXCEPT ![c] = next]
  BY DEF StoreMap, Return
<1>4. next \in Call /\ Asked(next)'
  <2>1. CASE next = Idle
    BY <2>1, IdleIsACall, IdleAsksNothing
  <2>2. ASSUME NEW op \in {"create", "dropIndex"},
               next = [Idle EXCEPT !.at = "start", !.name = "unique_field", !.op = op]
        PROVE  next \in Call /\ Asked(next)'
    BY <2>2 DEF Idle, Call, Ops, Places, Asked, OnId, Indexes
  <2> QED  BY <2>1, <2>2
<1>5. /\ call' \in [Callers -> Call] /\ call'[c] = next
      /\ \A d \in Callers : d # c => call'[d] = call[d]
  BY <1>3, <1>4, SetIs DEF IInv, Types
<1>6. map' \in [Maps -> SUBSET Fields] /\ applied' \in [Maps -> SUBSET Fields]
  BY <1>1, <1>2 DEF IInv, Types
<1>7. Types'
  BY <1>1, <1>5, <1>6 DEF IInv, Types
<1>8. Careful
  BY <1>1 DEF Careful, IInv, Types
<1>9. Homes' /\ InsertedStays'
  BY <1>1, <1>8, InsertedStay DEF IInv, Homes
<1> QED  BY <1>1, <1>4, <1>5, <1>7, <1>8, <1>9, StepOfOne

LEMMA OthersKeep ==
    ASSUME IInv, SetField \/ \E i \in Ids : FindExpired(i)
    PROVE  IInv'
<1>1. /\ UNCHANGED <<soft, auto, docs, index, docCount, metaCount, mu, indexMu, map, call,
                     inserted, applied>>
      /\ touched \subseteq touched' /\ touched' \subseteq Ids
      /\ deleted' \subseteq Objects
      /\ overlapped' \in BOOLEAN
  BY DEF SetField, FindExpired, settings, data, locks, IInv, Types
<1>2. dead' = dead \/ dead' = TRUE
  BY DEF SetField, FindExpired
<1>3. Careful
  BY <1>1 DEF Careful
<1>4. Types'
  BY <1>1, <1>2 DEF IInv, Types
<1>5. Homes' /\ InsertedStays' /\ Metadata'
  BY <1>1, <1>2, <1>3, InsertedStay DEF IInv, Homes, Metadata
<1>6. ASSUME NEW c \in Callers PROVE Asked(call[c])'
  <2>1. PICK r \in Call : r = call[c]
    BY DEF IInv, Types
  <2>2. Asked(r)'
    BY <1>3, <2>1, AskedStays DEF IInv
  <2> QED  BY <1>1, <2>1, <2>2
<1> QED  BY <1>4, <1>5, <1>6 DEF IInv

LEMMA InitIInv == Init => IInv
<1> SUFFICES ASSUME Init PROVE IInv
  OBVIOUS
<1>1. Types
  <2>1. index \in [Indexes -> [built : BOOLEAN, data : Data]]
    <3>1. ASSUME NEW n \in Indexes
          PROVE  [NoIndex EXCEPT !.built = auto /\ n = "_id_"] \in [built : BOOLEAN, data : Data]
      BY NoIndexType
    <3> QED  BY <3>1 DEF Init
  <2>2. map \in [Maps -> SUBSET Fields] /\ applied \in [Maps -> SUBSET Fields]
    BY DEF Init
  <2>3. soft \in BOOLEAN /\ auto \in BOOLEAN /\ dead = FALSE /\ overlapped = FALSE
    BY Zenon DEF Init
  <2>5. /\ mu \in Callers \cup {None} /\ indexMu \in Callers \cup {None}
        /\ docCount \in Int /\ metaCount \in Int
        /\ deleted \subseteq Objects /\ inserted \subseteq Objects /\ touched \subseteq Ids
    BY DEF Init
  <2>4. call \in [Callers -> Call] /\ docs \in [Ids -> Objects \cup {None}]
    BY IdleIsACall DEF Init
  <2> QED  BY <2>1, <2>2, <2>3, <2>4, <2>5 DEF Types
<1>2. \A c \in Callers : Asked(call[c])
  BY IdleAsksNothing DEF Init
<1>3. Homes /\ InsertedStays /\ Metadata
  BY DEF Init, Homes, InsertedStays, Metadata
<1> QED  BY <1>1, <1>2, <1>3 DEF IInv

LEMMA NextKeeps == IInv /\ [Next]_vars => IInv'
<1> SUFFICES ASSUME IInv, [Next]_vars PROVE IInv'
  OBVIOUS
<1>1. ASSUME NEW c \in Callers, Step(c) PROVE IInv'
  BY <1>1, InsertReads, InsertStoreKeeps, InsertIndexKeeps, CountKeeps, MetaKeeps,
     LoadIdKeeps, LockIndexesKeeps, UnindexKeeps, OnIdKeeps, CreateKeeps, UnlockKeeps,
     DropResetKeeps, StoreMapKeeps DEF Step
<1>2. CASE UNCHANGED vars
  BY <1>2 DEF vars, settings, data, locks, history, IInv, Types, Asked, Homes, InsertedStays,
              Metadata
<1> QED  BY <1>1, <1>2, StartKeeps, OthersKeep DEF Next

\* The inductive invariant of the collection under any number of calls at once.
THEOREM IInvHolds == Spec => []IInv
<1> QED  BY InitIInv, NextKeeps, PTL DEF Spec

\* The variables keep their types; the locks are held by callers or by nobody.
THEOREM TypeCorrect == Spec => []TypeOK
<1>1. IInv => TypeOK
  BY DEF IInv, Types, Data, TypeOK
<1> QED  BY <1>1, IInvHolds, PTL

\* LoadOrStore lets one of two inserts of an id succeed, and only a call asked to delete that
\* id, or to drop the collection, ever stores or removes anything there: a document whose
\* Insert returned nil stays until then.
THEOREM InsertedHolds == Spec => []InsertedStays
<1>1. IInv => InsertedStays
  BY DEF IInv
<1> QED  BY <1>1, IInvHolds, PTL

\* Every call that changes docCount ends by reading it again under c.mu: when no call is under
\* way the metadata tell the count, however the calls were interleaved.
THEOREM MetadataHolds == Spec => []MetadataCatchesUp
<1>1. IInv => MetadataCatchesUp
  BY DEF IInv, Metadata, MetadataCatchesUp, Quiet, Idle
<1> QED  BY <1>1, IInvHolds, PTL

-----------------------------------------------------------------------------
(* One call at a time *)

\* Every index that is built holds exactly the documents of S, no two of which share a value.
Holds(ix, S) ==
    \A n \in Indexes : ix[n].built =>
        /\ ~Alike(S)
        /\ \A o \in S : ix[n].data[KeyOf[o]] = IdOf[o]
        /\ \A k \in Keys : ix[n].data[k] # None => \E o \in S : KeyOf[o] = k

\* No index holds the value k.
Free(ix, k) == \A n \in Indexes : ix[n].built => ix[n].data[k] = None

\* docCount is d short of the documents stored.
Counts(d) == docCount + d = Cardinality(Stored)
Right == Counts(0) /\ Holds(index, Stored)

\* Where a call has left something half done.
HalfDone ==
    {<<"insert", "index">>, <<"insert", "count">>, <<"delete", "remove">>,
     <<"delete", "count">>, <<"create", "unlock">>, <<"drop", "create">>, <<"drop", "count">>}

\* What the only call under way has made of the collection when it has come to r: it is right,
\* or half done in the way r tells.  An index whose documents have shared a value is published
\* with the lock given back, and the call that did it is about to die.
Sound(r) ==
    /\ <<r.op, r.at>> \notin HalfDone => Right
    /\ r.op = "insert" /\ r.at = "store" => Free(index, KeyOf[r.obj])
    /\ r.op = "insert" /\ r.at = "index" =>
         /\ Counts(1) /\ r.obj \in Stored
         /\ Holds(index, Stored \ {r.obj}) /\ Free(index, KeyOf[r.obj])
    /\ r.op = "insert" /\ r.at = "count" => Counts(1) /\ Holds(index, Stored)
    /\ r.op = "delete" /\ r.at \in {"lock", "unindex", "remove"} => docs[r.id] = r.obj
    /\ r.op = "delete" /\ r.at = "remove" => Counts(0) /\ Holds(index, Stored \ {r.obj})
    /\ r.op = "delete" /\ r.at = "count" => Counts(-1) /\ Holds(index, Stored)
    /\ r.op = "create" /\ r.at = "publish" /\ mu # None =>
         ~Alike(Stored) /\ r.copy = Over(Stored)
    /\ r.op = "create" /\ r.at = "unlock" => Counts(0) /\ (mu # None => Holds(index, Stored))
    /\ r.op = "drop" /\ r.at = "count" => Stored = {} /\ Built = {}
    /\ r.op = "add" => r.copy = map[r.name] \cup {r.field}
    /\ r.op = "remove" => r.copy = map[r.name] \ {r.field}
    \* No document is hidden without SoftDelete, so these calls end where they begin.
    /\ r.op \in {"permanent", "restore"} => r.at = "load"
    /\ r.op = "delete" => r.at # "mark"

\* c is the only call that may be under way.
Only(c) == \A d \in Callers : d # c => call[d] = Idle

\* The inductive invariant of a collection that is called by one goroutine at a time.
OneAtATime ==
    ~dead /\ ~overlapped /\ ~soft =>
        /\ deleted = {} /\ map = applied
        /\ \A c, d \in Callers : call[c] # Idle /\ call[d] # Idle => c = d
        /\ Quiet => Right
        /\ \A c \in Callers : Only(c) => Sound(call[c])

\* addToIndexes of a document whose value is in no index.
LEMMA KeyAdded ==
    ASSUME Types, NEW S \in SUBSET Objects, NEW o \in Objects,
           Holds(index, S), Free(index, KeyOf[o])
    PROVE  Holds(WithKey(o), S \cup {o})
<1> DEFINE ix == WithKey(o)
<1> SUFFICES ASSUME NEW n \in Indexes, ix[n].built
             PROVE  /\ ~Alike(S \cup {o})
                    /\ \A p \in S \cup {o} : ix[n].data[KeyOf[p]] = IdOf[p]
                    /\ \A k \in Keys : ix[n].data[k] # None =>
                         \E p \in S \cup {o} : KeyOf[p] = k
  BY DEF Holds
<1>1. /\ KeyOf[o] \in Keys /\ \A p \in S : KeyOf[p] \in Keys /\ IdOf[p] \in Ids
      /\ None \notin Ids
  BY CollectionAssumption
<1>2. /\ index[n].built /\ index[n].data[KeyOf[o]] = None
      /\ ix[n].data = [index[n].data EXCEPT ![KeyOf[o]] = IdOf[o]]
  BY DEF WithKey, Free, Types
<1>3. /\ ~Alike(S)
      /\ \A p \in S : index[n].data[KeyOf[p]] = IdOf[p]
      /\ \A k \in Keys : index[n].data[k] # None => \E p \in S : KeyOf[p] = k
  BY <1>2 DEF Holds
<1>4. \A p \in S : KeyOf[p] # KeyOf[o]
  BY <1>1, <1>2, <1>3
<1>5. /\ ix[n].data[KeyOf[o]] = IdOf[o]
      /\ \A k \in Keys : k # KeyOf[o] => ix[n].data[k] = index[n].data[k]
  BY <1>1, <1>2 DEF Types, Data
<1>6. ~Alike(S \cup {o})
  BY <1>3, <1>4 DEF Alike
<1> HIDE DEF ix
<1> QED  BY <1>1, <1>3, <1>4, <1>5, <1>6

\* The removal of a stored document from the indexes.
LEMMA KeyRemoved ==
    ASSUME Types, NEW S \in SUBSET Objects, NEW o \in S, Holds(index, S)
    PROVE  Holds(WithoutKey(o), S \ {o})
<1> DEFINE ix == WithoutKey(o)
<1> SUFFICES ASSUME NEW n \in Indexes, ix[n].built
             PROVE  /\ ~Alike(S \ {o})
                    /\ \A p \in S \ {o} : ix[n].data[KeyOf[p]] = IdOf[p]
                    /\ \A k \in Keys : ix[n].data[k] # None =>
                         \E p \in S \ {o} : KeyOf[p] = k
  BY DEF Holds
<1>1. KeyOf[o] \in Keys /\ \A p \in S : KeyOf[p] \in Keys
  BY CollectionAssumption
<1>2. index[n].built /\ ix[n].data = [index[n].data EXCEPT ![KeyOf[o]] = None]
  BY DEF WithoutKey, Types
<1>3. /\ ~Alike(S)
      /\ \A p \in S : index[n].data[KeyOf[p]] = IdOf[p]
      /\ \A k \in Keys : index[n].data[k] # None => \E p \in S : KeyOf[p] = k
  BY <1>2 DEF Holds
<1>4. \A p \in S \ {o} : KeyOf[p] # KeyOf[o]
  BY <1>3 DEF Alike
<1>5. /\ ix[n].data[KeyOf[o]] = None
      /\ \A k \in Keys : k # KeyOf[o] => ix[n].data[k] = index[n].data[k]
  BY <1>1, <1>2 DEF Types, Data
<1>6. ~Alike(S \ {o})
  BY <1>3 DEF Alike
<1> HIDE DEF ix
<1> QED  BY <1>1, <1>3, <1>4, <1>5, <1>6

\* The index CreateIndex makes of documents that have different values.
LEMMA OverHolds ==
    ASSUME Types, NEW S \in SUBSET Objects, NEW n \in Indexes, ~Alike(S), Holds(index, S)
    PROVE  Holds([index EXCEPT ![n] = [built |-> TRUE, data |-> Over(S)]], S)
<1>1. \A o \in S : KeyOf[o] \in Keys
  BY CollectionAssumption
<1>2. ASSUME NEW o \in S PROVE Over(S)[KeyOf[o]] = IdOf[o]
  <2>1. (CHOOSE p \in S : KeyOf[p] = KeyOf[o]) = o
    <3>1. \A p \in S : KeyOf[p] = KeyOf[o] => p = o
      BY DEF Alike
    <3> QED  BY <3>1
  <2> QED  BY <1>1, <2>1 DEF Over
<1>3. ASSUME NEW k \in Keys, Over(S)[k] # None PROVE \E o \in S : KeyOf[o] = k
  BY <1>3 DEF Over
<1> QED  BY <1>2, <1>3 DEF Holds, Types

LEMMA OneStored ==
    ASSUME Types, Types', Homes, NEW o \in Objects, docs[IdOf[o]] = None,
           docs' = [docs EXCEPT ![IdOf[o]] = o]
    PROVE  /\ Stored' = Stored \cup {o} /\ o \notin Stored
           /\ Cardinality(Stored') = Cardinality(Stored) + 1 /\ Cardinality(Stored) \in Nat
<1>1. IdOf[o] \in Ids /\ o # None
  BY CollectionAssumption
<1>2. /\ docs'[IdOf[o]] = o
      /\ \A i \in Ids : i # IdOf[o] => docs'[i] = docs[i]
  BY <1>1 DEF Types
<1>3. o \notin Stored
  BY <1>1, StoredTypes DEF Homes
<1>4. \A p : p \in Stored' <=> p # None /\ \E i \in Ids : docs'[i] = p
  BY DEF Stored
<1>5. Stored' = Stored \cup {o}
  BY <1>1, <1>2, <1>4, StoredTypes
<1> QED  BY <1>3, <1>5, StoredTypes, FS_AddElement, FS_CardinalityType

LEMMA OneRemoved ==
    ASSUME Types, Types', Homes, NEW i \in Ids, docs[i] # None,
           docs' = [docs EXCEPT ![i] = None]
    PROVE  /\ Stored' = Stored \ {docs[i]} /\ docs[i] \in Stored
           /\ Cardinality(Stored') = Cardinality(Stored) - 1 /\ Cardinality(Stored) \in Nat
<1>2. /\ docs'[i] = None
      /\ \A j \in Ids : j # i => docs'[j] = docs[j]
  BY DEF Types
<1>3. docs[i] \in Stored
  BY StoredTypes
<1>4. \A p : p \in Stored' <=> p # None /\ \E j \in Ids : docs'[j] = p
  BY DEF Stored
<1>5. \A j \in Ids : docs[j] = docs[i] => j = i
  BY DEF Homes
<1>6. Stored' = Stored \ {docs[i]}
  BY <1>2, <1>4, <1>5, StoredTypes
<1> QED  BY <1>3, <1>6, StoredTypes, FS_RemoveElement, FS_CardinalityType

-----------------------------------------------------------------------------
(* The steps of the only call *)

\* What holds besides while nothing has overlapped and the process lives on.
Calm == ~dead' /\ ~overlapped /\ ~soft /\ deleted = {} /\ map = applied

\* The step of c goes on as it should.
GoesOn(c) == Sound(call[c])' /\ deleted' = {} /\ map' = applied'

\* A call that returns leaves the collection right.
LEMMA ReturnGoesOn ==
    ASSUME NEW c \in Callers, call'[c] = Idle, Right', deleted' = {}, map' = applied'
    PROVE  GoesOn(c)
<1>1. Sound(Idle)'
  BY DEF Sound, Idle
<1>2. Sound(call[c])'
  BY <1>1 DEF Sound
<1> QED  BY <1>2 DEF GoesOn

LEMMA RightStays ==
    ASSUME docs' = docs, index' = index, docCount' = docCount
    PROVE  Stored' = Stored /\ Built' = Built /\ Right' = Right
BY DEF Stored, Built, Right, Counts, Holds

LEMMA InsertReadsSound ==
    ASSUME IInv, NEW c \in Callers, Calm, Sound(call[c]), InsertCheck(c) \/ InsertUnique(c)
    PROVE  GoesOn(c)
<1>1. /\ UNCHANGED <<docs, index, docCount, deleted, map, applied>>
      /\ call[c].op = "insert" /\ call[c].at \in {"check", "unique"} /\ call[c] \in Call
  BY DEF InsertCheck, InsertUnique, Run, data, history, IInv, Types
<1>2. Right /\ Right'
  BY <1>1, RightStays DEF Sound, HalfDone
<1>3. CASE Return(c)
  <2>1. call'[c] = Idle
    BY <1>3, ReturnIs DEF IInv, Types
  <2> QED  BY <1>1, <1>2, <2>1, ReturnGoesOn DEF Calm
<1>4. CASE Goto(c, "unique")
  <2>1. call'[c] = [call[c] EXCEPT !.at = "unique"]
    BY <1>4, GotoIs DEF IInv, Types, Places
  <2>2. call'[c].op = "insert" /\ call'[c].at = "unique"
    BY <1>1, <2>1 DEF Call
  <2> QED  BY <1>1, <1>2, <2>2 DEF GoesOn, Calm, Sound
<1>5. CASE Goto(c, "store") /\ InsertUnique(c)
  <2>1. call'[c] = [call[c] EXCEPT !.at = "store"]
    BY <1>5, GotoIs DEF IInv, Types, Places
  <2>2. call'[c].op = "insert" /\ call'[c].at = "store" /\ call'[c].obj = call[c].obj
    BY <1>1, <2>1 DEF Call
  <2>3. Free(index, KeyOf[call[c].obj])
    <3>1. ~ \E n \in Built : index[n].data[KeyOf[call[c].obj]] # None
      <4>1. CASE Return(c)
        <5>1. call'[c] = Idle
          BY <4>1, ReturnIs DEF IInv, Types
        <5> QED  BY <2>2, <5>1 DEF Idle
      <4> QED  BY <1>5, <4>1 DEF InsertUnique
    <3> QED  BY <3>1 DEF Free, Built
  <2>4. Free(index, KeyOf[call[c].obj])'
    BY <1>1, <2>2, <2>3 DEF Free
  <2> QED  BY <1>1, <1>2, <2>2, <2>4 DEF GoesOn, Calm, Sound
<1> QED  BY <1>3, <1>4, <1>5 DEF InsertCheck, InsertUnique

LEMMA InsertStoreSound ==
    ASSUME IInv, NEW c \in Callers, Calm, Sound(call[c]), InsertStore(c), IInv'
    PROVE  GoesOn(c)
<1> DEFINE o == call[c].obj
<1>1. /\ UNCHANGED <<index, docCount, map, applied>>
      /\ call[c].op = "insert" /\ call[c].at = "store" /\ call[c] \in Call
  BY DEF InsertStore, Run, history, IInv, Types
<1>2. Right /\ Free(index, KeyOf[o])
  BY <1>1 DEF Sound, HalfDone
<1>3. o \in Objects
  BY <1>1 DEF IInv, Asked
<1>4. CASE ~MayStore(o)
  <2>1. Return(c) /\ docs' = docs /\ deleted' = deleted
    BY <1>4 DEF InsertStore
  <2>2. call'[c] = Idle
    BY <2>1, ReturnIs DEF IInv, Types
  <2> QED  BY <1>1, <1>2, <2>1, <2>2, RightStays, ReturnGoesOn DEF Calm
<1>5. CASE MayStore(o)
  <2>1. /\ Goto(c, "index") /\ docs' = [docs EXCEPT ![IdOf[o]] = o]
        /\ deleted' = deleted \ {o} /\ docs[IdOf[o]] = None
    BY <1>5 DEF InsertStore, MayStore
  <2>2. call'[c] = [call[c] EXCEPT !.at = "index"]
    BY <2>1, GotoIs DEF IInv, Types, Places
  <2>3. call'[c].op = "insert" /\ call'[c].at = "index" /\ call'[c].obj = o
    BY <1>1, <2>2 DEF Call
  <2>4. /\ Stored' = Stored \cup {o} /\ o \notin Stored
        /\ Cardinality(Stored') = Cardinality(Stored) + 1 /\ Cardinality(Stored) \in Nat
    BY <1>3, <2>1, OneStored DEF IInv
  <2>5. Counts(1)'
    BY <1>1, <1>2, <2>4 DEF Right, Counts, IInv, Types
  <2>6. Stored' \ {o} = Stored
    BY <2>4
  <2>7. Holds(index', Stored' \ {o}) /\ Free(index', KeyOf[o])
    BY <1>1, <1>2, <2>6 DEF Right
  <2>8. Sound(call[c])'
    BY <2>3, <2>4, <2>5, <2>7 DEF Sound, HalfDone
  <2> QED  BY <1>1, <2>1, <2>8 DEF GoesOn, Calm
<1> QED  BY <1>4, <1>5

LEMMA InsertEndsSound ==
    ASSUME IInv, NEW c \in Callers, Calm, Sound(call[c]), InsertIndex(c) \/ InsertCount(c)
    PROVE  GoesOn(c)
<1> DEFINE o == call[c].obj
<1>1. /\ UNCHANGED <<docs, deleted, map, applied>>
      /\ call[c].op = "insert" /\ call[c] \in Call
  BY DEF InsertIndex, InsertCount, Run, history, IInv, Types
<1>2. Stored' = Stored /\ Stored \subseteq Objects
  BY <1>1, StoredTypes DEF Stored, IInv
<1>3. CASE InsertIndex(c)
  <2>1. Goto(c, "count") /\ index' = WithKey(o) /\ docCount' = docCount /\ call[c].at = "index"
    BY <1>3 DEF InsertIndex, Run
  <2>2. call'[c] = [call[c] EXCEPT !.at = "count"]
    BY <2>1, GotoIs DEF IInv, Types, Places
  <2>3. call'[c].op = "insert" /\ call'[c].at = "count"
    BY <1>1, <2>2 DEF Call
  <2>4. Counts(1) /\ o \in Stored /\ Holds(index, Stored \ {o}) /\ Free(index, KeyOf[o])
    BY <1>1, <2>1 DEF Sound
  <2>5. Holds(index', (Stored \ {o}) \cup {o})
    BY <1>2, <2>1, <2>4, KeyAdded DEF IInv
  <2>6. (Stored \ {o}) \cup {o} = Stored'
    BY <1>2, <2>4
  <2>7. Holds(index', Stored') /\ Counts(1)'
    BY <1>2, <2>1, <2>4, <2>5, <2>6 DEF Counts
  <2> QED  BY <1>1, <2>3, <2>7 DEF GoesOn, Calm, Sound, HalfDone
<1>4. CASE InsertCount(c)
  <2>1. Goto(c, "meta") /\ index' = index /\ docCount' = docCount + 1 /\ call[c].at = "count"
    BY <1>4 DEF InsertCount, Run
  <2>2. call'[c] = [call[c] EXCEPT !.at = "meta"]
    BY <2>1, GotoIs DEF IInv, Types, Places
  <2>3. call'[c].op = "insert" /\ call'[c].at = "meta"
    BY <1>1, <2>2 DEF Call
  <2>4. Counts(1) /\ Holds(index, Stored)
    BY <1>1, <2>1 DEF Sound
  <2>5. Right'
    BY <1>2, <2>1, <2>4 DEF Counts, Right, IInv, Types
  <2> QED  BY <1>1, <2>3, <2>5 DEF GoesOn, Calm, Sound, HalfDone
<1> QED  BY <1>3, <1>4

LEMMA MetaSound ==
    ASSUME IInv, NEW c \in Callers, Calm, Sound(call[c]), Meta(c)
    PROVE  GoesOn(c)
<1>1. /\ UNCHANGED <<docs, index, docCount, deleted, map, applied>>
      /\ call[c].at = "meta" /\ Return(c)
  BY DEF Meta, Run
<1>2. Right
  BY <1>1 DEF Sound, HalfDone
<1>3. call'[c] = Idle
  BY <1>1, ReturnIs DEF IInv, Types
<1> QED  BY <1>1, <1>2, <1>3, RightStays, ReturnGoesOn DEF Calm

\* Without SoftDelete nothing is deleted softly, and PermanentDelete and RestoreDeleted find
\* nothing they accept.
LEMMA LoadIdSound ==
    ASSUME IInv, NEW c \in Callers, Calm, Sound(call[c]), LoadId(c)
    PROVE  GoesOn(c)
<1> DEFINE o == docs[call[c].id]
<1>1. /\ UNCHANGED <<docs, index, docCount, deleted, map, applied>>
      /\ call[c].at = "load" /\ call[c] \in Call
  BY DEF LoadId, Run, data, history, IInv, Types
<1>2. Right /\ Right'
  BY <1>1, RightStays DEF Sound, HalfDone
<1>3. CASE Return(c)
  <2>1. call'[c] = Idle
    BY <1>3, ReturnIs DEF IInv, Types
  <2> QED  BY <1>1, <1>2, <2>1, ReturnGoesOn DEF Calm
<1>4. CASE /\ o # None /\ Accepts(call[c].op, o)
           /\ call' = [call EXCEPT ![c].at = "lock", ![c].obj = o]
  <2>1. call[c].op = "delete"
    BY <1>4 DEF Accepts, Calm
  <2>2. call'[c] = [call[c] EXCEPT !.at = "lock", !.obj = o]
    BY <1>4 DEF IInv, Types, Call
  <2>3. /\ call'[c].op = "delete" /\ call'[c].at = "lock" /\ call'[c].obj = o
        /\ call'[c].id = call[c].id
    BY <1>1, <2>1, <2>2 DEF Call
  <2>4. Sound(call[c])'
    BY <1>1, <1>2, <2>3 DEF Sound
  <2> QED  BY <1>1, <2>4 DEF GoesOn, Calm
<1> QED  BY <1>3, <1>4 DEF LoadId

LEMMA DeleteSound ==
    ASSUME IInv, NEW c \in Callers, Calm, Sound(call[c]),
           LockIndexes(c) \/ Unindex(c)
    PROVE  GoesOn(c)
<1> DEFINE o == call[c].obj
<1>1. /\ UNCHANGED <<docs, docCount, deleted, map, applied>>
      /\ call[c].at \in {"lock", "unindex"} /\ call[c].op \in OnId /\ call[c] \in Call
  BY DEF LockIndexes, Unindex, Run, data, history, IInv, Types, OnId
<1>2. call[c].op = "delete" /\ docs[call[c].id] = o
  BY <1>1 DEF Sound, OnId
<1>3. Right /\ Stored' = Stored /\ Stored \subseteq Objects
  BY <1>1, <1>2, StoredTypes DEF Sound, HalfDone, Stored, IInv
<1>4. o \in Objects /\ call[c].id \in Ids
  BY <1>1 DEF IInv, Asked, Types
<1>5. CASE LockIndexes(c)
  <2>1. Goto(c, "unindex") /\ index' = index
    BY <1>2, <1>5 DEF LockIndexes, data, Calm
  <2>2. call'[c] = [call[c] EXCEPT !.at = "unindex"]
    BY <2>1, GotoIs DEF IInv, Types, Places
  <2>3. /\ call'[c].op = "delete" /\ call'[c].at = "unindex" /\ call'[c].obj = o
        /\ call'[c].id = call[c].id
    BY <1>1, <1>2, <2>2 DEF Call
  <2>4. Right'
    BY <1>1, <1>3, <2>1, RightStays
  <2>5. Sound(call[c])'
    BY <1>1, <1>2, <2>3, <2>4 DEF Sound
  <2> QED  BY <1>1, <2>5 DEF GoesOn, Calm
<1>6. CASE Unindex(c)
  <2>1. Goto(c, "remove") /\ index' = WithoutKey(o)
    BY <1>6 DEF Unindex
  <2>2. call'[c] = [call[c] EXCEPT !.at = "remove"]
    BY <2>1, GotoIs DEF IInv, Types, Places
  <2>3. /\ call'[c].op = "delete" /\ call'[c].at = "remove" /\ call'[c].obj = o
        /\ call'[c].id = call[c].id
    BY <1>1, <1>2, <2>2 DEF Call
  <2>4. o \in Stored
    BY <1>2, <1>4, StoredTypes, CollectionAssumption DEF IInv
  <2>5. Holds(index', Stored' \ {o})
    BY <1>3, <2>1, <2>4, KeyRemoved DEF IInv, Right
  <2>6. Counts(0)'
    BY <1>1, <1>3 DEF Right, Counts
  <2>7. Sound(call[c])'
    BY <1>1, <1>2, <2>3, <2>5, <2>6 DEF Sound, HalfDone
  <2> QED  BY <1>1, <2>7 DEF GoesOn, Calm
<1> QED  BY <1>5, <1>6

LEMMA RemoveSound ==
    ASSUME IInv, NEW c \in Callers, Calm, Sound(call[c]), Remove(c) \/ Discount(c), IInv'
    PROVE  GoesOn(c)
<1> DEFINE o == call[c].obj
<1>1. /\ UNCHANGED <<index, deleted, map, applied>>
      /\ call[c].at \in {"remove", "count"} /\ call[c].op \in OnId /\ call[c] \in Call
  BY DEF Remove, Discount, Run, history, IInv, Types, OnId
<1>2. call[c].op = "delete"
  BY <1>1 DEF Sound, OnId
<1>3. o \in Objects /\ call[c].id \in Ids
  BY <1>1 DEF IInv, Asked, Types
<1>4. CASE Remove(c)
  <2>1. /\ Goto(c, "count") /\ docs' = [docs EXCEPT ![call[c].id] = None]
        /\ docCount' = docCount /\ call[c].at = "remove"
    BY <1>2, <1>4 DEF Remove, Calm, Run
  <2>2. call'[c] = [call[c] EXCEPT !.at = "count"]
    BY <2>1, GotoIs DEF IInv, Types, Places
  <2>3. call'[c].op = "delete" /\ call'[c].at = "count"
    BY <1>1, <1>2, <2>2 DEF Call
  <2>4. docs[call[c].id] = o /\ Counts(0) /\ Holds(index, Stored \ {o})
    BY <1>2, <2>1 DEF Sound
  <2>5. /\ Stored' = Stored \ {o}
        /\ Cardinality(Stored') = Cardinality(Stored) - 1 /\ Cardinality(Stored) \in Nat
    BY <1>3, <2>1, <2>4, OneRemoved, CollectionAssumption DEF IInv
  <2>6. Counts(-1)' /\ Holds(index', Stored')
    BY <1>1, <2>1, <2>4, <2>5 DEF Counts, IInv, Types
  <2> QED  BY <1>1, <2>3, <2>6 DEF GoesOn, Calm, Sound, HalfDone
<1>5. CASE Discount(c)
  <2>1. /\ Goto(c, "meta") /\ docs' = docs /\ docCount' = docCount - 1 /\ call[c].at = "count"
    BY <1>5 DEF Discount, Run
  <2>2. call'[c] = [call[c] EXCEPT !.at = "meta"]
    BY <2>1, GotoIs DEF IInv, Types, Places
  <2>3. call'[c].op = "delete" /\ call'[c].at = "meta"
    BY <1>1, <1>2, <2>2 DEF Call
  <2>4. Counts(-1) /\ Holds(index, Stored) /\ Stored' = Stored
    BY <1>2, <2>1 DEF Sound, Stored
  <2>5. Right'
    BY <1>1, <2>1, <2>4 DEF Counts, Right, IInv, Types
  <2> QED  BY <1>1, <2>3, <2>5 DEF GoesOn, Calm, Sound, HalfDone
<1> QED  BY <1>4, <1>5

\* A duplicate among the documents: the lock is given back, and unlocking it again is fatal.
LEMMA CreateSound ==
    ASSUME IInv, NEW c \in Callers, Calm, Sound(call[c]),
           CreateStart(c) \/ CreateBuild(c) \/ CreatePublish(c) \/ CreateUnlock(c)
    PROVE  GoesOn(c)
<1>1. /\ UNCHANGED <<docs, docCount, deleted, map, applied>>
      /\ call[c].op = "create" /\ call[c] \in Call
  BY DEF CreateStart, CreateBuild, CreatePublish, CreateUnlock, Run, data, history, IInv, Types
<1>2. Stored' = Stored /\ Stored \subseteq Objects
  BY <1>1, StoredTypes DEF Stored, IInv
<1>3. CASE CreateStart(c)
  <2>1. index' = index /\ call[c].at = "start" /\ (Return(c) \/ Goto(c, "build"))
    BY <1>3 DEF CreateStart, Run, data
  <2>2. Right'
    BY <1>1, <2>1, RightStays DEF Sound, HalfDone
  <2>3. CASE Return(c)
    <3>1. call'[c] = Idle
      BY <2>3, ReturnIs DEF IInv, Types
    <3> QED  BY <1>1, <2>2, <3>1, ReturnGoesOn DEF Calm
  <2>4. CASE Goto(c, "build")
    <3>1. call'[c] = [call[c] EXCEPT !.at = "build"]
      BY <2>4, GotoIs DEF IInv, Types, Places
    <3>2. call'[c].op = "create" /\ call'[c].at = "build"
      BY <1>1, <3>1 DEF Call
    <3> QED  BY <1>1, <2>2, <3>2 DEF GoesOn, Calm, Sound
  <2> QED  BY <2>1, <2>3, <2>4
<1>4. CASE CreateBuild(c)
  <2>1. index' = index /\ call[c].at = "build"
    BY <1>4 DEF CreateBuild, Run, data
  <2>2. Right'
    BY <1>1, <2>1, RightStays DEF Sound, HalfDone
  <2>3. {o \in Stored : ~Hidden(o)} = Stored
    BY DEF Hidden, Calm
  <2>4. /\ \E S \in SUBSET Stored :
             call' = [call EXCEPT ![c].at = "publish", ![c].copy = Over(S)]
               /\ (mu' = None \/ (~Alike(Stored) /\ S = Stored))
    BY <1>4, <2>3 DEF CreateBuild
  <2>5. PICK S \in SUBSET Stored :
             call' = [call EXCEPT ![c].at = "publish", ![c].copy = Over(S)]
               /\ (mu' = None \/ (~Alike(Stored) /\ S = Stored))
    BY <2>4
  <2>6. call'[c] = [call[c] EXCEPT !.at = "publish", !.copy = Over(S)]
    BY <1>1, <2>5 DEF IInv, Types, Call
  <2>7. call'[c].op = "create" /\ call'[c].at = "publish" /\ call'[c].copy = Over(S)
    BY <1>1, <2>6 DEF Call
  <2>8. mu' # None => ~Alike(Stored') /\ call'[c].copy = Over(Stored')
    BY <1>2, <2>5, <2>7
  <2>9. Sound(call[c])'
    BY <2>2, <2>7, <2>8 DEF Sound, Over, Alike
  <2> QED  BY <1>1, <2>9 DEF GoesOn, Calm
<1>5. CASE CreatePublish(c)
  <2>1. /\ index' = [index EXCEPT ![call[c].name] = [built |-> TRUE, data |-> call[c].copy]]
        /\ mu' = mu /\ Goto(c, "unlock") /\ call[c].at = "publish"
    BY <1>5 DEF CreatePublish, locks, Run
  <2>2. call'[c] = [call[c] EXCEPT !.at = "unlock"]
    BY <2>1, GotoIs DEF IInv, Types, Places
  <2>3. call'[c].op = "create" /\ call'[c].at = "unlock"
    BY <1>1, <2>2 DEF Call
  <2>4. /\ Right
        /\ mu # None => ~Alike(Stored) /\ call[c].copy = Over(Stored)
    BY <1>1, <2>1 DEF Sound, HalfDone
  <2>5. call[c].name \in Indexes
    BY <1>1 DEF IInv, Asked
  <2>6. mu' # None => Holds(index', Stored')
    BY <1>2, <2>1, <2>4, <2>5, OverHolds DEF IInv, Right
  <2>7. Counts(0)'
    BY <1>1, <1>2, <2>4 DEF Counts, Right
  <2>8. Sound(call[c])'
    BY <2>3, <2>6, <2>7 DEF Sound, HalfDone
  <2> QED  BY <1>1, <2>8 DEF GoesOn, Calm
<1>6. CASE CreateUnlock(c)
  <2>1. mu # None /\ Return(c) /\ index' = index /\ call[c].at = "unlock"
    BY <1>6 DEF CreateUnlock, Unlock, Calm, Run, data
  <2>2. Counts(0) /\ Holds(index, Stored)
    BY <1>1, <2>1 DEF Sound
  <2>3. call'[c] = Idle
    BY <2>1, ReturnIs DEF IInv, Types
  <2>4. Right'
    BY <1>1, <2>1, <2>2, RightStays DEF Right
  <2> QED  BY <1>1, <2>3, <2>4, ReturnGoesOn DEF Calm
<1> QED  BY <1>3, <1>4, <1>5, <1>6

LEMMA DropSound ==
    ASSUME IInv, NEW c \in Callers, Calm, Sound(call[c]),
           DropIndex(c) \/ DropReset(c) \/ DropCount(c)
    PROVE  GoesOn(c)
<1>1. UNCHANGED <<deleted, map, applied>> /\ call[c] \in Call
  BY DEF DropIndex, DropReset, DropCount, history, IInv, Types
<1>2. CASE DropIndex(c)
  <2>1. /\ index' = [index EXCEPT ![call[c].name] = NoIndex] /\ docs' = docs
        /\ docCount' = docCount /\ Return(c) /\ call[c].at = "start"
        /\ call[c].op = "dropIndex"
    BY <1>2 DEF DropIndex, Run
  <2>2. Right /\ Stored' = Stored
    BY <2>1 DEF Sound, HalfDone, Stored
  <2>3. \A n \in Indexes : index'[n].built => index'[n] = index[n]
    BY <2>1 DEF IInv, Types, NoIndex
  <2>4. Right'
    BY <2>1, <2>2, <2>3 DEF Right, Counts, Holds
  <2>5. call'[c] = Idle
    BY <2>1, ReturnIs DEF IInv, Types
  <2> QED  BY <1>1, <2>4, <2>5, ReturnGoesOn DEF Calm
<1>3. CASE DropReset(c)
  <2>1. /\ docs' = [i \in Ids |-> None] /\ index' = [n \in Indexes |-> NoIndex]
        /\ call[c].op = "drop"
    BY <1>3 DEF DropReset, Run
  <2>2. PICK at \in {"create", "count"} : Goto(c, at)
    BY <1>3 DEF DropReset
  <2>3. call'[c] = [call[c] EXCEPT !.at = at]
    <3>1. at \in Places
      BY DEF Places
    <3> QED  BY <2>2, <3>1, GotoIs DEF IInv, Types
  <2>4. call'[c].op = "drop" /\ call'[c].at \in {"create", "count"}
    BY <1>1, <2>1, <2>3 DEF Call
  <2>5. Stored' = {} /\ Built' = {}
    BY <2>1 DEF Stored, Built, NoIndex
  <2> QED  BY <1>1, <2>4, <2>5 DEF GoesOn, Calm, Sound, HalfDone
<1>4. CASE DropCount(c)
  <2>1. /\ UNCHANGED <<docs, index>> /\ docCount' = 0 /\ Return(c)
        /\ call[c].op = "drop" /\ call[c].at = "count"
    BY <1>4 DEF DropCount, Run
  <2>2. Stored' = {} /\ Built' = {}
    BY <2>1 DEF Sound, Stored, Built
  <2>3. Right'
    BY <2>1, <2>2, FS_EmptySet DEF Right, Counts, Holds, Built
  <2>4. call'[c] = Idle
    BY <2>1, ReturnIs DEF IInv, Types
  <2> QED  BY <1>1, <2>3, <2>4, ReturnGoesOn DEF Calm
<1> QED  BY <1>2, <1>3, <1>4

\* The map the call has loaded is still the current one when the call stores it.
LEMMA StoreMapSound ==
    ASSUME IInv, NEW c \in Callers, Calm, Sound(call[c]), StoreMap(c)
    PROVE  GoesOn(c)
<1> DEFINE r == call[c]
<1>1. /\ UNCHANGED <<docs, index, docCount, deleted>>
      /\ map' = [map EXCEPT ![r.name] = r.copy]
      /\ applied' = [applied EXCEPT ![r.name] =
                       IF r.op = "add" THEN @ \cup {r.field} ELSE @ \ {r.field}]
      /\ r.op \in {"add", "remove"} /\ r.at = "store"
  BY DEF StoreMap, Run, data
<1>2. Right /\ Right'
  BY <1>1, RightStays DEF Sound, HalfDone
<1>3. r.copy = IF r.op = "add" THEN map[r.name] \cup {r.field} ELSE map[r.name] \ {r.field}
  BY <1>1 DEF Sound
<1>4. map' = applied'
  BY <1>1, <1>3 DEF Calm
<1>5. CASE Return(c)
  <2>1. call'[c] = Idle
    BY <1>5, ReturnIs DEF IInv, Types
  <2> QED  BY <1>1, <1>2, <1>4, <2>1, ReturnGoesOn DEF Calm
<1>6. ASSUME NEW op \in {"create", "dropIndex"},
             call' = [call EXCEPT ![c] = [Idle EXCEPT !.at = "start", !.name = "unique_field",
                                              !.op = op]]
      PROVE  GoesOn(c)
  <2>1. call'[c].op = op /\ call'[c].at = "start"
    BY <1>6 DEF IInv, Types, Idle
  <2> QED  BY <1>1, <1>2, <1>4, <2>1 DEF GoesOn, Calm, Sound
<1> QED  BY <1>5, <1>6 DEF StoreMap

LEMMA StepSound ==
    ASSUME IInv, IInv', NEW c \in Callers, Calm, Sound(call[c]), Step(c)
    PROVE  GoesOn(c)
<1>1. CASE Mark(c) \/ Reindex(c)
  <2>1. \/ call[c].op = "delete" /\ call[c].at = "mark"
        \/ call[c].op = "restore" /\ call[c].at # "load"
    BY <1>1 DEF Mark, Reindex, Run
  <2>2. FALSE
    BY <2>1 DEF Sound
  <2> QED  BY <2>2
<1>2. CASE InsertCheck(c) \/ InsertUnique(c) \/ InsertStore(c)
  BY <1>2, InsertReadsSound, InsertStoreSound
<1>3. CASE InsertIndex(c) \/ InsertCount(c) \/ Meta(c)
  BY <1>3, InsertEndsSound, MetaSound
<1>4. CASE LoadId(c) \/ LockIndexes(c) \/ Unindex(c) \/ Remove(c) \/ Discount(c)
  BY <1>4, LoadIdSound, DeleteSound, RemoveSound
<1>5. CASE CreateStart(c) \/ CreateBuild(c) \/ CreatePublish(c) \/ CreateUnlock(c)
  BY <1>5, CreateSound
<1>6. CASE DropIndex(c) \/ DropReset(c) \/ DropCount(c) \/ StoreMap(c)
  BY <1>6, DropSound, StoreMapSound
<1> QED  BY <1>1, <1>2, <1>3, <1>4, <1>5, <1>6 DEF Step

-----------------------------------------------------------------------------
(* The invariant of one call at a time is inductive *)

\* When c has made its step and was the only call, it is the only one still.
LEMMA OnlyOneStill ==
    ASSUME call \in [Callers -> Call], call' \in [Callers -> Call],
           NEW c \in Callers, Only(c), \A d \in Callers : d # c => call'[d] = call[d],
           GoesOn(c)
    PROVE  OneAtATime'
<1>1. Only(c)'
  BY DEF Only
<1>2. PICK r : r = call'[c]
  OBVIOUS
<1>3. Sound(r)'
  BY <1>2 DEF GoesOn, Sound
<1>4. ASSUME NEW d \in Callers, Only(d)' PROVE Sound(call[d])'
  <2>1. call'[d] = r
    BY <1>1, <1>2, <1>4 DEF Only
  <2> QED  BY <1>3, <2>1 DEF Sound
<1>5. Quiet' => Right'
  BY <1>2, <1>3 DEF Quiet, Sound, Idle, HalfDone
<1>6. \A d, e \in Callers : call'[d] # Idle /\ call'[e] # Idle => d = e
  BY <1>1 DEF Only
<1> QED  BY <1>4, <1>5, <1>6 DEF OneAtATime, GoesOn

\* A step belongs to a call under way, and changes nobody else's.
StepFrame(c) ==
    /\ ~dead /\ call[c] # Idle /\ overlapped' = overlapped /\ soft' = soft
    /\ \A d \in Callers : d # c => call'[d] = call[d]

LEMMA StepFrames ==
    ASSUME call \in [Callers -> Call], NEW c \in Callers, Step(c)
    PROVE  StepFrame(c)
<1>1. CASE InsertCheck(c) \/ InsertUnique(c) \/ InsertStore(c) \/ InsertIndex(c)
  <2>1. CASE InsertCheck(c)
    BY <2>1 DEF InsertCheck, StepFrame, Run, Idle, Goto, Return, history, settings
  <2>2. CASE InsertUnique(c)
    BY <2>2 DEF InsertUnique, StepFrame, Run, Idle, Goto, Return, history, settings
  <2>3. CASE InsertStore(c)
    BY <2>3 DEF InsertStore, StepFrame, Run, Idle, Goto, Return, history, settings
  <2>4. CASE InsertIndex(c)
    BY <2>4 DEF InsertIndex, StepFrame, Run, Idle, Goto, Return, history, settings
  <2> QED  BY <1>1, <2>1, <2>2, <2>3, <2>4
<1>2. CASE InsertCount(c) \/ Meta(c) \/ LoadId(c) \/ LockIndexes(c)
  <2>1. CASE InsertCount(c)
    BY <2>1 DEF InsertCount, StepFrame, Run, Idle, Goto, Return, history, settings
  <2>2. CASE Meta(c)
    BY <2>2 DEF Meta, StepFrame, Run, Idle, Goto, Return, history, settings
  <2>3. CASE LoadId(c)
    BY <2>3 DEF LoadId, StepFrame, Run, Idle, Goto, Return, history, settings
  <2>4. CASE LockIndexes(c)
    BY <2>4 DEF LockIndexes, StepFrame, Run, Idle, Goto, Return, history, settings
  <2> QED  BY <1>2, <2>1, <2>2, <2>3, <2>4
<1>3. CASE Mark(c) \/ Unindex(c) \/ Remove(c)
  <2>1. CASE Mark(c)
    BY <2>1 DEF Mark, StepFrame, Run, Idle, Goto, Return, history, settings
  <2>2. CASE Unindex(c)
    BY <2>2 DEF Unindex, StepFrame, Run, Idle, Goto, Return, history, settings
  <2>3. CASE Remove(c)
    BY <2>3 DEF Remove, StepFrame, Run, Idle, Goto, Return, history, settings
  <2> QED  BY <1>3, <2>1, <2>2, <2>3
<1>4. CASE Discount(c) \/ Reindex(c) \/ CreateStart(c)
  <2>1. CASE Discount(c)
    BY <2>1 DEF Discount, StepFrame, Run, Idle, Goto, Return, history, settings
  <2>2. CASE Reindex(c)
    BY <2>2 DEF Reindex, StepFrame, Run, Idle, Goto, Return, history, settings
  <2>3. CASE CreateStart(c)
    BY <2>3 DEF CreateStart, StepFrame, Run, Idle, Goto, Return, history, settings
  <2> QED  BY <1>4, <2>1, <2>2, <2>3
<1>5. CASE CreateBuild(c) \/ CreatePublish(c) \/ CreateUnlock(c) \/ DropIndex(c)
  <2>1. CASE CreateBuild(c)
    BY <2>1 DEF CreateBuild, StepFrame, Run, Idle, Goto, Return, history, settings
  <2>2. CASE CreatePublish(c)
    BY <2>2 DEF CreatePublish, StepFrame, Run, Idle, Goto, Return, history, settings
  <2>3. CASE CreateUnlock(c)
    BY <2>3 DEF CreateUnlock, StepFrame, Run, Idle, Goto, Return, history, settings
  <2>4. CASE DropIndex(c)
    BY <2>4 DEF DropIndex, StepFrame, Run, Idle, Goto, Return, history, settings
  <2> QED  BY <1>5, <2>1, <2>2, <2>3, <2>4
<1>6. CASE DropReset(c) \/ DropCount(c) \/ StoreMap(c)
  <2>1. CASE DropReset(c)
    BY <2>1 DEF DropReset, StepFrame, Run, Idle, Goto, Return, history, settings
  <2>2. CASE DropCount(c)
    BY <2>2 DEF DropCount, StepFrame, Run, Idle, Goto, Return, history, settings
  <2>3. CASE StoreMap(c)
    BY <2>3 DEF StoreMap, StepFrame, Run, Idle, Goto, Return, history, settings
  <2> QED  BY <1>6, <2>1, <2>2, <2>3
<1> QED  BY <1>1, <1>2, <1>3, <1>4, <1>5, <1>6 DEF Step

LEMMA StepOneAtATime ==
    ASSUME IInv, IInv', OneAtATime, NEW c \in Callers, Step(c)
    PROVE  OneAtATime'
<1> SUFFICES ASSUME ~dead', ~overlapped', ~soft' PROVE OneAtATime'
  BY DEF OneAtATime
<1>1. ~dead /\ ~overlapped /\ ~soft /\ call[c] # Idle
  BY StepFrames DEF StepFrame, IInv, Types
<1>2. \A d \in Callers : d # c => call'[d] = call[d]
  BY StepFrames DEF StepFrame, IInv, Types
<1>3. Only(c) /\ Sound(call[c]) /\ Calm
  BY <1>1 DEF OneAtATime, Only, Calm
<1>4. GoesOn(c)
  BY <1>3, StepSound
<1> QED  BY <1>2, <1>3, <1>4, OnlyOneStill DEF IInv, Types

\* A call that begins while nothing is under way finds the collection right.
LEMMA BeginOneAtATime ==
    ASSUME IInv, IInv', OneAtATime, NEW c \in Callers, NEW r \in Call, Begin(c, r),
           r.op = "insert" => r.at = "check",
           r.op = "drop" => r.at = "lock",
           r.op \in OnId => r.at = "load",
           r.op = "create" => r.at = "start",
           r.op = "add" => r.copy = map[r.name] \cup {r.field},
           r.op = "remove" => r.copy = map[r.name] \ {r.field}
    PROVE  OneAtATime'
<1> SUFFICES ASSUME ~dead', ~overlapped', ~soft' PROVE OneAtATime'
  BY DEF OneAtATime
<1>1. /\ UNCHANGED <<soft, docs, deleted, index, docCount, map, applied, dead>>
      /\ call' = [call EXCEPT ![c] = r] /\ call[c] = Idle
      /\ ~overlapped /\ \A d \in Callers : call[d] = Idle
  BY DEF Begin, settings, data
<1>2. Right /\ Right' /\ deleted = {} /\ map = applied
  BY <1>1, RightStays DEF OneAtATime, Quiet
<1>3. /\ call'[c] = r /\ \A d \in Callers : d # c => call'[d] = call[d]
  BY <1>1, SetIs DEF IInv, Types
<1>4. Sound(r)'
  <2>1. map' = map
    BY <1>1
  <2> QED  BY <1>2, <2>1 DEF Sound, OnId
<1>5. GoesOn(c)
  BY <1>1, <1>2, <1>3, <1>4 DEF GoesOn, Sound
<1> QED  BY <1>1, <1>3, <1>5, OnlyOneStill DEF Only, IInv, Types

LEMMA StartOneAtATime ==
    ASSUME IInv, IInv', OneAtATime, NEW c \in Callers, Start(c)
    PROVE  OneAtATime'
<1>1. CASE BeginInsert(c)
  <2>1. PICK o \in Objects : Begin(c, [Idle EXCEPT !.op = "insert", !.at = "check", !.obj = o])
    BY <1>1 DEF BeginInsert
  <2> DEFINE r == [Idle EXCEPT !.op = "insert", !.at = "check", !.obj = o]
  <2>2. r \in Call /\ r.op = "insert" /\ r.at = "check"
    BY DEF Idle, Call, Ops, Places
  <2> HIDE DEF r
  <2> QED  BY <2>1, <2>2, BeginOneAtATime DEF r, HalfDone, OnId
<1>2. CASE BeginOnId(c)
  <2>1. PICK i \in Ids, op \in OnId : Begin(c, [Idle EXCEPT !.op = op, !.at = "load", !.id = i])
    BY <1>2 DEF BeginOnId, OnId
  <2> DEFINE r == [Idle EXCEPT !.op = op, !.at = "load", !.id = i]
  <2>2. r \in Call /\ r.op = op /\ r.at = "load"
    BY DEF Idle, Call, Ops, Places, OnId
  <2> HIDE DEF r
  <2> QED  BY <2>1, <2>2, BeginOneAtATime DEF r, HalfDone, OnId
<1>3. CASE BeginOnIndex(c)
  <2>1. PICK n \in Indexes, op \in {"create", "dropIndex"} :
          Begin(c, [Idle EXCEPT !.op = op, !.at = "start", !.name = n])
    BY <1>3 DEF BeginOnIndex
  <2> DEFINE r == [Idle EXCEPT !.op = op, !.at = "start", !.name = n]
  <2>2. r \in Call /\ r.op = op /\ r.at = "start"
    BY DEF Idle, Call, Ops, Places
  <2> HIDE DEF r
  <2> QED  BY <2>1, <2>2, BeginOneAtATime DEF r, HalfDone, OnId
<1>4. CASE BeginOnMap(c)
  <2>0. PICK m \in Maps, f \in Fields, add \in BOOLEAN :
          Begin(c, [Idle EXCEPT !.op = IF add THEN "add" ELSE "remove", !.at = "store",
                         !.name = m, !.field = f,
                         !.copy = IF add THEN map[m] \cup {f} ELSE map[m] \ {f}])
    BY <1>4 DEF BeginOnMap
  <2>1. PICK op \in {"add", "remove"}, new \in SUBSET Fields :
          /\ Begin(c, [Idle EXCEPT !.op = op, !.at = "store", !.name = m, !.field = f,
                         !.copy = new])
          /\ new = IF op = "add" THEN map[m] \cup {f} ELSE map[m] \ {f}
    <3>1. map[m] \cup {f} \in SUBSET Fields /\ map[m] \ {f} \in SUBSET Fields
      BY DEF IInv, Types
    <3>2. CASE add
      <4>1. Begin(c, [Idle EXCEPT !.op = "add", !.at = "store", !.name = m, !.field = f,
                             !.copy = map[m] \cup {f}])
        BY <2>0, <3>2
      <4> QED  BY <3>1, <4>1
    <3>3. CASE ~add
      <4>1. Begin(c, [Idle EXCEPT !.op = "remove", !.at = "store", !.name = m, !.field = f,
                             !.copy = map[m] \ {f}])
        BY <2>0, <3>3
      <4> QED  BY <3>1, <4>1
    <3> QED  BY <3>2, <3>3
  <2> DEFINE r == [Idle EXCEPT !.op = op, !.at = "store", !.name = m, !.field = f,
                         !.copy = new]
  <2>2. /\ r \in Call /\ r.op = op /\ r.at = "store" /\ r.name = m /\ r.field = f
        /\ r.copy = new
    BY DEF Idle, Call, Ops, Places
  <2> HIDE DEF r
  <2> QED  BY <2>1, <2>2, BeginOneAtATime DEF r, HalfDone, OnId
<1>5. CASE BeginDrop(c)
  <2>1. Begin(c, [Idle EXCEPT !.op = "drop", !.at = "lock"])
    BY <1>5 DEF BeginDrop
  <2> DEFINE r == [Idle EXCEPT !.op = "drop", !.at = "lock"]
  <2>2. r \in Call /\ r.op = "drop" /\ r.at = "lock"
    BY DEF Idle, Call, Ops, Places
  <2> HIDE DEF r
  <2> QED  BY <2>1, <2>2, BeginOneAtATime DEF r, HalfDone, OnId
<1> QED  BY <1>1, <1>2, <1>3, <1>4, <1>5 DEF Start

LEMMA OthersOneAtATime ==
    ASSUME OneAtATime, SetField \/ (\E i \in Ids : FindExpired(i)) \/ UNCHANGED vars
    PROVE  OneAtATime'
<1>1. CASE SetField
  BY <1>1 DEF SetField, OneAtATime
<1>2. CASE \E i \in Ids : FindExpired(i)
  <2>1. soft'
    BY <1>2 DEF FindExpired, settings
  <2> QED  BY <2>1 DEF OneAtATime
<1>3. CASE UNCHANGED vars
  <2>1. /\ UNCHANGED <<soft, docs, deleted, index, docCount, mu, map, call, dead, applied,
                       overlapped>>
    BY <1>3 DEF vars, settings, data, locks, history
  <2>2. /\ Quiet' = Quiet /\ Right' = Right /\ Stored' = Stored /\ Built' = Built
        /\ \A c \in Callers : Only(c)' = Only(c)
    BY <2>1, RightStays DEF Quiet, Only
  <2>3. ASSUME NEW c \in Callers, Sound(call[c]) PROVE Sound(call[c])'
    <3>1. PICK r : r = call[c]
      OBVIOUS
    <3>2. Sound(r) => Sound(r)'
      BY <2>1, <2>2 DEF Sound, Counts, Holds, Free, Over, Alike
    <3>3. Sound(r)'
      BY <2>3, <3>1, <3>2
    <3> QED  BY <2>1, <3>1, <3>3
  <2> QED  BY <2>1, <2>2, <2>3 DEF OneAtATime
<1> QED  BY <1>1, <1>2, <1>3

LEMMA InitOneAtATime == Init => OneAtATime
<1> SUFFICES ASSUME Init PROVE OneAtATime
  OBVIOUS
<1>1. Stored = {}
  BY DEF Init, Stored
<1>2. \A n \in Indexes, k \in Keys : index[n].data[k] = None
  BY DEF Init, NoIndex
<1>3. Right
  BY <1>1, <1>2, FS_EmptySet DEF Right, Counts, Holds, Init, Alike
<1>4. Sound(Idle)
  BY <1>3 DEF Sound, Idle
<1>5. \A c \in Callers : call[c] = Idle
  BY DEF Init
<1>6. \A c \in Callers : Sound(call[c])
  BY <1>4, <1>5 DEF Sound
<1> QED  BY <1>3, <1>5, <1>6 DEF OneAtATime, Init

\* The invariant of a collection that is called by one goroutine at a time, without SoftDelete.
THEOREM OneAtATimeHolds == Spec => []OneAtATime
<1>1. IInv /\ IInv' /\ OneAtATime /\ [Next]_vars => OneAtATime'
  BY StepOneAtATime, StartOneAtATime, OthersOneAtATime DEF Next
<1> QED  BY <1>1, InitOneAtATime, IInvHolds, PTL DEF Spec

\* A collection that is called by one goroutine at a time and does not delete softly keeps
\* docCount, every unique index and the constraints in step with its documents, over every
\* sequence of inserts, deletes, drops and new indexes that leaves the process alive.
THEOREM SequentialHolds == Spec => []SequentialContract
<1>1. IInv /\ OneAtATime => SequentialContract
  <2> SUFFICES ASSUME IInv, OneAtATime, Quiet, ~overlapped, ~soft
               PROVE  /\ docCount = Cardinality(Stored)
                      /\ \A n \in Built, k \in Keys :
                           LET here == {o \in Stored : KeyOf[o] = k} IN
                           /\ Cardinality(here) <= 1
                           /\ index[n].data[k] = IF here = {} THEN None
                                                 ELSE IdOf[CHOOSE o \in here : TRUE]
                      /\ map = applied
    BY DEF SequentialContract
  <2>1. Right /\ map = applied
    BY DEF OneAtATime, Quiet
  <2>2. docCount = Cardinality(Stored)
    BY <2>1 DEF Right, Counts, IInv, Types
  <2>3. ASSUME NEW n \in Built, NEW k \in Keys, NEW here, here = {o \in Stored : KeyOf[o] = k}
        PROVE  /\ Cardinality(here) <= 1
               /\ index[n].data[k] = IF here = {} THEN None
                                     ELSE IdOf[CHOOSE o \in here : TRUE]
    <3>1. /\ n \in Indexes /\ ~Alike(Stored)
          /\ \A o \in Stored : index[n].data[KeyOf[o]] = IdOf[o]
          /\ index[n].data[k] # None => \E o \in Stored : KeyOf[o] = k
      BY <2>1, <2>3 DEF Right, Holds, Built
    <3>2. CASE here = {}
      BY <2>3, <3>1, <3>2, FS_EmptySet
    <3>3. CASE here # {}
      <4>1. PICK p \in here : p = CHOOSE o \in here : TRUE
        BY <3>3
      <4>2. here = {p}
        BY <2>3, <3>1, <4>1 DEF Alike
      <4>3. Cardinality(here) = 1
        BY <4>2, FS_Singleton
      <4>4. index[n].data[k] = IdOf[p]
        BY <2>3, <3>1, <4>1
      <4>5. index[n].data[k] = IF here = {} THEN None ELSE IdOf[CHOOSE o \in here : TRUE]
        BY <3>3, <4>1, <4>4
      <4> QED  BY <4>3, <4>5
    <3> QED  BY <3>2, <3>3
  <2> QED  BY <2>1, <2>2, <2>3
<1> QED  BY <1>1, IInvHolds, OneAtATimeHolds, PTL
=============================================================================
