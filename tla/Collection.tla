----------------------------- MODULE Collection -----------------------------
(***************************************************************************)
(* Collection of internal/storage/collection.go: Insert, Delete,           *)
(* PermanentDelete, RestoreDeleted, Find with a time to live, CreateIndex, *)
(* DropIndex, Drop and the copy-on-write maps of constraints and roles,    *)
(* called by several goroutines.                                           *)
(*                                                                         *)
(* An Update, and any SetField, panics before it changes anything: see     *)
(* SetField.  So a document reaches Insert without fields, and the value   *)
(* every index extracts from it is the same; KeyOf keeps that a parameter. *)
(* Triggers only write to the audit log and are left out, and so are the   *)
(* sizes and times of the metadata.  A Range over a map is one step.       *)
(* One step, too, are the restore of a document with its entries in the    *)
(* indexes, whose last section under c.mu only sets a time, and the soft   *)
(* delete by which a Find meets an expired document (Load, mark, Store).   *)
(***************************************************************************)
EXTENDS Integers, Sequences, FiniteSets

CONSTANTS
    None,
    Callers,       \* goroutines that call the collection; one of them may be ttlCleanupLoop
    Objects,       \* the *Document values callers insert, each in one Insert
    Ids, IdOf,     \* Objects -> Ids
    Keys, KeyOf,   \* Objects -> Keys, what extractIndexValue makes of its fields
    MaxDocuments,  \* Settings.MaxDocuments, 0 for no limit
    Fields,        \* bound: names in the maps of constraints and roles
    MaxCalls       \* bound

ASSUME CollectionAssumption ==
    /\ IsFiniteSet(Callers) /\ IsFiniteSet(Objects)
    /\ IdOf \in [Objects -> Ids] /\ KeyOf \in [Objects -> Keys]
    /\ None \notin Objects \cup Ids \cup Callers
    /\ MaxDocuments \in Nat /\ MaxCalls \in Nat

\* "_id_" of AutoIndexID, and the index that AddUniqueConstraint makes; both are unique.
Indexes == {"_id_", "unique_field"}
\* requiredFields, uniqueFields; the other constraints and the roles are kept alike and
\* never refuse a document without fields.
Maps == {"required", "unique"}
NoIndex == [built |-> FALSE, data |-> [k \in Keys |-> None]]

VARIABLES
    soft, auto,  \* Settings.SoftDelete and AutoIndexID
    docs,        \* Ids -> the object stored, None when there is none
    deleted,     \* objects with DeletedAt > 0
    index,       \* Indexes -> whether it is in c.indexes, and its data: Keys -> Ids
    docCount,
    metaCount,   \* metadata.DocumentCount
    mu, indexMu, \* who holds them
    map,         \* Maps -> the fields of its current map
    call,        \* Callers -> the call under way
    dead,        \* the process has died
    inserted,    \* history: objects whose Insert returned nil
    touched,     \* history: ids that some call was asked to delete
    applied,     \* history: Maps -> what the calls that have ended made of it in turn
    overlapped,  \* history: a call started while another was under way
    calls        \* history

settings == <<soft, auto>>
data == <<docs, deleted, index, docCount, metaCount>>
locks == <<mu, indexMu>>
history == <<inserted, touched, applied, overlapped, calls>>
vars == <<settings, data, locks, map, call, dead, history>>

(* A call: what it does, where it is, the object or the id, the object it has loaded, the
   index or the map, the field, and the data or the map it is about to publish. *)
Idle == [op |-> "none", at |-> "none", id |-> None, obj |-> None, name |-> None,
         field |-> None, copy |-> None]

Init ==
    /\ soft \in BOOLEAN /\ auto \in BOOLEAN
    /\ docs = [i \in Ids |-> None] /\ deleted = {}
    /\ index = [n \in Indexes |-> [NoIndex EXCEPT !.built = auto /\ n = "_id_"]]
    /\ docCount = 0 /\ metaCount = 0
    /\ mu = None /\ indexMu = None
    /\ map = [m \in Maps |-> {}] /\ applied = map
    /\ call = [c \in Callers |-> Idle]
    /\ dead = FALSE
    /\ inserted = {} /\ touched = {} /\ overlapped = FALSE /\ calls = 0

Built == {n \in Indexes : index[n].built}
Stored == {docs[i] : i \in Ids} \ {None}
\* doc.IsDeleted() && SoftDelete
Hidden(o) == soft /\ o \in deleted

-----------------------------------------------------------------------------
(* The small decisions.  A definition called ..._slip is a slip in the one below it,
   used by no action. *)

\* c.docs.LoadOrStore stores only when the id is free
MayStore_slip(o) == TRUE
MayStore(o) == docs[IdOf[o]] = None

\* index.data.Delete of the value of every index
WithoutKey_slip(o) == index
WithoutKey(o) == [n \in Indexes |-> IF index[n].built
                    THEN [index[n] EXCEPT !.data[KeyOf[o]] = None] ELSE index[n]]

\* c.docCount.Load() for the metadata, with c.mu held
Counted_slip == metaCount + 1
Counted == docCount

\* CreateIndex finds the index there: the defer gives c.mu back
GivenBack_slip(c) == c
GivenBack(c) == None

-----------------------------------------------------------------------------
Run(c, op, at) == call[c].op = op /\ call[c].at = at /\ ~dead
Goto(c, at) == call' = [call EXCEPT ![c].at = at]
Return(c) == call' = [call EXCEPT ![c] = Idle]

\* A call begins; an Insert before it has looked at anything.
Begin(c, request) ==
    /\ ~dead /\ call[c] = Idle /\ calls < MaxCalls
    /\ calls' = calls + 1
    /\ call' = [call EXCEPT ![c] = request]
    /\ overlapped' = (overlapped \/ \E d \in Callers : call[d] # Idle)
    /\ UNCHANGED <<settings, data, locks, map, dead, inserted, applied>>

BeginInsert(c) ==
    /\ \E o \in Objects : /\ \A d \in Callers : call[d].obj # o
                          /\ o \notin inserted
                          /\ Begin(c, [Idle EXCEPT !.op = "insert", !.at = "check", !.obj = o])
    /\ UNCHANGED touched

\* Delete also by the TTL loop; PermanentDelete, RestoreDeleted
BeginOnId(c) ==
    \E i \in Ids, op \in {"delete", "permanent", "restore"} :
        /\ Begin(c, [Idle EXCEPT !.op = op, !.at = "load", !.id = i])
        /\ touched' = touched \cup {i}

BeginOnIndex(c) ==
    /\ \E n \in Indexes, op \in {"create", "dropIndex"} :
           Begin(c, [Idle EXCEPT !.op = op, !.at = "start", !.name = n])
    /\ UNCHANGED touched

\* Add...Constraint, Remove...Constraint, SetACL and RevokeACL load the map.
BeginOnMap(c) ==
    /\ \E m \in Maps, f \in Fields, add \in BOOLEAN :
           Begin(c, [Idle EXCEPT !.op = IF add THEN "add" ELSE "remove", !.at = "store",
                         !.name = m, !.field = f,
                         !.copy = IF add THEN map[m] \cup {f} ELSE map[m] \ {f}])
    /\ UNCHANGED touched

BeginDrop(c) ==
    /\ Begin(c, [Idle EXCEPT !.op = "drop", !.at = "lock"])
    /\ touched' = Ids

-----------------------------------------------------------------------------
(* Insert *)

Full == MaxDocuments > 0 /\ docCount >= MaxDocuments

\* ValidateDocument and the limit; a document without fields lacks any required one.
InsertCheck(c) ==
    /\ Run(c, "insert", "check")
    /\ \/ (map["required"] # {} \/ Full) /\ Return(c)
       \/ map["required"] = {} /\ ~Full /\ Goto(c, "unique")
    /\ UNCHANGED <<settings, data, locks, map, dead, history>>

\* checkUniqueConstraints
InsertUnique(c) ==
    /\ Run(c, "insert", "unique")
    /\ IF \E n \in Built : index[n].data[KeyOf[call[c].obj]] # None
       THEN Return(c) ELSE Goto(c, "store")
    /\ UNCHANGED <<settings, data, locks, map, dead, history>>

InsertStore(c) ==
    /\ Run(c, "insert", "store")
    /\ LET o == call[c].obj IN
       IF MayStore(o)
       THEN /\ docs' = [docs EXCEPT ![IdOf[o]] = o]
            /\ deleted' = deleted \ {o}
            /\ Goto(c, "index")
       ELSE Return(c) /\ UNCHANGED <<docs, deleted>>
    /\ UNCHANGED <<settings, index, docCount, metaCount, locks, map, dead, history>>

\* addToIndexes: LoadOrStore in a unique index
WithKey(o) == [n \in Indexes |->
    IF index[n].built /\ index[n].data[KeyOf[o]] = None
    THEN [index[n] EXCEPT !.data[KeyOf[o]] = IdOf[o]] ELSE index[n]]

InsertIndex(c) ==
    /\ Run(c, "insert", "index") /\ Goto(c, "count")
    /\ index' = WithKey(call[c].obj)
    /\ UNCHANGED <<settings, docs, deleted, docCount, metaCount, locks, map, dead, history>>

InsertCount(c) ==
    /\ Run(c, "insert", "count") /\ Goto(c, "meta")
    /\ docCount' = docCount + 1
    /\ UNCHANGED <<settings, docs, deleted, index, metaCount, locks, map, dead, history>>

\* the update of the metadata under c.mu that ends Insert, Delete and PermanentDelete
Meta(c) ==
    /\ \E op \in {"insert", "delete", "permanent"} : Run(c, op, "meta")
    /\ mu = None
    /\ metaCount' = Counted
    /\ inserted' = IF call[c].op = "insert" THEN inserted \cup {call[c].obj} ELSE inserted
    /\ Return(c)
    /\ UNCHANGED <<settings, docs, deleted, index, docCount, locks, map, dead, touched,
                   applied, overlapped, calls>>

-----------------------------------------------------------------------------
(* Delete, PermanentDelete, RestoreDeleted, Find *)

Accepts(op, o) == \/ op = "delete"
                  \/ op = "permanent" /\ o \in deleted
                  \/ op = "restore" /\ o \in deleted

LoadId(c) ==
    /\ \E op \in {"delete", "permanent", "restore"} : Run(c, op, "load")
    /\ LET o == docs[call[c].id] IN
       IF o # None /\ Accepts(call[c].op, o)
       THEN call' = [call EXCEPT ![c].at = "lock", ![c].obj = o]
       ELSE Return(c)
    /\ UNCHANGED <<settings, data, locks, map, dead, history>>

LockIndexes(c) ==
    /\ \E op \in {"delete", "permanent", "restore"} : Run(c, op, "lock")
    /\ indexMu = None /\ indexMu' = c
    /\ Goto(c, IF call[c].op = "permanent" \/ (call[c].op = "delete" /\ ~soft)
               THEN "unindex" ELSE "mark")
    /\ UNCHANGED <<settings, data, mu, map, dead, history>>

\* doc.SoftDelete() and c.docs.Store, or doc.Restore(): the object that was loaded, though
\* another call may have removed it from the map.
Mark(c) ==
    /\ \/ /\ Run(c, "delete", "mark") /\ deleted' = deleted \cup {call[c].obj}
          /\ docs' = [docs EXCEPT ![call[c].id] = call[c].obj]
          /\ Goto(c, "unindex")
       \/ /\ Run(c, "restore", "mark") /\ deleted' = deleted \ {call[c].obj}
          /\ UNCHANGED docs
          /\ Goto(c, "reindex")
    /\ UNCHANGED <<settings, index, docCount, metaCount, locks, map, dead, history>>

Unindex(c) ==
    /\ Run(c, "delete", "unindex") \/ Run(c, "permanent", "unindex")
    /\ index' = WithoutKey(call[c].obj)
    /\ Goto(c, "remove")
    /\ UNCHANGED <<settings, docs, deleted, docCount, metaCount, locks, map, dead, history>>

\* c.docs.Delete, unless it is a soft delete; indexMu is released.
Remove(c) ==
    /\ Run(c, "delete", "remove") \/ Run(c, "permanent", "remove")
    /\ docs' = IF call[c].op = "delete" /\ soft THEN docs
               ELSE [docs EXCEPT ![call[c].id] = None]
    /\ indexMu' = None
    /\ Goto(c, "count")
    /\ UNCHANGED <<settings, deleted, index, docCount, metaCount, mu, map, dead, history>>

\* Also after a soft delete, and again when that document is deleted permanently.
Discount(c) ==
    /\ Run(c, "delete", "count") \/ Run(c, "permanent", "count")
    /\ docCount' = docCount - 1
    /\ Goto(c, "meta")
    /\ UNCHANGED <<settings, docs, deleted, index, metaCount, locks, map, dead, history>>

\* addToIndexes, c.docs.Store, the unlock; docCount stays as the delete left it.
Reindex(c) ==
    /\ Run(c, "restore", "reindex")
    /\ index' = WithKey(call[c].obj)
    /\ docs' = [docs EXCEPT ![call[c].id] = call[c].obj]
    /\ indexMu' = None
    /\ Return(c)
    /\ UNCHANGED <<settings, deleted, docCount, metaCount, mu, map, dead, history>>

\* A Find of an expired document: a soft delete of its own that leaves index and count
\* alone.  Without SoftDelete it calls Delete.
FindExpired(i) ==
    /\ ~dead /\ soft /\ docs[i] # None /\ docs[i] \notin deleted /\ calls < MaxCalls
    /\ calls' = calls + 1
    /\ deleted' = deleted \cup {docs[i]}
    /\ touched' = touched \cup {i}
    /\ overlapped' = (overlapped \/ \E c \in Callers : call[c] # Idle)
    /\ UNCHANGED <<settings, docs, index, docCount, metaCount, locks, map, call, dead,
                   inserted, applied>>

-----------------------------------------------------------------------------
(* CreateIndex, DropIndex, Drop *)

\* mu.Unlock: fatal when nobody holds it, even when somebody else does not notice
Unlock == IF mu = None THEN dead' = TRUE /\ UNCHANGED mu ELSE mu' = None /\ UNCHANGED dead

CreateStart(c) ==
    /\ Run(c, "create", "start") /\ mu = None
    /\ IF index[call[c].name].built
       THEN Return(c) /\ mu' = GivenBack(c)
       ELSE mu' = c /\ Goto(c, "build")
    /\ UNCHANGED <<settings, data, indexMu, map, dead, history>>

\* the index of documents that have different values
Over(objects) == [k \in Keys |-> IF \E o \in objects : KeyOf[o] = k
                                 THEN IdOf[CHOOSE o \in objects : KeyOf[o] = k] ELSE None]
Alike(objects) == \E o, p \in objects : o # p /\ KeyOf[o] = KeyOf[p]

\* At a duplicate the loop unlocks c.mu and ends; the index is published all the same.
CreateBuild(c) ==
    /\ Run(c, "create", "build")
    /\ LET visible == {o \in Stored : ~Hidden(o)} IN
       \/ /\ ~Alike(visible) /\ UNCHANGED mu
          /\ call' = [call EXCEPT ![c].at = "publish", ![c].copy = Over(visible)]
       \/ /\ Alike(visible) /\ mu' = None
          /\ \E some \in SUBSET visible :
                /\ ~Alike(some)
                /\ \E o \in visible \ some : Alike(some \cup {o})
                /\ call' = [call EXCEPT ![c].at = "publish", ![c].copy = Over(some)]
    /\ UNCHANGED <<settings, data, indexMu, map, dead, history>>

CreatePublish(c) ==
    /\ Run(c, "create", "publish") /\ Goto(c, "unlock")
    /\ index' = [index EXCEPT ![call[c].name] = [built |-> TRUE, data |-> call[c].copy]]
    /\ UNCHANGED <<settings, docs, deleted, docCount, metaCount, locks, map, dead, history>>

CreateUnlock(c) ==
    /\ Run(c, "create", "unlock") /\ Return(c)
    /\ Unlock
    /\ UNCHANGED <<settings, data, indexMu, map, history>>

DropIndex(c) ==
    /\ Run(c, "dropIndex", "start") /\ Return(c)
    /\ index' = [index EXCEPT ![call[c].name] = NoIndex]
    /\ UNCHANGED <<settings, docs, deleted, docCount, metaCount, locks, map, dead, history>>

\* With AutoIndexID, Drop goes on to CreateIndex, which waits for the lock Drop holds.
DropReset(c) ==
    /\ Run(c, "drop", "lock") /\ mu = None /\ mu' = c
    /\ docs' = [i \in Ids |-> None]
    /\ index' = [n \in Indexes |-> NoIndex]
    /\ Goto(c, IF auto THEN "create" ELSE "count")
    /\ UNCHANGED <<settings, deleted, docCount, metaCount, indexMu, map, dead, history>>

DropCount(c) ==
    /\ Run(c, "drop", "count") /\ Return(c)
    /\ docCount' = 0 /\ metaCount' = 0
    /\ Unlock
    /\ UNCHANGED <<settings, docs, deleted, index, indexMu, map, history>>

-----------------------------------------------------------------------------
(* Constraints and roles: the map that was loaded, with the change, replaces the current
   one.  Those of "unique" go on to make or drop an index. *)

StoreMap(c) ==
    /\ \E op \in {"add", "remove"} : Run(c, op, "store")
    /\ LET r == call[c] IN
       /\ map' = [map EXCEPT ![r.name] = r.copy]
       /\ applied' = [applied EXCEPT ![r.name] =
                        IF r.op = "add" THEN @ \cup {r.field} ELSE @ \ {r.field}]
       /\ IF r.name = "unique"
          THEN call' = [call EXCEPT ![c] = [Idle EXCEPT !.at = "start", !.name = "unique_field",
                            !.op = IF r.op = "add" THEN "create" ELSE "dropIndex"]]
          ELSE Return(c)
    /\ UNCHANGED <<settings, data, locks, dead, inserted, touched, overlapped, calls>>

\* SetField, DeleteField and Document.Update, so also Collection.Update: the fields are a
\* map, atomic.Value compares the map it holds with the old one, and maps do not compare.
\* The process dies, save in an HTTP handler, which recovers with nothing changed.
SetField ==
    /\ ~dead /\ calls < MaxCalls /\ calls' = calls + 1
    /\ dead' = TRUE
    /\ UNCHANGED <<settings, data, locks, map, call, inserted, touched, applied, overlapped>>

-----------------------------------------------------------------------------
Start(c) == BeginInsert(c) \/ BeginOnId(c) \/ BeginOnIndex(c) \/ BeginOnMap(c) \/ BeginDrop(c)

Step(c) ==
    \/ InsertCheck(c) \/ InsertUnique(c) \/ InsertStore(c) \/ InsertIndex(c) \/ InsertCount(c)
    \/ Meta(c) \/ LoadId(c) \/ LockIndexes(c) \/ Mark(c) \/ Unindex(c) \/ Remove(c)
    \/ Discount(c) \/ Reindex(c) \/ CreateStart(c) \/ CreateBuild(c) \/ CreatePublish(c)
    \/ CreateUnlock(c) \/ DropIndex(c) \/ DropReset(c) \/ DropCount(c) \/ StoreMap(c)

Next ==
    \/ \E c \in Callers : Start(c) \/ Step(c)
    \/ \E i \in Ids : FindExpired(i)
    \/ SetField

\* A call goes on once it has begun.
Spec == Init /\ [][Next]_vars /\ \A c \in Callers : WF_vars(Step(c))

-----------------------------------------------------------------------------
TypeOK ==
    /\ docs \in [Ids -> Objects \cup {None}] /\ deleted \subseteq Objects
    /\ \A n \in Indexes : index[n].data \in [Keys -> Ids \cup {None}]
    /\ mu \in Callers \cup {None} /\ indexMu \in Callers \cup {None}
    /\ map \in [Maps -> SUBSET Fields]

Quiet == ~dead /\ \A c \in Callers : call[c] = Idle

(* Called by one goroutine at a time and without SoftDelete, the collection is what its
   calls make of it: every unique index holds exactly the documents stored, no two of which
   share a value, docCount is their number, and every change of a constraint is in force
   (Insert, Delete, CreateIndex, Drop, Add...Constraint). *)
SequentialContract ==
    (Quiet /\ ~overlapped /\ ~soft) =>
        /\ docCount = Cardinality(Stored)
        /\ \A n \in Built, k \in Keys :
               LET here == {o \in Stored : KeyOf[o] = k} IN
               /\ Cardinality(here) <= 1
               /\ index[n].data[k] = IF here = {} THEN None ELSE IdOf[CHOOSE o \in here : TRUE]
        /\ map = applied

(* Once no call is under way the metadata tell the number docCount has come to, however the
   calls were interleaved (the c.mu section that ends Insert, Delete, Drop). *)
MetadataCatchesUp == Quiet => metaCount = docCount

(* A document whose Insert returned nil stays the one under its id until some call is asked
   to delete that id: of two inserts of one id only one succeeds (LoadOrStore in Insert). *)
InsertedStays ==
    \A o \in inserted : IdOf[o] \notin touched => docs[IdOf[o]] = o

(* Every call returns, whatever else goes on, unless the process has died or a Drop with
   AutoIndexID waits for the lock it holds (c.mu, indexMu). *)
DropStuck == \E c \in Callers : call[c].op = "drop" /\ call[c].at = "create"
EveryCallReturns ==
    \A c \in Callers : call[c] # Idle ~> call[c] = Idle \/ dead \/ DropStuck
=============================================================================
