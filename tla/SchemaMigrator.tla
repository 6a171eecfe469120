--------------------------- MODULE SchemaMigrator ---------------------------
(***************************************************************************)
(* SchemaMigrator of internal/migration/schema_migrator.go under main: at  *)
(* every start the schema and the list of applied migrations are read from *)
(* two files, and if migrations are pending they are applied to a copy of  *)
(* the schema, which then replaces the one in memory and the two files,    *)
(* one after the other.  Migrations are named by their rank, versions by   *)
(* the rank of the last migration up to them.                              *)
(***************************************************************************)
EXTENDS Naturals, FiniteSets

CONSTANTS
    N,            \* migrations registered by registerBuiltinSchemaMigrations (5)
    MaxFaults,    \* bound on errors of a read or write, of the commit and panics of an Up
    MaxCrashes    \* bound on ends of the process

ASSUME MigrationsAssumption == N \in Nat \ {0} /\ MaxFaults \in Nat /\ MaxCrashes \in Nat

VARIABLES
    schemaFile,   \* schema.json: no schema or one
    appliedFile,  \* schema_migrations.json; no file and an empty list read the same
    schema, applied,                \* sm.schema and sm.applied
    pc,           \* where main is
    target,       \* the copy that MigrateSchema works on
    todo,         \* migrations still to apply to it
    ran,          \* newApplied
    faults, crashes,
    overwritten   \* history: a start has written the default schema over one it could not
                  \* read, and no migration has saved the schema since

schemaFiles == <<schemaFile, appliedFile>>
schemaMemory == <<schema, applied>>
work == <<target, todo, ran>>
faultBounds == <<faults, crashes>>
schemaVars == <<schemaFiles, schemaMemory, pc, work, faultBounds, overwritten>>

Migrations == 1..N
\* A schema holds the changes of some migrations and a version.
Default == [version |-> 0, changes |-> {}]

SchemaInit ==
    /\ schemaFile = {} /\ appliedFile = {}
    /\ schema = Default /\ applied = {}
    /\ pc = "off" /\ target = Default /\ todo = {} /\ ran = {}
    /\ faults = 0 /\ crashes = 0 /\ overwritten = FALSE

-----------------------------------------------------------------------------
(* The decisions below, each with a slip (..._slip) that no action uses. *)

\* main asks for a migration while GetStatus counts pending migrations.
SomePending == Cardinality(applied) < N

\* MigrateSchema selects what is newer than the schema and not in the list.
Selected_slip == {m \in Migrations : m > schema.version + 1} \ applied
Selected == {m \in Migrations : m > schema.version} \ applied

\* The changes go to a copy; the schema itself is replaced after the commit.
Worked_slip(new) == schema' = new /\ target' = new
Worked(new) == schema' = schema /\ target' = new

\* The list of applied migrations is saved only if the schema was.
AfterSchemaError_slip == "save list"
AfterSchemaError == "done"

-----------------------------------------------------------------------------
\* loadSchema reads the file.
ReadSchema ==
    /\ schema' \in schemaFile
    /\ UNCHANGED <<schemaFile, overwritten>>

\* loadSchema finds no file, or any error makes it treat the one that is there so: the
\* default schema is the schema, and is written over the file.  An error of the write is
\* ignored.
DefaultSchema(written) ==
    /\ schema' = Default
    /\ schemaFile' = IF written THEN {Default} ELSE schemaFile
    /\ overwritten' = (overwritten \/ (written /\ schemaFile # {}))

\* NewSchemaMigrator: loadSchema and loadAppliedMigrations, which takes a list it cannot read
\* for an empty one and leaves the file.
Load ==
    /\ pc = "off"
    /\ \E schemaErrors \in 0..2, listErrors \in 0..1 :
         /\ faults' = faults + schemaErrors + listErrors
         /\ faults' <= MaxFaults
         /\ \/ schemaErrors = 0 /\ ReadSchema
            \/ schemaErrors = 0 /\ schemaFile = {} /\ DefaultSchema(TRUE)
            \/ schemaErrors = 1 /\ schemaFile = {} /\ DefaultSchema(FALSE)
            \/ schemaErrors = 1 /\ schemaFile # {} /\ DefaultSchema(TRUE)
            \/ schemaErrors = 2 /\ schemaFile # {} /\ DefaultSchema(FALSE)
         /\ applied' = IF listErrors = 0 THEN appliedFile ELSE {}
    /\ pc' = "check"
    /\ UNCHANGED <<appliedFile, work, crashes>>

\* main: nothing pending, or MigrateSchema finds the schema at its target.
Skip ==
    /\ pc = "check" /\ (~SomePending \/ schema.version = N)
    /\ pc' = "done"
    /\ UNCHANGED <<schemaFiles, schemaMemory, work, faultBounds, overwritten>>

\* MigrateSchema takes its copy and begins a transaction.
BeginMigration ==
    /\ pc = "check" /\ SomePending /\ schema.version # N
    /\ todo' = Selected /\ target' = schema /\ ran' = {}
    /\ pc' = "up"
    /\ UNCHANGED <<schemaFiles, schemaMemory, faultBounds, overwritten>>

\* One Up after the other, in the order of their versions.
Up ==
    /\ pc = "up" /\ todo # {}
    /\ LET m == CHOOSE i \in todo : \A j \in todo : i <= j
       IN /\ Worked([version |-> m, changes |-> target.changes \cup {m}])
          /\ todo' = todo \ {m} /\ ran' = ran \cup {m}
    /\ UNCHANGED <<schemaFiles, applied, pc, faultBounds, overwritten>>

\* An Up panics or fails, or the commit does: the transaction is aborted, main warns.
Fails ==
    /\ pc = "up" /\ faults < MaxFaults
    /\ faults' = faults + 1 /\ pc' = "done"
    /\ UNCHANGED <<schemaFiles, schemaMemory, work, crashes, overwritten>>

\* The commit succeeds and memory takes the copy.
Commit ==
    /\ pc = "up" /\ todo = {}
    /\ schema' = target /\ applied' = applied \cup ran
    /\ pc' = "save schema"
    /\ UNCHANGED <<schemaFiles, work, faultBounds, overwritten>>

\* saveSchemaLocked
SaveSchema ==
    /\ pc = "save schema"
    /\ \/ /\ schemaFile' = {schema} /\ overwritten' = FALSE
          /\ pc' = "save list" /\ UNCHANGED faults
       \/ /\ faults < MaxFaults /\ faults' = faults + 1
          /\ pc' = AfterSchemaError /\ UNCHANGED <<schemaFile, overwritten>>
    /\ UNCHANGED <<appliedFile, schemaMemory, work, crashes>>

\* saveAppliedMigrationsLocked
SaveList ==
    /\ pc = "save list"
    /\ \/ appliedFile' = applied /\ UNCHANGED faults
       \/ faults < MaxFaults /\ faults' = faults + 1 /\ UNCHANGED appliedFile
    /\ pc' = "done"
    /\ UNCHANGED <<schemaFile, schemaMemory, work, crashes, overwritten>>

\* The process ends, anywhere; a file is replaced by a rename.
Crash ==
    /\ pc # "off" /\ crashes < MaxCrashes
    /\ crashes' = crashes + 1 /\ pc' = "off"
    /\ schema' = Default /\ applied' = {}
    /\ target' = Default /\ todo' = {} /\ ran' = {}
    /\ UNCHANGED <<schemaFiles, faults, overwritten>>

Step == Load \/ Skip \/ BeginMigration \/ Up \/ Commit \/ SaveSchema \/ SaveList
SchemaNext == Step \/ Fails \/ Crash
SchemaSpec == SchemaInit /\ [][SchemaNext]_schemaVars

\* main runs on.
SchemaFairSpec == SchemaSpec /\ WF_schemaVars(Step)

-----------------------------------------------------------------------------
(* Properties *)

Schemas == [version : 0..N, changes : SUBSET Migrations]

\* Types.
SchemaTypeOK ==
    /\ schemaFile \subseteq Schemas /\ Cardinality(schemaFile) <= 1
    /\ schema \in Schemas /\ target \in Schemas
    /\ applied \subseteq Migrations /\ appliedFile \subseteq Migrations
    /\ pc \in {"off", "check", "up", "save schema", "save list", "done"}
    /\ todo \subseteq Migrations /\ ran \subseteq Migrations
    /\ overwritten \in BOOLEAN

\* MigrateSchema saves the schema before the list: a migration that the list on disk calls
\* applied is in the schema on disk, so that a start never takes for done what an error of a
\* write or the end of an earlier process has undone (main asks GetStatus only, which counts
\* the list).  The exception is a start that could not read schema.json: loadSchema writes
\* the default over it and leaves the list, and nothing migrates that schema again while the
\* list can be read.
AppliedIsInSchema ==
    overwritten \/ \A m \in appliedFile : \E s \in schemaFile : m \in s.changes

\* MigrateSchema works on a copy: the schema of the program and the one on disk are at the
\* beginning or at the end of a migration, never between, also when an Up has panicked.
SchemaIsWhole == \A s \in {schema} \cup schemaFile : s.changes \in {{}, Migrations}

\* main migrates at every start: a start that reads the schema there is, and meets no error
\* and no crash after that, ends with the migrated schema in memory.  It may find whatever
\* errors and crashes of the lives before it have left in the two files, an unreadable list
\* included, but not the default schema written over one that could not be read.
ReadWhatIsThere == schemaFile \subseteq {schema} /\ ~overwritten
EndsMigrated ==
    (pc = "check" /\ ReadWhatIsThere /\ faults = MaxFaults /\ crashes = MaxCrashes)
        ~> (pc = "done" /\ schema.changes = Migrations)
=============================================================================
