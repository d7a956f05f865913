-------------------------- MODULE SchemaMigration --------------------------
(***************************************************************************)
(* The migration command of the server binary                              *)
(* (cmd/clean-core-server/migration.go, internal/storage/migration) over a *)
(* database, and the report on the live schema that the status command and *)
(* the readiness check make.  An "up" reads which versions are recorded,   *)
(* then executes and records the others one by one; execution and record   *)
(* are two calls, and nothing keeps two operators apart.                   *)
(*                                                                         *)
(* The files under migrations/ create their tables without IF NOT EXISTS,  *)
(* so executing one again is refused; a file is executed as a whole.       *)
(***************************************************************************)
EXTENDS Naturals, FiniteSetsExt

CONSTANTS
  Operators,          \* commands and reports in progress at the same time
  Directories,        \* migration directories: the checksum of each file, by version, and
                      \* the set of the manifest beside them, {} when there is none
  RequiredMigrations, \* the versions that create what the report asks for
  MaxUps              \* commands and reports in all (bound, model checking only)

\* No checksum: the version has not been executed, or not been recorded.
None == "none"

MigrationVersions == UNION {DOMAIN d.files : d \in Directories}
Checksums         == UNION {{d.files[v] : v \in DOMAIN d.files} : d \in Directories}

\* Migrations are append-only: a file is never added before one that another directory has.
ASSUME MigrationAssumption ==
  /\ Directories # {} /\ None \notin Checksums
  /\ MigrationVersions \subseteq Nat \ {0}
  /\ \A d, e \in Directories : \A v \in DOMAIN d.files : \A u \in DOMAIN e.files :
       u < v => u \in DOMAIN d.files
  /\ RequiredMigrations \subseteq MigrationVersions /\ MaxUps \in Nat

VARIABLES
  schema,     \* schema[v]: the checksum of the file that created the objects of version v
  recorded,   \* clean_core_schema_migrations: the checksum of each version
  operator,   \* operator[o]: where the command or the report is, and its locals
  ups         \* commands and reports so far

migrationVars == <<schema, recorded, operator, ups>>

NoVersions == [v \in MigrationVersions |-> None]
NoFiles    == [files |-> <<>>, manifest |-> {}]

\* The locals: the directory, the last version looked at, the records as they were read,
\* and whether the report has missed something.
Running(pc, d) == [pc |-> pc, dir |-> d, last |-> 0, applied |-> NoVersions, missing |-> FALSE]
NotRunning     == Running("idle", NoFiles)

MigrationInit ==
  /\ schema   = NoVersions
  /\ recorded = NoVersions
  /\ operator = [o \in Operators |-> NotRunning]
  /\ ups      = 0

Ends(o)           == operator' = [operator EXCEPT ![o] = NotRunning]
OperatorAt(o, pc) == operator[o].pc = pc

Begin(o, pc, d) ==
  /\ OperatorAt(o, "idle")
  /\ ups < MaxUps /\ ups' = ups + 1
  /\ operator' = [operator EXCEPT ![o] = Running(pc, d)]
  /\ UNCHANGED <<schema, recorded>>

-----------------------------------------------------------------------------
(* migration up.                                                           *)

\* Every file is in the manifest with its checksum, and the manifest names no other.
ValidateManifest(d) == \A manifest \in d.manifest : manifest = d.files

runMigrationCommand(o, d) == ValidateManifest(d) /\ Begin(o, "applied", d)

Applied(o) ==
  /\ OperatorAt(o, "applied")
  /\ operator' = [operator EXCEPT ![o].pc = "next", ![o].applied = recorded]
  /\ UNCHANGED <<schema, recorded, ups>>

\* The files the command has still to look at, in the order of their versions.
Remaining(o) == {v \in DOMAIN operator[o].dir.files : v > operator[o].last}
Current(o)   == Min(Remaining(o))
checksum(o)  == operator[o].dir.files[Current(o)]

\* Mutant: a recorded version is skipped whatever its file says now.
SkipUnverified(o) ==
  /\ OperatorAt(o, "next") /\ Remaining(o) # {} /\ operator[o].applied[Current(o)] # None
  /\ operator' = [operator EXCEPT ![o].last = Current(o)]
  /\ UNCHANGED <<schema, recorded, ups>>

\* A version that was recorded is skipped when its file is still the same.
Skip(o) ==
  /\ OperatorAt(o, "next") /\ Remaining(o) # {} /\ operator[o].applied[Current(o)] # None
  /\ IF operator[o].applied[Current(o)] = checksum(o)
     THEN operator' = [operator EXCEPT ![o].last = Current(o)]
     ELSE Ends(o)
  /\ UNCHANGED <<schema, recorded, ups>>

\* The database refuses to create what is there.  The answer may not arrive.
Exec(o) ==
  /\ OperatorAt(o, "next") /\ Remaining(o) # {} /\ operator[o].applied[Current(o)] = None
  /\ IF schema[Current(o)] # None THEN Ends(o) /\ UNCHANGED schema
     ELSE /\ schema' = [schema EXCEPT ![Current(o)] = checksum(o)]
          /\ operator' = [operator EXCEPT ![o].pc = "mark"] \/ Ends(o)
  /\ UNCHANGED <<recorded, ups>>

\* A record of the version is overwritten.
MarkApplied(o) ==
  /\ OperatorAt(o, "mark")
  /\ recorded' = [recorded EXCEPT ![Current(o)] = checksum(o)]
  /\ operator' = [operator EXCEPT ![o].pc = "next", ![o].last = Current(o)] \/ Ends(o)
  /\ UNCHANGED <<schema, ups>>

UpDone(o) ==
  /\ OperatorAt(o, "next") /\ Remaining(o) = {}
  /\ Ends(o)
  /\ UNCHANGED <<schema, recorded, ups>>

-----------------------------------------------------------------------------
(* The report on the live schema: tables, indexes and records are read one *)
(* after the other.  A table that is there has its columns.                *)

ValidateLiveSchema(o, d) == Begin(o, "tables", d)

RequiredExecuted == \A v \in RequiredMigrations : schema[v] # None

ReadObjects(o, pc, next) ==
  /\ OperatorAt(o, pc)
  /\ operator' = [operator EXCEPT ![o].pc = next,
                                  ![o].missing = operator[o].missing \/ ~RequiredExecuted]
  /\ UNCHANGED <<schema, recorded, ups>>

RecordsMatch(d) == \A v \in DOMAIN d.files : recorded[v] = d.files[v]

ReadRecords(o) ==
  /\ OperatorAt(o, "records")
  /\ operator' = [operator EXCEPT ![o].pc =
       IF ~operator[o].missing /\ RecordsMatch(operator[o].dir) THEN "ready" ELSE "not_ready"]
  /\ UNCHANGED <<schema, recorded, ups>>

\* The command is over, times out, loses its connection or is stopped.
UpInterrupted(o) ==
  /\ ~OperatorAt(o, "idle")
  /\ Ends(o)
  /\ UNCHANGED <<schema, recorded, ups>>

MigrationNext ==
  \E o \in Operators :
    \/ \E d \in Directories : runMigrationCommand(o, d) \/ ValidateLiveSchema(o, d)
    \/ Applied(o) \/ Skip(o) \/ Exec(o) \/ MarkApplied(o) \/ UpDone(o)
    \/ ReadObjects(o, "tables", "indexes") \/ ReadObjects(o, "indexes", "records") \/ ReadRecords(o)
    \/ UpInterrupted(o)

MigrationSpec == MigrationInit /\ [][MigrationNext]_migrationVars

-----------------------------------------------------------------------------
\* The objects of the database come from the files of one directory, from its first version
\* on: no version is built on an earlier one that its directory describes differently.
SchemaOfOneDirectory ==
  \E d \in Directories :
    \A v \in MigrationVersions : schema[v] # None =>
      /\ v \in DOMAIN d.files
      /\ \A u \in DOMAIN d.files : u <= v => schema[u] = d.files[u]

\* What is recorded has been executed, as it is recorded.
RecordedWasExecuted == \A v \in MigrationVersions : recorded[v] # None => recorded[v] = schema[v]

\* A report that says ready holds: the schema has what is required and the files are the
\* ones that were applied, although they are read at different times.
ReadyIsMigrated ==
  \A o \in Operators : OperatorAt(o, "ready") => RequiredExecuted /\ RecordsMatch(operator[o].dir)

\* Schema, records and reports agree while operators with different directories overlap and
\* are interrupted between any two calls (Runner.up, MarkApplied, ValidateLiveSchema).
MigrationsAccounted == SchemaOfOneDirectory /\ RecordedWasExecuted /\ ReadyIsMigrated

\* "Re-running `migration up` must be safe": an up does not try to execute what an earlier
\* one has executed (docs/migrations.md, Runner.up).
RerunSafe ==
  \A o \in Operators :
    OperatorAt(o, "next") /\ Remaining(o) # {} /\ operator[o].applied[Current(o)] = None
      => schema[Current(o)] = None
=============================================================================
