---------------------------- MODULE TableMigrate ----------------------------
(***************************************************************************)
(* Migration of tables between two databases: RunMigrate                   *)
(* (internal/engine/migrator.go) with resetTable (internal/engine/reset.go)*)
(*                                                                         *)
(* A migration works through its jobs, one per selected source database,   *)
(* and through the tables of a job.  A table is backed up, emptied or      *)
(* dropped, created if it is missing and filled in batches.  When all      *)
(* tables and objects of a job are done its backups are dropped.  Nothing  *)
(* is transactional: a failure leaves the target as it is, and the user    *)
(* may start the same migration again.                                     *)
(***************************************************************************)
EXTENDS Integers, Sequences, FiniteSets, SequencesExt

CONSTANTS
    Rows,         \* [key, val]
    Absent,       \* the table does not exist
    Source,       \* rows of the source tables, in the order they are read
    HasKey,       \* tables with a primary key
    Jobs,         \* <<[from, to, tables, objects], ...>>
    Before,       \* what a target table may hold at first
    Options,      \* MigrateOptions, and whether the two databases differ in
                  \* type: [reset, backup, dataOnly, schemaOnly, crossType]
    BatchSize,
    Faults,       \* "statement", "cancel", "cleanup"
    MaxAttempts

Table(job, name)  == <<job.to, name>>
Origin(job, name) == <<job.from, name>>
Targets == UNION {{Table(Jobs[j], n) : n \in Range(Jobs[j].tables)} : j \in DOMAIN Jobs}
Content == [Rows -> Nat]
Empty   == [r \in Rows |-> 0]

ASSUME AbsentAssumption == Absent \notin Content
ASSUME OptionAssumption ==
    Options \subseteq [reset : {"none", "truncate", "drop"}, backup : BOOLEAN,
                       dataOnly : BOOLEAN, schemaOnly : BOOLEAN, crossType : BOOLEAN]
ASSUME BeforeAssumption == Before \subseteq Content \cup {Absent}
ASSUME BoundAssumption  == BatchSize \in Nat \ {0} /\ MaxAttempts \in Nat \ {0}
ASSUME SourceAssumption == \A o \in DOMAIN Source : Source[o] \in Seq(Rows)
(* sortTablesByFK returns no table twice.                                  *)
ASSUME JobsAssumption ==
    /\ Len(Jobs) \in Nat /\ DOMAIN Jobs = 1 .. Len(Jobs)
    /\ \A j \in DOMAIN Jobs :
          /\ Jobs[j].tables \in Seq(Range(Jobs[j].tables))
          /\ Jobs[j].objects \in Seq(Range(Jobs[j].objects))
          /\ IsInjective(Jobs[j].tables)

VARIABLES
    opts,
    tgt,          \* content of each target table
    bak,          \* content of each backup table, __dqex_bak_<table>
    old,          \* tgt when the migration was started by the user
    phase,
    at,           \* job, table, row and object the migration is at
    backedUp,     \* tables of this job with a backup
    attempts      \* how often the migration was started
vars == <<opts, tgt, bak, old, phase, at, backedUp, attempts>>

-----------------------------------------------------------------------------
Job == Jobs[at.job]

Name    == Job.tables[at.tab]
T       == Table(Job, Name)
Input   == Source[Origin(Job, Name)]

(* Selected tables the source does not have are only reported.             *)
InSource(n) == Origin(Job, n) \in DOMAIN Source

Init ==
    /\ opts \in Options
    /\ tgt \in [Targets -> Before]
    /\ bak = [t \in Targets |-> Absent]
    /\ old = tgt
    /\ phase = "idle"
    /\ at = [job |-> 1, tab |-> 1, row |-> 1, obj |-> 1]
    /\ backedUp = {}
    /\ attempts = 0

(* Started by the user, or again after a failure.                          *)
Begin ==
    /\ phase \in {"idle", "ok", "failed"} /\ attempts < MaxAttempts
    /\ attempts' = attempts + 1
    /\ old' = IF phase = "failed" THEN old ELSE tgt
    /\ phase' = "job"
    /\ at' = [job |-> 1, tab |-> 1, row |-> 1, obj |-> 1]
    /\ backedUp' = {}
    /\ UNCHANGED <<opts, tgt, bak>>

NextTable == at' = [at EXCEPT !.tab = @ + 1, !.row = 1]

(* Nothing to migrate: an error where objects are not migrated either.     *)
PlanJob ==
    /\ phase = "job" /\ at.job <= Len(Jobs)
    /\ phase' = IF /\ \A n \in Range(Job.tables) : ~InSource(n)
                   /\ opts.crossType \/ Job.objects = <<>>
                THEN "failed" ELSE "table"
    /\ at' = [at EXCEPT !.tab = 1, !.row = 1, !.obj = 1]
    /\ backedUp' = {}
    /\ UNCHANGED <<opts, tgt, bak, old, attempts>>

Succeed ==
    /\ phase = "job" /\ at.job > Len(Jobs)
    /\ phase' = "ok"
    /\ UNCHANGED <<opts, tgt, bak, old, at, backedUp, attempts>>

SkipMissing ==
    /\ phase = "table" /\ at.tab <= Len(Job.tables)
    /\ ~InSource(Name)
    /\ NextTable
    /\ UNCHANGED <<opts, tgt, bak, old, phase, backedUp, attempts>>

(* Slip: a table with a backup counts as reset already.                    *)
StartTableOnce ==
    /\ phase = "table" /\ at.tab <= Len(Job.tables)
    /\ InSource(Name)
    /\ phase' = IF opts.reset = "none" \/ tgt[T] = Absent \/ bak[T] # Absent THEN "create"
                ELSE IF opts.backup THEN "dropbak" ELSE "reset"
    /\ UNCHANGED <<opts, tgt, bak, old, at, backedUp, attempts>>

(* resetTable: a missing table needs no reset.                             *)
StartTable ==
    /\ phase = "table" /\ at.tab <= Len(Job.tables)
    /\ InSource(Name)
    /\ phase' = IF opts.reset = "none" \/ tgt[T] = Absent THEN "create"
                ELSE IF opts.backup THEN "dropbak" ELSE "reset"
    /\ UNCHANGED <<opts, tgt, bak, old, at, backedUp, attempts>>

(* A backup left over by an earlier migration is dropped first.            *)
DropOldBackup ==
    /\ phase = "dropbak"
    /\ bak' = [bak EXCEPT ![T] = Absent]
    /\ phase' = "copybak"
    /\ UNCHANGED <<opts, tgt, old, at, backedUp, attempts>>

(* Slip: a copy that fails is only logged.                                 *)
CopyBackupUnchecked ==
    /\ phase = "copybak"
    /\ \/ bak' = [bak EXCEPT ![T] = tgt[T]]
       \/ "statement" \in Faults /\ UNCHANGED bak
    /\ phase' = "reset"
    /\ UNCHANGED <<opts, tgt, old, at, backedUp, attempts>>

CopyBackup ==
    /\ phase = "copybak"
    /\ bak' = [bak EXCEPT ![T] = tgt[T]]
    /\ phase' = "reset"
    /\ UNCHANGED <<opts, tgt, old, at, backedUp, attempts>>

Reset ==
    /\ phase = "reset"
    /\ tgt' = [tgt EXCEPT ![T] = IF opts.reset = "drop" THEN Absent ELSE Empty]
    /\ backedUp' = IF opts.backup THEN backedUp \cup {T} ELSE backedUp
    /\ phase' = "create"
    /\ UNCHANGED <<opts, bak, old, at, attempts>>

CreateTable ==
    /\ phase = "create"
    /\ tgt' = IF ~opts.dataOnly /\ tgt[T] = Absent THEN [tgt EXCEPT ![T] = Empty] ELSE tgt
    /\ IF opts.schemaOnly THEN NextTable /\ phase' = "table"
                     ELSE phase' = "data" /\ UNCHANGED at
    /\ UNCHANGED <<opts, bak, old, backedUp, attempts>>

(* Rows first .. last of the input, written over rows with the same key    *)
(* where the table has one and added to the table where it has none.       *)
Write(content, first, last) ==
    [r \in Rows |->
        IF Name \in HasKey
        THEN IF \E i \in first .. last : Input[i] = r THEN 1
             ELSE IF \E i \in first .. last : Input[i].key = r.key THEN 0 ELSE content[r]
        ELSE content[r] + Cardinality({i \in first .. last : Input[i] = r})]

LastOfBatch == IF at.row + BatchSize - 1 <= Len(Input) THEN at.row + BatchSize - 1
                                                       ELSE Len(Input)

WriteBatch ==
    /\ phase = "data" /\ at.row <= Len(Input)
    /\ tgt[T] # Absent
    /\ tgt' = [tgt EXCEPT ![T] = Write(@, at.row, LastOfBatch)]
    /\ at' = [at EXCEPT !.row = LastOfBatch + 1]
    /\ UNCHANGED <<opts, bak, old, phase, backedUp, attempts>>

FinishTable ==
    /\ phase = "data" /\ at.row > Len(Input)
    /\ NextTable
    /\ phase' = "table"
    /\ UNCHANGED <<opts, tgt, bak, old, backedUp, attempts>>

TablesDone ==
    /\ phase = "table" /\ at.tab > Len(Job.tables)
    /\ phase' = IF opts.crossType \/ opts.dataOnly THEN "cleanup" ELSE "objects"
    /\ UNCHANGED <<opts, tgt, bak, old, at, backedUp, attempts>>

(* A view, function or procedure: an error is only logged.  A cancel stops *)
(* the objects, not the migration.                                         *)
MigrateObject ==
    /\ phase = "objects" /\ at.obj <= Len(Job.objects)
    /\ \/ at' = [at EXCEPT !.obj = @ + 1] /\ UNCHANGED phase
       \/ "cancel" \in Faults /\ phase' = "cleanup" /\ UNCHANGED at
    /\ UNCHANGED <<opts, tgt, bak, old, backedUp, attempts>>

ObjectsDone ==
    /\ phase = "objects" /\ at.obj > Len(Job.objects)
    /\ phase' = "cleanup"
    /\ UNCHANGED <<opts, tgt, bak, old, at, backedUp, attempts>>

(* The backups of this job are dropped; one that cannot be is only logged. *)
Cleanup ==
    /\ phase = "cleanup"
    /\ IF backedUp = {}
       THEN /\ phase' = "job"
            /\ at' = [at EXCEPT !.job = @ + 1]
            /\ UNCHANGED <<opts, bak, backedUp>>
       ELSE \E t \in backedUp :
            /\ backedUp' = backedUp \ {t}
            /\ bak' \in {[bak EXCEPT ![t] = Absent]}
                          \cup (IF "cleanup" \in Faults THEN {bak} ELSE {})
            /\ UNCHANGED <<opts, phase, at>>
    /\ UNCHANGED <<opts, tgt, old, attempts>>

(* The table was dropped and dataOnly did not create it again.             *)
WriteFails ==
    /\ phase = "data" /\ at.row <= Len(Input) /\ tgt[T] = Absent
    /\ phase' = "failed"
    /\ UNCHANGED <<opts, tgt, bak, old, at, backedUp, attempts>>

(* A statement fails or the migration is cancelled: it returns at once.    *)
Fail ==
    /\ Faults \cap {"statement", "cancel"} # {}
    /\ phase \in {"job", "table", "dropbak", "copybak", "reset", "create", "data"}
    /\ phase = "job" => at.job <= Len(Jobs)
    /\ phase = "table" => at.tab <= Len(Job.tables)
    /\ phase' = "failed"
    /\ UNCHANGED <<opts, tgt, bak, old, at, backedUp, attempts>>

Migrating == \/ PlanJob \/ Succeed \/ SkipMissing \/ StartTable
             \/ DropOldBackup \/ CopyBackup \/ Reset \/ CreateTable
             \/ WriteBatch \/ WriteFails \/ FinishTable \/ TablesDone
             \/ MigrateObject \/ ObjectsDone \/ Cleanup

Next == Begin \/ Migrating \/ Fail

Spec == Init /\ [][Next]_vars

-----------------------------------------------------------------------------
TypeOK ==
    /\ opts \in Options
    /\ tgt \in [Targets -> Content \cup {Absent}]
    /\ bak \in [Targets -> Content \cup {Absent}]
    /\ old \in [Targets -> Content \cup {Absent}]
    /\ phase \in {"idle", "job", "table", "dropbak", "copybak", "reset", "create", "data",
                  "objects", "cleanup", "ok", "failed"}
    /\ at \in [job : Nat \ {0}, tab : Nat \ {0}, row : Nat \ {0}, obj : Nat \ {0}]
    /\ backedUp \subseteq Targets
    /\ attempts \in 0 .. MaxAttempts

(* "Reset operations back up first; a failure can be rolled back"          *)
(* (zh.ts:1446): until a database is migrated, the old rows of its tables  *)
(* are in the tables themselves or in their backups.                       *)
Kept(t) == old[t] \in {Absent, tgt[t], bak[t]}

OldDataRecoverable ==
    opts.backup /\ opts.reset # "none" =>
        \A j \in DOMAIN Jobs : j > at.job \/ (j = at.job /\ phase # "cleanup") =>
            \A n \in Range(Jobs[j].tables) : Kept(Table(Jobs[j], n))

(* The same, as long as the migration was not started a second time.       *)
FirstAttemptRecoverable == attempts <= 1 => OldDataRecoverable

(* Rows leave a table only by being overwritten with migrated ones or by   *)
(* a reset, and a reset empties only a table that was just copied.         *)
NoResetWithoutBackup ==
    [][\A t \in Targets :
          \/ tgt'[t] = tgt[t]
          \/ tgt[t] = Absent
          \/ phase = "data"
          \/ opts.backup => bak[t] = tgt[t] /\ bak'[t] = bak[t]]_vars

(* A migration with reset that succeeds leaves exactly the source's rows,  *)
(* however often it failed before: no row twice, none missing.             *)
Copies(t) == {o \in DOMAIN Source : \E j \in DOMAIN Jobs : \E n \in Range(Jobs[j].tables) :
                                       Table(Jobs[j], n) = t /\ Origin(Jobs[j], n) = o}
CountIn(o, r) == Cardinality({i \in DOMAIN Source[o] : Source[o][i] = r})

ExactAfterReset ==
    phase = "ok" /\ opts.reset # "none" /\ ~opts.schemaOnly =>
        \A t \in Targets : \A o \in Copies(t) : \A r \in Rows :
            tgt[t] # Absent /\ tgt[t][r] = CountIn(o, r)

(* Without reset every source row arrives, and rows of the target with     *)
(* other keys stay.                                                        *)
MergedWithoutReset ==
    phase = "ok" /\ opts.reset = "none" /\ ~opts.schemaOnly =>
        \A t \in Targets : \A o \in Copies(t) : \A r \in Rows :
            /\ tgt[t] # Absent
            /\ tgt[t][r] >= CountIn(o, r)
            /\ \/ old[t] = Absent
               \/ t[2] \in HasKey /\ \E i \in DOMAIN Source[o] : Source[o][i].key = r.key
               \/ tgt[t][r] >= old[t][r]

(* "Back up automatically before a reset (cleaned up after success)"       *)
(* (zh.ts:853): no backup outlives a migration that succeeds at once.      *)
BackupsCleaned == phase = "ok" /\ attempts = 1 => \A t \in Targets : bak[t] = Absent

(* "drop: DROP + CREATE" (model.go:142): no table that was to be migrated   *)
(* is missing after a success.                                             *)
TablesExist ==
    phase = "ok" => \A t \in Targets : Copies(t) # {} => tgt[t] # Absent

(* What a migration that succeeds leaves: the rows the options ask for, in  *)
(* tables that exist, and no backup.                                       *)
TargetContents == ExactAfterReset /\ MergedWithoutReset /\ BackupsCleaned /\ TablesExist

-----------------------------------------------------------------------------
(* The parts of the inductive invariant.                                   *)
InTable == phase \in {"dropbak", "copybak", "reset", "create", "data"}

PositionInv ==
    /\ InTable \/ phase \in {"table", "objects", "cleanup"} => at.job \in DOMAIN Jobs
    /\ InTable => at.tab \in DOMAIN Job.tables /\ InSource(Name)
    /\ phase \in {"dropbak", "copybak", "reset"} => opts.reset # "none"
    /\ phase \in {"dropbak", "copybak"} => opts.backup

CopiedInv == phase = "reset" /\ opts.backup => bak[T] = tgt[T]

(* Nothing was started, or nothing is idle.                                *)
AttemptInv == /\ attempts = 0 => old = tgt
              /\ attempts = 0 <=> phase = "idle"

(* During the first attempt a table not yet reached holds its old rows; one *)
(* that may be written has them in its backup.                             *)
LaterInv ==
    \A j \in DOMAIN Jobs : j > at.job \/ (j = at.job /\ phase = "job") =>
        \A n \in Range(Jobs[j].tables) : tgt[Table(Jobs[j], n)] = old[Table(Jobs[j], n)]
UntouchedInv ==
    /\ InTable \/ phase = "table" =>
          \A i \in DOMAIN Job.tables :
              i > at.tab \/ (i = at.tab /\ phase \notin {"create", "data"})
                  => tgt[Table(Job, Job.tables[i])] = old[Table(Job, Job.tables[i])]
    /\ phase \in {"create", "data"} => old[T] \in {Absent, bak[T]}
KeptInv == opts.backup /\ opts.reset # "none" /\ attempts <= 1
               => LaterInv /\ UntouchedInv /\ OldDataRecoverable

IInv == TypeOK /\ PositionInv /\ CopiedInv /\ AttemptInv /\ KeptInv
=============================================================================
