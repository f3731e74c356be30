---------------------------- MODULE MigrateProofs ----------------------------
(***************************************************************************)
(* Theorems about the migration of tables, for any jobs, rows, options,    *)
(* batch size and faults.                                                  *)
(***************************************************************************)
EXTENDS TableMigrate, FiniteSetTheorems, TLAPS

MInv == TypeOK /\ PositionInv /\ CopiedInv

LEMMA EmptyIsContent == Empty \in Content
  BY DEF Empty, Content

(* A batch of rows written into a table gives a content again.             *)
LEMMA WriteIsContent ==
  ASSUME NEW content \in Content, NEW lo \in Nat, NEW hi \in Int
  PROVE  Write(content, lo, hi) \in Content
<1> DEFINE hits(r) == {i \in lo .. hi : Input[i] = r}
<1>1. \A r \in Rows : IsFiniteSet(hits(r)) /\ Cardinality(hits(r)) \in Nat
  <2> SUFFICES ASSUME NEW r \in Rows PROVE IsFiniteSet(hits(r)) /\ Cardinality(hits(r)) \in Nat
    OBVIOUS
  <2>1. IsFiniteSet(lo .. hi)
    BY FS_Interval
  <2>2. hits(r) \subseteq lo .. hi
    OBVIOUS
  <2>3. IsFiniteSet(hits(r))
    BY <2>1, <2>2, FS_Subset
  <2> QED BY <2>3, FS_CardinalityType
<1>2. \A r \in Rows : content[r] \in Nat
  BY DEF Content
<1> QED BY <1>1, <1>2 DEF Write, Content

(* The table a migration is at is one of its targets.                      *)
LEMMA Position ==
  ASSUME PositionInv, InTable
  PROVE  /\ T \in Targets
         /\ at.tab \in 1 .. Len(Job.tables) /\ Len(Job.tables) \in Nat
         /\ at.job \in 1 .. Len(Jobs)
<1>1. at.job \in DOMAIN Jobs /\ at.tab \in DOMAIN Job.tables
  BY DEF PositionInv
<1>2. Job.tables \in Seq(Range(Job.tables))
  BY <1>1, JobsAssumption DEF Job
<1>3. Name \in Range(Job.tables)
  BY <1>1 DEF Name, Range
<1>4. Len(Job.tables) \in Nat /\ DOMAIN Job.tables = 1 .. Len(Job.tables)
  BY <1>2
<1>5. T \in {Table(Jobs[at.job], n) : n \in Range(Jobs[at.job].tables)}
  BY <1>3 DEF T, Job
<1> QED BY <1>1, <1>4, <1>5, JobsAssumption DEF Targets

Positions == [job : Nat \ {0}, tab : Nat \ {0}, row : Nat \ {0}, obj : Nat \ {0}]

LEMMA NextTablePosition ==
  ASSUME at \in Positions, NextTable
  PROVE  at' \in Positions /\ at'.job = at.job /\ at'.tab = at.tab + 1
<1> DEFINE p == [at EXCEPT !.tab = at.tab + 1]
<1>1. p \in Positions /\ p.job = at.job /\ p.tab = at.tab + 1
  BY DEF Positions
<1> HIDE DEF p
<1>2. at' = [p EXCEPT !.row = 1]
  BY DEF NextTable, p
<1> QED BY <1>1, <1>2 DEF Positions

LEMMA PlanPosition ==
  ASSUME at \in Positions, PlanJob
  PROVE  at' \in Positions /\ at'.job = at.job /\ at'.tab = 1
<1> DEFINE p == [at EXCEPT !.tab = 1]
           q == [p EXCEPT !.row = 1]
<1>1. p \in Positions /\ p.job = at.job /\ p.tab = 1
  BY DEF Positions
<1> HIDE DEF p
<1>2. q \in Positions /\ q.job = at.job /\ q.tab = 1
  BY <1>1 DEF Positions
<1> HIDE DEF q
<1>3. at' = [q EXCEPT !.obj = 1]
  BY DEF PlanJob, p, q
<1> QED BY <1>2, <1>3 DEF Positions

LEMMA InitMInv == Init => MInv
  BY BeforeAssumption, OptionAssumption, BoundAssumption
  DEF Init, MInv, TypeOK, PositionInv, CopiedInv, InTable

LEMMA StepMInv == MInv /\ [Next]_vars => MInv'
<1> SUFFICES ASSUME MInv, [Next]_vars PROVE MInv'
  OBVIOUS
<1> USE DEF MInv, TypeOK, PositionInv, CopiedInv, InTable, InSource, Name, Origin
<1>1. CASE Begin
  <2>1. attempts' \in 0 .. MaxAttempts
    BY <1>1, BoundAssumption DEF Begin
  <2>2. old' \in [Targets -> Content \cup {Absent}]
    BY <1>1 DEF Begin
  <2> QED BY <1>1, <2>1, <2>2 DEF Begin
<1>2. CASE PlanJob
  BY <1>2, PlanPosition, JobsAssumption DEF PlanJob, Positions, Job
<1>3. CASE Succeed
  BY <1>3 DEF Succeed
<1>4. CASE SkipMissing
  BY <1>4, NextTablePosition DEF SkipMissing, Positions, Job
<1>5. CASE StartTable
  <2>1. at.tab \in DOMAIN Job.tables
    BY <1>5, JobsAssumption DEF StartTable, Job
  <2> QED BY <1>5, <2>1, OptionAssumption DEF StartTable, Job
<1>6. CASE DropOldBackup
  BY <1>6, Position DEF DropOldBackup, Job
<1>7. CASE CopyBackup
  BY <1>7, Position DEF CopyBackup, Job, T, Name
<1>8. CASE Reset
  BY <1>8, Position, EmptyIsContent DEF Reset, Job
<1>9. CASE CreateTable
  <2>1. at' \in Positions /\ at'.job = at.job /\ at'.tab \in {at.tab, at.tab + 1}
    BY <1>9, NextTablePosition DEF CreateTable, Positions
  <2>2. tgt' \in [Targets -> Content \cup {Absent}]
    BY <1>9, EmptyIsContent DEF CreateTable
  <2> QED BY <1>9, <2>1, <2>2, Position DEF CreateTable, Positions, Job
<1>10. CASE WriteBatch
  <2>1. LastOfBatch \in Int /\ LastOfBatch + 1 \in Nat \ {0}
    BY <1>10, BoundAssumption DEF WriteBatch, LastOfBatch
  <2>2. tgt[T] \in Content
    BY <1>10, Position DEF WriteBatch
  <2>3. Write(tgt[T], at.row, LastOfBatch) \in Content
    BY <2>1, <2>2, WriteIsContent
  <2>4. tgt' \in [Targets -> Content \cup {Absent}]
    BY <1>10, <2>3 DEF WriteBatch
  <2> QED BY <1>10, <2>1, <2>4 DEF WriteBatch, Job
<1>11. CASE WriteFails \/ Fail \/ TablesDone \/ ObjectsDone
  BY <1>11, JobsAssumption DEF WriteFails, Fail, TablesDone, ObjectsDone, Job
<1>12. CASE FinishTable
  BY <1>12, NextTablePosition DEF FinishTable, Positions, Job
<1>13. CASE MigrateObject
  BY <1>13 DEF MigrateObject, Job
<1>14. CASE Cleanup
  BY <1>14 DEF Cleanup, Job
<1>15. CASE UNCHANGED vars
  BY <1>15 DEF vars, Job, T, Name, Table
<1> QED BY <1>1, <1>2, <1>3, <1>4, <1>5, <1>6, <1>7, <1>8, <1>9, <1>10, <1>11, <1>12, <1>13,
           <1>14, <1>15 DEF Next, Migrating

LEMMA MInvariant == Spec => []MInv
  BY InitMInv, StepMInv, PTL DEF Spec

(* Every reachable state of a migration is well typed.                     *)
THEOREM TypeCorrect == Spec => []TypeOK
<1>1. MInv => TypeOK
  BY DEF MInv
<1> QED BY <1>1, MInvariant, PTL

(* A table loses rows only while migrated ones are written, or when it was *)
(* copied to its backup in the state it has at that moment.                *)
THEOREM ResetIsBackedUp == Spec => NoResetWithoutBackup
<1> DEFINE CopiedFirst == \A t \in Targets :
              \/ tgt'[t] = tgt[t]
              \/ tgt[t] = Absent
              \/ phase = "data"
              \/ opts.backup => bak[t] = tgt[t] /\ bak'[t] = bak[t]
<1>1. MInv /\ [Next]_vars => [CopiedFirst]_vars
  <2> SUFFICES ASSUME MInv, Next PROVE CopiedFirst
    BY DEF vars
  <2>1. CASE Reset
    <3>1. T \in Targets
      BY <2>1, Position DEF Reset, MInv, InTable
    <3>2. opts.backup => bak[T] = tgt[T]
      BY <2>1 DEF Reset, MInv, CopiedInv
    <3> QED BY <2>1, <3>1, <3>2 DEF Reset, MInv, TypeOK
  <2>2. CASE CreateTable
    BY <2>2 DEF CreateTable, MInv, TypeOK
  <2>3. CASE WriteBatch
    BY <2>3 DEF WriteBatch
  <2>4. CASE Next /\ ~Reset /\ ~CreateTable /\ ~WriteBatch
    <3>1. tgt' = tgt
      BY <2>4 DEF Next, Migrating, Begin, PlanJob, Succeed, SkipMissing, StartTable, DropOldBackup,
                  CopyBackup, WriteFails, FinishTable, TablesDone, MigrateObject, ObjectsDone,
                  Cleanup, Fail
    <3> QED BY <3>1
  <2> QED BY <2>1, <2>2, <2>3, <2>4
<1> QED BY <1>1, MInvariant, PTL DEF Spec, NoResetWithoutBackup

-----------------------------------------------------------------------------
(* The first attempt: nothing old is lost before its database is migrated. *)
Tab(i) == Table(Job, Job.tables[i])
TablesOfJob(j) == {Table(Jobs[j], n) : n \in Range(Jobs[j].tables)}

(* No database is copied into a table selected for another one.            *)
CopiedTables(j) == {Table(Jobs[j], n) : n \in {n \in Range(Jobs[j].tables) : Origin(Jobs[j], n) \in DOMAIN Source}}
JobsDisjoint == \A j, k \in DOMAIN Jobs : j # k => CopiedTables(j) \cap TablesOfJob(k) = {}

KInv == MInv /\ AttemptInv /\ KeptInv

(* Two positions of a job are two tables.                                  *)
LEMMA TablesDiffer ==
  ASSUME at.job \in DOMAIN Jobs,
         NEW i \in DOMAIN Job.tables, NEW k \in DOMAIN Job.tables, Tab(i) = Tab(k)
  PROVE  i = k
<1>1. Job.tables[i] = Job.tables[k]
  BY DEF Tab, Table
<1>2. IsInjective(Job.tables)
  BY JobsAssumption DEF Job
<1> QED BY <1>1, <1>2 DEF IsInjective

(* The parts of KeptInv in terms of the tables of a job.                   *)
KeptFrom(j) == \A t \in TablesOfJob(j) : Kept(t)
SameFrom(j) == \A t \in TablesOfJob(j) : tgt[t] = old[t]

LEMMA KeptParts ==
  /\ LaterInv <=> \A j \in DOMAIN Jobs : j > at.job \/ (j = at.job /\ phase = "job") => SameFrom(j)
  /\ OldDataRecoverable <=>
        (opts.backup /\ opts.reset # "none" =>
            \A j \in DOMAIN Jobs : j > at.job \/ (j = at.job /\ phase # "cleanup") => KeptFrom(j))
  BY DEF LaterInv, OldDataRecoverable, SameFrom, KeptFrom, TablesOfJob

LEMMA PositionsAreTables ==
  ASSUME at.job \in DOMAIN Jobs
  PROVE  /\ DOMAIN Job.tables \subseteq Nat
         /\ \A i \in DOMAIN Job.tables : Tab(i) \in TablesOfJob(at.job)
         /\ \A t \in TablesOfJob(at.job) : \E i \in DOMAIN Job.tables : t = Tab(i)
         /\ TablesOfJob(at.job) \subseteq Targets
<1>1. Job.tables \in Seq(Range(Job.tables))
  BY JobsAssumption DEF Job
<1>2. DOMAIN Job.tables \subseteq Nat
  BY <1>1
<1> QED BY <1>2 DEF Tab, TablesOfJob, Job, Range, Targets

LEMMA InitKInv == Init => KInv
<1> SUFFICES ASSUME Init PROVE KInv
  OBVIOUS
<1>1. AttemptInv
  BY DEF Init, AttemptInv
<1>2. KeptInv
  BY DEF Init, KeptInv, LaterInv, UntouchedInv, OldDataRecoverable, Kept, InTable
<1> QED BY <1>1, <1>2, InitMInv DEF KInv

LEMMA StepAttempt == MInv /\ AttemptInv /\ [Next]_vars => AttemptInv'
<1> SUFFICES ASSUME MInv, AttemptInv, [Next]_vars PROVE AttemptInv'
  OBVIOUS
<1>1. CASE Begin
  BY <1>1 DEF Begin, AttemptInv, MInv, TypeOK
<1>2. CASE (Migrating \/ Fail) /\ ~Begin
  BY <1>2 DEF AttemptInv, MInv, TypeOK, Migrating, PlanJob, Succeed, SkipMissing,
      StartTable, DropOldBackup, CopyBackup, Reset, CreateTable, WriteBatch, WriteFails, FinishTable,
      TablesDone, MigrateObject, ObjectsDone, Cleanup, Fail
<1>3. CASE UNCHANGED vars
  BY <1>3 DEF vars, AttemptInv
<1> QED BY <1>1, <1>2, <1>3 DEF Next

(* A step that touches at most the table it is at leaves the later jobs    *)
(* alone.                                                                  *)
LEMMA OthersUntouched ==
  ASSUME JobsDisjoint, MInv, InTable, LaterInv,
         UNCHANGED old, at'.job = at.job, phase' # "job",
         \A t \in Targets : t # T => tgt'[t] = tgt[t]
  PROVE  LaterInv'
<1> SUFFICES ASSUME NEW j \in DOMAIN Jobs, j > at.job, NEW t \in TablesOfJob(j)
             PROVE  tgt'[t] = old[t]
  BY KeptParts DEF LaterInv, TablesOfJob
<1>1. at.job \in DOMAIN Jobs /\ T \in CopiedTables(at.job)
  BY DEF MInv, PositionInv, T, Name, CopiedTables, InSource, Job, Range
<1>2. j # at.job /\ t \in Targets
  <2>1. j \in Nat /\ at.job \in Nat
    BY JobsAssumption DEF MInv, TypeOK
  <2>2. t \in Targets
    BY DEF TablesOfJob, Targets
  <2> QED BY <2>1, <2>2
<1>3. t # T
  BY <1>1, <1>2 DEF JobsDisjoint
<1>4. tgt[t] = old[t]
  BY KeptParts DEF SameFrom
<1> QED BY <1>2, <1>3, <1>4

(* What was not reached is kept because it is the same.                    *)
LEMMA RecoverableIf ==
  ASSUME LaterInv, at.job \in DOMAIN Jobs /\ phase # "cleanup" => KeptFrom(at.job)
  PROVE  OldDataRecoverable
<1> SUFFICES ASSUME NEW j \in DOMAIN Jobs, j > at.job \/ (j = at.job /\ phase # "cleanup")
             PROVE  KeptFrom(j)
  BY KeptParts
<1>1. CASE j > at.job
  <2>1. SameFrom(j)
    BY <1>1, KeptParts
  <2> QED BY <2>1 DEF SameFrom, KeptFrom, Kept
<1> QED BY <1>1

Promises == LaterInv /\ UntouchedInv /\ OldDataRecoverable

(* What the invariant says of the table a migration is at.                 *)
LEMMA AtTable ==
  ASSUME MInv, Promises, opts.backup, opts.reset # "none", InTable
  PROVE  /\ at.job \in DOMAIN Jobs /\ at.tab \in DOMAIN Job.tables
         /\ T = Tab(at.tab) /\ T \in Targets /\ T \in TablesOfJob(at.job)
         /\ \A i \in DOMAIN Job.tables : i > at.tab =>
               /\ Tab(i) \in Targets /\ Tab(i) # T
               /\ tgt[Tab(i)] = old[Tab(i)]
         /\ phase \notin {"create", "data"} => tgt[T] = old[T]
         /\ phase \in {"create", "data"} => old[T] \in {Absent, bak[T]}
         /\ KeptFrom(at.job)
<1>1. T \in Targets /\ at.tab \in DOMAIN Job.tables /\ at.job \in DOMAIN Jobs
  BY Position DEF MInv, PositionInv
<1>2. T = Tab(at.tab)
  BY DEF T, Tab, Name
<1>3. \A i \in DOMAIN Job.tables : i > at.tab => Tab(i) # T
  <2> SUFFICES ASSUME NEW i \in DOMAIN Job.tables, i > at.tab, Tab(i) = Tab(at.tab) PROVE FALSE
    BY <1>2
  <2>1. i = at.tab
    BY <1>1, TablesDiffer
  <2> QED BY <2>1 DEF MInv, TypeOK
<1>4. KeptFrom(at.job)
  BY <1>1, KeptParts DEF Promises, InTable
<1>5. \A i \in DOMAIN Job.tables : i > at.tab => tgt[Tab(i)] = old[Tab(i)]
  BY <1>1 DEF Promises, UntouchedInv, Tab
<1>6. phase \notin {"create", "data"} => tgt[T] = old[T]
  BY <1>1, <1>2 DEF Promises, UntouchedInv, Tab, MInv, TypeOK
<1>7. \A i \in DOMAIN Job.tables : Tab(i) \in Targets
  BY <1>1, PositionsAreTables
<1>8. T \in TablesOfJob(at.job)
  BY <1>1, <1>2, PositionsAreTables
<1>9. phase \in {"create", "data"} => old[T] \in {Absent, bak[T]}
  BY DEF Promises, UntouchedInv
<1> QED BY <1>1, <1>2, <1>3, <1>4, <1>5, <1>6, <1>7, <1>8, <1>9

(* A step that changes at most the table it is at, which stays kept.       *)
LEMMA TableStep ==
  ASSUME JobsDisjoint, MInv, Promises, opts.backup, opts.reset # "none", InTable,
         UNCHANGED old, at'.job = at.job, phase' \notin {"job", "cleanup"},
         \A t \in Targets : t # T => tgt'[t] = tgt[t] /\ bak'[t] = bak[t],
         old[T] \in {Absent, tgt'[T], bak'[T]}
  PROVE  /\ LaterInv' /\ OldDataRecoverable' /\ Job' = Job
         /\ \A i \in DOMAIN Job.tables : i > at.tab => tgt'[Tab(i)] = old[Tab(i)]
<1>1. LaterInv'
  BY OthersUntouched DEF Promises
<1>2. Job' = Job
  BY DEF Job
<1>3. \A t \in TablesOfJob(at.job) : t \in Targets /\ old[t] \in {Absent, tgt[t], bak[t]}
  BY AtTable, PositionsAreTables DEF KeptFrom, Kept
<1>4. \A t \in TablesOfJob(at.job) : old[t] \in {Absent, tgt'[t], bak'[t]}
  BY <1>3
<1>5. OldDataRecoverable'
  <2> SUFFICES ASSUME NEW j \in DOMAIN Jobs, j > at.job \/ j = at.job,
                      NEW t \in TablesOfJob(j)
               PROVE  old[t] \in {Absent, tgt'[t], bak'[t]}
    BY DEF OldDataRecoverable, TablesOfJob, Kept
  <2>1. CASE j = at.job
    BY <2>1, <1>4
  <2>2. CASE j > at.job
    BY <2>2, <1>1 DEF LaterInv, TablesOfJob
  <2> QED BY <2>1, <2>2
<1>6. \A i \in DOMAIN Job.tables : i > at.tab => tgt'[Tab(i)] = old[Tab(i)]
  BY AtTable
<1> QED BY <1>1, <1>2, <1>5, <1>6

(* A step that leaves the tables alone, or drops backups of a job that is  *)
(* done.                                                                   *)
LEMMA QuietStep ==
  ASSUME MInv, Promises, opts.backup, opts.reset # "none",
         UNCHANGED <<tgt, old>>, bak' = bak \/ (phase = "cleanup" /\ phase' = "cleanup"),
         \/ at'.job \in Nat /\ at'.job > at.job
         \/ /\ at'.job = at.job
            /\ phase' = "job" => phase = "job"
            /\ phase = "cleanup" => phase' = "cleanup"
  PROVE  LaterInv' /\ OldDataRecoverable'
<1>1. \A j \in DOMAIN Jobs : j \in Nat
  BY JobsAssumption
<1>2. at.job \in Nat
  BY DEF MInv, TypeOK
<1>3. LaterInv'
  BY <1>1, <1>2 DEF Promises, LaterInv
<1>4. OldDataRecoverable'
  <2> SUFFICES ASSUME NEW j \in DOMAIN Jobs,
                      j > at'.job \/ (j = at'.job /\ phase' # "cleanup"),
                      NEW n \in Range(Jobs[j].tables)
               PROVE  Kept(Table(Jobs[j], n))'
    BY DEF OldDataRecoverable
  <2>1. CASE j > at.job
    BY <2>1 DEF Promises, LaterInv, Kept, Table
  <2>2. CASE j = at.job /\ phase # "cleanup" /\ bak' = bak
    BY <2>2 DEF Promises, OldDataRecoverable, Kept, Table
  <2> QED BY <1>1, <1>2, <2>1, <2>2
<1> QED BY <1>3, <1>4

(* What a table position promises after a step that stays in its job.      *)
LEMMA UntouchedAfter ==
  ASSUME Job' = Job, UNCHANGED old, at'.tab \in DOMAIN Job.tables \/ phase' = "table",
         \A i \in DOMAIN Job.tables :
             i > at'.tab \/ (i = at'.tab /\ phase' \notin {"create", "data"})
                 => tgt'[Tab(i)] = old[Tab(i)],
         phase' \in {"create", "data"} => old[Tab(at'.tab)] \in {Absent, bak'[Tab(at'.tab)]}
  PROVE  UntouchedInv'
<1>1. \A i \in DOMAIN Job'.tables : Table(Job', Job'.tables[i]) = Tab(i)
  BY DEF Tab, Table
<1>2. T' = Tab(at'.tab)
  BY DEF Tab, T, Name, Table
<1> QED BY <1>1, <1>2 DEF UntouchedInv, Table

LEMMA StepKept == JobsDisjoint /\ KInv /\ [Next]_vars => KeptInv'
<1> SUFFICES ASSUME JobsDisjoint, KInv, [Next]_vars,
                    opts'.backup, opts'.reset # "none", attempts' <= 1
             PROVE  Promises'
  BY DEF KeptInv, Promises
<1>0. opts' = opts /\ attempts \in Nat /\ attempts' \in {attempts, attempts + 1}
  BY DEF Next, Migrating, Begin, PlanJob, Succeed, SkipMissing, StartTable, DropOldBackup,
         CopyBackup, Reset, CreateTable, WriteBatch, WriteFails, FinishTable, TablesDone,
         MigrateObject, ObjectsDone, Cleanup, Fail, vars, KInv, MInv, TypeOK
<1>p. Promises /\ MInv /\ opts.backup /\ opts.reset # "none"
  BY <1>0 DEF KInv, KeptInv, Promises
<1>n. at.tab \in Nat /\ at.job \in Nat /\ at \in Positions
  BY <1>p DEF MInv, TypeOK, Positions
<1>1. CASE Begin
  <2>1. attempts = 0 /\ old' = tgt /\ tgt' = tgt /\ phase' = "job"
    BY <1>1, <1>0 DEF Begin, KInv, AttemptInv
  <2> QED BY <2>1 DEF Promises, LaterInv, UntouchedInv, OldDataRecoverable, Kept, InTable
<1>2. CASE PlanJob
  <2>1. at'.job = at.job /\ at'.tab = 1 /\ UNCHANGED <<tgt, bak, old>>
        /\ phase' \in {"failed", "table"} /\ phase = "job" /\ at.job \in DOMAIN Jobs
    BY <1>2, <1>n, PlanPosition, JobsAssumption, <1>p DEF PlanJob, MInv, TypeOK
  <2>2. LaterInv' /\ OldDataRecoverable'
    BY <2>1, <1>p, QuietStep
  <2>3. \A i \in DOMAIN Job.tables : tgt[Tab(i)] = old[Tab(i)]
    BY <2>1, <1>p, PositionsAreTables, KeptParts DEF Promises, SameFrom
  <2>4. CASE phase' = "table"
    <3>1. Job' = Job
      BY <2>1 DEF Job
    <3> QED BY <3>1, <2>1, <2>2, <2>3, <2>4, UntouchedAfter DEF Promises
  <2>5. CASE phase' = "failed"
    BY <2>2, <2>5 DEF Promises, UntouchedInv, InTable
  <2> QED BY <2>1, <2>4, <2>5
<1>3. CASE Succeed \/ TablesDone \/ ObjectsDone \/ WriteFails \/ Fail
  <2>1. UNCHANGED <<tgt, bak, old, at>> /\ phase' \in {"ok", "objects", "cleanup", "failed"}
        /\ phase # "cleanup"
    BY <1>3 DEF Succeed, TablesDone, ObjectsDone, WriteFails, Fail
  <2>2. LaterInv' /\ OldDataRecoverable'
    BY <2>1, <1>p, QuietStep
  <2> QED BY <2>1, <2>2 DEF Promises, UntouchedInv, InTable
<1>4. CASE SkipMissing \/ FinishTable
  <2>1. at'.job = at.job /\ at'.tab = at.tab + 1 /\ UNCHANGED <<tgt, bak, old>>
        /\ phase' = "table" /\ phase \in {"table", "data"}
    BY <1>4, <1>n, NextTablePosition DEF SkipMissing, FinishTable
  <2>2. LaterInv' /\ OldDataRecoverable'
    BY <2>1, <1>p, QuietStep
  <2>3. Job' = Job /\ at.job \in DOMAIN Jobs
    BY <2>1, <1>p DEF Job, MInv, PositionInv, InTable
  <2>4. DOMAIN Job.tables \subseteq Nat
    BY <2>3, PositionsAreTables
  <2>5. \A i \in DOMAIN Job.tables : i > at.tab => tgt[Tab(i)] = old[Tab(i)]
    BY <1>p, <2>1 DEF Promises, UntouchedInv, InTable, Tab
  <2>6. \A i \in DOMAIN Job.tables : i >= at'.tab => tgt'[Tab(i)] = old[Tab(i)]
    BY <1>n, <2>1, <2>4, <2>5
  <2>7. UntouchedInv'
    BY <2>1, <2>3, <2>4, <2>6, <1>n, UntouchedAfter
  <2> QED BY <2>2, <2>7 DEF Promises
<1>5. CASE StartTable
  <2>1. UNCHANGED <<tgt, bak, old, at>> /\ phase = "table"
        /\ phase' = IF tgt[T] = Absent THEN "create" ELSE "dropbak"
    BY <1>5, <1>p DEF StartTable
  <2>2. LaterInv' /\ OldDataRecoverable'
    BY <2>1, <1>p, QuietStep
  <2>3. Job' = Job /\ at.job \in DOMAIN Jobs /\ at.tab \in DOMAIN Job.tables
    BY <2>1, <1>p, <1>5, JobsAssumption DEF StartTable, Job, MInv, PositionInv, TypeOK
  <2>4. \A i \in DOMAIN Job.tables : i >= at.tab => tgt[Tab(i)] = old[Tab(i)]
    BY <1>p, <2>1, <2>3, <1>n, PositionsAreTables DEF Promises, UntouchedInv, InTable, Tab
  <2>5. T = Tab(at.tab) /\ tgt[T] = old[T]
    BY <2>3, <2>4, <1>n DEF T, Name, Tab
  <2>6. \A i \in DOMAIN Job.tables : i > at'.tab \/ i = at'.tab => tgt'[Tab(i)] = old[Tab(i)]
    BY <2>1, <2>4, <2>3, <1>n, PositionsAreTables
  <2>7. UntouchedInv'
    BY <2>1, <2>3, <2>5, <2>6, UntouchedAfter
  <2> QED BY <2>2, <2>7 DEF Promises
<1>6. CASE DropOldBackup \/ CopyBackup
  <2>1. InTable /\ UNCHANGED <<tgt, old, at>> /\ phase' \in {"copybak", "reset"}
        /\ phase \notin {"create", "data"}
        /\ \A t \in Targets : t # T => bak'[t] = bak[t]
    BY <1>6, <1>p DEF DropOldBackup, CopyBackup, InTable, MInv, TypeOK
  <2>2. tgt[T] = old[T] /\ T = Tab(at.tab) /\ at.tab \in DOMAIN Job.tables
    BY <2>1, <1>p, AtTable
  <2>3. LaterInv' /\ OldDataRecoverable' /\ Job' = Job
        /\ \A i \in DOMAIN Job.tables : i > at.tab => tgt'[Tab(i)] = old[Tab(i)]
    BY <2>1, <2>2, <1>p, TableStep
  <2>4. UntouchedInv'
    BY <2>1, <2>2, <2>3, UntouchedAfter
  <2> QED BY <2>3, <2>4 DEF Promises
<1>7. CASE Reset
  <2>1. InTable /\ UNCHANGED <<bak, old, at>> /\ phase' = "create" /\ phase = "reset"
        /\ \A t \in Targets : t # T => tgt'[t] = tgt[t]
    BY <1>7, <1>p DEF Reset, InTable, MInv, TypeOK
  <2>2. tgt[T] = old[T] /\ T = Tab(at.tab) /\ at.tab \in DOMAIN Job.tables
    BY <2>1, <1>p, AtTable
  <2>3. bak'[T] = old[T]
    BY <2>1, <2>2, <1>p DEF MInv, CopiedInv
  <2>4. LaterInv' /\ OldDataRecoverable' /\ Job' = Job
        /\ \A i \in DOMAIN Job.tables : i > at.tab => tgt'[Tab(i)] = old[Tab(i)]
    BY <2>1, <2>3, <1>p, TableStep
  <2>5. UntouchedInv'
    BY <2>1, <2>2, <2>3, <2>4, UntouchedAfter
  <2> QED BY <2>4, <2>5 DEF Promises
<1>8. CASE CreateTable \/ WriteBatch
  <2>1. InTable /\ UNCHANGED <<bak, old>> /\ phase' \in {"data", "table"}
        /\ phase \in {"create", "data"}
    BY <1>8 DEF CreateTable, WriteBatch, InTable
  <2>2. at'.job = at.job /\ at'.tab \in Nat
        /\ \/ phase' = "data" /\ at'.tab = at.tab
           \/ phase' = "table" /\ at'.tab = at.tab + 1
    <3>1. CASE CreateTable
      BY <3>1, <1>n, NextTablePosition DEF CreateTable
    <3>2. CASE WriteBatch
      BY <3>2, <1>n DEF WriteBatch, Positions
    <3> QED BY <1>8, <3>1, <3>2
  <2>3. \A t \in Targets : t # T => tgt'[t] = tgt[t] /\ bak'[t] = bak[t]
    <3>1. CASE CreateTable
      BY <3>1, <1>p DEF CreateTable, MInv, TypeOK
    <3>2. CASE WriteBatch
      BY <3>2, <1>p DEF WriteBatch, MInv, TypeOK
    <3> QED BY <1>8, <3>1, <3>2
  <2>4. old[T] \in {Absent, bak'[T]} /\ T = Tab(at.tab) /\ at.tab \in DOMAIN Job.tables
        /\ at.job \in DOMAIN Jobs
    BY <2>1, <1>p, AtTable
  <2>5. LaterInv' /\ OldDataRecoverable' /\ Job' = Job
        /\ \A i \in DOMAIN Job.tables : i > at.tab => tgt'[Tab(i)] = old[Tab(i)]
    BY <2>1, <2>2, <2>3, <2>4, <1>p, TableStep
  <2>6. DOMAIN Job.tables \subseteq Nat
    BY <2>4, PositionsAreTables
  <2>7. UntouchedInv'
    <3>1. CASE phase' = "data" /\ at'.tab = at.tab
      BY <3>1, <2>1, <2>4, <2>5, UntouchedAfter
    <3>2. CASE phase' = "table" /\ at'.tab = at.tab + 1
      <4>1. \A i \in DOMAIN Job.tables : i >= at'.tab => tgt'[Tab(i)] = old[Tab(i)]
        BY <3>2, <2>5, <2>6, <1>n
      <4>2. \A i \in DOMAIN Job.tables : i > at'.tab \/ i = at'.tab => i >= at'.tab
        BY <2>2, <2>6
      <4> QED BY <3>2, <4>1, <4>2, <2>1, <2>5, UntouchedAfter
    <3> QED BY <2>2, <3>1, <3>2
  <2> QED BY <2>5, <2>7 DEF Promises
<1>9. CASE MigrateObject
  <2>1. UNCHANGED <<tgt, bak, old>> /\ at'.job = at.job /\ phase = "objects"
        /\ phase' \in {"objects", "cleanup"}
    BY <1>9, <1>n DEF MigrateObject, Positions
  <2>2. LaterInv' /\ OldDataRecoverable'
    BY <2>1, <1>p, QuietStep
  <2> QED BY <2>1, <2>2 DEF Promises, UntouchedInv, InTable
<1>10. CASE Cleanup
  <2>1. UNCHANGED <<tgt, old>> /\ phase = "cleanup"
        /\ \/ phase' = "cleanup" /\ at' = at
           \/ phase' = "job" /\ at'.job = at.job + 1 /\ bak' = bak
    BY <1>10, <1>n DEF Cleanup, Positions
  <2>2. LaterInv' /\ OldDataRecoverable'
    BY <2>1, <1>n, <1>p, QuietStep
  <2> QED BY <2>1, <2>2 DEF Promises, UntouchedInv, InTable
<1>11. CASE UNCHANGED vars
  BY <1>11, <1>p DEF vars, Promises, LaterInv, UntouchedInv, OldDataRecoverable, Kept, InTable,
     Job, T, Name, Table
<1> QED BY <1>1, <1>2, <1>3, <1>4, <1>5, <1>6, <1>7, <1>8, <1>9, <1>10, <1>11
        DEF Next, Migrating

LEMMA StepKInv == JobsDisjoint /\ KInv /\ [Next]_vars => KInv'
  BY StepMInv, StepAttempt, StepKept DEF KInv

(* While a migration that backs up was started once, the old rows of every *)
(* table whose database is not done are in the table or in its backup: for *)
(* any number of databases that write into different tables.               *)
THEOREM OldDataKept == JobsDisjoint => (Spec => []FirstAttemptRecoverable)
<1> SUFFICES ASSUME JobsDisjoint PROVE Spec => []FirstAttemptRecoverable
  OBVIOUS
<1>1. KInv => FirstAttemptRecoverable
  BY DEF KInv, KeptInv, FirstAttemptRecoverable, OldDataRecoverable
<1>2. KInv /\ [Next]_vars => KInv'
  BY StepKInv
<1> QED BY <1>1, <1>2, InitKInv, PTL DEF Spec

-----------------------------------------------------------------------------
(* What a migration that succeeds leaves.  It is what the options ask for     *)
(* where no two databases are copied into one table, a key names one row of   *)
(* a source table, backups can be dropped, and a migration of data alone has  *)
(* rows to notice a missing table with.                                       *)
CopiesApart  == \A j, k \in DOMAIN Jobs : j # k => CopiedTables(j) \cap CopiedTables(k) = {}
KeysName     == \A o \in DOMAIN Source : o[2] \in HasKey =>
                    \A i, k \in DOMAIN Source[o] : Source[o][i].key = Source[o][k].key => i = k
DataArrives  == \A o \in Options : o.dataOnly => ~o.schemaOnly /\ \A s \in DOMAIN Source : Source[s] # <<>>
Regular      == CopiesApart /\ KeysName /\ DataArrives /\ "cleanup" \notin Faults

(* Where the position is.                                                     *)
PlaceInv ==
    /\ phase \in {"table", "dropbak", "copybak", "reset", "create"} => at.row = 1
    /\ phase \in {"objects", "cleanup"} => at.tab > Len(Job.tables)
    /\ phase = "ok" => at.job > Len(Jobs)
    /\ phase = "data" => ~opts.schemaOnly

(* A first attempt knows the backups there are.                               *)
BackupInv ==
    attempts <= 1 /\ phase # "failed" =>
        /\ phase \in {"idle", "job", "ok"} => backedUp = {}
        /\ \A t \in Targets : bak[t] # Absent => t \in backedUp \/ (phase = "reset" /\ opts.backup /\ t = T)

(* A table holds the first n rows of its source: only them after a reset.     *)
Hits(o, lo, hi, r) == {i \in lo .. hi : Source[o][i] = r}
Among(o, n, r) == Cardinality(Hits(o, 1, n, r))
Holds(t, o, n) == \A r \in Rows : IF opts.reset = "none" THEN tgt[t][r] >= Among(o, n, r) ELSE tgt[t][r] = Among(o, n, r)
Whole(t, o)    == tgt[t] # Absent /\ (~opts.schemaOnly => Holds(t, o, Len(Source[o])))
IsPassed(j, i) == j < at.job \/ (j = at.job /\ phase # "job" /\ i < at.tab)

PassedInv ==
    phase # "failed" =>
        \A j \in DOMAIN Jobs : \A i \in DOMAIN Jobs[j].tables :
            LET n == Jobs[j].tables[i] IN
            IsPassed(j, i) /\ Origin(Jobs[j], n) \in DOMAIN Source => Whole(Table(Jobs[j], n), Origin(Jobs[j], n))

HereInv ==
    /\ phase = "create" /\ opts.reset # "none" => tgt[T] \in {Absent, Empty}
    /\ phase = "data" => /\ at.row <= Len(Input) + 1
                         /\ tgt[T] = Absent => opts.dataOnly /\ at.row = 1
                         /\ tgt[T] # Absent => Holds(T, Origin(Job, Name), at.row - 1)

(* Without reset no row is lost but to one with its key.                      *)
Stays(t, o) ==
    \/ old[t] = Absent
    \/ /\ tgt[t] # Absent
       /\ \A r \in Rows : \/ t[2] \in HasKey /\ \E i \in DOMAIN Source[o] : Source[o][i].key = r.key
                          \/ tgt[t][r] >= old[t][r]
StaysInv == opts.reset = "none" => \A t \in Targets : \A o \in Copies(t) : Stays(t, o)

ContentInv == PlaceInv /\ BackupInv /\ PassedInv /\ HereInv /\ StaysInv

LEMMA JobNumbers == ASSUME NEW j \in DOMAIN Jobs
                    PROVE  /\ j \in Nat \ {0} /\ j <= Len(Jobs) /\ Len(Jobs[j].tables) \in Nat
                           /\ DOMAIN Jobs[j].tables = 1 .. Len(Jobs[j].tables)
<1>1. Jobs[j].tables \in Seq(Range(Jobs[j].tables))
  BY JobsAssumption
<1>2. j \in 1 .. Len(Jobs) /\ Len(Jobs) \in Nat
  BY JobsAssumption
<1>3. j \in Nat \ {0} /\ j <= Len(Jobs)
  BY <1>2
<1> QED
  BY <1>1, <1>3

LEMMA SourceFacts == ASSUME NEW o \in DOMAIN Source
                     PROVE  /\ Source[o] \in Seq(Rows) /\ Len(Source[o]) \in Nat
                            /\ DOMAIN Source[o] = 1 .. Len(Source[o])
<1>1. Source[o] \in Seq(Rows)
  BY SourceAssumption
<1> QED
  BY <1>1

(* How often a row is among the first n of a source.                          *)
LEMMA HitsAreFinite == ASSUME NEW o, NEW lo \in Nat, NEW hi \in Nat, NEW r
                       PROVE  IsFiniteSet(Hits(o, lo, hi, r)) /\ Cardinality(Hits(o, lo, hi, r)) \in Nat
<1>1. IsFiniteSet(lo .. hi)
  BY FS_Interval
<1>2. Hits(o, lo, hi, r) \subseteq lo .. hi
  BY DEF Hits
<1>3. IsFiniteSet(Hits(o, lo, hi, r))
  BY <1>1, <1>2, FS_Subset
<1> QED
  BY <1>3, FS_CardinalityType

LEMMA AmongIsNat == ASSUME NEW o, NEW n \in Nat, NEW r
                    PROVE  IsFiniteSet(Hits(o, 1, n, r)) /\ Among(o, n, r) \in Nat
  BY HitsAreFinite DEF Among

LEMMA AmongNone == ASSUME NEW o, NEW r PROVE Among(o, 0, r) = 0
<1>1. {i \in 1 .. 0 : Source[o][i] = r} = {}
  OBVIOUS
<1> QED
  BY <1>1, FS_EmptySet DEF Among, Hits

LEMMA AmongSplit ==
  ASSUME NEW o, NEW r, NEW lo \in Nat \ {0}, NEW hi \in Nat, lo <= hi
  PROVE  /\ Cardinality(Hits(o, lo, hi, r)) \in Nat
         /\ Among(o, hi, r) = Among(o, lo - 1, r) + Cardinality(Hits(o, lo, hi, r))
<1>1. PICK n \in Nat : n = lo - 1
  OBVIOUS
<1>2. PICK A, B, C : A = Hits(o, 1, n, r) /\ B = Hits(o, lo, hi, r) /\ C = Hits(o, 1, hi, r)
  OBVIOUS
<1>3. IsFiniteSet(A) /\ Cardinality(A) \in Nat /\ IsFiniteSet(B) /\ Cardinality(B) \in Nat
  BY <1>2, HitsAreFinite
<1>4. A \cap B = {} /\ C = A \cup B
  BY <1>1, <1>2 DEF Hits
<1>5. Cardinality(A \cup B) = Cardinality(A) + Cardinality(B) - Cardinality(A \cap B)
  BY <1>3, FS_Union
<1>6. Cardinality(A \cap B) = 0
  BY <1>4, FS_EmptySet
<1>7. Cardinality(C) = Cardinality(A) + Cardinality(B)
  BY <1>3, <1>4, <1>5, <1>6
<1> QED
  BY <1>1, <1>2, <1>3, <1>7 DEF Among

LEMMA AmongOne ==
  ASSUME KeysName, NEW o \in DOMAIN Source, o[2] \in HasKey, NEW n \in 0 .. Len(Source[o]), NEW r \in Rows
  PROVE  \/ Among(o, n, r) = 0 /\ \A i \in 1 .. n : Source[o][i] # r
         \/ Among(o, n, r) = 1 /\ \E i \in 1 .. n : Source[o][i] = r
<1>1. CASE \A i \in 1 .. n : Source[o][i] # r
  <2>1. {i \in 1 .. n : Source[o][i] = r} = {}
    BY <1>1
  <2> QED
    BY <1>1, <2>1, FS_EmptySet DEF Among, Hits
<1>2. CASE \E i \in 1 .. n : Source[o][i] = r
  <2>1. PICK i \in 1 .. n : Source[o][i] = r
    BY <1>2
  <2>2. DOMAIN Source[o] = 1 .. Len(Source[o]) /\ Len(Source[o]) \in Nat
    BY SourceFacts
  <2>3. \A k \in 1 .. n : Source[o][k] = r => k = i
    <3>1. \A k \in 1 .. n : k \in DOMAIN Source[o]
      BY <2>2
    <3> QED
      BY <2>1, <3>1 DEF KeysName
  <2>4. {k \in 1 .. n : Source[o][k] = r} = {i}
    BY <2>1, <2>3
  <2> QED
    BY <1>2, <2>4, FS_Singleton DEF Among, Hits
<1> QED
  BY <1>1, <1>2

(* What writing a batch makes of a table that holds what came before it.      *)
LEMMA WriteAdds ==
  ASSUME KeysName, InSource(Name), NEW content \in Content,
         NEW lo \in Nat \ {0}, NEW hi \in Nat, lo <= hi, hi <= Len(Input), NEW r \in Rows
  PROVE  LET o == Origin(Job, Name)
             w == Write(content, lo, hi)[r]
         IN  /\ w \in Nat
             /\ content[r] = Among(o, lo - 1, r) => w = Among(o, hi, r)
             /\ content[r] >= Among(o, lo - 1, r) => w >= Among(o, hi, r)
             /\ \/ Name \in HasKey /\ \E i \in DOMAIN Source[o] : Source[o][i].key = r.key
                \/ w >= content[r]
<1>1. PICK o \in DOMAIN Source : o = Origin(Job, Name)
  BY DEF InSource
<1>2. Input = Source[o] /\ o[2] = Name
  BY <1>1 DEF Input, Origin
<1>3. DOMAIN Source[o] = 1 .. Len(Source[o]) /\ Len(Source[o]) \in Nat
  BY SourceFacts
<1>4. content[r] \in Nat
  BY DEF Content
<1>5. Among(o, lo - 1, r) \in Nat /\ Among(o, hi, r) \in Nat
  <2>1. lo - 1 \in Nat
    OBVIOUS
  <2> QED
    BY <2>1, AmongIsNat
<1>6. CASE Name \in HasKey
  <2>1. CASE \E i \in lo .. hi : Input[i] = r
    <3>1. Write(content, lo, hi)[r] = 1
      BY <1>6, <2>1 DEF Write
    <3>2. \E i \in 1 .. hi : Source[o][i] = r
      BY <1>2, <2>1
    <3>3. Among(o, hi, r) = 1
      BY <1>2, <1>3, <1>6, <3>2, AmongOne
    <3>4. \E i \in DOMAIN Source[o] : Source[o][i].key = r.key
      BY <1>2, <1>3, <2>1
    <3> QED
      BY <1>1, <1>5, <1>6, <3>1, <3>3, <3>4
  <2>2. CASE (~ \E i \in lo .. hi : Input[i] = r) /\ \E i \in lo .. hi : Input[i].key = r.key
    <3>1. Write(content, lo, hi)[r] = 0
      BY <1>6, <2>2 DEF Write
    <3>2. PICK i \in lo .. hi : Input[i].key = r.key /\ Input[i] # r
      BY <2>2
    <3>3. \A k \in 1 .. hi : Source[o][k] # r
      <4>1. \A k \in 1 .. hi : k \in DOMAIN Source[o]
        BY <1>2, <1>3
      <4>2. i \in DOMAIN Source[o]
        BY <1>2, <1>3
      <4> QED
        BY <1>2, <1>6, <3>2, <4>1, <4>2 DEF KeysName
    <3>4. Among(o, hi, r) = 0
      BY <1>2, <1>3, <1>6, <3>3, AmongOne
    <3>5. \E k \in DOMAIN Source[o] : Source[o][k].key = r.key
      BY <1>2, <1>3, <3>2
    <3> QED
      BY <1>1, <1>5, <1>6, <3>1, <3>4, <3>5
  <2>3. CASE ~ \E i \in lo .. hi : Input[i].key = r.key
    <3>1. ~ \E i \in lo .. hi : Input[i] = r
      BY <2>3
    <3>2. Write(content, lo, hi)[r] = content[r]
      BY <1>6, <2>3, <3>1 DEF Write
    <3>3. Hits(o, lo, hi, r) = {}
      BY <1>2, <3>1 DEF Hits
    <3>4. Cardinality(Hits(o, lo, hi, r)) = 0
      BY <3>3, FS_EmptySet
    <3>5. Among(o, hi, r) = Among(o, lo - 1, r)
      BY <1>5, <3>4, AmongSplit
    <3> QED
      BY <1>1, <1>4, <1>5, <3>2, <3>5
  <2> QED
    BY <2>1, <2>2, <2>3
<1>7. CASE Name \notin HasKey
  <2>1. Write(content, lo, hi)[r] = content[r] + Cardinality(Hits(o, lo, hi, r))
    BY <1>2, <1>7 DEF Write, Hits
  <2>2. /\ Cardinality(Hits(o, lo, hi, r)) \in Nat
        /\ Among(o, hi, r) = Among(o, lo - 1, r) + Cardinality(Hits(o, lo, hi, r))
    BY AmongSplit
  <2> QED
    BY <1>1, <1>4, <1>5, <2>1, <2>2
<1> QED
  BY <1>6, <1>7

(* The invariant of a migration at work: positions, and what each table holds. *)
WInv == MInv /\ AttemptInv /\ PlaceInv /\ PassedInv /\ HereInv /\ StaysInv

LEMMA AtNumbers == ASSUME MInv
                   PROVE  at \in Positions /\ at.job \in Nat \ {0} /\ at.tab \in Nat \ {0} /\ at.row \in Nat \ {0}
  BY DEF MInv, TypeOK, Positions

LEMMA PlaceStart == Init => PlaceInv
  BY DEF Init, PlaceInv, InTable

LEMMA PlaceStep == ASSUME MInv, PlaceInv, [Next]_vars PROVE PlaceInv'
<1> USE DEF PlaceInv, InTable
<1>0. at \in Positions /\ at.job \in Nat \ {0} /\ at.tab \in Nat \ {0} /\ at.row \in Nat \ {0}
  BY AtNumbers
<1>1. CASE Begin
  BY <1>1 DEF Begin
<1>2. CASE PlanJob
  BY <1>0, <1>2 DEF PlanJob, Positions
<1>3. CASE Succeed
  <2>1. phase' = "ok" /\ at' = at /\ at.job > Len(Jobs)
    BY <1>0, <1>3, JobsAssumption DEF Succeed
  <2> QED
    BY <2>1
<1>4. CASE SkipMissing \/ FinishTable
  BY <1>0, <1>4 DEF SkipMissing, FinishTable, NextTable, Positions
<1>5. CASE StartTable
  BY <1>5 DEF StartTable, InSource, Name, Job, Origin
<1>6. CASE DropOldBackup \/ CopyBackup \/ Reset
  BY <1>6 DEF DropOldBackup, CopyBackup, Reset, InSource, Name, Job, Origin
<1>7. CASE CreateTable
  <2>1. CASE opts.schemaOnly
    BY <1>0, <1>7, <2>1 DEF CreateTable, NextTable, Positions
  <2>2. CASE ~opts.schemaOnly
    BY <1>7, <2>2 DEF CreateTable, InSource, Name, Job, Origin
  <2> QED
    BY <2>1, <2>2
<1>8. CASE WriteBatch
  <2>1. at'.job = at.job /\ at'.tab = at.tab /\ phase' = "data" /\ opts' = opts /\ phase = "data"
    BY <1>0, <1>8 DEF WriteBatch, Positions
  <2> QED
    BY <2>1 DEF InSource, Name, Job, Origin
<1>9. CASE TablesDone \/ ObjectsDone
  <2>1. at.tab > Len(Job.tables)
    <3>1. at.job \in DOMAIN Jobs
      BY <1>9 DEF TablesDone, ObjectsDone, MInv, PositionInv
    <3>2. Len(Job.tables) \in Nat
      BY <3>1, JobNumbers DEF Job
    <3> QED
      BY <1>0, <1>9, <3>2 DEF TablesDone, ObjectsDone
  <2> QED
    BY <1>9, <2>1 DEF TablesDone, ObjectsDone, Job
<1>10. CASE MigrateObject
  <2>1. at'.job = at.job /\ at'.tab = at.tab /\ phase = "objects" /\ phase' \in {"objects", "cleanup"}
    BY <1>0, <1>10 DEF MigrateObject, Positions
  <2> QED
    BY <2>1 DEF Job
<1>11. CASE Cleanup
  BY <1>11 DEF Cleanup, Job
<1>12. CASE Fail \/ WriteFails
  BY <1>12 DEF Fail, WriteFails
<1>13. CASE UNCHANGED vars
  BY <1>13 DEF vars, InSource, Name, Job, Origin
<1> QED
  BY <1>1, <1>2, <1>3, <1>4, <1>5, <1>6, <1>7, <1>8, <1>9, <1>10, <1>11, <1>12, <1>13 DEF Next, Migrating

(* The backups of a first attempt.                                           *)
LEMMA BackupStart == Init => BackupInv
  BY DEF Init, BackupInv

LEMMA BackupStep == ASSUME "cleanup" \notin Faults, MInv, AttemptInv, BackupInv, [Next]_vars PROVE BackupInv'
<1> SUFFICES ASSUME attempts' <= 1, phase' # "failed"
             PROVE  /\ phase' \in {"idle", "job", "ok"} => backedUp' = {}
                    /\ \A t \in Targets : bak'[t] # Absent => t \in backedUp' \/ (phase' = "reset" /\ opts'.backup /\ t = T')
  BY DEF BackupInv
<1> USE DEF BackupInv
<1>0. attempts \in Nat /\ (phase = "idle" <=> attempts = 0) /\ DOMAIN bak = Targets
  BY DEF AttemptInv, MInv, TypeOK
<1>1. CASE Begin
  <2>1. attempts = 0
    BY <1>0, <1>1 DEF Begin
  <2> QED
    BY <1>0, <1>1, <2>1 DEF Begin
<1>2. CASE PlanJob \/ Succeed \/ SkipMissing \/ FinishTable \/ TablesDone \/ ObjectsDone \/ MigrateObject
  BY <1>2 DEF PlanJob, Succeed, SkipMissing, FinishTable, TablesDone, ObjectsDone, MigrateObject
<1>3. CASE StartTable
  BY <1>3 DEF StartTable
<1>4. CASE DropOldBackup
  BY <1>0, <1>4 DEF DropOldBackup
<1>5. CASE CopyBackup
  <2>1. T' = T /\ opts.backup /\ opts' = opts
    BY <1>5 DEF CopyBackup, T, Name, Job, Table, MInv, PositionInv
  <2> QED
    BY <1>0, <1>5, <2>1 DEF CopyBackup
<1>6. CASE Reset
  BY <1>6 DEF Reset
<1>7. CASE CreateTable \/ WriteBatch
  BY <1>7 DEF CreateTable, WriteBatch
<1>8. CASE Cleanup
  <2>1. CASE backedUp = {}
    BY <1>8, <2>1 DEF Cleanup
  <2>2. CASE backedUp # {}
    BY <1>0, <1>8, <2>2 DEF Cleanup
  <2> QED
    BY <2>1, <2>2
<1>9. CASE Fail \/ WriteFails
  BY <1>9 DEF Fail, WriteFails
<1>10. CASE UNCHANGED vars
  BY <1>10 DEF vars, T, Name, Job, Table
<1> QED
  BY <1>1, <1>2, <1>3, <1>4, <1>5, <1>6, <1>7, <1>8, <1>9, <1>10 DEF Next, Migrating

(* No table that is done is the one being migrated.                           *)
LEMMA PassedApart ==
  ASSUME CopiesApart, MInv, PlaceInv, InTable,
         NEW j \in DOMAIN Jobs, NEW i \in DOMAIN Jobs[j].tables, IsPassed(j, i),
         Origin(Jobs[j], Jobs[j].tables[i]) \in DOMAIN Source
  PROVE  Table(Jobs[j], Jobs[j].tables[i]) # T
<1>1. at.job \in DOMAIN Jobs /\ at.tab \in DOMAIN Job.tables /\ InSource(Name)
  BY DEF MInv, PositionInv, PlaceInv, InTable
<1>2. T \in CopiedTables(at.job)
  BY <1>1 DEF CopiedTables, T, Name, InSource, Job, Range
<1>3. Table(Jobs[j], Jobs[j].tables[i]) \in CopiedTables(j)
  BY DEF CopiedTables, Range
<1>4. CASE j = at.job
  <2>1. i < at.tab /\ i \in Nat /\ i # at.tab
    BY <1>4, JobNumbers, AtNumbers DEF IsPassed
  <2>2. Job.tables[i] # Job.tables[at.tab]
    BY <1>1, <1>4, <2>1, JobsAssumption DEF Job, IsInjective
  <2> QED
    BY <1>4, <2>2 DEF T, Name, Table, Job
<1>5. CASE j # at.job
  BY <1>1, <1>2, <1>3, <1>5 DEF CopiesApart
<1> QED
  BY <1>4, <1>5

LEMMA OneOrigin ==
  ASSUME CopiesApart, MInv, PlaceInv, InTable, NEW o \in Copies(T)
  PROVE  o = Origin(Job, Name)
<1>1. at.job \in DOMAIN Jobs /\ at.tab \in DOMAIN Job.tables /\ InSource(Name)
  BY DEF MInv, PositionInv, PlaceInv, InTable
<1>2. T \in CopiedTables(at.job)
  BY <1>1 DEF CopiedTables, T, Name, InSource, Job, Range
<1>7. PICK j \in DOMAIN Jobs : \E n \in Range(Jobs[j].tables) :
           o \in DOMAIN Source /\ Table(Jobs[j], n) = T /\ Origin(Jobs[j], n) = o
  BY DEF Copies
<1>3. PICK n \in Range(Jobs[j].tables) :
           o \in DOMAIN Source /\ Table(Jobs[j], n) = T /\ Origin(Jobs[j], n) = o
  BY <1>7
<1>4. T \in CopiedTables(j)
  BY <1>3 DEF CopiedTables
<1>5. j = at.job
  BY <1>1, <1>2, <1>4 DEF CopiesApart
<1>6. n = Name
  BY <1>3 DEF T, Table
<1> QED
  BY <1>3, <1>5, <1>6 DEF Job

(* What was done stays done while it is not touched.                         *)
LEMMA PassedKeeps ==
  ASSUME phase # "failed", PassedInv, opts' = opts,
         \A j \in DOMAIN Jobs : \A i \in DOMAIN Jobs[j].tables :
            IsPassed(j, i)' /\ Origin(Jobs[j], Jobs[j].tables[i]) \in DOMAIN Source =>
                \/ IsPassed(j, i) /\ tgt'[Table(Jobs[j], Jobs[j].tables[i])] = tgt[Table(Jobs[j], Jobs[j].tables[i])]
                \/ Whole(Table(Jobs[j], Jobs[j].tables[i]), Origin(Jobs[j], Jobs[j].tables[i]))'
  PROVE  PassedInv'
<1> SUFFICES ASSUME NEW j \in DOMAIN Jobs, NEW i \in DOMAIN Jobs[j].tables,
                    IsPassed(j, i)', Origin(Jobs[j], Jobs[j].tables[i]) \in DOMAIN Source
             PROVE  Whole(Table(Jobs[j], Jobs[j].tables[i]), Origin(Jobs[j], Jobs[j].tables[i]))'
  BY DEF PassedInv, Table, Origin
<1>1. PICK t, o : t = Table(Jobs[j], Jobs[j].tables[i]) /\ o = Origin(Jobs[j], Jobs[j].tables[i])
  OBVIOUS
<1>2. CASE Whole(t, o)'
  BY <1>1, <1>2 DEF Table, Origin
<1>3. CASE IsPassed(j, i) /\ tgt'[t] = tgt[t]
  <2>1. Whole(t, o)
    BY <1>1, <1>3 DEF PassedInv
  <2>2. Whole(t, o)'
    BY <1>3, <2>1 DEF Whole, Holds
  <2> QED
    BY <1>1, <2>2 DEF Table, Origin
<1> QED
  BY <1>1, <1>2, <1>3

(* What each step does to the tables and positions of a migration at work.     *)
LEMMA WorkStart == Init => WInv
<1> SUFFICES ASSUME Init PROVE WInv
  OBVIOUS
<1>1. MInv /\ AttemptInv /\ PlaceInv
  BY InitMInv, PlaceStart, InitKInv DEF KInv
<1>2. PassedInv
  <2>1. ASSUME NEW j \in DOMAIN Jobs, NEW i \in DOMAIN Jobs[j].tables PROVE ~IsPassed(j, i)
    BY JobNumbers DEF Init, IsPassed
  <2> QED
    BY <2>1 DEF PassedInv
<1>3. HereInv
  BY DEF Init, HereInv
<1>4. ASSUME NEW t \in Targets, NEW o PROVE Stays(t, o)
  <2>1. old[t] = tgt[t] /\ tgt[t] \in Content \cup {Absent}
    BY <1>1 DEF Init, MInv, TypeOK
  <2> QED
    BY <2>1 DEF Stays, Content
<1> QED
  BY <1>1, <1>2, <1>3, <1>4 DEF WInv, StaysInv

(* A step that leaves the tables alone, but not what is passed.                *)
LEMMA StaysKeeps == ASSUME StaysInv, opts' = opts, old' = old, tgt' = tgt PROVE StaysInv'
  BY DEF StaysInv, Stays, Copies

LEMMA BeginPasses == ASSUME WInv, Begin PROVE PassedInv' /\ HereInv' /\ StaysInv'
<1>1. ASSUME NEW j \in DOMAIN Jobs, NEW i \in DOMAIN Jobs[j].tables PROVE ~IsPassed(j, i)'
  BY JobNumbers DEF Begin, IsPassed
<1>2. PassedInv' /\ HereInv'
  BY <1>1 DEF PassedInv, HereInv, Begin
<1>3. ASSUME NEW t \in Targets, NEW o, old' = tgt PROVE Stays(t, o)'
  <2>1. tgt[t] \in Content \cup {Absent} /\ tgt' = tgt
    BY DEF WInv, MInv, TypeOK, Begin
  <2> QED
    BY <1>3, <2>1 DEF Stays, Content
<1>4. StaysInv'
  <2>1. CASE old' = tgt
    BY <1>3, <2>1 DEF StaysInv, Copies
  <2>2. CASE old' = old
    BY <2>2, StaysKeeps DEF WInv, Begin
  <2> QED
    BY <2>1, <2>2 DEF Begin
<1> QED
  BY <1>2, <1>4

(* The steps that only move.                                                  *)
Moves == PlanJob \/ Succeed \/ SkipMissing \/ StartTable \/ DropOldBackup \/ CopyBackup \/ FinishTable
            \/ TablesDone \/ MigrateObject \/ ObjectsDone \/ Cleanup \/ WriteFails \/ Fail

LEMMA MovesLeave == Moves => opts' = opts /\ tgt' = tgt /\ old' = old /\ phase # "failed"
  BY DEF Moves, PlanJob, Succeed, SkipMissing, StartTable, DropOldBackup, CopyBackup, FinishTable,
         TablesDone, MigrateObject, ObjectsDone, Cleanup, WriteFails, Fail

LEMMA MovePasses ==
  ASSUME WInv, Moves, phase' # "failed", NEW j \in DOMAIN Jobs, NEW i \in DOMAIN Jobs[j].tables, IsPassed(j, i)'
  PROVE  IsPassed(j, i) \/ (j = at.job /\ i = at.tab /\ (SkipMissing \/ FinishTable))
<1>0. /\ at \in Positions /\ at.job \in Nat \ {0} /\ at.tab \in Nat \ {0} /\ at.row \in Nat \ {0}
      /\ j \in Nat \ {0} /\ j <= Len(Jobs) /\ i \in Nat \ {0} /\ i <= Len(Jobs[j].tables) /\ Len(Jobs[j].tables) \in Nat
      /\ Len(Jobs) \in Nat
  BY AtNumbers, JobNumbers, JobsAssumption DEF WInv
<1>1. CASE PlanJob
  <2>1. at'.job = at.job /\ at'.tab = 1
    BY <1>0, <1>1, PlanPosition
  <2> QED
    BY <1>0, <2>1 DEF IsPassed
<1>2. CASE Succeed
  BY <1>0, <1>2 DEF Succeed, IsPassed
<1>3. CASE SkipMissing \/ FinishTable
  <2>1. at'.job = at.job /\ at'.tab = at.tab + 1 /\ phase # "job"
    BY <1>0, <1>3, NextTablePosition DEF SkipMissing, FinishTable
  <2> QED
    BY <1>0, <1>3, <2>1 DEF IsPassed
<1>4. CASE StartTable \/ DropOldBackup \/ CopyBackup \/ TablesDone \/ ObjectsDone
  <2>1. at' = at /\ phase # "job"
    BY <1>4 DEF StartTable, DropOldBackup, CopyBackup, TablesDone, ObjectsDone
  <2> QED
    BY <2>1 DEF IsPassed
<1>5. CASE MigrateObject
  <2>1. at'.job = at.job /\ at'.tab = at.tab /\ phase # "job"
    BY <1>0, <1>5 DEF MigrateObject, Positions
  <2> QED
    BY <2>1 DEF IsPassed
<1>6. CASE Cleanup
  <2>1. CASE at' = at
    BY <1>6, <2>1 DEF Cleanup, IsPassed
  <2>2. CASE at' # at
    <3>1. at'.job = at.job + 1 /\ phase' = "job" /\ phase = "cleanup"
      BY <1>0, <1>6, <2>2 DEF Cleanup, Positions
    <3>2. at.tab > Len(Job.tables)
      BY <3>1 DEF WInv, PlaceInv
    <3> QED
      BY <1>0, <3>1, <3>2 DEF IsPassed, Job
  <2> QED
    BY <2>1, <2>2
<1>7. CASE WriteFails \/ Fail
  BY <1>7 DEF WriteFails, Fail
<1> QED
  BY <1>1, <1>2, <1>3, <1>4, <1>5, <1>6, <1>7 DEF Moves

(* A table whose rows have all been written is done.                          *)
LEMMA FinishedIsWhole ==
  ASSUME DataArrives, WInv, FinishTable PROVE Whole(T, Origin(Job, Name))
<1>1. phase = "data" /\ at.row > Len(Input) /\ InTable
  BY DEF FinishTable, InTable
<1>2. InSource(Name) /\ HereInv /\ MInv
  BY <1>1 DEF WInv, MInv, PositionInv
<1>3. PICK o \in DOMAIN Source : o = Origin(Job, Name)
  BY <1>2 DEF InSource
<1>4. Input = Source[o] /\ Len(Source[o]) \in Nat /\ (Source[o] # <<>> => Len(Source[o]) # 0)
  BY <1>3, SourceFacts DEF Input
<1>5. at.row = Len(Source[o]) + 1 /\ at.row \in Nat
  BY <1>1, <1>2, <1>4, AtNumbers DEF HereInv
<1>6. tgt[T] # Absent
  <2> SUFFICES ASSUME tgt[T] = Absent PROVE FALSE
    OBVIOUS
  <2>1. opts.dataOnly /\ at.row = 1 /\ opts \in Options
    BY <1>1, <1>2 DEF HereInv, MInv, TypeOK
  <2>2. Source[o] # <<>>
    BY <2>1 DEF DataArrives
  <2> QED
    BY <1>4, <1>5, <2>1, <2>2
<1>7. Holds(T, o, Len(Source[o]))
  BY <1>1, <1>2, <1>3, <1>5, <1>6 DEF HereInv
<1> QED
  BY <1>3, <1>6, <1>7 DEF Whole

LEMMA MoveKeepsPassed == ASSUME DataArrives, WInv, Moves PROVE PassedInv'
<1>1. CASE phase' = "failed"
  BY <1>1 DEF PassedInv
<1>2. CASE phase' # "failed"
  <2>1. opts' = opts /\ tgt' = tgt /\ phase # "failed"
    BY MovesLeave
  <2>2. ASSUME NEW j \in DOMAIN Jobs, NEW i \in DOMAIN Jobs[j].tables, IsPassed(j, i)',
               Origin(Jobs[j], Jobs[j].tables[i]) \in DOMAIN Source, ~IsPassed(j, i)
        PROVE  Whole(Table(Jobs[j], Jobs[j].tables[i]), Origin(Jobs[j], Jobs[j].tables[i]))'
    <3>1. j = at.job /\ i = at.tab /\ (SkipMissing \/ FinishTable)
      BY <1>2, <2>2, MovePasses
    <3>2. PICK t, o : t = Table(Jobs[j], Jobs[j].tables[i]) /\ o = Origin(Jobs[j], Jobs[j].tables[i])
      OBVIOUS
    <3>3. t = T /\ o = Origin(Job, Name)
      BY <3>1, <3>2 DEF T, Name, Job
    <3>4. FinishTable
      BY <2>2, <3>1 DEF SkipMissing, InSource, Name, Job
    <3>5. Whole(t, o)
      BY <3>3, <3>4, FinishedIsWhole
    <3>6. Whole(t, o)'
      BY <2>1, <3>5 DEF Whole, Holds
    <3> QED
      BY <3>2, <3>6 DEF Table, Origin
  <2> QED
    BY <2>1, <2>2, PassedKeeps DEF WInv
<1> QED
  BY <1>1, <1>2

LEMMA MoveKeepsHere == ASSUME WInv, Moves PROVE HereInv'
<1>1. CASE StartTable
  <2>1. at' = at /\ tgt' = tgt /\ opts' = opts /\ phase' # "data" /\ T' = T
    BY <1>1 DEF StartTable, T, Name, Job, Table
  <2>2. phase' = "create" /\ opts.reset # "none" => tgt[T] = Absent
    BY <1>1 DEF StartTable
  <2> QED
    BY <2>1, <2>2 DEF HereInv
<1>2. CASE ~StartTable
  <2>1. phase' \notin {"create", "data"}
    BY <1>2 DEF Moves, PlanJob, Succeed, SkipMissing, DropOldBackup, CopyBackup, FinishTable,
         TablesDone, MigrateObject, ObjectsDone, Cleanup, WriteFails, Fail
  <2> QED
    BY <2>1 DEF HereInv
<1> QED
  BY <1>1, <1>2

(* The steps that change the table being migrated.                            *)
LEMMA AtWork == ASSUME WInv, InTable
                PROVE  /\ T \in Targets /\ at.job \in DOMAIN Jobs /\ at.tab \in DOMAIN Job.tables
                       /\ InSource(Name) /\ DOMAIN tgt = Targets
<1>1. T \in Targets
  BY Position DEF WInv, MInv
<1> QED
  BY <1>1 DEF WInv, MInv, PositionInv, PlaceInv, TypeOK

LEMMA TouchKeepsPassed ==
  ASSUME CopiesApart, WInv, InTable, phase' # "job", opts' = opts, at'.job = at.job, at'.tab = at.tab,
         \A t \in Targets : t # T => tgt'[t] = tgt[t]
  PROVE  PassedInv'
<1>1. ASSUME NEW j \in DOMAIN Jobs, NEW i \in DOMAIN Jobs[j].tables, IsPassed(j, i)',
             Origin(Jobs[j], Jobs[j].tables[i]) \in DOMAIN Source
      PROVE  IsPassed(j, i) /\ tgt'[Table(Jobs[j], Jobs[j].tables[i])] = tgt[Table(Jobs[j], Jobs[j].tables[i])]
  <2>1. IsPassed(j, i)
    BY <1>1 DEF IsPassed, InTable
  <2>2. Table(Jobs[j], Jobs[j].tables[i]) # T
    BY <1>1, <2>1, PassedApart DEF WInv
  <2>3. Table(Jobs[j], Jobs[j].tables[i]) \in Targets
    BY DEF Targets, Range
  <2> QED
    BY <2>1, <2>2, <2>3
<1>2. phase # "failed"
  BY DEF InTable
<1> QED
  BY <1>1, <1>2, PassedKeeps DEF WInv

LEMMA ResetPasses == ASSUME CopiesApart, WInv, Reset PROVE PassedInv' /\ HereInv' /\ StaysInv'
<1>1. InTable /\ opts' = opts /\ at' = at /\ phase' = "create" /\ T' = T
  BY DEF Reset, InTable, T, Name, Job, Table
<1>2. T \in Targets /\ DOMAIN tgt = Targets
  BY <1>1, AtWork
<1>3. tgt'[T] \in {Absent, Empty} /\ \A t \in Targets : t # T => tgt'[t] = tgt[t]
  BY <1>2 DEF Reset
<1>4. PassedInv'
  BY <1>1, <1>3, TouchKeepsPassed
<1>5. HereInv'
  BY <1>1, <1>3 DEF HereInv
<1>6. StaysInv'
  BY <1>1 DEF Reset, WInv, MInv, PositionInv, StaysInv
<1> QED
  BY <1>4, <1>5, <1>6

LEMMA EmptyHolds == ASSUME WInv, NEW t, tgt[t] \in Content, opts.reset # "none" => tgt[t] = Empty, NEW o
                    PROVE  Holds(t, o, 0)
<1>1. ASSUME NEW r \in Rows PROVE Among(o, 0, r) = 0 /\ tgt[t][r] \in Nat /\ Empty[r] = 0
  BY AmongNone DEF Content, Empty
<1> QED
  BY <1>1 DEF Holds

LEMMA CreatePasses == ASSUME CopiesApart, DataArrives, WInv, CreateTable PROVE PassedInv' /\ HereInv' /\ StaysInv'
<1>0. at \in Positions /\ at.job \in Nat \ {0} /\ at.tab \in Nat \ {0} /\ at.row \in Nat \ {0}
  BY AtNumbers DEF WInv
<1>1. InTable /\ phase = "create" /\ opts' = opts /\ old' = old /\ at.row = 1
  BY DEF CreateTable, InTable, WInv, PlaceInv
<1>2. /\ T \in Targets /\ DOMAIN tgt = Targets /\ InSource(Name) /\ at.job \in DOMAIN Jobs
      /\ at.tab \in DOMAIN Job.tables /\ tgt[T] \in Content \cup {Absent}
  BY <1>1, AtWork DEF WInv, MInv, TypeOK
<1>3. /\ \A t \in Targets : t # T => tgt'[t] = tgt[t]
      /\ tgt'[T] = IF ~opts.dataOnly /\ tgt[T] = Absent THEN Empty ELSE tgt[T]
  BY <1>2 DEF CreateTable
<1>4. opts.reset # "none" => tgt[T] \in {Absent, Empty}
  BY <1>1 DEF WInv, HereInv
<1>5. StaysInv'
  <2> SUFFICES ASSUME opts.reset = "none", NEW t \in Targets, NEW o \in Copies(t) PROVE Stays(t, o)'
    BY <1>1 DEF StaysInv, Copies
  <2>1. Stays(t, o)
    BY DEF WInv, StaysInv
  <2>2. CASE old[t] = Absent
    BY <1>1, <2>2 DEF Stays
  <2>3. CASE old[t] # Absent
    <3>1. tgt'[t] = tgt[t]
      BY <1>3, <2>1, <2>3 DEF Stays
    <3> QED
      BY <1>1, <2>1, <3>1 DEF Stays
  <2> QED
    BY <2>2, <2>3
<1>6. CASE opts.schemaOnly
  <2>1. at'.job = at.job /\ at'.tab = at.tab + 1 /\ phase' = "table"
    BY <1>0, <1>6, NextTablePosition DEF CreateTable
  <2>2. tgt'[T] # Absent
    <3>1. opts \in Options
      BY DEF WInv, MInv, TypeOK
    <3>2. ~opts.dataOnly
      BY <1>6, <3>1 DEF DataArrives
    <3> QED
      BY <1>2, <1>3, <3>2, EmptyIsContent, AbsentAssumption
  <2>3. ASSUME NEW j \in DOMAIN Jobs, NEW i \in DOMAIN Jobs[j].tables, IsPassed(j, i)',
               Origin(Jobs[j], Jobs[j].tables[i]) \in DOMAIN Source
        PROVE  \/ IsPassed(j, i) /\ tgt'[Table(Jobs[j], Jobs[j].tables[i])] = tgt[Table(Jobs[j], Jobs[j].tables[i])]
               \/ Whole(Table(Jobs[j], Jobs[j].tables[i]), Origin(Jobs[j], Jobs[j].tables[i]))'
    <3>1. PICK t, o : t = Table(Jobs[j], Jobs[j].tables[i]) /\ o = Origin(Jobs[j], Jobs[j].tables[i])
      OBVIOUS
    <3>2. t \in Targets
      BY <3>1 DEF Targets, Range
    <3>3. CASE IsPassed(j, i)
      <4>1. t # T
        BY <1>1, <2>3, <3>1, <3>3, PassedApart DEF WInv
      <4> QED
        BY <1>3, <3>1, <3>2, <3>3, <4>1
    <3>4. CASE ~IsPassed(j, i)
      <4>1. j = at.job /\ i = at.tab
        BY <1>0, <1>1, <2>1, <2>3, <3>4, JobNumbers DEF IsPassed
      <4>2. t = T
        BY <3>1, <4>1 DEF T, Name, Job
      <4>3. Whole(t, o)'
        BY <1>1, <1>6, <2>2, <4>2 DEF Whole
      <4> QED
        BY <3>1, <4>3 DEF Table, Origin
    <3> QED
      BY <3>3, <3>4
  <2>4. PassedInv'
    BY <1>1, <2>3, PassedKeeps DEF WInv
  <2> QED
    BY <1>5, <2>1, <2>4 DEF HereInv
<1>7. CASE ~opts.schemaOnly
  <2>1. at' = at /\ phase' = "data"
    BY <1>7 DEF CreateTable
  <2>2. PassedInv'
    BY <1>1, <1>3, <2>1, TouchKeepsPassed
  <2>3. T' = T /\ Input' = Input /\ Job' = Job /\ Name' = Name
    BY <2>1 DEF T, Input, Name, Job, Table, Origin
  <2>4. Len(Input) \in Nat
    BY <1>2, SourceFacts DEF Input, InSource
  <2>5. tgt'[T] = Absent => opts.dataOnly
    BY <1>3, EmptyIsContent, AbsentAssumption
  <2>6. tgt'[T] # Absent => Holds(T, Origin(Job, Name), 0)'
    <3> SUFFICES ASSUME tgt'[T] # Absent PROVE Holds(T, Origin(Job, Name), 0)'
      OBVIOUS
    <3>1. tgt'[T] \in Content /\ (opts.reset # "none" => tgt'[T] = Empty)
      BY <1>2, <1>3, <1>4, EmptyIsContent
    <3>2. ASSUME NEW r \in Rows PROVE Among(Origin(Job, Name), 0, r) = 0 /\ tgt'[T][r] \in Nat /\ Empty[r] = 0
      BY <3>1, AmongNone DEF Content, Empty
    <3>3. ASSUME NEW r \in Rows
          PROVE  IF opts.reset = "none" THEN tgt'[T][r] >= Among(Origin(Job, Name), 0, r)
                                        ELSE tgt'[T][r] = Among(Origin(Job, Name), 0, r)
      BY <3>1, <3>2
    <3> QED
      BY <1>1, <2>3, <3>3 DEF Holds, Origin
  <2>7. HereInv'
    BY <1>1, <2>1, <2>3, <2>4, <2>5, <2>6 DEF HereInv, Origin
  <2> QED
    BY <1>5, <2>2, <2>7
<1> QED
  BY <1>6, <1>7

LEMMA BatchBounds == ASSUME WInv, WriteBatch
                     PROVE  /\ LastOfBatch \in Nat /\ at.row <= LastOfBatch /\ LastOfBatch <= Len(Input)
                            /\ Len(Input) \in Nat /\ at.row \in Nat \ {0} /\ InSource(Name)
<1>1. InTable /\ at.row <= Len(Input)
  BY DEF WriteBatch, InTable
<1>2. InSource(Name) /\ at.row \in Nat \ {0}
  BY <1>1, AtWork, AtNumbers DEF WInv
<1>3. Len(Input) \in Nat
  BY <1>2, SourceFacts DEF Input, InSource
<1> QED
  BY <1>1, <1>2, <1>3, BoundAssumption DEF LastOfBatch

LEMMA WritePasses == ASSUME CopiesApart, KeysName, WInv, WriteBatch PROVE PassedInv' /\ HereInv' /\ StaysInv'
<1>0. at \in Positions /\ at.job \in Nat \ {0} /\ at.tab \in Nat \ {0}
  BY AtNumbers DEF WInv
<1>1. InTable /\ phase = "data" /\ phase' = "data" /\ opts' = opts /\ old' = old /\ tgt[T] # Absent
  BY DEF WriteBatch, InTable
<1>2. T \in Targets /\ DOMAIN tgt = Targets /\ tgt[T] \in Content
  BY <1>1, AtWork DEF WInv, MInv, TypeOK
<1>3. PICK lo, hi : lo = at.row /\ hi = LastOfBatch
  OBVIOUS
<1>4. /\ lo \in Nat \ {0} /\ hi \in Nat /\ lo <= hi /\ hi <= Len(Input) /\ Len(Input) \in Nat /\ InSource(Name)
  BY <1>3, BatchBounds
<1>5. PICK w : w = Write(tgt[T], lo, hi)
  OBVIOUS
<1>6. tgt'[T] = w /\ \A t \in Targets : t # T => tgt'[t] = tgt[t]
  BY <1>2, <1>3, <1>5 DEF WriteBatch
<1>7. at'.job = at.job /\ at'.tab = at.tab /\ at'.row = hi + 1
  BY <1>0, <1>3 DEF WriteBatch, Positions
<1>8. T' = T /\ Input' = Input /\ Job' = Job /\ Name' = Name
  BY <1>7 DEF T, Input, Name, Job, Table, Origin
<1>9. w \in Content
  BY <1>2, <1>4, <1>5, WriteIsContent
<1>10. PICK o \in DOMAIN Source : o = Origin(Job, Name)
  BY <1>4 DEF InSource
<1>11. ASSUME NEW r \in Rows
       PROVE  /\ w[r] \in Nat
              /\ tgt[T][r] = Among(o, lo - 1, r) => w[r] = Among(o, hi, r)
              /\ tgt[T][r] >= Among(o, lo - 1, r) => w[r] >= Among(o, hi, r)
              /\ \/ Name \in HasKey /\ \E i \in DOMAIN Source[o] : Source[o][i].key = r.key
                 \/ w[r] >= tgt[T][r]
  BY <1>2, <1>4, <1>5, <1>10, WriteAdds
<1>12. PassedInv'
  BY <1>1, <1>6, <1>7, TouchKeepsPassed
<1>13. Holds(T, o, lo - 1)
  BY <1>1, <1>3, <1>10 DEF WInv, HereInv
<1>14. ASSUME NEW r \in Rows
       PROVE  IF opts.reset = "none" THEN w[r] >= Among(o, hi, r) ELSE w[r] = Among(o, hi, r)
  BY <1>11, <1>13 DEF Holds
<1>15. HereInv'
  <2>1. Holds(T, o, hi)'
    BY <1>1, <1>6, <1>8, <1>14 DEF Holds
  <2>2. tgt'[T] # Absent
    BY <1>6, <1>9, AbsentAssumption
  <2>3. at'.row <= Len(Input) + 1 /\ at'.row - 1 = hi
    BY <1>4, <1>7
  <2>4. Origin(Job, Name)' = o
    BY <1>8, <1>10 DEF Origin
  <2> QED
    BY <1>1, <1>8, <2>1, <2>2, <2>3, <2>4 DEF HereInv
<1>16. StaysInv'
  <2> SUFFICES ASSUME opts.reset = "none", NEW t \in Targets, NEW q \in Copies(t) PROVE Stays(t, q)'
    BY <1>1 DEF StaysInv, Copies
  <2>1. Stays(t, q)
    BY DEF WInv, StaysInv
  <2>2. CASE t # T
    BY <1>1, <1>6, <2>1, <2>2 DEF Stays
  <2>3. CASE t = T /\ old[t] # Absent
    <3>1. q = o
      BY <1>1, <1>10, <2>3, OneOrigin DEF WInv
    <3>2. T[2] = Name
      BY DEF T, Table
    <3>3. old[t] \in Content
      BY <2>3 DEF WInv, MInv, TypeOK
    <3>4. ASSUME NEW r \in Rows
          PROVE  \/ t[2] \in HasKey /\ \E i \in DOMAIN Source[q] : Source[q][i].key = r.key
                 \/ w[r] >= old[t][r]
      <4>1. old[t][r] \in Nat /\ tgt[t][r] \in Nat /\ w[r] \in Nat
        BY <1>2, <1>11, <2>3, <3>3 DEF Content
      <4>2. \/ t[2] \in HasKey /\ \E i \in DOMAIN Source[q] : Source[q][i].key = r.key
            \/ tgt[t][r] >= old[t][r]
        BY <2>1, <2>3 DEF Stays
      <4>3. \/ t[2] \in HasKey /\ \E i \in DOMAIN Source[q] : Source[q][i].key = r.key
            \/ w[r] >= tgt[t][r]
        BY <1>11, <2>3, <3>1, <3>2
      <4> QED
        BY <4>1, <4>2, <4>3
    <3>5. tgt'[t] = w /\ w # Absent
      BY <1>6, <1>9, <2>3, AbsentAssumption
    <3> QED
      BY <1>1, <3>4, <3>5 DEF Stays
  <2>4. CASE old[t] = Absent
    BY <1>1, <2>4 DEF Stays
  <2> QED
    BY <2>2, <2>3, <2>4
<1> QED
  BY <1>12, <1>15, <1>16

LEMMA WorkStep == ASSUME CopiesApart, KeysName, DataArrives, WInv, [Next]_vars PROVE WInv'
<1>1. MInv' /\ AttemptInv' /\ PlaceInv'
  BY StepMInv, StepAttempt, PlaceStep DEF WInv
<1>2. CASE Begin
  BY <1>1, <1>2, BeginPasses DEF WInv
<1>3. CASE Moves
  <2>1. opts' = opts /\ tgt' = tgt /\ old' = old
    BY <1>3, MovesLeave
  <2>2. StaysInv'
    BY <2>1, StaysKeeps DEF WInv
  <2> QED
    BY <1>1, <1>3, <2>2, MoveKeepsPassed, MoveKeepsHere DEF WInv
<1>4. CASE Reset
  BY <1>1, <1>4, ResetPasses DEF WInv
<1>5. CASE CreateTable
  BY <1>1, <1>5, CreatePasses DEF WInv
<1>6. CASE WriteBatch
  BY <1>1, <1>6, WritePasses DEF WInv
<1>7. CASE UNCHANGED vars
  <2>1. PassedInv'
    BY <1>7 DEF vars, WInv, PassedInv, IsPassed, Whole, Holds, Table, Origin
  <2>2. HereInv'
    BY <1>7 DEF vars, WInv, HereInv, Holds, T, Input, Name, Job, Table, Origin
  <2>3. StaysInv'
    BY <1>7, StaysKeeps DEF vars, WInv
  <2> QED
    BY <1>1, <2>1, <2>2, <2>3 DEF WInv
<1> QED
  BY <1>2, <1>3, <1>4, <1>5, <1>6, <1>7 DEF Next, Migrating, Moves

(* What the invariants say of a migration that succeeded.                     *)
LEMMA SuccessIsWhole ==
  ASSUME WInv, phase = "ok", NEW t \in Targets, NEW o \in Copies(t) PROVE Whole(t, o) /\ o \in DOMAIN Source
<1>1. PICK j \in DOMAIN Jobs : \E n \in Range(Jobs[j].tables) :
           o \in DOMAIN Source /\ Table(Jobs[j], n) = t /\ Origin(Jobs[j], n) = o
  BY DEF Copies
<1>2. PICK n \in Range(Jobs[j].tables) : o \in DOMAIN Source /\ Table(Jobs[j], n) = t /\ Origin(Jobs[j], n) = o
  BY <1>1
<1>3. PICK i \in DOMAIN Jobs[j].tables : Jobs[j].tables[i] = n
  BY DEF Range
<1>4. IsPassed(j, i)
  <2>1. j < at.job
    BY JobNumbers, AtNumbers, JobsAssumption DEF WInv, PlaceInv
  <2> QED
    BY <2>1 DEF IsPassed
<1> QED
  BY <1>2, <1>3, <1>4 DEF WInv, PassedInv

LEMMA AmongAll == ASSUME NEW o \in DOMAIN Source, NEW r PROVE Among(o, Len(Source[o]), r) = CountIn(o, r)
  BY SourceFacts DEF Among, Hits, CountIn

LEMMA WorkMeans == ASSUME WInv, BackupInv PROVE TargetContents
<1>1. ExactAfterReset
  <2> SUFFICES ASSUME phase = "ok", opts.reset # "none", ~opts.schemaOnly,
                      NEW t \in Targets, NEW o \in Copies(t), NEW r \in Rows
               PROVE  tgt[t] # Absent /\ tgt[t][r] = CountIn(o, r)
    BY DEF ExactAfterReset
  <2>1. Whole(t, o) /\ o \in DOMAIN Source
    BY SuccessIsWhole
  <2> QED
    BY <2>1, AmongAll DEF Whole, Holds
<1>2. MergedWithoutReset
  <2> SUFFICES ASSUME phase = "ok", opts.reset = "none", ~opts.schemaOnly,
                      NEW t \in Targets, NEW o \in Copies(t), NEW r \in Rows
               PROVE  /\ tgt[t] # Absent
                      /\ tgt[t][r] >= CountIn(o, r)
                      /\ \/ old[t] = Absent
                         \/ t[2] \in HasKey /\ \E i \in DOMAIN Source[o] : Source[o][i].key = r.key
                         \/ tgt[t][r] >= old[t][r]
    BY DEF MergedWithoutReset
  <2>1. Whole(t, o) /\ o \in DOMAIN Source
    BY SuccessIsWhole
  <2>2. Stays(t, o)
    BY DEF WInv, StaysInv
  <2> QED
    BY <2>1, <2>2, AmongAll DEF Whole, Holds, Stays
<1>3. BackupsCleaned
  BY DEF BackupInv, BackupsCleaned
<1>4. TablesExist
  BY SuccessIsWhole DEF TablesExist, Whole
<1> QED
  BY <1>1, <1>2, <1>3, <1>4 DEF TargetContents

(* A migration that succeeds leaves, for any jobs, rows, options and batch     *)
(* size, and whatever an attempt before it left half done: with a reset       *)
(* exactly the rows of the source; without one all of them, and no other row  *)
(* lost; every table, and, at the first attempt, no backup (RunMigrate).      *)
THEOREM TargetsAreRight == Regular => (Spec => []TargetContents)
<1> SUFFICES ASSUME Regular PROVE Spec => []TargetContents
  OBVIOUS
<1>1. CopiesApart /\ KeysName /\ DataArrives /\ "cleanup" \notin Faults
  BY DEF Regular
<1>2. Init => WInv /\ BackupInv
  BY WorkStart, BackupStart
<1>3. WInv /\ BackupInv /\ [Next]_vars => (WInv /\ BackupInv)'
  BY <1>1, WorkStep, BackupStep DEF WInv
<1>4. WInv /\ BackupInv => TargetContents
  BY WorkMeans
<1> QED
  BY <1>2, <1>3, <1>4, PTL DEF Spec

=============================================================================
