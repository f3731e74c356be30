----------------------------- MODULE DataImport -----------------------------
(***************************************************************************)
(* Import of DataPackages with exact rollback: RunImport                   *)
(* (internal/engine/importer.go) and ApplyDataPackage                      *)
(* (internal/engine/datapackage.go).                                       *)
(*                                                                         *)
(* An import first executes its .sql statements one by one, then applies   *)
(* its packages, one transaction each.  While a package is applied the     *)
(* statements that would undo it are collected; they are written next to   *)
(* the input file and replayed by hand, in the order of the file.          *)
(*                                                                         *)
(* Each database has one table: rows by primary key and the definition of  *)
(* one column, which a paired statement (ALTER ... MODIFY) may change.     *)
(***************************************************************************)
EXTENDS Naturals, Sequences, FiniteSets, SequencesExt

CONSTANTS
    Databases, Keys, Values,
    None,         \* no row, no definition, no rollback statement
    Imports,      \* the imports of this instance: the statements and packages,
                  \* what a database may hold before them, whether DDL commits
                  \* (MySQL, Oracle) and what may fail
    Rollback      \* ImportOptions.Rollback

ASSUME NoneAssumption   == None \notin Values \cup Keys

Contents == [exists : BOOLEAN, rows : [Keys -> Values \cup {None}], col : Values \cup {None}]
Stmts    == [op : {"create", "drop", "alter", "delete", "put"}, keys : SUBSET Keys,
             val : Values \cup {None}]
Stmt(op, keys, val) == [op |-> op, keys |-> keys, val |-> val]
NoTable == [exists |-> FALSE, rows |-> [k \in Keys |-> None], col |-> None]

(* An entry of a package: a table, rows to put, or a paired statement.     *)
EntryOk(e) ==
    \/ e.type = "create" /\ e.to \in Values
    \/ e.type = "upsert" /\ e.pk \in BOOLEAN /\ e.data \in Seq([key : Keys, val : Values])
    \/ e.type = "exec" /\ e.to \in Values /\ e.back \in Values \cup {None}

ASSUME ImportAssumption ==
    /\ Rollback \in BOOLEAN /\ IsFiniteSet(Keys)
    /\ \A i \in Imports :
          /\ i.ddlCommits \in BOOLEAN
          /\ i.faults \subseteq {"statement", "cancel", "read", "write", "contributor"}
          /\ i.start \subseteq Contents /\ \A c \in i.start : c.exists \/ c = NoTable
          /\ i.sqls \in Seq([db : Databases, stmt : Stmts])
          /\ Len(i.pkgs) \in Nat
          /\ \A p \in 1 .. Len(i.pkgs) :
                /\ i.pkgs[p].db \in Databases /\ Len(i.pkgs[p].entries) \in Nat
                /\ \A e \in 1 .. Len(i.pkgs[p].entries) : EntryOk(i.pkgs[p].entries[e])

VARIABLES
    job,        \* the import: .sql statements and packages
    db,         \* content of each database
    base,       \* content when the first package is about to be applied
    phase,
    at,         \* position: .sql statement, package, entry, row
    saved,      \* what a rollback of the transaction restores
    rb,         \* DataApplyResult.RollbackSQL of the package being applied
    unrollback, \* some statement ran without a rollback
    torn,       \* rows of a database whose undo deletes them without putting them back
    groups,     \* rollGroups: database -> its statements
    files       \* rollback files written: database -> its statements
vars == <<job, db, base, phase, at, saved, rb, unrollback, torn, groups, files>>

-----------------------------------------------------------------------------
(* Statements and what they do to a table.                                 *)
Runs(content, s) ==
    CASE s.op = "create" -> ~content.exists
      [] s.op = "drop"   -> TRUE               \* DROP TABLE IF EXISTS
      [] OTHER           -> content.exists

After(content, s) ==
    CASE s.op = "create" -> [content EXCEPT !.exists = TRUE, !.col = s.val]
      [] s.op = "drop"   -> NoTable
      [] s.op = "alter"  -> [content EXCEPT !.col = s.val]
      [] s.op = "delete" -> [content EXCEPT !.rows = [k \in Keys |->
                                 IF k \in s.keys THEN None ELSE @[k]]]
      [] s.op = "put"    -> [content EXCEPT !.rows = [k \in Keys |->
                                 IF k \in s.keys THEN s.val ELSE @[k]]]

IsDDL(s) == s.op \in {"create", "drop", "alter"}

(* Replaying a rollback file statement by statement; it stops at an error. *)
Perform(r, s) == IF r.ok /\ Runs(r.content, s)
                 THEN [ok |-> TRUE, content |-> After(r.content, s)]
                 ELSE [ok |-> FALSE, content |-> r.content]
Replay(content, stmts) ==
    LET run[n \in 0 .. Len(stmts)] ==
            IF n = 0 THEN [ok |-> TRUE, content |-> content] ELSE Perform(run[n - 1], stmts[n])
    IN  run[Len(stmts)]

-----------------------------------------------------------------------------
Start == [sql |-> 1, pkg |-> 1, entry |-> 1, row |-> 1]

Init ==
    /\ job \in Imports
    /\ db \in [Databases -> job.start]
    /\ base = db
    /\ phase = "sql"
    /\ at = Start
    /\ saved = NoTable
    /\ rb = <<>> /\ unrollback = FALSE /\ torn = {}
    /\ groups = [d \in {} |-> <<>>] /\ files = [d \in {} |-> <<>>]

\* All databases of an import are reached through one connection.
DDLCommits == job.ddlCommits
Faults     == job.faults

Pkg   == job.pkgs[at.pkg]
Entry == Pkg.entries[at.entry]
D     == Pkg.db

(* One .sql statement, executed blindly and committed at once.             *)
ImportSQL ==
    /\ phase = "sql" /\ at.sql <= Len(job.sqls)
    /\ LET s == job.sqls[at.sql] IN
       /\ Runs(db[s.db], s.stmt)
       /\ db' = [db EXCEPT ![s.db] = After(@, s.stmt)]
    /\ at' = [at EXCEPT !.sql = @ + 1]
    /\ UNCHANGED <<job, base, phase, saved, rb, unrollback, torn, groups, files>>

SQLFails ==
    /\ phase = "sql" /\ at.sql <= Len(job.sqls)
    /\ \/ ~Runs(db[job.sqls[at.sql].db], job.sqls[at.sql].stmt)
       \/ Faults \cap {"statement", "cancel"} # {}
    /\ phase' = "failed"
    /\ UNCHANGED <<job, db, base, at, saved, rb, unrollback, torn, groups, files>>

SQLDone ==
    /\ phase = "sql" /\ at.sql > Len(job.sqls)
    /\ phase' = "packages"
    /\ base' = db
    /\ UNCHANGED <<job, db, at, saved, rb, unrollback, torn, groups, files>>

-----------------------------------------------------------------------------
BeginPackage ==
    /\ phase = "packages" /\ at.pkg <= Len(job.pkgs)
    /\ phase' = "entry"
    /\ at' = [at EXCEPT !.entry = 1]
    /\ saved' = db[D]
    /\ rb' = <<>>
    /\ UNCHANGED <<job, db, base, unrollback, torn, groups, files>>

(* Cancelled, or the database cannot be reached: the import returns at     *)
(* once, without a rollback file for what was already applied.             *)
PackageRefused ==
    /\ phase = "packages" /\ at.pkg <= Len(job.pkgs)
    /\ "cancel" \in Faults
    /\ phase' = "failed"
    /\ UNCHANGED <<job, db, base, at, saved, rb, unrollback, torn, groups, files>>

(* Statement s is executed in the transaction; on MySQL and Oracle a DDL   *)
(* statement commits it.                                                   *)
Execute(s) ==
    /\ Runs(db[D], s)
    /\ db' = [db EXCEPT ![D] = After(@, s)]
    /\ saved' = IF DDLCommits /\ IsDDL(s) THEN After(db[D], s) ELSE saved

NextEntry == at' = [at EXCEPT !.entry = @ + 1, !.row = 1]

AtEntry(type) ==
    /\ phase = "entry" /\ at.entry <= Len(Pkg.entries)
    /\ Entry.type = type

CreateTable ==
    /\ AtEntry("create")
    /\ \/ /\ db[D].exists
          /\ UNCHANGED <<db, saved, rb>>
       \/ /\ ~db[D].exists
          /\ Execute(Stmt("create", {}, Entry.to))
          /\ rb' = Append(rb, Stmt("drop", {}, None))
    /\ NextEntry
    /\ UNCHANGED <<job, base, phase, unrollback, torn, groups, files>>

(* No primary key, or no row: nothing is done.                             *)
UpsertSkip ==
    /\ AtEntry("upsert")
    /\ ~Entry.pk \/ Entry.data = <<>>
    /\ NextEntry
    /\ UNCHANGED <<job, db, base, phase, saved, rb, unrollback, torn, groups, files>>

EntryKeys == {Entry.data[i].key : i \in DOMAIN Entry.data}
OldRows   == LET old == {k \in EntryKeys : db[D].rows[k] # None}
             IN  [i \in 1 .. Cardinality(old) |->
                     Stmt("put", {SetToSeq(old)[i]}, db[D].rows[SetToSeq(old)[i]])]

(* The undo is collected first: delete what will be written, then put the  *)
(* old rows back.                                                          *)
UpsertCollect ==
    /\ AtEntry("upsert") /\ Entry.pk /\ Entry.data # <<>>
    /\ db[D].exists
    /\ rb' = Append(rb, Stmt("delete", EntryKeys, None)) \o OldRows
    /\ phase' = "delete"
    /\ UNCHANGED <<job, db, base, at, saved, unrollback, torn, groups, files>>

UpsertDelete ==
    /\ phase = "delete"
    /\ Execute(Stmt("delete", EntryKeys, None))
    /\ phase' = "rows"
    /\ UNCHANGED <<job, base, at, rb, unrollback, torn, groups, files>>

UpsertRow ==
    /\ phase = "rows"
    /\ Execute(Stmt("put", {Entry.data[at.row].key}, Entry.data[at.row].val))
    /\ IF at.row < Len(Entry.data)
       THEN at' = [at EXCEPT !.row = @ + 1] /\ UNCHANGED phase
       ELSE NextEntry /\ phase' = "entry"
    /\ UNCHANGED <<job, base, rb, unrollback, torn, groups, files>>

(* tryColumnRollback reads the column definition on another connection:    *)
(* the one in force on MySQL and Oracle, the committed one on PostgreSQL.  *)
OldDefinition == IF DDLCommits THEN db[D].col ELSE saved.col

(* A paired statement: its own rollback, or one made from the old column   *)
(* definition, or none, which is reported.                                 *)
ExecPair ==
    /\ AtEntry("exec")
    /\ Execute(Stmt("alter", {}, Entry.to))
    /\ \/ /\ Entry.back # None
          /\ rb' = Append(rb, Stmt("alter", {}, Entry.back))
          /\ UNCHANGED unrollback
       \/ /\ Entry.back = None /\ OldDefinition # None
          /\ rb' = Append(rb, Stmt("alter", {}, OldDefinition))
          /\ UNCHANGED unrollback
       \/ /\ Entry.back = None
          /\ unrollback' = TRUE
          /\ UNCHANGED rb
    /\ NextEntry
    /\ UNCHANGED <<job, base, phase, torn, groups, files>>

-----------------------------------------------------------------------------
CollectedBefore(d) == IF d \in DOMAIN groups THEN groups[d] ELSE <<>>

(* Slip: the statements of a later package replace those of an earlier one. *)
AddRollbackReplace(sqls) ==
    [d \in DOMAIN groups \cup {D} |-> IF d = D THEN sqls ELSE groups[d]]

(* addRollback: statements of the same database form one group.            *)
AddRollback(sqls) ==
    [d \in DOMAIN groups \cup {D} |-> IF d = D THEN CollectedBefore(d) \o sqls ELSE groups[d]]

Commit ==
    /\ phase = "entry" /\ at.entry > Len(Pkg.entries)
    /\ groups' = AddRollback(rb)
    /\ rb' = <<>>
    /\ phase' = "packages"
    /\ at' = [at EXCEPT !.pkg = @ + 1, !.entry = 1, !.row = 1]
    /\ UNCHANGED <<job, db, base, saved, unrollback, torn, files>>

(* The next thing the transaction does is DDL, which commits what precedes *)
(* it even when it fails; a cancel is noticed before it.                   *)
DDLNext == /\ DDLCommits /\ phase = "entry" /\ at.entry <= Len(Pkg.entries)
           /\ \/ Entry.type = "exec"
              \/ Entry.type = "create" /\ ~db[D].exists

RolledBack == {saved} \cup (IF DDLNext THEN {db[D]} ELSE {})

(* The transaction is rolled back; what was collected is kept, and written *)
(* out where DDL commits.                                                  *)
AbortWith(undo) ==
    /\ \E content \in RolledBack : db' = [db EXCEPT ![D] = content]
    /\ groups' = AddRollback(undo)
    /\ rb' = <<>>
    /\ phase' = IF DDLCommits THEN "salvage" ELSE "failed"
    /\ UNCHANGED <<job, base, at, saved, unrollback, files>>

(* A statement fails or the import is cancelled.                           *)
Abort ==
    /\ phase \in {"entry", "delete", "rows"}
    /\ \/ AtEntry("exec") /\ ~db[D].exists
       \/ Faults \cap {"statement", "cancel"} # {}
    /\ AbortWith(rb)
    /\ UNCHANGED torn

(* Reading the old rows fails, or is cancelled: the statement that deletes *)
(* the rows is already collected, the old rows only in part.               *)
Unread(n) == EntryKeys \ UNION {OldRows[i].keys : i \in 1 .. n}

ReadFails ==
    /\ AtEntry("upsert") /\ Entry.pk /\ Entry.data # <<>>
    /\ ~db[D].exists \/ Faults \cap {"read", "cancel"} # {}
    /\ \E n \in 0 .. Len(OldRows) :
          /\ AbortWith(Append(rb, Stmt("delete", EntryKeys, None)) \o SubSeq(OldRows, 1, n))
          /\ torn' = {D} \X Unread(n)

(* After the last package the contributors import their objects.           *)
Finish ==
    /\ phase = "packages" /\ at.pkg > Len(job.pkgs)
    /\ \/ "contributor" \in Faults /\ phase' = "failed"
       \/ phase' = IF Rollback /\ DOMAIN groups # {} THEN "write" ELSE "ok"
    /\ UNCHANGED <<job, db, base, at, saved, rb, unrollback, torn, groups, files>>

(* Slip: losing every file is only logged.                                 *)
WriteRollbacksLogged ==
    /\ phase \in {"write", "salvage"}
    /\ \E lost \in SUBSET DOMAIN groups :
          /\ "write" \in Faults \/ lost = {}
          /\ files' = [d \in DOMAIN groups \ lost |-> groups[d]]
    /\ phase' = IF phase = "salvage" THEN "failed" ELSE "ok"
    /\ UNCHANGED <<job, db, base, at, saved, rb, unrollback, torn, groups>>

(* writeRollbacks: every group in a file of its own; one that cannot be    *)
(* written is logged.  No file at all fails the import.                    *)
WriteRollbacks ==
    /\ phase \in {"write", "salvage"}
    /\ \E lost \in SUBSET DOMAIN groups :
          /\ "write" \in Faults \/ lost = {}
          /\ files' = [d \in DOMAIN groups \ lost |-> groups[d]]
    /\ phase' = IF phase = "salvage" \/ DOMAIN files' = {} THEN "failed" ELSE "ok"
    /\ UNCHANGED <<job, db, base, at, saved, rb, unrollback, torn, groups>>

Next ==
    \/ ImportSQL \/ SQLFails \/ SQLDone
    \/ BeginPackage \/ PackageRefused
    \/ CreateTable \/ UpsertSkip \/ UpsertCollect \/ UpsertDelete \/ UpsertRow \/ ExecPair
    \/ Commit \/ Abort \/ ReadFails \/ Finish \/ WriteRollbacks

Spec == Init /\ [][Next]_vars

-----------------------------------------------------------------------------
TypeOK ==
    /\ phase \in {"sql", "packages", "entry", "delete", "rows", "salvage", "write",
                  "ok", "failed"}
    /\ \A d \in Databases : db[d] \in Contents
    /\ unrollback \in BOOLEAN /\ torn \subseteq Databases \X Keys
    /\ DOMAIN groups \subseteq Databases /\ \A d \in DOMAIN groups : groups[d] \in Seq(Stmts)

(* What has been collected so far for database d, in replay order.         *)
Collected(d) ==
    CollectedBefore(d) \o (IF phase \in {"entry", "delete", "rows"} /\ D = d THEN rb ELSE <<>>)

(* "Replayed as a whole, the rollback statements restore the state before  *)
(* the import" (datapackage.go:127).  They do, but for the rows that could *)
(* not be read when the import failed, which are gone; and where the table *)
(* did not exist the replay drops it and may stop at the statements that   *)
(* undo its rows.                                                          *)
Restored(d) == [base[d] EXCEPT !.rows = [k \in Keys |-> IF <<d, k>> \in torn THEN None ELSE @[k]]]
Undone(d, stmts) ==
    LET replay == Replay(db[d], stmts)
    IN  replay.content = Restored(d) /\ (base[d].exists => replay.ok)

(* At every step what has been collected undoes what was done, so that a   *)
(* failure between any two statements can be undone.                       *)
RollbackReady ==
    phase \notin {"sql", "failed"} /\ ~unrollback => \A d \in Databases : Undone(d, Collected(d))

(* The rollback files of a finished import undo it in every database they  *)
(* are written for, also when the import failed half-way.                  *)
FilesRestore ==
    phase \in {"ok", "failed"} /\ ~unrollback => \A d \in DOMAIN files : Undone(d, files[d])

(* An import whose first package failed leaves its database as it was, or  *)
(* a rollback file (importer.go:409: where DDL is transactional nothing is *)
(* left over; elsewhere what was executed is written out), unless the file *)
(* itself could not be written.                                            *)
FailureCovered ==
    phase = "failed" /\ Rollback /\ at.sql > Len(job.sqls) /\ at.pkg = 1
      /\ "write" \notin Faults =>
        \A d \in Databases : db[d] = base[d] \/ d \in DOMAIN files

(* What can be undone, at every step and at the end: the collected undo of *)
(* every database, the files it is written to, and the failures it covers. *)
RestoreContract == TypeOK /\ RollbackReady /\ FilesRestore /\ FailureCovered

(* A successful import with Rollback that changed a database has written a *)
(* rollback file: losing them all fails the import (library.md:142).       *)
NoSilentLoss ==
    phase = "ok" /\ Rollback /\ (\E d \in Databases : db[d] # base[d]) => DOMAIN files # {}
=============================================================================
