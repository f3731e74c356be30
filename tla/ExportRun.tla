---------------------------- MODULE ExportRun ----------------------------
(***************************************************************************)
(* One export: RunExport of internal/engine/exporter.go, with the SQL files *)
(* (exportDatabase), the JSON packages (exportDatabaseJSON), the table plan *)
(* (planTables, internal/engine/conn.go) and the objects (objects.go).      *)
(*                                                                         *)
(* The databases are in use while they are exported: a writer commits      *)
(* transactions, each over all the tables of a database, and the schema may *)
(* change.  A table's content is abstracted to the version of its database *)
(* it was read at and to the part of the rows that was asked for.          *)
(***************************************************************************)
EXTENDS Naturals, Sequences, FiniteSets

CONSTANTS ExpDbs, ExpTables, ExpObjects,
          MaxCommits,     \* transactions committed to one database
          ExpCases        \* the situations explored: see ExportInit

ASSUME ExportAssumption ==
  MaxCommits \in Nat /\ ExpDbs # {} /\ \A c \in ExpCases : c.dbs \subseteq ExpDbs

ASSUME ExportCasesAssumption ==
  /\ IsFiniteSet(ExpDbs) /\ IsFiniteSet(ExpTables) /\ IsFiniteSet(ExpObjects)
  /\ \A c \in ExpCases : /\ c.mode \in {"schema", "data", "both"} /\ c.helpers \in Nat
                         /\ \A d \in ExpDbs : c.holds[d] \subseteq ExpTables

(* nil in a selection: everything the database holds, listed when it is planned. *)
Everything == {"everything"}

Whole == [part |-> "all", at |-> 0]
Blank == [part |-> "none", at |-> 0]
NoSnapshot == [kind |-> "none", at |-> 0]

VARIABLES expCase,      \* the options and the faults that may happen
          live,         \* db -> [tables, objects, version]: the source as it is now
          stage,        \* where RunExport is
          toPlan,       \* databases not planned yet
          tablePlan,    \* database -> its tables to export; databases left out are absent
          toCount,      \* planned databases whose objects are not counted yet
          toExport,     \* planned databases not exported yet
          db,           \* the database being exported
          todo,         \* tables left in the section being written
          reading,      \* the transaction all reads go through
          consistent,   \* databases whose log says the snapshot is on
          files,        \* database -> what its file holds
          details,      \* <<database, table>> -> the OnDetail calls made for it
          units,        \* [total, done]: the progress
          leftOut,      \* what was passed over with a line in the log: [dbs, tables, descs]
          steady        \* the objects were always listed in full and did not change

exportVars == <<expCase, live, stage, toPlan, tablePlan, toCount, toExport, db, todo,
                reading, consistent, files, details, units, leftOut, steady>>

Places == ExpDbs \X ExpTables

ExportInit ==
  /\ expCase \in ExpCases
  /\ live = [d \in ExpDbs |-> [tables |-> expCase.holds[d], objects |-> ExpObjects, version |-> 0]]
  /\ stage = "plan"
  /\ toPlan = expCase.dbs
  /\ tablePlan = [d \in {} |-> {}]
  /\ toCount = {} /\ toExport = {} /\ db \in {CHOOSE d \in ExpDbs : TRUE} /\ todo = {}
  /\ reading = NoSnapshot
  /\ consistent = {}
  /\ files = [d \in {} |-> Blank]
  /\ details = [p \in Places |-> <<>>]
  /\ units = [total |-> 0, done |-> 0]
  /\ leftOut = [dbs |-> {}, tables |-> {}, descs |-> {}]
  /\ steady = TRUE

Active == stage \notin {"done", "failed"}

Advance(n) == units' = [units EXCEPT !.done = @ + n]

-----------------------------------------------------------------------------
(* The source                                                              *)

Commit(d) ==
  /\ Active /\ live[d].version < MaxCommits
  /\ live' = [live EXCEPT ![d].version = @ + 1]
  /\ UNCHANGED <<expCase, stage, toPlan, tablePlan, toCount, toExport, db, todo, reading,
                 consistent, files, details, units, leftOut, steady>>

AlterSchema(d) ==
  /\ Active /\ d \in expCase.ddl
  /\ \/ \E t \in live[d].tables : live' = [live EXCEPT ![d].tables = @ \ {t}] /\ UNCHANGED steady
     \/ \E o \in live[d].objects : live' = [live EXCEPT ![d].objects = @ \ {o}] /\ steady' = FALSE
  /\ UNCHANGED <<expCase, stage, toPlan, tablePlan, toCount, toExport, db, todo, reading,
                 consistent, files, details, units, leftOut>>

-----------------------------------------------------------------------------
(* The plan                                                                *)

(* A database that cannot be reached is passed over when nothing of it was *)
(* chosen.  The flat lists tell that by entries qualified with its name.   *)
HasSelection(d) ==
  IF expCase.flat THEN d \in expCase.qualified
  ELSE expCase.tables[d] \notin {Everything, {}} \/ expCase.objects[d] \notin {Everything, {}}

(* Listing everything passes over a PostgreSQL schema that cannot be       *)
(* listed; named tables are looked up one by one, missing ones are logged. *)
Unlistable(d) ==
  IF expCase.engine = "postgresql" /\ expCase.faulty
  THEN UNION {{{t \in live[d].tables : expCase.schema[t] \in bad}} :
                bad \in SUBSET {expCase.schema[t] : t \in live[d].tables}}
  ELSE {{}}

planTables(d, unseen) ==
  IF expCase.tables[d] = Everything THEN live[d].tables \ unseen
  ELSE expCase.tables[d] \cap live[d].tables

(* The connection is refused.                                              *)
PassOverAny(d) ==
  /\ expCase.faulty
  /\ leftOut' = [leftOut EXCEPT !.dbs = @ \cup {d}]
  /\ UNCHANGED tablePlan

PassOver(d) ==
  /\ expCase.faulty /\ ~ HasSelection(d)
  /\ leftOut' = [leftOut EXCEPT !.dbs = @ \cup {d}]
  /\ UNCHANGED tablePlan

PlanDatabase(d) ==
  \E unseen \in IF expCase.tables[d] = Everything THEN Unlistable(d) ELSE {{}} :
    /\ tablePlan' = [x \in DOMAIN tablePlan \cup {d} |->
                       IF x = d THEN planTables(d, unseen) ELSE tablePlan[x]]
    /\ leftOut' = [leftOut EXCEPT !.tables = @ \cup ({d} \X unseen)]

Plan ==
  /\ stage = "plan"
  /\ \E d \in toPlan : toPlan' = toPlan \ {d} /\ (PassOver(d) \/ PlanDatabase(d))
  /\ UNCHANGED <<expCase, live, stage, toCount, toExport, db, todo, reading, consistent,
                 files, details, units, steady>>

(* A table counts once for each section of the file that it appears in.    *)
Sections == IF expCase.mode = "both" THEN 2 ELSE 1
TablesPlanned == {p \in Places : p[1] \in DOMAIN tablePlan /\ p[2] \in tablePlan[p[1]]}
WithObjects == expCase.mode # "data" /\ expCase.format = "sql"

CountTables ==
  /\ stage = "plan" /\ toPlan = {}
  /\ IF DOMAIN tablePlan = {} THEN stage' = "failed" /\ UNCHANGED <<toCount, toExport, units>>
     ELSE /\ units' = [units EXCEPT !.total = Cardinality(TablesPlanned) * Sections + expCase.helpers]
          /\ toCount' = IF WithObjects THEN DOMAIN tablePlan ELSE {}
          /\ toExport' = DOMAIN tablePlan
          /\ stage' = "count"
  /\ UNCHANGED <<expCase, live, toPlan, tablePlan, db, todo, reading, consistent, files,
                 details, leftOut, steady>>

chosenObjects(d) ==
  IF expCase.objects[d] = Everything THEN live[d].objects
  ELSE live[d].objects \cap expCase.objects[d]

(* Objects that cannot be listed are not there.                            *)
listDBObjects(d) == IF expCase.faulty THEN SUBSET chosenObjects(d) ELSE {chosenObjects(d)}

countExportObjects ==
  /\ stage = "count"
  /\ \E d \in toCount :
       /\ toCount' = toCount \ {d}
       /\ \E seen \in listDBObjects(d) :
            /\ units' = [units EXCEPT !.total = @ + Cardinality(seen)]
            /\ steady' = (steady /\ seen = chosenObjects(d))
  /\ UNCHANGED <<expCase, live, stage, toPlan, tablePlan, toExport, db, todo, reading,
                 consistent, files, details, leftOut>>

-----------------------------------------------------------------------------
(* One database                                                            *)

(* READ COMMITTED is what a transaction has unless a level was set.        *)
OnDefaultLevel(kind) ==
  reading' = [kind |-> "committed", at |-> 0] /\ consistent' = consistent \cup {db'}
OnSnapshot(kind) == reading' = [kind |-> kind, at |-> 0] /\ consistent' = consistent \cup {db'}
PlainReads == reading' = NoSnapshot /\ UNCHANGED consistent

beginSnapshot ==
  IF expCase.single /\ expCase.engine \in {"mysql", "postgres"}
  THEN OnSnapshot("repeatable") \/ (expCase.faulty /\ PlainReads)
  ELSE PlainReads

SectionStage == IF expCase.mode = "data" THEN "data" ELSE "schema"

OpenDatabase ==
  /\ stage = "count" /\ toCount = {}
  /\ \E d \in toExport :
       /\ db' = d
       /\ toExport' = toExport \ {d}
       /\ todo' = tablePlan[d]
       /\ files' = [x \in DOMAIN files \cup {d} |->
                      IF x = d THEN [ddl |-> {}, rows |-> {}, objects |-> {}, desc |-> {}]
                      ELSE files[x]]
  /\ beginSnapshot
  /\ stage' = SectionStage
  /\ UNCHANGED <<expCase, live, toPlan, tablePlan, toCount, details, units, leftOut, steady>>

(* A repeatable read sees the version its first read saw; the database     *)
(* decides whether a read of the catalogue is such a read.                 *)
Started == reading.kind = "repeatable" /\ reading.at # 0
Seen == IF Started THEN reading.at ELSE live[db].version + 1
Start(kind) == IF kind = "repeatable" THEN [kind |-> kind, at |-> Seen]
               ELSE [kind |-> kind, at |-> 0]

Detail(t, content) == details' = [details EXCEPT ![<<db, t>>] = Append(@, content)]

WriteDdl ==
  /\ stage = "schema"
  /\ \E t \in todo \cap live[db].tables :
       /\ todo' = todo \ {t}
       /\ files' = [files EXCEPT ![db].ddl = @ \cup {t}]
       /\ IF expCase.mode = "schema" THEN Detail(t, Blank) ELSE UNCHANGED details
  /\ reading' \in {reading, Start(reading.kind)}
  /\ Advance(1)
  /\ UNCHANGED <<expCase, live, stage, toPlan, tablePlan, toCount, toExport, db, consistent,
                 leftOut, steady>>

BeginData ==
  /\ stage = "schema" /\ todo = {}
  /\ IF expCase.mode = "schema" THEN stage' = "objects" /\ UNCHANGED todo
     ELSE stage' = "data" /\ todo' = tablePlan[db]
  /\ UNCHANGED <<expCase, live, toPlan, tablePlan, toCount, toExport, db, reading, consistent,
                 files, details, units, leftOut, steady>>

(* A package holds rows by primary key: a table without one has none.      *)
Unread(t) == expCase.cond[t] = "none" \/ (expCase.format = "json" /\ t \notin expCase.keyed)

(* The description file is gathered table by table, and a package has none. *)
Described(t, content) == IF expCase.format = "json" THEN {} ELSE {<<t, content>>}

SkipData ==
  /\ stage = "data"
  /\ \E t \in todo :
       /\ Unread(t)
       /\ todo' = todo \ {t}
       /\ files' = [files EXCEPT ![db].desc = @ \cup Described(t, Blank)]
       /\ Detail(t, Blank)
  /\ Advance(1)
  /\ UNCHANGED <<expCase, live, stage, toPlan, tablePlan, toCount, toExport, db, reading,
                 consistent, leftOut, steady>>

writeTableData ==
  /\ stage = "data"
  /\ \E t \in todo \cap live[db].tables :
       LET content == [part |-> expCase.cond[t], at |-> Seen]
       IN /\ ~ Unread(t)
          /\ todo' = todo \ {t}
          /\ files' = [files EXCEPT ![db].rows = @ \cup {<<t, content>>},
                                    ![db].desc = @ \cup Described(t, content)]
          /\ Detail(t, content)
  /\ reading' = Start(reading.kind)
  /\ Advance(1)
  /\ UNCHANGED <<expCase, live, stage, toPlan, tablePlan, toCount, toExport, db, consistent,
                 leftOut, steady>>

EndData ==
  /\ stage = "data" /\ todo = {}
  /\ stage' = "objects"
  /\ UNCHANGED <<expCase, live, toPlan, tablePlan, toCount, toExport, db, todo, reading,
                 consistent, files, details, units, leftOut, steady>>

(* An object whose statement cannot be read counts as done, without a call. *)
exportObjects ==
  /\ stage = "objects" /\ WithObjects
  /\ \E seen \in listDBObjects(db) : \E bad \in IF expCase.faulty THEN SUBSET seen ELSE {{}} :
       /\ files' = [files EXCEPT ![db].objects = seen \ bad]
       /\ steady' = (steady /\ seen = chosenObjects(db))
       /\ Advance(Cardinality(seen))
  /\ stage' = "close"
  /\ UNCHANGED <<expCase, live, toPlan, tablePlan, toCount, toExport, db, todo, reading,
                 consistent, details, leftOut>>

(* The description file is written last; that this failed is only logged.  *)
LoseDescription ==
  /\ expCase.faulty /\ expCase.format # "json"
  /\ files' = [files EXCEPT ![db].desc = {}]
  /\ leftOut' = [leftOut EXCEPT !.descs = @ \cup {db}]

CloseDatabase ==
  /\ stage = "close" \/ (stage = "objects" /\ ~ WithObjects)
  /\ reading' = NoSnapshot
  /\ stage' = "count"
  /\ LoseDescription \/ UNCHANGED <<files, leftOut>>
  /\ UNCHANGED <<expCase, live, toPlan, tablePlan, toCount, toExport, db, todo, consistent,
                 details, units, steady>>

-----------------------------------------------------------------------------
(* The end                                                                 *)

runContributors ==
  /\ stage = "count" /\ toCount = {} /\ toExport = {}
  /\ Advance(expCase.helpers)
  /\ stage' = "pack"
  /\ UNCHANGED <<expCase, live, toPlan, tablePlan, toCount, toExport, db, todo, reading,
                 consistent, files, details, leftOut, steady>>

Pack ==
  /\ stage = "pack"
  /\ stage' = "done"
  /\ UNCHANGED <<expCase, live, toPlan, tablePlan, toCount, toExport, db, todo, reading,
                 consistent, files, details, units, leftOut, steady>>

(* A table that is gone, a refused connection, a failed read or a cancel   *)
(* ends the export and its transaction.                                    *)
Broken == \/ expCase.faulty
          \/ stage \in {"schema", "data"} /\ ~ todo \subseteq live[db].tables

Break ==
  /\ Active /\ Broken
  /\ stage' = "failed"
  /\ reading' = NoSnapshot
  /\ UNCHANGED <<expCase, live, toPlan, tablePlan, toCount, toExport, db, todo, consistent,
                 files, details, units, leftOut, steady>>

ExportOver == ~ Active /\ UNCHANGED exportVars

ExportNext ==
  \/ \E d \in ExpDbs : Commit(d) \/ AlterSchema(d)
  \/ Plan \/ CountTables \/ countExportObjects \/ OpenDatabase
  \/ WriteDdl \/ BeginData \/ SkipData \/ writeTableData \/ EndData \/ exportObjects
  \/ CloseDatabase \/ runContributors \/ Pack \/ Break
  \/ ExportOver

ExportSpec == ExportInit /\ [][ExportNext]_exportVars

-----------------------------------------------------------------------------
(* Properties                                                              *)

Contents == [part : {"none", "some", "all"}, at : 0 .. MaxCommits + 1]

(* Every variable holds values of the kind RunExport gives it.             *)
ExportTypeOK ==
  /\ stage \in {"plan", "count", "schema", "data", "objects", "close", "pack", "done", "failed"}
  /\ \A d \in ExpDbs : live[d].tables \subseteq ExpTables /\ live[d].version \in 0 .. MaxCommits
  /\ toPlan \subseteq ExpDbs /\ DOMAIN tablePlan \subseteq ExpDbs
  /\ toCount \subseteq DOMAIN tablePlan /\ toExport \subseteq DOMAIN tablePlan
  /\ todo \subseteq ExpTables
  /\ reading.kind \in {"none", "committed", "repeatable"} /\ reading.at \in 0 .. MaxCommits + 1
  /\ \A p \in Places : details[p] \in Seq(Contents)
  /\ reading # NoSnapshot => stage \in {"schema", "data", "objects", "close"}

TakenAt(d) == {r[2].at : r \in files[d].rows}

(* The log says the consistent snapshot is on only for a database all of   *)
(* whose rows are written as they were at one instant, whatever is         *)
(* committed while the export reads (beginSnapshot, exportDatabase).       *)
OneInstant == \A d \in consistent \cap DOMAIN files : Cardinality(TakenAt(d)) <= 1

Chosen(d) == IF expCase.tables[d] = Everything THEN expCase.holds[d]
             ELSE expCase.tables[d] \cap expCase.holds[d]
Remaining(d) == Chosen(d) \cap live[d].tables

(* The sections the mode asks for, the table's own mode and its key taken  *)
(* into account.                                                           *)
Written(d, t) ==
  /\ expCase.mode # "data" => t \in files[d].ddl
  /\ expCase.mode # "schema" /\ ~ Unread(t) => \E r \in files[d].rows : r[1] = t

(* A finished export has every chosen table that was there all along, and  *)
(* each in full: a database passed over had nothing chosen by name, a      *)
(* table passed over was in a schema that could not be listed.             *)
ChosenAreWritten ==
  stage = "done" =>
    \A d \in expCase.dbs :
      \/ d \in leftOut.dbs /\ ~ HasSelection(d)
      \/ \A t \in Remaining(d) :
           d \in DOMAIN files /\ (Written(d, t) \/ <<d, t>> \in leftOut.tables)

HasDescription(d) ==
  expCase.mode # "schema" /\ expCase.format # "json" /\ d \notin leftOut.descs

(* What is told of a finished export agrees with its files: one call per   *)
(* table with the rows in the file; the description file, which packages   *)
(* do not have, with the same rows or a line in the log that it could not  *)
(* be written; and as many progress units done as were announced, if the   *)
(* objects were listed alike both times (OnDetail, ExportDesc, tracker).   *)
CountsAgree ==
  stage = "done" =>
    /\ \A d \in DOMAIN tablePlan : \A t \in tablePlan[d] :
         /\ Len(details[<<d, t>>]) = 1
         /\ details[<<d, t>>][1] # Blank <=> <<t, details[<<d, t>>][1]>> \in files[d].rows
         /\ HasDescription(d) => <<t, details[<<d, t>>][1]>> \in files[d].desc
    /\ steady => units.done = units.total

(* The files hold what was chosen, and what is told of them agrees.        *)
FilesMatchChoice == ChosenAreWritten /\ CountsAgree

(* The command line's help and its manual say of --single-transaction that *)
(* it takes effect on MySQL and PostgreSQL.  Without faults, an export of  *)
(* either asked for with it is then of one instant.                        *)
SupportedAreConsistent ==
  expCase.single /\ expCase.engine \in {"mysql", "postgresql"} /\ ~ expCase.faulty =>
    \A d \in DOMAIN files : Cardinality(TakenAt(d)) <= 1
=============================================================================
