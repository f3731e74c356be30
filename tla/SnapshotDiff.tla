--------------------------- MODULE SnapshotDiff ---------------------------
(***************************************************************************)
(* What a snapshot holds and what comparing it later says: CreateSnapshot  *)
(* (internal/engine/snapshot.go, internal/service/snapshot.go) and         *)
(* RunSnapshotCompare (internal/engine/snapshot_compare.go).               *)
(*                                                                         *)
(* The databases are edited before, between and during the two.  A table   *)
(* is abstracted to a version of its columns and the number of its rows.   *)
(***************************************************************************)
EXTENDS Naturals, FiniteSets

CONSTANTS SnapDbs, SnapTables,
          MaxEdits,     \* changes to the databases in a behaviour
          DiffCases     \* the situations explored: see DiffInit

Unfiltered == {"all"}

(* A table: a version of its columns, and what is in its rows.              *)
TableStates == [cols : {0, 1}, rows : {0, 1}]

(* A snapshot's database goes with the one it is mapped to, or with the one *)
(* of its own name.                                                        *)
ASSUME DiffAssumption == \A c \in DiffCases :
  /\ c.dbs \subseteq SnapDbs /\ DOMAIN c.start = SnapDbs
  /\ \A d \in SnapDbs : \A t \in DOMAIN c.start[d] : t \in SnapTables /\ c.start[d][t] \in TableStates
  /\ \A d \in c.dbs : /\ c.paired[d] \in SnapDbs
                       /\ c.paired[d] = IF d \in DOMAIN c.mapping THEN c.mapping[d] ELSE d

VARIABLES diffCase,     \* [dbs, start, mapping, scope, filter, faulty]
          now,          \* db -> its tables: [cols, rows] by name
          edits,
          step,         \* "create", "idle", "compare", "finished", "refused"
          toList,       \* databases of the snapshot whose tables are not listed yet
          toRead,       \* tables of the listed database: [db, name, cols], cols once read
          shot,         \* db -> the tables in the snapshot
          held,         \* the columns and the rows of each table as its two readings found
                        \* them (history)
          unsure,       \* <<db, table>> of which something could not be read (history)
          toCompare,    \* snapshot databases not compared yet
          pairs,        \* of the database being compared: [of, name, status, columns]
          verdicts,     \* [of, name, status, columns, data]
          touched       \* <<target db, table>> edited since the comparison began (history)

diffVars == <<diffCase, now, edits, step, toList, toRead, shot, held, unsure, toCompare, pairs,
              verdicts, touched>>

Names == SnapDbs \X SnapTables
NoTables == [t \in {} |-> 0]
Absent == [cols |-> 2, rows |-> 2]
NotRead == 2

DiffInit ==
  /\ diffCase \in DiffCases
  /\ now = diffCase.start
  /\ edits = 0
  /\ step = "create"
  /\ toList = diffCase.dbs /\ toRead = {}
  /\ shot = [d \in {} |-> NoTables]
  /\ held = [d \in SnapDbs |-> NoTables]
  /\ unsure = {}
  /\ toCompare = {} /\ pairs = {} /\ verdicts = {} /\ touched = {}

-----------------------------------------------------------------------------
(* The databases                                                           *)

Put(f, t, v) == [x \in DOMAIN f \cup {t} |-> IF x = t THEN v ELSE f[x]]
Without(f, t) == [x \in DOMAIN f \ {t} |-> f[x]]

Changes(d, t) ==
  IF t \in DOMAIN now[d]
  THEN {Without(now[d], t),
        Put(now[d], t, [now[d][t] EXCEPT !.cols = 1 - @]),
        Put(now[d], t, [now[d][t] EXCEPT !.rows = 1 - @])}
  ELSE {Put(now[d], t, [cols |-> 0, rows |-> 0])}

Edit(d, t) ==
  /\ step \notin {"finished", "refused"} /\ edits < MaxEdits
  /\ edits' = edits + 1
  /\ \E tables \in Changes(d, t) : now' = [now EXCEPT ![d] = tables]
  /\ touched' = touched \cup {<<d, t>>}
  /\ UNCHANGED <<diffCase, step, toList, toRead, shot, held, unsure, toCompare, pairs, verdicts>>

-----------------------------------------------------------------------------
(* CreateSnapshot, one database after the other, each listed at its turn.  *)
(* Databases without a table are left out, and a snapshot without any is   *)
(* refused, as is one of a database that cannot be listed.                 *)

Kept(d) == IF d \in DOMAIN shot THEN shot[d] ELSE NoTables

ListTables ==
  /\ step = "create" /\ toRead = {}
  /\ \E d \in toList :
       /\ toList' = toList \ {d}
       /\ \/ /\ toRead' = {[db |-> d, name |-> t, cols |-> NotRead] : t \in DOMAIN now[d]}
             /\ UNCHANGED step
          \/ diffCase.faulty /\ step' = "refused" /\ UNCHANGED toRead
  /\ UNCHANGED <<diffCase, now, edits, shot, held, unsure, toCompare, pairs, verdicts, touched>>

(* buildSnapshotTable reads the columns of a table and counts its rows in  *)
(* two queries.  A table whose columns cannot be read is left out of the   *)
(* snapshot, and one whose rows cannot be counted is kept with none.       *)
There(d, t) == t \in DOMAIN now[d]
Miss(d, t) == unsure' = unsure \cup {<<d, t>>} /\ UNCHANGED held

ReadColumns ==
  /\ step = "create" /\ \A p \in toRead : p.cols = NotRead
  /\ \E p \in toRead :
       LET d == p.db t == p.name
       IN \/ /\ There(d, t)
             /\ toRead' = (toRead \ {p}) \cup {[p EXCEPT !.cols = now[d][t].cols]}
             /\ held' = [held EXCEPT ![d] = Put(@, t, now[d][t])]
             /\ UNCHANGED <<shot, unsure>>
          \/ /\ diffCase.faulty \/ ~ There(d, t)
             /\ toRead' = toRead \ {p} /\ shot' = Put(shot, d, Kept(d)) /\ Miss(d, t)
  /\ UNCHANGED <<diffCase, now, edits, step, toList, toCompare, pairs, verdicts, touched>>

TakeTable(p, n) ==
  /\ toRead' = toRead \ {p}
  /\ shot' = Put(shot, p.db, Put(Kept(p.db), p.name, [cols |-> p.cols, rows |-> n]))

CountRows ==
  /\ step = "create"
  /\ \E p \in toRead :
       LET d == p.db t == p.name
       IN /\ p.cols # NotRead
          /\ \/ /\ There(d, t) /\ TakeTable(p, now[d][t].rows)
                /\ held' = [held EXCEPT ![d][t].rows = now[d][t].rows] /\ UNCHANGED unsure
             \/ (diffCase.faulty \/ ~ There(d, t)) /\ TakeTable(p, 0) /\ Miss(d, t)
  /\ UNCHANGED <<diffCase, now, edits, step, toList, toCompare, pairs, verdicts, touched>>

SaveSnapshot ==
  /\ step = "create" /\ toList = {} /\ toRead = {}
  /\ step' = IF DOMAIN shot = {} THEN "refused" ELSE "idle"
  /\ UNCHANGED <<diffCase, now, edits, toList, toRead, shot, held, unsure, toCompare, pairs,
                 verdicts, touched>>

-----------------------------------------------------------------------------
(* RunSnapshotCompare                                                      *)

BeginDiff ==
  /\ step = "idle"
  /\ step' = "compare"
  /\ toCompare' = DOMAIN shot
  /\ touched' = {}
  /\ UNCHANGED <<diffCase, now, edits, toList, toRead, shot, held, unsure, pairs, verdicts>>

(* Each database is compared over a connection of its own to the database  *)
(* it is mapped to, or to the one of the same name.                        *)
ScopeTarget(d) == diffCase.scope
DiffTarget(d) == IF d \in DOMAIN diffCase.mapping THEN diffCase.mapping[d] ELSE d

(* The filter goes to the tables of the snapshot only.                     *)
Selected(d) ==
  IF diffCase.filter = Unfiltered THEN DOMAIN shot[d]
  ELSE DOMAIN shot[d] \cap diffCase.filter

Pair(d, t, status) == [of |-> d, name |-> t, status |-> status, columns |-> "unread"]

PairsOf(d) ==
  LET there == DOMAIN now[DiffTarget(d)]
  IN {Pair(d, t, IF t \in there THEN "both" ELSE "sourceOnly") : t \in Selected(d)}
     \cup {Pair(d, t, "targetOnly") : t \in there \ Selected(d)}

DiffDatabase ==
  /\ step = "compare" /\ pairs = {}
  /\ \E d \in toCompare : toCompare' = toCompare \ {d} /\ pairs' = PairsOf(d)
  /\ UNCHANGED <<diffCase, now, edits, step, toList, toRead, shot, held, unsure, verdicts,
                 touched>>

Verdict(p, columns, content) ==
  [of |-> p.of, name |-> p.name, status |-> p.status, columns |-> columns, data |-> content]
Conclude(p, columns, content) ==
  pairs' = pairs \ {p} /\ verdicts' = verdicts \cup {Verdict(p, columns, content)}

(* What could not be read is left empty in the result.                     *)
Counterpart(p) ==
  IF There(DiffTarget(p.of), p.name) THEN now[DiffTarget(p.of)][p.name] ELSE Absent
Outcomes(there, equal) ==
  (IF there # Absent THEN {IF equal THEN "same" ELSE "differ"} ELSE {})
     \cup (IF diffCase.faulty \/ there = Absent THEN {"none"} ELSE {})
Doubt(p, outcome) == unsure' = IF outcome = "none" THEN unsure \cup {<<p.of, p.name>>} ELSE unsure

ColumnDiff(p, there) == Outcomes(there, shot[p.of][p.name].cols = there.cols)
DataDiff(p, there) == Outcomes(there, shot[p.of][p.name].rows = there.rows)

(* A table whose columns differ is not counted.                            *)
DiffColumns ==
  /\ step = "compare" /\ \A p \in pairs : p.columns = "unread"
  /\ \E p \in pairs :
       \/ p.status # "both" /\ Conclude(p, "none", "none") /\ UNCHANGED unsure
       \/ /\ p.status = "both"
          /\ \E columns \in ColumnDiff(p, Counterpart(p)) :
               /\ Doubt(p, columns)
               /\ IF columns = "differ" THEN Conclude(p, "differ", "skipped")
                  ELSE /\ pairs' = (pairs \ {p}) \cup {[p EXCEPT !.columns = columns]}
                       /\ UNCHANGED verdicts
  /\ UNCHANGED <<diffCase, now, edits, step, toList, toRead, shot, held, toCompare, touched>>

DiffRows ==
  /\ step = "compare"
  /\ \E p \in {q \in pairs : q.columns # "unread"} : \E content \in DataDiff(p, Counterpart(p)) :
       /\ Conclude(p, p.columns, content) /\ Doubt(p, content)
  /\ UNCHANGED <<diffCase, now, edits, step, toList, toRead, shot, held, toCompare, touched>>

EndDiff ==
  /\ step = "compare" /\ toCompare = {} /\ pairs = {}
  /\ step' = "finished"
  /\ UNCHANGED <<diffCase, now, edits, toList, toRead, shot, held, unsure, toCompare, pairs,
                 verdicts, touched>>

DiffOver == step \in {"finished", "refused"} /\ UNCHANGED diffVars

DiffNext ==
  \/ \E d \in SnapDbs, t \in SnapTables : Edit(d, t)
  \/ ListTables \/ ReadColumns \/ CountRows \/ SaveSnapshot
  \/ BeginDiff \/ DiffDatabase \/ DiffColumns \/ DiffRows \/ EndDiff \/ DiffOver

DiffSpec == DiffInit /\ [][DiffNext]_diffVars

-----------------------------------------------------------------------------
(* Properties                                                              *)

(* Every variable holds values of the kind the code gives it.              *)
DiffTypeOK ==
  /\ step \in {"create", "idle", "compare", "finished", "refused"}
  /\ \A d \in SnapDbs : DOMAIN now[d] \subseteq SnapTables /\ DOMAIN held[d] \subseteq SnapTables
  /\ DOMAIN shot \subseteq diffCase.dbs /\ toCompare \subseteq DOMAIN shot
  /\ toList \subseteq diffCase.dbs /\ \A p \in toRead : p.cols \in {0, 1, NotRead}
  /\ unsure \subseteq Names /\ touched \subseteq Names
  /\ \A v \in verdicts : v.columns \in {"none", "same", "differ"}
                           /\ v.data \in {"none", "same", "differ", "skipped"}

(* buildCompareSummary: the column of the summary a result counts in.      *)
SummaryOf(v) ==
  IF v.status # "both" THEN v.status
  ELSE IF v.columns = "differ" THEN "structureDiff"
  ELSE IF v.data = "differ" THEN "dataDiff"
  ELSE "matched"

(* How a table of the snapshot's database stands in the one it goes with:  *)
(* its columns against those it had when they were read, and its rows      *)
(* against those it had when they were counted, which may be later.        *)
Reference(d, t) ==
  LET on == now[diffCase.paired[d]]
  IN IF t \notin DOMAIN held[d] THEN "targetOnly"
     ELSE IF t \notin DOMAIN on THEN "sourceOnly"
     ELSE IF held[d][t].cols # on[t].cols THEN "structureDiff"
     ELSE IF held[d][t].rows # on[t].rows THEN "dataDiff" ELSE "matched"

(* A finished, unfiltered comparison says of every table, once, how the    *)
(* database it belongs to has changed since the snapshot was made, in the  *)
(* database it is mapped to and no other -- but for tables that something  *)
(* could not be read of, and tables edited while it ran.                   *)
ChangesAreTold ==
  step = "finished" /\ diffCase.filter = Unfiltered =>
    \A d \in DOMAIN shot : \A t \in DOMAIN held[d] \cup DOMAIN now[diffCase.paired[d]] :
      <<d, t>> \in unsure \/ <<diffCase.paired[d], t>> \in touched \/
      LET about == {v \in verdicts : v.of = d /\ v.name = t}
      IN Cardinality(about) = 1 /\ \A v \in about : SummaryOf(v) = Reference(d, t)

(* SnapshotCompareOptions.Tables is documented as the tables the           *)
(* comparison is limited to.                                               *)
FilterLimits ==
  diffCase.filter # Unfiltered => \A v \in verdicts : v.name \in diffCase.filter
=============================================================================
