---------------------------- MODULE TableCompare ----------------------------
(***************************************************************************)
(* The comparison of two databases (internal/engine/compare.go): the       *)
(* tables of every pair of databases are listed and paired, by alias and   *)
(* then by name; of each pair the columns and the rows are compared; the   *)
(* verdicts are counted.  The error of one table is logged and its verdict *)
(* left out, a cancel is noticed between tables and while rows are read.   *)
(*                                                                         *)
(* A table is [def, key, rows]: its columns with their normalised type,    *)
(* the columns of its primary key in order, and its rows in the order the  *)
(* database returns them.  Norm is what normalizeValue makes of a value,   *)
(* Fold what ToLower makes of a name.  Both databases stand still while    *)
(* they are compared.                                                      *)
(***************************************************************************)
EXTENDS Naturals, Sequences, FiniteSets

CONSTANTS Dbs,       \* databases
          Names,     \* table names as the databases spell them
          Fold,      \* name -> the lower-case name tables are matched by
          Norm,      \* value -> its normalised form
          NoName,    \* no table on this side, no target in an alias
          AnyDb,     \* the database of an alias that is not qualified
          NoData,    \* no data verdict
          Tasks,     \* the tasks one of which is run
          Faults     \* what may fail: "list", "structure", "data", "cancel"

\* The rows of a table come one after the other.
IsRead(table) == Len(table.rows) \in Nat /\ DOMAIN table.rows = 1..Len(table.rows)

ASSUME NamesAssumption == NoName \notin Names
\* resolveCompareDBPairs returns at least one pair of databases.
ASSUME TasksAssumption ==
    \A t \in Tasks :
        /\ Len(t.pairs) \in Nat \ {0} /\ t.threshold \in Nat
        /\ Len(t.aliases) \in Nat /\ DOMAIN t.aliases = 1..Len(t.aliases)
        /\ \A i \in 1..Len(t.pairs) :
              /\ DOMAIN t.source[t.pairs[i].source] \subseteq Names
              /\ DOMAIN t.target[t.pairs[i].target] \subseteq Names
              /\ \A n \in DOMAIN t.source[t.pairs[i].source] : IsRead(t.source[t.pairs[i].source][n])
              /\ \A n \in DOMAIN t.target[t.pairs[i].target] : IsRead(t.target[t.pairs[i].target][n])

VARIABLES task,      \* the databases and options being compared
          at,        \* the pair of databases being compared
          todo,      \* its pairs of tables that are left
          cur,       \* the pair of tables being compared
          step,      \* where RunCompare is
          columns,   \* the structure verdict of cur
          results,   \* <<pair of databases, pair of tables>> -> verdict
          cancelled

vars == <<task, at, todo, cur, step, columns, results, cancelled>>

Pair == [src : Names \cup {NoName}, tgt : Names \cup {NoName}]
NoPair == [src |-> NoName, tgt |-> NoName]
Steps == {"list", "next", "structure", "data", "done", "error"}

(***************************************************************************)
(* Pairing the tables.                                                     *)
(***************************************************************************)
Folded(S) == {Fold[n] : n \in S}

\* filterTablesBare: the selection names tables without their database.
Listed(tables, selected) == {n \in DOMAIN tables : Fold[n] \in Folded(selected)}

\* The aliases with a target that are meant for this source database.
Effective(aliases, db) ==
    {i \in DOMAIN aliases : aliases[i].target # NoName /\ aliases[i].db \in {AnyDb, db}}

AliasedTwice(aliases, db) ==
    \E i, j \in Effective(aliases, db) :
        i # j /\ \/ Fold[aliases[i].source] = Fold[aliases[j].source]
                 \/ Fold[aliases[i].target] = Fold[aliases[j].target]

Named(S, key) == IF key \in Folded(S) THEN CHOOSE n \in S : Fold[n] = key ELSE NoName

AliasPairs(S, T, aliases, db) ==
    {[src |-> Named(S, Fold[aliases[i].source]), tgt |-> Named(T, Fold[aliases[i].target])]
        : i \in Effective(aliases, db)} \ {NoPair}

\* What the aliases leave is paired by name.
NamePairs(S, T) ==
    {[src |-> Named(S, k), tgt |-> Named(T, k)] : k \in Folded(S) \cup Folded(T)}

\* The tables no alias has used.
Left(S, used) == {n \in S : \A m \in used \ {NoName} : Fold[m] # Fold[n]}

\* An alias that takes its target away from the table of the same name, but
\* not its source.
BuildPairsByName(S, T, aliases, db) ==
    LET aliased == AliasPairs(S, T, aliases, db)
    IN  aliased \cup NamePairs(S, Left(T, {p.tgt : p \in aliased}))

BuildPairs(S, T, aliases, db) ==
    LET aliased == AliasPairs(S, T, aliases, db)
    IN  aliased \cup NamePairs(Left(S, {p.src : p \in aliased}), Left(T, {p.tgt : p \in aliased}))

SourceDb == task.pairs[at].source
TargetDb == task.pairs[at].target
SourceListed(i) == Listed(task.source[task.pairs[i].source], task.selected)
TargetListed(i) == Listed(task.target[task.pairs[i].target], task.selected)
PairsOf(i) == BuildPairs(SourceListed(i), TargetListed(i), task.aliases, task.pairs[i].source)

(***************************************************************************)
(* Comparing one table.                                                    *)
(***************************************************************************)
Elements(s) == {s[i] : i \in DOMAIN s}

SameColumns(s, t) == s.def = t.def /\ Elements(s.key) = Elements(t.key)

Common(s, t) == DOMAIN s.def \cap DOMAIN t.def

\* matchPKColumns: the key both sides share, or none.
KeyColumns(s, t) ==
    IF s.key = t.key /\ Elements(s.key) \subseteq Common(s, t) THEN s.key ELSE <<>>

\* A column of the key is never ignored.
Content(s, t, ignore) == (Common(s, t) \ ignore) \cup Elements(KeyColumns(s, t))

NormRow(row, cols) == [col \in cols |-> Norm[row[col]]]

\* loadRowsByPK: the first row of every normalised key.
RowsByKey(rows, key, content) ==
    [k \in {NormRow(rows[i], key) : i \in DOMAIN rows} |->
        LET first == CHOOSE i \in DOMAIN rows :
                        /\ NormRow(rows[i], key) = k
                        /\ \A j \in DOMAIN rows : NormRow(rows[j], key) = k => i <= j
        IN  NormRow(rows[first], content)]

Verdict(mode, s, t, missing, extra, changed, equal) ==
    [mode |-> mode, sourceRows |-> Len(s.rows), targetRows |-> Len(t.rows),
     missing |-> missing, extra |-> extra, changed |-> changed, equal |-> equal]

CompareByKey(s, t, key, content) ==
    LET src == RowsByKey(s.rows, key, content)
        tgt == RowsByKey(t.rows, key, content)
        missing == DOMAIN src \ DOMAIN tgt
        extra == DOMAIN tgt \ DOMAIN src
        changed == {k \in DOMAIN src \cap DOMAIN tgt : src[k] # tgt[k]}
    IN  Verdict("rows", s, t, Cardinality(missing), Cardinality(extra), Cardinality(changed),
                missing \cup extra \cup changed = {})

\* loadRowMultiset: how often each normalised row occurs.
RowBag(rows, content) ==
    [r \in {NormRow(rows[i], content) : i \in DOMAIN rows} |->
        Cardinality({i \in DOMAIN rows : NormRow(rows[i], content) = r})]

\* Rows compared as a set: repeated rows are counted once.
CompareRowSets(s, t, content) ==
    LET src == DOMAIN RowBag(s.rows, content)
        tgt == DOMAIN RowBag(t.rows, content)
    IN  Verdict("rows", s, t, Cardinality(src \ tgt), Cardinality(tgt \ src), 0, src = tgt)

\* The first, the second, ... of every row that occurs.
Copies(bag) == UNION {{r} \X (1 .. bag[r]) : r \in DOMAIN bag}

CompareBags(s, t, content) ==
    LET src == Copies(RowBag(s.rows, content))
        tgt == Copies(RowBag(t.rows, content))
        missing == Cardinality(src \ tgt)
        extra == Cardinality(tgt \ src)
    IN  Verdict("rows", s, t, missing, extra, 0, missing + extra = 0)

OverThreshold(s, t) == Len(s.rows) > task.threshold \/ Len(t.rows) > task.threshold

CompareData(s, t, ignore) ==
    LET key == KeyColumns(s, t)
        content == Content(s, t, ignore)
    IN  IF OverThreshold(s, t)
        THEN Verdict("count", s, t, 0, 0, 0, Len(s.rows) = Len(t.rows))
        ELSE IF content = {} THEN Verdict("rows", s, t, 0, 0, 0, FALSE)
        ELSE IF key # <<>> THEN CompareByKey(s, t, Elements(key), content)
        ELSE CompareBags(s, t, content)

Skipped(s, t) == Verdict("skipped", s, t, 0, 0, 0, FALSE)

\* The ignored columns of a table: the general ones and those of the last
\* alias with exactly this source; a qualified source never is a table's name.
IgnoredIn(source) ==
    LET own == {i \in DOMAIN task.aliases :
                   /\ task.aliases[i].db = AnyDb
                   /\ Fold[task.aliases[i].source] = Fold[source]
                   /\ task.aliases[i].ignore # {}}
    IN  task.ignore \cup
        UNION {task.aliases[i].ignore : i \in {i \in own : \A j \in own : j <= i}}

(***************************************************************************)
(* The task.                                                               *)
(***************************************************************************)
Init == /\ task \in Tasks
        /\ at = 1 /\ todo = {} /\ cur = NoPair /\ step = "list"
        /\ columns = "none" /\ results = << >> /\ cancelled = FALSE

ListTables ==
    /\ step = "list"
    /\ ~AliasedTwice(task.aliases, SourceDb)
    /\ todo' = PairsOf(at)
    /\ step' = "next"
    /\ UNCHANGED <<task, at, cur, columns, results, cancelled>>

\* A list that cannot be read, a table in two aliases, or a cancel, ends the task.
ListFails ==
    /\ \/ /\ step = "list"
          /\ "list" \in Faults \/ AliasedTwice(task.aliases, SourceDb)
       \/ step = "next" /\ todo # {} /\ cancelled
    /\ step' = "error"
    /\ UNCHANGED <<task, at, todo, cur, columns, results, cancelled>>

Outcome(cols, data) == [columns |-> cols, data |-> data]

Report(pair, cols, data) ==
    results' = [x \in DOMAIN results \cup {<<at, pair>>} |->
                   IF x = <<at, pair>> THEN Outcome(cols, data) ELSE results[x]]

\* A table of one side is reported at once.
TakeOneSided ==
    /\ step = "next" /\ ~cancelled
    /\ \E p \in todo :
          /\ NoName \in {p.src, p.tgt}
          /\ todo' = todo \ {p}
          /\ Report(p, "none", NoData)
    /\ UNCHANGED <<task, at, cur, step, columns, cancelled>>

TakePair ==
    /\ step = "next" /\ ~cancelled
    /\ \E p \in todo :
          /\ NoName \notin {p.src, p.tgt}
          /\ todo' = todo \ {p}
          /\ cur' = p
    /\ columns' = "none"
    /\ step' = IF ~task.dataOnly THEN "structure" ELSE "data"
    /\ UNCHANGED <<task, at, results, cancelled>>

Source == task.source[SourceDb][cur.src]
Target == task.target[TargetDb][cur.tgt]

EndTable(cols, data) ==
    /\ Report(cur, cols, data)
    /\ cur' = NoPair /\ step' = "next" /\ columns' = "none"
    /\ UNCHANGED <<task, at, todo, cancelled>>

CompareStructure ==
    /\ step = "structure"
    /\ \E verdict \in {IF SameColumns(Source, Target) THEN "same" ELSE "diff"}
                         \cup (IF "structure" \in Faults THEN {"none"} ELSE {}) :
          IF task.structureOnly
          THEN EndTable(verdict, NoData)
          ELSE IF verdict = "diff" /\ ~task.force
          THEN EndTable(verdict, Skipped(Source, Target))
          ELSE /\ columns' = verdict /\ step' = "data"
               /\ UNCHANGED <<task, at, todo, cur, results, cancelled>>

\* Data only and structure only together compare nothing.
NothingToCompare ==
    /\ step = "data" /\ task.structureOnly
    /\ EndTable(columns, NoData)

\* Only the rows are read under the context: a count does not notice a cancel.
ReadsRows(s, t) ==
    ~OverThreshold(s, t) /\ Content(s, t, IgnoredIn(cur.src)) # {}

CompareRows ==
    /\ step = "data" /\ ~task.structureOnly
    /\ cancelled => ~ReadsRows(Source, Target)
    /\ EndTable(columns, CompareData(Source, Target, IgnoredIn(cur.src)))

\* The error, or the cancel, is logged; the table has no data verdict.
RowsFail ==
    /\ step = "data" /\ ~task.structureOnly
    /\ "data" \in Faults \/ (cancelled /\ ReadsRows(Source, Target))
    /\ EndTable(columns, NoData)

\* Another database is listed whether there is one or not.

NextDatabase ==
    /\ step = "next" /\ todo = {}
    /\ IF at < Len(task.pairs)
       THEN at' = at + 1 /\ step' = "list"
       ELSE step' = "done" /\ UNCHANGED at
    /\ UNCHANGED <<task, todo, cur, columns, results, cancelled>>

Cancel ==
    /\ "cancel" \in Faults /\ ~cancelled /\ step \notin {"done", "error"}
    /\ cancelled' = TRUE
    /\ UNCHANGED <<task, at, todo, cur, step, columns, results>>

Work == \/ ListTables \/ ListFails \/ TakeOneSided \/ TakePair \/ CompareStructure
        \/ NothingToCompare \/ CompareRows \/ RowsFail \/ NextDatabase

Next == Work \/ Cancel

Spec == Init /\ [][Next]_vars

(***************************************************************************)
(* The summary (buildCompareSummary).                                      *)
(***************************************************************************)
Both(x) == NoName \notin {x[2].src, x[2].tgt}
SourceOnly == {x \in DOMAIN results : x[2].tgt = NoName}
TargetOnly == {x \in DOMAIN results : x[2].src = NoName}
StructureDiff == {x \in DOMAIN results : Both(x) /\ results[x].columns = "diff"}
DataDiff == {x \in DOMAIN results : /\ Both(x) /\ results[x].data # NoData
                                    /\ ~results[x].data.equal /\ results[x].data.mode # "skipped"}
DataAgrees(v) == v.data = NoData \/ v.data.equal
\* A skipped table counts as one that agrees.

Matched == {x \in DOMAIN results : /\ Both(x) /\ results[x].columns # "diff"
                                   /\ DataAgrees(results[x])}

(***************************************************************************)
(* What a comparison promises.                                             *)
(***************************************************************************)
\* Type correctness: the results are verdicts about pairs of listed tables.
TypeOK ==
    /\ at \in 1..Len(task.pairs)
    /\ todo \subseteq Pair
    /\ cur \in Pair
    /\ step \in Steps
    /\ columns \in {"none", "same", "diff"}
    /\ DOMAIN results \subseteq (1..Len(task.pairs)) \X Pair
    /\ \A x \in DOMAIN results : results[x].columns \in {"none", "same", "diff"}
    /\ cancelled \in BOOLEAN

\* Every selected table of both databases is reported once and only once,
\* whatever the aliases rename, swap or point at (buildComparePairs).
EveryTableReported ==
    step = "done" =>
        \A i \in 1..Len(task.pairs) :
            /\ \A n \in SourceListed(i) :
                  /\ \E x \in DOMAIN results : x[1] = i /\ x[2].src = n
                  /\ \A x, y \in DOMAIN results :
                        x[1] = i /\ y[1] = i /\ x[2].src = n /\ y[2].src = n => x = y
            /\ \A n \in TargetListed(i) :
                  /\ \E x \in DOMAIN results : x[1] = i /\ x[2].tgt = n
                  /\ \A x, y \in DOMAIN results :
                        x[1] = i /\ y[1] = i /\ x[2].tgt = n /\ y[2].tgt = n => x = y

\* The counts of the summary put every table in one place: of one side only,
\* matched, or different in structure or data (buildCompareSummary).
SummaryAddsUp ==
    /\ DOMAIN results = SourceOnly \cup TargetOnly \cup Matched \cup StructureDiff \cup DataDiff
    /\ Matched \cap (StructureDiff \cup DataDiff \cup SourceOnly \cup TargetOnly) = {}
    /\ (StructureDiff \cup DataDiff) \cap (SourceOnly \cup TargetOnly) = {}
    /\ SourceOnly \cap TargetOnly = {}

\* The columns the options exclude from a table of a source database: an alias
\* may name the table with its database, or without to mean it in all of them.
MeantIgnored(db, name) ==
    task.ignore \cup UNION {task.aliases[i].ignore : i \in
        {i \in DOMAIN task.aliases : /\ task.aliases[i].db \in {AnyDb, db}
                                     /\ Fold[task.aliases[i].source] = Fold[name]}}

\* Reference: the rows of one side are those of the other in another order.
SameRows(s, t, cols) ==
    /\ Len(s.rows) = Len(t.rows)
    /\ \E f \in [DOMAIN s.rows -> DOMAIN t.rows] :
          /\ \A i, j \in DOMAIN s.rows : i # j => f[i] # f[j]
          /\ \A i \in DOMAIN s.rows : NormRow(s.rows[i], cols) = NormRow(t.rows[f[i]], cols)

TablesOf(x) == [s |-> task.source[task.pairs[x[1]].source][x[2].src],
                t |-> task.target[task.pairs[x[1]].target][x[2].tgt],
                ignore |-> MeantIgnored(task.pairs[x[1]].source, x[2].src)]

\* A table compared row by row is found equal exactly when its rows, without
\* the ignored columns, are the rows of the other side, and what is missing
\* and what is too many accounts for the difference of the row counts.
VerdictExact ==
    \A x \in DOMAIN results :
        LET d == results[x].data
            tables == TablesOf(x)
            cols == Content(tables.s, tables.t, tables.ignore)
        IN  Both(x) /\ d # NoData /\ d.mode = "rows" =>
                /\ cols # {} => /\ d.equal <=> SameRows(tables.s, tables.t, cols)
                                /\ d.missing + d.targetRows = d.extra + d.sourceRows
                /\ cols = {} => ~d.equal

\* A table that is counted as matched is the same in all that was read of it:
\* its columns, and its rows or, over the threshold, their number.
MatchedIsTheSame ==
    step = "done" =>
        \A x \in Matched :
            LET tables == TablesOf(x)
                s == tables.s
                t == tables.t
            IN  /\ results[x].columns # "none" => SameColumns(s, t)
                /\ results[x].data # NoData =>
                      /\ Len(s.rows) = Len(t.rows)
                      /\ Len(s.rows) <= task.threshold =>
                             SameRows(s, t, Content(s, t, tables.ignore))

\* A verdict is right about the rows, and so is the count of matched tables.
VerdictSound == VerdictExact /\ MatchedIsTheSame

\* The report is complete: every table once, and once in the summary.
ReportComplete == EveryTableReported /\ SummaryAddsUp

\* A table that is counted as matched was read in everything the options ask
\* for (model.go calls these tables entirely the same).
MatchedWasRead ==
    step = "done" =>
        \A x \in Matched :
            /\ ~task.dataOnly => results[x].columns # "none"
            /\ ~task.structureOnly => results[x].data # NoData
=============================================================================
