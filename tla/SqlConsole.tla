----------------------------- MODULE SqlConsole -----------------------------
(***************************************************************************)
(* Running SQL for the web client: scripts statement by statement, editing *)
(* the rows of a table, and what is remembered of it: the bounded history, *)
(* the audit log and the favourites                                        *)
(* (internal/service/sql.go, internal/engine/sqlquery.go,                  *)
(* internal/store/sqlite.go).                                              *)
(*                                                                         *)
(* One table is shared by all calls; a row is its primary key.  Every      *)
(* statement and every access of the store is a step; nothing is locked    *)
(* over two of them, and a script is not one transaction.  A connection    *)
(* that cannot be resolved or opened ends a call before its first step and *)
(* is left out.                                                            *)
(***************************************************************************)
EXTENDS Naturals, FiniteSets, Sequences

CONSTANTS
    SqlCallers,      \* the requests of this instance, one each
    RowKeys,         \* primary keys of the table
    MaxSqlHistory,   \* maxSQLHistoryPerConn, 200 in the code
    MaxClock,        \* bound on the clock that stamps the records
    SqlCases         \* table content and requests, see sqlCase

ASSUME SqlAssumption == MaxSqlHistory \in Nat \ {0} /\ MaxClock \in Nat \ {0} /\ IsFiniteSet(SqlCallers)

(* A table has finitely many rows; a new favourite gets an ID (xid) that     *)
(* nobody asked for before; a script names its connection.  RunSQLScript      *)
(* refuses a script without statements, and an edit of no rows does nothing.  *)
ASSUME SqlCasesAssumption ==
    \A k \in SqlCases :
      /\ IsFiniteSet(k.rows) /\ k.rows \subseteq RowKeys
      /\ \A f \in k.favs : f = [id |-> f.id, user |-> f.user, title |-> f.title]
      /\ \A c \in SqlCallers : k.request[c].id \notin SqlCallers
      /\ \A c \in SqlCallers : k.request[c].op = "script" => k.request[c].conn # "any"
      /\ \A c \in SqlCallers : k.request[c].stmts \in Seq([do : STRING, key : RowKeys])
      /\ \A c \in SqlCallers : k.request[c].op \in {"script", "edit"} => k.request[c].stmts # <<>>

VARIABLES
    sqlCase,     \* first rows, request of each caller, faults
    table,       \* the rows
    sqlCalls,    \* where each request is
    results,     \* the results of each request
    sqlHist,     \* SQL history
    audit,       \* audit log
    warned,      \* entries of the audit log that could only be logged as missing
    favs,        \* favourites
    clock

storeVars == <<sqlHist, audit, warned, favs>>
sqlVars == <<sqlCase, table, sqlCalls, results, storeVars, clock>>

-----------------------------------------------------------------------------
req(c)      == sqlCase.request[c]
at(c)       == sqlCalls[c].at
AtSql(c, op, step) == req(c).op = op /\ sqlCalls[c].step = step
GoSql(c, call)     == sqlCalls' = [sqlCalls EXCEPT ![c] = call]
SqlStep(c, step)   == GoSql(c, [sqlCalls[c] EXCEPT !.step = step])

(* What a statement does to the table: whether it succeeds, the rows it     *)
(* leaves, how many it affected or returned.  A forbidden statement is      *)
(* refused before it is sent; a duplicate key is an error of the database,   *)
(* and both leave the rows as they are.                                     *)
Effect(s) ==
    IF s.do = "select" THEN [ok |-> TRUE, rows |-> table, count |-> Cardinality(table), write |-> FALSE]
    ELSE IF s.do = "insert"
    THEN [ok |-> s.key \notin table, rows |-> table \cup {s.key}, count |-> 1, write |-> TRUE]
    ELSE IF s.do = "update"
    THEN [ok |-> TRUE, rows |-> table, count |-> Cardinality({s.key} \cap table), write |-> TRUE]
    ELSE IF s.do = "delete"
    THEN [ok |-> TRUE, rows |-> table \ {s.key}, count |-> Cardinality({s.key} \cap table), write |-> TRUE]
    ELSE [ok |-> FALSE, rows |-> table, count |-> 0, write |-> TRUE]      \* forbidden, or a syntax error

Answered(s) == [ok |-> Effect(s).ok, rows |-> Effect(s).rows, count |-> Effect(s).count,
                write |-> Effect(s).write, lost |-> FALSE]

(* The connection may be lost, before the statement is executed or before    *)
(* its answer arrives; the caller gets the same error for both.              *)
Unanswered(s, rows) == [ok |-> FALSE, rows |-> rows, count |-> 0, write |-> Effect(s).write, lost |-> TRUE]

Outcome(s) == {Answered(s)} \cup
    (IF "lost" \in sqlCase.faults THEN {Unanswered(s, table), Unanswered(s, Effect(s).rows)} ELSE {})

Result(s, e) ==
    [do |-> s.do, ok |-> e.ok, write |-> e.write, count |-> IF e.ok THEN e.count ELSE 0, lost |-> e.lost]

SqlInit ==
    /\ sqlCase \in SqlCases
    /\ table = sqlCase.rows
    /\ sqlCalls = [c \in SqlCallers |-> [step |-> "run", at |-> 1, stamp |-> 0, seen |-> {}]]
    /\ results = [c \in SqlCallers |-> <<>>]
    /\ sqlHist = {} /\ audit = {} /\ warned = {}
    /\ favs = sqlCase.favs
    /\ clock = 1

(* RunSQLScript, DeleteTableRows, UpdateTableCell and InsertTableRow run       *)
(* their statements one by one.                                            *)
Execute(c, e) ==
    /\ table' = e.rows
    /\ results' = [results EXCEPT ![c] = Append(@, Result(req(c).stmts[at(c)], e))]
More(c) == at(c) < Len(req(c).stmts)
Last(c) == results[c][Len(results[c])]

-----------------------------------------------------------------------------
(* RunSQLScript: the statements in order, up to the first that fails.  The   *)
(* placeholders that appendSkipped makes for the rest are not kept by its    *)
(* caller.                                                                 *)
(* Slip: the script goes on after a failed statement.                       *)
RunStatementOn(c) ==
    /\ AtSql(c, "script", "run")
    /\ \E e \in Outcome(req(c).stmts[at(c)]) :
         /\ Execute(c, e)
         /\ GoSql(c, [sqlCalls[c] EXCEPT !.at = @ + 1, !.step = IF More(c) THEN "run" ELSE "record"])
    /\ UNCHANGED <<sqlCase, storeVars, clock>>

RunStatement(c) ==
    /\ AtSql(c, "script", "run")
    /\ \E e \in Outcome(req(c).stmts[at(c)]) :
         /\ Execute(c, e)
         /\ GoSql(c, [sqlCalls[c] EXCEPT !.at = @ + 1,
                        !.step = IF e.ok /\ More(c) THEN "run" ELSE "record"])
    /\ UNCHANGED <<sqlCase, storeVars, clock>>

(* recordSQL: one history row and one audit entry for the whole script.  A   *)
(* script that failed half-way is recorded as an error that wrote nothing.   *)
ScriptOk(c) == \A n \in DOMAIN results[c] : results[c][n].ok
Written(c)  == \E n \in DOMAIN results[c] : results[c][n].write
Total(list) == LET sum[n \in 0 .. Len(list)] == IF n = 0 THEN 0 ELSE sum[n - 1] + list[n].count
               IN  sum[Len(list)]
Rows(c)     == Total(results[c])
Domain(c)   == [user |-> req(c).user, conn |-> req(c).conn]
Within(d, r) == r.user = d.user /\ (d.conn = "any" \/ r.conn = d.conn)     \* userConnWhere

AddSQLHistory(c) ==
    /\ AtSql(c, "script", "record")
    /\ sqlHist' = sqlHist \cup {[call |-> c, user |-> req(c).user, conn |-> req(c).conn, stamp |-> clock]}
    /\ GoSql(c, [sqlCalls[c] EXCEPT !.step = "trim", !.stamp = clock])
    /\ UNCHANGED <<sqlCase, table, results, audit, warned, favs, clock>>

(* trimSQLHistory: the stamp of the N-th newest row, then everything older.  *)
InDomain(c) == {r \in sqlHist : Within(Domain(c), r)}
Boundary(all) == {r.stamp : r \in {q \in all :
    /\ Cardinality({n \in all : n.stamp > q.stamp}) < MaxSqlHistory
    /\ Cardinality({n \in all : n.stamp >= q.stamp}) >= MaxSqlHistory}}

TrimRead(c) ==
    /\ AtSql(c, "script", "trim")
    /\ IF Boundary(InDomain(c)) = {} THEN SqlStep(c, "audit")
       ELSE \E b \in Boundary(InDomain(c)) : GoSql(c, [sqlCalls[c] EXCEPT !.step = "cut", !.at = b])
    /\ UNCHANGED <<sqlCase, table, results, storeVars, clock>>

TrimDelete(c) ==
    /\ AtSql(c, "script", "cut")
    /\ sqlHist' = sqlHist \ {r \in InDomain(c) : r.stamp < at(c)}
    /\ SqlStep(c, "audit")
    /\ UNCHANGED <<sqlCase, table, results, audit, warned, favs, clock>>

(* An error of the store at any of these is dropped by recordSQL.             *)
StoreFails == "store" \in sqlCase.faults

HistoryFails(c) ==
    /\ StoreFails
    /\ AtSql(c, "script", "record") \/ AtSql(c, "script", "trim") \/ AtSql(c, "script", "cut")
    /\ SqlStep(c, "audit")
    /\ UNCHANGED <<sqlCase, table, results, storeVars, clock>>

Entry(c, do, ok, write, count) ==
    [call |-> c, n |-> Len(results[c]), do |-> do, ok |-> ok, write |-> write, count |-> count]

(* appendSQLAudit: an entry that cannot be written is only logged, and the   *)
(* request goes on.                                                         *)
AppendSQLAudit(a) ==
    \/ audit' = audit \cup {a} /\ UNCHANGED warned
    \/ StoreFails /\ warned' = warned \cup {[call |-> a.call, n |-> a.n]} /\ UNCHANGED audit

ScriptEntry(c) == IF ScriptOk(c) THEN Entry(c, "script", TRUE, Written(c), Rows(c))
                                 ELSE Entry(c, "script", FALSE, FALSE, 0)

AuditScript(c) ==
    /\ AtSql(c, "script", "audit")
    /\ AppendSQLAudit(ScriptEntry(c))
    /\ SqlStep(c, "done")
    /\ UNCHANGED <<sqlCase, table, results, sqlHist, favs, clock>>

-----------------------------------------------------------------------------
(* UpdateTableCell, DeleteTableRows, InsertTableRow: each row is one          *)
(* statement and one audit entry; the first failure ends the request.       *)
EditRow(c) ==
    /\ AtSql(c, "edit", "run")
    /\ \E e \in Outcome(req(c).stmts[at(c)]) : Execute(c, e)
    /\ SqlStep(c, "audit")
    /\ UNCHANGED <<sqlCase, storeVars, clock>>

RowEntry(c) == Entry(c, Last(c).do, Last(c).ok, TRUE, Last(c).count)

(* Slip: only what succeeded is audited.                                    *)
AuditDone(c) ==
    /\ AtSql(c, "edit", "audit")
    /\ IF Last(c).ok THEN AppendSQLAudit(RowEntry(c)) ELSE UNCHANGED <<audit, warned>>
    /\ GoSql(c, [sqlCalls[c] EXCEPT !.at = @ + 1, !.step = IF Last(c).ok /\ More(c) THEN "run" ELSE "done"])
    /\ UNCHANGED <<sqlCase, table, results, sqlHist, favs, clock>>

AuditRow(c) ==
    /\ AtSql(c, "edit", "audit")
    /\ AppendSQLAudit(RowEntry(c))
    /\ GoSql(c, [sqlCalls[c] EXCEPT !.at = @ + 1, !.step = IF Last(c).ok /\ More(c) THEN "run" ELSE "done"])
    /\ UNCHANGED <<sqlCase, table, results, sqlHist, favs, clock>>

-----------------------------------------------------------------------------
(* ClearSQLHistory: the rows of a user, of one connection or of all, are     *)
(* listed and deleted one by one.                                          *)
ListForClear(c) ==
    /\ AtSql(c, "clear", "run")
    /\ GoSql(c, [sqlCalls[c] EXCEPT !.step = "clear", !.seen = InDomain(c)])
    /\ UNCHANGED <<sqlCase, table, results, storeVars, clock>>

ClearOne(c) ==
    /\ AtSql(c, "clear", "clear")
    /\ \E r \in sqlCalls[c].seen :
         /\ sqlHist' = {q \in sqlHist : q.call # r.call}
         /\ GoSql(c, [sqlCalls[c] EXCEPT !.seen = @ \ {r}])
    /\ UNCHANGED <<sqlCase, table, results, audit, warned, favs, clock>>

Cleared(c) ==
    /\ AtSql(c, "clear", "clear") /\ sqlCalls[c].seen = {}
    /\ SqlStep(c, "done")
    /\ UNCHANGED <<sqlCase, table, results, storeVars, clock>>

-----------------------------------------------------------------------------
(* Favourites.  RenameFavorite reads the row and then updates two columns of *)
(* it, if it is still there.                                               *)
Mine(c) == {f \in favs : f.id = req(c).id /\ f.user = req(c).user}

AddFavorite(c) ==
    /\ AtSql(c, "addFav", "run")
    /\ favs' = favs \cup {[id |-> c, user |-> req(c).user, title |-> "first"]}
    /\ SqlStep(c, "done")
    /\ UNCHANGED <<sqlCase, table, results, sqlHist, audit, warned, clock>>

DeleteFavorite(c) ==
    /\ AtSql(c, "deleteFav", "run")
    /\ favs' = favs \ Mine(c)
    /\ SqlStep(c, "done")
    /\ UNCHANGED <<sqlCase, table, results, sqlHist, audit, warned, clock>>

ReadFavorite(c) ==
    /\ AtSql(c, "renameFav", "run")
    /\ GoSql(c, [sqlCalls[c] EXCEPT !.step = IF Mine(c) = {} THEN "done" ELSE "update", !.seen = Mine(c)])
    /\ UNCHANGED <<sqlCase, table, results, storeVars, clock>>

(* Slip: the row that was read is written back whole.                       *)
ReplaceFavorite(c) ==
    /\ AtSql(c, "renameFav", "update")
    /\ favs' = (favs \ Mine(c)) \cup {[f EXCEPT !.title = "new"] : f \in sqlCalls[c].seen}
    /\ SqlStep(c, "done")
    /\ UNCHANGED <<sqlCase, table, results, sqlHist, audit, warned, clock>>

UpdateFavorite(c) ==
    /\ AtSql(c, "renameFav", "update")
    /\ favs' = (favs \ Mine(c)) \cup {[f EXCEPT !.title = "new"] : f \in Mine(c)}
    /\ SqlStep(c, "done")
    /\ UNCHANGED <<sqlCase, table, results, sqlHist, audit, warned, clock>>

-----------------------------------------------------------------------------
(* A millisecond passes.                                                    *)
Tick ==
    /\ clock < MaxClock
    /\ clock' = clock + 1
    /\ UNCHANGED <<sqlCase, table, sqlCalls, results, storeVars>>

SqlNext ==
    \/ Tick
    \/ \E c \in SqlCallers :
         \/ RunStatement(c) \/ AddSQLHistory(c) \/ TrimRead(c) \/ TrimDelete(c) \/ HistoryFails(c) \/ AuditScript(c)
         \/ EditRow(c) \/ AuditRow(c)
         \/ ListForClear(c) \/ ClearOne(c) \/ Cleared(c)
         \/ AddFavorite(c) \/ DeleteFavorite(c) \/ ReadFavorite(c) \/ UpdateFavorite(c)

SqlSpec == SqlInit /\ [][SqlNext]_sqlVars

-----------------------------------------------------------------------------
Over(c) == sqlCalls[c].step = "done"
Entries(c) == {a \in audit : a.call = c}

(* The variables have their types.                                          *)
SqlTypeOK ==
    /\ sqlCase \in SqlCases
    /\ table \subseteq RowKeys
    /\ \A c \in SqlCallers : Len(results[c]) <= Len(req(c).stmts) /\ sqlCalls[c].stamp \in 0..MaxClock
    /\ \A r \in sqlHist : r.call \in SqlCallers /\ r.stamp \in 1..MaxClock
    /\ \A a \in audit : a.call \in SqlCallers /\ a.write \in BOOLEAN /\ a.count \in Nat
    /\ clock \in 1..MaxClock

(* What the requests were told adds up to what happened to the table, with   *)
(* other requests changing the same rows in between, with statements that    *)
(* fail and, for every statement whose answer was lost, with at most the one  *)
(* row it may have changed: nothing is sent twice.  A script did nothing      *)
(* after its first failure.                                                *)
RowsOf(c, n)  == {<<c, n, i>> : i \in 1 .. results[c][n].count}
ToldOf(do, c) == UNION {RowsOf(c, n) : n \in {m \in DOMAIN results[c] : results[c][m].do = do}}
Told(do)      == UNION {ToldOf(do, c) : c \in SqlCallers}
LostOf(do, c) == {<<c, n>> : n \in {m \in DOMAIN results[c] : results[c][m].lost /\ results[c][m].do = do}}
LostRows(do)  == UNION {LostOf(do, c) : c \in SqlCallers}

ReportedExactly ==
    /\ Cardinality(table) + Cardinality(Told("delete"))
         <= Cardinality(sqlCase.rows) + Cardinality(Told("insert")) + Cardinality(LostRows("insert"))
    /\ Cardinality(sqlCase.rows) + Cardinality(Told("insert"))
         <= Cardinality(table) + Cardinality(Told("delete")) + Cardinality(LostRows("delete"))
    /\ \A c \in SqlCallers : \A n \in DOMAIN results[c] : n < Len(results[c]) => results[c][n].ok

(* When a request is over the audit log has an entry for its script, or for  *)
(* each row it tried to edit, done or failed, with the rows it was told of,   *)
(* or the entry was logged as missing, which happens only if the store fails; *)
(* the entries of a request never disappear.                               *)
Warned(c, n) == [call |-> c, n |-> n] \in warned

AuditComplete ==
    /\ ~StoreFails => warned = {}
    /\ \A c \in SqlCallers : Over(c) =>
      /\ req(c).op = "script" =>
           \/ Warned(c, Len(results[c]))
           \/ \E a \in Entries(c) : a.ok = ScriptOk(c) /\ (a.ok => a.count = Rows(c) /\ a.write = Written(c))
      /\ req(c).op = "edit" => \A n \in DOMAIN results[c] :
           \/ Warned(c, n)
           \/ \E a \in Entries(c) : a.n = n /\ a.ok = results[c][n].ok /\ a.count = results[c][n].count

(* A history row of a script that was recorded is missing only if its user   *)
(* cleared the history, or if MaxSqlHistory newer scripts of the same user    *)
(* and connection were recorded.                                           *)
NewestScriptsKept ==
    \A c \in SqlCallers : (sqlCalls[c].stamp > 0 /\ \A r \in sqlHist : r.call # c) =>
      \/ \E d \in SqlCallers : req(d).op = "clear" /\ sqlCalls[d].step # "run" /\ Within(Domain(d), Domain(c))
      \/ Cardinality({d \in SqlCallers : sqlCalls[d].stamp > sqlCalls[c].stamp /\ Domain(d) = Domain(c)})
            >= MaxSqlHistory

(* A deleted favourite stays deleted, whoever is renaming it, and nobody     *)
(* else's favourite is touched.                                            *)
DeletedFavoriteStays ==
    /\ \A c \in SqlCallers : req(c).op = "deleteFav" /\ Over(c) => Mine(c) = {}
    /\ \A f \in sqlCase.favs : (\A g \in favs : g.id # f.id) =>
         \E c \in SqlCallers : req(c).op = "deleteFav" /\ req(c).id = f.id /\ req(c).user = f.user

(* RunSQLScript answers for every statement: those after a failed one come   *)
(* as placeholders.                                                        *)
SkippedAreShown ==
    \A c \in SqlCallers : req(c).op = "script" /\ Over(c) => Len(results[c]) = Len(req(c).stmts)
=============================================================================
