---------------------------- MODULE MCDataImport ----------------------------
EXTENDS DataImport

CONSTANTS d1, d2, k1, k2, v1, v2

TwoDBs == {d1, d2}
AllKeys   == {k1, k2}
AllValues == {v1, v2}
Failures  == {"statement", "cancel"}
AllFaults == Failures \cup {"read", "write", "contributor"}

Table(f, col) == [exists |-> TRUE, rows |-> f, col |-> col]
Tables == {Table(f, v1) : f \in [AllKeys -> {None, v1}]}
TablesOrNone == Tables \cup {NoTable}

Row(k, v)       == [key |-> k, val |-> v]
Create          == [type |-> "create", to |-> v1]
Upsert(data)    == [type |-> "upsert", pk |-> TRUE, data |-> data]
NoKeyUpsert     == [type |-> "upsert", pk |-> FALSE, data |-> <<Row(k1, v2)>>]
Exec(to, back)  == [type |-> "exec", to |-> to, back |-> back]
Package(d, es)  == [db |-> d, entries |-> es]
Import(sqls, ps, start, ddl, faults) ==
    [sqls |-> sqls, pkgs |-> ps, start |-> start, ddlCommits |-> ddl, faults |-> faults]

SQL == <<[db |-> d1, stmt |-> Stmt("put", {k2}, v2)]>>

(* Up to three entries that touch different rows and the column once.      *)
Entries == {Upsert(<<Row(k1, v2)>>), Upsert(<<Row(k1, v2), Row(k1, v1)>>), Upsert(<<Row(k2, v2)>>),
            Upsert(<<Row(k2, v1), Row(k1, v2)>>), Upsert(<<>>), NoKeyUpsert,
            Exec(v2, v1), Exec(v2, None)}
Touched(e) == IF e.type = "exec" THEN {None} ELSE {e.data[i].key : i \in DOMAIN e.data}
EntryLists == {es \in UNION {[1..n -> Entries] : n \in 1..3} :
                  \A i, j \in DOMAIN es : i # j => Touched(es[i]) \cap Touched(es[j]) = {}}

Disjoint ==
    {Import(sqls, <<Package(d1, es)>>, Tables, ddl, Failures \cup {"read"}) :
        sqls \in {<<>>, SQL}, ddl \in BOOLEAN, es \in EntryLists}

(* For databases that may lack the table: it is created, created and       *)
(* filled, or not created at all; the rows may be written twice.           *)
Fillings == {<<>>, <<Upsert(<<Row(k1, v2)>>)>>, <<Exec(v2, v1)>>,
             <<Upsert(<<Row(k1, v2)>>), Upsert(<<Row(k2, v1), Row(k1, v1)>>), Exec(v2, None)>>}
MissingTable ==
    {Import(sqls, <<Package(d1, create \o es)>>, {NoTable}, ddl, AllFaults) :
        sqls \in {<<>>, SQL}, ddl \in BOOLEAN, create \in {<<>>, <<Create>>}, es \in Fillings}
    \cup {Import(<<>>, <<Package(d1, <<Create, Upsert(<<Row(k1, v2)>>)>>),
                         Package(d, <<Create, Upsert(<<Row(k2, v2)>>)>>)>>, TablesOrNone, ddl, AllFaults) :
              d \in {d1, d2}, ddl \in BOOLEAN}

(* Two packages for one or two databases, and every fault.                 *)
TwoPackages == {Import(<<>>, <<Package(d1, <<Upsert(<<Row(k1, v2)>>)>>),
                               Package(d, <<Upsert(<<Row(k2, v2)>>)>>)>>, Tables, ddl, AllFaults) :
                    d \in {d1, d2}, ddl \in BOOLEAN}

AllImports == Disjoint \cup MissingTable \cup TwoPackages

(* Two entries of one package write the same row.                          *)
Overlapping == {Import(<<>>, <<Package(d1, <<Upsert(<<Row(k1, v2)>>), Exec(v2, None),
                                             Upsert(<<Row(k1, v2)>>)>>)>>, Tables, FALSE, {})}
=============================================================================
