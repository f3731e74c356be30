--------------------------- MODULE MCTableCompare ---------------------------
(***************************************************************************)
(* Tasks for TLC.  The row tasks compare one table in every content; the   *)
(* pair tasks compare tables without rows under every alias.               *)
(***************************************************************************)
EXTENDS TableCompare, TLC

CONSTANTS d1, d2, a, b, e, no, any, nodata

MCNames == {a, b, e}
FoldNames == (a :> "a") @@ (b :> "b") @@ (e :> "e")

\* "01" and "1" are two values of a text column and one normalised value.
NormValues == ("1" :> "1") @@ ("01" :> "1") @@ ("2" :> "2")

Table(def, key, rows) == [def |-> def, key |-> key, rows |-> rows]
Def(cols, type) == [x \in cols |-> type]

RowsOf(cols, values, n) == UNION {[1..m -> [cols -> values]] : m \in 0..n}

Option(tables) ==
    [pairs |-> <<[source |-> d1, target |-> d2]>>, source |-> tables.source, target |-> tables.target,
     selected |-> MCNames, aliases |-> <<>>, ignore |-> {}, structureOnly |-> FALSE,
     dataOnly |-> FALSE, force |-> FALSE, threshold |-> 2]

OneTable(s, t) == [source |-> d1 :> (a :> s), target |-> d2 :> (a :> t)]

\* The rows of a keyed table have different keys, here even normalised ones.
KeysDiffer(rows, key) ==
    key # <<>> => \A i, j \in DOMAIN rows :
        i # j => NormRow(rows[i], Elements(key)) # NormRow(rows[j], Elements(key))

Alias(db, source, target, ignore) ==
    [db |-> db, source |-> source, target |-> target, ignore |-> ignore]

KV == {"k", "v"}
Plain(key, values, n) ==
    {Table(Def(KV, "int"), key, rows) :
        rows \in {r \in RowsOf(KV, values, n) : KeysDiffer(r, key)}}

\* Tables with and without a key: as they are, over the threshold, with a
\* column ignored in general or for the table.
Variants == {<<{}, <<>>, 2>>, <<{}, <<>>, 1>>, <<{"v"}, <<>>, 2>>,
             <<{}, <<Alias(any, a, no, {"v"})>>, 2>>}

ContentTasks(keys) ==
    {[Option(OneTable(s, t)) EXCEPT !.ignore = v[1], !.aliases = v[2], !.threshold = v[3]] :
        s \in {s \in UNION {Plain(key, {"1", "01", "2"}, 2) : key \in keys} :
                 \A i \in DOMAIN s.rows : s.rows[i]["v"] # "01"},
        t \in UNION {Plain(key, {"1", "01"}, 2) : key \in keys}, v \in Variants}

\* Tables of different structure, under every combination of the options.
Shaped(types) ==
    {t \in {Table(Def(cols, ty), key, rows) : cols \in {{"k"}, {"v"}, KV}, ty \in types,
               key \in {<<>>, <<"k">>}, rows \in {<<>>, <<Def(KV, "1")>>}} :
        Elements(t.key) \subseteq DOMAIN t.def}

StructureTasks(types) ==
    {[Option(OneTable(s, t))
        EXCEPT !.structureOnly = so, !.dataOnly = do, !.force = f, !.ignore = ign] :
          s \in Shaped({"int"}), t \in Shaped(types),
          so \in BOOLEAN, do \in BOOLEAN, f \in BOOLEAN, ign \in {{}, {"k"}}}

\* Every set of tables on both sides, up to two aliases, one or two databases.
Blank == Table(Def({"k"}, "int"), <<>>, <<>>)
Tables(ns) == [n \in ns |-> Blank]

AliasLists(dbs) ==
    LET one == {Alias(db, s, t, {}) : db \in dbs, s \in {a, b}, t \in {a, b, e, no}}
        anywhere == {x \in one : x.db = any /\ x.target # no}
    IN  {<<>>} \cup {<<x>> : x \in one} \cup {<<x, y>> : x \in anywhere, y \in anywhere}

Pairing(ss, ts, sel, al) ==
    [Option([source |-> d1 :> Tables(ss), target |-> d2 :> Tables(ts)])
        EXCEPT !.selected = sel, !.aliases = al]

PairTasks(dbs) ==
    {Pairing(ss, ts, sel, al) : ss \in SUBSET {a, b}, ts \in SUBSET MCNames,
        sel \in {MCNames, {a, b}}, al \in AliasLists(dbs)}

TwoDbTasks(dbs) ==
    {[Option([source |-> (d1 :> Tables(ss)) @@ (d2 :> Tables({a})),
              target |-> (d1 :> Tables(MCNames)) @@ (d2 :> Tables(ts))])
        EXCEPT !.pairs = <<[source |-> d1, target |-> d2], [source |-> d2, target |-> d1]>>,
               !.aliases = al] :
        ss \in SUBSET {a, b}, ts \in SUBSET {a, e},
        al \in {<<>>} \cup {<<Alias(db, a, t, {})>> : db \in dbs, t \in {b, e}}}

\* What may fail: to list the tables, to read columns and to read rows.
AllFaults == {"list", "structure", "data", "cancel"}
ReadFaults == {"structure", "data"}

\* One task of any kind; TLC enumerates tagged sets faster than their union.
MCTasks(keys) ==
    {tagged[2] : tagged \in
        ({"rows"} \X ContentTasks(keys)) \cup ({"columns"} \X StructureTasks({"int", "text"}))
            \cup ({"aliases"} \X PairTasks({any, d1, d2}))
            \cup ({"databases"} \X TwoDbTasks({any, d1, d2}))}
AllTasks == MCTasks({<<>>, <<"k">>})
=============================================================================
