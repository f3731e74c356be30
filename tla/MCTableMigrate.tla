--------------------------- MODULE MCTableMigrate ---------------------------
EXTENDS TableMigrate

CONSTANTS a, b, x, t1, t2, k1, k2, v1, v2

Row(k, v) == [key |-> k, val |-> v]
AllRows   == {Row(k, v) : k \in {k1, k2}, v \in {v1, v2}}
Holding(rows) == [r \in AllRows |-> IF r \in rows THEN 1 ELSE 0]

(* Table t1 of a is copied over two rows, one of which it overwrites.      *)
Sources == (<<a, t1>> :> <<Row(k1, v2), Row(k2, v2), Row(k1, v2)>>)
        @@ (<<a, t2>> :> <<Row(k1, v1)>>)
        @@ (<<b, t1>> :> <<Row(k2, v1)>>)
KeyedSources == (<<a, t1>> :> <<Row(k1, v2), Row(k2, v2)>>)
             @@ (<<a, t2>> :> <<Row(k1, v1)>>)
             @@ (<<b, t1>> :> <<Row(k2, v1)>>)
BothKeyed == {t1, t2}
OneKeyed == {t2}

J(from, to, tables, objects) == [from |-> from, to |-> to, tables |-> tables, objects |-> objects]
Databases == <<J(a, x, <<t1, "gone", t2>>, <<"view">>), J(b, b, <<t1>>, <<>>),
               J(b, x, <<"gone">>, <<"view">>)>>
OneTable  == <<J(a, x, <<t1>>, <<>>)>>

AnyContent == {Absent, Holding({}), Holding({Row(k1, v1), Row(k2, v1)})}
Filled  == {Holding({Row(k1, v1), Row(k2, v1)}), Holding({Row(k2, v1)})}
Opt(reset, backup, dataOnly, schemaOnly, crossType) ==
    [reset |-> reset, backup |-> backup, dataOnly |-> dataOnly,
     schemaOnly |-> schemaOnly, crossType |-> crossType]
Scopes(reset, backup) == {Opt(reset, backup, only = "data", only = "schema", cross) :
                             only \in {"data", "schema", "both"}, cross \in BOOLEAN}
Resets   == Scopes("drop", TRUE) \cup Scopes("truncate", TRUE) \cup Scopes("truncate", FALSE)
NoReset  == Scopes("none", TRUE)
AnyOption == Resets \cup NoReset
Truncate == {Opt("truncate", TRUE, FALSE, FALSE, FALSE)}

AllFaults == {"statement", "cancel"}
Failures  == {"statement"}
=============================================================================
