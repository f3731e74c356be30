----------------------------- MODULE MCServices -----------------------------
(***************************************************************************)
(* The services around the library: the terminal, the start of the web      *)
(* service and its settings, the assistant's stream and what it remembers,   *)
(* the export, the data dictionary, the comparison with a snapshot and the   *)
(* index of the snapshots.  These share no state: a behaviour is of one of   *)
(* them, the others stay as one initial state of theirs.                    *)
(***************************************************************************)
EXTENDS Console, WebLaunch, WebSettings, ThinkStream, ChatHistory,
        ExportRun, SnapshotDiff, DataDictionary, SnapshotIndex, TLC

CONSTANTS lower, upper, oth, sel, upd, bad, use,     \* databases and statements of the terminal
          w1, w2, w3, h1, a1, a2, a3, v1, v2,   \* processes, sources, calls, savers
          d1, d2, t1, t2, o1, o2,               \* the exported databases
          b1, b2, q1, q2,                       \* those of the snapshot
          i1, i2, l1, l2                        \* instances and the old index

VARIABLE part

Components == {"terminal", "launch", "settings", "stream", "chat", "export", "diff", "book", "index"}

-----------------------------------------------------------------------------
(* Statements: a query, a write, one that is forbidden and `use lower`.        *)
MCUpper == [d \in {lower, upper, oth} |-> IF d = lower THEN upper ELSE d]
MCWrite(t) == t = upd
MCForbidden(t) == t = bad
MCUseOf(t) == IF t = use THEN lower ELSE NoDb

-----------------------------------------------------------------------------
Address(h, n) == [host |-> h, port |-> n]
LaunchOf(x, y, z, u1, u2, u3, third, f) ==
    [addr |-> (w1 :> x @@ w2 :> y @@ w3 :> z), user |-> (w1 :> u1 @@ w2 :> u2 @@ w3 :> u3),
     role |-> (w1 :> "dqex" @@ w2 :> "dqex" @@ w3 :> third), faults |-> f]

MCLaunchCases ==
  { LaunchOf(Address("loop", 1), Address("loop", 1), Address("loop", 2), "root", "user", "script", "dqex", FALSE),
    LaunchOf(Address("any", 1), Address("loop", 1), Address("lan", 1), "root", "root", "user", "foreign", FALSE),
    LaunchOf(Address("any", 1), Address("any", 1), Address("lan", 1), "user", "root", "script", "dqex", TRUE) }

Form(sources, place, k) == [allow |-> sources, dirs |-> place, key |-> k]
MCForms == {Form({h1}, "d1", "k1"), Form({}, "d2", "mask"), Form({h1}, "d1", "mask"), Form({}, "d1", "k2")}
MCBuiltin == <<"openai", "qwen", "custom">>
MCLists == {<<>>, <<"mine">>, <<"qwen", "mine", "other">>, <<"", "custom", "mine", "mine">>}

-----------------------------------------------------------------------------
(* Every text of upper to four tokens, and one where a tag appears when the     *)
(* thought in its middle is taken out.                                      *)
MCOpen == <<"<", "t", ">">>
MCClose == <<"<", "/", ">">>
Tokens == {MCOpen, MCClose, <<"<">>, <<"/">>, <<"t">>, <<">">>}
MCRaw == {FlattenSeq(s) : s \in UNION {[1..n -> Tokens] : n \in 1..4}}
         \cup {<<"<">> \o MCOpen \o MCClose \o <<"t", ">", "t">>}

-----------------------------------------------------------------------------
ExpCaseOf(en, form, m, one, fl, q, tb1, tb2, ob, c1, c2, k, h, alters, f) ==
    [engine |-> en, format |-> form, mode |-> m, single |-> one, flat |-> fl, qualified |-> q,
     dbs |-> {d1, d2}, holds |-> (d1 :> {t1, t2} @@ d2 :> {t1, t2}),
     tables |-> (d1 :> tb1 @@ d2 :> tb2), objects |-> (d1 :> ob @@ d2 :> ob),
     cond |-> (t1 :> c1 @@ t2 :> c2), keyed |-> k, schema |-> (t1 :> "s1" @@ t2 :> "s2"),
     helpers |-> h, ddl |-> alters, faulty |-> f]

MCExpCases ==
  { ExpCaseOf("mysql", "sql", "both", TRUE, FALSE, {}, Everything, {t1}, Everything, "all", "some", {t1}, 1, {}, FALSE),
    ExpCaseOf("mysql", "sql", "data", TRUE, FALSE, {}, {t1, t2}, {}, {o1}, "all", "none", {t1}, 0, {}, TRUE),
    ExpCaseOf("mysql", "json", "both", TRUE, TRUE, {d1}, {t1, t2}, {t1, t2}, Everything, "all", "all", {t1}, 0, {}, FALSE),
    ExpCaseOf("postgresql", "sql", "schema", TRUE, FALSE, {}, Everything, {}, Everything, "all", "some", {t1}, 1, {}, TRUE),
    ExpCaseOf("oracle", "sql", "both", TRUE, TRUE, {}, {t1}, {t1}, {o2}, "some", "all", {t1}, 0, {d1}, FALSE) }

-----------------------------------------------------------------------------
Table(c, r) == [cols |-> c, rows |-> r]
DiffCaseOf(ds, st1, st2, m, p1, p2, only, f) ==
    [dbs |-> ds, start |-> (b1 :> st1 @@ b2 :> st2), mapping |-> m, scope |-> b1,
     paired |-> (b1 :> p1 @@ b2 :> p2), filter |-> only, faulty |-> f]

MCDiffCases ==
  { DiffCaseOf({b1, b2}, q1 :> Table(0, 0) @@ q2 :> Table(0, 1), q1 :> Table(1, 1), NoTables, b1, b2, Unfiltered, FALSE),
    DiffCaseOf({b1, b2}, q1 :> Table(0, 0), NoTables, b1 :> b2, b2, b2, Unfiltered, FALSE),
    DiffCaseOf({b1}, q1 :> Table(0, 1) @@ q2 :> Table(0, 1), NoTables, NoTables, b1, b2, Unfiltered, TRUE) }

-----------------------------------------------------------------------------
(* Names that are cut, cleaned or joined to the same; an empty database, and  *)
(* a table too long for a sheet.                                            *)
Entry(n, c) == [name |-> n, cols |-> c]
DbOf(n, all, ts) == [name |-> n, whole |-> all, tables |-> ts]
MCNames == {<<"a">>, <<"a", "/">>, <<"a", "-">>, <<"a", "_">>,
            <<"a", "b", "c", "d", "e">>, <<"a", "b", "c", "d", "f">>, <<"O">>}
MCTableNames == {<<"a">>, <<"_", "a">>, <<"a", "-", "2">>, <<"a", "_", "2">>}
MCOverview == <<"O">>
MCBookCases ==
  {[dbs |-> <<DbOf(m, TRUE, <<Entry(p, 1), Entry(q, 2)>>), DbOf(n, FALSE, <<Entry(p, 1)>>), DbOf(<<"e">>, TRUE, last)>>,
    faulty |-> f] :
     m \in MCNames, n \in MCNames \ {<<"a">>}, p \in MCTableNames, q \in MCTableNames \ {<<"a">>},
     f \in BOOLEAN, last \in {<<>>, <<Entry(<<"a">>, 5)>>}}
MCBooks == {c \in MCBookCases : /\ c.dbs[1].name # c.dbs[2].name
                                /\ c.dbs[1].tables[1].name # c.dbs[1].tables[2].name}

-----------------------------------------------------------------------------
(* One instance, or two that share the database.                             *)
OldIndex == <<l1, l2>>
ScenarioOf(instances, n, faults) == [instances |-> instances, calls |-> n, faults |-> faults]
MCScenarios == {ScenarioOf({i1}, 3, {"crash"}),
                ScenarioOf({i1}, 3, {"data"}),
                ScenarioOf({i1, i2}, 3, {}),
                ScenarioOf({i1, i2}, 2, {"store", "data", "crash"})}

-----------------------------------------------------------------------------
ServicesInit ==
    /\ part \in Components
    /\ part # "terminal" => currentDb = CHOOSE n \in Existing : TRUE
    /\ part # "launch"   => launchCase = CHOOSE c \in LaunchCases : TRUE
    /\ part # "settings" => settingPart = "limit" /\ file = Form({h1}, "d1", "k1") /\ filter = {h1}
    /\ part # "stream" => raw = MCOpen
    /\ part # "chat"   => numbered = TRUE /\ system = 1
    /\ part # "export" => expCase = CHOOSE c \in ExpCases : TRUE
    /\ part # "diff"   => diffCase = CHOOSE c \in DiffCases : TRUE
    /\ part # "book"   => bookCase = CHOOSE c \in BookCases : TRUE
    /\ part # "index"  => scenario = CHOOSE s \in Scenarios : TRUE
    /\ ConInit /\ LaunchInit /\ SettingsInit /\ StreamInit /\ ChatInit
    /\ ExportInit /\ DiffInit /\ BookInit /\ Init

ServicesNext ==
    \/ /\ part = "terminal" /\ ConNext
       /\ UNCHANGED <<part, launchVars, settingVars, streamVars, chatVars, exportVars, diffVars, bookVars, vars>>
    \/ /\ part = "launch" /\ LaunchNext
       /\ UNCHANGED <<part, conVars, settingVars, streamVars, chatVars, exportVars, diffVars, bookVars, vars>>
    \/ /\ part = "settings" /\ SettingsNext
       /\ UNCHANGED <<part, conVars, launchVars, streamVars, chatVars, exportVars, diffVars, bookVars, vars>>
    \/ /\ part = "stream" /\ StreamNext
       /\ UNCHANGED <<part, conVars, launchVars, settingVars, chatVars, exportVars, diffVars, bookVars, vars>>
    \/ /\ part = "chat" /\ ChatNext
       /\ UNCHANGED <<part, conVars, launchVars, settingVars, streamVars, exportVars, diffVars, bookVars, vars>>
    \/ /\ part = "export" /\ ExportNext
       /\ UNCHANGED <<part, conVars, launchVars, settingVars, streamVars, chatVars, diffVars, bookVars, vars>>
    \/ /\ part = "diff" /\ DiffNext
       /\ UNCHANGED <<part, conVars, launchVars, settingVars, streamVars, chatVars, exportVars, bookVars, vars>>
    \/ /\ part = "book" /\ BookNext
       /\ UNCHANGED <<part, conVars, launchVars, settingVars, streamVars, chatVars, exportVars, diffVars, vars>>
    \/ /\ part = "index" /\ Next
       /\ UNCHANGED <<part, conVars, launchVars, settingVars, streamVars, chatVars, exportVars, diffVars, bookVars>>

servicesVars == <<part, conVars, launchVars, settingVars, streamVars, chatVars, exportVars, diffVars, bookVars, vars>>

ServicesSpec == ServicesInit /\ [][ServicesNext]_servicesVars

(* The variables of the component at work have their types.                  *)
ServicesTypeOK ==
    /\ part = "terminal" => ConTypeOK
    /\ part = "launch"   => LaunchTypeOK
    /\ part = "settings" => SettingsTypeOK
    /\ part = "stream"   => StreamTypeOK
    /\ part = "chat"     => ChatTypeOK
    /\ part = "export"   => ExportTypeOK
    /\ part = "diff"     => DiffTypeOK
    /\ part = "book"     => BookTypeOK
    /\ part = "index"    => TypeOK
=============================================================================
