------------------------------ MODULE MCLibrary ------------------------------
(***************************************************************************)
(* Small instances of the four parts of Library for TLC: which tasks,       *)
(* connections, SQL requests and commands there are, and what may fail.     *)
(***************************************************************************)
EXTENDS Library, TLC

CONSTANTS e1, e2, e3,                                  \* tasks
          c1, c2, c3, i1, i2, k1, n1, n2, n3, s1, s2,  \* connections
          q1, q2, q3, q4, r1, r2, r3, f1,               \* SQL requests
          w1, w2                                       \* calls on saved tasks

-----------------------------------------------------------------------------
ArtCase(m, ks1, ks2, ks3, faults, moves) ==
    [medium |-> m, kind |-> (e1 :> ks1 @@ e2 :> ks2 @@ e3 :> ks3), faults |-> faults, moves |-> moves]

MCArtCases ==
  { ArtCase("local", "zip", "dir", "none", {"engine", "move"}, {"delete", "dirs"}),
    ArtCase("local", "book", "report", "none", {"place", "remove", "move"}, {"delete", "dirs"}),
    ArtCase("local", "zip", "dir", "import", {}, {"delete"}),
    ArtCase("object", "zip", "book", "none", {"engine", "place"}, {"delete"}),
    ArtCase("object", "dir", "report", "none", {"move", "place"}, {"delete", "dirs"}),
    ArtCase("local", "dir", "report", "migrate", {}, {"dirs"}) }

-----------------------------------------------------------------------------
Conn(n, s, srv, o) == [name |-> n, short |-> s, server |-> srv, only |-> o]
NoKeys == [x \in {} |-> NoConn]
LibCaseOf(mode, stored, mem, provider, requests, keys, ops, alone, faults, shown) ==
    [mode |-> mode, stored |-> stored, inline |-> mem, provider |-> provider, requests |-> requests,
     keys |-> keys, ops |-> ops, alone |-> alone, faults |-> faults, shown |-> shown]
Two == i1 :> Conn(n1, n2, s1, "all") @@ i2 :> Conn(n3, Blank, s2, "one")

MCLibCases ==
  { LibCaseOf("store", Two, NoKeys, NoKeys, {Conn(n3, n2, s1, "all"), Conn(n2, n3, s1, "all")},
              {i1, n2}, {"save", "delete"}, {{"save"}}, {"write"}, {i1}),
    LibCaseOf("store", Two, NoKeys, NoKeys, {Conn(n3, n2, s1, "all")},
              {i1, n2}, {"save", "edit", "delete"}, {{"save"}}, {}, {i1, i2}),
    LibCaseOf("store", Two, NoKeys, NoKeys, {}, {i1, n3}, {"delete"}, {}, {"cascade", "read"}, {i1}),
    LibCaseOf("store", Two, NoKeys, NoKeys, {Conn(n1, n2, s2, "one")},
              {i1, n3}, {"save", "list", "alter"}, {{"save"}, {"list"}}, {"query"}, {}),
    LibCaseOf("memory", NoKeys, Two, (k1 :> Conn(n1, Blank, s1, "all")), {Conn(n3, n2, s1, "all")},
              {n1, k1}, {"save", "delete", "list"}, {{"save", "delete"}}, {}, {}) }

-----------------------------------------------------------------------------
Stmt(d, k) == [do |-> d, key |-> k]
Request(op, user, conn, stmts) == [op |-> op, user |-> user, conn |-> conn, stmts |-> stmts, id |-> f1]
Script(u, c, stmts) == Request("script", u, c, stmts)
Edit(stmts) == Request("edit", "u", "x", stmts)
Short(u, c) == Script(u, c, <<Stmt("select", r1)>>)
Clear(c)    == Request("clear", "u", c, <<>>)
Fav(op, u)  == Request(op, u, "x", <<>>)
SqlCaseOf(there, a, b, c, d, fs, faults) ==
    [rows |-> there, request |-> (q1 :> a @@ q2 :> b @@ q3 :> c @@ q4 :> d), favs |-> fs, faults |-> faults]

MCSqlCases ==
  { SqlCaseOf({r1, r2},
       Script("u", "x", <<Stmt("insert", r3), Stmt("delete", r1), Stmt("select", r1)>>),
       Edit(<<Stmt("delete", r1), Stmt("delete", r3)>>), Edit(<<Stmt("insert", r3)>>), Clear("any"), {}, {"lost"}),
    SqlCaseOf({r1},
       Script("u", "x", <<Stmt("insert", r2), Stmt("forbidden", r1), Stmt("delete", r1)>>),
       Edit(<<Stmt("update", r1)>>), Edit(<<Stmt("delete", r1), Stmt("delete", r2)>>), Clear("y"), {}, {"store"}),
    SqlCaseOf({}, Short("u", "x"), Short("u", "x"), Short("u", "x"), Short("u", "y"), {}, {}),
    SqlCaseOf({}, Short("u", "x"), Short("u", "y"), Short("v", "x"), Clear("any"), {}, {}),
    SqlCaseOf({}, Fav("renameFav", "u"), Fav("deleteFav", "u"), Fav("deleteFav", "v"), Fav("addFav", "u"),
       {[id |-> f1, user |-> "u", title |-> "first"]}, {}) }

-----------------------------------------------------------------------------
(* Commands in which the layers give one option each, in every way; the       *)
(* database also to an inline connection.                                    *)
One(f) == {x \in Layer : /\ f # "conn" => x.conn = "ref" \/ (f = "db" /\ x.conn = "inline")
                         /\ f # "cond" => ~x.cond
                         /\ f # "out"  => x.out = "none"
                         /\ f # "db"   => ~x.db}
ByFile  == UNION {One(f) : f \in {"conn", "cond", "out", "db"}} \cup {NotGiven}
BySaved == UNION {One(f) : f \in {"conn", "cond", "out"}} \cup {NotGiven}
ByFlags == ByFile \cup {[x EXCEPT !.conn = "none"] : x \in ByFile}
ACommand(k, x, y, z) == [kind |-> k, config |-> x, byTask |-> y, flags |-> z, calls |-> {}]
AllCommands == {ACommand(k, x, y, z) : k \in TaskKinds, x \in ByFile, y \in BySaved, z \in ByFlags}

Nameless    == ACommand("export", [NotGiven EXCEPT !.out = "dir"], NotGiven, NotGiven)
TaskCalling == [ACommand("export", NotGiven, NotGiven, NotGiven) EXCEPT !.calls = {"export", "import"}]
MCCmdCases  == AllCommands \cup {Nameless, TaskCalling}
=============================================================================
