---------------------------- MODULE ConnLibrary ----------------------------
(***************************************************************************)
(* The connection library and the metadata cache: adding, editing and      *)
(* deleting connections, the chats and tabs that hang on a connection, and *)
(* the object tree's cached lists (internal/service/service.go,            *)
(* library.go, internal/store/sqlite.go, internal/engine/meta.go).         *)
(*                                                                         *)
(* Every access of the store is a step of its own: nothing is locked over  *)
(* two of them.  The cache (cydist, outside the repository) looks a key up, *)
(* runs the query on a miss and stores what it returned; errors are not    *)
(* stored.  Each caller makes one call, and a new connection's ID is that  *)
(* of the call (xid).  Validation of names and types refuses a request      *)
(* before anything is read and is left out.                                *)
(***************************************************************************)
EXTENDS Naturals, FiniteSets

CONSTANTS
    LibCallers,   \* the calls of this instance
    SavedIds,     \* IDs of connections that are there from the start
    LibNames,     \* names and short names
    Blank,        \* no short name
    Servers,      \* database servers: type, host, port and user
    MaxSchema,    \* bound: changes of a server's databases
    LibCases      \* the behaviours of this instance, see libCase

ASSUME LibAssumption == MaxSchema \in Nat /\ SavedIds \cap LibCallers = {}
ASSUME LibKeysApart  == (SavedIds \cup LibCallers) \cap (LibNames \cup {Blank}) = {} /\ Blank \notin LibNames

VARIABLES
    libCase,     \* mode, first connections, requests, faults, overlap
    conns,       \* the connections of the store, by ID
    inline,      \* the memory registry, by ID
    attached,    \* chats and tabs, by the ID of their connection
    schema,      \* version of the databases each server has
    metaCached,  \* the cached list of databases of each server
    libCalls     \* the calls

libVars == <<libCase, conns, inline, attached, schema, metaCached, libCalls>>

-----------------------------------------------------------------------------
LibIds  == SavedIds \cup LibCallers
NoConn  == [name |-> Blank, short |-> Blank, server |-> "none", only |-> "none"]
NoList  == [server |-> "none", only |-> "none", seen |-> 0]
Records == [name : LibNames, short : LibNames \cup {Blank}, server : Servers, only : {"all", "one"}]
Lists   == [server : Servers, only : {"all", "one"}, seen : 0..MaxSchema]
Kinds   == {"chat", "tabs"}

ASSUME LibCasesAssumption ==
    \A k \in LibCases :
      /\ DOMAIN k.stored \subseteq SavedIds /\ DOMAIN k.inline \subseteq SavedIds
      /\ k.requests \subseteq Records
      /\ \A f \in {k.stored, k.inline, k.provider} : \A i \in DOMAIN f : f[i] \in Records

Stored       == libCase.mode = "store"       \* else StoreNone: persist = nil
LibFault(f)  == f \in libCase.faults
Alone(op)    == \A ops \in libCase.alone : op \in ops =>
                  \A c \in LibCallers : libCalls[c].op \in ops => libCalls[c].step \in {"new", "done"}
NeverOverlap(op) == \E ops \in libCase.alone : op \in ops

Ids(lib) == {i \in LibIds : lib[i] # NoConn}
Empty    == [i \in LibIds |-> NoConn]

(* LoadConns returns an empty map when the read fails.                      *)
LoadConns == {conns} \cup (IF LibFault("read") THEN {Empty} ELSE {})

(* GetConn: by ID, then by name, then by short name.                        *)
GetConn(lib, key) ==
    IF key \in Ids(lib) THEN {key}
    ELSE LET named == {i \in Ids(lib) : lib[i].name = key}
         IN  IF named # {} THEN named ELSE {i \in Ids(lib) : lib[i].short = key}

(* DeleteConn, memGet, memDelete: by ID, else any with that name or short   *)
(* name, in the order of a map.                                            *)
AnyConn(lib, key) ==
    IF key \in Ids(lib) THEN {key}
    ELSE {i \in Ids(lib) : lib[i].name = key \/ lib[i].short = key}

(* resolveConn: the memory registry, the host's provider, the store.        *)
Resolved(lib, key) ==
    IF AnyConn(inline, key) # {} THEN {inline[i] : i \in AnyConn(inline, key)}
    ELSE IF key \in DOMAIN libCase.provider THEN {libCase.provider[key]}
    ELSE IF Stored THEN {lib[i] : i \in GetConn(lib, key)}
    ELSE {}

(* GetDatabaseList: the configured database alone, or what the server has.  *)
DatabaseList(r) == [server |-> r.server, only |-> r.only, seen |-> schema[r.server]]

NoCall == [op |-> "none", step |-> "new", id |-> Blank, rec |-> NoConn, row |-> Blank,
           force |-> FALSE, since |-> 0, list |-> NoList, result |-> "none"]

LibInit ==
    /\ libCase \in LibCases
    /\ conns  = [i \in LibIds |-> IF i \in DOMAIN libCase.stored THEN libCase.stored[i] ELSE NoConn]
    /\ inline = [i \in LibIds |-> IF i \in DOMAIN libCase.inline THEN libCase.inline[i] ELSE NoConn]
    /\ attached = {}
    /\ schema = [s \in Servers |-> 0]
    /\ metaCached = [s \in Servers |-> NoList]
    /\ libCalls = [c \in LibCallers |-> NoCall]

-----------------------------------------------------------------------------
Go(c, call)        == libCalls' = [libCalls EXCEPT ![c] = call]
ToStep(c, step)    == Go(c, [libCalls[c] EXCEPT !.step = step])
Finish(c, result)  == Go(c, [libCalls[c] EXCEPT !.step = "done", !.result = result])
AtStep(c, op, step) == libCalls[c].op = op /\ libCalls[c].step = step
Starts(c, op)      == libCalls[c].step = "new" /\ op \in libCase.ops /\ Alone(op)

ResetAll     == metaCached' = [s \in Servers |-> NoList]    \* invalidateMetaCache

(* AddConnection.  The short name is compared with those of all other       *)
(* connections, which are read here; the row is written later.             *)
Taken(lib, id, short) ==
    short # Blank /\ \E i \in Ids(lib) \cup Ids(inline) :
        i # id /\ short \in {lib[i].short, inline[i].short}

CheckSave(c) ==
    /\ Starts(c, "save")
    /\ \E id \in {c} \cup (IF "edit" \in libCase.ops THEN SavedIds ELSE {}), r \in libCase.requests, lib \in LoadConns :
         Go(c, [NoCall EXCEPT !.op = "save", !.id = id, !.rec = r,
                  !.step = IF Taken(lib, id, r.short) THEN "done" ELSE "write",
                  !.result = IF Taken(lib, id, r.short) THEN "refused" ELSE "none"])
    /\ UNCHANGED <<libCase, conns, inline, attached, schema, metaCached>>

SaveConn(c) ==
    /\ AtStep(c, "save", "write")
    /\ LET call == libCalls[c]
       IN  IF Stored
           THEN /\ \/ conns' = [conns EXCEPT ![call.id] = call.rec] /\ ToStep(c, "reset")
                   \/ LibFault("write") /\ UNCHANGED conns /\ Finish(c, "error")
                /\ UNCHANGED inline
           ELSE /\ inline' = [inline EXCEPT ![call.id] = call.rec] /\ ToStep(c, "reset")
                /\ UNCHANGED conns
    /\ UNCHANGED <<libCase, attached, schema, metaCached>>

(* invalidateMetaCache, the last step of a saving and of a deletion.         *)
Invalidate(c) ==
    /\ libCalls[c].op \in {"save", "delete"} /\ libCalls[c].step = "reset"
    /\ ResetAll
    /\ Finish(c, "ok")
    /\ UNCHANGED <<libCase, conns, inline, attached, schema>>

-----------------------------------------------------------------------------
(* DeleteConnection.  The ID whose chats and tabs will go is looked up       *)
(* first (call.id); DeleteConn looks the row up again (call.row), and finds  *)
(* nothing to delete when the read fails.                                  *)
FindConn(c) ==
    /\ Starts(c, "delete") /\ Stored
    /\ \E key \in libCase.keys, lib \in LoadConns :
         \E id \in IF GetConn(lib, key) # {} THEN GetConn(lib, key) ELSE {key} :
           Go(c, [NoCall EXCEPT !.op = "delete", !.step = "pick", !.id = id, !.row = key])
    /\ UNCHANGED <<libCase, conns, inline, attached, schema, metaCached>>

PickRow(c) ==
    /\ AtStep(c, "delete", "pick")
    /\ \E lib \in LoadConns :
         LET found == AnyConn(lib, libCalls[c].row)
         IN  IF found = {} THEN Go(c, [libCalls[c] EXCEPT !.step = "chats", !.row = Blank])
             ELSE \E i \in found : Go(c, [libCalls[c] EXCEPT !.step = "remove", !.row = i])
    /\ UNCHANGED <<libCase, conns, inline, attached, schema, metaCached>>

(* Slip: the cascade goes on although the row could not be deleted.         *)
RemoveRowLenient(c) ==
    /\ AtStep(c, "delete", "remove")
    /\ \/ conns' = [conns EXCEPT ![libCalls[c].row] = NoConn]
       \/ LibFault("write") /\ UNCHANGED conns
    /\ ToStep(c, "chats")
    /\ UNCHANGED <<libCase, inline, attached, schema, metaCached>>

RemoveRow(c) ==
    /\ AtStep(c, "delete", "remove")
    /\ \/ conns' = [conns EXCEPT ![libCalls[c].row] = NoConn] /\ ToStep(c, "chats")
       \/ LibFault("write") /\ UNCHANGED conns /\ Finish(c, "error")
    /\ UNCHANGED <<libCase, inline, attached, schema, metaCached>>

(* DeleteAllUsersAISessionsByConn, DeleteAllUsersWorkspacesByConn: their     *)
(* errors are dropped.                                                     *)
OfKind(id, k) == {x \in attached : x.conn = id /\ x.kind = k}

(* Slip: the chats only.                                                    *)
CascadeChats(c) ==
    /\ \E k \in Kinds :
         /\ AtStep(c, "delete", IF k = "chat" THEN "chats" ELSE "tabs")
         /\ attached' = attached \ OfKind(libCalls[c].id, "chat")
         /\ ToStep(c, IF k = "chat" THEN "tabs" ELSE "reset")
    /\ UNCHANGED <<libCase, conns, inline, schema, metaCached>>

Cascade(c) ==
    /\ \E k \in Kinds :
         /\ AtStep(c, "delete", IF k = "chat" THEN "chats" ELSE "tabs")
         /\ \/ attached' = attached \ OfKind(libCalls[c].id, k)
            \/ LibFault("cascade") /\ UNCHANGED attached
         /\ ToStep(c, IF k = "chat" THEN "tabs" ELSE "reset")
    /\ UNCHANGED <<libCase, conns, inline, schema, metaCached>>

(* Without a store the memory registry alone is searched.                   *)
MemDelete(c) ==
    /\ Starts(c, "delete") /\ ~Stored
    /\ \E key \in libCase.keys :
         IF AnyConn(inline, key) = {}
         THEN /\ Go(c, [NoCall EXCEPT !.op = "delete", !.step = "done", !.result = "error"])
              /\ UNCHANGED inline
         ELSE \E i \in AnyConn(inline, key) :
                /\ inline' = [inline EXCEPT ![i] = NoConn]
                /\ Go(c, [NoCall EXCEPT !.op = "delete", !.step = "reset", !.row = i])
    /\ UNCHANGED <<libCase, conns, attached, schema, metaCached>>

-----------------------------------------------------------------------------
(* GetDatabaseList with its cache; GetDbSchemas, GetSchemaObjects and         *)
(* GetDbObjects go the same way.  The cache's key has the server but not the  *)
(* configured database (metaConnKey).                                       *)
ResolveConn(c) ==
    /\ Starts(c, "list")
    /\ \E key \in libCase.keys, force \in BOOLEAN, lib \in LoadConns :
         IF Resolved(lib, key) = {}
         THEN Go(c, [NoCall EXCEPT !.op = "list", !.step = "done", !.result = "error"])
         ELSE \E r \in Resolved(lib, key) :
                Go(c, [NoCall EXCEPT !.op = "list", !.rec = r, !.force = force,
                         !.since = schema[r.server], !.step = IF force THEN "forget" ELSE "lookup"])
    /\ UNCHANGED <<libCase, conns, inline, attached, schema, metaCached>>

Forget(c) ==
    /\ AtStep(c, "list", "forget")
    /\ metaCached' = [metaCached EXCEPT ![libCalls[c].rec.server] = NoList]
    /\ ToStep(c, "lookup")
    /\ UNCHANGED <<libCase, conns, inline, attached, schema>>

Lookup(c) ==
    /\ AtStep(c, "list", "lookup")
    /\ LET hit == metaCached[libCalls[c].rec.server]
       IN  IF hit = NoList THEN ToStep(c, "query")
           ELSE Go(c, [libCalls[c] EXCEPT !.list = hit, !.step = "done", !.result = "ok"])
    /\ UNCHANGED <<libCase, conns, inline, attached, schema, metaCached>>

Query(c) ==
    /\ AtStep(c, "list", "query")
    /\ \/ Go(c, [libCalls[c] EXCEPT !.list = DatabaseList(libCalls[c].rec), !.step = "fill"])
       \/ LibFault("query") /\ Finish(c, "error")
    /\ UNCHANGED <<libCase, conns, inline, attached, schema, metaCached>>

(* Slip: the list goes to the entry of any server.                          *)
FillAny(c) ==
    /\ AtStep(c, "list", "fill")
    /\ metaCached' = [s \in Servers |-> libCalls[c].list]
    /\ Finish(c, "ok")
    /\ UNCHANGED <<libCase, conns, inline, attached, schema>>

Fill(c) ==
    /\ AtStep(c, "list", "fill")
    /\ metaCached' = [metaCached EXCEPT ![libCalls[c].rec.server] = libCalls[c].list]
    /\ Finish(c, "ok")
    /\ UNCHANGED <<libCase, conns, inline, attached, schema>>

-----------------------------------------------------------------------------
(* A browser stores its tabs, or a chat, for a connection it shows           *)
(* (SaveWorkspace, SaveAISession): the connection is not looked up.         *)
Attach(id, k) ==
    /\ id \in Ids(conns)
    /\ id \in libCase.shown
    /\ attached' = attached \cup {[conn |-> id, kind |-> k]}
    /\ UNCHANGED <<libCase, conns, inline, schema, metaCached, libCalls>>

(* The databases of a server change; ten minutes pass.                      *)
Alter(s) ==
    /\ "alter" \in libCase.ops /\ schema[s] < MaxSchema
    /\ schema' = [schema EXCEPT ![s] = @ + 1]
    /\ UNCHANGED <<libCase, conns, inline, attached, metaCached, libCalls>>

Expire(s) ==
    /\ metaCached[s] # NoList
    /\ metaCached' = [metaCached EXCEPT ![s] = NoList]
    /\ UNCHANGED <<libCase, conns, inline, attached, schema, libCalls>>

LibNext ==
    \/ \E c \in LibCallers :
         \/ CheckSave(c) \/ SaveConn(c) \/ Invalidate(c)
         \/ FindConn(c) \/ PickRow(c) \/ RemoveRow(c) \/ Cascade(c) \/ MemDelete(c)
         \/ ResolveConn(c) \/ Forget(c) \/ Lookup(c) \/ Query(c) \/ Fill(c)
    \/ \E id \in LibIds, k \in Kinds : Attach(id, k)
    \/ \E s \in Servers : Alter(s) \/ Expire(s)

LibSpec == LibInit /\ [][LibNext]_libVars

-----------------------------------------------------------------------------
(* The variables have their types.                                          *)
LibTypeOK ==
    /\ libCase \in LibCases
    /\ conns \in [LibIds -> Records \cup {NoConn}]
    /\ inline \in [LibIds -> Records \cup {NoConn}]
    /\ attached \subseteq [conn : LibIds, kind : Kinds]
    /\ schema \in [Servers -> 0..MaxSchema]
    /\ metaCached \in [Servers -> Lists \cup {NoList}]
    /\ \A c \in LibCallers : libCalls[c].list \in Lists \cup {NoList}

(* The two lookups of a deletion may disagree: one fails to read, or the key   *)
(* is a name, which several connections may have or get meanwhile.           *)
Strays == LibFault("read") \/ ~(libCase.keys \subseteq LibIds)

(* An edit of the connection has been stored.                                *)
StoredBy(call, i) == /\ call.op = "save" /\ call.id = i
                     /\ call.step = "reset" \/ (call.step = "done" /\ call.result = "ok")
StoredAgain(i)    == \E c \in LibCallers : StoredBy(libCalls[c], i)

MayGo(x) ==
    \/ conns[x.conn] = NoConn
    \/ StoredAgain(x.conn)
    \/ Strays /\ \E c \in LibCallers :
         /\ libCalls[c].op = "delete" /\ libCalls[c].step \in {"chats", "tabs"}
         /\ libCalls[c].id = x.conn /\ libCalls[c].row # x.conn

(* What hangs on a connection goes with it and not without it: a chat or     *)
(* tab disappears only when the row of its connection has, whatever fails     *)
(* and however the calls overlap; but for a deletion whose second lookup did   *)
(* not find the row the first one named (it removed another row or none,      *)
(* DeleteConnection), and for a connection stored again by an edit.          *)
KeptWithConnection == [][\A x \in attached \ attached' : MayGo(x)]_libVars

(* When all calls are over no chat or tab is left without its connection,     *)
(* unless an access of the cascade failed or the deletion that removed the    *)
(* row had found another one first.                                          *)
NothingOrphaned ==
    (~LibFault("cascade") /\ \A c \in LibCallers : libCalls[c].step \in {"new", "done"}) =>
      \A x \in attached :
        \/ conns[x.conn] # NoConn
        \/ Strays /\ \E c \in LibCallers : libCalls[c].op = "delete" /\ libCalls[c].row = x.conn /\ libCalls[c].id # x.conn

(* Two connections never share a short name, wherever they are kept, as      *)
(* long as savings do not overlap and the check can read the others           *)
(* (AddConnection's check).                                                  *)
ShortsUnique ==
    NeverOverlap("save") /\ ~LibFault("read") =>
      \A i, j \in LibIds : \A a \in {conns[i], inline[i]}, b \in {conns[j], inline[j]} :
        (i # j /\ a # NoConn /\ b # NoConn /\ a.short # Blank) => a.short # b.short

(* A forced refresh answers with the databases the server had when the call  *)
(* began, or later ones, if no other list was being fetched.                *)
RefreshIsFresh ==
    NeverOverlap("list") =>
      \A c \in LibCallers : LET call == libCalls[c]
        IN  call.op = "list" /\ call.force /\ call.result = "ok" => call.list.seen >= call.since

(* A list answers for the connection it was asked of: its server, and the    *)
(* database it is configured for.                                          *)
AnswerIsOwn ==
    \A c \in LibCallers : LET call == libCalls[c]
      IN  call.op = "list" /\ call.result = "ok" =>
            call.list.server = call.rec.server /\ call.list.only = call.rec.only

(* The metadata cache: an answer is the asker's own, and fresh when forced.  *)
CacheFaithful == RefreshIsFresh /\ AnswerIsOwn

(* The library stays in order under overlapping calls (AddConnection,       *)
(* DeleteConnection): nothing hangs on a connection that is gone, and a     *)
(* short name leads to one connection.                                     *)
LibraryOrdered == NothingOrphaned /\ ShortsUnique
=============================================================================
