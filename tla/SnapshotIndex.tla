--------------------------- MODULE SnapshotIndex ---------------------------
(* The index of the stored snapshots: its rows in the database, the data of   *)
(* each snapshot, and the one-time import of the JSON index an older version  *)
(* wrote.  Several instances of the program may share the database and the    *)
(* store of the data; each keeps a flag that the import is done, and a mutex  *)
(* that lets one of its calls import at a time.  Nothing orders the imports   *)
(* of different instances.                                                    *)
(*                                                                            *)
(* A snapshot is its id: a legacy id, or the number of the call that creates  *)
(* it.  The two places of the data (object store, local directory) are one,   *)
(* and taking the snapshot itself, before its data is saved, is left out.     *)
EXTENDS Naturals, Sequences, SequencesExt, FiniteSets

CONSTANTS
    Legacy,    \* the entries of the JSON index, in order; never written again
    MaxCalls,  \* bound: calls of any scenario
    Scenarios  \* the instances at work, how many calls, the faults they meet

(* "store": an access to the database fails; "data": an access to the data or *)
(* to the JSON index fails; "crash": an instance stops and starts again.      *)
ASSUME SnapshotAssumption ==
    /\ Legacy \in Seq(Range(Legacy)) /\ MaxCalls \in Nat
    /\ Range(Legacy) \cap 1 .. MaxCalls = {}
    /\ \A s \in Scenarios :
          /\ s.instances # {} /\ s.calls \in 0 .. MaxCalls
          /\ s.faults \subseteq {"store", "data", "crash"}

VARIABLES
    scenario,  \* the scenario of this behaviour, never changed
    rows,      \* the index in the database
    data,      \* the snapshots whose data is stored
    marker,    \* meta: snapshot_index_migrated
    migrated,  \* snapIdxMig of each instance
    mutex,     \* snapIdxMu of each instance: the call that holds it, 0 for none
    call       \* the calls

stored == <<rows, data, marker>>
local == <<migrated, mutex>>
vars == <<scenario, stored, local, call>>

Calls == 1 .. MaxCalls
Ids == Range(Legacy) \cup Calls
Instances == UNION {s.instances : s \in Scenarios}
Fails(what) == what \in scenario.faults

Called(pc, op, i, id) ==
    [pc |-> pc, op |-> op, inst |-> i, id |-> id, next |-> 1, indexed |-> FALSE]
Unused == Called("unused", "list", CHOOSE i \in Instances : TRUE, 0)

Init ==
    /\ scenario \in Scenarios
    /\ rows = {}
    /\ data = Range(Legacy)
    /\ marker = FALSE
    /\ migrated = [i \in Instances |-> FALSE]
    /\ mutex = [i \in Instances |-> 0]
    /\ call = [c \in Calls |-> Unused]

-----------------------------------------------------------------------------
(* Who asks for what *)

At(c, pc) == call[c].pc = pc
Does(c, op) == call[c].op = op /\ call[c].pc # "unused"
Ended(c) == call[c].pc \in {"unused", "done", "failed"}
Inst(c) == call[c].inst
Goto(c, pc) == call' = [call EXCEPT ![c].pc = pc]

Begin(c, i, op, id, pc) ==
    /\ At(c, "unused") /\ \A d \in 1 .. c - 1 : ~At(d, "unused")
    /\ i \in scenario.instances /\ c <= scenario.calls
    /\ call' = [call EXCEPT ![c] = Called(pc, op, i, id)]
    /\ UNCHANGED <<scenario, stored, local>>

(* The ids a user can name: those of the old index, and those a creation      *)
(* returned.                                                                  *)
Named == Range(Legacy) \cup {c \in Calls : Does(c, "create") /\ At(c, "done")}

BeginCreate(c, i) == Begin(c, i, "create", c, "save")
BeginList(c, i) == Begin(c, i, "list", 0, "ensure")

BeginDelete(c, i) == \E id \in Named : Begin(c, i, "delete", id, "ensure")

-----------------------------------------------------------------------------
(* ensureSnapshotIndexMigrated: the failure of any step is only logged, and   *)
(* the call goes on with what it was asked for.                               *)

(* The fast path. *)
CheckFlag(c) ==
    /\ At(c, "ensure")
    /\ Goto(c, IF migrated[Inst(c)] THEN "act" ELSE "lock")
    /\ UNCHANGED <<scenario, stored, local>>

Unlocked(c) == mutex' = [mutex EXCEPT ![Inst(c)] = 0]
GiveUp(c) == Unlocked(c) /\ Goto(c, "act") /\ UNCHANGED migrated
Migrated(c) ==
    /\ migrated' = [migrated EXCEPT ![Inst(c)] = TRUE]
    /\ Unlocked(c) /\ Goto(c, "act")

(* The flag again, under the mutex. *)
Lock(c) ==
    /\ At(c, "lock")
    /\ mutex[Inst(c)] = 0
    /\ \/ migrated[Inst(c)] /\ Goto(c, "act") /\ UNCHANGED mutex
       \/ /\ ~migrated[Inst(c)]
          /\ mutex' = [mutex EXCEPT ![Inst(c)] = c]
          /\ Goto(c, "marker")
    /\ UNCHANGED <<scenario, stored, migrated>>

ReadMarker(c) ==
    /\ At(c, "marker")
    /\ \/ marker /\ Migrated(c)
       \/ ~marker /\ Goto(c, "legacy") /\ UNCHANGED local
       \/ Fails("store") /\ GiveUp(c)
    /\ UNCHANGED <<scenario, stored>>

(* loadSnapshotIndex: only an index that does not exist is an empty one. *)
ReadLegacy(c) ==
    /\ At(c, "legacy")
    /\ \/ Goto(c, "import") /\ UNCHANGED local
       \/ Fails("data") /\ GiveUp(c)
    /\ UNCHANGED <<scenario, stored>>

\* Slip: The index becomes what the old one holds.
ImportWhole(c) ==
    /\ At(c, "import")
    /\ rows' = Range(Legacy)
    /\ Goto(c, "mark")
    /\ UNCHANGED <<scenario, data, marker, local>>

Import(c) ==
    /\ At(c, "import")
    /\ LET n == call[c].next
       IN  \/ /\ n > Len(Legacy)
              /\ Goto(c, "mark")
              /\ UNCHANGED <<rows, local>>
           \/ /\ n <= Len(Legacy)
              /\ rows' = rows \cup {Legacy[n]}
              /\ call' = [call EXCEPT ![c].next = n + 1]
              /\ UNCHANGED local
           \/ /\ n <= Len(Legacy)
              /\ Fails("store") /\ GiveUp(c)
              /\ UNCHANGED rows
    /\ UNCHANGED <<scenario, data, marker>>

Mark(c) ==
    /\ At(c, "mark")
    /\ \/ marker' = TRUE /\ Migrated(c)
       \/ Fails("store") /\ GiveUp(c) /\ UNCHANGED marker
    /\ UNCHANGED <<scenario, rows, data>>

-----------------------------------------------------------------------------
(* CreateSnapshot *)

SaveData(c) ==
    /\ At(c, "save")
    /\ \/ data' = data \cup {call[c].id} /\ Goto(c, "ensure")
       \/ Fails("data") /\ Goto(c, "failed") /\ UNCHANGED data
    /\ UNCHANGED <<scenario, rows, marker, local>>

(* A row that cannot be written does not fail the creation. *)
AddRow(c) ==
    /\ Does(c, "create") /\ At(c, "act")
    /\ \/ /\ rows' = rows \cup {call[c].id}
          /\ call' = [call EXCEPT ![c].pc = "done", ![c].indexed = TRUE]
       \/ Fails("store") /\ Goto(c, "done") /\ UNCHANGED rows
    /\ UNCHANGED <<scenario, data, marker, local>>

(* ListSnapshots: a list that cannot be read is an empty one. *)
ListRows(c) ==
    /\ Does(c, "list") /\ At(c, "act")
    /\ Goto(c, "done")
    /\ UNCHANGED <<scenario, stored, local>>

(* DeleteSnapshot: the row, then the data. *)
DeleteRow(c) ==
    /\ Does(c, "delete") /\ At(c, "act")
    /\ \/ rows' = rows \ {call[c].id} /\ Goto(c, "data")
       \/ Fails("store") /\ Goto(c, "failed") /\ UNCHANGED rows
    /\ UNCHANGED <<scenario, data, marker, local>>

RemoveData(c) ==
    /\ At(c, "data")
    /\ \/ data' = data \ {call[c].id} /\ Goto(c, "done")
       \/ Fails("data") /\ Goto(c, "failed") /\ UNCHANGED data
    /\ UNCHANGED <<scenario, rows, marker, local>>

-----------------------------------------------------------------------------
(* An instance stops, between any two accesses, and starts again. *)
Restart(i) ==
    /\ Fails("crash")
    /\ i \in scenario.instances
    /\ migrated' = [migrated EXCEPT ![i] = FALSE]
    /\ mutex' = [mutex EXCEPT ![i] = 0]
    /\ call' = [c \in Calls |-> IF Inst(c) = i /\ ~Ended(c)
                                THEN [call[c] EXCEPT !.pc = "failed"] ELSE call[c]]
    /\ UNCHANGED <<scenario, stored>>

CallStep(c) ==
    \/ SaveData(c)
    \/ CheckFlag(c) \/ Lock(c) \/ ReadMarker(c) \/ ReadLegacy(c) \/ Import(c) \/ Mark(c)
    \/ AddRow(c) \/ ListRows(c) \/ DeleteRow(c) \/ RemoveData(c)

Next ==
    \/ \E c \in Calls, i \in Instances :
          BeginCreate(c, i) \/ BeginList(c, i) \/ BeginDelete(c, i)
    \/ \E c \in Calls : CallStep(c)
    \/ \E i \in Instances : Restart(i)

Spec == Init /\ [][Next]_vars

-----------------------------------------------------------------------------
PCs == {"unused", "save", "ensure", "lock", "marker", "legacy", "import", "mark", "act",
        "data", "done", "failed"}
Call == [pc : PCs, op : {"create", "list", "delete"}, inst : Instances, id : Ids \cup {0},
         next : 1 .. Len(Legacy) + 1, indexed : BOOLEAN]

Importing == {"marker", "legacy", "import", "mark"}

(* The values of the variables. *)
TypeOK ==
    /\ rows \subseteq Ids /\ data \subseteq Ids /\ marker \in BOOLEAN
    /\ migrated \in [Instances -> BOOLEAN]
    /\ mutex \in [Instances -> Calls \cup {0}]
    /\ call \in [Calls -> Call]

(* snapIdxMu: one call of an instance imports at a time, and none keeps the   *)
(* mutex over a failed step, a finished import or the stop of its instance:   *)
(* the next call would wait for it for ever.                                  *)
MutexHeldByImporter ==
    \A i \in Instances, c \in Calls :
        mutex[i] = c <=> Inst(c) = i /\ call[c].pc \in Importing

DeletionAsked(id) == \E c \in Calls : Does(c, "delete") /\ call[c].id = id

(* "失败不固化", "单条 upsert 失败即中止不置标记" (snapshot.go:110-113): where *)
(* the import counts as done, by the flag of an instance or by the marker all *)
(* instances read, no entry of the old index is missing unless somebody asked *)
(* to delete it.                                                              *)
MigrationComplete ==
    /\ \A i \in Instances : migrated[i] => marker
    /\ marker => \A id \in Range(Legacy) : id \in rows \/ DeletionAsked(id)

(* "迁移期间并发新建、仅存在于 DB 的快照不会被覆盖/清除" (snapshot.go:111-112):*)
(* a snapshot a creation has returned keeps its data, and its row once it is  *)
(* written, whatever is imported meanwhile, until somebody asks to delete it. *)
CreatedIsKept ==
    \A c \in Calls : Does(c, "create") /\ At(c, "done") /\ ~DeletionAsked(c) =>
        c \in data /\ (call[c].indexed => c \in rows)

(* DeleteSnapshot: a new snapshot whose deletion succeeded is gone, row and   *)
(* data, and no creation or import brings it back.                            *)
DeletedIsGone ==
    \A c \in Calls : Does(c, "delete") /\ At(c, "done") /\ call[c].id \in Calls =>
        call[c].id \notin rows \cup data

(* "先触发存量迁移 …" (snapshot.go:198-199): a listed snapshot can be opened.  *)
(* For the entries of the old index that takes an import nothing fails in and *)
(* no other instance repeats: one that is imported again after its deletion   *)
(* is listed without data.                                                    *)
Alone == (\E i \in Instances : scenario.instances = {i}) /\ ~Fails("store") /\ ~Fails("data")
ListedHasData == rows \subseteq data \cup (IF Alone THEN {} ELSE Range(Legacy))

(* The index and the data, through imports, restarts and failures: nothing    *)
(* counted as imported is missing, what was created stays, what was deleted   *)
(* is gone, what is listed opens, and no call keeps the mutex.                *)
IndexSound ==
    /\ MutexHeldByImporter /\ MigrationComplete
    /\ CreatedIsKept /\ DeletedIsGone /\ ListedHasData
=============================================================================
