---------------------------- MODULE TaskCommands ----------------------------
(***************************************************************************)
(* Saved task configurations and the commands that run tasks               *)
(* (internal/cli/export.go, dictionary.go, import.go, migrate.go,          *)
(* compare.go, task.go, config.go; internal/service/service.go: SaveTask    *)
(* to RunTaskByID; internal/store/sqlite.go: the task table;               *)
(* internal/web/handler.go).                                               *)
(*                                                                         *)
(* A command is given its options by up to three layers: a configuration    *)
(* file, a saved task, flags.  Options are modelled by the layer they come  *)
(* from: the value of an option is the name of the layer that set it.       *)
(* Source and target of a migration or a comparison are treated alike, and  *)
(* one of them is shown.  The web interface saves, runs and deletes         *)
(* configurations; each access to the table is a step of its own.           *)
(***************************************************************************)
EXTENDS Naturals, Sequences, FiniteSets

CONSTANTS
    TaskIds,    \* IDs of configurations
    TaskCalls,  \* calls of the web interface
    MaxEdits,   \* saves and runs before the calls stop
    CmdCases    \* commands and calls of this instance

ASSUME TaskAssumption == MaxEdits \in Nat

VARIABLES
    cmdCase,    \* the command and its layers, or the kinds of task called for
    cmdStep,    \* where the command is
    opts,       \* its options
    wantZip,    \* the file the result is renamed to
    task,       \* the task row of each ID, or NoTask
    edits,      \* UpdatedAt of the newest row
    taskCalls,  \* the calls in progress
    newest,     \* of each kind: the configuration saved or run last
    clash       \* of the calls in progress some met on the rows of a kind

cmdVars  == <<cmdStep, opts, wantZip>>
callVars == <<task, edits, taskCalls, newest, clash>>
taskVars == <<cmdCase, cmdVars, callVars>>

-----------------------------------------------------------------------------
TaskKinds  == {"export", "dictionary", "import", "migrate", "compare"}
NoTask     == [kind |-> "none"]
NoNewest   == "nobody"
Layers     == {"none", "config", "task", "flag"}
NotGiven   == [conn |-> "none", cond |-> FALSE, out |-> "none", db |-> FALSE]

(* Defaults: everything empty.                                              *)
Options ==
    [inline : Layers, ref : Layers, conditions : Seq({"config", "task", "flag"}),
     outputDir : Layers, dbName : {"own"} \cup Layers]
Defaults ==
    [inline |-> "none", ref |-> "none", conditions |-> <<>>,
     outputDir |-> "none", dbName |-> "own"]

kindOf  == cmdCase.kind
config  == cmdCase.config
flags   == cmdCase.flags
ByTask  == cmdCase.byTask
Exports == {"export", "dictionary"}     \* the kinds with an output path
Pairs   == {"migrate", "compare"}       \* the kinds with a database override

(* export/import/migrate/compare/dictionaryOptsFromConfig and, for a saved  *)
(* task, its stored options: what a layer that replaces all options says.   *)
(* source_database of the file goes into an inline connection at once.      *)
OptsFrom(layer, name) ==
    [inline     |-> IF layer.conn = "inline" THEN name ELSE "none",
     ref        |-> IF layer.conn = "ref" THEN name ELSE "none",
     conditions |-> IF layer.cond /\ kindOf \in {"export", "migrate"} THEN <<name>> ELSE <<>>,
     outputDir  |-> IF layer.out # "none" /\ kindOf \in Exports THEN name ELSE "none",
     dbName     |-> IF layer.conn = "inline" /\ layer.db /\ kindOf \in Pairs THEN name ELSE "own"]

TaskInit ==
    /\ cmdCase \in CmdCases
    /\ cmdStep = IF cmdCase.calls = {} THEN "start" ELSE "absent"
    /\ opts = Defaults
    /\ wantZip = "none"
    /\ task = [i \in TaskIds |-> NoTask]
    /\ edits = 0
    /\ taskCalls = [c \in TaskCalls |-> [op |-> "idle"]]
    /\ newest = [k \in TaskKinds |-> NoNewest]
    /\ clash = FALSE

-----------------------------------------------------------------------------
(* The command.  cliExport, cliDictionary, cliImport, cliMigrate,           *)
(* cliCompare with buildCompareOpts: the file, then the task, then the      *)
(* flags, then the database override, then the service.                     *)

Step(from, to) ==
    /\ cmdStep = from /\ cmdStep' = to
    /\ UNCHANGED <<cmdCase, callVars>>

(* Without a file the defaults stay.  A file that names no connection is    *)
(* refused, except by a comparison.                                         *)
ReadConfig ==
    \/ /\ config = NotGiven
       /\ Step("start", "task") /\ UNCHANGED <<opts, wantZip>>
    \/ /\ config # NotGiven /\ (config.conn # "none" \/ kindOf = "compare")
       /\ Step("start", "task")
       /\ opts' = OptsFrom(config, "config")
       /\ wantZip' = IF config.out = "zip" /\ kindOf \in Exports THEN "config" ELSE "none"
    \/ /\ config # NotGiven /\ config.conn = "none" /\ kindOf # "compare"
       /\ Step("start", "failed") /\ UNCHANGED <<opts, wantZip>>

(* Slip: the options of the file stay where the task has none.              *)
ReadTaskOver ==
    /\ ByTask # NotGiven /\ kindOf # "compare"
    /\ Step("task", "flags")
    /\ opts' = [OptsFrom(ByTask, "task") EXCEPT !.outputDir = IF @ = "none" THEN opts.outputDir ELSE @]
    /\ UNCHANGED wantZip

(* --task: the stored options replace those of the file altogether; the     *)
(* file name kept for the result stays.  For a comparison the ID only       *)
(* marks its record.                                                        *)
ReadTask ==
    /\ ByTask # NotGiven /\ kindOf # "compare"
    /\ Step("task", "flags")
    /\ opts' = OptsFrom(ByTask, "task")
    /\ UNCHANGED wantZip

SkipTask ==
    /\ ByTask = NotGiven \/ kindOf = "compare"
    /\ Step("task", "flags") /\ UNCHANGED <<opts, wantZip>>

(* GetTask finds nothing, or a task of another kind.                         *)
TaskUnusable ==
    /\ ByTask # NotGiven /\ kindOf # "compare"
    /\ Step("task", "failed") /\ UNCHANGED <<opts, wantZip>>

(* A named connection and an inline one are different options; conditions   *)
(* are appended.  The database of the flags is part of their inline         *)
(* connection.                                                              *)
Flagged(o, conditions, output) ==
    [o EXCEPT
     !.ref        = IF flags.conn = "ref" THEN "flag" ELSE @,
     !.inline     = IF flags.conn = "inline" THEN "flag" ELSE @,
     !.dbName     = IF flags.conn = "inline" THEN (IF flags.db THEN "flag" ELSE "own") ELSE @,
     !.conditions = IF flags.cond /\ conditions THEN Append(@, "flag") ELSE @,
     !.outputDir  = IF flags.out # "none" /\ output THEN "flag" ELSE @]

ApplyFlags(conditions, output) ==
    LET given == Flagged(opts, conditions, output)
        named == given.inline # "none" \/ given.ref # "none"
    IN  /\ Step("flags", IF named THEN "override" ELSE "failed")
        /\ opts' = given
        /\ wantZip' = IF flags.out # "none" /\ output
                      THEN (IF flags.out = "zip" THEN "flag" ELSE "none")
                      ELSE wantZip

(* Which flags each command has.                                            *)
cliExport     == kindOf = "export"     /\ ApplyFlags(TRUE, TRUE)
cliDictionary == kindOf = "dictionary" /\ ApplyFlags(FALSE, TRUE)
cliImport     == kindOf = "import"     /\ ApplyFlags(FALSE, FALSE)
cliMigrate    == kindOf = "migrate"    /\ ApplyFlags(TRUE, FALSE)
cliCompare    == kindOf = "compare"    /\ ApplyFlags(FALSE, FALSE)

(* overrideConnDB: a named connection becomes an inline one with that       *)
(* database.  The flag goes before the file; an import knows the flag only. *)
OverrideBy ==
    IF flags.db /\ kindOf \in Pairs \cup {"import"} THEN "flag"
    ELSE IF config.db /\ kindOf \in Pairs THEN "config"
    ELSE "none"

OverrideDatabase ==
    /\ OverrideBy # "none" /\ opts.ref # "none" /\ opts.inline = "none"
    /\ \/ /\ Step("override", "run")
          /\ opts' = [opts EXCEPT !.inline = opts.ref, !.ref = "none", !.dbName = OverrideBy]
       \/ /\ Step("override", "failed")     \* no connection of that name
          /\ UNCHANGED opts
    /\ UNCHANGED wantZip

NoOverride ==
    /\ ~(OverrideBy # "none" /\ opts.ref # "none" /\ opts.inline = "none")
    /\ Step("override", "run") /\ UNCHANGED <<opts, wantZip>>

(* resolveConn prefers the inline connection; the run succeeds or fails,     *)
(* and the exit status says which.  A wanted file gets the result.           *)
Run ==
    /\ \/ Step("run", "done")
       \/ Step("run", "failed")
    /\ UNCHANGED <<opts, wantZip>>

-----------------------------------------------------------------------------
(* The calls.  SaveTask replaces the row, then MarkLastUsed loads all rows   *)
(* and saves those of the kind again, one by one, newest first.  Nothing is   *)
(* locked over the accesses: a call that begins, or a deletion, while another *)
(* is at work on rows of the same kind may lose its edit, be undone by a row  *)
(* written back, or leave no mark or two; clash notes that they met, until   *)
(* all the calls in progress are over.                                      *)

TaskRows       == {i \in TaskIds : task[i] # NoTask}
TasksOf(k)  == {i \in TaskRows : task[i].kind = k}
CallKind(c) == taskCalls[c].kind
InProgress(k) == \E c \in TaskCalls : taskCalls[c].op # "idle" /\ k = CallKind(c)
OldKind(i)  == IF task[i] # NoTask THEN {task[i].kind} ELSE {}
Nobody      == [k \in TaskKinds |-> NoNewest]

(* With a clash nothing is known of the marks.                               *)
Noted(meets, known) ==
    /\ clash' = (clash \/ meets)
    /\ newest' = IF clash' THEN Nobody ELSE known
EndCall(c) ==
    /\ taskCalls' = [taskCalls EXCEPT ![c] = [op |-> "idle"]]
    /\ clash' = (clash /\ \E d \in TaskCalls \ {c} : taskCalls[d].op # "idle")

BeginCall(c, i, k, op) ==
    /\ k \in cmdCase.calls /\ edits < MaxEdits
    /\ taskCalls[c].op = "idle"
    /\ taskCalls' = [taskCalls EXCEPT ![c] = [op |-> op, id |-> i, kind |-> k, todo |-> {}]]
    /\ edits' = edits + 1

(* handleSaveTask, handleUpdateTask, dqex task save.  The mark the client     *)
(* sends is stored as it is.  An update may change the kind.                 *)
SaveTask(c, i, k) ==
    /\ BeginCall(c, i, k, "load")
    /\ \E mark \in BOOLEAN :
         task' = [task EXCEPT ![i] = [kind |-> k, updated |-> edits + 1, last |-> mark]]
    /\ Noted(\E x \in {k} \cup OldKind(i) : InProgress(x),
             [x \in TaskKinds |-> IF x # k /\ newest[x] = i THEN NoNewest ELSE newest[x]])
    /\ UNCHANGED <<cmdCase, cmdVars>>

(* RunTaskByID: GetTask, MarkLastUsed, Start<Kind>.                          *)
RunTask(c, i) ==
    /\ task[i] # NoTask
    /\ BeginCall(c, i, task[i].kind, "load")
    /\ Noted(InProgress(task[i].kind), newest)
    /\ UNCHANGED <<cmdCase, cmdVars, task>>

LoadTasks(c) ==
    /\ taskCalls[c].op = "load"
    /\ taskCalls' = [taskCalls EXCEPT ![c].op = "mark",
                                      ![c].todo = {[id |-> i, row |-> task[i]] : i \in TaskRows}]
    /\ UNCHANGED <<cmdCase, cmdVars, task, edits, newest, clash>>

(* A load that fails counts as no rows, and a row that cannot be saved ends   *)
(* the marking; the rest keep the marks they had.                            *)
AccessFails(c) ==
    /\ taskCalls[c].op # "idle"
    /\ EndCall(c)
    /\ newest' = [newest EXCEPT ![CallKind(c)] = NoNewest]
    /\ UNCHANGED <<cmdCase, cmdVars, task, edits>>

(* Slip: the mark of the others stays.                                       *)
MarkOnly(r, id) == [r.row EXCEPT !.last = @ \/ r.id = id]

Marked(r, id) == [r.row EXCEPT !.last = (r.id = id)]

MarkLastUsed(c) ==
    LET call == taskCalls[c]
        mine == {r \in call.todo : r.row.kind = call.kind}
    IN  /\ call.op = "mark"
        /\ \/ \E r \in mine :
                /\ \A s \in mine : s.row.updated <= r.row.updated
                /\ task' = [task EXCEPT ![r.id] = Marked(r, call.id)]
                /\ taskCalls' = [taskCalls EXCEPT ![c].todo = @ \ {r}]
                /\ UNCHANGED <<newest, clash>>
           \/ /\ mine = {}
              /\ EndCall(c)
              /\ newest' = IF clash THEN Nobody ELSE [newest EXCEPT ![call.kind] = call.id]
              /\ UNCHANGED task
        /\ UNCHANGED <<cmdCase, cmdVars, edits>>

DeleteTask(i) ==
    /\ task[i] # NoTask
    /\ task' = [task EXCEPT ![i] = NoTask]
    /\ Noted(InProgress(task[i].kind),
             [k \in TaskKinds |-> IF newest[k] = i THEN NoNewest ELSE newest[k]])
    /\ UNCHANGED <<cmdCase, cmdVars, edits, taskCalls>>

(* GetLastUsed: the first marked row, newest first; else the newest.         *)
GetLastUsed(k) ==
    LET mine   == TasksOf(k)
        marked == {i \in mine : task[i].last}
        Newest(S) == CHOOSE i \in S : \A j \in S : task[j].updated <= task[i].updated
    IN  IF marked # {} THEN Newest(marked)
        ELSE IF mine # {} THEN Newest(mine)
        ELSE NoNewest

Command == \/ ReadConfig \/ ReadTask \/ SkipTask \/ TaskUnusable
           \/ cliExport \/ cliDictionary \/ cliImport \/ cliMigrate \/ cliCompare
           \/ OverrideDatabase \/ NoOverride \/ Run
Calls   == \/ \E c \in TaskCalls :
                \/ \E i \in TaskIds : \/ \E k \in TaskKinds : SaveTask(c, i, k)
                                      \/ RunTask(c, i)
                \/ LoadTasks(c) \/ MarkLastUsed(c) \/ AccessFails(c)
           \/ \E i \in TaskIds : DeleteTask(i)

TaskNext == Command \/ Calls
TaskSpec == TaskInit /\ [][TaskNext]_taskVars

-----------------------------------------------------------------------------
(* The variables have their types.                                           *)
TaskTypeOK ==
    /\ cmdStep \in {"absent", "start", "task", "flags", "override", "run", "done", "failed"}
    /\ opts \in Options
    /\ wantZip \in Layers
    /\ \A i \in TaskRows : task[i].kind \in TaskKinds /\ task[i].updated \in 1..MaxEdits
    /\ edits \in 0..MaxEdits
    /\ newest \in [TaskKinds -> TaskIds \cup {NoNewest}]
    /\ clash \in BOOLEAN

(* What a layer can give, and the layer below the flags: the saved task, else   *)
(* the file.                                                                 *)
Layer == [conn : {"none", "inline", "ref"}, cond : BOOLEAN, out : {"none", "dir", "zip"}, db : BOOLEAN]
Given(L, f) == (IF f = "conn" THEN L.conn ELSE L.out) # "none"
TakesTask   == ByTask # NotGiven /\ kindOf # "compare"
Below       == IF TakesTask THEN ByTask ELSE config

(* What is meant: the layer that goes last among those that give the option.  *)
Meant(byFlag, byTask, byConfig) ==
    IF byFlag THEN "flag"
    ELSE IF TakesTask THEN (IF byTask THEN "task" ELSE "none")
    ELSE IF byConfig THEN "config" ELSE "none"

(* What holds for the run: resolveConn and findCondition.                     *)
ConnInForce == IF opts.inline # "none" THEN opts.inline ELSE opts.ref
CondInForce == IF opts.conditions = <<>> THEN "none" ELSE Head(opts.conditions)

(* Flags that are given but have no effect: a named connection, or a database *)
(* alone, beside an inline connection of the layer below; a condition on a    *)
(* table that layer has one for.                                             *)
Outweighed(f) ==
    CASE f = "conn" -> flags.conn = "ref" /\ Below.conn = "inline"
      [] f = "cond" -> Below.cond
      [] f = "db"   -> flags.conn # "inline" /\ Below.conn = "inline"

(* Each option of a command that runs comes from the layer that goes last     *)
(* among those that give it, as CLI.md:585 promises: flags before the saved   *)
(* task before the file; this is about the connection and its database, the   *)
(* condition of a table, the output path and its file name.  It is so but for *)
(* flags that are Outweighed, and for the file name of the configuration file, *)
(* which is kept with a saved task that has another path (cliExport and its   *)
(* like, overrideConnDB).                                                    *)
LastGivenWins == cmdStep \in {"run", "done"} =>
    /\ ConnInForce = Meant(Given(flags, "conn") /\ ~Outweighed("conn"), Given(ByTask, "conn"), Given(config, "conn"))
    /\ kindOf \in Exports =>
         /\ opts.outputDir = Meant(Given(flags, "out"), Given(ByTask, "out"), Given(config, "out"))
         /\ wantZip # "none" => \/ wantZip = opts.outputDir
                                \/ TakesTask /\ ~Given(flags, "out") /\ wantZip = "config"
    /\ kindOf \in {"export", "migrate"} =>
         CondInForce = Meant(flags.cond /\ ~Outweighed("cond"), ByTask.cond, config.cond)
    /\ kindOf \in Pairs /\ flags.db => (opts.dbName = "flag" <=> ~Outweighed("db"))

(* The configuration offered as the last used one of its kind is the one       *)
(* saved or run last, unless that one is deleted or became another kind, an     *)
(* access of that call failed, or calls met on a kind: after them it is the one *)
(* of the next call that meets no other.  And there is an answer, of the right  *)
(* kind, whenever there is one of the kind, whatever the calls have done to     *)
(* each other (MarkLastUsed, GetLastUsed).                                    *)
LastUsedIsLatest == \A k \in TaskKinds :
    /\ newest[k] # NoNewest /\ ~InProgress(k) => GetLastUsed(k) = newest[k]
    /\ TasksOf(k) # {} => GetLastUsed(k) \in TasksOf(k)
=============================================================================
