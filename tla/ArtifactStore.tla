--------------------------- MODULE ArtifactStore ---------------------------
(***************************************************************************)
(* What tasks leave behind: the files of exports, dictionaries, imports    *)
(* and comparisons, the history records that name them, and the three      *)
(* things that move or remove files later: deleting a record, changing the *)
(* artifact directory while the program runs, and the cleaning of the work *)
(* directory (internal/service/service.go, artifact.go, persist.go,        *)
(* internal/store/sqlite.go, internal/engine/exporter.go, dictionary.go).  *)
(*                                                                         *)
(* Artifacts go to a local directory, or to an object store.  With an      *)
(* object store an export is put together in tmp/artifact-export, which    *)
(* all exports share.  A record names its artifact by a logical path       *)
(* (<prefix>/<name>, whatever the medium and the directory) or, where the  *)
(* artifact is a directory, by its real path.                              *)
(*                                                                         *)
(* exports/ and compares/ are handled alike and are one area here.  Names  *)
(* are the tasks': a task's file name holds its second or its ID, and two  *)
(* exports of one name in one second are left out.                         *)
(***************************************************************************)
EXTENDS Naturals, FiniteSets

CONSTANTS
    ArtTasks,     \* task IDs
    ArtCases,     \* the behaviours of this instance, see caseOf
    MaxHistory    \* records kept (maxHistoryRecords, 200 in the code)

ASSUME MaxHistoryAssumption == MaxHistory \in Nat \ {0} /\ IsFiniteSet(ArtTasks)

VARIABLES
    caseOf,     \* medium, kind of each task, faults, who else acts
    job,        \* where each task's goroutine is
    starting,   \* tasks whose Start<Kind> has not returned yet
    outArea,    \* the directory the engine writes to
    output,     \* result.OutputPath of the engine, as a place
    disk,       \* the parts of files and directories, in every area
    rows,       \* the execution history
    startedAt,  \* StartedAt of each task, 0 before it starts
    exportDir,  \* PersistMgr.exportDir
    move,       \* UpdateDirs
    removal,    \* DeleteHistory of each record
    caught      \* tasks met at work by UpdateDirs or by a cleaning (history)

fileVars == <<disk, output, outArea>>
artVars == <<caseOf, job, starting, fileVars, rows, startedAt, exportDir, move, removal, caught>>

-----------------------------------------------------------------------------
Areas == {"work", "old", "new", "object", "user"}
Forms == {"dir", "file"}
Places == [area : Areas, of : ArtTasks, form : Forms]
Parts  == {"base", "db", "extra"}
Pieces == [at : Places, part : Parts]

Place(area, t, form) == [area |-> area, of |-> t, form |-> form]
NoPath  == [how |-> "none"]
Logical == [how |-> "logical"]
Real(p) == [how |-> "real", at |-> p]
Paths   == {NoPath, Logical} \cup {Real(p) : p \in Places}

medium  == caseOf.medium
kind(t) == caseOf.kind[t]
HasFault(f) == f \in caseOf.faults

At(p)     == {x \in disk : x.at = p}
Held(p)   == {x.part : x \in At(p)}
Put(p, parts) == {[at |-> p, part |-> x] : x \in parts}
Form(t)   == IF kind(t) = "dir" THEN "dir" ELSE "file"

(* What a finished task's artifact has to hold.                            *)
Whole(t) == IF kind(t) = "zip" THEN {"db", "extra"}
            ELSE IF kind(t) = "dir" THEN {"base", "db", "extra"}
            ELSE {"db"}

-----------------------------------------------------------------------------
(* SaveHistory replaces the row of that ID and keeps the newest rows:       *)
(* those started before the MaxHistory-th newest are deleted.              *)
(* Slip: one row too few.                                                   *)
NewestButOne(all) == {q \in all : Cardinality({n \in all : startedAt'[n.task] > startedAt'[q.task]})
                              < MaxHistory - 1}

Row(t, status, path) == [task |-> t, status |-> status, path |-> path]
RowOf(t) == {r \in rows : r.task = t}
Newest(all) == {q \in all : Cardinality({n \in all : startedAt'[n.task] > startedAt'[q.task]})
                              < MaxHistory}
SaveHistory(r) == rows' = Newest({q \in rows : q.task # r.task} \cup {r})

(* artifactLocalPath, artifactOpen: where a path leads at this moment.      *)
Leads(path, t) ==
    IF path.how = "real" THEN path.at
    ELSE IF medium = "object" THEN Place("object", t, "file")
    ELSE Place(exportDir, t, "file")

(* Slip: the directory known since the start.                               *)
InFirstDir(p) == p.area = "old"

InManagedDir(p) == p.area = exportDir

Idle == [step |-> "idle", todo |-> {}, seen |-> {}, left |-> {}]

ArtInit ==
    /\ caseOf \in ArtCases
    /\ job      = [t \in ArtTasks |-> "new"]
    /\ starting = {}
    /\ outArea  = [t \in ArtTasks |-> "old"]
    /\ output   = [t \in ArtTasks |-> NoPath]
    /\ disk     = {}
    /\ rows     = {}
    /\ startedAt = [t \in ArtTasks |-> 0]
    /\ exportDir = "old"
    /\ move     = Idle
    /\ removal  = [t \in ArtTasks |-> [step |-> "no", path |-> NoPath]]
    /\ caught   = {}

-----------------------------------------------------------------------------
(* Start<Kind>: the running record, the entry of the runner, the goroutine. *)
(* With an object store, exports and dictionaries are given the work        *)
(* directory, and the deferred RemoveAll of StartExport runs when it        *)
(* returns (Return).                                                        *)
UsesWork(t) == medium = "object" /\ kind(t) \in {"zip", "book"}

Start(t) ==
    /\ job[t] = "new"
    /\ startedAt' = [startedAt EXCEPT ![t] = 1 + Cardinality({u \in ArtTasks : startedAt[u] > 0})]
    /\ SaveHistory(Row(t, "running", NoPath))
    /\ job' = [job EXCEPT ![t] = "started"]
    /\ UNCHANGED <<caseOf, output, disk, exportDir, move, removal>>

StartExport(t) ==
    /\ kind(t) \in {"zip", "dir"} /\ Start(t)
    /\ outArea' = [outArea EXCEPT ![t] = IF UsesWork(t) THEN "work" ELSE "old"]
    /\ starting' = IF UsesWork(t) THEN starting \cup {t} ELSE starting

StartDictionary(t) ==
    /\ kind(t) = "book" /\ Start(t)
    /\ outArea' = [outArea EXCEPT ![t] = IF UsesWork(t) THEN "work" ELSE "old"]
    /\ starting' = IF UsesWork(t) THEN starting \cup {t} ELSE starting

StartImport(t)  == kind(t) = "import"  /\ Start(t) /\ UNCHANGED <<outArea, starting>>
StartMigrate(t) == kind(t) = "migrate" /\ Start(t) /\ UNCHANGED <<outArea, starting>>
StartCompare(t) == kind(t) = "report"  /\ Start(t) /\ UNCHANGED <<outArea, starting>>

Return(t) ==
    /\ t \in starting
    /\ starting' = starting \ {t}
    /\ disk' = {x \in disk : x.at.area # "work"}
    /\ UNCHANGED <<caseOf, job, outArea, output, rows, startedAt, exportDir, move, removal>>

-----------------------------------------------------------------------------
(* The engine.  Only the steps that touch files are shown.                  *)
Base(t) == Place(outArea[t], t, "dir")
ArtStep(t, from, to) ==
    /\ job[t] = from
    /\ job' = [job EXCEPT ![t] = to]
    /\ UNCHANGED <<caseOf, starting, rows, startedAt, exportDir, move, removal>>

(* resolveConn, the default of OutputDir, MkdirAll(baseDir).                *)
MakeBase(t) ==
    /\ kind(t) \in {"zip", "dir", "book"}
    /\ ArtStep(t, "started", "based")
    /\ LET area == IF outArea[t] = "work" THEN "work" ELSE exportDir
       IN  /\ outArea' = [outArea EXCEPT ![t] = area]
           /\ disk' = disk \cup Put(Place(area, t, "dir"), {"base"})
    /\ UNCHANGED output

(* The files of the databases, or the workbook: created in baseDir, which   *)
(* has to be there.                                                        *)
Dump(t) ==
    /\ Held(Base(t)) # {}
    /\ ArtStep(t, "based", "dumped")
    /\ disk' = disk \cup Put(Base(t), {"db"})
    /\ UNCHANGED <<output, outArea>>

(* runContributors: <baseDir>/<Type> is made with its parents.              *)
Contribute(t) ==
    /\ kind(t) # "book"
    /\ ArtStep(t, "dumped", "added")
    /\ disk' = disk \cup Put(Base(t), {"base", "extra"})
    /\ UNCHANGED <<output, outArea>>

(* zipDir and RemoveAll(baseDir), or the directory itself; a workbook that  *)
(* is not compressed stays in baseDir, from where it will be moved.         *)
Pack(t) ==
    /\ Held(Base(t)) # {}
    /\ ArtStep(t, IF kind(t) = "book" THEN "dumped" ELSE "added", "packed")
    /\ IF kind(t) = "dir"
       THEN /\ output' = [output EXCEPT ![t] = Real(Base(t))]
            /\ UNCHANGED disk
       ELSE LET file == Place(outArea[t], t, "file")
            IN  /\ output' = [output EXCEPT ![t] = Real(file)]
                /\ disk' = (disk \ At(Base(t))) \cup Put(file, Held(Base(t)) \ {"base"})
    /\ UNCHANGED outArea

(* RunImport and RunMigrate leave a rollback file beside the input, or      *)
(* nothing.                                                                *)
RunImport(t) ==
    /\ kind(t) = "import" /\ ArtStep(t, "started", "packed")
    /\ \/ /\ output' = [output EXCEPT ![t] = Real(Place("user", t, "file"))]
          /\ disk' = disk \cup Put(Place("user", t, "file"), {"db"})
       \/ UNCHANGED <<output, disk>>
    /\ UNCHANGED outArea

RunMigrate(t) ==
    /\ kind(t) = "migrate" /\ ArtStep(t, "started", "packed")
    /\ UNCHANGED fileVars

RunCompare(t) ==
    /\ kind(t) = "report" /\ ArtStep(t, "started", "packed")
    /\ UNCHANGED fileVars

(* Any error, or a cancel: the record says so, the files stay.              *)
Working == {"started", "based", "dumped", "added", "packed"}
Lost(t) == kind(t) \in {"zip", "dir", "book"} /\ Held(Base(t)) = {}
             /\ job[t] \in {"based", IF kind(t) = "book" THEN "dumped" ELSE "added"}
Fail(t) ==
    /\ job[t] \in Working \ {"packed"}
    /\ HasFault("engine") \/ Lost(t)
    /\ job' = [job EXCEPT ![t] = "failed"]
    /\ UNCHANGED <<caseOf, starting, fileVars, rows, startedAt, exportDir, move, removal>>

-----------------------------------------------------------------------------
(* finishRecord.  Its fill first takes the artifact to its final place      *)
(* (relocateExportArtifact, artifactLocalPut, artifactPut): a rename into   *)
(* the managed directory, or one upload after which the source is removed.  *)
(* If that fails, the record keeps the engine's path; a report that cannot  *)
(* be written leaves no path.                                              *)
Target(t) == Place(IF medium = "object" THEN "object" ELSE exportDir, t, "file")

Relocate(t) ==
    /\ kind(t) \in {"zip", "book"}
    /\ ArtStep(t, "packed", "placed")
    /\ \/ /\ Held(output[t].at) # {}
          /\ disk' = (disk \ At(output[t].at)) \cup Put(Target(t), Held(output[t].at))
          /\ output' = [output EXCEPT ![t] = Logical]
       \/ /\ Held(output[t].at) = {} \/ HasFault("place")
          /\ UNCHANGED <<disk, output>>
    /\ UNCHANGED outArea

KeepPath(t) ==
    /\ kind(t) \in {"dir", "import", "migrate"}
    /\ ArtStep(t, "packed", "placed")
    /\ UNCHANGED fileVars

SaveReport(t) ==
    /\ kind(t) = "report"
    /\ ArtStep(t, "packed", "placed")
    /\ \/ /\ disk' = disk \cup Put(Target(t), {"db"})
          /\ output' = [output EXCEPT ![t] = Logical]
       \/ HasFault("place") /\ UNCHANGED <<disk, output>>
    /\ UNCHANGED outArea

(* Slip: the stage of the goroutine for the status.                         *)
SaveFinalStage(t) ==
    /\ job[t] \in {"placed", "failed"}
    /\ job' = [job EXCEPT ![t] = "ended"]
    /\ UNCHANGED startedAt
    /\ SaveHistory(Row(t, job[t], IF job[t] = "placed" THEN output[t] ELSE NoPath))
    /\ UNCHANGED <<caseOf, starting, fileVars, exportDir, move, removal>>

(* The final row; its started_at is the one the task began with.            *)
SaveFinal(t) ==
    /\ job[t] \in {"placed", "failed"}
    /\ job' = [job EXCEPT ![t] = "ended"]
    /\ UNCHANGED startedAt
    /\ SaveHistory(IF job[t] = "placed" THEN Row(t, "done", output[t])
                                        ELSE Row(t, "error", NoPath))
    /\ UNCHANGED <<caseOf, starting, fileVars, exportDir, move, removal>>

-----------------------------------------------------------------------------
(* DeleteHistory: the record, its row, its artifact.  RemoveArtifact leaves  *)
(* alone what is not in the managed directory.  A removal that fails is      *)
(* only logged.                                                            *)
BeginDelete(t) ==
    /\ "delete" \in caseOf.moves /\ removal[t].step = "no"
    /\ \E r \in RowOf(t) :
         /\ r.status # "running"
         /\ removal' = [removal EXCEPT ![t] = [step |-> "row", path |-> r.path]]
    /\ UNCHANGED <<caseOf, job, starting, fileVars, rows, startedAt, exportDir, move>>

DeleteRow(t) ==
    /\ removal[t].step = "row"
    /\ rows' = rows \ RowOf(t)
    /\ removal' = [removal EXCEPT ![t].step = "file"]
    /\ UNCHANGED <<caseOf, job, starting, fileVars, startedAt, exportDir, move>>

RemoveArtifact(t) ==
    /\ removal[t].step = "file"
    /\ LET path == removal[t].path
           p == Leads(path, t)
       IN  \/ /\ disk' = IF path = NoPath \/ (path.how = "real" /\ ~InManagedDir(p))
                          THEN disk ELSE disk \ At(p)
              /\ removal' = [removal EXCEPT ![t].step = "gone"]
           \/ /\ HasFault("remove") /\ UNCHANGED disk
              /\ removal' = [removal EXCEPT ![t].step = "left"]
    /\ UNCHANGED <<caseOf, job, starting, outArea, output, rows, startedAt, exportDir, move>>

-----------------------------------------------------------------------------
(* SaveConfig -> UpdateDirs: the entries of the old directory are renamed     *)
(* one by one (one that exists in the new directory is skipped); then the    *)
(* records with a real path there are loaded and saved again one by one.     *)
(* A rename that fails ends both, and the directories are switched all the   *)
(* same: move.left are the tasks whose artifacts were in them then.          *)
Busy == move.step \in {"move", "rewrite", "switch"}

BeginUpdate ==
    /\ "dirs" \in caseOf.moves /\ move.step = "idle"
    /\ move' = [Idle EXCEPT !.step = "move",
                            !.todo = {p \in {x.at : x \in disk} : p.area = "old"}]
    /\ UNCHANGED <<caseOf, job, starting, fileVars, rows, startedAt, exportDir, removal>>

MoveEntry(p) ==
    /\ move.step = "move" /\ p \in move.todo /\ At(p) # {}
    /\ LET q == [p EXCEPT !.area = "new"]
       IN  disk' = IF At(q) # {} THEN disk ELSE (disk \ At(p)) \cup Put(q, Held(p))
    /\ move' = [move EXCEPT !.todo = @ \ {p}]
    /\ UNCHANGED <<caseOf, job, starting, outArea, output, rows, startedAt, exportDir, removal>>

MoveFails(p) ==
    /\ move.step = "move" /\ p \in move.todo
    /\ At(p) = {} \/ HasFault("move")
    /\ move' = [Idle EXCEPT !.step = "switch",
                            !.left = {x.at.of : x \in {y \in disk : y.at.area \in {"old", "new"}}}]
    /\ UNCHANGED <<caseOf, job, starting, fileVars, rows, startedAt, exportDir, removal>>

(* Slip: the records with a logical path.                                   *)
LoadLogicalRows ==
    /\ move.step = "move" /\ move.todo = {}
    /\ move' = [Idle EXCEPT !.step = "rewrite"]
    /\ UNCHANGED <<caseOf, job, starting, fileVars, rows, startedAt, exportDir, removal>>

LoadRows ==
    /\ move.step = "move" /\ move.todo = {}
    /\ move' = [Idle EXCEPT !.step = "rewrite",
                            !.seen = {r \in rows : r.path.how = "real" /\ Leads(r.path, r.task).area = "old"}]
    /\ UNCHANGED <<caseOf, job, starting, fileVars, rows, startedAt, exportDir, removal>>

RewriteRow(r) ==
    /\ move.step = "rewrite" /\ r \in move.seen
    /\ move' = [move EXCEPT !.seen = @ \ {r}]
    /\ UNCHANGED startedAt
    /\ SaveHistory([r EXCEPT !.path.at.area = "new"])
    /\ UNCHANGED <<caseOf, job, starting, fileVars, exportDir, removal>>

SwitchDirs ==
    /\ move.step = "switch" \/ (move.step = "rewrite" /\ move.seen = {})
    /\ move' = [Idle EXCEPT !.step = IF move.step = "switch" THEN "half" ELSE "done", !.left = move.left]
    /\ exportDir' = "new"
    /\ UNCHANGED <<caseOf, job, starting, fileVars, rows, startedAt, removal>>

Update ==
    \/ BeginUpdate \/ LoadRows \/ SwitchDirs
    \/ \E p \in move.todo : MoveEntry(p) \/ MoveFails(p)
    \/ \E r \in move.seen : RewriteRow(r)

Engine(t) ==
    \/ MakeBase(t) \/ Dump(t) \/ Contribute(t) \/ Pack(t)
    \/ RunImport(t) \/ RunMigrate(t) \/ RunCompare(t) \/ Fail(t)

(* UpdateDirs knows nothing of the tasks at work and of the deletions, nor do *)
(* exports to an object store of one another.                              *)
AtWork(t) == job[t] \in {"based", "dumped", "added", "packed"}
Caught(t) ==
    \/ Busy /\ (AtWork(t) \/ job[t] = "placed" \/ removal[t].step \in {"row", "file"})
    \/ UsesWork(t) /\ AtWork(t) /\ starting # {}
    \/ UsesWork(t) /\ job[t] = "placed" /\ output[t] # Logical
Notice == caught' = caught \cup {t \in ArtTasks : Caught(t)'}

ArtActs ==
    \/ \E t \in ArtTasks :
         \/ StartExport(t) \/ StartDictionary(t) \/ StartImport(t)
         \/ StartMigrate(t) \/ StartCompare(t) \/ Return(t)
         \/ Engine(t)
         \/ Relocate(t) \/ KeepPath(t) \/ SaveReport(t) \/ SaveFinal(t)
         \/ BeginDelete(t) \/ DeleteRow(t) \/ RemoveArtifact(t)
    \/ Update

ArtNext == ArtActs /\ Notice

ArtSpec == ArtInit /\ [][ArtNext]_artVars

-----------------------------------------------------------------------------
(* The variables have their types.                                          *)
ArtTypeOK ==
    /\ caseOf \in ArtCases
    /\ job \in [ArtTasks -> {"new", "placed", "failed", "ended"} \cup Working]
    /\ starting \subseteq ArtTasks
    /\ outArea \in [ArtTasks -> {"work", "old", "new"}]
    /\ output \in [ArtTasks -> Paths]
    /\ disk \subseteq Pieces
    /\ rows \subseteq [task : ArtTasks, status : {"running", "done", "error"}, path : Paths]
    /\ startedAt \in [ArtTasks -> 0..Cardinality(ArtTasks)]
    /\ exportDir \in {"old", "new"}
    /\ removal \in [ArtTasks -> [step : {"no", "row", "file", "gone", "left"}, path : Paths]]
    /\ caught \subseteq ArtTasks

(* The path of a finished record leads to the whole artifact of that task,  *)
(* before and after the artifact directory is changed: downloads of the     *)
(* history (downloadExport, GetCompareResult) keep working.  Where a rename *)
(* failed, the artifacts that were in the directories then are whole in one *)
(* of the two, and the path of a later one leads to it.  A task is left out  *)
(* only if the change, or the cleaning of the work directory, met that very  *)
(* task at work.                                                            *)
DoneOpens ==
    ~Busy =>
      \A r \in rows : r.status = "done" /\ r.path # NoPath /\ r.task \notin caught =>
        \/ Whole(r.task) \subseteq Held(Leads(r.path, r.task))
        \/ /\ r.task \in move.left
           /\ \E x \in disk : /\ x.at.of = r.task /\ x.at.area \in {"old", "new"}
                              /\ Whole(r.task) \subseteq Held(x.at)

(* Once a record and its artifact are deleted, neither returns, and no file  *)
(* of the task stays behind in a directory the program manages, unless a     *)
(* failed rename had left it there; the files a user was given elsewhere are *)
(* still there.                                                            *)
DeletedLeavesNothing ==
    \A t \in ArtTasks \ caught : removal[t].step = "gone" /\ removal[t].path # NoPath =>
      /\ RowOf(t) = {}
      /\ t \notin move.left =>
           /\ \A x \in disk : x.at.of = t => x.at.area = "user" \/ x.part = "base"
           /\ kind(t) = "import" => Held(Place("user", t, "file")) # {}

(* A record that nobody deleted is missing only after MaxHistory newer tasks  *)
(* began, however late its task saves the final row (SaveHistory,           *)
(* trimHistory).                                                           *)
NewestKept ==
    \A t \in ArtTasks : startedAt[t] > 0 /\ RowOf(t) = {} /\ removal[t].step = "no" =>
      Cardinality({u \in ArtTasks : startedAt[u] > startedAt[t]}) >= MaxHistory

(* StartExport says that the work directory is cleaned when the task has     *)
(* ended, failed or not: until then what the task wrote there is there.      *)
WorkKeptUntilEnd ==
    \A t \in ArtTasks : UsesWork(t) /\ job[t] \in {"based", "dumped", "added", "packed"} =>
      \E x \in disk : x.at.of = t /\ x.at.area = "work"
=============================================================================
