# dqex: models and proofs

dqex is one Go program (service, web server, command line, library facade) with a
browser client. It moves data between databases: exports, data-package imports,
migrations, comparisons, snapshots, SQL, and an AI assistant that writes SQL. Its
state lives in four places: the databases it works on, an embedded store (SQLite),
directories or an object store of artifacts, and memory. This directory models the
parts whose correctness depends on the order of steps, on failures between them, or on
several actors: TLC checks them on small instances, TLAPS proves the most important
results for every value of the constants. Paths below are relative to `src/`.

## Inventory

| Component | State | Operations | What is hard | What makes it correct |
|---|---|---|---|---|
| Task runner and progress stream (`internal/service/service.go` 655-880, 1154-1175; `internal/web/sse.go`) | running table, subscriber channels, history record | Start, publish, Subscribe, Cancel, finishRecord, DeleteHistory | clients read channels without the lock; full channels; panics; a cancel at any moment; crash | the newest event is never lost, streams are ordered and end, the record is final before the final event, one verdict |
| Data package import (`internal/engine/importer.go`, `datapackage.go`) | target tables, open transaction, collected rollback statements, rollback files | execute SQL, create, upsert, paired statement, commit, abort, write files | DDL commits on MySQL and Oracle but not on PostgreSQL; failure at any statement; several packages | the collected statements undo what was done, at every step |
| Table migration (`engine/migrator.go`, `reset.go`) | target tables, backup tables | backup, reset, create, batch copy, objects, cleanup, second attempt | no transaction; failure or cancel at every statement; retry over half-filled tables | old rows stay recoverable; a success copies exactly; backups are removed |
| Database comparison (`engine/compare.go`) | pairs, verdicts, summary | list, pair, compare structure, compare rows, count | aliases that rename, swap or collide; normalised values; tables that cannot be read; cancel | every table reported once; "equal" means equal; the summary adds up |
| AI assistant sessions (`service/ai.go`, `web/src/components/AIPanel.tsx`) | session objects and locks in memory, stored row, panels; messages of a conversation | send, stop, retry, reset, close, reload, rebuild, evict, trim | the object behind an id is replaced while requests hold the old one; lost replies and resent msg_ids; restarts; rounds dropped under a question in progress | no answer shown is lost, no message is recorded twice or answered with another's answer, locks are released, the model reads a conversation |
| Snapshots (`service/snapshot.go`, `engine/snapshot.go`, `snapshot_compare.go`) | index rows, legacy index file, artifacts, the databases meanwhile | create, list, delete, import the index, compare | two sources of truth; failure between artifact and index; tables that cannot be read | every listed snapshot has its artifact; nothing returns after deletion; every change is told |
| Execution history and artifacts (`service/persist.go`, `artifact.go`, `service.go`, `store/sqlite.go`) | records, artifact directories, work directory | save, trim, place, relocate, remove, clean | directories moved entry by entry while tasks run, and a rename that fails; a work directory that all exports share; retention by start time while long tasks save late | a record's path opens; deleted means gone; the newest stay |
| Connections and metadata cache (`service.go` 56-458, `library.go`, `engine/meta.go`) | connections, chats and tabs that hang on them, cache | add, edit, delete with cascade, list, force, alter | check and insert are two steps; two lookups in a deletion, either of which may fail to read; a fetch that began before an invalidation | nothing orphaned, short names unique, a forced answer is fresh |
| SQL execution and history (`service/sql.go`, `engine/sqlquery.go`) | rows, history, audit, favourites | script, row edits, cancel, record, trim, clear, rename | no transaction over a script; an answer lost after its statement was executed; overlapping users; an audit entry that cannot be written | what is reported is what was executed; nothing escapes the audit unseen |
| Saved tasks and command options (`cli/*.go`, `service.go` 1187-1290) | options in layers, task rows, last-used mark | lay over, validate, save, run, delete | each command does it in its own way; the mark is moved row by row, without a lock | the last layer wins; the last used is the latest |
| SQL terminal (`cli/sqlcmd`) | client, prompt, buffer, dialogue | lines, `use`, `\ai`, confirm, run, reconnect and retry | failed switches; a connection that breaks after executing | a statement runs where the prompt says; the report is true |
| Configuration and providers (`service/appconfig.go`, `ai_providers.go`, `web/handler.go`) | file, memory, directories, filter, provider list | save, load once, reset | partial saves; `sync.Once` replaced under readers | a save that succeeded is in force |
| Web access control (`web/access.go`, `server.go`) | source filter, failures, locks | allow, compare, fail, pass | limit asked and failure counted in different steps | guesses per window are bounded |
| Web server and ports (`web/portutil.go`, `server.go`, `cli`) | listeners, credentials in store and file | probe, identify, kill, write, listen, stop, url | several starts race between probe and listen | the credentials of a running service stay usable |
| Export (`engine/exporter.go`, `conn.go`, `objects.go`) | transaction, files, counts | plan, open snapshot, DDL, batches, objects, pack | others commit and alter meanwhile; a schema that cannot be listed | one instant where the log says so; every chosen table |
| Data dictionary (`engine/dictionary.go`) | sheets, defined names | plan, describe, name, link | names cut to a limit and made unique | every link leads to its table |
| Model client (`internal/llm/llm.go`, `agent.go`) | buffer of the thinking filter | feed, flush | a tag split over pieces of the stream | what was shown is what is recorded |
| Store (`internal/store`) | tables of the embedded database | one or two statements per method | called from many goroutines | appears in the modules of its callers |
| SQL generation and dialects, help and rendering, library facade, web client layout | text, forms | format, render, delegate | sequential | not modelled, see the end |

How they interact: the web handlers, the command line and the facade call `Service`;
long operations (export, import, migration, comparison, snapshot) are functions the task
runner calls with a context and a progress callback; the callback publishes to the
channels `sse.go` reads; `finishRecord` writes the history that the same clients fall
back to, and places the artifact that later deletions, trims and moves find by the path
in the record. Deleting a connection cascades to the chats and tabs that name it. The
AI sessions share the store with everything else, under a row of their own.

## Modules

| Module | Models | Correspondence |
|---|---|---|
| `TaskRunner` | the runner and the event stream | `stage` is the goroutine of a task, `pub` the `publish` call that holds `r.mu` (its three selects are `Offer`, `Evict`, `Retry`), `chan` the subscriber channels, `phase` the handler of an SSE connection, `history` the record |
| `TaskLifecycle` | the abstract promise: a task is concluded at most once, and a watcher is shown only that conclusion | `TaskProps` gives the refinement mapping (`Lifecycle`) |
| `TaskProps` | properties of the runner and its inductive invariant | |
| `DataImport` | `RunImport` and `ApplyDataPackage` on databases of one table | `saved` is what a rollback of the transaction restores, `rb` and `groups` the statements collected, `files` those written; `Replay` is what a user does with a file |
| `TableMigrate` | `RunMigrate`, `resetTable`, `migrateTableData` | one action per statement sent to the target; `phase` and `at` are the program counter |
| `TableCompare` | `RunCompare` with its pairing, row comparison and summary | `cur`, `step` and `todo` are the loops; `BuildPairs`, `CompareByKey`, `CompareBags` are the functions of those names |
| `AISession` | the panels, `aiChat`, `AINewSession`, `AIResetSession`, deletion, eviction | `heap` holds session objects, `mem` the map entry, `row` the stored row; a request's `pc` is where its handler is; `scenario` names the windows, faults and moves of a behaviour |
| `ChatHistory` | what a conversation keeps and sends: `aiAgentChat`, `trimMessages`, `dedupeConsecutiveUser` | `msgs` are the messages in memory, `sessionRow` those stored; one caller, the session's lock held, which `AISession` shows to be so |
| `SnapshotIndex` | `CreateSnapshot`, `ListSnapshots`, `DeleteSnapshot` and `ensureSnapshotIndexMigrated` in instances that share a database | one action per access to the database, the data or the JSON index; `migrated` is `snapIdxMig` and `mutex` `snapIdxMu` of each instance, `marker` the row of the meta table |
| `SnapshotDiff` | taking a snapshot (each database listed at its turn, each table's columns and rows by a query of their own) and `RunSnapshotCompare` with aliases, filter and scope, over databases that are edited | `shot` is what the snapshot holds, `now` the databases, `held` what each query found |
| `ArtifactStore` | the end of a task (`finishRecord`, placing, relocating), `DeleteHistory`, `trimHistory`, the change of the artifact directory, the cleaning of the work directory | `job` is the task's goroutine, `disk` the files by area, a record's path a place; local directory or object store; nothing keeps `UpdateDirs` or a cleaning apart from tasks and deletions, and `caught` notes whom they met |
| `ConnLibrary` | `AddConnection`, `UpdateConnection`, `DeleteConnection`, connections in memory, the metadata cache | one action per access of the store or the cache; `attached` are chats and tabs, stored for a connection a browser shows while it exists |
| `SqlConsole` | `RunSQLScript`, row edits, `recordSQL`, audit and favourites | one action per statement; `sqlCalls` is where each request is; an answer may be lost before or after its statement took effect, the store may fail; `warned` are the entries only the log knows |
| `TaskCommands` | the option layers of every command that runs a task, `SaveTask`, `MarkLastUsed`, `RunTaskByID`, `DeleteTask` | the value of an option is the layer it came from; each access of the task table is a step, of calls that overlap as they like; `clash` notes that some met on rows of a kind |
| `Console` | one session of the terminal | a line read is an action; so are the answer to the confirmation and each attempt to run |
| `WebLaunch` | `ensurePortAvailable`, `RunWeb`, `dqex stop`, `dqex url` in several processes | `phase` is where a start is; a probe, a kill, a write of row or file and the listen are steps |
| `WebSettings` | the source filter and limiter of `access.go`, `SaveConfig`, the providers behind `sync.Once` | one action per lock or file operation; `settingPart` is which of the three a behaviour is about |
| `ThinkStream` | `thinkStripper.feed` and `flush`, `stripThinkAll`, `Stream` | the stream may cut a text anywhere; `pending` is `buf` |
| `ExportRun` | `RunExport`, `exportDatabase`, `exportDatabaseJSON`, `planTables`, objects, contributors | a table's content is the version of its database at which it was read; `reading` is the transaction; `leftOut` holds what could not be listed or written |
| `DataDictionary` | `RunDictionary`: plan, sheets, names, links | a name is a sequence of characters, since the cuts are the point |
| `Library` | artifacts, connections, SQL and saved tasks side by side | the variable `part` chooses one of the four; `MCLibrary` gives it its constants |
| `TaskProofs` (runner, records), `ImportProofs`, `MigrateProofs`, `CompareProofs`, `SessionProofs` (AI sessions), `ArtifactProofs` (histories' records and files), `LibraryProofs` (connections, cache, SQL, saved tasks, `Library`), `ServiceProofs` (terminal, launch, settings, limiter, export, the index and the comparison of snapshots) | theorems | see below |
| `MC*` | instances for TLC | sets of model values and inputs; `MCLibrary` and `MCServices` also put components side by side |

Side by side. `Library` holds four components (artifacts, connections, SQL, saved
tasks) and `MCServices` nine (terminal, launch, settings, stream, conversation, export,
snapshot comparison, dictionary, snapshot index). These share no state, so a behaviour
chooses one in `part` and takes steps of it alone, while the others stay at one
initial state of theirs: the state space is the sum of the components', not their
product, and each property is checked on every behaviour of its component. Where
components do share state, one module holds both sides of it: `TaskRunner` has the
runner, the handler of the stream and the history; `ArtifactStore` the tasks, the
records and those who remove them; `ConnLibrary` connections, chats, tabs and cache.

Some definitions have a neighbour marked "Slip" that differs from them in one respect: a
plausible error in that code. Slips take no part in the specifications. They show that a property is able to
fail: with the slip in place of the definition, TLC reports the property violated.

## Runs

| Run | Question | Instance |
|---|---|---|
| `task_stream` | Do streams keep order, keep the newest event and end on the one verdict, for any speed of two clients, with save failures, panics, cancels, a deleted record and a crash? | 1 task, 2 clients, channels of 2, 3 events before the final one, 1 crash |
| `task_settle` | Does everything end, and is the record final before the final event, when nothing is lost? | 1 task, 2 clients, channels of 1 |
| `import_packages` | Can an import be undone at every step and after every failure? | one or two packages of up to three entries that touch different rows; a missing table, created, created and filled (twice, too) or not created; failed reads; both commit disciplines |
| `import_overlap` | (violated) Does a rollback file restore a row that two entries wrote? | three entries, no fault |
| `migrate_databases` | Is a migration safe and exact, whatever its options, its target's content, a failure and a second attempt? | 3 jobs over 2 source databases, 2 tables, batches of 2 |
| `migrate_retry_backup` | (violated) Are old rows still recoverable after a second attempt? | one table |
| `compare_databases` | Are pairing, verdicts and summary right? | every content of two small tables; every pair of structures and options; up to two aliases over three names; two pairs of databases |
| `compare_unread` | (violated) Was everything counted as matched also read? | the same tasks, reads that fail |
| `ai_sessions` | Are msg_ids, locks and answers right through failures, retries, resets and restarts, and is an answer shown kept? | one panel with 3 requests, all faults and retry, reset, close; one with 4 requests, restarts and evictions; one with 3 requests, late answers, retry and close, but no failing save; two panels with 3 requests, stop, reload and late chats; one with 4 requests, stop and reset |
| `ai_reset` | Does every chat and every reset end? | 4 requests queued for one lock |
| `library` | Do paths, records, connections, cache, SQL results, audit and saved tasks say what is there? | per component: 3 tasks in 6 cases of medium and faults (failed renames, engines, uploads and removals; a directory changed at any moment), a history of 2; 3 callers on 2 connections in 5 cases (failed reads, writes and cascades); 4 callers on 3 rows in 5 cases (lost answers, a failing store), an SQL history of 2; every command with every option in every layer, and 2 overlapping callers on 2 saved tasks |
| `services` | Is what is shown, saved, written and linked what it says it is? | per component: 3 databases and 3 lines; 3 processes on 2 ports in 3 cases; a limit of 2 in a window of 2, 2 savers, 3 readers; every text of up to 4 tokens cut anywhere; 5 questions under a budget of 8 characters and 6 messages; 2 databases of 2 tables and one foreign commit in 5 cases; 2 edits in 3 cases; all names that collide at a limit of 4; two old entries and 2 or 3 calls in one or two instances |

What the properties promise. Several name a conjunction, so that one run asks one
question of the component:

| Property | Says |
|---|---|
| `StreamContract` | `NewestNeverDropped`, `OrderedDelivery`, `EndedStreamsHoldFinalEvent` |
| `ImplementsLifecycle` | the runner refines `TaskLifecycle` |
| `RecordContract` | persisted before pushed, record and event agree on success, deleted stays deleted |
| `Settles` | streams end and running records settle, under fairness |
| `RestoreContract`, `NoSilentLoss` | the statements collected undo what was done, at every step; files restore, but for exactly the rows whose old values could not be read; a failure is undone or covered; a success has not lost every file |
| `TargetContents` | exact after a reset, merged without, no backup left, tables exist |
| `FirstAttemptRecoverable`, `NoResetWithoutBackup` | old rows are in the table or in its backup; nothing is emptied before it was copied |
| `VerdictSound`, `ReportComplete` | verdicts are those of a matching of the rows; every table once, and counts add up |
| `SessionSound`, `ConversationKept`, `RequestsEnd` | no message twice or with another's answer, locks held by workers; no shown answer lost, a reset forgets; every request ends |
| `DoneOpens`, `DeletedLeavesNothing` | a record's path leads to its whole artifact, or after a failed rename the artifact is whole in one of the directories; after a deletion nothing returns and nothing stays; both for every task that a change of directory or a cleaning did not meet at work |
| `TrimsKeepNewest` | what a trim removed was followed by as many newer ones as the limit, in both histories |
| `LibraryOrdered`, `KeptWithConnection` | short names unique, nothing attached to a connection that is gone; chats and tabs go with their connection and not without it, but for a deletion whose two lookups differ |
| `CacheFaithful` | a forced answer is fresh, any answer is of the asker's own connection |
| `ReportedExactly`, `AuditComplete`, `DeletedFavoriteStays` | results add up to what was executed, with one row of doubt for each lost answer; every script and row edit is audited or its entry logged as missing; a favourite does not come back |
| `LastGivenWins`, `LastUsedIsLatest` | the last layer that gives an option wins, but for four clashes that are named; the last-used mark is that of the last call that met no other, the answer always one of the kind |
| `PromptHolds`, `ReportTrue` | prompt, client and assistant agree on the database; what the terminal reports happened |
| `CredentialsKept`, `AttemptsBounded`, `SavedTakesEffect` | the row of a listening service is its own; guesses per window; a save that succeeded is in force, providers are fresh |
| `PanelShowsAnswer` | however cut, shown is recorded, and what was shown is not taken back |
| `HistorySound`, `DropsByNeed` | the model reads a conversation and a repeated question is known; a round goes only over budget, the ones without SQL first |
| `OneInstant`, `FilesMatchChoice` | a database logged as consistent is of one instant; every chosen table in full, and the report, the files and the descriptions (where the format has them) agree |
| `ChangesAreTold`, `LinksLead`, `IndexSound` | each change of columns or rows since their reading, once; each link to its section; the five promises of the index |

Why the bounds are enough. A channel of capacity 2 with more events than that reaches
full, evicted and drained channels, and the two clients make every order of offers;
a second task would only wait for the same lock, and the theorems about the stream
hold for any number of tasks, clients and capacity. Three entries with two keys make
every undo follow and precede another one; overlapping ones are the subject of their
own run. Batches of two with two or three rows reach a full batch, a last smaller one
and an empty table; two attempts are the least that show what the first left behind.
The comparison's inputs hold rows that repeat, rows equal only after normalisation,
keys that differ in spelling, and counts below and over the threshold. In the AI runs
three requests are needed for an answered message, a failed one and its repetition;
four for a reset between chats. Two old snapshots are the least an import can be half
done with, and three calls the least for one that creates, one that deletes and one that
imports meanwhile. Limits of two (history, failures, retries) are reached, exceeded and
reached again by the three or four calls above them. Four characters per sheet name
cut, clean and number names so that all ways of colliding occur. A conversation of five
questions under the smallest budgets drops rounds with and without SQL. Two overlapping
callers are enough where a promise is about one pair of steps; `ConnLibrary` and
`SqlConsole` have a third and a fourth so that one may undo what the pair relied on. One
commit of another session is all that can divide an instant in two, and the theorem
holds for any number.

Deadlock is not checked: tasks, requests, scripts, starts and exports end, and users
need not begin another.

Fairness. The Go scheduler runs every goroutine, so `WF` is on the steps of
goroutines and handlers in the two modules with liveness properties: `Publisher`,
`Goroutine` and `Stream` in `TaskRunner`, and every step of a chat or reset in
`AISession`. It assumes that statements, model calls and saves return, with an answer
or an error (all carry contexts or timeouts). Users, crashes, cancels, engine progress
and faults are under no obligation. A lock wait is weakly fair only: `RequestsEnd`
holds because the number of requests is bounded, so no request can be overtaken for
ever. All other components are checked for safety only: each call is one goroutine running
through finite loops, and its end is no question of order.

## What is proved

All theorems hold for every value of the constants that satisfies the assumptions the
modules name.

*Task runner* (`TaskProofs`). `TypeCorrect`: types, and no channel beyond its
capacity. `NewestEventKept`, `StreamsInOrder`, `EndedStreamsHoldFinal`, together
`StreamsHoldTheContract`: an open stream ends on the newest event, shows events in
order, and holds the final event once its task is gone. None of them is inductive
alone. `IInv` adds that the running table and the goroutine agree (`StageInv`), that a
subscriber set holds only connections not yet released (`SubsInv`), that a publication
in progress owes the event to current subscribers and has room where it just evicted
(`PubInv`), and that a stream still owed the event holds only older ones (`OwedInv`). The
last is the heart: evicting the oldest event cannot evict the newest, because the newest
is not there yet. The steps are classified once (`StepKinds`) and a stream is then
followed through the four ways it can change.

*Records* (`TaskProofs`). `SuccessIsAgreed`: the record and the final event say "done"
of the same tasks, under every fault. Its strengthening `VerdictInv` ties the verdict on its
way to the record, the record and the newest event to one outcome, and says no record is
terminal before the verdict is. `DeletedRecordsStay` needs that the running record could
be saved (`RecordKept`: a task that has still to write has its running record, which
a deletion refuses); `RecordsHoldTheContract` that no save fails and no engine panics (`RecordFinal`, `ToldByFinal`:
whoever was told a terminal state was told by a task that had saved it). Both assumptions
are necessary: the run `task_stream` has behaviours without them.
`RunnerImplementsLifecycle` is the refinement, for all faults and crashes: initial
states map to initial states, and each of the three kinds of steps (`TaskMoves`, `ClientMoves`,
`CrashMoves`) to a step of `TaskLifecycle` or a stutter. `FinalIsLatest` carries it: a final
event in a channel is the newest of its task, so a client that takes one takes the verdict.

*Import* (`ImportProofs`). `LossIsNoticed` and `FirstFailureCovered` hold for all packages. `ImportIsUndone`,
the contract of the run, holds for every fault where `PackagesFit`: in a database whose table exists no row is written and
no column redefined twice, and a paired rollback names the definition that was there. Both are needed: `import_overlap`
shows what becomes of a row written twice. A database without the table may get any packages: they create and fill it, or fail,
and it is gone again after the replay. Where the reading of old rows fails, `torn` holds the rows it did not
reach, and the statement says that these and no others are lost. Every package of `import_packages` fits. The invariant `UndoInv` is a
statement about tables, not about steps: what is collected, replayed on *any* table that has the column as it is, puts
back the rows K (`Lays`), the database agrees with its content before outside K, and K holds only keys of
entries already passed, so the next entry's keys are still as they were when it reads them. The replay is
a recursive function; `RunTo` says what its values are, and `ReplayOneMore` what another statement adds.

*Migration* (`MigrateProofs`). `TypeCorrect`; `ResetIsBackedUp`: no step empties or
drops a table unless its backup holds exactly its rows at that moment;
`OldDataKept`: during a first attempt with backup, every old row is in its table or
its backup until its database is done, for any number of databases none of which is copied into a
table selected for another. The inductive invariant says where the tables are that are not reached
yet (`LaterInv`, `UntouchedInv`: untouched), that the copy exists before a reset
(`CopiedInv`), and where the program counter can be (`PositionInv`). `TargetsAreRight` is the contract of a success: `PassedInv` says that
every table passed holds its source (`Whole`), `HereInv` that the table being filled holds the rows read so far
(`WriteAdds`: what a batch adds), `StaysInv` that without a reset no row goes but to one with its key, over all
attempts, and `BackupInv` that a first attempt knows the backups there are. It holds for `Regular` migrations: no
two sources go to one table; a key names one row of a source; backups can be dropped; and data alone is migrated only from tables with rows, since
nothing else notices that the table is missing. `migrate_databases` is one.

*Comparison* (`CompareProofs`). `TypeCorrect`; `TablesReported`: every selected table
of both sides is in exactly one result, for any aliases, provided names of one database
differ in more than case; `SummaryCorrect`: the counts put every result in one class.
`ReportIsComplete` joins the two into the property of the run.
The proof follows a table through `BuildPairs` (`SourcePaired`, `TargetPaired`: in
exactly one pair) and then through the loop (in `todo`, in `cur`, or in `results`).
`VerdictsAreSound`: each verdict is right for the rows of the two tables, for any tables and options. The rows of
a side are told apart by numbering those of one value (`CopiesNumbered`), so that equal counts, or equal keys that
occur once, are a one-to-one matching of all the rows and the other way round (`CountsMatch`, `MatchCounts`,
`BagsAreExact`, `KeyIsExact`); the invariant `VInv` says that each result is what was computed of its two
tables. The hypotheses are those under which a matching by key is one: keys that differ still differ after
normalisation (`KeysDiffer`), and a column is ignored in general or by one spelling of a bare table name (`IgnoresPlain`).

*Snapshots* (`ServiceProofs`). Every promise of the index, for any number of instances,
calls and entries: `TypeCorrect`, `MutexCorrect`, `MigratedIsComplete`,
`CreatedSnapshotKept`, `DeletedSnapshotGone`, `ListedCanBeOpened`, together
`IndexIsSound`. The inductive invariant follows an import (`Imported`: what lies
behind the position is in the index or asked to be deleted), a creation (`Creations`: its data is
there from the first step on) and a deletion (`Deletions`: only a finished creation is
deleted, so no step is left that could write it again). `ImportedOnce` is needed for the
old entries: with one instance and no failure, data goes only after the marker is set and
nothing is imported from then on. Two lemmas carry the cases: `Effects`, who writes what,
and `Targets`, where a step leads.

`ChangesAreSeen`: a comparison tells of each change once, whatever is edited meanwhile, also between the two queries that
read one table: what counts are the columns when they were read and the rows when they were counted. `DiffInv` says that the
snapshot holds of a table what its two readings found, or lists it as unsure (`TakenAsHeld`), and that a table of a database already
compared has exactly the verdict it should have, or was touched since (`TellInv`, `Settled`).

*AI sessions* (`SessionProofs`). `SessionIsSound`: for any requests, windows and scenarios, with every
fault, a msg_id occurs once in every object and in the stored row, the lock of an object is held by a
chat at work on it, and a window whose numbers are its own shows under a message only an
answer to it. The invariant (`IInv`) says who handed out a number (`Numbers`), that the
messages of all objects, of the row (`Objects`, `Stored`) and of what a request carries between two of
its steps (`Carried`) are well formed, what a window has on the way (`Views`, `Resends`), and what a chat
may do with the object it holds (`Hands`). The premise about numbers is needed: after a
reload a window counts from what the row holds, and two windows then give the same number.

`RoundsAreKept` proves `ConversationKept`: once nothing is going on, every answer a window shows is in the stored row, and
an emptied window has no answer behind it. Two invariants carry it. In a `Steady` scenario (any number of windows that send, stop and
reload; one window that resets) there is one object, and it and the row differ only by answers about to be saved (`RowBehind`)
or by a reset about to be stored (`RowAhead`, `ResetClears`). In an `Alone` scenario (one window, through restarts,
evictions and late answers; or retries where a rebuild succeeds) what the window shows is in the object and the row, and after a
retry has deleted both (`RowGone`) it is in what the request carries until the new object is saved (`InHand`). Lemmas say
that no step of the way to an object drops an answer (`AnswersAppended`, `DedupeKeeps`, `ShownKeeps`). The hypothesis, that each
scenario is one of these two or has failing saves, for which the property makes no promise, holds of every scenario
of the runs. Left out are their mixtures, an object dropped while several windows share it and a reset next to a restart, where the
code does lose answers (see below).

*Export* (`ServiceProofs`). `SnapshotIsOneInstant`: a database the log calls consistent has all
its sections from one instant, for any databases, cases and number of foreign commits.
`InstantInv` says that a database is opened once (`Opened`), that all rows of the open one were read
at the instant of its transaction, if it read at all (`OpenReads`), and that closed
ones keep theirs (`EachRead`). `FilesAreAsChosen`: a finished export has what was chosen, and tells what it has.
`ExportInv` says that each planned table is still to come, or was told of once with what the files have of it
(`TableDone`), and that of a database whose description could not be written the log knows; what was announced is what was done and what is still owed, counted as pairs of a database and a table or object (`Balanced`).

*Terminal* (`ServiceProofs`). `PromptTellsTheTruth`: `PromptInv` adds that an open client is
one of the prompt's database and that a reconnect would ask for the same one
(`Connected`); `infoDb` alone may be wrong, after a failed switch, exactly while there is no
client. `OneDialogue` keeps the assistant's conversation with it. `ReportsAreTrue`: a line is reported as done
only if it was executed, and executed again only over a new connection after a break.

*Launch* (`ServiceProofs`). `CredentialsSurvive`, for any number of processes, hosts and ports:
a listening service knows every start that may still overwrite its row (`RivalsPassed`), and
who wrote a row finds one ever after (`RowsKept`).

*Settings* (`ServiceProofs`). `SavesTakeEffect`: file, memory, directories and filter agree whenever
nobody saves (`SaveInv`: a saver on its way owes the places it has not reached), and the list of
providers is the saved one merged into the built-in ones (`ProvInv`: a reader inside the replaced
`sync.Once` is outdone by the reset after it). `AttemptsAreBounded`: the wrong tokens of a window are
the failures counted, and those of calls past the check (`LimitInv`).

*SQL* (`LibraryProofs`). `ReportsAddUp` counts table, rows inserted and rows deleted as sets of
<<request, statement, row>>, so that each statement moves as many elements as it reports, and one whose answer was lost
(`LostRows`) at most one. `AuditIsComplete` and
`FavoritesStayDeleted` follow each request through its steps; an entry the store refused is in `warned`, and nothing is there
unless the store fails. `ScriptsAreKept`: a trim deletes behind a boundary
read before; whatever is recorded or cleared in between is newer than that boundary or gone anyway.

*Saved tasks and commands* (`LibraryProofs`). `LastUsedIsRight`: as long as no calls meet on a kind, the rows a marking loaded
are still the rows of that kind when it writes them (`CalmInv`); once some have met, nothing is promised until all in
progress are over (`CallsInv`), and a call after that puts the mark right again. That an answer is always of its kind needs only the types.
`LastLayerWins`: at every step the options are a function of the layers (`OptsInv`), whatever the layers say together; the
cases in which a flag is `Outweighed`, and the file name that is kept, are part of the statement. `Layered` says only that a layer is of
the form the command line can give.

*Connections and cache* (`LibraryProofs`). `ChatsGoWithConnection` and `LibraryStaysInOrder` hold for every fault, key and
overlap of calls; the second needs that the stored short names differ at the start (`ShortsBegin`). A deletion looks its key up twice, and where
a lookup may fail or the key is a name the two may differ (`Strays`): the code then does remove one connection with the chats of
another, and the statements except that deletion alone. `LibInv` follows a deletion between its two lookups (`DeleteAim`) and
says of every chat without a connection which deletion will still take it or was misled (`Covers`). `AnswersAreOwn`
(`CacheInv`: a list in the cache, or on its way there, is of the
server it is filed under, and newer than the last invalidation its filler saw) holds where the
connections of a server are configured for one database (`OneDatabase`), since the cache's key is the server
alone. All cases of the run satisfy both.

*History and artifacts* (`ArtifactProofs`). `RecordsAreKept`: `HistoryInv` relates every record dropped to the
newer ones that began after it, for tasks that save late included. `DownloadsWork` and `DeletionIsClean` hold in every behaviour and rest
on `FilesInv`: where the files of every task are at each step of its job (`JobFiles`), of a deletion (`RemovalFiles`) and of its
record (`RowFiles`), while the artifact directory is moved entry by entry (`MoveShape`). Two things break the promise of the
code, and the statements say how far: a rename that fails (what was in the directories then is in `move.left`, and stays whole in one of
the two), and a change of directory or a cleaning of the work directory that meets a task at work, or a deletion half-way
(`caught`: that very task, no other).

*Library* (`LibraryProofs`). `NewestAreKept` puts the two histories together, as the run checks them: `EachPart` shows that
a behaviour of `Library` is one of each of its components. `LibraryTyped` is the types of all four. An invariant
each carries it: the artifact a job or a move holds, what a call on connections takes from step to step (`CarriesOk`),
where an SQL request is in its statements (`PlaceOf`) and that the rows its results count have a sum
(`TotalIsNumber`), and the rows a marking loaded (`TaskTyping`).

Assumptions. The modules name what the theorems assume of the constants; TLC evaluates each of them
on a run: sets of callers, tasks and requests are finite, limits are positive, scripts, rows, packages and cases are of the shape
the requests have (`SqlCasesAssumption`, `LibCasesAssumption`, `SettingsAssumption`, `ImportAssumption`, `DiffAssumption`, `ExportCasesAssumption`), the names of a
selection occur once (`JobsAssumption`), and a script has a statement, as the code requires (`sqlquery.go:747`).

Induction. The library's induction theorems take an operator as a parameter and cannot be
used. What a recursive function computes is proved instead from the least counterexample, or with
an inductive set (`NumberInduction`, `EveryNumber`, `SequenceInduction`, `LoopRuns` in the proof modules). What is computed by `SelectSeq`
or the folds of the community modules stays opaque, and so do RECURSIVE operators.

Only model-checked:
- liveness (`Settles`, `RequestsEnd`), which needs ENABLED;
- `PanelShowsAnswer`, `HistorySound`, `DropsByNeed`: `ThinkStream` and `ChatHistory` declare RECURSIVE operators;
- `LinksLead`: sheets are built by folds;
- `ServicesTypeOK`, which needs those of `ThinkStream` and `ChatHistory`: the invariants above contain the types their proofs need.

## What the code does that it says it does not

Each is a behaviour of the models; the first three have a run of their own.

- Entries of one package that write the same row: the rollback file restores the row
  as the first entry left it (`import_overlap`; `datapackage.go:219` against `:127`).
- A second attempt of a failed migration copies the half-filled table over the backup
  of the first (`migrate_retry_backup`; `reset.go:37` against `zh.ts:1446`).
- A table that could not be read counts as matched (`compare_unread`; `compare.go:1048`
  against `model.go:289`).

The next are stated as a property of their module that the model does not satisfy; no run
is kept for them.

- `SupportedAreConsistent` (`ExportRun`): the consistent snapshot is promised for MySQL and
  PostgreSQL (`cli/export.go:58`, `docs/CLI.md:331`, `model.go:85`), but the engine compares the
  connection's type with "postgres" (`exporter.go:258`, `268`), and it is "postgresql".
- `WritesConfirmed` (`Console`): a write is said to run after a confirmation and a generated one
  only after one (`CLI.md:192`, `:268`); `\g` runs the last statement, a generated one too, without
  it and without the check for forbidden statements (`engine.go:212`, `259`).
- `SkippedAreShown` (`SqlConsole`): statements after a failed one are said to be answered with
  placeholders (`sqlquery.go:731`); what `appendSkipped` returns is dropped by its caller
  (`:760`, `:771`), so the answer ends at the failed one.
- `FilterLimits` (`SnapshotDiff`): the comparison's list of tables is said to limit it
  (`model.go:440`); it limits the tables of the snapshot, and the database's others are reported as
  added (`snapshot_compare.go:116-171`).
- `WorkKeptUntilEnd` (`ArtifactStore`): the work directory that all exports to an object store share is
  cleaned when `StartExport` returns, not at the end of the task (`service.go:839`): a start that
  returns while an export is at work, its own or another, removes its files.
- `UrlIsCurrent` (`WebLaunch`): `dqex url` is said to give the current link at any time
  (`server.go:383`); the store keeps one row per address, also of services that have ended, where its
  comment says one row (`sqlite.go:500`), and hands out any of them.

The next are exceptions that a checked and proved property names:

- Downloads of the history are said always to work over a change of the artifact directory
  (`persist.go:149-152`), and after a failed rename old paths to lead to the old directory (`:175`).
  A rename that fails leaves what was moved in the new directory, what was not in the old one, no
  record rewritten, and the directory switched: logical paths then miss what stayed behind, real paths
  what was moved. A task at work during the change places its artifact in the old
  directory, and a record deleted during it is written back (`:218-224`). `DoneOpens` and
  `DeletedLeavesNothing` except `move.left` and `caught`.
- "Replayed as a whole they restore the state before" (`datapackage.go:127`): where DDL commits and reading
  the old rows fails after their DELETE was collected (`:223`), the rollback file deletes the rows not read;
  and where the package created the table its DROP is replayed before the DELETE of the rows it filled, which fails on the missing
  table: a client that stops there has undone this table, but not what follows in the file. `RestoreContract` names
  the rows (`torn`), and demands a replay without errors only where the table existed.
- Flags before the saved task before the file (`CLI.md:585`). Four exceptions (`LastGivenWins`): a
  named connection given by a flag beside an inline one of the layer below (`resolveConn` prefers the inline one);
  a database given alone beside an inline connection (`migrate.go:164`, `compare.go:112`); a condition on a table for which the layer below
  has one (`findCondition`, `conn.go:356`, takes the first); the file name of the configuration file, kept
  beside a saved task with another path (`export.go:83`, `:97`, and the dictionary alike).
- An audit entry that cannot be written is only logged and the request goes on (`sql.go:41-43`): the
  trail can miss a statement that was executed (`AuditComplete`: `warned`).
- A statement whose answer is lost is reported as failed although it may have been executed
  (`ReportedExactly`: one row of doubt each); its audit entry says so too.
- The mark of the last used configuration after calls that overlapped (`service.go:1189-1254`,
  `sqlite.go:347-358`): two rows may be marked, or none, or a deleted row be back, since a marking writes back the
  rows it had loaded (`LastUsedIsLatest`: `clash`).
- `DeleteConnection` looks its key up twice; where a lookup fails to read (`LoadConns` returns nothing,
  `sqlite.go:196-200`), or a name changes hands in between, it removes one connection with the chats and tabs of another,
  or those alone (`KeptWithConnection`: `Strays`).
- A description file that cannot be written is only logged (`exporter.go:439-441`), and packages have
  none (`exporter_json.go`) (`FilesMatchChoice`: `leftOut.descs`, `HasDescription`).
- The metadata cache of a server is shared by connections that may see different databases
  (`service.go:67`); `AnswerIsOwn` is what still holds.

Further ones, visible in the models:

- A client that subscribes between the saved running record and the registration of
  the task, or after a restart, is answered "done" with state running (`SubscribeMiss`
  and `Replay`; `sse.go:54` promises the terminal state). A panic also leaves its record
  running; a cancel between `DecideRecord` and `PublishFinal` saves "error" and streams
  "cancelled".
- A later package of an import that fails leaves earlier ones committed, and without a file when it is
  refused before it begins (`importer.go:384`).
- Backups of a database are dropped before later databases are migrated; the backup of
  an earlier attempt stays; a drop with data only loses the table when the source is
  empty; a backup that cannot be dropped stays (fault "cleanup" of `TableMigrate`). A cancel
  while views and procedures are migrated ends that loop only (`migrator.go:292`).
- Ignored columns of an alias that names its database are not applied (`IgnoredIn`);
  rows whose keys are equal only after normalisation count as the first of them (`RowsByKey`); tables without
  common columns count as different data; of two names that differ only in case, one is lost (`compare.go:310`).
- AI sessions: a tab closed while its answer is being saved leaves its row
  (`DeleteRowByTab` before `SaveChat`); two windows that rebuild a session after a
  restart overwrite one another's answers; a retry deletes the row before a rebuild
  that may fail; a reset saves after releasing the lock, so that a queued message is
  saved with it; the panel takes a failed reset for a success; after a reload a msg_id
  may be given twice; the limit of 32 sessions is not enforced while all are active,
  and a chat in progress may be evicted. The instances of `ai_sessions` leave out
  exactly the combinations that lead there: the panel with restarts and evictions has no
  reset, the two panels have no restart. The branch of `groupHasSQL` for `get_schema` is never taken (`ai.go:1136`).
- The import of the old snapshot index is said to converge when it is repeated
  (`snapshot.go:113`). A deletion goes on when the import before it failed
  (`BeginDelete`, `GiveUp`), and another instance may be importing: the entry deleted in
  between is imported again, and is listed although its data is gone. `ListedHasData`
  holds for new snapshots always, for old ones only where `Alone` does.
- Two overlapping savings of connections, or one that cannot read the others, may give two the same
  short name (`ShortsUnique` excludes both). A browser that stores a chat or its tabs for a connection deleted
  meanwhile leaves them without one; `Attach` is of connections that exist. Two sheet names that differ only in case may collide (`dictionary.go:681`).

## Abstractions

Rows, names, messages and answers are model values, except where their characters
are the subject (`ThinkStream`, `DataDictionary`). A table of an import has one
column definition and rows by key; DDL translation, literals and wording are left out. A
model's answer is tagged with the request and the question it answers. One user and one
session id; the checks of ownership always succeed. The databases that are compared with
each other stand still, those that are exported or compared with a snapshot do not. The
cache of `ConnLibrary`, the operating system's ports and signals, and the database servers are outside
this repository and modelled by what the code relies on. Percentages, log lines and samples are left out.

## Plan

Done: every module above. What is left, in this order:

1. `ChatHistory` inside `AISession`: trimming while another request waits for the lock.
2. `SqlConsole` with the connection deleted meanwhile, joined with `ConnLibrary`.
3. Comparison of databases that change while both sides are read
   (`compare.go:526`).
4. The web client's saved workspace.

## Not modelled

SQL generation and dialects (`internal/engine/sqlgen.go`, `sqltext.go`): text out of tables and options, with no state
and no order of steps; a model would be a transliteration. Encryption of stored secrets and
the migration of the store's schema: bytes, and statements that run once before anything else.
Help texts, rendering and translations. The library facade, which delegates. The prompts and the HTTP client of the
model. Layout, forms and the persisted workspace of the web client; its task and assistant panels
are in `TaskRunner` and `AISession`. Hazards that no property covers are listed in `PROJECT.json` with the
reason; each component there has its state.
