--------------------------- MODULE ArtifactProofs ---------------------------
(***************************************************************************)
(* What is proved of the execution history and of the files tasks leave    *)
(* behind, for any tasks, any number of records kept and any case.         *)
(***************************************************************************)
EXTENDS ArtifactStore, FiniteSetTheorems, FunctionTheorems, TLAPS

-----------------------------------------------------------------------------
(* The history: one record a task, and a record leaves only by deletion or     *)
(* behind MaxHistory newer ones.                                             *)

After(S, t) == {u \in ArtTasks : S[u] > S[t]}
OneRowEach(all) == /\ \A q \in all : q.task \in ArtTasks
                   /\ \A q, n \in all : q.task = n.task => q = n
IsRemoval(x) == x = [step |-> x.step, path |-> x.path]
Gone(t) == \A q \in rows : q.task # t

HistoryInv ==
    /\ OneRowEach(rows)
    /\ startedAt \in [ArtTasks -> Nat]
    /\ \A t \in ArtTasks : job[t] = "new" => startedAt[t] = 0
    /\ job = [t \in ArtTasks |-> job[t]]
    /\ removal = [t \in ArtTasks |-> removal[t]]
    /\ \A t \in ArtTasks : IsRemoval(removal[t])
    /\ \A r \in move.seen : r.task \in ArtTasks
    /\ \A t \in ArtTasks : startedAt[t] > 0 /\ Gone(t) /\ removal[t].step = "no" =>
         Cardinality(After(startedAt, t)) >= MaxHistory

(* As many newer records as newer tasks, at most.                            *)
LEMMA NewerRowsNewerTasks ==
  ASSUME NEW all, OneRowEach(all), NEW S \in [ArtTasks -> Nat], NEW t \in ArtTasks
  PROVE  Cardinality({n \in all : S[n.task] > S[t]}) <= Cardinality(After(S, t)) /\ Cardinality(After(S, t)) \in Nat
         /\ Cardinality({n \in all : S[n.task] > S[t]}) \in Nat
<1> DEFINE A == {n \in all : S[n.task] > S[t]}
           T == {n.task : n \in A}
           f == [u \in T |-> CHOOSE n \in A : n.task = u]
<1>1. IsFiniteSet(After(S, t)) /\ T \subseteq After(S, t)
  <2>1. IsFiniteSet(ArtTasks) /\ After(S, t) \subseteq ArtTasks
    BY MaxHistoryAssumption DEF After
  <2>2. IsFiniteSet(After(S, t))
    BY <2>1, FS_Subset, Zenon
  <2>3. T \subseteq After(S, t)
    BY DEF After, OneRowEach
  <2> QED
    BY <2>2, <2>3
<1>2. IsFiniteSet(T) /\ Cardinality(T) <= Cardinality(After(S, t))
  BY <1>1, FS_Subset, Zenon
<1>3. \A n \in A : f[n.task] = n
  <2> SUFFICES ASSUME NEW n \in A PROVE f[n.task] = n
    OBVIOUS
  <2>1. n.task \in T /\ f[n.task] \in A /\ f[n.task].task = n.task
    OBVIOUS
  <2> QED
    BY <2>1 DEF OneRowEach
<1>4. f \in Surjection(T, A)
  <2>1. f \in [T -> A]
    OBVIOUS
  <2>2. ASSUME NEW n \in A PROVE \E u \in T : f[u] = n
    <3>1. n.task \in T /\ f[n.task] = n
      BY <1>3
    <3> HIDE DEF f, T, A
    <3> QED
      BY <3>1
  <2> HIDE DEF f, T, A
  <2> QED
    BY <2>1, <2>2 DEF Surjection
<1>5. IsFiniteSet(A) /\ Cardinality(A) <= Cardinality(T)
  <2> HIDE DEF f, T, A
  <2> QED
    BY <1>2, <1>4, FS_Surjection, Zenon
<1>6. Cardinality(A) \in Nat /\ Cardinality(T) \in Nat /\ Cardinality(After(S, t)) \in Nat
  <2> HIDE DEF f, T, A
  <2> QED
    BY <1>1, <1>2, <1>5, FS_CardinalityType, Zenon
<1> HIDE DEF T
<1> QED
  BY <1>2, <1>5, <1>6

(* SaveHistory: what it keeps, and what it lets go.                          *)
LEMMA TrimKeepsNewest ==
  ASSUME NEW r, HistoryInv, r.task \in ArtTasks, SaveHistory(r), startedAt' \in [ArtTasks -> Nat]
  PROVE  /\ OneRowEach(rows')
         /\ \A t \in ArtTasks : Gone(t)' /\ (t = r.task \/ ~Gone(t)) =>
              Cardinality(After(startedAt', t)) >= MaxHistory
<1> DEFINE all == {q \in rows : q.task # r.task} \cup {r}
<1> PICK S \in [ArtTasks -> Nat] : S = startedAt'
  OBVIOUS
<1>1. OneRowEach(all)
  BY DEF HistoryInv, OneRowEach
<1>2. rows' = {q \in all : Cardinality({n \in all : S[n.task] > S[q.task]}) < MaxHistory}
  BY DEF SaveHistory, Newest
<1>3. OneRowEach(rows')
  BY <1>1, <1>2 DEF OneRowEach
<1>4. ASSUME NEW t \in ArtTasks, Gone(t)', t = r.task \/ ~Gone(t)
      PROVE  Cardinality(After(S, t)) >= MaxHistory
  <2> PICK q \in all : q.task = t
    BY <1>4 DEF Gone
  <2>1. q \notin rows'
    BY <1>4 DEF Gone
  <2>2. ~(Cardinality({n \in all : S[n.task] > S[t]}) < MaxHistory)
    BY <1>2, <2>1
  <2>3. /\ Cardinality({n \in all : S[n.task] > S[t]}) <= Cardinality(After(S, t))
        /\ Cardinality(After(S, t)) \in Nat /\ Cardinality({n \in all : S[n.task] > S[t]}) \in Nat
    <3> HIDE DEF all
    <3> QED
      BY <1>1, NewerRowsNewerTasks
  <2> HIDE DEF all
  <2> QED
    BY <2>2, <2>3, MaxHistoryAssumption
<1> QED
  BY <1>3, <1>4

LEMMA LaterStarts ==
  ASSUME startedAt \in [ArtTasks -> Nat], startedAt' \in [ArtTasks -> Nat], NEW t \in ArtTasks,
         \A u \in ArtTasks : startedAt'[u] >= startedAt[u] /\ startedAt'[t] = startedAt[t]
  PROVE  Cardinality(After(startedAt, t)) <= Cardinality(After(startedAt', t))
         /\ Cardinality(After(startedAt, t)) \in Nat /\ Cardinality(After(startedAt', t)) \in Nat
<1> PICK S \in [ArtTasks -> Nat] : S = startedAt'
  OBVIOUS
<1>1. IsFiniteSet(ArtTasks) /\ After(S, t) \subseteq ArtTasks /\ After(startedAt, t) \subseteq After(S, t)
  BY MaxHistoryAssumption DEF After
<1>2. IsFiniteSet(After(S, t))
  BY <1>1, FS_Subset, Zenon
<1> QED
  BY <1>1, <1>2, FS_Subset, FS_CardinalityType

LEMMA HistoryStep == HistoryInv /\ [ArtNext]_artVars => HistoryInv'
<1> SUFFICES ASSUME HistoryInv, [ArtNext]_artVars PROVE HistoryInv'
  OBVIOUS
<1>1. ASSUME rows' = rows, startedAt' = startedAt, job' = job, removal' = removal, move'.seen \subseteq move.seen
      PROVE  HistoryInv'
  BY <1>1 DEF HistoryInv, OneRowEach, Gone, After
<1>2. CASE UNCHANGED artVars
  BY <1>1, <1>2 DEF artVars
<1>3. ASSUME NEW t \in ArtTasks, Start(t) PROVE HistoryInv'
  <2> PICK k : k = 1 + Cardinality({u \in ArtTasks : startedAt[u] > 0})
    OBVIOUS
  <2>1. /\ job[t] = "new" /\ job' = [job EXCEPT ![t] = "started"] /\ startedAt' = [startedAt EXCEPT ![t] = k]
        /\ removal' = removal /\ move' = move
    BY <1>3 DEF Start
  <2>2. k \in Nat
    <3>1. IsFiniteSet(ArtTasks) /\ {u \in ArtTasks : startedAt[u] > 0} \subseteq ArtTasks
      BY MaxHistoryAssumption
    <3>2. Cardinality({u \in ArtTasks : startedAt[u] > 0}) \in Nat
      BY <3>1, FS_Subset, FS_CardinalityType, Zenon
    <3> QED
      BY <3>2
  <2>3. startedAt[t] = 0 /\ startedAt \in [ArtTasks -> Nat] /\ startedAt' \in [ArtTasks -> Nat]
    BY <2>1, <2>2 DEF HistoryInv
  <2>4. \A u \in ArtTasks : startedAt'[u] >= startedAt[u] /\ (u # t => startedAt'[u] = startedAt[u])
    BY <2>1, <2>2, <2>3
  <2> PICK r : r = Row(t, "running", NoPath)
    OBVIOUS
  <2>5. r.task = t /\ SaveHistory(r)
    BY <1>3 DEF Start, Row
  <2>6. /\ OneRowEach(rows')
        /\ \A u \in ArtTasks : Gone(u)' /\ (u = t \/ ~Gone(u)) => Cardinality(After(startedAt', u)) >= MaxHistory
    BY <2>3, <2>5, TrimKeepsNewest
  <2>7. ASSUME NEW u \in ArtTasks, startedAt'[u] > 0, Gone(u)', removal'[u].step = "no"
        PROVE  Cardinality(After(startedAt', u)) >= MaxHistory
    <3>1. CASE u = t \/ ~Gone(u)
      BY <2>6, <2>7, <3>1
    <3>2. CASE u # t /\ Gone(u)
      <4>1. startedAt[u] > 0 /\ startedAt'[u] = startedAt[u] /\ removal[u].step = "no"
        BY <2>1, <2>4, <2>7, <3>2
      <4>2. Cardinality(After(startedAt, u)) >= MaxHistory
        BY <3>2, <4>1 DEF HistoryInv
      <4>3. /\ Cardinality(After(startedAt, u)) <= Cardinality(After(startedAt', u))
            /\ Cardinality(After(startedAt, u)) \in Nat /\ Cardinality(After(startedAt', u)) \in Nat
        BY <2>3, <2>4, <4>1, LaterStarts
      <4> QED
        BY <4>2, <4>3, MaxHistoryAssumption
    <3> QED
      BY <3>1, <3>2
  <2>8. job' = [u \in ArtTasks |-> job'[u]] /\ (\A u \in ArtTasks : job'[u] = "new" => startedAt'[u] = 0)
    BY <2>1 DEF HistoryInv
  <2>9. removal' = [u \in ArtTasks |-> removal'[u]] /\ (\A u \in ArtTasks : IsRemoval(removal'[u])) /\ \A q \in move'.seen : q.task \in ArtTasks
    BY <2>1 DEF HistoryInv
  <2> QED
    BY <2>3, <2>6, <2>7, <2>8, <2>9 DEF HistoryInv
<1>4. ASSUME NEW r, r.task \in ArtTasks, startedAt' = startedAt, SaveHistory(r), removal' = removal,
             move'.seen \subseteq move.seen, job' = [t \in ArtTasks |-> job'[t]],
             \A t \in ArtTasks : job'[t] = "new" => job[t] = "new"
      PROVE  HistoryInv'
  <2>1. startedAt' \in [ArtTasks -> Nat]
    BY <1>4 DEF HistoryInv
  <2>2. /\ OneRowEach(rows')
        /\ \A u \in ArtTasks : Gone(u)' /\ (u = r.task \/ ~Gone(u)) => Cardinality(After(startedAt', u)) >= MaxHistory
    BY <1>4, <2>1, TrimKeepsNewest
  <2> QED
    BY <1>4, <2>1, <2>2 DEF HistoryInv
<1>5. ASSUME NEW t \in ArtTasks, SaveFinal(t) PROVE HistoryInv'
  <2> PICK r : r = IF job[t] = "placed" THEN Row(t, "done", output[t]) ELSE Row(t, "error", NoPath)
    OBVIOUS
  <2>1. r.task = t /\ SaveHistory(r)
    BY <1>5 DEF SaveFinal, Row
  <2>2. startedAt' = startedAt /\ removal' = removal /\ move' = move /\ job' = [job EXCEPT ![t] = "ended"]
    BY <1>5 DEF SaveFinal
  <2>3. job' = [u \in ArtTasks |-> job'[u]] /\ \A u \in ArtTasks : job'[u] = "new" => job[u] = "new"
    BY <2>2 DEF HistoryInv
  <2> QED
    BY <1>4, <2>1, <2>2, <2>3
<1>6. ASSUME NEW r \in move.seen, RewriteRow(r) PROVE HistoryInv'
  <2> PICK q : q = [r EXCEPT !.path.at.area = "new"]
    OBVIOUS
  <2>1. SaveHistory(q) /\ startedAt' = startedAt /\ removal' = removal /\ job' = job
    BY <1>6 DEF RewriteRow
  <2>2. q.task = r.task /\ r.task \in ArtTasks
    BY DEF HistoryInv
  <2>3. move'.seen \subseteq move.seen
    BY <1>6 DEF RewriteRow
  <2> QED
    BY <1>4, <2>1, <2>2, <2>3 DEF HistoryInv
<1>7. ASSUME NEW t \in ArtTasks, DeleteRow(t) PROVE HistoryInv'
  <2>1. /\ rows' = rows \ RowOf(t) /\ removal' = [removal EXCEPT ![t].step = "file"]
        /\ startedAt' = startedAt /\ job' = job /\ move' = move
    BY <1>7 DEF DeleteRow, fileVars
  <2>2. OneRowEach(rows')
    BY <2>1 DEF HistoryInv, OneRowEach
  <2>3. \A u \in ArtTasks : Gone(u)' /\ removal'[u].step = "no" => Gone(u) /\ removal[u].step = "no"
    BY <2>1 DEF Gone, HistoryInv, RowOf
  <2>4. removal' = [u \in ArtTasks |-> removal'[u]] /\ \A u \in ArtTasks : IsRemoval(removal'[u])
    BY <2>1 DEF HistoryInv, IsRemoval
  <2> QED
    BY <2>1, <2>2, <2>3, <2>4 DEF HistoryInv, After
<1>8. ASSUME NEW t \in ArtTasks, BeginDelete(t) \/ RemoveArtifact(t) PROVE HistoryInv'
  <2>1. /\ rows' = rows /\ startedAt' = startedAt /\ job' = job /\ move' = move
        /\ \E x : removal' = [removal EXCEPT ![t] = x] /\ x.step # "no" /\ IsRemoval(x)
    <3>1. CASE BeginDelete(t)
      <4>1. PICK r : r \in RowOf(t) /\ removal' = [removal EXCEPT ![t] = [step |-> "row", path |-> r.path]]
        BY <3>1 DEF BeginDelete
      <4> PICK x : x = [step |-> "row", path |-> r.path]
        OBVIOUS
      <4>2. x.step = "row" /\ removal' = [removal EXCEPT ![t] = x] /\ IsRemoval(x)
        BY <4>1 DEF IsRemoval
      <4>3. rows' = rows /\ startedAt' = startedAt /\ job' = job /\ move' = move
        BY <3>1 DEF BeginDelete
      <4> QED
        BY <4>2, <4>3
    <3>2. CASE RemoveArtifact(t)
      <4>1. \E s \in {"gone", "left"} : removal' = [removal EXCEPT ![t].step = s]
        BY <3>2 DEF RemoveArtifact
      <4> PICK s \in {"gone", "left"} : removal' = [removal EXCEPT ![t].step = s]
        BY <4>1
      <4> PICK x : x = [removal[t] EXCEPT !.step = s]
        OBVIOUS
      <4>2. x.step = s /\ removal' = [removal EXCEPT ![t] = x] /\ IsRemoval(x)
        BY DEF HistoryInv, IsRemoval
      <4>3. rows' = rows /\ startedAt' = startedAt /\ job' = job /\ move' = move
        BY <3>2 DEF RemoveArtifact
      <4> QED
        BY <4>2, <4>3
    <3> QED
      BY <1>8, <3>1, <3>2
  <2> PICK x : removal' = [removal EXCEPT ![t] = x] /\ x.step # "no" /\ IsRemoval(x)
    BY <2>1
  <2>2. \A u \in ArtTasks : removal'[u].step = "no" => removal[u].step = "no"
    BY DEF HistoryInv
  <2>3. removal' = [u \in ArtTasks |-> removal'[u]] /\ \A u \in ArtTasks : IsRemoval(removal'[u])
    BY DEF HistoryInv
  <2> QED
    BY <2>1, <2>2, <2>3 DEF HistoryInv, OneRowEach, Gone, After
<1>9. ASSUME NEW t \in ArtTasks, Engine(t) \/ Relocate(t) \/ KeepPath(t) \/ SaveReport(t) PROVE HistoryInv'
  <2>1. /\ rows' = rows /\ startedAt' = startedAt /\ removal' = removal /\ move' = move
        /\ \E s : s # "new" /\ job' = [job EXCEPT ![t] = s]
    <3>1. ASSUME NEW a, NEW s, s # "new", ArtStep(t, a, s)
          PROVE  /\ rows' = rows /\ startedAt' = startedAt /\ removal' = removal /\ move' = move
                 /\ \E z : z # "new" /\ job' = [job EXCEPT ![t] = z]
      BY <3>1 DEF ArtStep
    <3>2. CASE Fail(t)
      BY <3>2 DEF Fail
    <3>3. CASE \E a, s : s # "new" /\ ArtStep(t, a, s)
      BY <3>1, <3>3
    <3>4. MakeBase(t) => ArtStep(t, "started", "based")
      BY DEF MakeBase
    <3>5. Dump(t) => ArtStep(t, "based", "dumped")
      BY DEF Dump
    <3>6. Contribute(t) => ArtStep(t, "dumped", "added")
      BY DEF Contribute
    <3>7. Pack(t) => ArtStep(t, IF kind(t) = "book" THEN "dumped" ELSE "added", "packed")
      BY DEF Pack
    <3>8. RunImport(t) \/ RunMigrate(t) \/ RunCompare(t) => ArtStep(t, "started", "packed")
      BY DEF RunImport, RunMigrate, RunCompare
    <3>9. Relocate(t) \/ KeepPath(t) \/ SaveReport(t) => ArtStep(t, "packed", "placed")
      BY DEF Relocate, KeepPath, SaveReport
    <3> QED
      BY <1>9, <3>2, <3>3, <3>4, <3>5, <3>6, <3>7, <3>8, <3>9 DEF Engine
  <2> PICK s : s # "new" /\ job' = [job EXCEPT ![t] = s]
    BY <2>1
  <2>2. job' = [u \in ArtTasks |-> job'[u]] /\ \A u \in ArtTasks : job'[u] = "new" => job[u] = "new"
    BY DEF HistoryInv
  <2> QED
    BY <2>1, <2>2 DEF HistoryInv, OneRowEach, Gone, After
<1>10. ASSUME NEW t \in ArtTasks, Return(t) PROVE HistoryInv'
  BY <1>1, <1>10 DEF Return
<1>11. ASSUME BeginUpdate \/ LoadRows \/ SwitchDirs \/ (\E p \in move.todo : MoveEntry(p) \/ MoveFails(p)) PROVE HistoryInv'
  <2>1. rows' = rows /\ startedAt' = startedAt /\ job' = job /\ removal' = removal
    BY <1>11 DEF BeginUpdate, LoadRows, SwitchDirs, MoveEntry, MoveFails
  <2>2. \A r \in move'.seen : r.task \in ArtTasks
    <3>1. CASE BeginUpdate
      BY <3>1 DEF BeginUpdate, Idle
    <3>2. CASE LoadRows
      BY <3>2 DEF LoadRows, Idle, HistoryInv, OneRowEach
    <3>3. CASE SwitchDirs
      BY <3>3 DEF SwitchDirs, Idle
    <3>4. ASSUME NEW p \in move.todo, MoveEntry(p) PROVE move'.seen = move.seen
      BY <3>4 DEF MoveEntry
    <3>5. ASSUME NEW p \in move.todo, MoveFails(p) PROVE move'.seen = {}
      BY <3>5 DEF MoveFails, Idle
    <3> QED
      BY <1>11, <3>1, <3>2, <3>3, <3>4, <3>5 DEF HistoryInv
  <2> QED
    BY <2>1, <2>2 DEF HistoryInv, OneRowEach, Gone, After
<1>12. ASSUME NEW t \in ArtTasks, StartExport(t) \/ StartDictionary(t) \/ StartImport(t) \/ StartMigrate(t) \/ StartCompare(t)
       PROVE  HistoryInv'
  BY <1>3, <1>12 DEF StartExport, StartDictionary, StartImport, StartMigrate, StartCompare
<1> QED
  BY <1>2, <1>5, <1>6, <1>7, <1>8, <1>9, <1>10, <1>11, <1>12 DEF ArtNext, ArtActs, Update

LEMMA HistoryStart == ArtInit => HistoryInv
<1> SUFFICES ASSUME ArtInit PROVE HistoryInv
  OBVIOUS
<1>1. rows = {} /\ startedAt = [t \in ArtTasks |-> 0] /\ move.seen = {} /\ job = [t \in ArtTasks |-> "new"]
      /\ removal = [t \in ArtTasks |-> [step |-> "no", path |-> NoPath]]
  BY DEF ArtInit, Idle
<1> QED
  BY <1>1 DEF HistoryInv, OneRowEach, IsRemoval

(* A record leaves the history only when it is deleted, or when MaxHistory      *)
(* newer tasks began: whichever tasks run at once, and whatever is deleted     *)
(* or written anew meanwhile (SaveHistory, trimHistory, UpdateDirs).           *)
THEOREM RecordsAreKept == ArtSpec => []NewestKept
<1>1. HistoryInv => NewestKept
  BY DEF HistoryInv, NewestKept, Gone, RowOf, After
<1> QED
  BY <1>1, HistoryStart, HistoryStep, PTL DEF ArtSpec

-----------------------------------------------------------------------------
(* The files: at every step a task's artifact is in one place, and whole.      *)

FilesOf(t) == {x \in disk : x.at.of = t}
AllAt(t, p, parts) == (\A x \in FilesOf(t) : x.at = p) /\ Held(p) = parts
Moving      == move.step \in {"move", "rewrite"}
Managed     == {"old", "new"}

(* Where a place of the old directory is by now.                             *)
Now(p)      == IF Moving /\ p.area = "old" /\ p \notin move.todo THEN Place("new", p.of, p.form) ELSE p

RealPath(path, t) == path.how = "real" /\ path = Real(Place(path.at.area, t, path.at.form))
ProperPath(path, t, areas) ==
    \/ path = Logical /\ kind(t) # "import"
    \/ RealPath(path, t) /\ IF kind(t) = "import" THEN path.at = Place("user", t, "file") ELSE path.at.area \in areas

Progress(t) == IF job[t] = "based" THEN {"base"} ELSE IF job[t] = "dumped" THEN {"base", "db"} ELSE {"base", "db", "extra"}
WorkArea(t) == IF UsesWork(t) THEN "work" ELSE exportDir

JobFiles(t) ==
    /\ job[t] \in {"new", "started"} => FilesOf(t) = {} /\ output[t] = NoPath
    /\ job[t] = "started" /\ kind(t) \in {"zip", "dir", "book"} => (outArea[t] = "work" <=> UsesWork(t))
    /\ job[t] \in {"based", "dumped", "added"} =>
         /\ kind(t) \in {"zip", "dir", "book"} /\ (job[t] = "added" => kind(t) # "book")
         /\ output[t] = NoPath /\ outArea[t] = WorkArea(t)
         /\ AllAt(t, Base(t), Progress(t))
    /\ job[t] \in {"packed", "placed"} /\ output[t] # NoPath =>
         /\ ProperPath(output[t], t, {IF job[t] = "packed" THEN WorkArea(t) ELSE exportDir})
         /\ AllAt(t, Leads(output[t], t), Whole(t))
    /\ job[t] = "packed" /\ output[t] = NoPath => FilesOf(t) = {}
    /\ job[t] = "packed" /\ kind(t) \in {"zip", "book"} => output[t] = Real(Place(WorkArea(t), t, "file"))
    /\ job[t] = "packed" /\ kind(t) = "report" => output[t] = NoPath

RemovalFiles(t) ==
    /\ removal[t].step \in {"no", "row", "file", "gone", "left"}
    /\ removal[t].step # "no" => job[t] = "ended"
    /\ removal[t].step \in {"row", "file"} /\ removal[t].path # NoPath =>
         ProperPath(removal[t].path, t, {exportDir}) /\ AllAt(t, Leads(removal[t].path, t), Whole(t))
    /\ removal[t].step = "gone" /\ removal[t].path # NoPath =>
         /\ \A x \in FilesOf(t) : x.at.area = "user"
         /\ kind(t) = "import" => Held(Place("user", t, "file")) # {}

RowFiles(r) ==
    /\ r.status # "running" => job[r.task] = "ended"
    /\ removal[r.task].step \in {"no", "row"}
    /\ r.path # NoPath =>
         /\ r.status = "done"
         /\ ProperPath(r.path, r.task, {"old", "new"})
         /\ AllAt(r.task, Now(Leads(r.path, r.task)), Whole(r.task))
         /\ RealPath(r.path, r.task) /\ r.path.at.area = "old" =>
              exportDir = "old" /\ (move.step = "rewrite" => r \in move.seen)
         /\ RealPath(r.path, r.task) /\ r.path.at.area = "new" => exportDir = "new" \/ move.step = "rewrite"

TaskFiles(t) ==
    /\ JobFiles(t) /\ RemovalFiles(t) /\ \A r \in rows \cup move.seen : r.task = t => RowFiles(r)
    /\ move.step = "switch" => \A x \in FilesOf(t) : x.at.area \notin Managed

(* What a failed rename left where it was: one of the two directories holds    *)
(* it, and the directory that logical paths lead to may be the other one.      *)
Stranded(t) ==
    /\ job[t] \notin {"new", "started", "based", "dumped", "added", "packed", "placed"} /\ (removal[t].step # "no" => job[t] = "ended")
    /\ \A r \in rows : r.task = t =>
         /\ r.status # "running" => job[t] = "ended"
         /\ removal[t].step \in {"no", "row"}
         /\ r.path # NoPath =>
              r.status = "done" /\ \E p : p.of = t /\ p.area \in Managed /\ AllAt(t, p, Whole(t))

Accounted(t) == IF t \in move.left THEN Stranded(t) ELSE TaskFiles(t)

(* A path names a place of its own task, whatever has met that task.           *)
OwnPath(path, t) == path.how = "real" => path = Real(Place(path.at.area, t, path.at.form))

LEMMA OwnPathIs == ASSUME NEW path, NEW t, OwnPath(path, t), path.how = "real" PROVE path.at.of = t
<1> PICK a, f : path = Real(Place(a, t, f))
  BY DEF OwnPath
<1> QED
  BY DEF Real, Place

OwnPaths(t) ==
    /\ OwnPath(output[t], t) /\ OwnPath(removal[t].path, t)
    /\ job[t] = "packed" /\ kind(t) \in {"zip", "book"} => output[t].how = "real"

FileShapes ==
    /\ job = [t \in ArtTasks |-> job[t]] /\ output = [t \in ArtTasks |-> output[t]]
    /\ outArea = [t \in ArtTasks |-> outArea[t]]
    /\ removal = [t \in ArtTasks |-> removal[t]] /\ \A t \in ArtTasks : IsRemoval(removal[t])
    /\ \A r \in rows \cup move.seen : r.task \in ArtTasks /\ r = Row(r.task, r.status, r.path) /\ OwnPath(r.path, r.task)
    /\ \A x \in disk : x.at = Place(x.at.area, x.at.of, x.at.form)
    /\ \A t \in ArtTasks : OwnPaths(t)

MoveShape ==
    /\ move = [step |-> move.step, todo |-> move.todo, seen |-> move.seen, left |-> move.left]
    /\ move.step \in {"idle", "move", "rewrite", "switch", "half", "done"}
    /\ exportDir = IF move.step \in {"half", "done"} THEN "new" ELSE "old"
    /\ \A p \in move.todo : p.area = "old"
    /\ move.step # "move" => move.todo = {}
    /\ move.step # "rewrite" => move.seen = {}
    /\ move.step \notin {"switch", "half"} => move.left = {}
    /\ \A r \in move.seen : r.path.how = "real" /\ r.path.at.area = "old"

FilesInv ==
    /\ FileShapes /\ MoveShape
    /\ \A t \in ArtTasks : Caught(t) => t \in caught
    /\ \A t \in ArtTasks : t \notin caught => Accounted(t)

(* A task that nothing has met at work, and where it can be.                  *)
LEMMA Spared ==
  ASSUME FilesInv, Notice, NEW t \in ArtTasks, t \notin caught'
  PROVE  t \notin caught /\ Accounted(t) /\ ~Caught(t) /\ ~Caught(t)'
  BY DEF FilesInv, Notice

LEMMA SparedAtWork ==
  ASSUME FilesInv, Notice, NEW t \in ArtTasks, t \notin caught',
         job[t] \in {"new", "started", "based", "dumped", "added", "packed", "placed"}
  PROVE  /\ t \notin move.left /\ JobFiles(t) /\ RemovalFiles(t) /\ removal[t].step = "no"
         /\ \A r \in rows \cup move.seen : r.task = t => RowFiles(r)
<1>1. Accounted(t)
  BY Spared
<1>2. t \notin move.left /\ TaskFiles(t)
  BY <1>1 DEF Accounted, Stranded
<1> QED
  BY <1>2 DEF TaskFiles, RemovalFiles

LEMMA SameFiles ==
  ASSUME NEW t, FilesOf(t)' = FilesOf(t)
  PROVE  /\ \A p : p.of = t => At(p)' = At(p)
         /\ \A p : p.of = t => Held(p)' = Held(p)
         /\ \A p, ps : p.of = t => (AllAt(t, p, ps)' <=> AllAt(t, p, ps))
<1>1. ASSUME NEW p, p.of = t PROVE At(p)' = At(p)
  BY <1>1 DEF At, FilesOf
<1>2. ASSUME NEW p, p.of = t PROVE Held(p)' = Held(p)
  BY <1>1, <1>2 DEF Held
<1>3. ASSUME NEW p, NEW ps, p.of = t PROVE AllAt(t, p, ps)' <=> AllAt(t, p, ps)
  BY <1>2, <1>3 DEF AllAt
<1> QED
  BY <1>1, <1>2, <1>3

(* What is done to the files of one task, in one place.                       *)
LEMMA PutIs ==
  ASSUME NEW p, NEW parts
  PROVE  (\A x \in Put(p, parts) : x.at = p /\ x.part \in parts) /\ \A y \in parts : \E x \in Put(p, parts) : x.at = p /\ x.part = y
<1>1. \A x \in Put(p, parts) : x.at = p /\ x.part \in parts
  BY DEF Put
<1>2. ASSUME NEW y \in parts PROVE \E x \in Put(p, parts) : x.at = p /\ x.part = y
  <2>1. [at |-> p, part |-> y] \in Put(p, parts) /\ [at |-> p, part |-> y].at = p /\ [at |-> p, part |-> y].part = y
    BY DEF Put
  <2> QED
    BY <2>1, Zenon
<1> QED
  BY <1>1, <1>2

LEMMA PutAlone ==
  ASSUME NEW t, NEW p, NEW parts, p.of = t, FilesOf(t) = {}, disk' = disk \cup Put(p, parts)
  PROVE  AllAt(t, p, parts)'
<1>1. \A x \in disk' : x.at.of = t => x \in Put(p, parts)
  BY DEF FilesOf
<1>2. Held(p)' = parts
  BY <1>1, PutIs DEF Held, At
<1> QED
  BY <1>1, <1>2, PutIs DEF AllAt, FilesOf

LEMMA PutMore ==
  ASSUME NEW t, NEW p, NEW parts, NEW more, p.of = t, AllAt(t, p, parts), disk' = disk \cup Put(p, more)
  PROVE  AllAt(t, p, parts \cup more)'
<1>1. \A x \in disk' : x.at.of = t => x.at = p
  BY PutIs DEF FilesOf, AllAt
<1>2. Held(p)' = parts \cup more
  BY PutIs DEF Held, At, AllAt
<1> QED
  BY <1>1, <1>2 DEF AllAt, FilesOf

LEMMA MoveFiles ==
  ASSUME NEW t, NEW p, NEW q, NEW ps, NEW parts, p.of = t, q.of = t, AllAt(t, p, ps),
         disk' = (disk \ At(p)) \cup Put(q, parts)
  PROVE  AllAt(t, q, parts)'
<1>1. \A x \in disk' : x.at.of = t => x \in Put(q, parts)
  BY DEF FilesOf, AllAt, At
<1>2. Held(q)' = parts
  BY <1>1, PutIs DEF Held, At
<1> QED
  BY <1>1, <1>2, PutIs DEF AllAt, FilesOf

LEMMA PlaceIs ==
  ASSUME NEW a, NEW t, NEW f
  PROVE  Place(a, t, f).area = a /\ Place(a, t, f).of = t /\ Place(a, t, f).form = f
  BY DEF Place

LEMMA PathsDiffer ==
  /\ NoPath # Logical /\ NoPath.how = "none" /\ Logical.how = "logical"
  /\ \A p : Real(p).how = "real" /\ Real(p).at = p /\ Real(p) # NoPath /\ Real(p) # Logical
  BY DEF NoPath, Logical, Real

LEMMA LeadsOwn ==
  ASSUME NEW t, NEW path, NEW areas, ProperPath(path, t, areas) PROVE Leads(path, t).of = t /\ path # NoPath
  BY PathsDiffer, PlaceIs DEF ProperPath, RealPath, Leads

(* What a step leaves alone of a task.                                       *)
LEMMA Framed ==
  ASSUME NEW t \in ArtTasks, TaskFiles(t), FilesOf(t)' = FilesOf(t), job'[t] = job[t], output'[t] = output[t],
         outArea'[t] = outArea[t], removal'[t] = removal[t], exportDir' = exportDir, move' = move, caseOf' = caseOf,
         \A r \in rows' : r.task = t => r \in rows
  PROVE  TaskFiles(t)'
<1>1. /\ \A p : p.of = t => Held(p)' = Held(p)
      /\ \A p, ps : p.of = t => (AllAt(t, p, ps)' <=> AllAt(t, p, ps))
  BY SameFiles
<1>2. \A path : Leads(path, t)' = Leads(path, t)
  BY DEF Leads, medium
<1>3. \A path, areas : (ProperPath(path, t, areas)' <=> ProperPath(path, t, areas)) /\ (RealPath(path, t)' <=> RealPath(path, t))
  BY DEF ProperPath, RealPath, kind
<1>4. Whole(t)' = Whole(t) /\ kind(t)' = kind(t) /\ (UsesWork(t)' <=> UsesWork(t)) /\ WorkArea(t)' = WorkArea(t)
      /\ Progress(t)' = Progress(t) /\ Base(t)' = Base(t) /\ Base(t).of = t
  BY PlaceIs DEF Whole, UsesWork, WorkArea, Progress, Base, kind, medium
<1>5. JobFiles(t)'
  <2>1. JobFiles(t)
    BY DEF TaskFiles
  <2>2. job'[t] \in {"based", "dumped", "added"} => AllAt(t, Base(t), Progress(t))'
    <3> PICK p, ps : p = Base(t) /\ ps = Progress(t)
      OBVIOUS
    <3> QED
      BY <1>1, <1>4, <2>1 DEF JobFiles
  <2>3. job'[t] \in {"packed", "placed"} /\ output'[t] # NoPath => AllAt(t, Leads(output[t], t), Whole(t))'
    <3> PICK path, ps : path = output[t] /\ ps = Whole(t)
      OBVIOUS
    <3> PICK p : p = Leads(path, t)
      OBVIOUS
    <3>1. job[t] \in {"packed", "placed"} /\ path # NoPath => AllAt(t, p, ps) /\ p.of = t
      BY <2>1, LeadsOwn DEF JobFiles
    <3>2. output'[t] = path /\ Leads(path, t)' = p /\ Whole(t)' = ps
      BY <1>2, <1>4
    <3> QED
      BY <1>1, <3>1, <3>2
  <2> QED
    BY <1>3, <1>4, <2>1, <2>2, <2>3 DEF JobFiles
<1>6. RemovalFiles(t)'
  <2>1. RemovalFiles(t)
    BY DEF TaskFiles
  <2>2. removal'[t].step \in {"row", "file"} /\ removal'[t].path # NoPath => AllAt(t, Leads(removal[t].path, t), Whole(t))'
    <3> PICK path, ps : path = removal[t].path /\ ps = Whole(t)
      OBVIOUS
    <3> PICK p : p = Leads(path, t)
      OBVIOUS
    <3>1. removal[t].step \in {"row", "file"} /\ path # NoPath => AllAt(t, p, ps) /\ p.of = t
      BY <2>1, LeadsOwn DEF RemovalFiles
    <3>2. removal'[t].path = path /\ Leads(path, t)' = p /\ Whole(t)' = ps
      BY <1>2, <1>4
    <3> QED
      BY <1>1, <3>1, <3>2
  <2>3. PICK p : p = Place("user", t, "file")
    OBVIOUS
  <2>4. Held(p)' = Held(p)
    BY <1>1, <2>3, PlaceIs
  <2> QED
    BY <1>3, <1>4, <2>1, <2>2, <2>3, <2>4 DEF RemovalFiles
<1>7. ASSUME NEW r \in rows' \cup move'.seen, r.task = t PROVE RowFiles(r)'
  <2>1. RowFiles(r)
    BY <1>7 DEF TaskFiles
  <2>2. \A p : Now(p)' = Now(p)
    BY DEF Now, Moving
  <2>3. r.path # NoPath => AllAt(t, Now(Leads(r.path, t)), Whole(t))'
    <3> PICK p, ps : p = Leads(r.path, t) /\ ps = Whole(t)
      OBVIOUS
    <3> PICK q : q = Now(p)
      OBVIOUS
    <3>1. r.path # NoPath => AllAt(t, q, ps) /\ p.of = t
      BY <1>7, <2>1, LeadsOwn DEF RowFiles
    <3>2. p.of = t => q.of = t
      BY PlaceIs DEF Now
    <3>3. Leads(r.path, t)' = p /\ Now(p)' = q /\ Whole(t)' = ps
      BY <1>2, <1>4, <2>2
    <3> QED
      BY <1>1, <3>1, <3>2, <3>3
  <2> QED
    BY <1>3, <1>7, <2>1, <2>3 DEF RowFiles
<1>8. move'.step = "switch" => \A x \in FilesOf(t)' : x.at.area \notin Managed
  BY DEF TaskFiles
<1> QED
  BY <1>5, <1>6, <1>7, <1>8 DEF TaskFiles

LEMMA StrandedStays ==
  ASSUME NEW t \in ArtTasks, Stranded(t), FilesOf(t)' = FilesOf(t), job'[t] = job[t], removal'[t] = removal[t],
         caseOf' = caseOf, \A r \in rows' : r.task = t => r \in rows
  PROVE  Stranded(t)'
<1>1. PICK ps : ps = Whole(t)
  OBVIOUS
<1>2. Whole(t)' = ps
  BY <1>1 DEF Whole, kind
<1>3. ASSUME NEW p, p.of = t, AllAt(t, p, ps) PROVE AllAt(t, p, ps)'
  BY <1>3, SameFiles
<1> QED
  BY <1>1, <1>2, <1>3 DEF Stranded

LEMMA AccountedStays ==
  ASSUME NEW t \in ArtTasks, Accounted(t), FilesOf(t)' = FilesOf(t), job'[t] = job[t], output'[t] = output[t],
         outArea'[t] = outArea[t], removal'[t] = removal[t], exportDir' = exportDir, move' = move, caseOf' = caseOf,
         \A r \in rows' : r.task = t => r \in rows
  PROVE  Accounted(t)'
<1>1. CASE t \in move.left
  BY <1>1, StrandedStays DEF Accounted
<1>2. CASE t \notin move.left
  BY <1>2, Framed DEF Accounted
<1> QED
  BY <1>1, <1>2

(* A step of one task: the others see nothing of it.                         *)
Changes(f, g, t) == g = [u \in ArtTasks |-> g[u]] /\ \A u \in ArtTasks \ {t} : g[u] = f[u]
DiskOf(t) == (\A x : x.at.of # t => (x \in disk' <=> x \in disk))
             /\ \A x \in disk' : x \in disk \/ x.at = Place(x.at.area, x.at.of, x.at.form)
OwnRow(r, t) == r.task = t /\ r = Row(r.task, r.status, r.path) /\ OwnPath(r.path, t)

LEMMA ChangesIs ==
  ASSUME NEW f, f = [u \in ArtTasks |-> f[u]], NEW t \in ArtTasks
  PROVE  Changes(f, f, t) /\ \A v : Changes(f, [f EXCEPT ![t] = v], t) /\ [f EXCEPT ![t] = v][t] = v
  BY DEF Changes

LEMMA TaskStep ==
  ASSUME FilesInv, Notice, NEW t \in ArtTasks, caseOf' = caseOf, exportDir' = exportDir, move' = move,
         Changes(job, job', t), Changes(output, output', t), Changes(outArea, outArea', t),
         Changes(removal, removal', t), IsRemoval(removal'[t]), DiskOf(t),
         \A r \in rows' : r \in rows \/ OwnRow(r, t),
         OwnPaths(t)', t \notin caught' => Accounted(t)'
  PROVE  FilesInv'
<1>1. MoveShape'
  BY DEF FilesInv, MoveShape
<1>2. ASSUME NEW u \in ArtTasks, u # t
      PROVE  job'[u] = job[u] /\ output'[u] = output[u] /\ outArea'[u] = outArea[u] /\ removal'[u] = removal[u]
  BY <1>2 DEF Changes
<1>3. FileShapes'
  <2>1. \A u \in ArtTasks : IsRemoval(removal'[u])
    BY DEF FilesInv, FileShapes, Changes
  <2>2. \A r \in rows' \cup move'.seen : r.task \in ArtTasks /\ r = Row(r.task, r.status, r.path) /\ OwnPath(r.path, r.task)
    BY DEF FilesInv, FileShapes, OwnRow
  <2>3. \A x \in disk' : x.at = Place(x.at.area, x.at.of, x.at.form)
    BY DEF FilesInv, FileShapes, DiskOf
  <2>4. job' = [u \in ArtTasks |-> job'[u]] /\ output' = [u \in ArtTasks |-> output'[u]]
        /\ outArea' = [u \in ArtTasks |-> outArea'[u]] /\ removal' = [u \in ArtTasks |-> removal'[u]]
    BY DEF Changes
  <2>5. ASSUME NEW u \in ArtTasks, u # t PROVE OwnPaths(u)'
    <3>1. OwnPaths(u)
      BY DEF FilesInv, FileShapes
    <3> QED
      BY <1>2, <2>5, <3>1 DEF OwnPaths, OwnPath, kind
  <2>6. \A r \in rows' \cup move'.seen : (OwnPath(r.path, r.task))' <=> OwnPath(r.path, r.task)
    BY DEF OwnPath
  <2> QED
    BY <2>1, <2>2, <2>3, <2>4, <2>5, <2>6 DEF FileShapes
<1>4. ASSUME NEW u \in ArtTasks, u # t, u \notin caught' PROVE Accounted(u)'
  <2>1. FilesOf(u)' = FilesOf(u)
    BY <1>4 DEF DiskOf, FilesOf
  <2>2. \A r \in rows' : r.task = u => r \in rows
    BY <1>4 DEF OwnRow
  <2>3. Accounted(u)
    BY <1>4, Spared
  <2> QED
    BY <1>2, <1>4, <2>1, <2>2, <2>3, AccountedStays
<1>5. \A u \in ArtTasks : Caught(u)' => u \in caught'
  BY DEF Notice
<1> QED
  BY <1>1, <1>3, <1>4, <1>5 DEF FilesInv

(* Steps of the goroutine: the record and its removal are as they were.        *)
LEMMA GoStep ==
  ASSUME FilesInv, Notice, NEW t \in ArtTasks, NEW s \in {"based", "dumped", "added", "packed", "placed", "failed"},
         caseOf' = caseOf, exportDir' = exportDir, move' = move, rows' = rows, removal' = removal,
         job[t] \in Working, job' = [job EXCEPT ![t] = s], Changes(output, output', t), Changes(outArea, outArea', t), DiskOf(t),
         OwnPath(output'[t], t), s = "packed" /\ kind(t) \in {"zip", "book"} => output'[t].how = "real",
         s = "failed" => disk' = disk, t \notin caught' => JobFiles(t)'
  PROVE  FilesInv'
<1>1. job[t] \in {"started", "based", "dumped", "added", "packed"}
  BY DEF Working
<1>2. job = [u \in ArtTasks |-> job[u]] /\ removal = [u \in ArtTasks |-> removal[u]] /\ IsRemoval(removal[t])
  BY DEF FilesInv, FileShapes
<1>3. Changes(job, job', t) /\ job'[t] = s /\ Changes(removal, removal', t) /\ IsRemoval(removal'[t])
  BY <1>2, ChangesIs
<1>4. OwnPaths(t)'
  BY <1>3 DEF FilesInv, FileShapes, OwnPaths, OwnPath, kind
<1>5. ASSUME t \notin caught' PROVE Accounted(t)'
  <2>1. /\ t \notin move.left /\ TaskFiles(t) /\ removal[t].step = "no"
        /\ \A r \in rows \cup move.seen : r.task = t => RowFiles(r)
    BY <1>1, <1>5, Spared, SparedAtWork DEF Accounted
  <2>2. RemovalFiles(t)'
    BY <2>1 DEF RemovalFiles
  <2>3. ASSUME NEW r \in rows' \cup move'.seen, r.task = t PROVE RowFiles(r)'
    <3>1. r.status = "running" /\ r.path = NoPath
      BY <1>1, <2>1, <2>3 DEF RowFiles
    <3> QED
      BY <2>1, <2>3, <3>1 DEF RowFiles
  <2>4. move'.step = "switch" => \A x \in FilesOf(t)' : x.at.area \notin Managed
    <3>1. ASSUME move'.step = "switch" PROVE s = "failed"
      BY <1>3, <1>5, <3>1, Spared DEF Caught, Busy, AtWork
    <3>2. disk' = disk => FilesOf(t)' = FilesOf(t)
      BY DEF FilesOf
    <3> QED
      BY <2>1, <3>1, <3>2 DEF TaskFiles
  <2> QED
    BY <1>5, <2>1, <2>2, <2>3, <2>4 DEF TaskFiles, Accounted
<1> QED
  BY <1>3, <1>4, <1>5, TaskStep

(* What a step of the goroutine leaves alone, and what cases it is in.         *)
LEMMA ArtStepIs ==
  ASSUME NEW t, NEW a, NEW s, ArtStep(t, a, s)
  PROVE  /\ caseOf' = caseOf /\ exportDir' = exportDir /\ move' = move /\ starting' = starting /\ rows' = rows
         /\ removal' = removal /\ job[t] = a /\ job' = [job EXCEPT ![t] = s]
         /\ kind(t)' = kind(t) /\ (UsesWork(t)' <=> UsesWork(t)) /\ medium' = medium /\ WorkArea(t)' = WorkArea(t)
         /\ Whole(t)' = Whole(t) /\ (\A path : Leads(path, t)' = Leads(path, t))
         /\ \A path, areas : ProperPath(path, t, areas)' <=> ProperPath(path, t, areas)
<1>1. caseOf' = caseOf /\ exportDir' = exportDir
  BY DEF ArtStep
<1>2. kind(t)' = kind(t) /\ medium' = medium
  BY <1>1 DEF kind, medium
<1>3. \A path, areas : ProperPath(path, t, areas)' <=> ProperPath(path, t, areas)
  BY <1>2 DEF ProperPath, RealPath
<1> QED
  BY <1>1, <1>2, <1>3 DEF ArtStep, UsesWork, WorkArea, Whole, Leads

LEMMA JobNow == ASSUME FilesInv, NEW t \in ArtTasks, NEW a, NEW s, ArtStep(t, a, s) PROVE job'[t] = s
<1>1. job = [u \in ArtTasks |-> job[u]]
  BY DEF FilesInv, FileShapes
<1>2. job' = [job EXCEPT ![t] = s]
  BY ArtStepIs
<1> QED
  BY <1>1, <1>2, ChangesIs

LEMMA DiskPut ==
  ASSUME FileShapes, NEW t, NEW p, p = Place(p.area, t, p.form), NEW old, old \subseteq FilesOf(t), NEW parts,
         disk' = (disk \ old) \cup Put(p, parts)
  PROVE  DiskOf(t)
<1>1. p.of = t
  BY PlaceIs
<1> QED
  BY <1>1, PutIs DEF DiskOf, FilesOf

LEMMA DiskSame == ASSUME NEW t, disk' = disk PROVE DiskOf(t) /\ FilesOf(t)' = FilesOf(t)
  BY DEF DiskOf, FilesOf

LEMMA PathOwn == ASSUME FilesInv, NEW t \in ArtTasks PROVE OwnPath(output[t], t) /\ OwnPath(removal[t].path, t)
  BY DEF FilesInv, FileShapes, OwnPaths

LEMMA MakeBaseStep == ASSUME FilesInv, Notice, NEW t \in ArtTasks, MakeBase(t) PROVE FilesInv'
<1> PICK area : area = IF outArea[t] = "work" THEN "work" ELSE exportDir
  OBVIOUS
<1> PICK p : p = Place(area, t, "dir")
  OBVIOUS
<1>1. /\ kind(t) \in {"zip", "dir", "book"} /\ ArtStep(t, "started", "based") /\ output' = output
      /\ outArea' = [outArea EXCEPT ![t] = area] /\ disk' = disk \cup Put(p, {"base"})
  BY DEF MakeBase
<1>2. FileShapes /\ job[t] = "started"
  BY <1>1, ArtStepIs DEF FilesInv
<1>3. Changes(outArea, outArea', t) /\ outArea'[t] = area /\ Changes(output, output', t)
  BY <1>1, <1>2, ChangesIs DEF FileShapes
<1>4. p.of = t /\ p.area = area /\ p.form = "dir"
  BY PlaceIs
<1>5. DiskOf(t)
  <2>1. disk' = (disk \ {}) \cup Put(p, {"base"}) /\ {} \subseteq FilesOf(t)
    BY <1>1
  <2> QED
    BY <1>2, <1>4, <2>1, DiskPut
<1>6. job'[t] = "based"
  BY <1>1, JobNow
<1>7. ASSUME t \notin caught' PROVE JobFiles(t)'
  <2>1. JobFiles(t)
    BY <1>2, <1>7, SparedAtWork
  <2>2. area = WorkArea(t) /\ FilesOf(t) = {} /\ output[t] = NoPath
    BY <1>1, <1>2, <2>1 DEF JobFiles, WorkArea
  <2>3. AllAt(t, p, {"base"})'
    BY <1>1, <1>4, <2>2, PutAlone
  <2>4. Base(t)' = p /\ Progress(t)' = {"base"}
    BY <1>3, <1>6 DEF Base, Progress
  <2> QED
    BY <1>1, <1>3, <1>6, <2>2, <2>3, <2>4, ArtStepIs DEF JobFiles
<1> QED
  BY <1>1, <1>2, <1>3, <1>5, <1>7, PathOwn, ArtStepIs, GoStep DEF Working

(* Dump and Contribute add to the base directory.                             *)
LEMMA WriteStep ==
  ASSUME FilesInv, Notice, NEW t \in ArtTasks, NEW a, NEW s, NEW more, ArtStep(t, a, s), UNCHANGED <<output, outArea>>,
         disk' = disk \cup Put(Base(t), more),
         \/ a = "based" /\ s = "dumped" /\ more = {"db"}
         \/ a = "dumped" /\ s = "added" /\ more = {"base", "extra"} /\ kind(t) # "book"
  PROVE  FilesInv'
<1> PICK p, parts : p = Base(t) /\ parts = Progress(t)
  OBVIOUS
<1>1. FileShapes /\ job[t] = a /\ outArea' = outArea /\ output' = output
  BY ArtStepIs DEF FilesInv
<1>2. p.of = t /\ p = Place(p.area, t, p.form)
  BY PlaceIs DEF Base
<1>3. Changes(outArea, outArea', t) /\ Changes(output, output', t)
  BY <1>1, ChangesIs DEF FileShapes
<1>4. DiskOf(t)
  <2>1. disk' = (disk \ {}) \cup Put(p, more) /\ {} \subseteq FilesOf(t)
    OBVIOUS
  <2> QED
    BY <1>1, <1>2, <2>1, DiskPut
<1>5. job'[t] = s
  BY JobNow
<1>6. ASSUME t \notin caught' PROVE JobFiles(t)'
  <2>1. JobFiles(t)
    BY <1>1, <1>6, SparedAtWork
  <2>2. AllAt(t, p, parts) /\ output[t] = NoPath /\ outArea[t] = WorkArea(t) /\ kind(t) \in {"zip", "dir", "book"}
    BY <1>1, <2>1 DEF JobFiles
  <2>3. AllAt(t, p, parts \cup more)'
    BY <1>2, <2>2, PutMore
  <2>4. Base(t)' = p /\ Progress(t)' = parts \cup more
    BY <1>1, <1>5 DEF Base, Progress
  <2> QED
    BY <1>1, <1>5, <2>2, <2>3, <2>4, ArtStepIs DEF JobFiles
<1> QED
  BY <1>1, <1>3, <1>4, <1>6, PathOwn, ArtStepIs, GoStep DEF Working

LEMMA PackStep == ASSUME FilesInv, Notice, NEW t \in ArtTasks, Pack(t) PROVE FilesInv'
<1> PICK p, file, parts : p = Base(t) /\ file = Place(outArea[t], t, "file") /\ parts = Held(Base(t))
  OBVIOUS
<1> PICK a : a = IF kind(t) = "book" THEN "dumped" ELSE "added"
  OBVIOUS
<1>1. /\ ArtStep(t, a, "packed") /\ outArea' = outArea
      /\ kind(t) = "dir" => output' = [output EXCEPT ![t] = Real(p)] /\ disk' = disk
      /\ kind(t) # "dir" => output' = [output EXCEPT ![t] = Real(file)]
                            /\ disk' = (disk \ At(p)) \cup Put(file, parts \ {"base"})
  BY DEF Pack
<1>2. FileShapes /\ job[t] = a
  BY <1>1, ArtStepIs DEF FilesInv
<1>3. /\ p.of = t /\ p.area = outArea[t] /\ p.form = "dir" /\ p = Place(p.area, t, p.form)
      /\ file.of = t /\ file.area = outArea[t] /\ file = Place(file.area, t, file.form)
  BY PlaceIs DEF Base
<1>4. Changes(outArea, outArea', t) /\ Changes(output, output', t)
      /\ output'[t] = (IF kind(t) = "dir" THEN Real(p) ELSE Real(file))
  <2>1. output = [u \in ArtTasks |-> output[u]] /\ outArea = [u \in ArtTasks |-> outArea[u]]
    BY <1>2 DEF FileShapes
  <2> PICK v : v = IF kind(t) = "dir" THEN Real(p) ELSE Real(file)
    OBVIOUS
  <2>2. output' = [output EXCEPT ![t] = v]
    BY <1>1
  <2>3. Changes(output, output', t) /\ output'[t] = v
    BY <2>1, <2>2, ChangesIs
  <2>4. Changes(outArea, outArea', t)
    BY <1>1, <2>1, ChangesIs
  <2> QED
    BY <2>3, <2>4
<1>5. job'[t] = "packed"
  BY <1>1, JobNow
<1>6. DiskOf(t)
  <2>1. At(p) \subseteq FilesOf(t)
    BY <1>3 DEF At, FilesOf
  <2> QED
    BY <1>1, <1>2, <1>3, <2>1, DiskPut, DiskSame
<1>7. OwnPath(output'[t], t) /\ output'[t].how = "real"
  BY <1>3, <1>4, PathsDiffer DEF OwnPath
<1>8. ASSUME t \notin caught' PROVE JobFiles(t)'
  <2>1. JobFiles(t)
    BY <1>2, <1>8, SparedAtWork
  <2>2. AllAt(t, p, Progress(t)) /\ outArea[t] = WorkArea(t) /\ kind(t) \in {"zip", "dir", "book"} /\ parts = Progress(t)
    BY <1>2, <2>1 DEF JobFiles, AllAt
  <2>3. CASE kind(t) = "dir"
    <3>1. AllAt(t, p, Progress(t))'
      <4>1. \A ps : AllAt(t, p, ps)' <=> AllAt(t, p, ps)
        BY <1>1, <1>3, <2>3, DiskSame, SameFiles
      <4> PICK ps : ps = Progress(t)
        OBVIOUS
      <4>2. ps = {"base", "db", "extra"} /\ Progress(t)' = ps
        BY <1>2, <1>5, <2>3 DEF Progress
      <4> QED
        BY <2>2, <4>1, <4>2
    <3>2. Progress(t)' = Whole(t) /\ Leads(Real(p), t) = p /\ Real(p) # NoPath
      BY <1>5, <2>3, PathsDiffer DEF Progress, Whole, Leads
    <3>3. ProperPath(Real(p), t, {WorkArea(t)})
      BY <1>3, <2>2, <2>3, PathsDiffer DEF ProperPath, RealPath
    <3> QED
      BY <1>1, <1>4, <1>5, <2>3, <3>1, <3>2, <3>3, ArtStepIs DEF JobFiles
  <2>4. CASE kind(t) # "dir"
    <3>1. AllAt(t, file, parts \ {"base"})'
      BY <1>1, <1>3, <2>2, <2>4, MoveFiles
    <3>2. parts \ {"base"} = Whole(t) /\ Leads(Real(file), t) = file /\ Real(file) # NoPath
      BY <1>2, <2>2, <2>4, PathsDiffer DEF Progress, Whole, Leads
    <3>3. ProperPath(Real(file), t, {WorkArea(t)}) /\ Real(file) = Real(Place(WorkArea(t), t, "file"))
      BY <1>3, <2>2, <2>4, PathsDiffer, PlaceIs DEF ProperPath, RealPath
    <3> QED
      BY <1>1, <1>4, <1>5, <2>2, <2>4, <3>1, <3>2, <3>3, ArtStepIs DEF JobFiles
  <2> QED
    BY <2>3, <2>4
<1> QED
  BY <1>1, <1>2, <1>4, <1>6, <1>7, <1>8, ArtStepIs, GoStep DEF Working

LEMMA KeepFiles ==
  ASSUME FilesInv, NEW t \in ArtTasks, fileVars' = fileVars
  PROVE  /\ Changes(output, output', t) /\ Changes(outArea, outArea', t) /\ DiskOf(t) /\ FilesOf(t)' = FilesOf(t)
         /\ output'[t] = output[t] /\ outArea'[t] = outArea[t] /\ disk' = disk
<1>1. output' = output /\ outArea' = outArea /\ disk' = disk
  BY DEF fileVars
<1>2. output = [u \in ArtTasks |-> output[u]] /\ outArea = [u \in ArtTasks |-> outArea[u]]
  BY DEF FilesInv, FileShapes
<1> QED
  BY <1>1, <1>2, ChangesIs, DiskSame

LEMMA EngineRunStep == ASSUME FilesInv, Notice, NEW t \in ArtTasks, RunImport(t) \/ RunMigrate(t) \/ RunCompare(t) PROVE FilesInv'
<1>1. ArtStep(t, "started", "packed") /\ kind(t) \in {"import", "migrate", "report"}
  BY DEF RunImport, RunMigrate, RunCompare
<1>2. FileShapes /\ job[t] = "started"
  BY <1>1, ArtStepIs DEF FilesInv
<1>3. t \notin caught' => FilesOf(t) = {} /\ output[t] = NoPath
  BY <1>2, SparedAtWork DEF JobFiles
<1>4. job'[t] = "packed"
  BY <1>1, JobNow
<1> PICK p : p = Place("user", t, "file")
  OBVIOUS
<1>5. CASE fileVars' = fileVars
  <2>1. t \notin caught' => JobFiles(t)'
    BY <1>1, <1>3, <1>4, <1>5, KeepFiles, ArtStepIs DEF JobFiles
  <2> QED
    BY <1>1, <1>2, <1>5, <2>1, PathOwn, KeepFiles, ArtStepIs, GoStep DEF Working
<1>6. CASE kind(t) = "import" /\ outArea' = outArea /\ output' = [output EXCEPT ![t] = Real(p)] /\ disk' = disk \cup Put(p, {"db"})
  <2>1. output = [u \in ArtTasks |-> output[u]] /\ outArea = [u \in ArtTasks |-> outArea[u]]
    BY <1>2 DEF FileShapes
  <2>2. Changes(outArea, outArea', t) /\ Changes(output, output', t)
    BY <1>6, <2>1, ChangesIs
  <2>3. output'[t] = Real(p)
    BY <1>6, <2>1
  <2>4. p.of = t /\ p = Place(p.area, t, p.form) /\ p.area = "user"
    BY PlaceIs
  <2>5. t \notin caught' => AllAt(t, p, {"db"})'
    BY <1>3, <1>6, <2>4, PutAlone
  <2>6. Whole(t) = {"db"} /\ Leads(Real(p), t) = p /\ Real(p) # NoPath /\ OwnPath(Real(p), t)
    BY <1>6, <2>4, PathsDiffer DEF Whole, Leads, OwnPath
  <2>7. \A areas : ProperPath(Real(p), t, areas)
    BY <1>6, <2>4, PathsDiffer DEF ProperPath, RealPath
  <2>8. DiskOf(t)
    <3>1. disk' = (disk \ {}) \cup Put(p, {"db"}) /\ {} \subseteq FilesOf(t)
      BY <1>6
    <3> QED
      BY <1>2, <2>4, <3>1, DiskPut
  <2>9. ASSUME t \notin caught' PROVE JobFiles(t)'
    <3> PICK ps : ps = Whole(t)
      OBVIOUS
    <3>1. Whole(t)' = ps /\ Leads(Real(p), t)' = p /\ AllAt(t, p, ps)'
      BY <1>1, <2>5, <2>6, <2>9, ArtStepIs
    <3>2. \A areas : ProperPath(Real(p), t, areas)'
      BY <1>1, <2>7, ArtStepIs
    <3> QED
      BY <1>1, <1>4, <1>6, <2>3, <2>6, <3>1, <3>2, ArtStepIs DEF JobFiles
  <2> QED
    BY <1>1, <1>2, <1>6, <2>2, <2>3, <2>6, <2>8, <2>9, ArtStepIs, GoStep DEF Working
<1> QED
  BY <1>5, <1>6 DEF RunImport, RunMigrate, RunCompare, fileVars

LEMMA FailStep == ASSUME FilesInv, Notice, NEW t \in ArtTasks, Fail(t) PROVE FilesInv'
<1>1. /\ caseOf' = caseOf /\ exportDir' = exportDir /\ move' = move /\ rows' = rows
      /\ removal' = removal /\ fileVars' = fileVars /\ job[t] \in Working /\ job' = [job EXCEPT ![t] = "failed"]
  BY DEF Fail
<1>2. job'[t] = "failed"
  BY <1>1, ChangesIs DEF FilesInv, FileShapes
<1>3. JobFiles(t)'
  BY <1>2 DEF JobFiles
<1> QED
  BY <1>1, <1>3, PathOwn, KeepFiles, GoStep

(* The artifact is put in its place, or stays where it is.                     *)
LEMMA PlacedStep ==
  ASSUME FilesInv, Notice, NEW t \in ArtTasks, ArtStep(t, "packed", "placed"), fileVars' = fileVars
  PROVE  FilesInv'
<1>1. job[t] = "packed"
  BY ArtStepIs
<1>2. job'[t] = "placed"
  BY JobNow
<1>3. ASSUME t \notin caught' PROVE JobFiles(t)'
  <2> PICK path, ps : path = output[t] /\ ps = Whole(t)
    OBVIOUS
  <2> PICK p : p = Leads(path, t)
    OBVIOUS
  <2>1. JobFiles(t) /\ output'[t] = path
    BY <1>1, <1>3, SparedAtWork, KeepFiles
  <2>2. WorkArea(t) = exportDir
    <3>1. ~UsesWork(t)
      <4> SUFFICES ASSUME UsesWork(t) PROVE FALSE
        OBVIOUS
      <4>1. path # Logical
        BY <1>1, <2>1, PathsDiffer DEF JobFiles, UsesWork
      <4> QED
        BY <1>2, <1>3, <2>1, <4>1, Spared, ArtStepIs DEF Caught
    <3> QED
      BY <3>1 DEF WorkArea
  <2>3. path # NoPath => AllAt(t, p, ps) /\ ProperPath(path, t, {exportDir}) /\ p.of = t
    BY <1>1, <2>1, <2>2, LeadsOwn DEF JobFiles
  <2>4. path # NoPath => AllAt(t, p, ps)'
    BY <2>3, KeepFiles, SameFiles
  <2>5. Whole(t)' = ps /\ Leads(path, t)' = p /\ exportDir' = exportDir
    BY ArtStepIs
  <2>6. path # NoPath => ProperPath(path, t, {exportDir})'
    <3> PICK areas : areas = {exportDir}
      OBVIOUS
    <3> QED
      BY <2>3, <2>5, ArtStepIs
  <2> QED
    BY <1>2, <2>1, <2>4, <2>5, <2>6 DEF JobFiles
<1> QED
  BY <1>1, <1>3, PathOwn, KeepFiles, ArtStepIs, GoStep DEF Working

LEMMA LogicalStep ==
  ASSUME FilesInv, Notice, NEW t \in ArtTasks, ArtStep(t, "packed", "placed"), kind(t) # "import", outArea' = outArea,
         output' = [output EXCEPT ![t] = Logical], t \notin caught' => AllAt(t, Target(t), Whole(t))', DiskOf(t)
  PROVE  FilesInv'
<1>1. job[t] = "packed" /\ FileShapes
  BY ArtStepIs DEF FilesInv
<1>2. job'[t] = "placed"
  BY JobNow
<1>3. output = [u \in ArtTasks |-> output[u]] /\ outArea = [u \in ArtTasks |-> outArea[u]]
  BY <1>1 DEF FileShapes
<1>4. Changes(outArea, outArea', t) /\ Changes(output, output', t) /\ output'[t] = Logical
  BY <1>3, ChangesIs
<1>5. Leads(Logical, t) = Target(t)
  BY PathsDiffer DEF Leads, Target
<1>6. (\A areas : ProperPath(Logical, t, areas)) /\ OwnPath(Logical, t)
  BY PathsDiffer DEF ProperPath, OwnPath
<1>7. t \notin caught' => JobFiles(t)'
  <2> PICK p, ps : p = Target(t) /\ ps = Whole(t)
    OBVIOUS
  <2>1. Leads(Logical, t)' = p /\ Whole(t)' = ps /\ Target(t)' = p
    BY <1>5, ArtStepIs DEF Target
  <2>2. \A areas : ProperPath(Logical, t, areas)'
    BY <1>6, ArtStepIs
  <2> QED
    BY <1>2, <1>4, <2>1, <2>2 DEF JobFiles
<1> QED
  BY <1>1, <1>4, <1>6, <1>7, ArtStepIs, GoStep DEF Working

LEMMA RelocateStep == ASSUME FilesInv, Notice, NEW t \in ArtTasks, Relocate(t) PROVE FilesInv'
<1>1. ArtStep(t, "packed", "placed") /\ kind(t) \in {"zip", "book"} /\ outArea' = outArea
  BY DEF Relocate
<1> PICK p, q, ps : p = output[t].at /\ q = Target(t) /\ ps = Whole(t)
  OBVIOUS
<1>2. FileShapes /\ job[t] = "packed"
  BY <1>1, ArtStepIs DEF FilesInv
<1>3. p.of = t /\ q.of = t /\ q = Place(q.area, t, q.form)
  <2>1. output[t].how = "real" /\ OwnPath(output[t], t)
    BY <1>1, <1>2 DEF FileShapes, OwnPaths
  <2> QED
    BY <1>1, <2>1, OwnPathIs, PlaceIs DEF Target
<1>4. t \notin caught' => AllAt(t, p, ps)
  <2> SUFFICES ASSUME t \notin caught' PROVE AllAt(t, p, ps)
    OBVIOUS
  <2>1. JobFiles(t)
    BY <1>2, SparedAtWork
  <2>2. output[t] # NoPath /\ Leads(output[t], t) = p
    BY <1>1, <1>2, <2>1, PathsDiffer DEF JobFiles, Leads
  <2> QED
    BY <1>2, <2>1, <2>2 DEF JobFiles
<1>5. CASE disk' = (disk \ At(p)) \cup Put(q, Held(p)) /\ output' = [output EXCEPT ![t] = Logical]
  <2>1. ASSUME t \notin caught' PROVE AllAt(t, q, ps)'
    <3>1. Held(p) = ps
      BY <1>4, <2>1 DEF AllAt
    <3> QED
      BY <1>3, <1>4, <1>5, <2>1, <3>1, MoveFiles
  <2>2. Whole(t)' = ps /\ Target(t)' = q
    BY <1>1, ArtStepIs DEF Target
  <2>3. At(p) \subseteq FilesOf(t)
    BY <1>3 DEF At, FilesOf
  <2>4. DiskOf(t)
    BY <1>2, <1>3, <1>5, <2>3, DiskPut
  <2> QED
    BY <1>1, <1>5, <2>1, <2>2, <2>4, LogicalStep
<1>6. CASE disk' = disk /\ output' = output
  BY <1>1, <1>6, PlacedStep DEF fileVars
<1> QED
  BY <1>5, <1>6 DEF Relocate

LEMMA SaveReportStep == ASSUME FilesInv, Notice, NEW t \in ArtTasks, SaveReport(t) PROVE FilesInv'
<1>1. ArtStep(t, "packed", "placed") /\ kind(t) = "report" /\ outArea' = outArea
  BY DEF SaveReport
<1> PICK q : q = Target(t)
  OBVIOUS
<1>2. FileShapes /\ job[t] = "packed"
  BY <1>1, ArtStepIs DEF FilesInv
<1>3. t \notin caught' => FilesOf(t) = {}
  BY <1>1, <1>2, SparedAtWork DEF JobFiles
<1>4. q.of = t /\ q = Place(q.area, t, q.form)
  BY PlaceIs DEF Target
<1>5. CASE disk' = disk \cup Put(q, {"db"}) /\ output' = [output EXCEPT ![t] = Logical]
  <2>1. t \notin caught' => AllAt(t, q, {"db"})'
    BY <1>3, <1>4, <1>5, PutAlone
  <2>2. Whole(t)' = {"db"} /\ Target(t)' = q
    BY <1>1, ArtStepIs DEF Target, Whole
  <2>3. disk' = (disk \ {}) \cup Put(q, {"db"}) /\ {} \subseteq FilesOf(t)
    BY <1>5
  <2>4. DiskOf(t)
    BY <1>2, <1>4, <2>3, DiskPut
  <2> QED
    BY <1>1, <1>5, <2>1, <2>2, <2>4, LogicalStep
<1>6. CASE disk' = disk /\ output' = output
  BY <1>1, <1>6, PlacedStep DEF fileVars
<1> QED
  BY <1>5, <1>6 DEF SaveReport

LEMMA KeepStep == ASSUME FilesInv, Notice, NEW t \in ArtTasks, KeepPath(t) PROVE FilesInv'
  BY PlacedStep DEF KeepPath

(* Starting, finishing and deleting.                                          *)
LEMMA RowIs ==
  ASSUME NEW t, NEW s, NEW p
  PROVE  Row(t, s, p).task = t /\ Row(t, s, p).status = s /\ Row(t, s, p).path = p
  BY DEF Row

LEMMA SavedRows ==
  ASSUME NEW r, SaveHistory(r) PROVE \A q \in rows' : q = r \/ (q \in rows /\ q.task # r.task)
  BY DEF SaveHistory, Newest

(* The records UpdateDirs has yet to rewrite are those of tasks that are done.  *)
LEMMA SeenEnded ==
  ASSUME FilesInv, NEW r \in move.seen, RowFiles(r) PROVE job[r.task] = "ended" /\ r.path # NoPath
<1>1. r.path.how = "real"
  BY DEF FilesInv, MoveShape
<1>2. r.path # NoPath
  BY <1>1, PathsDiffer
<1> QED
  BY <1>2 DEF RowFiles

LEMMA StartStep ==
  ASSUME FilesInv, Notice, NEW t \in ArtTasks, Start(t),
         \/ kind(t) \in {"zip", "dir", "book"}
            /\ outArea' = [outArea EXCEPT ![t] = IF UsesWork(t) THEN "work" ELSE "old"]
         \/ kind(t) \notin {"zip", "dir", "book"} /\ outArea' = outArea
  PROVE  FilesInv'
<1>1. /\ job[t] = "new" /\ SaveHistory(Row(t, "running", NoPath))
      /\ job' = [job EXCEPT ![t] = "started"] /\ caseOf' = caseOf /\ output' = output /\ disk' = disk
      /\ exportDir' = exportDir /\ move' = move /\ removal' = removal
  BY DEF Start
<1>2. /\ job = [u \in ArtTasks |-> job[u]] /\ output = [u \in ArtTasks |-> output[u]] /\ outArea = [u \in ArtTasks |-> outArea[u]]
      /\ removal = [u \in ArtTasks |-> removal[u]] /\ IsRemoval(removal[t])
  BY DEF FilesInv, FileShapes
<1>3. /\ Changes(job, job', t) /\ job'[t] = "started" /\ Changes(output, output', t) /\ Changes(removal, removal', t)
      /\ output'[t] = output[t] /\ removal'[t] = removal[t]
  BY <1>1, <1>2, ChangesIs
<1> PICK area : area = IF UsesWork(t) THEN "work" ELSE "old"
  OBVIOUS
<1>4. Changes(outArea, outArea', t) /\ (kind(t) \in {"zip", "dir", "book"} => outArea'[t] = area)
  <2>1. CASE outArea' = outArea /\ kind(t) \notin {"zip", "dir", "book"}
    BY <1>2, <2>1, ChangesIs
  <2>2. CASE outArea' = [outArea EXCEPT ![t] = area]
    BY <1>2, <2>2, ChangesIs
  <2> QED
    BY <2>1, <2>2
<1>5. DiskOf(t) /\ FilesOf(t)' = FilesOf(t)
  BY <1>1, DiskSame
<1>6. \A r \in rows' : r \in rows \/ OwnRow(r, t)
  BY <1>1, SavedRows, RowIs, PathsDiffer DEF OwnRow, OwnPath
<1>7. OwnPaths(t)'
  BY <1>3, PathOwn DEF OwnPaths, OwnPath
<1>8. ASSUME t \notin caught' PROVE Accounted(t)'
  <2>1. /\ t \notin move.left /\ JobFiles(t) /\ RemovalFiles(t) /\ removal[t].step = "no"
        /\ (\A r \in rows \cup move.seen : r.task = t => RowFiles(r)) /\ Accounted(t)
    BY <1>1, <1>8, Spared, SparedAtWork
  <2>2. FilesOf(t) = {} /\ output[t] = NoPath
    BY <1>1, <2>1 DEF JobFiles
  <2>3. kind(t)' = kind(t) /\ (UsesWork(t)' <=> UsesWork(t))
    BY <1>1 DEF UsesWork, kind, medium
  <2>4. JobFiles(t)'
    BY <1>1, <1>3, <1>4, <1>5, <2>2, <2>3 DEF JobFiles
  <2>5. RemovalFiles(t)'
    BY <1>1, <2>1 DEF RemovalFiles
  <2>6. \A r \in rows' \cup move'.seen : r.task = t => r = Row(t, "running", NoPath)
    BY <1>1, <2>1, SavedRows, SeenEnded, RowIs
  <2>7. ASSUME NEW r \in rows' \cup move'.seen, r.task = t PROVE RowFiles(r)'
    BY <1>1, <2>1, <2>6, <2>7, RowIs DEF RowFiles
  <2>8. TaskFiles(t)'
    BY <1>5, <2>2, <2>4, <2>5, <2>7 DEF TaskFiles
  <2> QED
    BY <1>1, <2>1, <2>8 DEF Accounted
<1> QED
  BY <1>1, <1>2, <1>3, <1>4, <1>5, <1>6, <1>7, <1>8, TaskStep

(* Steps that leave the files alone, of a task that is not at work.           *)
LEMMA RestStep ==
  ASSUME FilesInv, Notice, NEW t \in ArtTasks, caseOf' = caseOf, exportDir' = exportDir, move' = move,
         fileVars' = fileVars, job' = job \/ job'[t] = "ended", Changes(job, job', t),
         Changes(removal, removal', t), IsRemoval(removal'[t]), OwnPath(removal'[t].path, t),
         \A r \in rows' : r \in rows \/ OwnRow(r, t),
         t \notin caught' => job'[t] = "ended",
         t \notin caught' /\ t \in move.left => Stranded(t)',
         t \notin caught' /\ t \notin move.left => RemovalFiles(t)' /\ \A r \in rows' \cup move'.seen : r.task = t => RowFiles(r)'
  PROVE  FilesInv'
<1>1. OwnPaths(t)'
  BY KeepFiles, PathOwn DEF FilesInv, FileShapes, OwnPaths, OwnPath, kind
<1>2. ASSUME t \notin caught', t \notin move.left PROVE TaskFiles(t)'
  <2>1. JobFiles(t)'
    BY <1>2 DEF JobFiles
  <2>2. move'.step = "switch" => \A x \in FilesOf(t)' : x.at.area \notin Managed
    BY <1>2, Spared, KeepFiles DEF Accounted, TaskFiles
  <2> QED
    BY <1>2, <2>1, <2>2 DEF TaskFiles
<1>3. t \notin caught' => Accounted(t)'
  BY <1>2 DEF Accounted
<1> QED
  BY <1>1, <1>3, KeepFiles, TaskStep

LEMMA FinalStep == ASSUME FilesInv, Notice, NEW t \in ArtTasks, SaveFinal(t) PROVE FilesInv'
<1> PICK r : r = IF job[t] = "placed" THEN Row(t, "done", output[t]) ELSE Row(t, "error", NoPath)
  OBVIOUS
<1>1. /\ job[t] \in {"placed", "failed"} /\ job' = [job EXCEPT ![t] = "ended"] /\ SaveHistory(r)
      /\ caseOf' = caseOf /\ exportDir' = exportDir /\ move' = move /\ fileVars' = fileVars /\ removal' = removal
  BY DEF SaveFinal
<1>2. job = [u \in ArtTasks |-> job[u]] /\ removal = [u \in ArtTasks |-> removal[u]] /\ IsRemoval(removal[t])
  BY DEF FilesInv, FileShapes
<1>3. Changes(job, job', t) /\ job'[t] = "ended" /\ Changes(removal, removal', t) /\ IsRemoval(removal'[t])
  BY <1>1, <1>2, ChangesIs
<1>4. OwnRow(r, t)
  BY PathOwn, RowIs, PathsDiffer DEF OwnRow, OwnPath
<1>5. r.task = t /\ \A q \in rows' : q = r \/ (q \in rows /\ q.task # t)
  BY <1>1, <1>4, SavedRows DEF OwnRow
<1>6. ASSUME t \notin caught', t \in move.left PROVE Stranded(t)'
  <2>1. Stranded(t) /\ job[t] = "failed"
    BY <1>1, <1>6, Spared DEF Accounted, Stranded
  <2>2. r.path = NoPath /\ removal[t].step = "no"
    BY <2>1, RowIs DEF Stranded
  <2> QED
    BY <1>1, <1>3, <1>5, <2>1, <2>2 DEF Stranded
<1>7. ASSUME t \notin caught', t \notin move.left
      PROVE  RemovalFiles(t)' /\ \A q \in rows' \cup move'.seen : q.task = t => RowFiles(q)'
  <2>1. JobFiles(t) /\ RemovalFiles(t) /\ (\A q \in rows \cup move.seen : q.task = t => RowFiles(q))
    BY <1>7, Spared DEF Accounted, TaskFiles
  <2>2. removal[t].step = "no" /\ job[t] # "ended"
    BY <1>1, <2>1 DEF RemovalFiles
  <2>3. RemovalFiles(t)'
    BY <1>1, <2>2 DEF RemovalFiles
  <2>4. job'[r.task] = "ended" /\ removal'[r.task].step = "no"
    BY <1>1, <1>3, <1>5, <2>2
  <2>5. CASE job[t] = "failed"
    <3>1. r.path = NoPath
      BY <2>5, RowIs
    <3>2. RowFiles(r)'
      BY <2>4, <3>1 DEF RowFiles
    <3>3. \A q \in rows' \cup move'.seen : q.task = t => q = r
      BY <1>1, <1>5, <2>1, <2>2, SeenEnded
    <3> QED
      BY <2>3, <3>2, <3>3
  <2>6. CASE job[t] = "placed"
    <3> PICK path, ps : path = r.path /\ ps = Whole(t)
      OBVIOUS
    <3> PICK p : p = Leads(path, t)
      OBVIOUS
    <3>1. move.step \in {"idle", "half", "done"}
      BY <1>7, <2>6, Spared DEF Caught, Busy, FilesInv, MoveShape
    <3>2. path = output[t] /\ r.status = "done"
      BY <2>6, RowIs
    <3>3. path # NoPath => AllAt(t, p, ps) /\ ProperPath(path, t, {exportDir}) /\ p.of = t
      BY <2>1, <2>6, <3>2, LeadsOwn DEF JobFiles
    <3>4. \A areas : (ProperPath(path, t, areas)' <=> ProperPath(path, t, areas)) /\ (RealPath(path, t)' <=> RealPath(path, t))
      BY <1>1 DEF ProperPath, RealPath, kind
    <3>5. Leads(path, t)' = p /\ Now(p)' = p /\ Whole(t)' = ps
      BY <1>1, <3>1 DEF Leads, medium, Whole, kind, Now, Moving
    <3>6. path # NoPath => AllAt(t, p, ps)'
      BY <1>1, <3>3, KeepFiles, SameFiles
    <3>7. exportDir \in {"old", "new"}
      BY DEF FilesInv, MoveShape
    <3>8. path # NoPath /\ RealPath(path, t) => path.at.area \in {"user", exportDir}
      <4> SUFFICES ASSUME path # NoPath, RealPath(path, t) PROVE path.at.area \in {"user", exportDir}
        OBVIOUS
      <4>1. path # Logical
        BY PathsDiffer DEF RealPath
      <4> QED
        BY <3>3, <4>1, PlaceIs DEF ProperPath
    <3>9. path # NoPath => ProperPath(path, t, {"old", "new"})
      BY <3>3, <3>7 DEF ProperPath
    <3>10. path # NoPath => AllAt(r.task, Now(Leads(r.path, r.task)), Whole(r.task))'
      BY <1>5, <3>5, <3>6
    <3>11. RealPath(r.path, r.task)' /\ r.path # NoPath =>
             (r.path.at.area = "old" => exportDir = "old") /\ (r.path.at.area = "new" => exportDir = "new")
      BY <1>5, <3>4, <3>7, <3>8
    <3>12. RowFiles(r)'
      BY <1>1, <1>5, <2>4, <3>1, <3>2, <3>4, <3>9, <3>10, <3>11 DEF RowFiles
    <3>13. move'.seen = {}
      BY <1>1, <3>1 DEF FilesInv, MoveShape
    <3> QED
      BY <1>5, <2>3, <3>12, <3>13
  <2> QED
    BY <1>1, <2>5, <2>6
<1>8. \A q \in rows' : q \in rows \/ OwnRow(q, t)
  BY <1>4, <1>5
<1> QED
  BY <1>1, <1>3, <1>6, <1>7, <1>8, PathOwn, RestStep

LEMMA BeginDeleteStep == ASSUME FilesInv, Notice, NEW t \in ArtTasks, BeginDelete(t) PROVE FilesInv'
<1>1. PICK r \in RowOf(t) : r.status # "running" /\ removal' = [removal EXCEPT ![t] = [step |-> "row", path |-> r.path]]
  BY DEF BeginDelete
<1> PICK x : x = [step |-> "row", path |-> r.path]
  OBVIOUS
<1>2. /\ removal[t].step = "no" /\ caseOf' = caseOf /\ exportDir' = exportDir /\ move' = move /\ fileVars' = fileVars
      /\ job' = job /\ rows' = rows
  BY DEF BeginDelete
<1>3. job = [u \in ArtTasks |-> job[u]] /\ removal = [u \in ArtTasks |-> removal[u]]
  BY DEF FilesInv, FileShapes
<1>4. x.step = "row" /\ x.path = r.path /\ IsRemoval(x) /\ removal' = [removal EXCEPT ![t] = x]
  BY <1>1 DEF IsRemoval
<1>5. Changes(job, job', t) /\ Changes(removal, removal', t) /\ removal'[t] = x
  BY <1>2, <1>3, <1>4, ChangesIs
<1>6. r \in rows /\ r.task = t /\ OwnPath(r.path, t)
  BY DEF RowOf, FilesInv, FileShapes
<1>7. ASSUME t \notin caught' PROVE ~Busy
  BY <1>2, <1>4, <1>5, <1>7, Spared DEF Caught, Busy
<1>8. ASSUME t \notin caught', t \in move.left PROVE Stranded(t)' /\ job'[t] = "ended"
  <2>1. Stranded(t) /\ job[t] = "ended"
    BY <1>1, <1>6, <1>8, Spared DEF Accounted, Stranded
  <2>2. FilesOf(t)' = FilesOf(t)
    BY <1>2, KeepFiles
  <2> PICK ps : ps = Whole(t)
    OBVIOUS
  <2>3. Whole(t)' = ps
    BY <1>2 DEF Whole, kind
  <2>4. ASSUME NEW p, p.of = t, AllAt(t, p, ps) PROVE AllAt(t, p, ps)'
    BY <2>2, <2>4, SameFiles
  <2> QED
    BY <1>2, <1>4, <1>5, <2>1, <2>3, <2>4 DEF Stranded
<1>9. ASSUME t \notin caught', t \notin move.left
      PROVE  job'[t] = "ended" /\ RemovalFiles(t)' /\ \A q \in rows' \cup move'.seen : q.task = t => RowFiles(q)'
  <2>1. TaskFiles(t) /\ RowFiles(r) /\ ~Moving /\ move.seen = {}
    BY <1>6, <1>7, <1>9, Spared DEF Accounted, TaskFiles, Busy, Moving, FilesInv, MoveShape
  <2>2. job'[t] = "ended"
    BY <1>1, <1>2, <1>6, <2>1 DEF RowFiles
  <2>3. RemovalFiles(t)'
    <3> PICK path, ps : path = r.path /\ ps = Whole(t)
      OBVIOUS
    <3> PICK p : p = Leads(path, t)
      OBVIOUS
    <3>1. Now(p) = p
      BY <2>1 DEF Now
    <3>2. path # NoPath => AllAt(t, p, ps) /\ ProperPath(path, t, {"old", "new"}) /\ p.of = t
      BY <1>6, <2>1, <3>1, LeadsOwn DEF RowFiles
    <3>3. path # NoPath => AllAt(t, p, ps)'
      BY <1>2, <3>2, KeepFiles, SameFiles
    <3>4. path # NoPath /\ RealPath(path, t) /\ path.at.area \in {"old", "new"} => path.at.area = exportDir
      BY <1>6, <2>1 DEF RowFiles, Moving
    <3>5. path # NoPath => ProperPath(path, t, {exportDir})
      BY <3>2, <3>4 DEF ProperPath
    <3>6. \A areas : (ProperPath(path, t, areas)' <=> ProperPath(path, t, areas))
      BY <1>2 DEF ProperPath, RealPath, kind
    <3>7. Leads(path, t)' = p /\ Whole(t)' = ps
      BY <1>2 DEF Leads, medium, Whole, kind
    <3>8. path # NoPath => ProperPath(path, t, {exportDir})'
      <4> PICK areas : areas = {exportDir}
        OBVIOUS
      <4> QED
        BY <1>2, <3>5, <3>6
    <3>9. removal'[t].step = "row" /\ removal'[t].path = path
      BY <1>4, <1>5
    <3> QED
      BY <2>2, <3>3, <3>7, <3>8, <3>9 DEF RemovalFiles
  <2>4. ASSUME NEW q \in rows', q.task = t PROVE RowFiles(q)'
    <3>1. q \in rows /\ RowFiles(q)
      BY <1>2, <2>1, <2>4 DEF TaskFiles
    <3> PICK p, ps : p = Leads(q.path, t) /\ ps = Whole(t)
      OBVIOUS
    <3>2. Now(p) = p /\ Now(p)' = p /\ Leads(q.path, t)' = p /\ Whole(t)' = ps
      BY <1>2, <2>1 DEF Now, Moving, Leads, medium, Whole, kind
    <3>3. q.path # NoPath => AllAt(t, p, ps) /\ p.of = t
      BY <2>4, <3>1, <3>2, LeadsOwn DEF RowFiles
    <3>4. q.path # NoPath => AllAt(t, p, ps)'
      BY <1>2, <3>3, KeepFiles, SameFiles
    <3>5. \A areas : (ProperPath(q.path, t, areas)' <=> ProperPath(q.path, t, areas)) /\ (RealPath(q.path, t)' <=> RealPath(q.path, t))
      BY <1>2 DEF ProperPath, RealPath, kind
    <3>6. removal'[q.task].step \in {"no", "row"}
      BY <1>4, <1>5, <2>4
    <3> QED
      BY <1>2, <2>2, <2>4, <3>1, <3>2, <3>4, <3>5, <3>6 DEF RowFiles
  <2> QED
    BY <1>2, <2>1, <2>2, <2>3, <2>4
<1> QED
  BY <1>2, <1>4, <1>5, <1>6, <1>8, <1>9, RestStep

LEMMA DeleteRowStep == ASSUME FilesInv, Notice, NEW t \in ArtTasks, DeleteRow(t) PROVE FilesInv'
<1>1. /\ removal[t].step = "row" /\ rows' = rows \ RowOf(t) /\ removal' = [removal EXCEPT ![t].step = "file"]
      /\ caseOf' = caseOf /\ exportDir' = exportDir /\ move' = move /\ fileVars' = fileVars /\ job' = job
  BY DEF DeleteRow
<1>2. job = [u \in ArtTasks |-> job[u]] /\ removal = [u \in ArtTasks |-> removal[u]] /\ IsRemoval(removal[t])
  BY DEF FilesInv, FileShapes
<1> PICK x : x = [removal[t] EXCEPT !.step = "file"]
  OBVIOUS
<1>3. x.step = "file" /\ x.path = removal[t].path /\ IsRemoval(x) /\ removal' = [removal EXCEPT ![t] = x]
  BY <1>1, <1>2 DEF IsRemoval
<1>4. Changes(job, job', t) /\ Changes(removal, removal', t) /\ removal'[t] = x /\ OwnPath(x.path, t)
  <2>1. Changes(job, job', t) /\ Changes(removal, removal', t) /\ removal'[t] = x
    BY <1>1, <1>2, <1>3, ChangesIs
  <2> QED
    BY <1>3, <2>1, PathOwn DEF OwnPath
<1>5. \A q \in rows' : q \in rows /\ q.task # t
  BY <1>1 DEF RowOf
<1>6. ASSUME t \notin caught' PROVE job'[t] = "ended" /\ ~Busy
  BY <1>1, <1>6, Spared DEF Accounted, Stranded, TaskFiles, RemovalFiles, Caught
<1>7. t \notin caught' => (t \in move.left => Stranded(t)')
  BY <1>5, <1>6 DEF Stranded
<1>8. ASSUME t \notin caught', t \notin move.left PROVE RemovalFiles(t)' /\ move'.seen = {}
  <2> PICK path, ps : path = removal[t].path /\ ps = Whole(t)
    OBVIOUS
  <2> PICK p : p = Leads(path, t)
    OBVIOUS
  <2>1. RemovalFiles(t)
    BY <1>8, Spared DEF Accounted, TaskFiles
  <2>2. path # NoPath => AllAt(t, p, ps) /\ ProperPath(path, t, {exportDir}) /\ p.of = t
    BY <1>1, <2>1, LeadsOwn DEF RemovalFiles
  <2>3. path # NoPath => AllAt(t, p, ps)'
    BY <1>1, <2>2, KeepFiles, SameFiles
  <2>4. \A areas : (ProperPath(path, t, areas)' <=> ProperPath(path, t, areas))
    BY <1>1 DEF ProperPath, RealPath, kind
  <2>5. Leads(path, t)' = p /\ Whole(t)' = ps
    BY <1>1 DEF Leads, medium, Whole, kind
  <2>6. path # NoPath => ProperPath(path, t, {exportDir})'
    <3> PICK areas : areas = {exportDir}
      OBVIOUS
    <3> QED
      BY <1>1, <2>2, <2>4
  <2>7. removal'[t].step = "file" /\ removal'[t].path = path
    BY <1>3, <1>4
  <2>8. move'.seen = {}
    BY <1>1, <1>6, <1>8 DEF Busy, FilesInv, MoveShape
  <2> QED
    BY <1>6, <1>8, <2>3, <2>5, <2>6, <2>7, <2>8 DEF RemovalFiles
<1> QED
  BY <1>1, <1>3, <1>4, <1>5, <1>6, <1>7, <1>8, RestStep

LEMMA RemoveStep == ASSUME FilesInv, Notice, NEW t \in ArtTasks, RemoveArtifact(t) PROVE FilesInv'
<1> PICK path : path = removal[t].path
  OBVIOUS
<1> PICK p : p = Leads(path, t)
  OBVIOUS
<1>1. /\ removal[t].step = "file" /\ rows' = rows /\ job' = job
      /\ caseOf' = caseOf /\ exportDir' = exportDir /\ move' = move /\ outArea' = outArea /\ output' = output
  BY DEF RemoveArtifact
<1>2. /\ job = [u \in ArtTasks |-> job[u]] /\ output = [u \in ArtTasks |-> output[u]] /\ outArea = [u \in ArtTasks |-> outArea[u]]
      /\ removal = [u \in ArtTasks |-> removal[u]] /\ IsRemoval(removal[t])
  BY DEF FilesInv, FileShapes
<1>3. Changes(job, job', t) /\ Changes(output, output', t) /\ Changes(outArea, outArea', t)
  BY <1>1, <1>2, ChangesIs
<1>4. PICK s : /\ s \in {"gone", "left"} /\ removal' = [removal EXCEPT ![t].step = s]
               /\ s = "left" => disk' = disk
               /\ s = "gone" => disk' = IF path = NoPath \/ (path.how = "real" /\ ~InManagedDir(p))
                                        THEN disk ELSE disk \ At(p)
  BY DEF RemoveArtifact
<1> PICK x : x = [removal[t] EXCEPT !.step = s]
  OBVIOUS
<1>5. x.step = s /\ x.path = path /\ IsRemoval(x) /\ removal' = [removal EXCEPT ![t] = x]
  BY <1>2, <1>4 DEF IsRemoval
<1>6. Changes(removal, removal', t) /\ removal'[t] = x
  BY <1>2, <1>5, ChangesIs
<1>7. p.of = t
  BY PathOwn, OwnPathIs, PlaceIs DEF Leads
<1>8. DiskOf(t)
  <2>1. CASE disk' = disk
    BY <2>1, DiskSame
  <2>2. CASE disk' = disk \ At(p)
    BY <1>7, <2>2 DEF DiskOf, At
  <2> QED
    BY <1>4, <2>1, <2>2
<1>9. OwnPaths(t)'
  <2>1. OwnPaths(t)
    BY DEF FilesInv, FileShapes
  <2>2. removal'[t].path = path
    BY <1>5, <1>6
  <2> QED
    BY <1>1, <2>1, <2>2 DEF OwnPaths, OwnPath, kind
<1>10. ASSUME t \notin caught' PROVE job'[t] = "ended" /\ ~Busy /\ \A r \in rows : r.task # t
  <2>1. Accounted(t) /\ ~Busy
    BY <1>1, <1>10, Spared DEF Caught
  <2> QED
    BY <1>1, <2>1 DEF Accounted, Stranded, TaskFiles, RemovalFiles, RowFiles
<1>11. ASSUME t \notin caught', t \in move.left PROVE Accounted(t)'
  BY <1>1, <1>10, <1>11 DEF Accounted, Stranded
<1>12. ASSUME t \notin caught', t \notin move.left PROVE Accounted(t)'
  <2>1. RemovalFiles(t) /\ move.seen = {} /\ exportDir \in {"old", "new"}
    BY <1>10, <1>12, Spared DEF Accounted, TaskFiles, Busy, FilesInv, MoveShape
  <2>2. path # NoPath => AllAt(t, p, Whole(t)) /\ ProperPath(path, t, {exportDir}) /\ p.of = t
    BY <1>1, <2>1, LeadsOwn DEF RemovalFiles
  <2>3. removal'[t].step = s /\ removal'[t].path = path /\ kind(t)' = kind(t)
    BY <1>1, <1>5, <1>6 DEF kind
  <2>4. ASSUME s = "gone", path # NoPath
        PROVE  (\A y \in FilesOf(t)' : y.at.area = "user") /\ (kind(t) = "import" => Held(Place("user", t, "file"))' # {})
    <3>1. CASE kind(t) = "import"
      <4>1. path.how = "real" /\ p = Place("user", t, "file")
        BY <2>2, <2>4, <3>1, PathsDiffer DEF ProperPath, RealPath, Leads
      <4>2. ~InManagedDir(p)
        BY <2>1, <4>1, PlaceIs DEF InManagedDir
      <4>3. disk' = disk
        BY <1>4, <2>4, <4>1, <4>2
      <4>4. \A y \in FilesOf(t) : y.at = p
        BY <2>2, <2>4 DEF AllAt
      <4>5. Held(p) # {} /\ Held(p)' = Held(p)
        BY <2>2, <2>4, <3>1, <4>3, DiskSame, SameFiles DEF AllAt, Whole
      <4>6. p.area = "user"
        BY <4>1, PlaceIs
      <4> QED
        BY <4>1, <4>3, <4>4, <4>5, <4>6, DiskSame
    <3>2. CASE kind(t) # "import"
      <4>1. path.how = "real" => InManagedDir(p)
        BY <2>2, <2>4, <3>2, PathsDiffer DEF ProperPath, RealPath, Leads, InManagedDir
      <4>2. disk' = disk \ At(p)
        BY <1>4, <2>4, <4>1
      <4>3. FilesOf(t)' = {}
        BY <2>2, <2>4, <4>2 DEF FilesOf, AllAt, At
      <4> QED
        BY <3>2, <4>3
    <3> QED
      BY <3>1, <3>2
  <2>5. RemovalFiles(t)'
    BY <1>4, <1>10, <1>12, <2>3, <2>4 DEF RemovalFiles
  <2>6. JobFiles(t)'
    BY <1>10, <1>12 DEF JobFiles
  <2>7. move'.step # "switch"
    BY <1>1, <1>10, <1>12 DEF Busy
  <2> QED
    BY <1>1, <1>10, <1>12, <2>1, <2>5, <2>6, <2>7 DEF TaskFiles, Accounted
<1> QED
  BY <1>1, <1>3, <1>5, <1>6, <1>8, <1>9, <1>11, <1>12, TaskStep

(* The end of a StartExport: the work directory is emptied.                   *)
LEMMA LeadsArea ==
  ASSUME NEW t, NEW path, NEW areas, ProperPath(path, t, areas), "work" \notin areas, exportDir \in {"old", "new"}
  PROVE  Leads(path, t).area # "work"
  BY PathsDiffer, PlaceIs DEF ProperPath, RealPath, Leads

LEMMA ReturnStep == ASSUME FilesInv, Notice, NEW t \in ArtTasks, Return(t) PROVE FilesInv'
<1>1. /\ starting # {} /\ disk' = {x \in disk : x.at.area # "work"}
      /\ caseOf' = caseOf /\ job' = job /\ outArea' = outArea /\ output' = output /\ rows' = rows
      /\ exportDir' = exportDir /\ move' = move /\ removal' = removal
  BY DEF Return
<1>2. \A p : p.area # "work" => At(p)' = At(p) /\ Held(p)' = Held(p)
  BY <1>1 DEF At, Held
<1>3. \A u : FilesOf(u)' \subseteq FilesOf(u)
  BY <1>1 DEF FilesOf
<1>4. ASSUME NEW u, NEW p, NEW ps, p.area # "work", AllAt(u, p, ps) PROVE AllAt(u, p, ps)'
  BY <1>2, <1>3, <1>4 DEF AllAt
<1>5. \A path, u : Leads(path, u)' = Leads(path, u)
  BY <1>1 DEF Leads, medium
<1>6. \A u : kind(u)' = kind(u) /\ (UsesWork(u)' <=> UsesWork(u)) /\ Whole(u)' = Whole(u)
  BY <1>1 DEF UsesWork, kind, medium, Whole
<1>7. \A u : WorkArea(u)' = WorkArea(u) /\ Progress(u)' = Progress(u) /\ Base(u)' = Base(u)
  BY <1>1 DEF UsesWork, kind, medium, WorkArea, Progress, Base
<1>8. \A path, u, areas : (ProperPath(path, u, areas)' <=> ProperPath(path, u, areas)) /\ (RealPath(path, u)' <=> RealPath(path, u))
  BY <1>1 DEF ProperPath, RealPath, kind
<1>9. exportDir \in {"old", "new"}
  BY DEF FilesInv, MoveShape
<1>10. ASSUME NEW u \in ArtTasks, u \notin caught', TaskFiles(u) PROVE TaskFiles(u)'
  <2>1. JobFiles(u) /\ RemovalFiles(u)
    BY <1>10 DEF TaskFiles
  <2>2. job[u] \in {"based", "dumped", "added", "packed"} => ~UsesWork(u) /\ WorkArea(u) = exportDir
    BY <1>1, <1>10, Spared DEF Caught, AtWork, WorkArea
  <2>3. JobFiles(u)'
    <3> PICK path, ps : path = output[u] /\ ps = Whole(u)
      OBVIOUS
    <3> PICK p, b, bs : p = Leads(path, u) /\ b = Base(u) /\ bs = Progress(u)
      OBVIOUS
    <3>1. job[u] \in {"packed", "placed"} /\ path # NoPath => AllAt(u, p, ps)'
      <4> SUFFICES ASSUME job[u] \in {"packed", "placed"}, path # NoPath PROVE AllAt(u, p, ps)'
        OBVIOUS
      <4>1. ProperPath(path, u, {exportDir}) /\ AllAt(u, p, ps)
        BY <2>1, <2>2 DEF JobFiles
      <4>2. p.area # "work"
        BY <1>9, <4>1, LeadsArea
      <4> QED
        BY <1>4, <4>1, <4>2
    <3>2. job[u] \in {"based", "dumped", "added"} => AllAt(u, b, bs)'
      <4> SUFFICES ASSUME job[u] \in {"based", "dumped", "added"} PROVE AllAt(u, b, bs)'
        OBVIOUS
      <4>1. AllAt(u, b, bs) /\ b.area # "work"
        BY <1>9, <2>1, <2>2, PlaceIs DEF JobFiles, Base
      <4> QED
        BY <1>4, <4>1
    <3>3. job[u] \in {"packed", "placed"} /\ path # NoPath =>
            ProperPath(path, u, {IF job[u] = "packed" THEN WorkArea(u) ELSE exportDir})'
      <4> PICK areas : areas = {IF job[u] = "packed" THEN WorkArea(u) ELSE exportDir}
        OBVIOUS
      <4>1. job[u] \in {"packed", "placed"} /\ path # NoPath => ProperPath(path, u, areas)
        BY <2>1 DEF JobFiles
      <4>2. ({IF job[u] = "packed" THEN WorkArea(u) ELSE exportDir})' = areas
        BY <1>1, <1>7
      <4> QED
        BY <1>8, <4>1, <4>2
    <3>4. FilesOf(u) = {} => FilesOf(u)' = {}
      BY <1>3
    <3>5. Leads(path, u)' = p /\ Whole(u)' = ps /\ Base(u)' = b /\ Progress(u)' = bs
      BY <1>5, <1>6, <1>7
    <3> QED
      BY <1>1, <1>6, <1>7, <2>1, <3>1, <3>2, <3>3, <3>4, <3>5 DEF JobFiles
  <2>4. RemovalFiles(u)'
    <3> PICK path, ps : path = removal[u].path /\ ps = Whole(u)
      OBVIOUS
    <3> PICK p, areas : p = Leads(path, u) /\ areas = {exportDir}
      OBVIOUS
    <3>1. removal[u].step \in {"row", "file"} /\ path # NoPath => ProperPath(path, u, areas) /\ AllAt(u, p, ps)
      BY <2>1 DEF RemovalFiles
    <3>2. removal[u].step \in {"row", "file"} /\ path # NoPath => AllAt(u, p, ps)' /\ ProperPath(path, u, areas)'
      BY <1>4, <1>8, <1>9, <3>1, LeadsArea
    <3>3. PICK q : q = Place("user", u, "file")
      OBVIOUS
    <3>4. Held(q)' = Held(q)
      BY <1>2, <3>3, PlaceIs
    <3> QED
      BY <1>1, <1>3, <1>5, <1>6, <2>1, <3>2, <3>3, <3>4 DEF RemovalFiles
  <2>5. ASSUME NEW r \in rows' \cup move'.seen, r.task = u PROVE RowFiles(r)'
    <3>1. RowFiles(r)
      BY <1>1, <1>10, <2>5 DEF TaskFiles
    <3> PICK ps, q, areas : ps = Whole(u) /\ q = Now(Leads(r.path, u)) /\ areas = {"old", "new"}
      OBVIOUS
    <3>2. Now(Leads(r.path, u))' = q
      BY <1>1, <1>5 DEF Now, Moving
    <3>3. r.path # NoPath => AllAt(u, q, ps) /\ q.area # "work"
      BY <1>9, <2>5, <3>1, LeadsArea, PlaceIs DEF RowFiles, Now
    <3>4. r.path # NoPath => AllAt(u, q, ps)'
      BY <1>4, <3>3
    <3> QED
      BY <1>1, <1>6, <1>8, <2>5, <3>1, <3>2, <3>4 DEF RowFiles
  <2>6. move'.step = "switch" => \A x \in FilesOf(u)' : x.at.area \notin Managed
    BY <1>1, <1>3, <1>10 DEF TaskFiles
  <2> QED
    BY <2>3, <2>4, <2>5, <2>6 DEF TaskFiles
<1>11. ASSUME NEW u \in ArtTasks, Stranded(u) PROVE Stranded(u)'
  <2> PICK ps : ps = Whole(u)
    OBVIOUS
  <2>1. Whole(u)' = ps
    BY <1>6
  <2>2. \A p : p.area \in Managed /\ AllAt(u, p, ps) => AllAt(u, p, ps)'
    BY <1>4 DEF Managed
  <2> QED
    BY <1>1, <1>11, <2>1, <2>2 DEF Stranded
<1>12. ASSUME NEW u \in ArtTasks, u \notin caught' PROVE Accounted(u)'
  BY <1>1, <1>10, <1>11, <1>12, Spared DEF Accounted
<1>13. FileShapes'
  BY <1>1, <1>6 DEF FilesInv, FileShapes, OwnPaths, OwnPath
<1>14. MoveShape'
  BY <1>1 DEF FilesInv, MoveShape
<1> QED
  BY <1>12, <1>13, <1>14 DEF FilesInv, Notice

(* The change of the directory.  A task it has not met at work is at rest.     *)
LEMMA AtRest ==
  ASSUME FilesInv, Notice, NEW u \in ArtTasks, u \notin caught', job' = job, removal' = removal, Busy \/ Busy'
  PROVE  job[u] \notin {"based", "dumped", "added", "packed", "placed"} /\ removal[u].step \notin {"row", "file"}
  BY Spared DEF Caught, AtWork

(* A step that leaves tasks and files alone.                                  *)
LEMMA StillStep ==
  ASSUME NEW u \in ArtTasks, TaskFiles(u), caseOf' = caseOf, job' = job, fileVars' = fileVars, removal' = removal,
         job[u] \notin {"based", "dumped", "added", "packed", "placed"}, removal[u].step \notin {"row", "file"},
         \A r \in rows' \cup move'.seen : r.task = u => RowFiles(r)',
         move'.step = "switch" => \A x \in FilesOf(u) : x.at.area \notin Managed
  PROVE  TaskFiles(u)'
<1>1. output' = output /\ outArea' = outArea /\ disk' = disk
  BY DEF fileVars
<1>2. JobFiles(u) /\ RemovalFiles(u)
  BY DEF TaskFiles
<1>3. FilesOf(u)' = FilesOf(u)
  BY <1>1, DiskSame
<1>4. kind(u)' = kind(u) /\ (UsesWork(u)' <=> UsesWork(u))
  BY DEF kind, medium, UsesWork
<1>5. PICK q : q = Place("user", u, "file")
  OBVIOUS
<1>6. Held(q)' = Held(q)
  BY <1>3, <1>5, SameFiles, PlaceIs
<1>7. JobFiles(u)'
  BY <1>1, <1>2, <1>3, <1>4 DEF JobFiles
<1>8. RemovalFiles(u)'
  BY <1>2, <1>3, <1>4, <1>5, <1>6 DEF RemovalFiles
<1> QED
  BY <1>3, <1>7, <1>8 DEF TaskFiles

LEMMA UpdateStep ==
  ASSUME FilesInv, Notice, caseOf' = caseOf, job' = job, output' = output, outArea' = outArea, removal' = removal,
         \A x \in disk' : x.at = Place(x.at.area, x.at.of, x.at.form),
         \A r \in rows' \cup move'.seen : r.task \in ArtTasks /\ r = Row(r.task, r.status, r.path) /\ OwnPath(r.path, r.task),
         MoveShape', \A u \in ArtTasks : u \notin caught' => Accounted(u)'
  PROVE  FilesInv'
<1>1. FileShapes'
  BY DEF FilesInv, FileShapes, OwnPaths, OwnPath, kind
<1> QED
  BY <1>1 DEF FilesInv, Notice

(* Records whose paths and files stay what they are.                          *)
LEMMA RowStays ==
  ASSUME NEW r, RowFiles(r), caseOf' = caseOf, job' = job, removal' = removal, disk' = disk,
         r.path # NoPath => Now(Leads(r.path, r.task))' = Now(Leads(r.path, r.task)),
         RealPath(r.path, r.task) /\ r.path.at.area = "old" => exportDir' = "old" /\ (move'.step = "rewrite" => r \in move'.seen),
         RealPath(r.path, r.task) /\ r.path.at.area = "new" => exportDir' = "new" \/ move'.step = "rewrite"
  PROVE  RowFiles(r)'
<1> PICK u, ps, q, areas : u = r.task /\ ps = Whole(r.task) /\ q = Now(Leads(r.path, r.task)) /\ areas = {"old", "new"}
  OBVIOUS
<1>1. Whole(u)' = ps
  BY DEF Whole, kind
<1>2. \A p : AllAt(u, p, ps)' <=> AllAt(u, p, ps)
  BY DEF AllAt, FilesOf, Held, At
<1>3. (ProperPath(r.path, u, areas)' <=> ProperPath(r.path, u, areas)) /\ (RealPath(r.path, u)' <=> RealPath(r.path, u))
  BY DEF ProperPath, RealPath, kind
<1> QED
  BY <1>1, <1>2, <1>3 DEF RowFiles

LEMMA BeginUpdateStep == ASSUME FilesInv, Notice, BeginUpdate PROVE FilesInv'
<1> PICK todo : todo = {p \in {x.at : x \in disk} : p.area = "old"}
  OBVIOUS
<1>1. /\ move.step = "idle" /\ move' = [Idle EXCEPT !.step = "move", !.todo = todo]
      /\ caseOf' = caseOf /\ job' = job /\ fileVars' = fileVars /\ rows' = rows
      /\ exportDir' = exportDir /\ removal' = removal
  BY DEF BeginUpdate
<1>2. /\ move'.step = "move" /\ move'.todo = todo /\ move'.seen = {} /\ move'.left = {}
      /\ move' = [step |-> "move", todo |-> todo, seen |-> {}, left |-> {}]
  BY <1>1 DEF Idle
<1>3. ~Moving /\ Busy' /\ exportDir = "old" /\ move.seen = {} /\ move.left = {}
  BY <1>1, <1>2 DEF FilesInv, MoveShape, Moving, Busy
<1>4. disk' = disk /\ output' = output /\ outArea' = outArea
  BY <1>1 DEF fileVars
<1>5. MoveShape'
  BY <1>1, <1>2, <1>3 DEF MoveShape
<1>6. ASSUME NEW r \in rows, RowFiles(r) PROVE RowFiles(r)'
  <2>1. r.path # NoPath => Now(Leads(r.path, r.task))' = Now(Leads(r.path, r.task))
    <3> SUFFICES ASSUME r.path # NoPath PROVE Now(Leads(r.path, r.task))' = Now(Leads(r.path, r.task))
      OBVIOUS
    <3> PICK p : p = Leads(r.path, r.task)
      OBVIOUS
    <3>1. Leads(r.path, r.task)' = p
      BY <1>1 DEF Leads, medium
    <3>2. Now(p) = p
      BY <1>3 DEF Now
    <3>3. Held(p) # {}
      BY <1>6, <3>2 DEF RowFiles, AllAt, Whole
    <3>4. p.area = "old" => p \in todo
      BY <3>3 DEF Held, At
    <3>5. Now(p)' = p
      BY <1>2, <3>4 DEF Now
    <3> QED
      BY <3>1, <3>2, <3>5
  <2>2. RealPath(r.path, r.task) => r.path # NoPath
    BY PathsDiffer DEF RealPath
  <2> QED
    BY <1>1, <1>2, <1>3, <1>4, <1>6, <2>1, <2>2, RowStays DEF RowFiles
<1>7. ASSUME NEW u \in ArtTasks, u \notin caught' PROVE Accounted(u)'
  <2>1. TaskFiles(u)
    BY <1>3, <1>7, Spared DEF Accounted
  <2>2. \A r \in rows' \cup move'.seen : r.task = u => RowFiles(r)'
    BY <1>1, <1>2, <1>6, <2>1 DEF TaskFiles
  <2> QED
    BY <1>1, <1>2, <1>3, <1>7, <2>1, <2>2, AtRest, StillStep DEF Accounted
<1>8. \A r \in rows' \cup move'.seen : r.task \in ArtTasks /\ r = Row(r.task, r.status, r.path) /\ OwnPath(r.path, r.task)
  BY <1>1, <1>2 DEF FilesInv, FileShapes
<1>9. \A x \in disk' : x.at = Place(x.at.area, x.at.of, x.at.form)
  BY <1>4 DEF FilesInv, FileShapes
<1> QED
  BY <1>1, <1>4, <1>5, <1>7, <1>8, <1>9, UpdateStep

LEMMA LoadRowsStep == ASSUME FilesInv, Notice, LoadRows PROVE FilesInv'
<1> PICK seen : seen = {r \in rows : r.path.how = "real" /\ Leads(r.path, r.task).area = "old"}
  OBVIOUS
<1>1. /\ move.step = "move" /\ move.todo = {} /\ move' = [Idle EXCEPT !.step = "rewrite", !.seen = seen]
      /\ caseOf' = caseOf /\ job' = job /\ fileVars' = fileVars /\ rows' = rows
      /\ exportDir' = exportDir /\ removal' = removal
  BY DEF LoadRows
<1>2. /\ move'.step = "rewrite" /\ move'.todo = {} /\ move'.seen = seen /\ move'.left = {}
      /\ move' = [step |-> "rewrite", todo |-> {}, seen |-> seen, left |-> {}]
  BY <1>1 DEF Idle
<1>3. /\ Moving /\ Moving' /\ Busy /\ disk' = disk /\ output' = output /\ outArea' = outArea
      /\ exportDir = "old" /\ move.left = {}
  BY <1>1, <1>2 DEF Moving, Busy, fileVars, FilesInv, MoveShape
<1>4. \A r \in seen : r \in rows /\ r.path.how = "real" /\ r.path.at.area = "old"
  BY DEF Leads
<1>5. MoveShape'
  BY <1>1, <1>2, <1>3, <1>4 DEF MoveShape
<1>6. ASSUME NEW r \in rows, RowFiles(r) PROVE RowFiles(r)'
  <2>1. Now(Leads(r.path, r.task))' = Now(Leads(r.path, r.task))
    <3> PICK p : p = Leads(r.path, r.task)
      OBVIOUS
    <3>1. Leads(r.path, r.task)' = p
      BY <1>1 DEF Leads, medium
    <3>2. Now(p)' = Now(p)
      BY <1>1, <1>2, <1>3 DEF Now
    <3> QED
      BY <3>1, <3>2
  <2>2. RealPath(r.path, r.task) => r.path # NoPath
    BY PathsDiffer DEF RealPath
  <2>3. RealPath(r.path, r.task) /\ r.path.at.area = "old" => exportDir' = "old" /\ r \in seen
    BY <1>1, <1>6, <2>2 DEF RowFiles, RealPath, Leads
  <2> QED
    BY <1>1, <1>2, <1>3, <1>6, <2>1, <2>2, <2>3, RowStays
<1>7. ASSUME NEW u \in ArtTasks, u \notin caught' PROVE Accounted(u)'
  <2>1. TaskFiles(u)
    BY <1>3, <1>7, Spared DEF Accounted
  <2>2. \A r \in rows' \cup move'.seen : r.task = u => RowFiles(r)'
    BY <1>1, <1>2, <1>4, <1>6, <2>1 DEF TaskFiles
  <2> QED
    BY <1>1, <1>2, <1>3, <1>7, <2>1, <2>2, AtRest, StillStep DEF Accounted
<1>8. \A r \in rows' \cup move'.seen : r.task \in ArtTasks /\ r = Row(r.task, r.status, r.path) /\ OwnPath(r.path, r.task)
  BY <1>1, <1>2, <1>4 DEF FilesInv, FileShapes
<1>9. \A x \in disk' : x.at = Place(x.at.area, x.at.of, x.at.form)
  BY <1>3 DEF FilesInv, FileShapes
<1> QED
  BY <1>1, <1>3, <1>5, <1>7, <1>8, <1>9, UpdateStep

LEMMA Rewritten ==
  ASSUME NEW t, NEW s, NEW path, NEW r, r = Row(t, s, path), RealPath(path, t)
  PROVE  [r EXCEPT !.path.at.area = "new"] = Row(t, s, Real(Place("new", t, path.at.form)))
<1> PICK p : p = path.at
  OBVIOUS
<1>0. p = Place(p.area, t, p.form) /\ path = Real(p)
  <2>1. path = Real(Place(p.area, t, p.form))
    BY DEF RealPath
  <2>2. Real(Place(p.area, t, p.form)).at = Place(p.area, t, p.form)
    BY PathsDiffer
  <2> QED
    BY <2>1, <2>2
<1>1. p = [area |-> p.area, of |-> t, form |-> p.form]
  BY <1>0 DEF Place
<1>2. path = [how |-> "real", at |-> p]
  BY <1>0 DEF Real
<1>3. [p EXCEPT !.area = "new"] = Place("new", t, p.form)
  BY <1>1 DEF Place
<1>4. [path EXCEPT !.at = Place("new", t, p.form)] = Real(Place("new", t, p.form))
  BY <1>2 DEF Real
<1>5. r = [task |-> t, status |-> s, path |-> path]
  BY DEF Row
<1>6. [r EXCEPT !.path = Real(Place("new", t, p.form))] = Row(t, s, Real(Place("new", t, p.form)))
  BY <1>5 DEF Row
<1>7. [r EXCEPT !.path.at.area = "new"] = [r EXCEPT !.path = [path EXCEPT !.at = [p EXCEPT !.area = "new"]]]
  BY <1>5
<1> QED
  BY <1>3, <1>4, <1>6, <1>7

LEMMA RewriteStep == ASSUME FilesInv, Notice, NEW r \in move.seen, RewriteRow(r) PROVE FilesInv'
<1> PICK t, form : t = r.task /\ form = r.path.at.form
  OBVIOUS
<1> PICK path, new : path = Real(Place("new", t, form)) /\ new = [r EXCEPT !.path.at.area = "new"]
  OBVIOUS
<1>1. /\ move.step = "rewrite" /\ move' = [move EXCEPT !.seen = @ \ {r}] /\ SaveHistory(new)
      /\ caseOf' = caseOf /\ job' = job /\ fileVars' = fileVars
      /\ exportDir' = exportDir /\ removal' = removal
  BY DEF RewriteRow
<1>2. /\ move = [step |-> "rewrite", todo |-> {}, seen |-> move.seen, left |-> {}] /\ r.path.how = "real" /\ r.path.at.area = "old"
      /\ exportDir = "old" /\ \A q \in move.seen : q.path.how = "real" /\ q.path.at.area = "old"
  BY <1>1 DEF FilesInv, MoveShape
<1>3. /\ move'.step = "rewrite" /\ move'.todo = {} /\ move'.seen = move.seen \ {r} /\ move.left = {} /\ move'.left = {}
      /\ move' = [step |-> "rewrite", todo |-> {}, seen |-> move.seen \ {r}, left |-> {}]
  <2> PICK old : old = move.seen
    OBVIOUS
  <2>1. move = [step |-> "rewrite", todo |-> {}, seen |-> old, left |-> {}]
    BY <1>2
  <2>2. move' = [step |-> "rewrite", todo |-> {}, seen |-> old \ {r}, left |-> {}]
    BY <1>1, <2>1
  <2> QED
    BY <2>1, <2>2
<1>4. Moving /\ Moving' /\ Busy /\ disk' = disk /\ output' = output /\ outArea' = outArea
  BY <1>1, <1>3 DEF Moving, Busy, fileVars
<1>5. t \in ArtTasks /\ r = Row(t, r.status, r.path) /\ OwnPath(r.path, t)
  BY DEF FilesInv, FileShapes
<1>6. new.task = t /\ new = Row(new.task, new.status, new.path) /\ OwnPath(new.path, new.task)
  <2>1. new = Row(t, r.status, path)
    BY <1>2, <1>5, Rewritten DEF OwnPath, RealPath
  <2>2. new.task = t /\ new.status = r.status /\ new.path = path
    BY <2>1 DEF Row
  <2>3. OwnPath(path, t)
    BY PathsDiffer, PlaceIs DEF OwnPath
  <2> QED
    BY <2>1, <2>2, <2>3
<1>7. \A q \in rows' : q = new \/ (q \in rows /\ q.task # t)
  BY <1>1, <1>6, SavedRows
<1>8. MoveShape'
  BY <1>1, <1>2, <1>3 DEF MoveShape
<1>9. \A p : Now(p)' = Now(p)
  BY <1>2, <1>3, <1>4 DEF Now
<1>10. \A p, u : Leads(p, u)' = Leads(p, u)
  BY <1>1 DEF Leads, medium
<1>11. ASSUME RowFiles(r) PROVE RowFiles(new)'
  <2>1. /\ kind(t) # "import" /\ RealPath(r.path, t) /\ r.status = "done"
        /\ AllAt(t, Now(Leads(r.path, t)), Whole(t))
    <3>1. r.path # NoPath /\ r.path # Logical
      BY <1>2, PathsDiffer
    <3>2. ProperPath(r.path, t, {"old", "new"}) /\ r.status = "done" /\ AllAt(t, Now(Leads(r.path, t)), Whole(t))
      BY <1>11, <3>1 DEF RowFiles
    <3>3. RealPath(r.path, t) /\ (kind(t) = "import" => r.path.at = Place("user", t, "file"))
      BY <3>1, <3>2 DEF ProperPath
    <3> QED
      BY <1>2, <3>2, <3>3, PlaceIs
  <2>2. new = Row(t, "done", path)
    BY <1>5, <2>1, Rewritten
  <2> PICK ps, b, areas : ps = Whole(t) /\ b = Place("new", t, form) /\ areas = {"old", "new"}
    OBVIOUS
  <2>3. new.task = t /\ new.status = "done" /\ new.path = path
    BY <2>2 DEF Row
  <2>4. path # NoPath /\ RealPath(path, t) /\ path.at = b /\ b.area = "new"
    BY PathsDiffer, PlaceIs DEF RealPath
  <2>5. Leads(path, t) = b /\ Now(b) = b
    BY <2>4, PathsDiffer DEF Leads, Now
  <2>6. Now(Leads(r.path, t)) = b
    <3> PICK a : a = r.path.at
      OBVIOUS
    <3>0. a = Place(a.area, t, a.form)
      <4>1. r.path = Real(Place(a.area, t, a.form))
        BY <2>1 DEF RealPath
      <4>2. Real(Place(a.area, t, a.form)).at = Place(a.area, t, a.form)
        BY PathsDiffer
      <4> QED
        BY <4>1, <4>2
    <3>1. Leads(r.path, t) = a /\ a.area = "old" /\ a.of = t /\ a.form = form
      BY <1>2, <3>0, PlaceIs DEF Leads
    <3> QED
      BY <1>2, <1>4, <3>1 DEF Now
  <2>7. AllAt(t, b, ps)
    BY <2>1, <2>6
  <2>8. AllAt(t, b, ps)' /\ Whole(t)' = ps
    BY <1>1, <1>4, <2>7 DEF AllAt, FilesOf, Held, At, Whole, kind
  <2>9. ProperPath(path, t, areas)' /\ RealPath(path, t)'
    <3>1. ProperPath(path, t, areas)
      BY <2>1, <2>4 DEF ProperPath
    <3> QED
      BY <1>1, <2>4, <3>1 DEF ProperPath, RealPath, kind
  <2>10. job'[t] = "ended" /\ removal'[t].step \in {"no", "row"}
    BY <1>1, <1>11, <2>1 DEF RowFiles
  <2>11. Now(Leads(path, t))' = b
    BY <1>9, <1>10, <2>5
  <2> QED
    BY <1>3, <2>3, <2>4, <2>8, <2>9, <2>10, <2>11 DEF RowFiles
<1>12. ASSUME NEW q \in rows \cup move.seen, q # r, RowFiles(q) PROVE RowFiles(q)'
  <2>1. Now(Leads(q.path, q.task))' = Now(Leads(q.path, q.task))
    <3> PICK p : p = Leads(q.path, q.task)
      OBVIOUS
    <3> QED
      BY <1>9, <1>10
  <2>2. RealPath(q.path, q.task) => q.path # NoPath
    BY PathsDiffer DEF RealPath
  <2> QED
    BY <1>1, <1>2, <1>3, <1>4, <1>12, <2>1, <2>2, RowStays DEF RowFiles
<1>13. ASSUME NEW u \in ArtTasks, u \notin caught' PROVE Accounted(u)'
  <2>1. TaskFiles(u)
    BY <1>3, <1>13, Spared DEF Accounted
  <2>2. ASSUME NEW q \in rows' \cup move'.seen, q.task = u PROVE RowFiles(q)'
    <3>1. CASE q = new
      BY <1>6, <1>11, <2>1, <2>2, <3>1 DEF TaskFiles
    <3>2. CASE q # new
      <4>1. q \in rows \cup move.seen /\ q # r
        BY <1>3, <1>7, <2>2, <3>2
      <4> QED
        BY <1>12, <2>1, <2>2, <4>1 DEF TaskFiles
    <3> QED
      BY <3>1, <3>2
  <2> QED
    BY <1>1, <1>3, <1>4, <1>13, <2>1, <2>2, AtRest, StillStep DEF Accounted
<1>14. \A q \in rows' \cup move'.seen : q.task \in ArtTasks /\ q = Row(q.task, q.status, q.path) /\ OwnPath(q.path, q.task)
  BY <1>3, <1>5, <1>6, <1>7 DEF FilesInv, FileShapes
<1>15. \A x \in disk' : x.at = Place(x.at.area, x.at.of, x.at.form)
  BY <1>4 DEF FilesInv, FileShapes
<1> QED
  BY <1>1, <1>4, <1>8, <1>13, <1>14, <1>15, UpdateStep

(* After a rename that failed, a record whose files are elsewhere than in the   *)
(* two directories does not speak of them.                                    *)
LEMMA Elsewhere ==
  ASSUME NEW r, RowFiles(r), r.path # NoPath, \A x \in FilesOf(r.task) : x.at.area \notin Managed
  PROVE  Now(Leads(r.path, r.task)) = Leads(r.path, r.task) /\ Leads(r.path, r.task).area \notin Managed
<1> PICK p, q : p = Leads(r.path, r.task) /\ q = Now(p)
  OBVIOUS
<1>1. AllAt(r.task, q, Whole(r.task)) /\ p.of = r.task
  BY LeadsOwn DEF RowFiles
<1>2. q.of = r.task
  BY <1>1, PlaceIs DEF Now
<1>3. PICK x \in disk : x.at = q
  BY <1>1 DEF AllAt, Held, At, Whole
<1>4. q.area \notin Managed
  BY <1>2, <1>3 DEF FilesOf
<1> QED
  BY <1>4, PlaceIs DEF Now, Managed

LEMMA SwitchStep == ASSUME FilesInv, Notice, SwitchDirs PROVE FilesInv'
<1> PICK s : s = IF move.step = "switch" THEN "half" ELSE "done"
  OBVIOUS
<1>1. /\ move.step = "switch" \/ (move.step = "rewrite" /\ move.seen = {})
      /\ move' = [Idle EXCEPT !.step = s, !.left = move.left] /\ exportDir' = "new"
      /\ caseOf' = caseOf /\ job' = job /\ fileVars' = fileVars /\ rows' = rows /\ removal' = removal
  BY DEF SwitchDirs
<1>2. /\ move'.step = s /\ move'.todo = {} /\ move'.seen = {} /\ move'.left = move.left
      /\ move' = [step |-> s, todo |-> {}, seen |-> {}, left |-> move.left]
  BY <1>1 DEF Idle
<1>3. /\ Busy /\ ~Moving' /\ disk' = disk /\ output' = output /\ outArea' = outArea /\ move.todo = {} /\ move.seen = {}
      /\ exportDir = "old" /\ move'.step \notin {"rewrite", "switch"}
  BY <1>1, <1>2 DEF Busy, Moving, fileVars, FilesInv, MoveShape
<1>4. MoveShape'
  BY <1>1, <1>2, <1>3 DEF MoveShape, FilesInv
<1>5. ASSUME NEW r \in rows, RowFiles(r), move.step = "switch" => \A x \in FilesOf(r.task) : x.at.area \notin Managed
      PROVE  RowFiles(r)'
  <2>1. r.path # NoPath => Now(Leads(r.path, r.task))' = Now(Leads(r.path, r.task))
    <3> SUFFICES ASSUME r.path # NoPath PROVE Now(Leads(r.path, r.task))' = Now(Leads(r.path, r.task))
      OBVIOUS
    <3> PICK p, q : p = Leads(r.path, r.task) /\ q = Now(p)
      OBVIOUS
    <3>1. CASE r.path = Logical /\ medium # "object" /\ move.step # "switch"
      <4>1. p = Place("old", r.task, "file") /\ Leads(r.path, r.task)' = Place("new", r.task, "file")
        BY <1>1, <1>3, <3>1, PathsDiffer DEF Leads, medium
      <4>2. q = Place("new", r.task, "file")
        BY <1>1, <1>3, <3>1, <4>1, PlaceIs DEF Now, Moving
      <4>3. Now(q)' = q
        BY <1>3 DEF Now
      <4> QED
        BY <4>1, <4>2, <4>3
    <3>2. CASE r.path = Logical /\ medium = "object"
      <4>1. p = Place("object", r.task, "file") /\ Leads(r.path, r.task)' = p
        BY <1>1, <3>2, PathsDiffer DEF Leads, medium
      <4>2. q = p /\ Now(p)' = p
        BY <1>3, <4>1, PlaceIs DEF Now
      <4> QED
        BY <4>1, <4>2
    <3>3. CASE r.path # Logical /\ move.step # "switch"
      <4>1. RealPath(r.path, r.task)
        BY <1>5, <3>3 DEF RowFiles, ProperPath
      <4>2. r.path.how = "real" /\ r.path.at.area # "old"
        BY <1>1, <1>5, <3>3, <4>1 DEF RowFiles, RealPath
      <4>3. p = r.path.at /\ Leads(r.path, r.task)' = p
        BY <4>2 DEF Leads
      <4>4. q = p /\ Now(p)' = p
        BY <1>3, <4>2, <4>3 DEF Now
      <4> QED
        BY <4>3, <4>4
    <3>4. CASE move.step = "switch"
      <4>1. q = p /\ p.area \notin Managed
        BY <1>5, <3>4, Elsewhere
      <4>2. Leads(r.path, r.task)' = p
        BY <1>1, <1>3, <4>1, PlaceIs DEF Leads, medium, Managed
      <4>3. Now(p)' = p
        BY <1>3 DEF Now
      <4> QED
        BY <4>1, <4>2, <4>3
    <3> QED
      BY <3>1, <3>2, <3>3, <3>4
  <2>2. RealPath(r.path, r.task) => r.path # NoPath /\ Leads(r.path, r.task) = r.path.at
    BY PathsDiffer DEF RealPath, Leads
  <2>3. ~(RealPath(r.path, r.task) /\ r.path.at.area = "old")
    <3> SUFFICES ASSUME RealPath(r.path, r.task), r.path.at.area = "old" PROVE FALSE
      OBVIOUS
    <3>1. move.step = "switch"
      BY <1>1, <1>5, <2>2 DEF RowFiles
    <3> QED
      BY <1>5, <2>2, <3>1, Elsewhere DEF Managed
  <2> QED
    BY <1>1, <1>3, <1>5, <2>1, <2>3, RowStays
<1>6. ASSUME NEW u \in ArtTasks, u \notin caught' PROVE Accounted(u)'
  <2>1. CASE u \in move.left
    <3>1. Stranded(u) /\ FilesOf(u)' = FilesOf(u)
      BY <1>3, <1>6, <2>1, Spared, DiskSame DEF Accounted
    <3> QED
      BY <1>1, <1>2, <2>1, <3>1, StrandedStays DEF Accounted
  <2>2. CASE u \notin move.left
    <3>1. TaskFiles(u)
      BY <1>6, <2>2, Spared DEF Accounted
    <3>2. \A r \in rows' \cup move'.seen : r.task = u => RowFiles(r)'
      BY <1>1, <1>2, <1>5, <3>1 DEF TaskFiles
    <3> QED
      BY <1>1, <1>2, <1>3, <1>6, <2>2, <3>1, <3>2, AtRest, StillStep DEF Accounted
  <2> QED
    BY <2>1, <2>2
<1>7. \A r \in rows' \cup move'.seen : r.task \in ArtTasks /\ r = Row(r.task, r.status, r.path) /\ OwnPath(r.path, r.task)
  BY <1>1, <1>2 DEF FilesInv, FileShapes
<1>8. \A x \in disk' : x.at = Place(x.at.area, x.at.of, x.at.form)
  BY <1>3 DEF FilesInv, FileShapes
<1> QED
  BY <1>1, <1>3, <1>4, <1>6, <1>7, <1>8, UpdateStep

LEMMA MoveFailsStep == ASSUME FilesInv, Notice, NEW p \in move.todo, MoveFails(p) PROVE FilesInv'
<1> PICK left : left = {x.at.of : x \in {y \in disk : y.at.area \in {"old", "new"}}}
  OBVIOUS
<1>1. /\ move.step = "move" /\ move' = [Idle EXCEPT !.step = "switch", !.left = left]
      /\ caseOf' = caseOf /\ job' = job /\ fileVars' = fileVars /\ rows' = rows
      /\ exportDir' = exportDir /\ removal' = removal
  BY DEF MoveFails
<1>2. /\ move'.step = "switch" /\ move'.todo = {} /\ move'.seen = {} /\ move'.left = left
      /\ move' = [step |-> "switch", todo |-> {}, seen |-> {}, left |-> left]
  BY <1>1 DEF Idle
<1>3. /\ Busy /\ Moving /\ ~Moving' /\ disk' = disk /\ output' = output /\ outArea' = outArea
      /\ exportDir = "old" /\ move.seen = {} /\ move.left = {}
  BY <1>1, <1>2 DEF Busy, Moving, fileVars, FilesInv, MoveShape
<1>4. MoveShape'
  BY <1>1, <1>2, <1>3 DEF MoveShape
<1>5. \A p1, u : Leads(p1, u)' = Leads(p1, u)
  BY <1>1 DEF Leads, medium
<1>6. ASSUME NEW u \in ArtTasks, u \notin caught', u \in left PROVE Stranded(u)'
  <2>1. TaskFiles(u) /\ job[u] \notin {"based", "dumped", "added", "packed", "placed"} /\ removal[u].step \notin {"row", "file"}
    BY <1>1, <1>3, <1>6, Spared, AtRest DEF Accounted
  <2>2. PICK x \in disk : x.at.of = u /\ x.at.area \in Managed
    BY <1>6 DEF Managed
  <2>3. x \in FilesOf(u)
    BY <2>2 DEF FilesOf
  <2>4. job[u] \notin {"new", "started"}
    BY <2>1, <2>3 DEF TaskFiles, JobFiles
  <2>5. /\ job[u] \notin {"new", "started", "based", "dumped", "added", "packed", "placed"}
        /\ (removal[u].step # "no" => job[u] = "ended")
    <3>1. ~Caught(u) /\ RemovalFiles(u)
      BY <1>6, <2>1, Spared DEF TaskFiles
    <3> QED
      BY <2>1, <2>4, <3>1 DEF RemovalFiles
  <2>6. ASSUME NEW r \in rows, r.task = u
        PROVE  /\ r.status # "running" => job[u] = "ended"
               /\ removal[u].step \in {"no", "row"}
               /\ r.path # NoPath => r.status = "done" /\ AllAt(u, x.at, Whole(u))
    <3>1. RowFiles(r)
      BY <2>1, <2>6 DEF TaskFiles
    <3> PICK q, ps : q = Now(Leads(r.path, u)) /\ ps = Whole(u)
      OBVIOUS
    <3>2. r.path # NoPath => r.status = "done" /\ AllAt(u, q, ps)
      BY <2>6, <3>1 DEF RowFiles
    <3>3. r.path # NoPath => x.at = q
      BY <2>3, <3>2 DEF AllAt
    <3> QED
      BY <2>6, <3>1, <3>2, <3>3 DEF RowFiles
  <2> PICK p1, ps : p1 = x.at /\ ps = Whole(u)
    OBVIOUS
  <2>7. Whole(u)' = ps /\ (AllAt(u, p1, ps) => AllAt(u, p1, ps)')
    BY <1>1, <1>3 DEF Whole, kind, AllAt, FilesOf, Held, At
  <2> QED
    BY <1>1, <2>2, <2>5, <2>6, <2>7 DEF Stranded
<1>7. ASSUME NEW u \in ArtTasks, u \notin caught', u \notin left PROVE TaskFiles(u)'
  <2>1. TaskFiles(u)
    BY <1>3, <1>7, Spared DEF Accounted
  <2>2. \A x \in FilesOf(u) : x.at.area \notin Managed
    BY <1>7 DEF FilesOf, Managed
  <2>3. ASSUME NEW r \in rows, r.task = u PROVE RowFiles(r)'
    <3>1. RowFiles(r)
      BY <2>1, <2>3 DEF TaskFiles
    <3>2. r.path # NoPath => Now(Leads(r.path, u))' = Now(Leads(r.path, u)) /\ Leads(r.path, u).area \notin Managed
      <4> SUFFICES ASSUME r.path # NoPath
                   PROVE  Now(Leads(r.path, u))' = Now(Leads(r.path, u)) /\ Leads(r.path, u).area \notin Managed
        OBVIOUS
      <4> PICK a : a = Leads(r.path, u)
        OBVIOUS
      <4>1. Now(a) = a /\ a.area \notin Managed
        BY <2>2, <2>3, <3>1, Elsewhere
      <4>2. Leads(r.path, u)' = a /\ Now(a)' = a
        BY <1>3, <1>5 DEF Now
      <4> QED
        BY <4>1, <4>2
    <3>3. RealPath(r.path, u) => r.path # NoPath /\ Leads(r.path, u) = r.path.at
      BY PathsDiffer DEF RealPath, Leads
    <3>4. ~(RealPath(r.path, u) /\ r.path.at.area \in {"old", "new"})
      BY <3>2, <3>3 DEF Managed
    <3> QED
      BY <1>1, <1>3, <2>3, <3>1, <3>2, <3>4, RowStays
  <2>4. \A r \in rows' \cup move'.seen : r.task = u => RowFiles(r)'
    BY <1>1, <1>2, <2>3
  <2> QED
    BY <1>1, <1>3, <1>7, <2>1, <2>2, <2>4, AtRest, StillStep
<1>8. \A r \in rows' \cup move'.seen : r.task \in ArtTasks /\ r = Row(r.task, r.status, r.path) /\ OwnPath(r.path, r.task)
  BY <1>1, <1>2 DEF FilesInv, FileShapes
<1>9. \A x \in disk' : x.at = Place(x.at.area, x.at.of, x.at.form)
  BY <1>3 DEF FilesInv, FileShapes
<1>10. \A u \in ArtTasks : u \notin caught' => Accounted(u)'
  BY <1>2, <1>6, <1>7 DEF Accounted
<1> QED
  BY <1>1, <1>3, <1>4, <1>8, <1>9, <1>10, UpdateStep

LEMMA MoveEntryStep == ASSUME FilesInv, Notice, NEW p \in move.todo, MoveEntry(p) PROVE FilesInv'
<1> PICK t, q : t = p.of /\ q = Place("new", p.of, p.form)
  OBVIOUS
<1>1. /\ move.step = "move" /\ move' = [move EXCEPT !.todo = @ \ {p}] /\ At(p) # {}
      /\ caseOf' = caseOf /\ job' = job /\ outArea' = outArea /\ output' = output
      /\ rows' = rows /\ exportDir' = exportDir /\ removal' = removal
  BY DEF MoveEntry
<1>2. /\ move = [step |-> "move", todo |-> move.todo, seen |-> {}, left |-> {}] /\ move.seen = {} /\ exportDir = "old"
      /\ \A b \in move.todo : b.area = "old"
  BY <1>1 DEF FilesInv, MoveShape
<1>3. /\ move'.step = "move" /\ move'.todo = move.todo \ {p} /\ move'.seen = {} /\ move.left = {} /\ move'.left = {}
      /\ move' = [step |-> "move", todo |-> move.todo \ {p}, seen |-> {}, left |-> {}]
  BY <1>1, <1>2
<1>4. Moving /\ Moving' /\ Busy
  BY <1>1, <1>3 DEF Moving, Busy
<1>5. p = Place("old", t, p.form) /\ q.of = t /\ q.area = "new" /\ q.form = p.form /\ p # q /\ [p EXCEPT !.area = "new"] = q
  <2>1. PICK x \in disk : x.at = p
    BY <1>1 DEF At
  <2>2. p = Place(p.area, p.of, p.form)
    BY <2>1 DEF FilesInv, FileShapes
  <2>3. [p EXCEPT !.area = "new"] = q
    BY <2>2 DEF Place
  <2> QED
    BY <1>2, <2>2, <2>3, PlaceIs
<1>6. disk' = (IF At(q) # {} THEN disk ELSE (disk \ At(p)) \cup Put(q, Held(p)))
  BY <1>5 DEF MoveEntry
<1>7. DiskOf(t)
  <2>1. At(p) \subseteq FilesOf(t) /\ FileShapes /\ q = Place(q.area, t, q.form)
    BY <1>5 DEF At, FilesOf, FilesInv
  <2>2. CASE disk' = disk
    BY <2>2, DiskSame
  <2>3. CASE disk' = (disk \ At(p)) \cup Put(q, Held(p))
    BY <2>1, <2>3, DiskPut
  <2> QED
    BY <1>6, <2>2, <2>3
<1>8. ASSUME NEW u \in ArtTasks, u # t PROVE FilesOf(u)' = FilesOf(u)
  BY <1>7, <1>8 DEF DiskOf, FilesOf
<1>9. \E x \in FilesOf(t) : x.at = p
  BY <1>1 DEF At, FilesOf
<1>10. \A x \in disk' : x.at = Place(x.at.area, x.at.of, x.at.form)
  BY <1>7 DEF DiskOf, FilesInv, FileShapes
<1>11. MoveShape'
  BY <1>1, <1>2, <1>3 DEF MoveShape
<1>12. \A r \in rows' \cup move'.seen : r.task \in ArtTasks /\ r = Row(r.task, r.status, r.path) /\ OwnPath(r.path, r.task)
  BY <1>1, <1>3 DEF FilesInv, FileShapes
<1>13. \A path, u : Leads(path, u)' = Leads(path, u)
  BY <1>1 DEF Leads, medium
<1>14. \A path, u, areas : (ProperPath(path, u, areas)' <=> ProperPath(path, u, areas)) /\ (RealPath(path, u)' <=> RealPath(path, u))
  BY <1>1 DEF ProperPath, RealPath, kind
<1>15. ASSUME NEW u \in ArtTasks, u \notin caught' PROVE TaskFiles(u)'
  <2>1. /\ job[u] \notin {"based", "dumped", "added", "packed", "placed"} /\ removal[u].step \notin {"row", "file"}
        /\ JobFiles(u) /\ RemovalFiles(u) /\ \A r \in rows \cup move.seen : r.task = u => RowFiles(r)
    BY <1>1, <1>3, <1>4, <1>15, AtRest, Spared DEF Accounted, TaskFiles
  <2>2. job'[u] = job[u] /\ removal'[u] = removal[u] /\ output'[u] = output[u] /\ outArea'[u] = outArea[u]
        /\ kind(u)' = kind(u) /\ Whole(u)' = Whole(u) /\ (UsesWork(u)' <=> UsesWork(u))
    BY <1>1 DEF kind, Whole, UsesWork, medium
  <2>3. JobFiles(u)'
    <3>1. job[u] \in {"new", "started"} => FilesOf(u)' = {}
      BY <1>8, <1>9, <2>1 DEF JobFiles
    <3> QED
      BY <2>1, <2>2, <3>1 DEF JobFiles
  <2>4. RemovalFiles(u)'
    <3>1. CASE u = t
      <4>1. ~(removal[u].step = "gone" /\ removal[u].path # NoPath)
        BY <1>5, <1>9, <2>1, <3>1, PlaceIs DEF RemovalFiles
      <4> QED
        BY <2>1, <2>2, <4>1 DEF RemovalFiles
    <3>2. CASE u # t
      <4>1. FilesOf(u)' = FilesOf(u)
        BY <1>8, <3>2
      <4>2. PICK b : b = Place("user", u, "file")
        OBVIOUS
      <4>3. Held(b)' = Held(b)
        BY <4>1, <4>2, SameFiles, PlaceIs
      <4> QED
        BY <2>1, <2>2, <4>1, <4>2, <4>3 DEF RemovalFiles
    <3> QED
      BY <3>1, <3>2
  <2>5. ASSUME NEW r \in rows' \cup move'.seen, r.task = u PROVE RowFiles(r)'
    <3>1. RowFiles(r)
      BY <1>1, <1>3, <2>1, <2>5
    <3> PICK a, ps, areas : a = Leads(r.path, u) /\ ps = Whole(u) /\ areas = {"old", "new"}
      OBVIOUS
    <3> PICK b : b = Now(a)
      OBVIOUS
    <3>2. Leads(r.path, u)' = a
      BY <1>13
    <3>3. r.path # NoPath => a.of = u /\ AllAt(u, b, ps)
      BY <2>5, <3>1, LeadsOwn DEF RowFiles
    <3>4. r.path # NoPath => AllAt(u, Now(a), ps)'
      <4>1. CASE u # t
        <5>1. r.path # NoPath => Now(a)' = b /\ b.of = u
          BY <1>3, <1>4, <3>3, <4>1, PlaceIs DEF Now
        <5>2. r.path # NoPath => AllAt(u, b, ps)'
          BY <1>8, <3>3, <4>1, <5>1, SameFiles
        <5> QED
          BY <2>2, <5>1, <5>2
      <4>2. CASE u = t /\ r.path # NoPath
        <5>1. b = p
          BY <1>9, <3>3, <4>2 DEF AllAt
        <5>2. a = p
          BY <1>5, <5>1, PlaceIs DEF Now
        <5>3. Now(a)' = q
          BY <1>3, <1>4, <1>5, <5>2, PlaceIs DEF Now
        <5>4. At(q) = {}
          BY <1>5, <3>3, <4>2, <5>1 DEF AllAt, At, FilesOf
        <5>5. disk' = (disk \ At(p)) \cup Put(q, ps)
          BY <1>6, <3>3, <4>2, <5>1, <5>4 DEF AllAt
        <5>6. AllAt(u, q, ps)'
          BY <1>5, <3>3, <4>2, <5>1, <5>5, MoveFiles
        <5> QED
          BY <2>2, <5>3, <5>6
      <4> QED
        BY <4>1, <4>2
    <3> QED
      BY <1>1, <1>2, <1>3, <1>14, <2>2, <2>5, <3>1, <3>2, <3>4 DEF RowFiles
  <2>6. move'.step # "switch"
    BY <1>3
  <2> QED
    BY <2>3, <2>4, <2>5, <2>6 DEF TaskFiles
<1>16. \A u \in ArtTasks : u \notin caught' => Accounted(u)'
  BY <1>3, <1>15 DEF Accounted
<1> QED
  BY <1>1, <1>10, <1>11, <1>12, <1>16, UpdateStep

LEMMA FilesStart == ArtInit => FilesInv
<1> SUFFICES ASSUME ArtInit PROVE FilesInv
  OBVIOUS
<1>1. /\ job = [t \in ArtTasks |-> "new"] /\ starting = {} /\ outArea = [t \in ArtTasks |-> "old"]
      /\ output = [t \in ArtTasks |-> NoPath] /\ disk = {} /\ rows = {} /\ exportDir = "old"
      /\ move = [step |-> "idle", todo |-> {}, seen |-> {}, left |-> {}]
      /\ removal = [t \in ArtTasks |-> [step |-> "no", path |-> NoPath]]
  BY DEF ArtInit, Idle
<1>2. move.step = "idle" /\ move.todo = {} /\ move.seen = {} /\ move.left = {}
  BY <1>1
<1>3. FileShapes /\ MoveShape
  BY <1>1, <1>2, PathsDiffer DEF FileShapes, MoveShape, IsRemoval, OwnPaths, OwnPath
<1>4. ASSUME NEW t \in ArtTasks PROVE Accounted(t)
  <2>1. job[t] = "new" /\ FilesOf(t) = {} /\ output[t] = NoPath /\ removal[t].step = "no"
    BY <1>1 DEF FilesOf
  <2> QED
    BY <1>1, <1>2, <2>1 DEF Accounted, TaskFiles, JobFiles, RemovalFiles
<1>5. \A t \in ArtTasks : ~Caught(t)
  BY <1>1, <1>2 DEF Caught, Busy, AtWork
<1> QED
  BY <1>3, <1>4, <1>5 DEF FilesInv

LEMMA FilesStep == FilesInv /\ [ArtNext]_artVars => FilesInv'
<1> SUFFICES ASSUME FilesInv, [ArtNext]_artVars PROVE FilesInv'
  OBVIOUS
<1>1. CASE UNCHANGED artVars
  <2>1. /\ caseOf' = caseOf /\ job' = job /\ starting' = starting /\ disk' = disk /\ output' = output /\ outArea' = outArea
        /\ rows' = rows /\ exportDir' = exportDir /\ move' = move /\ removal' = removal /\ caught' = caught
    BY <1>1 DEF artVars, fileVars
  <2>2. ASSUME NEW t \in ArtTasks, t \notin caught PROVE Accounted(t)'
    BY <2>1, <2>2, DiskSame, AccountedStays DEF FilesInv
  <2>3. FileShapes' /\ MoveShape'
    BY <2>1 DEF FilesInv, FileShapes, MoveShape, OwnPaths, OwnPath, kind
  <2>4. \A t \in ArtTasks : Caught(t)' <=> Caught(t)
    BY <2>1 DEF Caught, Busy, AtWork, UsesWork, medium, kind
  <2> QED
    BY <2>1, <2>2, <2>3, <2>4 DEF FilesInv
<1>2. ASSUME NEW t \in ArtTasks, Notice,
             StartExport(t) \/ StartDictionary(t) \/ StartImport(t) \/ StartMigrate(t) \/ StartCompare(t)
      PROVE  FilesInv'
  <2>1. Start(t)
    BY <1>2 DEF StartExport, StartDictionary, StartImport, StartMigrate, StartCompare
  <2>2. \/ kind(t) \in {"zip", "dir", "book"}
           /\ outArea' = [outArea EXCEPT ![t] = IF UsesWork(t) THEN "work" ELSE "old"]
        \/ kind(t) \notin {"zip", "dir", "book"} /\ outArea' = outArea
    BY <1>2 DEF StartExport, StartDictionary, StartImport, StartMigrate, StartCompare
  <2> QED
    BY <1>2, <2>1, <2>2, StartStep
<1>3. ASSUME NEW t \in ArtTasks, Notice, Engine(t) PROVE FilesInv'
  <2>1. CASE Dump(t)
    BY <1>3, <2>1, WriteStep DEF Dump
  <2>2. CASE Contribute(t)
    BY <1>3, <2>2, WriteStep DEF Contribute
  <2> QED
    BY <1>3, <2>1, <2>2, MakeBaseStep, PackStep, EngineRunStep, FailStep DEF Engine
<1>4. ASSUME NEW t \in ArtTasks, Notice,
             Relocate(t) \/ KeepPath(t) \/ SaveReport(t) \/ SaveFinal(t) \/ BeginDelete(t) \/ DeleteRow(t)
               \/ RemoveArtifact(t) \/ Return(t)
      PROVE  FilesInv'
  BY <1>4, RelocateStep, KeepStep, SaveReportStep, FinalStep, BeginDeleteStep, DeleteRowStep, RemoveStep, ReturnStep
<1>5. ASSUME Update, Notice PROVE FilesInv'
  BY <1>5, BeginUpdateStep, LoadRowsStep, SwitchStep, MoveEntryStep, MoveFailsStep, RewriteStep DEF Update
<1> QED
  BY <1>1, <1>2, <1>3, <1>4, <1>5 DEF ArtNext, ArtActs

(* Whenever the artifact directory is not being changed, the path of a record   *)
(* in the history leads to the whole artifact of its task.  Where a rename of a *)
(* change failed, what was in the two directories then is still whole in one of *)
(* them.  A task is left out only if the change, or the cleaning of the work     *)
(* directory, met that very task at work (finishRecord, relocateExportArtifact, *)
(* UpdateDirs, artifactLocalPath).                                           *)
THEOREM DownloadsWork == ArtSpec => []DoneOpens
<1>1. FilesInv => DoneOpens
  <2> SUFFICES ASSUME FilesInv, ~Busy, NEW r \in rows, r.path # NoPath, r.task \notin caught
               PROVE  \/ Whole(r.task) \subseteq Held(Leads(r.path, r.task))
                      \/ /\ r.task \in move.left
                         /\ \E x \in disk : /\ x.at.of = r.task /\ x.at.area \in {"old", "new"}
                                            /\ Whole(r.task) \subseteq Held(x.at)
    BY DEF DoneOpens
  <2>1. Accounted(r.task) /\ r.task \in ArtTasks
    BY DEF FilesInv, FileShapes
  <2>2. CASE r.task \in move.left
    <3>1. PICK p : p.of = r.task /\ p.area \in Managed /\ AllAt(r.task, p, Whole(r.task))
      BY <2>1, <2>2 DEF Accounted, Stranded
    <3>2. PICK x \in disk : x.at = p
      BY <3>1 DEF AllAt, Held, At, Whole
    <3> QED
      BY <2>2, <3>1, <3>2 DEF AllAt, Managed
  <2>3. CASE r.task \notin move.left
    <3>1. RowFiles(r)
      BY <2>1, <2>3 DEF Accounted, TaskFiles
    <3>2. Now(Leads(r.path, r.task)) = Leads(r.path, r.task)
      BY DEF Now, Moving, Busy
    <3> QED
      BY <3>1, <3>2 DEF RowFiles, AllAt
  <2> QED
    BY <2>2, <2>3
<1> QED
  BY <1>1, FilesStart, FilesStep, PTL DEF ArtSpec

(* A deleted record stays away and takes its artifact with it, and only that:  *)
(* no file of the task is left in a directory the program manages, unless a      *)
(* failed rename had left it there, and those given to a user elsewhere are      *)
(* still there (DeleteHistory, RemoveArtifact).                              *)
THEOREM DeletionIsClean == ArtSpec => []DeletedLeavesNothing
<1>1. FilesInv => DeletedLeavesNothing
  <2> SUFFICES ASSUME FilesInv, NEW t \in ArtTasks, t \notin caught, removal[t].step = "gone", removal[t].path # NoPath
               PROVE  /\ RowOf(t) = {}
                      /\ t \notin move.left =>
                           /\ \A x \in disk : x.at.of = t => x.at.area = "user" \/ x.part = "base"
                           /\ kind(t) = "import" => Held(Place("user", t, "file")) # {}
    BY DEF DeletedLeavesNothing
  <2>1. Accounted(t)
    BY DEF FilesInv
  <2>2. RowOf(t) = {}
    BY <2>1 DEF Accounted, Stranded, TaskFiles, RowFiles, RowOf
  <2>3. t \notin move.left => RemovalFiles(t)
    BY <2>1 DEF Accounted, TaskFiles
  <2> QED
    BY <2>2, <2>3 DEF RemovalFiles, FilesOf
<1> QED
  BY <1>1, FilesStart, FilesStep, PTL DEF ArtSpec
-----------------------------------------------------------------------------
(* The types of the store of artifacts.                                      *)

RowType == [task : ArtTasks, status : {"running", "done", "error"}, path : Paths]
MoveTyped(m) ==
    /\ m = [step |-> m.step, todo |-> m.todo, seen |-> m.seen, left |-> m.left]
    /\ m.todo \subseteq Places /\ m.left \subseteq ArtTasks
    /\ m.seen \subseteq {r \in RowType : r.path.how = "real"}
ArtInv ==
    /\ ArtTypeOK /\ MoveTyped(move)
    /\ \A t \in ArtTasks : job[t] = "new" => startedAt[t] = 0

LEMMA PathShapes ==
  /\ NoPath \in Paths /\ Logical \in Paths /\ \A p \in Places : Real(p) \in Paths
  /\ \A path \in Paths : path.how = "real" => \E p \in Places : path = Real(p)
  /\ \A area \in Areas, t \in ArtTasks, form \in Forms : Place(area, t, form) \in Places
  /\ \A p \in Places : \A parts \in SUBSET Parts : Put(p, parts) \subseteq Pieces
<1>1. NoPath.how = "none" /\ Logical.how = "logical" /\ \A p : Real(p).how = "real"
  BY DEF NoPath, Logical, Real
<1>2. ASSUME NEW p \in Places, NEW parts \in SUBSET Parts
      PROVE  Put(p, parts) \subseteq Pieces
  BY <1>2 DEF Put, Pieces
<1>3. \A area \in Areas, t \in ArtTasks, form \in Forms : Place(area, t, form) \in Places
  BY DEF Place, Places
<1>4. ASSUME NEW path \in Paths, path.how = "real"
      PROVE  \E p \in Places : path = Real(p)
  BY <1>1, <1>4 DEF Paths
<1>5. NoPath \in Paths /\ Logical \in Paths /\ \A p \in Places : Real(p) \in Paths
  BY DEF Paths
<1> QED
  BY <1>2, <1>3, <1>4, <1>5

LEMMA HeldParts ==
  ASSUME disk \subseteq Pieces, NEW p
  PROVE  At(p) \subseteq Pieces /\ Held(p) \subseteq Parts
BY DEF At, Held, Pieces

(* A step of one task that leaves the records alone.                         *)
LEMMA JobTyped ==
  ASSUME ArtInv, NEW t \in ArtTasks, NEW s \in Working \cup {"placed", "failed", "ended"}, job' = [job EXCEPT ![t] = s],
         UNCHANGED <<caseOf, startedAt, exportDir, move, removal>>,
         outArea' \in [ArtTasks -> {"work", "old", "new"}], output' \in [ArtTasks -> Paths],
         disk' \subseteq Pieces, rows' \subseteq RowType, starting' \subseteq ArtTasks, caught' \subseteq ArtTasks
  PROVE  ArtInv'
<1>1. job' \in [ArtTasks -> {"new", "placed", "failed", "ended"} \cup Working]
  BY DEF ArtInv, ArtTypeOK
<1>2. \A u \in ArtTasks : job'[u] = "new" => job[u] = "new"
  BY DEF ArtInv, ArtTypeOK, Working
<1> QED
  BY <1>1, <1>2 DEF ArtInv, ArtTypeOK, RowType, MoveTyped

LEMMA SavedTyped ==
  ASSUME rows \subseteq RowType, NEW r \in RowType, SaveHistory(r)
  PROVE  rows' \subseteq RowType
<1> DEFINE all == {q \in rows : q.task # r.task} \cup {r}
<1>1. all \subseteq RowType
  OBVIOUS
<1>2. rows' = Newest(all)
  BY DEF SaveHistory
<1> HIDE DEF all
<1>3. Newest(all) \subseteq all
  BY Zenon DEF Newest
<1> QED
  BY <1>1, <1>2, <1>3

LEMMA ArtStart == ArtInit => ArtInv
<1> SUFFICES ASSUME ArtInit PROVE ArtInv
  OBVIOUS
<1>1. Cardinality(ArtTasks) \in Nat
  BY MaxHistoryAssumption, FS_CardinalityType
<1>2. MoveTyped(move)
  BY DEF ArtInit, Idle, MoveTyped
<1> QED
  BY <1>1, <1>2, PathShapes DEF ArtInit, ArtInv, ArtTypeOK

LEMMA StartTyped ==
  ASSUME ArtInv, NEW t \in ArtTasks, Start(t),
         outArea' \in [ArtTasks -> {"work", "old", "new"}], starting' \subseteq ArtTasks, caught' \subseteq ArtTasks
  PROVE  ArtInv'
<1> PICK k : k = Cardinality({u \in ArtTasks : startedAt[u] > 0})
  OBVIOUS
<1>1. /\ job[t] = "new" /\ job' = [job EXCEPT ![t] = "started"] /\ startedAt' = [startedAt EXCEPT ![t] = 1 + k]
      /\ UNCHANGED <<caseOf, output, disk, exportDir, move, removal>> /\ SaveHistory(Row(t, "running", NoPath))
  BY DEF Start
<1>2. Cardinality(ArtTasks) \in Nat /\ 1 + k \in 0 .. Cardinality(ArtTasks)
  <2> DEFINE U == {u \in ArtTasks : startedAt[u] > 0}
             V == ArtTasks \ {t}
  <2>1. IsFiniteSet(ArtTasks) /\ Cardinality(ArtTasks) \in Nat
    BY MaxHistoryAssumption, FS_CardinalityType
  <2>2. startedAt[t] = 0
    BY <1>1 DEF ArtInv
  <2>3. U \subseteq V
    BY <2>2
  <2>4. IsFiniteSet(V) /\ Cardinality(V) = Cardinality(ArtTasks) - 1
    BY <2>1, FS_RemoveElement
  <2>5. k = Cardinality(U)
    OBVIOUS
  <2> HIDE DEF U, V
  <2>6. IsFiniteSet(U) /\ Cardinality(U) <= Cardinality(V) /\ Cardinality(U) \in Nat
    BY <2>3, <2>4, FS_Subset, FS_CardinalityType
  <2> QED
    BY <2>1, <2>4, <2>5, <2>6
<1>3. startedAt' \in [ArtTasks -> 0 .. Cardinality(ArtTasks)] /\ \A u \in ArtTasks : u # t => startedAt'[u] = startedAt[u]
  BY <1>1, <1>2 DEF ArtInv, ArtTypeOK
<1>4. rows' \subseteq RowType
  <2>1. Row(t, "running", NoPath) \in RowType
    BY PathShapes DEF Row, RowType
  <2> QED
    BY <1>1, <2>1, SavedTyped DEF ArtInv, ArtTypeOK, RowType
<1>5. /\ job' \in [ArtTasks -> {"new", "placed", "failed", "ended"} \cup Working]
      /\ \A u \in ArtTasks : job'[u] = "new" => u # t /\ job[u] = "new"
  BY <1>1 DEF ArtInv, ArtTypeOK, Working
<1> QED
  BY <1>1, <1>3, <1>4, <1>5 DEF ArtInv, ArtTypeOK, RowType, MoveTyped

LEMMA FinalTyped ==
  ASSUME ArtInv, NEW t \in ArtTasks, SaveFinal(t), caught' \subseteq ArtTasks
  PROVE  ArtInv'
<1> PICK r : r = IF job[t] = "placed" THEN Row(t, "done", output[t]) ELSE Row(t, "error", NoPath)
  OBVIOUS
<1>1. SaveHistory(r) /\ job' = [job EXCEPT ![t] = "ended"] /\ UNCHANGED <<caseOf, starting, fileVars, startedAt, exportDir, move, removal>>
  BY DEF SaveFinal
<1>2. r \in RowType
  BY PathShapes DEF ArtInv, ArtTypeOK, Row, RowType
<1>3. rows' \subseteq RowType
  BY <1>1, <1>2, SavedTyped DEF ArtInv, ArtTypeOK, RowType
<1> QED
  BY <1>1, <1>3, JobTyped DEF ArtInv, ArtTypeOK, fileVars

LEMMA EngineTyped ==
  ASSUME ArtInv, NEW t \in ArtTasks, Engine(t), caught' \subseteq ArtTasks
  PROVE  ArtInv'
<1>1. /\ disk \subseteq Pieces /\ rows \subseteq RowType /\ starting \subseteq ArtTasks
      /\ outArea \in [ArtTasks -> {"work", "old", "new"}] /\ output \in [ArtTasks -> Paths] /\ exportDir \in {"old", "new"}
  BY DEF ArtInv, ArtTypeOK, RowType
<1>2. Base(t) \in Places /\ Place(outArea[t], t, "file") \in Places /\ Place("user", t, "file") \in Places
  BY <1>1, PathShapes DEF Base, Areas, Forms
<1>3. {"base"} \in SUBSET Parts /\ {"db"} \in SUBSET Parts /\ {"base", "extra"} \in SUBSET Parts
  BY DEF Parts
<1>4. ASSUME NEW from, NEW s \in {"based", "dumped", "added", "packed"}, ArtStep(t, from, s),
             disk' \subseteq Pieces, output' \in [ArtTasks -> Paths], outArea' \in [ArtTasks -> {"work", "old", "new"}]
      PROVE  ArtInv'
  BY <1>1, <1>4, JobTyped DEF ArtStep, Working
<1>5. CASE MakeBase(t)
  <2> PICK area : area = IF outArea[t] = "work" THEN "work" ELSE exportDir
    OBVIOUS
  <2>1. /\ ArtStep(t, "started", "based") /\ outArea' = [outArea EXCEPT ![t] = area] /\ output' = output
        /\ disk' = disk \cup Put(Place(area, t, "dir"), {"base"})
    BY <1>5 DEF MakeBase
  <2>2. area \in {"work", "old", "new"} /\ Place(area, t, "dir") \in Places
    BY <1>1, PathShapes DEF Areas, Forms
  <2>3. disk' \subseteq Pieces
    BY <1>1, <1>3, <2>1, <2>2, PathShapes
  <2> QED
    BY <1>1, <1>4, <2>1, <2>2, <2>3
<1>6. CASE Dump(t)
  <2>1. ArtStep(t, "based", "dumped") /\ disk' = disk \cup Put(Base(t), {"db"}) /\ UNCHANGED <<output, outArea>>
    BY <1>6 DEF Dump
  <2>2. disk' \subseteq Pieces
    BY <1>1, <1>2, <1>3, <2>1, PathShapes
  <2> QED
    BY <1>1, <1>4, <2>1, <2>2
<1>7. CASE Contribute(t)
  <2>1. ArtStep(t, "dumped", "added") /\ disk' = disk \cup Put(Base(t), {"base", "extra"}) /\ UNCHANGED <<output, outArea>>
    BY <1>7 DEF Contribute
  <2>2. disk' \subseteq Pieces
    BY <1>1, <1>2, <1>3, <2>1, PathShapes
  <2> QED
    BY <1>1, <1>4, <2>1, <2>2
<1>8. CASE Pack(t)
  <2> PICK from : from = IF kind(t) = "book" THEN "dumped" ELSE "added"
    OBVIOUS
  <2>1. ArtStep(t, from, "packed") /\ outArea' = outArea
    BY <1>8 DEF Pack
  <2>2. CASE kind(t) = "dir"
    <3>1. output' = [output EXCEPT ![t] = Real(Base(t))] /\ disk' = disk
      BY <1>8, <2>2 DEF Pack
    <3>2. Real(Base(t)) \in Paths
      BY <1>2, PathShapes
    <3> QED
      BY <1>1, <1>4, <2>1, <3>1, <3>2
  <2>3. CASE kind(t) # "dir"
    <3> DEFINE file == Place(outArea[t], t, "file")
    <3>1. output' = [output EXCEPT ![t] = Real(file)] /\ disk' = (disk \ At(Base(t))) \cup Put(file, Held(Base(t)) \ {"base"})
      BY <1>8, <2>3 DEF Pack
    <3>2. Real(file) \in Paths /\ Held(Base(t)) \ {"base"} \in SUBSET Parts
      BY <1>1, <1>2, PathShapes, HeldParts
    <3>3. Put(file, Held(Base(t)) \ {"base"}) \subseteq Pieces
      BY <1>2, <3>2, PathShapes
    <3>4. disk' \subseteq Pieces
      BY <1>1, <3>1, <3>3
    <3> HIDE DEF file
    <3>5. output' \in [ArtTasks -> Paths]
      BY <1>1, <3>1, <3>2
    <3> QED
      BY <1>1, <1>4, <2>1, <3>4, <3>5
  <2> QED
    BY <2>2, <2>3
<1>9. CASE RunImport(t)
  <2> DEFINE file == Place("user", t, "file")
  <2>1. /\ ArtStep(t, "started", "packed") /\ outArea' = outArea
        /\ output' = [output EXCEPT ![t] = Real(file)] \/ output' = output
        /\ disk' = disk \cup Put(file, {"db"}) \/ disk' = disk
    BY <1>9 DEF RunImport
  <2>2. Real(file) \in Paths /\ Put(file, {"db"}) \subseteq Pieces
    BY <1>2, <1>3, PathShapes
  <2> HIDE DEF file
  <2>3. output' \in [ArtTasks -> Paths] /\ disk' \subseteq Pieces
    BY <1>1, <2>1, <2>2
  <2> QED
    BY <1>1, <1>4, <2>1, <2>3
<1>10. CASE RunMigrate(t) \/ RunCompare(t)
  BY <1>1, <1>4, <1>10 DEF RunMigrate, RunCompare, fileVars
<1>11. CASE Fail(t)
  BY <1>1, <1>11, JobTyped DEF Fail, fileVars
<1> QED
  BY <1>5, <1>6, <1>7, <1>8, <1>9, <1>10, <1>11 DEF Engine

(* The artifact is taken to its place.                                       *)
LEMMA PlacedTyped ==
  ASSUME ArtInv, NEW t \in ArtTasks, Relocate(t) \/ KeepPath(t) \/ SaveReport(t), caught' \subseteq ArtTasks
  PROVE  ArtInv'
<1>1. /\ disk \subseteq Pieces /\ rows \subseteq RowType /\ starting \subseteq ArtTasks
      /\ outArea \in [ArtTasks -> {"work", "old", "new"}] /\ output \in [ArtTasks -> Paths] /\ exportDir \in {"old", "new"}
  BY DEF ArtInv, ArtTypeOK, RowType
<1>2. Target(t) \in Places /\ Logical \in Paths
  BY <1>1, PathShapes DEF Target, Areas, Forms
<1>3. /\ ArtStep(t, "packed", "placed") /\ outArea' = outArea
      /\ output' = [output EXCEPT ![t] = Logical] \/ output' = output
      /\ \/ disk' = disk
         \/ disk' = disk \cup Put(Target(t), {"db"})
         \/ disk' = (disk \ At(output[t].at)) \cup Put(Target(t), Held(output[t].at))
  BY DEF Relocate, KeepPath, SaveReport, fileVars
<1>4. {"db"} \in SUBSET Parts /\ Held(output[t].at) \in SUBSET Parts
  BY <1>1, HeldParts DEF Parts
<1>5. Put(Target(t), {"db"}) \subseteq Pieces /\ Put(Target(t), Held(output[t].at)) \subseteq Pieces
  BY <1>2, <1>4, PathShapes
<1>6. disk' \subseteq Pieces /\ output' \in [ArtTasks -> Paths]
  BY <1>1, <1>2, <1>3, <1>5
<1> QED
  BY <1>1, <1>3, <1>6, JobTyped DEF ArtStep

LEMMA RemovalTyped ==
  ASSUME ArtInv, NEW t \in ArtTasks, BeginDelete(t) \/ DeleteRow(t) \/ RemoveArtifact(t), caught' \subseteq ArtTasks
  PROVE  ArtInv'
<1> DEFINE Removal == [step : {"no", "row", "file", "gone", "left"}, path : Paths]
<1>1. removal \in [ArtTasks -> Removal] /\ disk \subseteq Pieces /\ rows \subseteq RowType
  BY DEF ArtInv, ArtTypeOK, RowType
<1>2. /\ UNCHANGED <<caseOf, job, starting, outArea, output, startedAt, exportDir, move>>
      /\ disk' \subseteq disk /\ rows' \subseteq rows
  BY DEF BeginDelete, DeleteRow, RemoveArtifact, fileVars
<1>3. removal' \in [ArtTasks -> Removal]
  <2>1. CASE BeginDelete(t)
    <3> PICK r \in RowOf(t) : removal' = [removal EXCEPT ![t] = [step |-> "row", path |-> r.path]]
      BY <2>1 DEF BeginDelete
    <3>1. r.path \in Paths
      BY <1>1 DEF RowOf, RowType
    <3> QED
      BY <1>1, <3>1
  <2>2. CASE DeleteRow(t) \/ RemoveArtifact(t)
    <3> PICK s \in {"file", "gone", "left"} : removal' = [removal EXCEPT ![t].step = s]
      BY <2>2 DEF DeleteRow, RemoveArtifact
    <3> QED
      BY <1>1
  <2> QED
    BY <2>1, <2>2
<1> QED
  BY <1>1, <1>2, <1>3 DEF ArtInv, ArtTypeOK, RowType, MoveTyped

LEMMA UpdateTyped ==
  ASSUME ArtInv, Update, caught' \subseteq ArtTasks
  PROVE  ArtInv'
<1>1. MoveTyped(move) /\ disk \subseteq Pieces /\ rows \subseteq RowType
  BY DEF ArtInv, ArtTypeOK, RowType
<1>2. ASSUME UNCHANGED <<caseOf, job, starting, outArea, output, startedAt, removal>>, exportDir' \in {exportDir, "new"},
             disk' \subseteq Pieces, rows' \subseteq RowType, MoveTyped(move')
      PROVE  ArtInv'
  BY <1>2 DEF ArtInv, ArtTypeOK, RowType, MoveTyped
<1>3. ASSUME NEW s, NEW todo \in SUBSET Places, NEW seen \in SUBSET {r \in RowType : r.path.how = "real"}, NEW left \in SUBSET ArtTasks,
             move' = [step |-> s, todo |-> todo, seen |-> seen, left |-> left]
      PROVE  MoveTyped(move')
  BY <1>3 DEF MoveTyped
<1>4. CASE BeginUpdate
  <2> DEFINE todo == {p \in {x.at : x \in disk} : p.area = "old"}
  <2>1. todo \in SUBSET Places
    BY <1>1 DEF Pieces
  <2>2. move' = [step |-> "move", todo |-> todo, seen |-> {}, left |-> {}] /\ UNCHANGED <<caseOf, job, starting, outArea, output, startedAt, removal, disk, rows, exportDir>>
    BY <1>4 DEF BeginUpdate, Idle, fileVars
  <2> HIDE DEF todo
  <2> QED
    BY <1>1, <1>2, <1>3, <2>1, <2>2
<1>5. CASE LoadRows
  <2> DEFINE seen == {r \in rows : r.path.how = "real" /\ Leads(r.path, r.task).area = "old"}
  <2>1. seen \in SUBSET {r \in RowType : r.path.how = "real"}
    BY <1>1
  <2>2. move' = [step |-> "rewrite", todo |-> {}, seen |-> seen, left |-> {}] /\ UNCHANGED <<caseOf, job, starting, outArea, output, startedAt, removal, disk, rows, exportDir>>
    BY <1>5 DEF LoadRows, Idle, fileVars
  <2> HIDE DEF seen
  <2> QED
    BY <1>1, <1>2, <1>3, <2>1, <2>2
<1>6. CASE SwitchDirs
  <2> PICK s : s = IF move.step = "switch" THEN "half" ELSE "done"
    OBVIOUS
  <2>1. move' = [step |-> s, todo |-> {}, seen |-> {}, left |-> move.left] /\ exportDir' = "new"
        /\ UNCHANGED <<caseOf, job, starting, outArea, output, startedAt, removal, disk, rows>>
    BY <1>6 DEF SwitchDirs, Idle, fileVars
  <2>2. move.left \in SUBSET ArtTasks
    BY <1>1 DEF MoveTyped
  <2> QED
    BY <1>1, <1>2, <1>3, <2>1, <2>2
<1>7. ASSUME NEW p \in move.todo, MoveEntry(p)
      PROVE  ArtInv'
  <2> PICK q : q = [p EXCEPT !.area = "new"]
    OBVIOUS
  <2>1. p \in Places
    BY <1>1 DEF MoveTyped
  <2>2. q \in Places
    BY <2>1 DEF Places, Areas
  <2>3. disk' \in {disk, (disk \ At(p)) \cup Put(q, Held(p))}
    BY <1>7 DEF MoveEntry
  <2>4. disk' \subseteq Pieces
    BY <1>1, <2>2, <2>3, HeldParts, PathShapes
  <2>5. move' = [move EXCEPT !.todo = @ \ {p}] /\ UNCHANGED <<caseOf, job, starting, outArea, output, startedAt, removal, rows, exportDir>>
    BY <1>7 DEF MoveEntry
  <2>6. MoveTyped(move')
    BY <1>1, <2>5 DEF MoveTyped
  <2> QED
    BY <1>1, <1>2, <2>4, <2>5, <2>6
<1>8. ASSUME NEW p \in move.todo, MoveFails(p)
      PROVE  ArtInv'
  <2> DEFINE left == {x.at.of : x \in {y \in disk : y.at.area \in {"old", "new"}}}
  <2>1. move' = [step |-> "switch", todo |-> {}, seen |-> {}, left |-> left] /\ UNCHANGED <<caseOf, job, starting, outArea, output, startedAt, removal, disk, rows, exportDir>>
    BY <1>8 DEF MoveFails, Idle, fileVars
  <2>2. left \in SUBSET ArtTasks
    BY <1>1 DEF Pieces, Places
  <2> HIDE DEF left
  <2> QED
    BY <1>1, <1>2, <1>3, <2>1, <2>2
<1>9. ASSUME NEW r \in move.seen, RewriteRow(r)
      PROVE  ArtInv'
  <2> PICK q : q = [r EXCEPT !.path.at.area = "new"]
    OBVIOUS
  <2>1. SaveHistory(q) /\ move' = [move EXCEPT !.seen = @ \ {r}]
        /\ UNCHANGED <<caseOf, job, starting, outArea, output, startedAt, removal, disk, exportDir>>
    BY <1>9 DEF RewriteRow, fileVars
  <2>2. r \in RowType /\ r.path.how = "real"
    BY <1>1 DEF MoveTyped
  <2>3. PICK p \in Places : r.path = Real(p)
    BY <2>2, PathShapes DEF RowType
  <2>4. q \in RowType
    <3> DEFINE p2 == [p EXCEPT !.area = "new"]
               path == [r.path EXCEPT !.at.area = "new"]
    <3>1. p2 \in Places
      BY DEF Places, Areas
    <3>2. path = Real(p2)
      BY <2>3 DEF Real
    <3>3. path \in Paths
      BY <3>1, <3>2, PathShapes
    <3>4. q = [r EXCEPT !.path = path]
      BY <2>2 DEF RowType
    <3> HIDE DEF path
    <3> QED
      BY <2>2, <3>3, <3>4 DEF RowType
  <2>5. rows' \subseteq RowType
    BY <1>1, <2>1, <2>4, SavedTyped
  <2>6. MoveTyped(move')
    BY <1>1, <2>1 DEF MoveTyped
  <2> QED
    BY <1>1, <1>2, <2>1, <2>5, <2>6
<1> QED
  BY <1>4, <1>5, <1>6, <1>7, <1>8, <1>9 DEF Update

LEMMA ArtStepTyped == ArtInv /\ [ArtNext]_artVars => ArtInv'
<1> SUFFICES ASSUME ArtInv, [ArtNext]_artVars PROVE ArtInv'
  OBVIOUS
<1>0. caught' \subseteq ArtTasks
  BY DEF ArtNext, Notice, artVars, ArtInv, ArtTypeOK
<1>1. CASE UNCHANGED artVars
  BY <1>1 DEF artVars, fileVars, ArtInv, ArtTypeOK, MoveTyped
<1>2. ASSUME NEW t \in ArtTasks, StartExport(t) \/ StartDictionary(t) \/ StartImport(t) \/ StartMigrate(t) \/ StartCompare(t)
      PROVE  ArtInv'
  <2>1. Start(t)
    BY <1>2 DEF StartExport, StartDictionary, StartImport, StartMigrate, StartCompare
  <2>2. outArea \in [ArtTasks -> {"work", "old", "new"}] /\ starting \subseteq ArtTasks
    BY DEF ArtInv, ArtTypeOK
  <2>3. /\ starting' \in {starting, starting \cup {t}}
        /\ outArea' = outArea \/ \E area \in {"work", "old"} : outArea' = [outArea EXCEPT ![t] = area]
    BY <1>2 DEF StartExport, StartDictionary, StartImport, StartMigrate, StartCompare
  <2> QED
    BY <1>0, <2>1, <2>2, <2>3, StartTyped
<1>3. ASSUME NEW t \in ArtTasks, Return(t)
      PROVE  ArtInv'
  BY <1>0, <1>3 DEF Return, ArtInv, ArtTypeOK, MoveTyped
<1> QED
  BY <1>0, <1>1, <1>2, <1>3, EngineTyped, PlacedTyped, FinalTyped, RemovalTyped, UpdateTyped DEF ArtNext, ArtActs

LEMMA ArtTyped == ArtSpec => []ArtTypeOK
<1>1. ArtInv => ArtTypeOK
  BY DEF ArtInv
<1> QED
  BY <1>1, ArtStart, ArtStepTyped, PTL DEF ArtSpec

=============================================================================
