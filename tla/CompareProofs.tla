---------------------------- MODULE CompareProofs ----------------------------
(***************************************************************************)
(* Proofs about TableCompare: for any databases, tables, aliases, options  *)
(* and failures, a comparison that ends has reported every selected table  *)
(* once, its summary puts every table in one place, and what it says about *)
(* the rows of a table is what a matching of the rows says.                *)
(***************************************************************************)
EXTENDS TableCompare, FiniteSetTheorems, FunctionTheorems, TLAPS

\* Names of one database that differ in more than the case of their letters.
NamesDiffer == \A m, n \in Names : Fold[m] = Fold[n] => m = n

(***************************************************************************)
(* The pairing of two sets of tables.                                      *)
(***************************************************************************)
LEMMA NamedIs ==
    ASSUME NEW S, NEW k
    PROVE  \/ Named(S, k) \in S /\ Fold[Named(S, k)] = k
           \/ Named(S, k) = NoName /\ k \notin Folded(S)
  BY DEF Named, Folded

\* Every pair is of listed tables, and of at least one.
LEMMA PairsOfListed ==
    ASSUME NEW S \in SUBSET Names, NEW T \in SUBSET Names, NEW aliases, NEW db
    PROVE  \A p \in BuildPairs(S, T, aliases, db) :
              /\ p = [src |-> p.src, tgt |-> p.tgt]
              /\ p.src \in S \cup {NoName}
              /\ p.tgt \in T \cup {NoName}
              /\ p # NoPair
<1> DEFINE A == AliasPairs(S, T, aliases, db)
           SL == Left(S, {p.src : p \in A})
           TL == Left(T, {p.tgt : p \in A})
<1>1. SL \subseteq S /\ TL \subseteq T
  BY DEF Left
<1>2. \A p \in A : /\ p = [src |-> p.src, tgt |-> p.tgt]
                   /\ p.src \in S \cup {NoName} /\ p.tgt \in T \cup {NoName} /\ p # NoPair
  BY NamedIs DEF AliasPairs
<1>3. \A p \in NamePairs(SL, TL) :
         /\ p = [src |-> p.src, tgt |-> p.tgt]
         /\ p.src \in S \cup {NoName} /\ p.tgt \in T \cup {NoName} /\ p # NoPair
  <2> TAKE p \in NamePairs(SL, TL)
  <2>1. PICK k \in Folded(SL) \cup Folded(TL) : p = [src |-> Named(SL, k), tgt |-> Named(TL, k)]
    BY DEF NamePairs
  <2>2. p.src \in SL \/ p.tgt \in TL
    BY <2>1, NamedIs
  <2>3. p.src \in SL \cup {NoName} /\ p.tgt \in TL \cup {NoName}
    BY <2>1, NamedIs
  <2> QED
    BY <1>1, <2>1, <2>2, <2>3, NamesAssumption DEF NoPair
<1> QED
  BY <1>2, <1>3 DEF BuildPairs

\* A source table is in one pair and in no other.
LEMMA SourcePaired ==
    ASSUME NamesDiffer,
           NEW S \in SUBSET Names, NEW T \in SUBSET Names, NEW aliases, NEW db,
           ~AliasedTwice(aliases, db), NEW n \in S
    PROVE  /\ \E p \in BuildPairs(S, T, aliases, db) : p.src = n
           /\ \A p, q \in BuildPairs(S, T, aliases, db) : p.src = n /\ q.src = n => p = q
<1> DEFINE A == AliasPairs(S, T, aliases, db)
           SL == Left(S, {p.src : p \in A})
           TL == Left(T, {p.tgt : p \in A})
           AP(i) == [src |-> Named(S, Fold[aliases[i].source]),
                     tgt |-> Named(T, Fold[aliases[i].target])]
<1>1. n # NoName /\ n \in Names
  BY NamesAssumption
<1>2. \A p, q \in A : p.src = n /\ q.src = n => p = q
  <2> SUFFICES ASSUME NEW p \in A, NEW q \in A, p.src = n, q.src = n PROVE p = q
    OBVIOUS
  <2>1. PICK i \in Effective(aliases, db) : p = AP(i)
    BY DEF AliasPairs
  <2>2. PICK j \in Effective(aliases, db) : q = AP(j)
    BY DEF AliasPairs
  <2>3. Fold[aliases[i].source] = Fold[n]
    BY <1>1, <2>1, NamedIs
  <2>4. Fold[aliases[j].source] = Fold[n]
    BY <1>1, <2>2, NamedIs
  <2>5. i = j
    BY <2>3, <2>4 DEF AliasedTwice
  <2> QED
    BY <2>1, <2>2, <2>5
<1>3. \A p, q \in NamePairs(SL, TL) : p.src = n /\ q.src = n => p = q
  <2> SUFFICES ASSUME NEW p \in NamePairs(SL, TL), NEW q \in NamePairs(SL, TL), p.src = n, q.src = n
               PROVE p = q
    OBVIOUS
  <2>1. PICK k : p = [src |-> Named(SL, k), tgt |-> Named(TL, k)]
    BY DEF NamePairs
  <2>2. PICK l : q = [src |-> Named(SL, l), tgt |-> Named(TL, l)]
    BY DEF NamePairs
  <2>3. k = Fold[n]
    BY <1>1, <2>1, NamedIs
  <2>4. l = Fold[n]
    BY <1>1, <2>2, NamedIs
  <2> QED
    BY <2>1, <2>2, <2>3, <2>4
<1>4. \A p \in A, q \in NamePairs(SL, TL) : ~(p.src = n /\ q.src = n)
  <2> SUFFICES ASSUME NEW p \in A, NEW q \in NamePairs(SL, TL), p.src = n, q.src = n PROVE FALSE
    OBVIOUS
  <2>1. PICK k : q = [src |-> Named(SL, k), tgt |-> Named(TL, k)]
    BY DEF NamePairs
  <2>2. n \in SL
    BY <1>1, <2>1, NamedIs
  <2>3. n \in {r.src : r \in A} \ {NoName}
    BY <1>1
  <2> QED
    BY <2>2, <2>3 DEF Left
<1>5. \E p \in A \cup NamePairs(SL, TL) : p.src = n
  <2>1. CASE n \in SL
    <3> DEFINE p == [src |-> Named(SL, Fold[n]), tgt |-> Named(TL, Fold[n])]
    <3>1. Fold[n] \in Folded(SL)
      BY <2>1 DEF Folded
    <3>2. p \in NamePairs(SL, TL)
      BY <3>1 DEF NamePairs
    <3>3. Named(SL, Fold[n]) \in SL /\ Fold[Named(SL, Fold[n])] = Fold[n]
      BY <3>1, NamedIs
    <3>4. Named(SL, Fold[n]) = n
      BY <3>3, <1>1 DEF NamesDiffer, Left
    <3>5. p.src = n
      BY <3>4
    <3> HIDE DEF p
    <3> QED
      BY <3>2, <3>5
  <2>2. CASE n \notin SL
    <3>1. PICK m \in {r.src : r \in A} \ {NoName} : Fold[m] = Fold[n]
      BY <2>2 DEF Left
    <3>2. PICK r \in A : r.src = m
      BY <3>1
    <3>3. m \in S
      BY <3>1, <3>2, NamedIs DEF AliasPairs
    <3>4. m = n
      BY <3>1, <3>3, <1>1 DEF NamesDiffer
    <3> QED
      BY <3>2, <3>4
  <2> QED
    BY <2>1, <2>2
<1>6. BuildPairs(S, T, aliases, db) = A \cup NamePairs(SL, TL)
  BY DEF BuildPairs
<1> DEFINE N == NamePairs(SL, TL)
<1> HIDE DEF A, SL, TL, N
<1>7. \A p, q \in A \cup N : p.src = n /\ q.src = n => p = q
  <2> SUFFICES ASSUME NEW p \in A \cup N, NEW q \in A \cup N, p.src = n, q.src = n PROVE p = q
    OBVIOUS
  <2>1. CASE p \in A /\ q \in A
    BY <1>2, <2>1
  <2>2. CASE p \in N /\ q \in N
    BY <1>3, <2>2 DEF N
  <2>3. ~(p \in A /\ q \in N) /\ ~(q \in A /\ p \in N)
    BY <1>4 DEF N
  <2> QED
    BY <2>1, <2>2, <2>3
<1> QED
  BY <1>5, <1>6, <1>7 DEF N

\* The same of a target table.
LEMMA TargetPaired ==
    ASSUME NamesDiffer,
           NEW S \in SUBSET Names, NEW T \in SUBSET Names, NEW aliases, NEW db,
           ~AliasedTwice(aliases, db), NEW n \in T
    PROVE  /\ \E p \in BuildPairs(S, T, aliases, db) : p.tgt = n
           /\ \A p, q \in BuildPairs(S, T, aliases, db) : p.tgt = n /\ q.tgt = n => p = q
<1> DEFINE A == AliasPairs(S, T, aliases, db)
           SL == Left(S, {p.src : p \in A})
           TL == Left(T, {p.tgt : p \in A})
           AP(i) == [src |-> Named(S, Fold[aliases[i].source]),
                     tgt |-> Named(T, Fold[aliases[i].target])]
<1>1. n # NoName /\ n \in Names
  BY NamesAssumption
<1>2. \A p, q \in A : p.tgt = n /\ q.tgt = n => p = q
  <2> SUFFICES ASSUME NEW p \in A, NEW q \in A, p.tgt = n, q.tgt = n PROVE p = q
    OBVIOUS
  <2>1. PICK i \in Effective(aliases, db) : p = AP(i)
    BY DEF AliasPairs
  <2>2. PICK j \in Effective(aliases, db) : q = AP(j)
    BY DEF AliasPairs
  <2>3. Fold[aliases[i].target] = Fold[n]
    BY <1>1, <2>1, NamedIs
  <2>4. Fold[aliases[j].target] = Fold[n]
    BY <1>1, <2>2, NamedIs
  <2>5. i = j
    BY <2>3, <2>4 DEF AliasedTwice
  <2> QED
    BY <2>1, <2>2, <2>5
<1>3. \A p, q \in NamePairs(SL, TL) : p.tgt = n /\ q.tgt = n => p = q
  <2> SUFFICES ASSUME NEW p \in NamePairs(SL, TL), NEW q \in NamePairs(SL, TL), p.tgt = n, q.tgt = n
               PROVE p = q
    OBVIOUS
  <2>1. PICK k : p = [src |-> Named(SL, k), tgt |-> Named(TL, k)]
    BY DEF NamePairs
  <2>2. PICK l : q = [src |-> Named(SL, l), tgt |-> Named(TL, l)]
    BY DEF NamePairs
  <2>3. k = Fold[n]
    BY <1>1, <2>1, NamedIs
  <2>4. l = Fold[n]
    BY <1>1, <2>2, NamedIs
  <2> QED
    BY <2>1, <2>2, <2>3, <2>4
<1>4. \A p \in A, q \in NamePairs(SL, TL) : ~(p.tgt = n /\ q.tgt = n)
  <2> SUFFICES ASSUME NEW p \in A, NEW q \in NamePairs(SL, TL), p.tgt = n, q.tgt = n PROVE FALSE
    OBVIOUS
  <2>1. PICK k : q = [src |-> Named(SL, k), tgt |-> Named(TL, k)]
    BY DEF NamePairs
  <2>2. n \in TL
    BY <1>1, <2>1, NamedIs
  <2>3. n \in {r.tgt : r \in A} \ {NoName}
    BY <1>1
  <2> QED
    BY <2>2, <2>3 DEF Left
<1>5. \E p \in A \cup NamePairs(SL, TL) : p.tgt = n
  <2>1. CASE n \in TL
    <3> DEFINE p == [src |-> Named(SL, Fold[n]), tgt |-> Named(TL, Fold[n])]
    <3>1. Fold[n] \in Folded(TL)
      BY <2>1 DEF Folded
    <3>2. p \in NamePairs(SL, TL)
      BY <3>1 DEF NamePairs
    <3>3. Named(TL, Fold[n]) \in TL /\ Fold[Named(TL, Fold[n])] = Fold[n]
      BY <3>1, NamedIs
    <3>4. Named(TL, Fold[n]) = n
      BY <3>3, <1>1 DEF NamesDiffer, Left
    <3>5. p.tgt = n
      BY <3>4
    <3> HIDE DEF p
    <3> QED
      BY <3>2, <3>5
  <2>2. CASE n \notin TL
    <3>1. PICK m \in {r.tgt : r \in A} \ {NoName} : Fold[m] = Fold[n]
      BY <2>2 DEF Left
    <3>2. PICK r \in A : r.tgt = m
      BY <3>1
    <3>3. m \in T
      BY <3>1, <3>2, NamedIs DEF AliasPairs
    <3>4. m = n
      BY <3>1, <3>3, <1>1 DEF NamesDiffer
    <3> QED
      BY <3>2, <3>4
  <2> QED
    BY <2>1, <2>2
<1>6. BuildPairs(S, T, aliases, db) = A \cup NamePairs(SL, TL)
  BY DEF BuildPairs
<1> DEFINE N == NamePairs(SL, TL)
<1> HIDE DEF A, SL, TL, N
<1>7. \A p, q \in A \cup N : p.tgt = n /\ q.tgt = n => p = q
  <2> SUFFICES ASSUME NEW p \in A \cup N, NEW q \in A \cup N, p.tgt = n, q.tgt = n PROVE p = q
    OBVIOUS
  <2>1. CASE p \in A /\ q \in A
    BY <1>2, <2>1
  <2>2. CASE p \in N /\ q \in N
    BY <1>3, <2>2 DEF N
  <2>3. ~(p \in A /\ q \in N) /\ ~(q \in A /\ p \in N)
    BY <1>4 DEF N
  <2> QED
    BY <2>1, <2>2, <2>3
<1> QED
  BY <1>5, <1>6, <1>7 DEF N

(***************************************************************************)
(* The inductive invariant.                                                *)
(***************************************************************************)
\* The pairs of tables reported for a pair of databases.
Reported(i) == {x[2] : x \in {x \in DOMAIN results : x[1] = i}}
Open == IF cur = NoPair THEN {} ELSE {cur}
N == Len(task.pairs)

TaskIsOne == task \in Tasks
AtIsPair == at \in 1..N
StepIsKnown == step \in Steps
Taken == (step \in {"structure", "data"}) <=> (cur # NoPair)
CancelTyped == cancelled \in BOOLEAN
OpenTyped == columns \in {"none", "same", "diff"}

\* Every earlier pair of databases is reported as it was paired, of the
\* present one what is not left or open, of later ones nothing.
Past == \A i \in 1..N : i < at \/ step = "done" =>
           Reported(i) = PairsOf(i) /\ ~AliasedTwice(task.aliases, task.pairs[i].source)
Present == step \in {"next", "structure", "data"} =>
              /\ PairsOf(at) = todo \cup Open \cup Reported(at)
              /\ ~AliasedTwice(task.aliases, task.pairs[at].source)
Future == \A i \in 1..N : i > at \/ (i = at /\ step = "list") => Reported(i) = {}

\* What is reported was paired; a verdict is left out of the data only where
\* the structure differs.
ReportsPaired == \A x \in DOMAIN results : /\ x \in (1..N) \X PairsOf(x[1])
                                           /\ results[x].columns \in {"none", "same", "diff"}
SkippedDiffers == \A x \in DOMAIN results :
    results[x].data # NoData /\ results[x].data.mode = "skipped" => results[x].columns = "diff"
TodoPaired == todo \subseteq PairsOf(at)
OpenPaired == cur # NoPair => cur \in PairsOf(at)

IInv == /\ TaskIsOne /\ AtIsPair /\ StepIsKnown /\ Taken /\ OpenTyped /\ CancelTyped
        /\ Past /\ Present /\ Future
        /\ ReportsPaired /\ SkippedDiffers /\ TodoPaired /\ OpenPaired

\* What every table's end does to the results.
LEMMA ReportStep ==
    ASSUME IInv, NEW pair \in PairsOf(at), NEW c \in {"none", "same", "diff"}, NEW d,
           Report(pair, c, d), task' = task, at' = at,
           d = NoData \/ d.mode # "skipped" \/ c = "diff"
    PROVE  /\ Reported(at)' = Reported(at) \cup {pair}
           /\ \A i \in 1..N : i # at => Reported(i)' = Reported(i)
           /\ ReportsPaired'
           /\ SkippedDiffers'
<1> USE DEF IInv
<1>1. DOMAIN results' = DOMAIN results \cup {<<at, pair>>}
  BY DEF Report
<1>2. \A x \in DOMAIN results' :
         results'[x] = IF x = <<at, pair>> THEN Outcome(c, d) ELSE results[x]
  BY DEF Report
<1>3. Outcome(c, d).columns = c /\ Outcome(c, d).data = d
  BY DEF Outcome
<1>4. Reported(at)' = Reported(at) \cup {pair}
  <2>1. \A y : y \in Reported(at)' <=> \E x \in DOMAIN results' : x[1] = at /\ y = x[2]
    BY DEF Reported
  <2>2. \A y : y \in Reported(at) <=> \E x \in DOMAIN results : x[1] = at /\ y = x[2]
    BY DEF Reported
  <2>3. <<at, pair>>[1] = at /\ <<at, pair>>[2] = pair
    OBVIOUS
  <2>4. \A y : y \in Reported(at)' <=> y \in Reported(at) \/ y = pair
    BY <1>1, <2>1, <2>2, <2>3
  <2> QED
    BY <2>4
<1>5. \A i \in 1..N : i # at => Reported(i)' = Reported(i)
  BY <1>1 DEF Reported
<1>6. \A i : PairsOf(i)' = PairsOf(i)
  BY DEF PairsOf, SourceListed, TargetListed
<1>7. N' = N
  BY DEF N
<1>8. ReportsPaired'
  <2> SUFFICES ASSUME NEW x \in DOMAIN results'
               PROVE  /\ x \in (1..N) \X PairsOf(x[1])
                      /\ results'[x].columns \in {"none", "same", "diff"}
    BY <1>6, <1>7 DEF ReportsPaired
  <2>1. CASE x = <<at, pair>>
    BY <1>2, <1>3, <2>1 DEF AtIsPair
  <2>2. CASE x # <<at, pair>>
    BY <1>1, <1>2, <2>2 DEF ReportsPaired
  <2> QED
    BY <2>1, <2>2
<1>9. SkippedDiffers'
  <2> SUFFICES ASSUME NEW x \in DOMAIN results',
                      results'[x].data # NoData, results'[x].data.mode = "skipped"
               PROVE  results'[x].columns = "diff"
    BY DEF SkippedDiffers
  <2>1. CASE x = <<at, pair>>
    BY <1>2, <1>3, <2>1
  <2>2. CASE x # <<at, pair>>
    BY <1>1, <1>2, <2>2 DEF SkippedDiffers
  <2> QED
    BY <2>1, <2>2
<1> QED
  BY <1>4, <1>5, <1>8, <1>9

LEMMA CompareDataMode ==
    ASSUME NEW s, NEW t, NEW ign
    PROVE  CompareData(s, t, ign).mode # "skipped"
  BY DEF CompareData, CompareByKey, CompareBags, Verdict

\* NoPair is the pair of no tables.
LEMMA NoPairNotPaired ==
    ASSUME TaskIsOne, NEW i \in 1..N
    PROVE  NoPair \notin PairsOf(i) /\ PairsOf(i) \subseteq Pair
<1>1. SourceListed(i) \in SUBSET Names /\ TargetListed(i) \in SUBSET Names
  BY TasksAssumption DEF TaskIsOne, SourceListed, TargetListed, Listed, N
<1>2. \A p \in PairsOf(i) : /\ p = [src |-> p.src, tgt |-> p.tgt]
                            /\ p.src \in SourceListed(i) \cup {NoName}
                            /\ p.tgt \in TargetListed(i) \cup {NoName}
                            /\ p # NoPair
  BY <1>1, PairsOfListed DEF PairsOf
<1> QED
  BY <1>1, <1>2 DEF Pair

LEMMA InitIInv == Init => IInv
<1> SUFFICES ASSUME Init PROVE IInv
  OBVIOUS
<1> USE DEF Init
<1>1. AtIsPair
  BY TasksAssumption DEF AtIsPair, N
<1>2. DOMAIN results = {}
  OBVIOUS
<1>5. \A i : Reported(i) = {}
  BY <1>2 DEF Reported
<1>3. Past /\ Future /\ Present
  BY <1>1, <1>5 DEF Past, Future, Present, AtIsPair, N
<1>4. ReportsPaired /\ SkippedDiffers
  BY <1>2 DEF ReportsPaired, SkippedDiffers
<1> QED
  BY <1>1, <1>3, <1>4
     DEF IInv, TaskIsOne, StepIsKnown, Steps, Taken, OpenTyped, CancelTyped, TodoPaired, OpenPaired

\* The end of the open table, whatever its verdict.
LEMMA EndTableIInv ==
    ASSUME IInv, step \in {"structure", "data"}, NEW c \in {"none", "same", "diff"}, NEW d,
           EndTable(c, d), d = NoData \/ d.mode # "skipped" \/ c = "diff"
    PROVE  IInv'
<1> USE DEF IInv
<1>1. /\ Report(cur, c, d) /\ cur' = NoPair /\ step' = "next" /\ columns' = "none"
      /\ task' = task /\ at' = at /\ todo' = todo /\ cancelled' = cancelled
  BY DEF EndTable
<1>2. cur # NoPair /\ cur \in PairsOf(at)
  BY DEF Taken, OpenPaired
<1>3. /\ Reported(at)' = Reported(at) \cup {cur}
      /\ \A i \in 1..N : i # at => Reported(i)' = Reported(i)
      /\ ReportsPaired'
      /\ SkippedDiffers'
  BY <1>1, <1>2, ReportStep
<1>4. (\A i : PairsOf(i)' = PairsOf(i)) /\ N' = N
  BY <1>1 DEF PairsOf, SourceListed, TargetListed, N
<1>5. Past'
  BY <1>1, <1>3, <1>4 DEF Past, AtIsPair
<1>6. Present'
  BY <1>1, <1>2, <1>3, <1>4 DEF Present, Open
<1>7. Future'
  BY <1>1, <1>3, <1>4 DEF Future, AtIsPair
<1> QED
  BY <1>1, <1>3, <1>4, <1>5, <1>6, <1>7
     DEF TaskIsOne, AtIsPair, StepIsKnown, Steps, Taken, OpenTyped, CancelTyped, TodoPaired, OpenPaired

LEMMA NextIInv == IInv /\ [Next]_vars => IInv'
<1> SUFFICES ASSUME IInv, [Next]_vars PROVE IInv'
  OBVIOUS
<1> USE DEF IInv
<1> DEFINE Same == (\A i : PairsOf(i)' = PairsOf(i)) /\ N' = N
<1>a. ASSUME task' = task PROVE Same
  BY <1>a DEF PairsOf, SourceListed, TargetListed, N
<1>b. ASSUME task' = task, at' = at, results' = results
      PROVE  /\ Same /\ TaskIsOne' /\ AtIsPair' /\ (\A i : Reported(i)' = Reported(i))
             /\ ReportsPaired' /\ SkippedDiffers'
  BY <1>a, <1>b DEF TaskIsOne, AtIsPair, Reported, ReportsPaired, SkippedDiffers
<1> HIDE DEF Same
<1>c. CancelTyped'
  BY DEF CancelTyped, Next, Work, ListTables, ListFails, TakeOneSided, TakePair, CompareStructure,
         NothingToCompare, CompareRows, RowsFail, NextDatabase, EndTable, Cancel, vars
<1>1. CASE ListTables
  <2>1. /\ step = "list" /\ ~AliasedTwice(task.aliases, task.pairs[at].source)
        /\ todo' = PairsOf(at) /\ step' = "next" /\ cur' = cur /\ columns' = columns
        /\ task' = task /\ at' = at /\ results' = results
    BY <1>1 DEF ListTables, SourceDb
  <2>2. cur = NoPair
    BY <2>1 DEF Taken
  <2>3. Past' /\ Future'
    BY <2>1, <1>b DEF Past, Future, AtIsPair, Same
  <2>4. Present'
    BY <2>1, <2>2, <1>b DEF Present, Future, AtIsPair, Open, Same
  <2> QED
    BY <2>1, <2>2, <2>3, <2>4, <1>b, <1>c
       DEF StepIsKnown, Steps, Taken, OpenTyped, TodoPaired, OpenPaired, Same
<1>2. CASE ListFails
  <2>1. /\ step \in {"list", "next"} /\ step' = "error"
        /\ todo' = todo /\ cur' = cur /\ columns' = columns
        /\ task' = task /\ at' = at /\ results' = results
    BY <1>2 DEF ListFails
  <2>2. Past' /\ Future' /\ Present'
    BY <2>1, <1>b DEF Past, Future, Present, AtIsPair, Same
  <2> QED
    BY <2>1, <2>2, <1>b, <1>c
       DEF StepIsKnown, Steps, Taken, OpenTyped, TodoPaired, OpenPaired, Same
<1>3. CASE TakeOneSided
  <2>1. PICK p \in todo : todo' = todo \ {p} /\ Report(p, "none", NoData)
    BY <1>3 DEF TakeOneSided
  <2>2. /\ step = "next" /\ step' = step /\ cur' = cur /\ columns' = columns
        /\ task' = task /\ at' = at
    BY <1>3 DEF TakeOneSided
  <2>3. p \in PairsOf(at)
    BY <2>1 DEF TodoPaired
  <2>4. /\ Reported(at)' = Reported(at) \cup {p}
        /\ \A i \in 1..N : i # at => Reported(i)' = Reported(i)
        /\ ReportsPaired'
        /\ SkippedDiffers'
    BY <2>1, <2>2, <2>3, ReportStep
  <2>5. Past' /\ Future'
    BY <2>2, <2>4, <1>a DEF Past, Future, AtIsPair, Same
  <2>6. Present'
    BY <2>1, <2>2, <2>4, <1>a DEF Present, Open, Same
  <2> QED
    BY <2>1, <2>2, <2>4, <2>5, <2>6, <1>a, <1>c
       DEF TaskIsOne, AtIsPair, StepIsKnown, Taken, OpenTyped, TodoPaired, OpenPaired, Same
<1>4. CASE TakePair
  <2>1. PICK p \in todo : todo' = todo \ {p} /\ cur' = p
    BY <1>4 DEF TakePair
  <2>2. /\ step = "next" /\ step' \in {"structure", "data"} /\ columns' = "none"
        /\ task' = task /\ at' = at /\ results' = results
    BY <1>4 DEF TakePair
  <2>3. p \in PairsOf(at) /\ p # NoPair
    BY <2>1, NoPairNotPaired DEF TodoPaired, AtIsPair
  <2>4. cur = NoPair
    BY <2>2 DEF Taken
  <2>5. Past' /\ Future'
    BY <2>2, <1>b DEF Past, Future, AtIsPair, Same
  <2>6. Present'
    BY <2>1, <2>2, <2>3, <2>4, <1>b DEF Present, Open, Same
  <2> QED
    BY <2>1, <2>2, <2>3, <2>5, <2>6, <1>b, <1>c
       DEF StepIsKnown, Steps, Taken, OpenTyped, TodoPaired, OpenPaired, Same
<1>5. CASE CompareStructure
  <2>1. PICK v \in {"none", "same", "diff"} :
           \/ EndTable(v, NoData)
           \/ v = "diff" /\ EndTable(v, Skipped(Source, Target))
           \/ /\ columns' = v /\ step' = "data"
              /\ UNCHANGED <<task, at, todo, cur, results, cancelled>>
    BY <1>5 DEF CompareStructure
  <2>2. step = "structure"
    BY <1>5 DEF CompareStructure
  <2>3. CASE EndTable(v, NoData)
    BY <2>2, <2>3, EndTableIInv
  <2>4. CASE v = "diff" /\ EndTable(v, Skipped(Source, Target))
    BY <2>2, <2>4, EndTableIInv
  <2>5. CASE columns' = v /\ step' = "data" /\ UNCHANGED <<task, at, todo, cur, results, cancelled>>
    <3>1. Past' /\ Future' /\ Present'
      BY <2>2, <2>5, <1>b DEF Past, Future, Present, AtIsPair, Open, Same
    <3> QED
      BY <2>2, <2>5, <3>1, <1>b, <1>c
         DEF StepIsKnown, Steps, Taken, OpenTyped, TodoPaired, OpenPaired, Same
  <2> QED
    BY <2>1, <2>3, <2>4, <2>5
<1>6. CASE NothingToCompare \/ RowsFail
  <2>1. step = "data" /\ EndTable(columns, NoData)
    BY <1>6 DEF NothingToCompare, RowsFail
  <2> QED
    BY <2>1, EndTableIInv DEF OpenTyped
<1>7. CASE CompareRows
  <2>1. step = "data" /\ EndTable(columns, CompareData(Source, Target, IgnoredIn(cur.src)))
    BY <1>7 DEF CompareRows
  <2> QED
    BY <2>1, EndTableIInv, CompareDataMode DEF OpenTyped
<1>8. CASE NextDatabase
  <2>1. /\ step = "next" /\ todo = {} /\ todo' = {} /\ cur' = cur /\ columns' = columns
        /\ task' = task /\ results' = results
    BY <1>8 DEF NextDatabase
  <2>2. \/ at < N /\ at' = at + 1 /\ step' = "list"
        \/ at >= N /\ at' = at /\ step' = "done"
    BY <1>8, TasksAssumption DEF NextDatabase, N, AtIsPair, TaskIsOne
  <2>3. cur = NoPair
    BY <2>1 DEF Taken
  <2>4. /\ Same /\ (\A i : Reported(i)' = Reported(i)) /\ TaskIsOne'
        /\ ReportsPaired' /\ SkippedDiffers'
    BY <2>1, <1>a DEF Same, TaskIsOne, Reported, ReportsPaired, SkippedDiffers
  <2>5. N \in Nat /\ at \in 1..N
    BY TasksAssumption DEF TaskIsOne, N, AtIsPair
  <2>6. AtIsPair'
    BY <2>2, <2>4, <2>5 DEF AtIsPair, Same
  <2>7. Reported(at) = PairsOf(at) /\ ~AliasedTwice(task.aliases, task.pairs[at].source)
    BY <2>1, <2>3 DEF Present, Open
  <2>8. Past'
    BY <2>1, <2>2, <2>4, <2>5, <2>7 DEF Past, Same
  <2>9. Future'
    BY <2>1, <2>2, <2>4, <2>5 DEF Future, Same
  <2>10. Present'
    BY <2>2 DEF Present
  <2> QED
    BY <2>1, <2>2, <2>3, <2>4, <2>6, <2>8, <2>9, <2>10, <1>c
       DEF StepIsKnown, Steps, Taken, OpenTyped, TodoPaired, OpenPaired, Same
<1>9. CASE Cancel \/ UNCHANGED vars
  <2>1. UNCHANGED <<task, at, todo, cur, step, columns, results>>
    BY <1>9 DEF Cancel, vars
  <2>2. Past' /\ Future' /\ Present'
    BY <2>1, <1>b DEF Past, Future, Present, AtIsPair, Open, Same
  <2> QED
    BY <2>1, <2>2, <1>b, <1>c
       DEF StepIsKnown, Taken, OpenTyped, TodoPaired, OpenPaired, Same
<1> QED
  BY <1>1, <1>2, <1>3, <1>4, <1>5, <1>6, <1>7, <1>8, <1>9 DEF Next, Work

LEMMA InvariantHolds == Spec => []IInv
  BY InitIInv, NextIInv, PTL DEF Spec

(***************************************************************************)
(* The theorems.                                                           *)
(***************************************************************************)
LEMMA IInvTyped == IInv => TypeOK
<1> SUFFICES ASSUME IInv PROVE TypeOK
  OBVIOUS
<1> USE DEF IInv
<1>1. \A i \in 1..N : PairsOf(i) \subseteq Pair
  BY NoPairNotPaired
<1>2. todo \subseteq Pair
  BY <1>1 DEF TodoPaired, AtIsPair
<1>3. cur \in Pair
  BY <1>1 DEF OpenPaired, AtIsPair, Pair, NoPair
<1>4. DOMAIN results \subseteq (1..N) \X Pair
  BY <1>1 DEF ReportsPaired
<1>5. \A x \in DOMAIN results : results[x].columns \in {"none", "same", "diff"}
  BY DEF ReportsPaired
<1>6. cancelled \in BOOLEAN
  BY DEF CancelTyped
<1> QED
  BY <1>2, <1>3, <1>4, <1>5, <1>6 DEF TypeOK, AtIsPair, N, StepIsKnown, OpenTyped

LEMMA IInvReported == NamesDiffer /\ IInv => EveryTableReported
<1> SUFFICES ASSUME NamesDiffer, IInv, step = "done", NEW i \in 1..N
             PROVE
               /\ \A n \in SourceListed(i) :
                     /\ \E x \in DOMAIN results : x[1] = i /\ x[2].src = n
                     /\ \A x, y \in DOMAIN results :
                           x[1] = i /\ y[1] = i /\ x[2].src = n /\ y[2].src = n => x = y
               /\ \A n \in TargetListed(i) :
                     /\ \E x \in DOMAIN results : x[1] = i /\ x[2].tgt = n
                     /\ \A x, y \in DOMAIN results :
                           x[1] = i /\ y[1] = i /\ x[2].tgt = n /\ y[2].tgt = n => x = y
  BY DEF EveryTableReported, N
<1> USE DEF IInv
<1>1. Reported(i) = PairsOf(i) /\ ~AliasedTwice(task.aliases, task.pairs[i].source)
  BY DEF Past
<1>2. SourceListed(i) \in SUBSET Names /\ TargetListed(i) \in SUBSET Names
  BY TasksAssumption DEF TaskIsOne, SourceListed, TargetListed, Listed, N
<1>3. \A p \in PairsOf(i) : \E x \in DOMAIN results : x[1] = i /\ x[2] = p
  BY <1>1 DEF Reported
<1>4. \A x \in DOMAIN results : x[1] = i => x[2] \in PairsOf(i)
  BY <1>1 DEF Reported
<1>5. \A x, y \in DOMAIN results : x[1] = i /\ y[1] = i /\ x[2] = y[2] => x = y
  BY DEF ReportsPaired
<1>6. ASSUME NEW n \in SourceListed(i)
      PROVE  /\ \E p \in PairsOf(i) : p.src = n
             /\ \A p, q \in PairsOf(i) : p.src = n /\ q.src = n => p = q
  BY <1>1, <1>2, <1>6, SourcePaired DEF PairsOf
<1>7. ASSUME NEW n \in TargetListed(i)
      PROVE  /\ \E p \in PairsOf(i) : p.tgt = n
             /\ \A p, q \in PairsOf(i) : p.tgt = n /\ q.tgt = n => p = q
  BY <1>1, <1>2, <1>7, TargetPaired DEF PairsOf
<1> QED
  BY <1>3, <1>4, <1>5, <1>6, <1>7

LEMMA IInvSummary == IInv => SummaryAddsUp
<1> SUFFICES ASSUME IInv PROVE SummaryAddsUp
  OBVIOUS
<1> USE DEF IInv
<1>1. ASSUME NEW x \in DOMAIN results
      PROVE  ~(x[2].src = NoName /\ x[2].tgt = NoName)
  <2>1. x[1] \in 1..N /\ x[2] \in PairsOf(x[1])
    BY <1>1 DEF ReportsPaired
  <2>2. x[2] \in Pair /\ x[2] # NoPair
    BY <2>1, NoPairNotPaired
  <2> QED
    BY <2>2 DEF Pair, NoPair
<1>2. ASSUME NEW x \in DOMAIN results, Both(x)
      PROVE  \/ x \in Matched \/ x \in StructureDiff \/ x \in DataDiff
  <2>1. CASE results[x].columns = "diff"
    BY <1>2, <2>1 DEF StructureDiff
  <2>2. CASE results[x].columns # "diff" /\ DataAgrees(results[x])
    BY <1>2, <2>2 DEF Matched
  <2>3. CASE results[x].columns # "diff" /\ ~DataAgrees(results[x])
    BY <1>2, <2>3 DEF DataDiff, DataAgrees, SkippedDiffers
  <2> QED
    BY <2>1, <2>2, <2>3
<1>3. DOMAIN results = SourceOnly \cup TargetOnly \cup Matched \cup StructureDiff \cup DataDiff
  BY <1>2 DEF SourceOnly, TargetOnly, Matched, StructureDiff, DataDiff, Both
<1>4. Matched \cap (StructureDiff \cup DataDiff \cup SourceOnly \cup TargetOnly) = {}
  BY DEF SourceOnly, TargetOnly, Matched, StructureDiff, DataDiff, Both, DataAgrees
<1>5. (StructureDiff \cup DataDiff) \cap (SourceOnly \cup TargetOnly) = {}
  BY DEF SourceOnly, TargetOnly, StructureDiff, DataDiff, Both
<1>6. SourceOnly \cap TargetOnly = {}
  BY <1>1 DEF SourceOnly, TargetOnly
<1> QED
  BY <1>3, <1>4, <1>5, <1>6 DEF SummaryAddsUp

\* Every reachable state of a comparison is well typed: what is left, open or
\* reported are pairs of listed tables.
THEOREM TypeCorrect == Spec => []TypeOK
  BY InvariantHolds, IInvTyped, PTL

\* When table names differ in more than case, a comparison that ends has
\* reported every selected table of both sides once, for any aliases.
THEOREM TablesReported == ASSUME NamesDiffer PROVE Spec => []EveryTableReported
<1>1. IInv => EveryTableReported
  BY IInvReported
<1> QED
  BY <1>1, InvariantHolds, PTL

\* The summary counts every reported table in one place, whatever fails.
THEOREM SummaryCorrect == Spec => []SummaryAddsUp
  BY InvariantHolds, IInvSummary, PTL

\* A comparison that ends has reported every table once, and its summary
\* counts what was reported.
THEOREM ReportIsComplete == ASSUME NamesDiffer PROVE Spec => []ReportComplete
<1>1. Spec => []EveryTableReported
  BY TablesReported
<1>2. EveryTableReported /\ SummaryAddsUp => ReportComplete
  BY DEF ReportComplete
<1> QED
  BY <1>1, <1>2, SummaryCorrect, PTL

(***************************************************************************)
(* Counting what a function takes.                                         *)
(***************************************************************************)
Taking(g, r) == {i \in DOMAIN g : g[i] = r}
ValuesOf(g) == {g[i] : i \in DOMAIN g}
Counts(g) == [r \in ValuesOf(g) |-> Cardinality(Taking(g, r))]

\* f sends every place of g to its own place of h with the same value.
Matching(f, g, h) == /\ f \in Injection(DOMAIN g, DOMAIN h)
                     /\ \A i \in DOMAIN g : g[i] = h[f[i]]

LEMMA CopiesAre ==
    ASSUME NEW g
    PROVE  \A y : y \in Copies(Counts(g)) <=>
              \E r \in ValuesOf(g) : \E k \in 1..Cardinality(Taking(g, r)) : y = <<r, k>>
<1> DEFINE B == Counts(g)
<1>1. DOMAIN B = ValuesOf(g) /\ \A r \in ValuesOf(g) : B[r] = Cardinality(Taking(g, r))
  BY DEF Counts
<1> HIDE DEF B
<1>2. \A y : y \in Copies(B) <=> \E r \in DOMAIN B : \E k \in 1..B[r] : y = <<r, k>>
  BY DEF Copies
<1> QED
  BY <1>1, <1>2 DEF B

\* The places of a function can be numbered value by value.
LEMMA CopiesNumbered ==
    ASSUME NEW g, IsFiniteSet(DOMAIN g)
    PROVE  \E b \in Bijection(DOMAIN g, Copies(Counts(g))) : \A i \in DOMAIN g : b[i][1] = g[i]
<1> DEFINE C == Copies(Counts(g))
           D == DOMAIN g
           K(r) == 1..Cardinality(Taking(g, r))
           c(r) == CHOOSE b : b \in Bijection(Taking(g, r), K(r))
           b == [i \in D |-> <<g[i], c(g[i])[i]>>]
<1>1. ASSUME NEW r PROVE c(r) \in Bijection(Taking(g, r), K(r))
  <2>1. Taking(g, r) \in SUBSET D
    BY DEF Taking
  <2>2. IsFiniteSet(Taking(g, r)) /\ Cardinality(Taking(g, r)) \in Nat
    BY <2>1, FS_Subset, FS_CardinalityType
  <2>3. IsFiniteSet(K(r)) /\ Cardinality(K(r)) = Cardinality(Taking(g, r))
    BY <2>2, FS_Interval
  <2>4. ExistsBijection(Taking(g, r), K(r))
    BY <2>2, <2>3, FS_SameCardinalityBij
  <2> QED
    BY <2>4 DEF ExistsBijection
<1>2. \A y : y \in C <=> \E r \in ValuesOf(g) : \E k \in K(r) : y = <<r, k>>
  BY CopiesAre
<1> HIDE DEF c, C, K
<1>a. ASSUME NEW r
      PROVE  /\ c(r) \in [Taking(g, r) -> K(r)]
             /\ \A x, y \in Taking(g, r) : c(r)[x] = c(r)[y] => x = y
             /\ \A k \in K(r) : \E x \in Taking(g, r) : c(r)[x] = k
  BY <1>1, Fun_BijectionProperties
<1>3. \A i \in D : i \in Taking(g, g[i]) /\ g[i] \in ValuesOf(g)
  BY DEF Taking, ValuesOf
<1>4. \A i \in D : c(g[i])[i] \in K(g[i])
  BY <1>3, <1>a
<1>5. b \in [D -> C]
  BY <1>2, <1>3, <1>4
<1>6. \A i, j \in D : b[i] = b[j] => i = j
  BY <1>3, <1>a
<1>7. ASSUME NEW y \in C PROVE \E i \in D : b[i] = y
  <2>0. PICK r \in ValuesOf(g) : \E k \in K(r) : y = <<r, k>>
    BY <1>2
  <2>1. PICK k \in K(r) : y = <<r, k>>
    BY <2>0
  <2>2. PICK x \in Taking(g, r) : c(r)[x] = k
    BY <1>a
  <2>3. x \in D /\ g[x] = r
    BY DEF Taking
  <2> QED
    BY <2>1, <2>2, <2>3
<1>8. b \in Bijection(D, C)
  BY <1>5, <1>6, <1>7, Fun_IsBij
<1>9. \A i \in D : b[i][1] = g[i]
  OBVIOUS
<1> HIDE DEF b
<1> QED
  BY <1>8, <1>9 DEF C

LEMMA CopiesCounted ==
    ASSUME NEW g, IsFiniteSet(DOMAIN g)
    PROVE  IsFiniteSet(Copies(Counts(g))) /\ Cardinality(Copies(Counts(g))) = Cardinality(DOMAIN g)
<1>1. ExistsBijection(DOMAIN g, Copies(Counts(g)))
  BY CopiesNumbered DEF ExistsBijection
<1> QED
  BY <1>1, FS_Bijection

\* What one set lacks and the other has too much makes up for their sizes.
LEMMA DifferencesBalance ==
    ASSUME NEW X, NEW Y, IsFiniteSet(X), IsFiniteSet(Y)
    PROVE  /\ Cardinality(X \ Y) \in Nat /\ Cardinality(Y \ X) \in Nat
           /\ Cardinality(X \ Y) + Cardinality(Y) = Cardinality(Y \ X) + Cardinality(X)
           /\ Cardinality(X \ Y) + Cardinality(Y \ X) = 0 <=> X = Y
<1>1. /\ IsFiniteSet(X \ Y) /\ IsFiniteSet(Y \ X)
      /\ Cardinality(X \ Y) = Cardinality(X) - Cardinality(X \cap Y)
      /\ Cardinality(Y \ X) = Cardinality(Y) - Cardinality(X \cap Y)
  <2>1. X \cap Y = Y \cap X
    OBVIOUS
  <2> QED
    BY <2>1, FS_Difference
<1>2. /\ Cardinality(X \ Y) \in Nat /\ Cardinality(Y \ X) \in Nat
      /\ Cardinality(X) \in Nat /\ Cardinality(Y) \in Nat
  BY <1>1, FS_CardinalityType
<1>3. IsFiniteSet(X \cap Y) /\ Cardinality(X \cap Y) \in Nat
  BY FS_Intersection, FS_CardinalityType
<1>4. /\ Cardinality(X \ Y) = 0 <=> X \ Y = {}
      /\ Cardinality(Y \ X) = 0 <=> Y \ X = {}
  BY <1>1, FS_EmptySet
<1>5. X \ Y = {} /\ Y \ X = {} <=> X = Y
  OBVIOUS
<1>6. Cardinality(X \ Y) + Cardinality(Y) = Cardinality(Y \ X) + Cardinality(X)
  BY <1>1, <1>2, <1>3
<1>7. Cardinality(X \ Y) + Cardinality(Y \ X) = 0 <=> Cardinality(X \ Y) = 0 /\ Cardinality(Y \ X) = 0
  BY <1>2
<1> QED
  BY <1>2, <1>4, <1>5, <1>6, <1>7

\* Two functions take every value equally often when their places match.
LEMMA CountsMatch ==
    ASSUME NEW g, NEW h, IsFiniteSet(DOMAIN g), IsFiniteSet(DOMAIN h),
           Copies(Counts(g)) = Copies(Counts(h))
    PROVE  \E f : Matching(f, g, h)
<1> DEFINE C == Copies(Counts(g))
<1>1. PICK b \in Bijection(DOMAIN g, C) : \A i \in DOMAIN g : b[i][1] = g[i]
  BY CopiesNumbered
<1>2. PICK d \in Bijection(DOMAIN h, C) : \A i \in DOMAIN h : d[i][1] = h[i]
  BY CopiesNumbered
<1> HIDE DEF C
<1> DEFINE f == [i \in DOMAIN g |-> CHOOSE j \in DOMAIN h : d[j] = b[i]]
<1>3. /\ b \in [DOMAIN g -> C] /\ \A i, j \in DOMAIN g : b[i] = b[j] => i = j
      /\ \A y \in C : \E j \in DOMAIN h : d[j] = y
  BY Fun_BijectionProperties
<1>4. \A i \in DOMAIN g : f[i] \in DOMAIN h /\ d[f[i]] = b[i]
  BY <1>3
<1>5. f \in [DOMAIN g -> DOMAIN h]
  BY <1>4
<1> HIDE DEF f
<1>6. \A i, j \in DOMAIN g : f[i] = f[j] => i = j
  BY <1>3, <1>4
<1>7. f \in Injection(DOMAIN g, DOMAIN h)
  BY <1>5, <1>6, Fun_IsInj
<1>8. \A i \in DOMAIN g : g[i] = h[f[i]]
  BY <1>1, <1>2, <1>4
<1> QED
  BY <1>7, <1>8 DEF Matching

LEMMA MatchCounts ==
    ASSUME NEW g, NEW h, IsFiniteSet(DOMAIN g), IsFiniteSet(DOMAIN h),
           Cardinality(DOMAIN g) = Cardinality(DOMAIN h), NEW f, Matching(f, g, h)
    PROVE  /\ f \in Surjection(DOMAIN g, DOMAIN h)
           /\ Counts(g) = Counts(h)
<1>1. f \in Injection(DOMAIN g, DOMAIN h) /\ \A i \in DOMAIN g : g[i] = h[f[i]]
  BY DEF Matching
<1>2. f \in Surjection(DOMAIN g, DOMAIN h)
  BY <1>1, FS_Injection
<1>3. /\ f \in [DOMAIN g -> DOMAIN h]
      /\ \A i, j \in DOMAIN g : f[i] = f[j] => i = j
      /\ \A j \in DOMAIN h : \E i \in DOMAIN g : f[i] = j
  BY <1>1, <1>2, Fun_InjectionProperties, Fun_SurjectionProperties
<1>4. ValuesOf(g) = ValuesOf(h)
  BY <1>1, <1>3 DEF ValuesOf
<1>5. ASSUME NEW r \in ValuesOf(g) PROVE Cardinality(Taking(g, r)) = Cardinality(Taking(h, r))
  <2> DEFINE e == [i \in Taking(g, r) |-> f[i]]
  <2>1. e \in [Taking(g, r) -> Taking(h, r)]
    BY <1>1, <1>3 DEF Taking
  <2>2. \A i, j \in Taking(g, r) : e[i] = e[j] => i = j
    BY <1>3 DEF Taking
  <2>3. \A j \in Taking(h, r) : \E i \in Taking(g, r) : e[i] = j
    BY <1>1, <1>3 DEF Taking
  <2>4. e \in Bijection(Taking(g, r), Taking(h, r))
    BY <2>1, <2>2, <2>3, Fun_IsBij
  <2>5. Taking(g, r) \in SUBSET DOMAIN g
    BY DEF Taking
  <2> QED
    BY <2>4, <2>5, FS_Subset, FS_Bijection DEF ExistsBijection
<1> QED
  BY <1>2, <1>4, <1>5 DEF Counts

(***************************************************************************)
(* The verdict about one table.                                            *)
(***************************************************************************)
NormRows(rows, cols) == [i \in DOMAIN rows |-> NormRow(rows[i], cols)]

LEMMA NormRowsAre ==
    ASSUME NEW rows, NEW cols
    PROVE  /\ DOMAIN NormRows(rows, cols) = DOMAIN rows
           /\ \A i \in DOMAIN rows : NormRows(rows, cols)[i] = NormRow(rows[i], cols)
           /\ RowBag(rows, cols) = Counts(NormRows(rows, cols))
<1> DEFINE g == NormRows(rows, cols)
<1>1. DOMAIN g = DOMAIN rows /\ \A i \in DOMAIN rows : g[i] = NormRow(rows[i], cols)
  BY DEF NormRows
<1> HIDE DEF g
<1>2. ValuesOf(g) = {NormRow(rows[i], cols) : i \in DOMAIN rows}
  BY <1>1 DEF ValuesOf
<1>3. \A r : Taking(g, r) = {i \in DOMAIN rows : NormRow(rows[i], cols) = r}
  BY <1>1 DEF Taking
<1>4. RowBag(rows, cols) = Counts(g)
  BY <1>2, <1>3 DEF RowBag, Counts
<1> QED
  BY <1>1, <1>4 DEF g

LEMMA ReadRows ==
    ASSUME NEW s, IsRead(s)
    PROVE  /\ Len(s.rows) \in Nat
           /\ IsFiniteSet(DOMAIN s.rows) /\ Cardinality(DOMAIN s.rows) = Len(s.rows)
  BY FS_Interval DEF IsRead

LEMMA SameRowsAre ==
    ASSUME NEW s, NEW t, NEW cols
    PROVE  SameRows(s, t, cols) <=>
              /\ Len(s.rows) = Len(t.rows)
              /\ \E f : Matching(f, NormRows(s.rows, cols), NormRows(t.rows, cols))
<1> DEFINE g == NormRows(s.rows, cols)
           h == NormRows(t.rows, cols)
<1>1. /\ DOMAIN g = DOMAIN s.rows /\ \A i \in DOMAIN s.rows : g[i] = NormRow(s.rows[i], cols)
      /\ DOMAIN h = DOMAIN t.rows /\ \A i \in DOMAIN t.rows : h[i] = NormRow(t.rows[i], cols)
  BY NormRowsAre
<1> HIDE DEF g, h
<1>2. ASSUME NEW f, Matching(f, g, h)
      PROVE  /\ f \in [DOMAIN s.rows -> DOMAIN t.rows]
             /\ \A i, j \in DOMAIN s.rows : i # j => f[i] # f[j]
             /\ \A i \in DOMAIN s.rows : NormRow(s.rows[i], cols) = NormRow(t.rows[f[i]], cols)
  BY <1>1, <1>2, Fun_InjectionProperties DEF Matching
<1>3. ASSUME NEW f \in [DOMAIN s.rows -> DOMAIN t.rows],
             \A i, j \in DOMAIN s.rows : i # j => f[i] # f[j],
             \A i \in DOMAIN s.rows : NormRow(s.rows[i], cols) = NormRow(t.rows[f[i]], cols)
      PROVE  Matching(f, g, h)
  BY <1>1, <1>3, Fun_IsInj DEF Matching
<1> QED
  BY <1>2, <1>3 DEF SameRows, g, h

\* What the property says of a verdict about rows.
Exact(d, s, t, cols) == /\ d.mode = "rows"
                        /\ d.equal <=> SameRows(s, t, cols)
                        /\ d.missing + d.targetRows = d.extra + d.sourceRows

LEMMA BagsAreExact ==
    ASSUME NEW s, NEW t, NEW cols, IsRead(s), IsRead(t)
    PROVE  Exact(CompareBags(s, t, cols), s, t, cols)
<1> DEFINE g == NormRows(s.rows, cols)
           h == NormRows(t.rows, cols)
<1>1. DOMAIN g = DOMAIN s.rows /\ DOMAIN h = DOMAIN t.rows
  BY NormRowsAre
<1>2. RowBag(s.rows, cols) = Counts(g) /\ RowBag(t.rows, cols) = Counts(h)
  BY NormRowsAre
<1>3. SameRows(s, t, cols) <=> Len(s.rows) = Len(t.rows) /\ \E f : Matching(f, g, h)
  BY SameRowsAre
<1> HIDE DEF g, h
<1> DEFINE X == Copies(Counts(g))
           Y == Copies(Counts(h))
<1>4. /\ IsFiniteSet(DOMAIN g) /\ Cardinality(DOMAIN g) = Len(s.rows) /\ Len(s.rows) \in Nat
      /\ IsFiniteSet(DOMAIN h) /\ Cardinality(DOMAIN h) = Len(t.rows) /\ Len(t.rows) \in Nat
  BY <1>1, ReadRows
<1>5. /\ IsFiniteSet(X) /\ Cardinality(X) = Len(s.rows)
      /\ IsFiniteSet(Y) /\ Cardinality(Y) = Len(t.rows)
  BY <1>4, CopiesCounted
<1>6. X = Y <=> SameRows(s, t, cols)
  <2>1. ASSUME X = Y PROVE Len(s.rows) = Len(t.rows) /\ \E f : Matching(f, g, h)
    BY <1>4, <1>5, <2>1, CountsMatch
  <2>2. ASSUME Len(s.rows) = Len(t.rows), NEW f, Matching(f, g, h) PROVE X = Y
    BY <1>4, <2>2, MatchCounts
  <2> QED
    BY <1>3, <2>1, <2>2
<1> DEFINE m == Cardinality(X \ Y)
           x == Cardinality(Y \ X)
           e == m + x = 0
<1>7. CompareBags(s, t, cols) = Verdict("rows", s, t, m, x, 0, e)
  BY <1>2 DEF CompareBags
<1>8. m + Len(t.rows) = x + Len(s.rows) /\ (m + x = 0 <=> X = Y)
  BY <1>5, DifferencesBalance
<1> DEFINE d == CompareBags(s, t, cols)
<1> HIDE DEF m, x, X, Y, d, e
<1>9. /\ d.mode = "rows" /\ d.missing = m /\ d.extra = x
      /\ d.sourceRows = Len(s.rows) /\ d.targetRows = Len(t.rows)
  BY <1>7, SMT DEF Verdict, d
<1>10. d.equal = e
  BY <1>7, SMT DEF Verdict, d
<1> QED
  BY <1>6, <1>8, <1>9, <1>10 DEF Exact, d, e

\* The rows differ in their normalised keys.
KeysApart(rows, key) ==
    \A i, j \in DOMAIN rows : i # j => NormRow(rows[i], key) # NormRow(rows[j], key)

KeysOf(rows, key) == {NormRow(rows[i], key) : i \in DOMAIN rows}
ByKeyRight(rows, key, cols) ==
    \A i \in DOMAIN rows :
        RowsByKey(rows, key, cols)[NormRow(rows[i], key)] = NormRow(rows[i], cols)

LEMMA ByKeyIs ==
    ASSUME NEW s, NEW key, NEW cols, IsRead(s), KeysApart(s.rows, key)
    PROVE  /\ DOMAIN RowsByKey(s.rows, key, cols) = KeysOf(s.rows, key)
           /\ ByKeyRight(s.rows, key, cols)
           /\ IsFiniteSet(DOMAIN RowsByKey(s.rows, key, cols))
           /\ Cardinality(DOMAIN RowsByKey(s.rows, key, cols)) = Len(s.rows)
<1> DEFINE rows == s.rows
           D == DOMAIN rows
           k(i) == NormRow(rows[i], key)
           R == RowsByKey(rows, key, cols)
           first(r) == CHOOSE i \in D : k(i) = r /\ \A j \in D : k(j) = r => i <= j
           K == {k(i) : i \in D}
<1>1. R = [r \in K |-> NormRow(rows[first(r)], cols)]
  BY DEF RowsByKey
<1>2. \A i, j \in D : k(i) = k(j) => i = j
  BY DEF KeysApart
<1>3. D \in SUBSET Nat
  BY DEF IsRead
<1> HIDE DEF k, D, rows, R
<1>4. ASSUME NEW i \in D PROVE first(k(i)) = i
  <2>1. i <= i
    BY <1>3
  <2>2. k(i) = k(i) /\ \A j \in D : k(j) = k(i) => i <= j
    BY <1>2, <2>1
  <2>3. \E x \in D : k(x) = k(i) /\ \A j \in D : k(j) = k(i) => x <= j
    BY <2>2
  <2>4. first(k(i)) \in D /\ k(first(k(i))) = k(i)
    BY <2>3
  <2> HIDE DEF first
  <2> QED
    BY <1>2, <2>4
<1> HIDE DEF first
<1>5. DOMAIN R = K
  BY <1>1
<1>6. \A i \in D : R[k(i)] = NormRow(rows[i], cols)
  BY <1>1, <1>4
<1> DEFINE b == [i \in D |-> k(i)]
<1>7. b \in Bijection(D, K)
  <2>1. b \in [D -> K] /\ (\A i, j \in D : b[i] = b[j] => i = j) /\ \A r \in K : \E i \in D : b[i] = r
    BY <1>2
  <2> HIDE DEF b, K
  <2> QED
    BY <2>1, Fun_IsBij
<1>8. IsFiniteSet(D) /\ Cardinality(D) = Len(s.rows)
  BY ReadRows DEF D, rows
<1>9. IsFiniteSet(K) /\ Cardinality(K) = Len(s.rows)
  <2> HIDE DEF K, b
  <2> QED
    BY <1>7, <1>8, FS_Bijection DEF ExistsBijection
<1> QED
  BY <1>5, <1>6, <1>9 DEF K, k, R, D, rows, KeysOf, ByKeyRight

LEMMA KeyInContent ==
    ASSUME NEW r, NEW q, NEW key, NEW cols, key \subseteq cols, NormRow(r, cols) = NormRow(q, cols)
    PROVE  NormRow(r, key) = NormRow(q, key)
<1>1. \A c \in cols : Norm[r[c]] = Norm[q[c]]
  <2> TAKE c \in cols
  <2>1. NormRow(r, cols)[c] = Norm[r[c]] /\ NormRow(q, cols)[c] = Norm[q[c]]
    BY DEF NormRow
  <2> QED
    BY <2>1
<1> QED
  BY <1>1 DEF NormRow

LEMMA KeyIsExact ==
    ASSUME NEW s, NEW t, NEW key, NEW cols, key \subseteq cols, IsRead(s), IsRead(t),
           KeysApart(s.rows, key), KeysApart(t.rows, key)
    PROVE  Exact(CompareByKey(s, t, key, cols), s, t, cols)
<1> DEFINE src == RowsByKey(s.rows, key, cols)
           tgt == RowsByKey(t.rows, key, cols)
           ks(i) == NormRow(s.rows[i], key)
           kt(i) == NormRow(t.rows[i], key)
           cs(i) == NormRow(s.rows[i], cols)
           ct(i) == NormRow(t.rows[i], cols)
           S == DOMAIN s.rows
           T == DOMAIN t.rows
<1>1. /\ DOMAIN src = KeysOf(s.rows, key) /\ \A i \in S : src[ks(i)] = cs(i)
      /\ IsFiniteSet(DOMAIN src) /\ Cardinality(DOMAIN src) = Len(s.rows)
  <2>1. DOMAIN src = KeysOf(s.rows, key)
    BY ByKeyIs
  <2>2. ByKeyRight(s.rows, key, cols)
    BY ByKeyIs
  <2>3. IsFiniteSet(DOMAIN src) /\ Cardinality(DOMAIN src) = Len(s.rows)
    BY ByKeyIs
  <2> QED
    BY <2>1, <2>2, <2>3 DEF ByKeyRight
<1>2. /\ DOMAIN tgt = KeysOf(t.rows, key) /\ \A i \in T : tgt[kt(i)] = ct(i)
      /\ IsFiniteSet(DOMAIN tgt) /\ Cardinality(DOMAIN tgt) = Len(t.rows)
  <2>1. DOMAIN tgt = KeysOf(t.rows, key)
    BY ByKeyIs
  <2>2. ByKeyRight(t.rows, key, cols)
    BY ByKeyIs
  <2>3. IsFiniteSet(DOMAIN tgt) /\ Cardinality(DOMAIN tgt) = Len(t.rows)
    BY ByKeyIs
  <2> QED
    BY <2>1, <2>2, <2>3 DEF ByKeyRight
<1>k. KeysOf(s.rows, key) = {ks(i) : i \in S} /\ KeysOf(t.rows, key) = {kt(i) : i \in T}
  BY DEF KeysOf
<1>3. /\ \A i, j \in S : ks(i) = ks(j) => i = j
      /\ \A i, j \in T : kt(i) = kt(j) => i = j
  BY DEF KeysApart
<1>4. \A i \in S, j \in T : cs(i) = ct(j) => ks(i) = kt(j)
  BY KeyInContent
<1>5. /\ IsFiniteSet(S) /\ Cardinality(S) = Len(s.rows) /\ Len(s.rows) \in Nat
      /\ IsFiniteSet(T) /\ Cardinality(T) = Len(t.rows) /\ Len(t.rows) \in Nat
  BY ReadRows
<1> DEFINE missing == DOMAIN src \ DOMAIN tgt
           extra == DOMAIN tgt \ DOMAIN src
           changed == {k \in DOMAIN src \cap DOMAIN tgt : src[k] # tgt[k]}
           m == Cardinality(missing)
           x == Cardinality(extra)
           c == Cardinality(changed)
           e == missing \cup extra \cup changed = {}
           d == CompareByKey(s, t, key, cols)
<1>6. d = Verdict("rows", s, t, m, x, c, e)
  BY DEF CompareByKey
<1>7. m + Len(t.rows) = x + Len(s.rows)
  <2> HIDE DEF src, tgt
  <2> QED
    BY <1>1, <1>2, DifferencesBalance
<1>8. e => SameRows(s, t, cols)
  <2> SUFFICES ASSUME e PROVE SameRows(s, t, cols)
    OBVIOUS
  <2>1. DOMAIN src = DOMAIN tgt /\ \A k \in DOMAIN src : src[k] = tgt[k]
    OBVIOUS
  <2>2. Len(s.rows) = Len(t.rows)
    BY <1>1, <1>2, <2>1
  <2> DEFINE f == [i \in S |-> CHOOSE j \in T : kt(j) = ks(i)]
  <2>3. \A i \in S : f[i] \in T /\ kt(f[i]) = ks(i)
    <3> SUFFICES ASSUME NEW i \in S PROVE \E j \in T : kt(j) = ks(i)
      OBVIOUS
    <3> HIDE DEF src, tgt, ks, kt, cs, ct, S, T
    <3> QED
      BY <1>1, <1>2, <1>k, <2>1
  <2>4. f \in [S -> T]
    BY <2>3
  <2> HIDE DEF f, ks, kt, cs, ct, S, T, src, tgt
  <2>5. \A i, j \in S : i # j => f[i] # f[j]
    BY <1>3, <2>3
  <2>6. \A i \in S : cs(i) = ct(f[i])
    <3> TAKE i \in S
    <3>1. src[ks(i)] = cs(i) /\ tgt[kt(f[i])] = ct(f[i]) /\ ks(i) \in DOMAIN src
      BY <1>1, <1>2, <1>k, <2>3
    <3> QED
      BY <2>1, <2>3, <3>1
  <2> QED
    BY <2>2, <2>4, <2>5, <2>6 DEF SameRows, cs, ct, S, T
<1>9. SameRows(s, t, cols) => e
  <2> SUFFICES ASSUME SameRows(s, t, cols) PROVE e
    OBVIOUS
  <2> HIDE DEF src, tgt, ks, kt, cs, ct, S, T
  <2>1. PICK f \in [S -> T] : /\ \A i, j \in S : i # j => f[i] # f[j]
                              /\ \A i \in S : cs(i) = ct(f[i])
    BY DEF SameRows, cs, ct, S, T
  <2>2. f \in Injection(S, T)
    BY <2>1, Fun_IsInj
  <2>3. Len(s.rows) = Len(t.rows)
    BY DEF SameRows
  <2>4. \A j \in T : \E i \in S : f[i] = j
    BY <1>5, <2>2, <2>3, FS_Injection, Fun_SurjectionProperties
  <2>5. \A i \in S : ks(i) = kt(f[i])
    BY <1>4, <2>1
  <2>6. DOMAIN src = DOMAIN tgt
    BY <1>1, <1>2, <1>k, <2>4, <2>5
  <2>7. ASSUME NEW k \in DOMAIN src PROVE src[k] = tgt[k]
    <3>1. PICK i \in S : k = ks(i)
      BY <1>1, <1>k
    <3>2. src[k] = cs(i)
      BY <1>1, <3>1
    <3>3. tgt[k] = ct(f[i])
      BY <1>2, <2>5, <3>1
    <3> QED
      BY <2>1, <3>2, <3>3
  <2> QED
    BY <2>6, <2>7
<1> HIDE DEF m, x, c, e, d
<1>10. /\ d.mode = "rows" /\ d.missing = m /\ d.extra = x
       /\ d.sourceRows = Len(s.rows) /\ d.targetRows = Len(t.rows)
  BY <1>6, SMT DEF Verdict
<1>11. d.equal = e
  BY <1>6, SMT DEF Verdict
<1> QED
  BY <1>7, <1>8, <1>9, <1>10, <1>11 DEF Exact, d

(***************************************************************************)
(* The verdicts of a task.                                                 *)
(***************************************************************************)
Keyed(table) == table.key # <<>> => KeysApart(table.rows, Elements(table.key))

\* The rows of a table with a key differ in it, also after normalisation.
KeysDiffer ==
    \A t \in Tasks : \A i \in 1..Len(t.pairs) :
        /\ \A n \in DOMAIN t.source[t.pairs[i].source] : Keyed(t.source[t.pairs[i].source][n])
        /\ \A n \in DOMAIN t.target[t.pairs[i].target] : Keyed(t.target[t.pairs[i].target][n])

\* Columns are ignored in general, or by one alias of the bare table name.
IgnoresPlain ==
    \A t \in Tasks : \A i \in DOMAIN t.aliases :
        t.aliases[i].ignore # {} =>
            /\ t.aliases[i].db = AnyDb
            /\ \A j \in DOMAIN t.aliases :
                  /\ t.aliases[j].ignore # {}
                  /\ Fold[t.aliases[j].source] = Fold[t.aliases[i].source]
                  => i = j

LEMMA IgnoredAsMeant ==
    ASSUME IgnoresPlain, TaskIsOne, NEW db, NEW n
    PROVE  IgnoredIn(n) = MeantIgnored(db, n)
<1> DEFINE al == task.aliases
           own == {i \in DOMAIN al : /\ al[i].db = AnyDb
                                     /\ Fold[al[i].source] = Fold[n]
                                     /\ al[i].ignore # {}}
           last == {i \in own : \A j \in own : j <= i}
           meant == {i \in DOMAIN al : /\ al[i].db \in {AnyDb, db}
                                       /\ Fold[al[i].source] = Fold[n]}
<1>1. DOMAIN al \in SUBSET Nat
  BY TasksAssumption DEF TaskIsOne
<1>2. \A i \in DOMAIN al : al[i].ignore # {} =>
         /\ al[i].db = AnyDb
         /\ \A j \in DOMAIN al : al[j].ignore # {} /\ Fold[al[j].source] = Fold[al[i].source] => i = j
  BY DEF IgnoresPlain, TaskIsOne
<1> HIDE DEF al
<1>3. \A i, j \in own : i = j
  BY <1>2
<1>4. last = own
  BY <1>1, <1>3
<1>5. own \subseteq meant /\ \A i \in meant : i \in own \/ al[i].ignore = {}
  BY <1>2
<1> HIDE DEF own, last, meant
<1>6. UNION {al[i].ignore : i \in last} = UNION {al[i].ignore : i \in meant}
  BY <1>4, <1>5
<1> QED
  BY <1>6 DEF IgnoredIn, MeantIgnored, al, own, last, meant

\* What the data verdict says about two tables.
Tells(d, s, t, cols) ==
    /\ d.mode \in {"rows", "count"}
    /\ d.mode = "rows" => /\ cols # {} => Exact(d, s, t, cols)
                          /\ cols = {} => ~d.equal
    /\ d.mode = "count" => /\ d.equal => Len(s.rows) = Len(t.rows)
                           /\ OverThreshold(s, t)

LEMMA DataTells ==
    ASSUME NEW s, NEW t, NEW ign, IsRead(s), IsRead(t), Keyed(s), Keyed(t)
    PROVE  Tells(CompareData(s, t, ign), s, t, Content(s, t, ign))
<1> DEFINE d == CompareData(s, t, ign)
           key == KeyColumns(s, t)
           cols == Content(s, t, ign)
           e == Len(s.rows) = Len(t.rows)
<1>1. CASE OverThreshold(s, t)
  <2> HIDE DEF e
  <2>1. CompareData(s, t, ign) = Verdict("count", s, t, 0, 0, 0, e)
    BY <1>1 DEF CompareData, e
  <2> HIDE DEF d
  <2>2. d.mode = "count" /\ d.equal = e
    BY <2>1, SMT DEF Verdict, d
  <2> QED
    BY <1>1, <2>2 DEF Tells, d, e
<1>2. CASE ~OverThreshold(s, t) /\ cols = {}
  <2>1. d = Verdict("rows", s, t, 0, 0, 0, FALSE)
    BY <1>2 DEF CompareData
  <2> HIDE DEF d, cols
  <2>2. d.mode = "rows" /\ ~d.equal
    BY <2>1, SMT DEF Verdict
  <2> QED
    BY <1>2, <2>2 DEF Tells, d, cols
<1>3. CASE ~OverThreshold(s, t) /\ cols # {} /\ key # <<>>
  <2>1. d = CompareByKey(s, t, Elements(key), cols)
    BY <1>3 DEF CompareData
  <2>2. key = s.key /\ key = t.key
    BY <1>3 DEF KeyColumns
  <2>3. KeysApart(s.rows, Elements(key)) /\ KeysApart(t.rows, Elements(key))
    BY <1>3, <2>2 DEF Keyed
  <2>4. Elements(key) \subseteq cols
    BY DEF Content
  <2> HIDE DEF d, cols, key
  <2>5. Exact(d, s, t, cols)
    BY <2>1, <2>3, <2>4, KeyIsExact
  <2>6. d.mode = "rows"
    BY <2>5 DEF Exact
  <2> QED
    BY <1>3, <2>5, <2>6 DEF Tells, d, cols
<1>4. CASE ~OverThreshold(s, t) /\ cols # {} /\ key = <<>>
  <2>1. d = CompareBags(s, t, cols)
    BY <1>4 DEF CompareData
  <2> HIDE DEF d, cols, key
  <2>5. Exact(d, s, t, cols)
    BY <2>1, BagsAreExact
  <2>6. d.mode = "rows"
    BY <2>5 DEF Exact
  <2> QED
    BY <1>4, <2>5, <2>6 DEF Tells, d, cols
<1> QED
  BY <1>1, <1>2, <1>3, <1>4

\* The tables a result is about, as they were read.
LEMMA ResultTables ==
    ASSUME KeysDiffer, TaskIsOne, NEW i \in 1..N, NEW p \in PairsOf(i), NoName \notin {p.src, p.tgt}
    PROVE  LET s == task.source[task.pairs[i].source][p.src]
               t == task.target[task.pairs[i].target][p.tgt]
           IN  IsRead(s) /\ IsRead(t) /\ Keyed(s) /\ Keyed(t)
<1>1. SourceListed(i) \in SUBSET Names /\ TargetListed(i) \in SUBSET Names
  BY TasksAssumption DEF TaskIsOne, SourceListed, TargetListed, Listed, N
<1>2. p.src \in SourceListed(i) /\ p.tgt \in TargetListed(i)
  BY <1>1, PairsOfListed DEF PairsOf
<1>3. /\ p.src \in DOMAIN task.source[task.pairs[i].source]
      /\ p.tgt \in DOMAIN task.target[task.pairs[i].target]
  BY <1>2 DEF SourceListed, TargetListed, Listed
<1> QED
  BY <1>3, TasksAssumption DEF TaskIsOne, KeysDiffer, N

RightColumns(x) == results[x].columns = "same" => SameColumns(TablesOf(x).s, TablesOf(x).t)
RightData(x) ==
    \/ results[x].data = NoData
    \/ results[x].data = Skipped(TablesOf(x).s, TablesOf(x).t)
    \/ results[x].data = CompareData(TablesOf(x).s, TablesOf(x).t, IgnoredIn(x[2].src))

\* Every verdict is what was computed of its two tables; so is the structure
\* verdict of the open pair.
VerdictsMade == \A x \in DOMAIN results : Both(x) => RightColumns(x) /\ RightData(x)
OpenRight == step \in {"structure", "data"} =>
                /\ NoName \notin {cur.src, cur.tgt}
                /\ columns = "same" => SameColumns(Source, Target)
VInv == VerdictsMade /\ OpenRight

LEMMA VerdictKept ==
    ASSUME VerdictsMade, NEW p, NEW c, NEW d, Report(p, c, d), task' = task, at' = at,
           NoName \notin {p.src, p.tgt} =>
              /\ c = "same" => SameColumns(TablesOf(<<at, p>>).s, TablesOf(<<at, p>>).t)
              /\ \/ d = NoData
                 \/ d = Skipped(TablesOf(<<at, p>>).s, TablesOf(<<at, p>>).t)
                 \/ d = CompareData(TablesOf(<<at, p>>).s, TablesOf(<<at, p>>).t, IgnoredIn(p.src))
    PROVE  VerdictsMade'
<1>1. DOMAIN results' = DOMAIN results \cup {<<at, p>>}
  BY DEF Report
<1>2. \A x \in DOMAIN results' : results'[x] = IF x = <<at, p>> THEN Outcome(c, d) ELSE results[x]
  BY DEF Report
<1>3. Outcome(c, d).columns = c /\ Outcome(c, d).data = d
  BY DEF Outcome
<1>4. ASSUME NEW x PROVE TablesOf(x)' = TablesOf(x) /\ Both(x)' = Both(x)
  BY DEF TablesOf, MeantIgnored, Both
<1>5. ASSUME NEW n PROVE IgnoredIn(n)' = IgnoredIn(n)
  BY DEF IgnoredIn
<1>6. ASSUME NEW s, NEW t, NEW g PROVE CompareData(s, t, g)' = CompareData(s, t, g)
  BY DEF CompareData, OverThreshold
<1> SUFFICES ASSUME NEW x \in DOMAIN results', Both(x) PROVE RightColumns(x)' /\ RightData(x)'
  BY <1>4 DEF VerdictsMade
<1>7. CASE x = <<at, p>>
  <2>1. x[2] = p /\ results'[x].columns = c /\ results'[x].data = d
    BY <1>2, <1>3, <1>7
  <2>2. NoName \notin {p.src, p.tgt}
    BY <2>1 DEF Both
  <2>3. (c = "same" => SameColumns(TablesOf(x).s, TablesOf(x).t)) = RightColumns(x)'
    BY <1>4, <2>1 DEF RightColumns
  <2>4. RightData(x)' = ( \/ d = NoData
                          \/ d = Skipped(TablesOf(x).s, TablesOf(x).t)
                          \/ d = CompareData(TablesOf(x).s, TablesOf(x).t, IgnoredIn(x[2].src)) )
    BY <1>4, <1>5, <1>6, <2>1 DEF RightData
  <2> QED
    BY <1>7, <2>1, <2>2, <2>3, <2>4
<1>8. CASE x # <<at, p>>
  <2>1. x \in DOMAIN results /\ results'[x] = results[x]
    BY <1>1, <1>2, <1>8
  <2>2. RightColumns(x) /\ RightData(x)
    BY <2>1 DEF VerdictsMade
  <2>3. RightColumns(x)' = RightColumns(x)
    BY <1>4, <2>1 DEF RightColumns
  <2>4. RightData(x)' = RightData(x)
    BY <1>4, <1>5, <1>6, <2>1 DEF RightData
  <2> QED
    BY <2>2, <2>3, <2>4
<1> QED
  BY <1>7, <1>8

\* The end of the open table with a verdict about it.
LEMMA EndTableVerdict ==
    ASSUME VInv, step \in {"structure", "data"}, NEW c, NEW d, EndTable(c, d),
           c = "same" => SameColumns(Source, Target),
           \/ d = NoData \/ d = Skipped(Source, Target)
           \/ d = CompareData(Source, Target, IgnoredIn(cur.src))
    PROVE  VInv'
<1>1. /\ Report(cur, c, d) /\ step' = "next" /\ task' = task /\ at' = at
  BY DEF EndTable
<1>2. TablesOf(<<at, cur>>).s = Source /\ TablesOf(<<at, cur>>).t = Target
  BY DEF TablesOf, Source, Target, SourceDb, TargetDb
<1>3. VerdictsMade'
  BY <1>1, <1>2, VerdictKept DEF VInv
<1> QED
  BY <1>1, <1>3 DEF VInv, OpenRight

LEMMA InitVInv == Init => VInv
  BY DEF Init, VInv, VerdictsMade, OpenRight

LEMMA NextVInv == VInv /\ [Next]_vars => VInv'
<1> SUFFICES ASSUME VInv, [Next]_vars PROVE VInv'
  OBVIOUS
<1>a. ASSUME task' = task, results' = results PROVE VerdictsMade'
  <2>1. ASSUME NEW x PROVE TablesOf(x)' = TablesOf(x) /\ Both(x)' = Both(x)
    BY <1>a DEF TablesOf, MeantIgnored, Both
  <2>2. ASSUME NEW n PROVE IgnoredIn(n)' = IgnoredIn(n)
    BY <1>a DEF IgnoredIn
  <2>3. ASSUME NEW s, NEW t, NEW g PROVE CompareData(s, t, g)' = CompareData(s, t, g)
    BY <1>a DEF CompareData, OverThreshold
  <2>4. ASSUME NEW x PROVE RightColumns(x)' = RightColumns(x) /\ RightData(x)' = RightData(x)
    BY <1>a, <2>1, <2>2, <2>3 DEF RightColumns, RightData
  <2> QED
    BY <1>a, <2>1, <2>4 DEF VerdictsMade, VInv
<1>1. CASE ListTables \/ ListFails \/ NextDatabase
  <2>1. task' = task /\ results' = results /\ step' \notin {"structure", "data"}
    BY <1>1 DEF ListTables, ListFails, NextDatabase
  <2> QED
    BY <1>a, <2>1 DEF VInv, OpenRight
<1>2. CASE TakeOneSided
  <2>1. PICK p \in todo : NoName \in {p.src, p.tgt} /\ Report(p, "none", NoData)
    BY <1>2 DEF TakeOneSided
  <2>2. step = "next" /\ step' = step /\ task' = task /\ at' = at
    BY <1>2 DEF TakeOneSided
  <2>3. VerdictsMade'
    BY <2>1, <2>2, VerdictKept DEF VInv
  <2> QED
    BY <2>2, <2>3 DEF VInv, OpenRight
<1>3. CASE TakePair
  <2>1. PICK p \in todo : NoName \notin {p.src, p.tgt} /\ cur' = p
    BY <1>3 DEF TakePair
  <2>2. task' = task /\ results' = results /\ columns' = "none"
    BY <1>3 DEF TakePair
  <2> QED
    BY <1>a, <2>1, <2>2 DEF VInv, OpenRight
<1>4. CASE CompareStructure
  <2>1. PICK v \in {"none", "same", "diff"} :
           /\ v = "same" => SameColumns(Source, Target)
           /\ \/ EndTable(v, NoData)
              \/ EndTable(v, Skipped(Source, Target))
              \/ /\ columns' = v /\ step' = "data"
                 /\ UNCHANGED <<task, at, todo, cur, results, cancelled>>
    BY <1>4 DEF CompareStructure
  <2>2. step = "structure"
    BY <1>4 DEF CompareStructure
  <2>3. CASE EndTable(v, NoData) \/ EndTable(v, Skipped(Source, Target))
    BY <2>1, <2>2, <2>3, EndTableVerdict
  <2>4. CASE columns' = v /\ step' = "data" /\ UNCHANGED <<task, at, todo, cur, results, cancelled>>
    <3>1. Source' = Source /\ Target' = Target
      BY <2>4 DEF Source, Target, SourceDb, TargetDb
    <3> QED
      BY <1>a, <2>1, <2>2, <2>4, <3>1 DEF VInv, OpenRight
  <2> QED
    BY <2>1, <2>3, <2>4
<1>5. CASE NothingToCompare \/ RowsFail
  <2>1. step = "data" /\ EndTable(columns, NoData)
    BY <1>5 DEF NothingToCompare, RowsFail
  <2> QED
    BY <2>1, EndTableVerdict DEF VInv, OpenRight
<1>6. CASE CompareRows
  <2>1. step = "data" /\ EndTable(columns, CompareData(Source, Target, IgnoredIn(cur.src)))
    BY <1>6 DEF CompareRows
  <2> QED
    BY <2>1, EndTableVerdict DEF VInv, OpenRight
<1>7. CASE Cancel \/ UNCHANGED vars
  <2>1. UNCHANGED <<task, at, todo, cur, step, columns, results>>
    BY <1>7 DEF Cancel, vars
  <2>2. Source' = Source /\ Target' = Target
    BY <2>1 DEF Source, Target, SourceDb, TargetDb
  <2> QED
    BY <1>a, <2>1, <2>2 DEF VInv, OpenRight
<1> QED
  BY <1>1, <1>2, <1>3, <1>4, <1>5, <1>6, <1>7 DEF Next, Work

LEMMA VInvHolds == Spec => []VInv
  BY InitVInv, NextVInv, PTL DEF Spec

LEMMA VerdictsFollow == KeysDiffer /\ IgnoresPlain /\ IInv /\ VInv => VerdictSound
<1> SUFFICES ASSUME KeysDiffer, IgnoresPlain, IInv, VInv PROVE VerdictSound
  OBVIOUS
<1>1. ASSUME NEW x \in DOMAIN results, Both(x)
      PROVE  LET s == TablesOf(x).s
                 t == TablesOf(x).t
                 ign == TablesOf(x).ignore
                 d == results[x].data
             IN  /\ results[x].columns = "same" => SameColumns(s, t)
                 /\ IsRead(s) /\ IsRead(t)
                 /\ \/ d = NoData \/ d = Skipped(s, t)
                    \/ Tells(d, s, t, Content(s, t, ign))
  <2> DEFINE s == TablesOf(x).s
             t == TablesOf(x).t
             ign == TablesOf(x).ignore
             d == results[x].data
  <2>1. x[1] \in 1..N /\ x[2] \in PairsOf(x[1])
    BY DEF IInv, ReportsPaired
  <2>2. NoName \notin {x[2].src, x[2].tgt}
    BY <1>1 DEF Both
  <2>3. /\ s = task.source[task.pairs[x[1]].source][x[2].src]
        /\ t = task.target[task.pairs[x[1]].target][x[2].tgt]
        /\ ign = MeantIgnored(task.pairs[x[1]].source, x[2].src)
    BY DEF TablesOf
  <2>4. IsRead(s) /\ IsRead(t) /\ Keyed(s) /\ Keyed(t)
    BY <2>1, <2>2, <2>3, ResultTables DEF IInv
  <2>5. ign = IgnoredIn(x[2].src)
    BY <2>3, IgnoredAsMeant DEF IInv
  <2>6. RightColumns(x) /\ RightData(x)
    BY <1>1 DEF VInv, VerdictsMade
  <2>7. d = NoData \/ d = Skipped(s, t) \/ d = CompareData(s, t, ign)
    BY <2>5, <2>6 DEF RightData
  <2>8. results[x].columns = "same" => SameColumns(s, t)
    BY <2>6 DEF RightColumns
  <2> HIDE DEF s, t, ign, d
  <2>9. Tells(CompareData(s, t, ign), s, t, Content(s, t, ign))
    BY <2>4, DataTells
  <2> QED
    BY <2>4, <2>7, <2>8, <2>9 DEF s, t, ign, d
<1>2. ASSUME NEW s, NEW t PROVE Skipped(s, t).mode = "skipped" /\ ~Skipped(s, t).equal
  BY DEF Skipped, Verdict
<1>3. VerdictExact
  <2> SUFFICES ASSUME NEW x \in DOMAIN results, Both(x), results[x].data # NoData,
                      results[x].data.mode = "rows"
               PROVE  LET d == results[x].data
                          tables == TablesOf(x)
                          cols == Content(tables.s, tables.t, tables.ignore)
                      IN  /\ cols # {} => /\ d.equal <=> SameRows(tables.s, tables.t, cols)
                                          /\ d.missing + d.targetRows = d.extra + d.sourceRows
                          /\ cols = {} => ~d.equal
    BY DEF VerdictExact
  <2>1. Tells(results[x].data, TablesOf(x).s, TablesOf(x).t,
              Content(TablesOf(x).s, TablesOf(x).t, TablesOf(x).ignore))
    BY <1>1, <1>2
  <2> QED
    BY <2>1 DEF Tells, Exact
<1>4. MatchedIsTheSame
  <2> SUFFICES ASSUME NEW x \in Matched
               PROVE  LET s == TablesOf(x).s
                          t == TablesOf(x).t
                      IN  /\ results[x].columns # "none" => SameColumns(s, t)
                          /\ results[x].data # NoData =>
                                /\ Len(s.rows) = Len(t.rows)
                                /\ Len(s.rows) <= task.threshold =>
                                      SameRows(s, t, Content(s, t, TablesOf(x).ignore))
    BY DEF MatchedIsTheSame
  <2> DEFINE s == TablesOf(x).s
             t == TablesOf(x).t
             cols == Content(s, t, TablesOf(x).ignore)
             d == results[x].data
  <2>1. x \in DOMAIN results /\ Both(x) /\ results[x].columns # "diff" /\ DataAgrees(results[x])
    BY DEF Matched
  <2>2. results[x].columns \in {"none", "same", "diff"}
    BY <2>1 DEF IInv, ReportsPaired
  <2>3. results[x].columns # "none" => SameColumns(s, t)
    BY <1>1, <2>1, <2>2
  <2>4. ASSUME d # NoData PROVE Tells(d, s, t, cols) /\ d.equal
    BY <1>1, <1>2, <2>1, <2>4 DEF DataAgrees
  <2>5. Len(s.rows) \in Nat /\ Len(t.rows) \in Nat /\ task.threshold \in Nat
    BY <1>1, <2>1, TasksAssumption DEF IsRead, IInv, TaskIsOne
  <2> HIDE DEF s, t, cols, d
  <2>6. ASSUME d # NoData
        PROVE  Len(s.rows) = Len(t.rows) /\ (Len(s.rows) <= task.threshold => SameRows(s, t, cols))
    <3>1. CASE d.mode = "rows"
      BY <2>4, <2>6, <3>1 DEF Tells, Exact, SameRows
    <3>2. CASE d.mode = "count"
      BY <2>4, <2>5, <2>6, <3>2 DEF Tells, OverThreshold
    <3> QED
      BY <2>4, <2>6, <3>1, <3>2 DEF Tells
  <2> QED
    BY <2>3, <2>6 DEF s, t, cols, d
<1> QED
  BY <1>3, <1>4 DEF VerdictSound

\* When the rows of every keyed table differ in their keys, and columns are
\* ignored in general or by one alias of a bare name, every data verdict says
\* exactly whether the rows are the same, and a matched table is the same.
THEOREM VerdictsAreSound == ASSUME KeysDiffer, IgnoresPlain PROVE Spec => []VerdictSound
<1>1. IInv /\ VInv => VerdictSound
  BY VerdictsFollow
<1> QED
  BY <1>1, InvariantHolds, VInvHolds, PTL

=============================================================================
