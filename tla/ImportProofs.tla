---------------------------- MODULE ImportProofs ----------------------------
(***************************************************************************)
(* What is proved of the import of data packages, for any imports,          *)
(* databases, keys and values: what was applied can be undone at every      *)
(* step, from what was collected and from the files written.                *)
(***************************************************************************)
EXTENDS DataImport, FiniteSetTheorems, FunctionTheorems, SequenceTheorems,
        WellFoundedInduction, TLAPS

LEMMA NumberInduction ==
    ASSUME NEW S, 0 \in S, \A n \in Nat : n \in S => n + 1 \in S
    PROVE  Nat \subseteq S
<1> SUFFICES ASSUME NEW bad \in Nat, bad \notin S PROVE FALSE
  OBVIOUS
<1> DEFINE T == {0 .. n : n \in Nat \ S}
<1>1. T \subseteq FiniteSubsetsOf(Nat) /\ T # {}
  <2>1. ASSUME NEW n \in Nat
        PROVE  0 .. n \in FiniteSubsetsOf(Nat)
    BY FS_Interval DEF FiniteSubsetsOf
  <2> QED
    BY <2>1
<1>2. PICK x \in T : \A y \in T : ~(<<y, x>> \in StrictSubsetOrdering(Nat))
  BY <1>1, FS_StrictSubsetOrderingWellFounded, WFMin
<1>3. PICK n \in Nat \ S : x = 0 .. n
  OBVIOUS
<1>4. n # 0 /\ n - 1 \in Nat /\ n - 1 \notin S
  <2>1. n # 0 /\ n - 1 \in Nat /\ (n - 1) + 1 = n
    BY <1>3
  <2> QED
    BY <1>3, <2>1
<1>5. 0 .. (n - 1) \in T /\ 0 .. (n - 1) \in SUBSET Nat /\ 0 .. n \in SUBSET Nat
  BY <1>4
<1>6. 0 .. (n - 1) \subseteq 0 .. n /\ n \in 0 .. n /\ n \notin 0 .. (n - 1)
  BY <1>4
<1>7. <<0 .. (n - 1), 0 .. n>> \in StrictSubsetOrdering(Nat)
  BY <1>5, <1>6 DEF StrictSubsetOrdering
<1> QED
  BY <1>2, <1>3, <1>5, <1>7


-----------------------------------------------------------------------------
(* Replaying statements: Replay takes the last value of a run, of which there *)
(* is exactly one.                                                           *)
RunTo(run, c, s, n) ==
    /\ run = [i \in 0 .. n |-> run[i]]
    /\ run[0] = [ok |-> TRUE, content |-> c]
    /\ \A i \in 1 .. n : run[i] = Perform(run[i - 1], s[i])

LEMMA RunExists == ASSUME NEW c, NEW s, NEW len \in Nat PROVE \E run : RunTo(run, c, s, len)
<1> DEFINE S == {n \in Nat : \E run : RunTo(run, c, s, n)}
<1>1. 0 \in S
  <2> DEFINE f == [i \in 0 .. 0 |-> [ok |-> TRUE, content |-> c]]
  <2>1. RunTo(f, c, s, 0)
    BY DEF RunTo
  <2> QED
    BY <2>1
<1>2. ASSUME NEW n \in Nat, n \in S PROVE n + 1 \in S
  <2>1. PICK g : RunTo(g, c, s, n)
    BY <1>2
  <2> DEFINE f == [i \in 0 .. n + 1 |-> IF i = n + 1 THEN Perform(g[n], s[n + 1]) ELSE g[i]]
  <2>2. f[n + 1] = Perform(g[n], s[n + 1]) /\ (\A i \in 0 .. n : f[i] = g[i]) /\ f = [i \in 0 .. n + 1 |-> f[i]]
    OBVIOUS
  <2> HIDE DEF f
  <2>3. ASSUME NEW i \in 1 .. n + 1 PROVE f[i] = Perform(f[i - 1], s[i])
    <3>1. CASE i = n + 1
      <4>1. i - 1 = n /\ n \in 0 .. n
        BY <3>1
      <4> QED
        BY <2>2, <3>1, <4>1
    <3>2. CASE i # n + 1
      <4>1. i \in 1 .. n /\ i \in 0 .. n /\ i - 1 \in 0 .. n
        BY <3>2
      <4> QED
        BY <2>1, <2>2, <4>1 DEF RunTo
    <3> QED
      BY <3>1, <3>2
  <2>4. f[0] = [ok |-> TRUE, content |-> c]
    <3>1. 0 \in 0 .. n
      OBVIOUS
    <3> QED
      BY <2>1, <2>2, <3>1 DEF RunTo
  <2>5. RunTo(f, c, s, n + 1)
    BY <2>2, <2>3, <2>4 DEF RunTo
  <2> QED
    BY <2>5
<1> HIDE DEF S
<1>3. len \in S
  BY <1>1, <1>2, NumberInduction
<1> QED
  BY <1>3 DEF S

LEMMA RunUnique == ASSUME NEW c, NEW s, NEW len \in Nat, NEW f, NEW g, RunTo(f, c, s, len), RunTo(g, c, s, len)
                   PROVE  f = g
<1> DEFINE S == {n \in Nat : n <= len => f[n] = g[n]}
<1>1. 0 \in S
  BY DEF RunTo
<1>2. ASSUME NEW n \in Nat, n \in S PROVE n + 1 \in S
  <2> SUFFICES ASSUME n + 1 <= len PROVE f[n + 1] = g[n + 1]
    OBVIOUS
  <2>1. n + 1 \in 1 .. len /\ f[n] = g[n] /\ (n + 1) - 1 = n
    BY <1>2
  <2> QED
    BY <2>1 DEF RunTo
<1> HIDE DEF S
<1>3. Nat \subseteq S
  BY <1>1, <1>2, NumberInduction
<1>4. \A n \in 0 .. len : f[n] = g[n]
  BY <1>3 DEF S
<1> QED
  BY <1>4 DEF RunTo

LEMMA ReplayIsLast == ASSUME NEW c, NEW s, Len(s) \in Nat, NEW f, RunTo(f, c, s, Len(s))
                      PROVE  Replay(c, s) = f[Len(s)]
<1> DEFINE Turn(run) == [n \in 0 .. Len(s) |-> IF n = 0 THEN [ok |-> TRUE, content |-> c]
                                               ELSE Perform(run[n - 1], s[n])]
           g == CHOOSE run : run = Turn(run)
<1>1. Replay(c, s) = g[Len(s)]
  BY DEF Replay
<1>2. f = Turn(f)
  <2>1. ASSUME NEW n \in 0 .. Len(s) PROVE f[n] = Turn(f)[n]
    <3>1. n = 0 \/ n \in 1 .. Len(s)
      OBVIOUS
    <3> QED
      BY <3>1 DEF RunTo
  <2>2. f = [n \in 0 .. Len(s) |-> f[n]]
    BY DEF RunTo
  <2> QED
    BY <2>1, <2>2
<1>3. g = Turn(g)
  BY <1>2
<1> HIDE DEF g
<1>4. RunTo(g, c, s, Len(s))
  <2>1. g = [n \in 0 .. Len(s) |-> g[n]]
    BY <1>3
  <2>2. g[0] = [ok |-> TRUE, content |-> c]
    BY <1>3
  <2>3. ASSUME NEW n \in 1 .. Len(s) PROVE g[n] = Perform(g[n - 1], s[n])
    <3>1. n \in 0 .. Len(s) /\ n # 0
      OBVIOUS
    <3>2. g[n] = Turn(g)[n]
      BY <1>3
    <3> QED
      BY <3>1, <3>2
  <2> QED
    BY <2>1, <2>2, <2>3 DEF RunTo
<1>5. f = g
  BY <1>4, RunUnique
<1> QED
  BY <1>1, <1>5

LEMMA ReplayNothing == ASSUME NEW c PROVE Replay(c, <<>>) = [ok |-> TRUE, content |-> c]
<1>1. Len(<<>>) = 0
  OBVIOUS
<1>2. PICK f : RunTo(f, c, <<>>, Len(<<>>))
  BY <1>1, RunExists
<1>3. Replay(c, <<>>) = f[0]
  BY <1>1, <1>2, ReplayIsLast
<1> QED
  BY <1>2, <1>3 DEF RunTo

LEMMA ReplayOneMore == ASSUME NEW S, NEW s \in Seq(S), NEW x \in S, NEW c
                       PROVE  Replay(c, Append(s, x)) = Perform(Replay(c, s), x)
<1> DEFINE t == Append(s, x)
           n == Len(s)
<1>1. n \in Nat /\ Len(t) = n + 1 /\ t[n + 1] = x /\ \A i \in 1 .. n : t[i] = s[i]
  OBVIOUS
<1> HIDE DEF t, n
<1>0. n + 1 \in Nat
  BY <1>1
<1>2. PICK f : RunTo(f, c, t, n + 1)
  BY <1>0, RunExists
<1> DEFINE g == [i \in 0 .. n |-> f[i]]
<1>3. RunTo(g, c, s, n)
  <2>1. 0 \in 0 .. n /\ \A i \in 1 .. n : i \in 1 .. n + 1 /\ i \in 0 .. n /\ i - 1 \in 0 .. n
    BY <1>1
  <2>2. g[0] = [ok |-> TRUE, content |-> c]
    BY <1>2, <2>1 DEF RunTo
  <2>3. ASSUME NEW i \in 1 .. n PROVE g[i] = Perform(g[i - 1], s[i])
    <3>1. f[i] = Perform(f[i - 1], t[i])
      BY <1>2, <2>1 DEF RunTo
    <3> QED
      BY <1>1, <2>1, <3>1
  <2> QED
    BY <2>2, <2>3 DEF RunTo
<1>4. Replay(c, s) = g[n]
  BY <1>1, <1>3, ReplayIsLast DEF n
<1>5. Replay(c, t) = f[n + 1]
  BY <1>1, <1>2, ReplayIsLast
<1>6. f[n + 1] = Perform(f[n], x)
  <2>1. n + 1 \in 1 .. n + 1 /\ (n + 1) - 1 = n
    BY <1>1
  <2> QED
    BY <1>1, <1>2, <2>1 DEF RunTo
<1>7. g[n] = f[n]
  BY <1>1
<1> QED
  BY <1>4, <1>5, <1>6, <1>7 DEF t

-----------------------------------------------------------------------------
(* Statements s, replayed on any table, give the rows K the values of f, the   *)
(* column the definition v if they reach it (u), and leave the rest alone.   *)
Laid(c, K, f, u, v) ==
    [exists |-> TRUE, rows |-> [k \in Keys |-> IF k \in K THEN f[k] ELSE c.rows[k]],
     col |-> IF u THEN v ELSE c.col]
Lays(s, K, f, u, v) ==
    \A c \in Contents : c.exists => Replay(c, s) = [ok |-> TRUE, content |-> Laid(c, K, f, u, v)]

Rows == [Keys -> Values \cup {None}]

LEMMA LaysNothing == ASSUME NEW f, NEW v PROVE Lays(<<>>, {}, f, FALSE, v)
<1> SUFFICES ASSUME NEW c \in Contents, c.exists
             PROVE  Replay(c, <<>>) = [ok |-> TRUE, content |-> Laid(c, {}, f, FALSE, v)]
  BY DEF Lays
<1>1. Laid(c, {}, f, FALSE, v) = c
  BY DEF Laid, Contents
<1> QED
  BY <1>1, ReplayNothing

LEMMA WithRows == ASSUME NEW e, NEW q, NEW z, NEW r
                  PROVE  [[exists |-> e, rows |-> q, col |-> z] EXCEPT !.rows = r]
                           = [exists |-> e, rows |-> r, col |-> z]
  OBVIOUS

LEMMA LaysRows ==
    ASSUME NEW s \in Seq(Stmts), NEW K, NEW f, NEW u \in BOOLEAN, NEW v, Lays(s, K, f, u, v),
           NEW E \in SUBSET Keys, NEW w \in Values \cup {None},
           NEW x \in {Stmt("put", E, w)} \cup (IF w = None THEN {Stmt("delete", E, None)} ELSE {})
    PROVE  Lays(Append(s, x), K \cup E, [k \in Keys |-> IF k \in E THEN w ELSE f[k]], u, v)
<1>1. x \in Stmts
  BY DEF Stmts, Stmt
<1> SUFFICES ASSUME NEW c \in Contents, c.exists
             PROVE  Replay(c, Append(s, x))
                      = [ok |-> TRUE,
                         content |-> Laid(c, K \cup E, [k \in Keys |-> IF k \in E THEN w ELSE f[k]], u, v)]
  BY DEF Lays
<1> DEFINE b == Laid(c, K, f, u, v)
           h == [k \in Keys |-> IF k \in E THEN w ELSE f[k]]
<1>2. Replay(c, s) = [ok |-> TRUE, content |-> b]
  BY DEF Lays
<1>3. Replay(c, Append(s, x)) = Perform([ok |-> TRUE, content |-> b], x)
  BY <1>1, <1>2, ReplayOneMore
<1>4. Runs(b, x) /\ After(b, x) = Laid(c, K \cup E, h, u, v)
  <2> DEFINE R == [k \in Keys |-> IF k \in E THEN w ELSE b.rows[k]]
  <2>0. [b EXCEPT !.rows = R] = Laid(c, K \cup E, h, u, v)
    <3>1. \A k \in Keys : R[k] = IF k \in K \cup E THEN h[k] ELSE c.rows[k]
      BY DEF Laid
    <3>2. R = [k \in Keys |-> IF k \in K \cup E THEN h[k] ELSE c.rows[k]]
      BY <3>1
    <3> HIDE DEF R
    <3>3. [b EXCEPT !.rows = R] = [exists |-> TRUE, rows |-> R, col |-> IF u THEN v ELSE c.col]
      <4>1. PICK e, q, z : e = TRUE /\ b = [exists |-> e, rows |-> q, col |-> z] /\ z = IF u THEN v ELSE c.col
        BY DEF Laid
      <4> HIDE DEF b
      <4>2. [[exists |-> e, rows |-> q, col |-> z] EXCEPT !.rows = R] = [exists |-> e, rows |-> R, col |-> z]
        BY WithRows
      <4> QED
        BY <4>1, <4>2, Zenon
    <3> QED
      BY <3>2, <3>3 DEF Laid
  <2>1. CASE x = Stmt("put", E, w)
    <3>1. Runs(b, x) /\ After(b, x) = [b EXCEPT !.rows = R]
      BY <2>1 DEF Runs, After, Stmt, Laid
    <3> QED
      BY <2>0, <3>1 DEF Laid
  <2>2. CASE w = None /\ x = Stmt("delete", E, None)
    <3>1. Runs(b, x) /\ After(b, x) = [b EXCEPT !.rows = R]
      BY <2>2 DEF Runs, After, Stmt, Laid
    <3> QED
      BY <2>0, <3>1 DEF Laid
  <2> QED
    BY <2>1, <2>2
<1> QED
  BY <1>3, <1>4 DEF Perform

LEMMA LaysColumn ==
    ASSUME NEW s \in Seq(Stmts), NEW K, NEW f, NEW u \in BOOLEAN, NEW v, Lays(s, K, f, u, v),
           NEW w \in Values \cup {None}
    PROVE  Lays(Append(s, Stmt("alter", {}, w)), K, f, TRUE, w)
<1> DEFINE x == Stmt("alter", {}, w)
<1>1. x \in Stmts
  BY DEF Stmts, Stmt
<1> SUFFICES ASSUME NEW c \in Contents, c.exists
             PROVE  Replay(c, Append(s, x)) = [ok |-> TRUE, content |-> Laid(c, K, f, TRUE, w)]
  BY DEF Lays
<1> DEFINE b == Laid(c, K, f, u, v)
<1>2. Replay(c, s) = [ok |-> TRUE, content |-> b]
  BY DEF Lays
<1>3. Replay(c, Append(s, x)) = Perform([ok |-> TRUE, content |-> b], x)
  BY <1>1, <1>2, ReplayOneMore
<1>4. Runs(b, x) /\ After(b, x) = Laid(c, K, f, TRUE, w)
  BY DEF Runs, After, Stmt, Laid
<1> QED
  BY <1>3, <1>4 DEF Perform

(* The rows that were there, in the order they are read.                      *)
OldKeys(E, r) == {k \in E : r[k] # None}
OldPuts(E, r) == [i \in 1 .. Cardinality(OldKeys(E, r)) |->
                     Stmt("put", {SetToSeq(OldKeys(E, r))[i]}, r[SetToSeq(OldKeys(E, r))[i]])]

LEMMA SetAsSequence ==
    ASSUME NEW S, IsFiniteSet(S)
    PROVE  /\ Cardinality(S) \in Nat
           /\ SetToSeq(S) \in [1 .. Cardinality(S) -> S]
           /\ \A x \in S : \E i \in 1 .. Cardinality(S) : SetToSeq(S)[i] = x
<1> DEFINE n == Cardinality(S)
           f == SetToSeq(S)
<1>1. n \in Nat /\ ExistsBijection(1 .. n, S)
  BY FS_CardinalityType
<1>2. PICK g : g \in Bijection(1 .. n, S)
  BY <1>1 DEF ExistsBijection
<1>3. g \in [1 .. n -> S] /\ IsInjective(g)
  BY <1>2 DEF Bijection, Injection, IsInjective
<1>4. f \in [1 .. n -> S] /\ IsInjective(f)
  BY <1>3 DEF SetToSeq
<1> HIDE DEF f
<1>5. f \in Injection(1 .. n, S)
  BY <1>4 DEF Injection, IsInjective
<1>6. Cardinality(1 .. n) = n
  BY <1>1, FS_Interval
<1>7. f \in Surjection(1 .. n, S)
  BY <1>5, <1>6, FS_Injection
<1> QED
  BY <1>1, <1>4, <1>7 DEF f, Surjection

LEMMA AppendInConcat == ASSUME NEW S, NEW s \in Seq(S), NEW t \in Seq(S), NEW x \in S
                        PROVE  s \o Append(t, x) = Append(s \o t, x) /\ s \o t \in Seq(S)
<1>1. s \o t \in Seq(S) /\ <<x>> \in Seq(S)
  OBVIOUS
<1>2. Append(t, x) = t \o <<x>> /\ Append(s \o t, x) = (s \o t) \o <<x>>
  BY <1>1, AppendIsConcat
<1> QED
  BY <1>1, <1>2, ConcatAssociative

LEMMA PrefixGrows ==
    ASSUME NEW S, NEW t \in Seq(S), NEW p \in Seq(S), NEW m \in Nat, m + 1 <= Len(p)
    PROVE  /\ t \o [i \in 1 .. m |-> p[i]] \in Seq(S)
           /\ t \o [i \in 1 .. m + 1 |-> p[i]] = Append(t \o [i \in 1 .. m |-> p[i]], p[m + 1])
<1> DEFINE a == [i \in 1 .. m |-> p[i]]
           b == [i \in 1 .. m + 1 |-> p[i]]
<1>1. a \in Seq(S) /\ Len(a) = m /\ (\A i \in 1 .. m : a[i] = p[i])
  <2>1. \A i \in 1 .. m : p[i] \in S
    OBVIOUS
  <2> QED
    BY <2>1
<1>2. b \in Seq(S) /\ Len(b) = m + 1 /\ (\A i \in 1 .. m + 1 : b[i] = p[i])
  <2>1. \A i \in 1 .. m + 1 : p[i] \in S
    OBVIOUS
  <2> QED
    BY <2>1
<1> HIDE DEF a, b
<1>3. p[m + 1] \in S
  OBVIOUS
<1>4. b = Append(a, p[m + 1])
  <2>1. Append(a, p[m + 1]) \in Seq(S) /\ Len(Append(a, p[m + 1])) = m + 1
    BY <1>1, <1>3
  <2>2. \A i \in 1 .. m + 1 : b[i] = Append(a, p[m + 1])[i]
    BY <1>1, <1>2, <1>3
  <2> QED
    BY <1>2, <2>1, <2>2, SeqEqual
<1>5. t \o Append(a, p[m + 1]) = Append(t \o a, p[m + 1])
  BY <1>1, <1>3, AppendInConcat
<1> QED
  BY <1>1, <1>4, <1>5 DEF a, b

(* The undo of an upsert, as far as the old rows were read: the keys are      *)
(* deleted, the rows that were read put back.                                 *)
PutKeys(E, r, m) == UNION {OldPuts(E, r)[i].keys : i \in 1 .. m}
PartRows(E, r, f, m) ==
    [k \in Keys |-> IF k \in E THEN (IF k \in PutKeys(E, r, m) THEN f[k] ELSE None) ELSE f[k]]

AllPut(E, r) == \A k \in E : r[k] # None => k \in PutKeys(E, r, Len(OldPuts(E, r)))

LEMMA LaysUpsertPart ==
    ASSUME NEW s \in Seq(Stmts), NEW K, NEW f \in Rows, NEW u \in BOOLEAN, NEW v, Lays(s, K, f, u, v),
           NEW E \in SUBSET Keys, NEW r \in Rows, \A k \in E : r[k] = f[k],
           NEW z \in Nat, z <= Len(OldPuts(E, r))
    PROVE  /\ Append(s, Stmt("delete", E, None)) \o SubSeq(OldPuts(E, r), 1, z) \in Seq(Stmts)
           /\ Lays(Append(s, Stmt("delete", E, None)) \o SubSeq(OldPuts(E, r), 1, z), K \cup E,
                   PartRows(E, r, f, z), u, v)
           /\ OldPuts(E, r) \in Seq(Stmts)
           /\ AllPut(E, r)
<1> DEFINE old == OldKeys(E, r)
           n == Cardinality(old)
           q == SetToSeq(old)
           p == OldPuts(E, r)
           t == Append(s, Stmt("delete", E, None))
           put(m) == {q[i] : i \in 1 .. m}
           g(m) == [k \in Keys |-> IF k \in E THEN (IF k \in put(m) THEN f[k] ELSE None) ELSE f[k]]
           part(m) == [i \in 1 .. m |-> p[i]]
<1>1. IsFiniteSet(old) /\ old \subseteq E
  BY ImportAssumption, FS_Subset DEF OldKeys
<1>2. n \in Nat /\ q \in [1 .. n -> old] /\ \A x \in old : \E i \in 1 .. n : q[i] = x
  BY <1>1, SetAsSequence
<1>3. p = [i \in 1 .. n |-> Stmt("put", {q[i]}, r[q[i]])]
  BY DEF OldPuts
<1> HIDE DEF old, n, q, p
<1>4. \A i \in 1 .. n : Stmt("put", {q[i]}, r[q[i]]) \in Stmts /\ q[i] \in E /\ r[q[i]] \in Values \cup {None}
  BY <1>1, <1>2 DEF Stmts, Stmt, Rows
<1>5. p \in Seq(Stmts) /\ Len(p) = n
  <2>1. p \in [1 .. n -> Stmts]
    BY <1>3, <1>4
  <2> QED
    BY <1>2, <2>1
<1>6. t \in Seq(Stmts) /\ Stmt("delete", E, None) \in Stmts
  BY DEF Stmts, Stmt
<1>7. Lays(t, K \cup E, g(0), u, v)
  <2>1. Lays(t, K \cup E, [k \in Keys |-> IF k \in E THEN None ELSE f[k]], u, v)
    BY LaysRows
  <2>2. g(0) = [k \in Keys |-> IF k \in E THEN None ELSE f[k]]
    OBVIOUS
  <2> QED
    BY <2>1, <2>2
<1> HIDE DEF t
<1> DEFINE S == {m \in Nat : m <= n => Lays(t \o part(m), K \cup E, g(m), u, v)}
<1>8. 0 \in S
  <2>1. part(0) = <<>>
    OBVIOUS
  <2>2. t \o <<>> = t
    BY <1>6
  <2> HIDE DEF part, g
  <2>3. t \o part(0) = t
    BY <2>1, <2>2
  <2> QED
    BY <1>7, <2>3
<1>9. ASSUME NEW m \in Nat, m \in S PROVE m + 1 \in S
  <2> SUFFICES ASSUME m + 1 <= n PROVE Lays(t \o part(m + 1), K \cup E, g(m + 1), u, v)
    OBVIOUS
  <2>0. m <= n /\ m + 1 \in 1 .. n
    BY <1>2
  <2>1. Lays(t \o part(m), K \cup E, g(m), u, v)
    BY <1>9, <2>0
  <2>2. /\ t \o part(m) \in Seq(Stmts)
        /\ t \o part(m + 1) = Append(t \o part(m), p[m + 1])
    BY <1>5, <1>6, PrefixGrows
  <2>3. p[m + 1] = Stmt("put", {q[m + 1]}, r[q[m + 1]]) /\ q[m + 1] \in E /\ r[q[m + 1]] = f[q[m + 1]]
        /\ r[q[m + 1]] \in Values \cup {None}
    BY <1>3, <1>4, <2>0
  <2> DEFINE a == t \o part(m)
             x == q[m + 1]
             w == r[q[m + 1]]
  <2>4. Lays(Append(a, Stmt("put", {x}, w)), (K \cup E) \cup {x},
             [k \in Keys |-> IF k \in {x} THEN w ELSE g(m)[k]], u, v)
    <3> HIDE DEF part, g
    <3>1. {x} \in SUBSET Keys /\ w \in Values \cup {None} /\ a \in Seq(Stmts)
      BY <2>2, <2>3
    <3> HIDE DEF a, x, w
    <3>2. Lays(a, K \cup E, g(m), u, v)
      BY <2>1 DEF a
    <3> QED
      BY <3>1, <3>2, LaysRows
  <2>5. (K \cup E) \cup {x} = K \cup E
    BY <2>3
  <2>6. [k \in Keys |-> IF k \in {x} THEN w ELSE g(m)[k]] = g(m + 1)
    <3>1. put(m + 1) = put(m) \cup {x}
      <4>1. 1 .. m + 1 = (1 .. m) \cup {m + 1}
        OBVIOUS
      <4> QED
        BY <4>1
    <3> HIDE DEF put
    <3>2. ASSUME NEW k \in Keys
          PROVE  (IF k \in {x} THEN w ELSE g(m)[k])
                   = IF k \in E THEN (IF k \in put(m + 1) THEN f[k] ELSE None) ELSE f[k]
      BY <2>3, <3>1
    <3> QED
      BY <3>2
  <2> HIDE DEF g, part
  <2>7. Append(a, Stmt("put", {x}, w)) = t \o part(m + 1)
    BY <2>2, <2>3
  <2> HIDE DEF a, x, w
  <2> QED
    BY <2>4, <2>5, <2>6, <2>7
<1>10. z \in S
  <2> HIDE DEF S
  <2> QED
    BY <1>8, <1>9, NumberInduction
<1>11. z <= n
  BY <1>5 DEF p
<1>12. part(z) = SubSeq(p, 1, z)
  BY <1>2, <1>5, <1>11
<1>13. ASSUME NEW m \in Nat, m <= n PROVE put(m) = PutKeys(E, r, m)
  <2>1. \A i \in 1 .. m : i \in 1 .. n
    BY <1>2, <1>13
  <2>2. \A i \in 1 .. m : p[i].keys = {q[i]}
    BY <1>3, <2>1 DEF Stmt
  <2>3. ASSUME NEW x PROVE x \in UNION {p[i].keys : i \in 1 .. m} <=> x \in put(m)
    <3>1. x \in UNION {p[i].keys : i \in 1 .. m} <=> \E i \in 1 .. m : x \in p[i].keys
      OBVIOUS
    <3>2. x \in put(m) <=> \E i \in 1 .. m : x = q[i]
      OBVIOUS
    <3> HIDE DEF put
    <3> QED
      BY <2>2, <3>1, <3>2
  <2> HIDE DEF put
  <2> QED
    BY <2>3 DEF PutKeys, p
<1>14. g(z) = PartRows(E, r, f, z)
  <2>1. put(z) = PutKeys(E, r, z)
    BY <1>11, <1>13
  <2> HIDE DEF put
  <2> QED
    BY <2>1 DEF PartRows
<1>15. Lays(t \o SubSeq(p, 1, z), K \cup E, PartRows(E, r, f, z), u, v)
  <2>1. Lays(t \o part(z), K \cup E, g(z), u, v)
    BY <1>10, <1>11
  <2> HIDE DEF g, part
  <2> QED
    BY <1>12, <1>14, <2>1
<1>16. t \o SubSeq(p, 1, z) \in Seq(Stmts)
  <2>1. SubSeq(p, 1, z) \in Seq(Stmts)
    BY <1>5, <1>11
  <2> QED
    BY <1>6, <2>1
<1>17. ASSUME NEW k \in E, r[k] # None PROVE k \in PutKeys(E, r, Len(p))
  <2>1. k \in old
    BY <1>17 DEF old, OldKeys
  <2>2. k \in put(n)
    BY <1>2, <2>1
  <2> HIDE DEF put
  <2> QED
    BY <1>2, <1>5, <1>13, <2>2
<1> QED
  BY <1>5, <1>15, <1>16, <1>17 DEF t, p, AllPut

(* When all of them were read, every row is as before.                        *)
LEMMA LaysUpsert ==
    ASSUME NEW s \in Seq(Stmts), NEW K, NEW f \in Rows, NEW u \in BOOLEAN, NEW v, Lays(s, K, f, u, v),
           NEW E \in SUBSET Keys, NEW r \in Rows, \A k \in E : r[k] = f[k], OldPuts(E, r) \in Seq(Stmts)
    PROVE  Lays(Append(s, Stmt("delete", E, None)) \o OldPuts(E, r), K \cup E, f, u, v)
<1>0. Len(OldPuts(E, r)) \in Nat
  OBVIOUS
<1>1. PICK z \in Nat : z = Len(OldPuts(E, r)) /\ z <= Len(OldPuts(E, r))
  BY <1>0
<1>2. /\ Lays(Append(s, Stmt("delete", E, None)) \o SubSeq(OldPuts(E, r), 1, z), K \cup E,
              PartRows(E, r, f, z), u, v)
      /\ \A k \in E : r[k] # None => k \in PutKeys(E, r, z)
  <2>1. /\ Lays(Append(s, Stmt("delete", E, None)) \o SubSeq(OldPuts(E, r), 1, z), K \cup E,
                PartRows(E, r, f, z), u, v)
        /\ AllPut(E, r)
    BY <1>1, LaysUpsertPart
  <2> QED
    BY <1>1, <2>1 DEF AllPut
<1>3. SubSeq(OldPuts(E, r), 1, z) = OldPuts(E, r)
  <2>1. PICK o \in Seq(Stmts) : o = OldPuts(E, r)
    OBVIOUS
  <2>2. SubSeq(o, 1, Len(o)) = o
    OBVIOUS
  <2> QED
    BY <1>1, <2>1, <2>2
<1>4. PartRows(E, r, f, z) = f
  <2>1. \A k \in Keys : (IF k \in E THEN (IF k \in PutKeys(E, r, z) THEN f[k] ELSE None) ELSE f[k]) = f[k]
    BY <1>2
  <2>2. f = [k \in Keys |-> f[k]]
    BY DEF Rows
  <2> QED
    BY <2>1, <2>2 DEF PartRows
<1> QED
  BY <1>2, <1>3, <1>4

-----------------------------------------------------------------------------
(* Where an import is, and what its variables are.                            *)
InPackage == phase \in {"entry", "delete", "rows"}
AtWork    == phase = "packages" \/ InPackage

Places == [sql : Nat \ {0}, pkg : Nat \ {0}, entry : Nat \ {0}, row : Nat \ {0}]
Tables == {c \in Contents : c.exists \/ c = NoTable}

TypeInv ==
    /\ job \in Imports
    /\ phase \in {"sql", "packages", "entry", "delete", "rows", "salvage", "write", "ok", "failed"}
    /\ db \in [Databases -> Tables] /\ base \in [Databases -> Tables] /\ saved \in Tables
    /\ at \in Places
    /\ rb \in Seq(Stmts) /\ unrollback \in BOOLEAN
    /\ groups \in UNION {[S -> Seq(Stmts)] : S \in SUBSET Databases}
    /\ InPackage => at.pkg <= Len(job.pkgs)
    /\ phase \in {"delete", "rows"} =>
          /\ at.entry <= Len(Pkg.entries)
          /\ Entry.type = "upsert" /\ Entry.pk /\ at.row <= Len(Entry.data)
    /\ phase # "rows" => at.row = 1 \/ phase \in {"salvage", "failed"}

LEMMA SeqElement == ASSUME NEW S, NEW s \in Seq(S), NEW i \in 1 .. Len(s) PROVE s[i] \in S
  OBVIOUS

LEMMA NextPlace ==
    ASSUME NEW p \in Places
    PROVE  /\ [p EXCEPT !.sql = @ + 1] = [sql |-> p.sql + 1, pkg |-> p.pkg, entry |-> p.entry, row |-> p.row]
           /\ [p EXCEPT !.entry = @ + 1, !.row = 1] = [sql |-> p.sql, pkg |-> p.pkg, entry |-> p.entry + 1, row |-> 1]
           /\ [p EXCEPT !.row = @ + 1] = [sql |-> p.sql, pkg |-> p.pkg, entry |-> p.entry, row |-> p.row + 1]
           /\ [p EXCEPT !.pkg = @ + 1, !.entry = 1, !.row = 1]
                = [sql |-> p.sql, pkg |-> p.pkg + 1, entry |-> 1, row |-> 1]
           /\ p.sql + 1 \in Nat \ {0} /\ p.pkg + 1 \in Nat \ {0}
           /\ p.entry + 1 \in Nat \ {0} /\ p.row + 1 \in Nat \ {0}
<1>1. PICK a, b, c, e : p = [sql |-> a, pkg |-> b, entry |-> c, row |-> e]
  BY DEF Places
<1>2. /\ [[sql |-> a, pkg |-> b, entry |-> c, row |-> e] EXCEPT !.sql = @ + 1]
           = [sql |-> a + 1, pkg |-> b, entry |-> c, row |-> e]
      /\ [[sql |-> a, pkg |-> b, entry |-> c, row |-> e] EXCEPT !.row = @ + 1]
           = [sql |-> a, pkg |-> b, entry |-> c, row |-> e + 1]
  OBVIOUS
<1>3. [[sql |-> a, pkg |-> b, entry |-> c, row |-> e] EXCEPT !.entry = @ + 1, !.row = 1]
        = [sql |-> a, pkg |-> b, entry |-> c + 1, row |-> 1]
  <2>1. [[sql |-> a, pkg |-> b, entry |-> c, row |-> e] EXCEPT !.entry = @ + 1, !.row = 1]
          = [[[sql |-> a, pkg |-> b, entry |-> c, row |-> e] EXCEPT !.entry = @ + 1] EXCEPT !.row = 1]
    OBVIOUS
  <2>2. [[sql |-> a, pkg |-> b, entry |-> c, row |-> e] EXCEPT !.entry = @ + 1]
          = [sql |-> a, pkg |-> b, entry |-> c + 1, row |-> e]
    OBVIOUS
  <2>3. [[sql |-> a, pkg |-> b, entry |-> c + 1, row |-> e] EXCEPT !.row = 1]
          = [sql |-> a, pkg |-> b, entry |-> c + 1, row |-> 1]
    OBVIOUS
  <2> QED
    BY <2>1, <2>2, <2>3, Zenon
<1>4. [[sql |-> a, pkg |-> b, entry |-> c, row |-> e] EXCEPT !.pkg = @ + 1, !.entry = 1, !.row = 1]
        = [sql |-> a, pkg |-> b + 1, entry |-> 1, row |-> 1]
  <2>1. [[sql |-> a, pkg |-> b, entry |-> c, row |-> e] EXCEPT !.pkg = @ + 1, !.entry = 1, !.row = 1]
          = [[[[sql |-> a, pkg |-> b, entry |-> c, row |-> e] EXCEPT !.pkg = @ + 1] EXCEPT !.entry = 1]
               EXCEPT !.row = 1]
    OBVIOUS
  <2>2. [[sql |-> a, pkg |-> b, entry |-> c, row |-> e] EXCEPT !.pkg = @ + 1]
          = [sql |-> a, pkg |-> b + 1, entry |-> c, row |-> e]
    OBVIOUS
  <2>3. [[sql |-> a, pkg |-> b + 1, entry |-> c, row |-> e] EXCEPT !.entry = 1]
          = [sql |-> a, pkg |-> b + 1, entry |-> 1, row |-> e]
    OBVIOUS
  <2>4. [[sql |-> a, pkg |-> b + 1, entry |-> 1, row |-> e] EXCEPT !.row = 1]
          = [sql |-> a, pkg |-> b + 1, entry |-> 1, row |-> 1]
    OBVIOUS
  <2> QED
    BY <2>1, <2>2, <2>3, <2>4, Zenon
<1>5. p.sql = a /\ p.pkg = b /\ p.entry = c /\ p.row = e
  BY <1>1
<1>6. p.sql \in Nat \ {0} /\ p.pkg \in Nat \ {0} /\ p.entry \in Nat \ {0} /\ p.row \in Nat \ {0}
  BY DEF Places
<1>7. \A i \in Nat \ {0} : i + 1 \in Nat \ {0}
  OBVIOUS
<1> QED
  BY <1>1, <1>2, <1>3, <1>4, <1>5, <1>6, <1>7

LEMMA AfterIsTable ==
    ASSUME NEW c \in Tables, NEW s \in Stmts, Runs(c, s)
    PROVE  /\ After(c, s) \in Tables
           /\ s.op \in {"alter", "delete", "put"} => After(c, s).exists
           /\ s.op \in {"alter", "delete", "put"} => c.exists
<1>1. s.keys \subseteq Keys /\ s.val \in Values \cup {None} /\ s.op \in {"create", "drop", "alter", "delete", "put"}
  BY DEF Stmts
<1>2. c \in Contents /\ c.rows \in [Keys -> Values \cup {None}]
  BY DEF Tables, Contents
<1>3. CASE s.op = "drop"
  BY <1>3 DEF After, NoTable, Tables, Contents
<1>4. CASE s.op = "create"
  BY <1>2, <1>4, <1>1 DEF After, Tables, Contents
<1>5. CASE s.op = "alter"
  BY <1>2, <1>5, <1>1 DEF After, Tables, Contents, Runs
<1>6. CASE s.op = "delete"
  <2> DEFINE r == [k \in Keys |-> IF k \in s.keys THEN None ELSE c.rows[k]]
  <2>1. After(c, s) = [c EXCEPT !.rows = r] /\ r \in [Keys -> Values \cup {None}] /\ c.exists
    BY <1>2, <1>6 DEF After, Runs
  <2> HIDE DEF r
  <2> QED
    BY <1>2, <1>6, <2>1 DEF Tables, Contents
<1>7. CASE s.op = "put"
  <2> DEFINE r == [k \in Keys |-> IF k \in s.keys THEN s.val ELSE c.rows[k]]
  <2>1. After(c, s) = [c EXCEPT !.rows = r] /\ r \in [Keys -> Values \cup {None}] /\ c.exists
    BY <1>1, <1>2, <1>7 DEF After, Runs
  <2> HIDE DEF r
  <2> QED
    BY <1>2, <1>7, <2>1 DEF Tables, Contents
<1> QED
  BY <1>1, <1>3, <1>4, <1>5, <1>6, <1>7

LEMMA JobFacts ==
    ASSUME TypeInv
    PROVE  /\ Len(job.pkgs) \in Nat /\ job.sqls \in Seq([db : Databases, stmt : Stmts])
           /\ DDLCommits \in BOOLEAN
           /\ InPackage => D \in Databases /\ Len(Pkg.entries) \in Nat
           /\ InPackage /\ at.entry <= Len(Pkg.entries) => EntryOk(Entry)
<1>1. at.pkg \in Nat \ {0} /\ at.entry \in Nat \ {0} /\ job \in Imports
  BY DEF TypeInv, Places
<1>2. InPackage => at.pkg \in 1 .. Len(job.pkgs)
  BY <1>1, ImportAssumption DEF TypeInv
<1>3. /\ Len(job.pkgs) \in Nat /\ job.sqls \in Seq([db : Databases, stmt : Stmts])
      /\ DDLCommits \in BOOLEAN
  BY <1>1, ImportAssumption DEF DDLCommits
<1>4. ASSUME InPackage PROVE D \in Databases /\ Len(Pkg.entries) \in Nat
  BY <1>1, <1>2, <1>4, ImportAssumption DEF Pkg, D
<1>5. ASSUME InPackage, at.entry <= Len(Pkg.entries) PROVE EntryOk(Entry)
  <2>1. at.entry \in 1 .. Len(Pkg.entries)
    BY <1>1, <1>4, <1>5
  <2>2. \A e \in 1 .. Len(job.pkgs[at.pkg].entries) : EntryOk(job.pkgs[at.pkg].entries[e])
    BY <1>1, <1>2, <1>5, ImportAssumption
  <2> QED
    BY <2>1, <2>2 DEF Pkg, Entry
<1> QED
  BY <1>3, <1>4, <1>5

LEMMA UpsertFacts ==
    ASSUME TypeInv, InPackage, at.entry <= Len(Pkg.entries), Entry.type = "upsert"
    PROVE  /\ Entry.pk \in BOOLEAN /\ Entry.data \in Seq([key : Keys, val : Values])
           /\ EntryKeys \in SUBSET Keys
<1>1. EntryOk(Entry)
  BY JobFacts
<1>2. Entry.pk \in BOOLEAN /\ Entry.data \in Seq([key : Keys, val : Values])
  BY <1>1 DEF EntryOk
<1>3. \A i \in DOMAIN Entry.data : Entry.data[i] \in [key : Keys, val : Values]
  <2>1. PICK s : s = Entry.data
    OBVIOUS
  <2>2. s \in Seq([key : Keys, val : Values])
    BY <1>2, <2>1
  <2>3. \A i \in 1 .. Len(s) : s[i] \in [key : Keys, val : Values]
    BY <2>2, SeqElement
  <2>4. DOMAIN s = 1 .. Len(s)
    BY <2>2
  <2> QED
    BY <2>1, <2>3, <2>4
<1>4. \A i \in DOMAIN Entry.data : Entry.data[i].key \in Keys
  BY <1>3
<1> QED
  BY <1>2, <1>4 DEF EntryKeys

LEMMA OldRowsArePuts ==
    ASSUME TypeInv, InPackage, at.entry <= Len(Pkg.entries), Entry.type = "upsert"
    PROVE  /\ OldRows = OldPuts(EntryKeys, db[D].rows)
           /\ OldRows \in Seq(Stmts)
<1>1. OldRows = OldPuts(EntryKeys, db[D].rows)
  BY DEF OldRows, OldPuts, OldKeys
<1> DEFINE old == OldKeys(EntryKeys, db[D].rows)
           q == SetToSeq(old)
<1>2. EntryKeys \subseteq Keys /\ db[D].rows \in Rows
  BY UpsertFacts, JobFacts DEF TypeInv, Tables, Contents, Rows
<1>3. IsFiniteSet(old) /\ old \subseteq Keys
  BY <1>2, ImportAssumption, FS_Subset DEF OldKeys
<1>4. Cardinality(old) \in Nat /\ q \in [1 .. Cardinality(old) -> old]
  BY <1>3, SetAsSequence
<1> HIDE DEF old, q
<1>5. \A i \in 1 .. Cardinality(old) : Stmt("put", {q[i]}, db[D].rows[q[i]]) \in Stmts
  BY <1>2, <1>3, <1>4 DEF Stmt, Stmts, Rows
<1>6. OldPuts(EntryKeys, db[D].rows) = [i \in 1 .. Cardinality(old) |-> Stmt("put", {q[i]}, db[D].rows[q[i]])]
  BY DEF OldPuts, old, q
<1>7. OldPuts(EntryKeys, db[D].rows) \in [1 .. Cardinality(old) -> Stmts]
  BY <1>5, <1>6
<1> QED
  BY <1>1, <1>4, <1>7

LEMMA TypeInit == Init => TypeInv
<1> SUFFICES ASSUME Init PROVE TypeInv
  OBVIOUS
<1>1. \A d \in Databases : db[d] \in Tables
  BY ImportAssumption DEF Init, Tables
<1>2. db \in [Databases -> Tables] /\ base \in [Databases -> Tables]
  BY <1>1 DEF Init
<1>3. NoTable \in Tables
  BY DEF Tables, Contents, NoTable
<1>4. groups \in [{} -> Seq(Stmts)]
  BY DEF Init
<1>5. at \in Places /\ at.row = 1
  BY DEF Init, Start, Places
<1>6. rb \in Seq(Stmts) /\ saved \in Tables /\ phase = "sql" /\ unrollback = FALSE
  BY <1>3 DEF Init
<1>7. groups \in UNION {[S -> Seq(Stmts)] : S \in SUBSET Databases}
  BY <1>4
<1>8. job \in Imports
  BY DEF Init
<1> QED
  BY <1>2, <1>5, <1>6, <1>7, <1>8 DEF TypeInv, InPackage

(* One statement in the transaction of the package.                           *)
LEMMA ExecuteTypes ==
    ASSUME TypeInv, InPackage, NEW s \in Stmts, Execute(s)
    PROVE  /\ db' \in [Databases -> Tables] /\ saved' \in Tables
           /\ db'[D] = After(db[D], s) /\ \A d \in Databases \ {D} : db'[d] = db[d]
           /\ saved' = saved \/ saved' = db'[D]
<1>1. D \in Databases /\ db[D] \in Tables
  BY JobFacts DEF TypeInv
<1>2. After(db[D], s) \in Tables
  BY <1>1, AfterIsTable DEF Execute
<1> QED
  BY <1>1, <1>2 DEF Execute, TypeInv

LEMMA GroupTypes ==
    ASSUME TypeInv, InPackage, NEW undo \in Seq(Stmts)
    PROVE  /\ AddRollback(undo) \in UNION {[S -> Seq(Stmts)] : S \in SUBSET Databases}
           /\ DOMAIN AddRollback(undo) = DOMAIN groups \cup {D}
           /\ \A d \in Databases : CollectedBefore(d) \in Seq(Stmts)
<1>1. D \in Databases
  BY JobFacts
<1>2. PICK S \in SUBSET Databases : groups \in [S -> Seq(Stmts)]
  BY DEF TypeInv
<1>3. \A d \in Databases : CollectedBefore(d) \in Seq(Stmts)
  BY <1>2 DEF CollectedBefore
<1>4. CollectedBefore(D) \o undo \in Seq(Stmts)
  BY <1>1, <1>3
<1>5. AddRollback(undo) \in [S \cup {D} -> Seq(Stmts)]
  BY <1>1, <1>2, <1>4 DEF AddRollback
<1> QED
  BY <1>1, <1>2, <1>3, <1>5 DEF AddRollback

LEMMA TypeStep == TypeInv /\ [Next]_vars => TypeInv'
<1> SUFFICES ASSUME TypeInv, [Next]_vars PROVE TypeInv'
  OBVIOUS
<1>0. /\ at = [sql |-> at.sql, pkg |-> at.pkg, entry |-> at.entry, row |-> at.row]
      /\ at.sql \in Nat \ {0} /\ at.pkg \in Nat \ {0} /\ at.entry \in Nat \ {0} /\ at.row \in Nat \ {0}
  BY DEF TypeInv, Places
<1>00. at \in Places
  BY DEF TypeInv
<1>1. CASE ImportSQL
  <2> DEFINE s == job.sqls[at.sql]
  <2>1. /\ at.sql <= Len(job.sqls) /\ Runs(db[s.db], s.stmt)
        /\ db' = [db EXCEPT ![s.db] = After(@, s.stmt)]
        /\ at' = [at EXCEPT !.sql = @ + 1]
    BY <1>1 DEF ImportSQL
  <2>2. s \in [db : Databases, stmt : Stmts]
    <3>1. at.sql \in 1 .. Len(job.sqls)
      BY <1>0, <2>1, JobFacts
    <3> QED
      BY <3>1, JobFacts, SeqElement
  <2>3. s.db \in Databases /\ s.stmt \in Stmts
    BY <2>2
  <2> HIDE DEF s
  <2>4. After(db[s.db], s.stmt) \in Tables
    BY <2>1, <2>3, AfterIsTable DEF TypeInv
  <2>5. db' \in [Databases -> Tables]
    BY <2>1, <2>3, <2>4 DEF TypeInv
  <2>6. at' \in Places /\ at'.row = at.row
    <3>1. at' = [sql |-> at.sql + 1, pkg |-> at.pkg, entry |-> at.entry, row |-> at.row]
      BY <1>00, <2>1, NextPlace
    <3> QED
      BY <1>0, <1>00, <3>1, NextPlace DEF Places
  <2> QED
    BY <1>1, <2>5, <2>6 DEF ImportSQL, TypeInv, InPackage
<1>2. CASE SQLFails \/ SQLDone \/ PackageRefused \/ Finish
  BY <1>2 DEF SQLFails, SQLDone, PackageRefused, Finish, TypeInv, InPackage
<1>3. CASE BeginPackage
  <2>1. at' = [at EXCEPT !.entry = 1] /\ at.pkg <= Len(job.pkgs) /\ phase = "packages" /\ phase' = "entry"
    BY <1>3 DEF BeginPackage
  <2>2. at' \in Places /\ at'.pkg = at.pkg /\ at'.row = at.row
    BY <1>0, <2>1 DEF Places
  <2>3. D \in Databases
    BY <1>0, <2>1, ImportAssumption DEF TypeInv, D, Pkg
  <2>4. saved' \in Tables /\ rb' \in Seq(Stmts)
    BY <1>3, <2>3 DEF BeginPackage, TypeInv
  <2> QED
    BY <1>3, <2>1, <2>2, <2>4 DEF BeginPackage, TypeInv, InPackage
<1>4. ASSUME InPackage, NextEntry
      PROVE  at' \in Places /\ at'.pkg = at.pkg /\ at'.row = 1
  <2>1. at' = [sql |-> at.sql, pkg |-> at.pkg, entry |-> at.entry + 1, row |-> 1]
    BY <1>00, <1>4, NextPlace DEF NextEntry
  <2>2. 1 \in Nat \ {0}
    OBVIOUS
  <2> QED
    BY <1>0, <1>00, <2>1, <2>2, NextPlace DEF Places
<1>5. CASE CreateTable
  <2>1. InPackage /\ NextEntry /\ at.entry <= Len(Pkg.entries) /\ Entry.type = "create" /\ phase = "entry"
    BY <1>5 DEF CreateTable, AtEntry, InPackage
  <2>2. Entry.to \in Values
    BY <2>1, JobFacts DEF EntryOk
  <2>3. Stmt("create", {}, Entry.to) \in Stmts /\ Stmt("drop", {}, None) \in Stmts
    BY <2>2 DEF Stmt, Stmts
  <2>4. /\ db' \in [Databases -> Tables] /\ saved' \in Tables /\ rb' \in Seq(Stmts)
    <3>1. CASE UNCHANGED <<db, saved, rb>>
      BY <3>1 DEF TypeInv
    <3>2. CASE Execute(Stmt("create", {}, Entry.to)) /\ rb' = Append(rb, Stmt("drop", {}, None))
      BY <2>1, <2>3, <3>2, ExecuteTypes DEF TypeInv
    <3> QED
      BY <1>5, <3>1, <3>2 DEF CreateTable
  <2> QED
    BY <1>4, <1>5, <2>1, <2>4 DEF CreateTable, TypeInv, InPackage
<1>6. CASE UpsertSkip
  <2>1. InPackage /\ NextEntry /\ phase = "entry"
    BY <1>6 DEF UpsertSkip, AtEntry, InPackage
  <2> QED
    BY <1>4, <1>6, <2>1 DEF UpsertSkip, TypeInv, InPackage
<1>7. CASE UpsertCollect
  <2>1. /\ InPackage /\ phase = "entry" /\ phase' = "delete" /\ UNCHANGED <<job, at>>
        /\ at.entry <= Len(Pkg.entries) /\ Entry.type = "upsert" /\ Entry.pk /\ Entry.data # <<>>
        /\ rb' = Append(rb, Stmt("delete", EntryKeys, None)) \o OldRows
    BY <1>7 DEF UpsertCollect, AtEntry, InPackage
  <2>2. Stmt("delete", EntryKeys, None) \in Stmts /\ OldRows \in Seq(Stmts)
    BY <2>1, UpsertFacts, OldRowsArePuts DEF Stmts, Stmt
  <2>3. rb' \in Seq(Stmts)
    BY <2>1, <2>2 DEF TypeInv
  <2>4. at.row = 1 /\ Len(Entry.data) >= 1
    <3>1. PICK s : s = Entry.data
      OBVIOUS
    <3>2. s \in Seq([key : Keys, val : Values]) /\ s # <<>>
      BY <2>1, <3>1, UpsertFacts
    <3>3. Len(s) >= 1
      BY <3>2
    <3> QED
      BY <2>1, <3>1, <3>3 DEF TypeInv
  <2>5. Entry' = Entry /\ Pkg' = Pkg
    BY <2>1 DEF Entry, Pkg
  <2> QED
    BY <1>7, <2>1, <2>3, <2>4, <2>5 DEF UpsertCollect, TypeInv, InPackage
<1>8. CASE UpsertDelete
  <2>1. /\ InPackage /\ phase = "delete" /\ phase' = "rows" /\ UNCHANGED <<job, at, rb, unrollback, groups, base>>
        /\ at.entry <= Len(Pkg.entries) /\ Entry.type = "upsert" /\ Execute(Stmt("delete", EntryKeys, None))
    BY <1>8 DEF UpsertDelete, InPackage, TypeInv
  <2>2. Stmt("delete", EntryKeys, None) \in Stmts
    BY <2>1, UpsertFacts DEF Stmts, Stmt
  <2>3. db' \in [Databases -> Tables] /\ saved' \in Tables
    BY <2>1, <2>2, ExecuteTypes
  <2>4. Entry' = Entry /\ Pkg' = Pkg
    BY <2>1 DEF Entry, Pkg
  <2> QED
    BY <2>1, <2>3, <2>4 DEF TypeInv, InPackage
<1>9. CASE UpsertRow
  <2> DEFINE row == Entry.data[at.row]
  <2>1. /\ InPackage /\ phase = "rows" /\ UNCHANGED <<job, rb, unrollback, groups, base>>
        /\ at.entry <= Len(Pkg.entries) /\ Entry.type = "upsert" /\ Entry.pk /\ at.row <= Len(Entry.data)
        /\ Execute(Stmt("put", {row.key}, row.val))
        /\ IF at.row < Len(Entry.data)
           THEN at' = [at EXCEPT !.row = @ + 1] /\ UNCHANGED phase
           ELSE NextEntry /\ phase' = "entry"
    BY <1>9 DEF UpsertRow, InPackage, TypeInv
  <2>2. PICK s : s = Entry.data
    OBVIOUS
  <2>3. s \in Seq([key : Keys, val : Values]) /\ at.row \in 1 .. Len(s)
    BY <1>0, <2>1, <2>2, UpsertFacts
  <2>4. row \in [key : Keys, val : Values]
    BY <2>2, <2>3, SeqElement
  <2>5. Stmt("put", {row.key}, row.val) \in Stmts
    BY <2>4 DEF Stmt, Stmts
  <2>6. db' \in [Databases -> Tables] /\ saved' \in Tables
    BY <2>1, <2>5, ExecuteTypes
  <2>7. CASE at.row < Len(Entry.data)
    <3>1. /\ at' \in Places /\ at'.pkg = at.pkg /\ at'.entry = at.entry /\ at'.row = at.row + 1
          /\ phase' = "rows"
      BY <1>0, <2>1, <2>7 DEF Places
    <3>2. Entry' = Entry /\ Pkg' = Pkg
      BY <2>1, <3>1 DEF Entry, Pkg
    <3>3. at'.row <= Len(s)
      BY <1>0, <2>2, <2>3, <2>7, <3>1
    <3> QED
      BY <2>1, <2>2, <2>6, <3>1, <3>2, <3>3 DEF TypeInv, InPackage
  <2>8. CASE ~ (at.row < Len(Entry.data))
    BY <1>4, <2>1, <2>6, <2>8 DEF TypeInv, InPackage
  <2> QED
    BY <2>7, <2>8
<1>10. CASE ExecPair
  <2>1. /\ InPackage /\ NextEntry /\ at.entry <= Len(Pkg.entries) /\ Entry.type = "exec" /\ phase = "entry"
        /\ Execute(Stmt("alter", {}, Entry.to)) /\ UNCHANGED <<job, base, phase, groups>>
    BY <1>10 DEF ExecPair, AtEntry, InPackage
  <2>2. Entry.to \in Values /\ Entry.back \in Values \cup {None}
    BY <2>1, JobFacts DEF EntryOk
  <2>3. Stmt("alter", {}, Entry.to) \in Stmts /\ Stmt("alter", {}, Entry.back) \in Stmts
    BY <2>2 DEF Stmt, Stmts
  <2>4. db' \in [Databases -> Tables] /\ saved' \in Tables
    BY <2>1, <2>3, ExecuteTypes
  <2>5. OldDefinition \in Values \cup {None}
    BY <2>1, JobFacts DEF OldDefinition, TypeInv, Tables, Contents
  <2>6. Stmt("alter", {}, OldDefinition) \in Stmts
    BY <2>5 DEF Stmt, Stmts
  <2>7. rb' \in Seq(Stmts) /\ unrollback' \in BOOLEAN
    <3>0. rb \in Seq(Stmts) /\ unrollback \in BOOLEAN
      BY DEF TypeInv
    <3>1. \/ rb' = Append(rb, Stmt("alter", {}, Entry.back)) /\ unrollback' = unrollback
          \/ rb' = Append(rb, Stmt("alter", {}, OldDefinition)) /\ unrollback' = unrollback
          \/ unrollback' = TRUE /\ rb' = rb
      BY <1>10 DEF ExecPair
    <3>2. \A x \in Stmts : Append(rb, x) \in Seq(Stmts)
      BY <3>0
    <3>3. rb' \in Seq(Stmts)
      BY <2>3, <2>6, <3>0, <3>1, <3>2
    <3>4. unrollback' \in BOOLEAN
      BY <3>0, <3>1
    <3> QED
      BY <3>3, <3>4
  <2> QED
    BY <1>4, <2>1, <2>4, <2>7 DEF TypeInv, InPackage
<1>11. CASE Commit
  <2>1. /\ InPackage /\ phase' = "packages" /\ groups' = AddRollback(rb) /\ rb' = <<>>
        /\ UNCHANGED <<job, db, base, saved, unrollback>>
        /\ at' = [at EXCEPT !.pkg = @ + 1, !.entry = 1, !.row = 1]
    BY <1>11 DEF Commit, InPackage
  <2>2. at' \in Places /\ at'.row = 1
    <3>1. at' = [sql |-> at.sql, pkg |-> at.pkg + 1, entry |-> 1, row |-> 1]
      BY <1>00, <2>1, NextPlace
    <3>2. 1 \in Nat \ {0}
      OBVIOUS
    <3> QED
      BY <1>0, <1>00, <3>1, <3>2, NextPlace DEF Places
  <2>3. groups' \in UNION {[S -> Seq(Stmts)] : S \in SUBSET Databases}
    BY <2>1, GroupTypes DEF TypeInv
  <2> QED
    BY <2>1, <2>2, <2>3 DEF TypeInv, InPackage
<1>12. ASSUME NEW undo \in Seq(Stmts), InPackage, AbortWith(undo) PROVE TypeInv'
  <2>1. PICK content \in RolledBack : db' = [db EXCEPT ![D] = content]
    BY <1>12 DEF AbortWith
  <2>2. D \in Databases /\ content \in Tables
    BY <1>12, JobFacts DEF RolledBack, TypeInv
  <2>3. db' \in [Databases -> Tables]
    BY <2>1, <2>2 DEF TypeInv
  <2>4. groups' \in UNION {[S -> Seq(Stmts)] : S \in SUBSET Databases}
    BY <1>12, GroupTypes DEF AbortWith
  <2> QED
    BY <1>12, <2>3, <2>4 DEF AbortWith, TypeInv, InPackage
<1>13. CASE Abort
  <2>1. rb \in Seq(Stmts) /\ InPackage /\ AbortWith(rb)
    BY <1>13 DEF Abort, TypeInv, InPackage
  <2> QED
    BY <1>12, <2>1
<1>14. CASE ReadFails
  <2>1. /\ InPackage /\ at.entry <= Len(Pkg.entries) /\ Entry.type = "upsert"
    BY <1>14 DEF ReadFails, AtEntry, InPackage
  <2>2. PICK n \in 0 .. Len(OldRows) :
          AbortWith(Append(rb, Stmt("delete", EntryKeys, None)) \o SubSeq(OldRows, 1, n))
    BY <1>14 DEF ReadFails
  <2>3. PICK old : old = OldRows
    OBVIOUS
  <2>4. old \in Seq(Stmts) /\ n \in 0 .. Len(old)
    BY <2>1, <2>2, <2>3, OldRowsArePuts
  <2>5. SubSeq(old, 1, n) \in Seq(Stmts)
    BY <2>4
  <2>6. Stmt("delete", EntryKeys, None) \in Stmts
    BY <2>1, UpsertFacts DEF Stmts, Stmt
  <2>7. Append(rb, Stmt("delete", EntryKeys, None)) \o SubSeq(OldRows, 1, n) \in Seq(Stmts)
    BY <2>3, <2>5, <2>6 DEF TypeInv
  <2> QED
    BY <1>12, <2>1, <2>2, <2>7
<1>15. CASE WriteRollbacks
  BY <1>15 DEF WriteRollbacks, TypeInv, InPackage
<1>16. CASE UNCHANGED vars
  BY <1>16 DEF vars, TypeInv, InPackage, Pkg, Entry
<1> QED
  BY <1>1, <1>2, <1>3, <1>5, <1>6, <1>7, <1>8, <1>9, <1>10, <1>11, <1>13, <1>14, <1>15, <1>16 DEF Next

-----------------------------------------------------------------------------
(* The packages an import can undo: in a database that has the table no row    *)
(* is written twice, no column redefined twice, and a paired rollback names    *)
(* the definition that was there.  Where the table is missing the packages may *)
(* be any, and what fails is left open.                                        *)
Entries(d) ==
    {x \in (1 .. Len(job.pkgs)) \X (Nat \ {0}) :
        job.pkgs[x[1]].db = d /\ x[2] <= Len(job.pkgs[x[1]].entries)}
EntryAt(x) == job.pkgs[x[1]].entries[x[2]]
Writes(e)  == e.type = "upsert" /\ e.pk
KeysIn(e)  == {e.data[i].key : i \in DOMAIN e.data}

Fits(d) ==
    /\ \A x, y \in Entries(d) : x # y =>
          /\ Writes(EntryAt(x)) /\ Writes(EntryAt(y)) => KeysIn(EntryAt(x)) \cap KeysIn(EntryAt(y)) = {}
          /\ EntryAt(x).type # "exec" \/ EntryAt(y).type # "exec"
    /\ \A x \in Entries(d) : EntryAt(x).type = "exec" => EntryAt(x).back \in {None, base[d].col}
PackagesFit == phase # "sql" => \A d \in Databases : base[d].exists => Fits(d)

-----------------------------------------------------------------------------
(* What was applied so far is undone by what was collected so far.            *)
Passed(x) ==
    \/ x[1] < at.pkg
    \/ x[1] = at.pkg /\ InPackage /\ x[2] < at.entry
    \/ x[1] = at.pkg /\ phase \in {"delete", "rows"} /\ x[2] = at.entry
KeysDone(d) == {k \in Keys : \E x \in Entries(d) : Passed(x) /\ Writes(EntryAt(x)) /\ k \in KeysIn(EntryAt(x))}
ColDone(d)  == \E x \in Entries(d) : Passed(x) /\ EntryAt(x).type = "exec"

(* Outside the rows K and, but for u, the column, table c is as before.       *)
Agrees(c, b, K, u) ==
    /\ c.exists /\ \A k \in Keys \ K : c.rows[k] = b.rows[k]
    /\ ~u => c.col = b.col

Covers(d, K, u) ==
    /\ Lays(Collected(d), K, base[d].rows, u, base[d].col)
    /\ Agrees(db[d], base[d], K, u)
    /\ InPackage /\ D = d => Agrees(saved, base[d], K, u)
    /\ AtWork => K \subseteq KeysDone(d) /\ (u => ColDone(d))
    /\ phase \in {"delete", "rows"} /\ D = d => EntryKeys \subseteq K

(* Of a database without the table: nothing happened to it, or the undo drops *)
(* the table, whatever comes after.                                           *)
DropIt == Stmt("drop", {}, None)
Drops(s) == \A c \in Tables : Replay(c, s).content = NoTable
Uncreated(d) ==
    \/ /\ Collected(d) = <<>> /\ db[d] = base[d]
       /\ InPackage /\ D = d => saved = base[d]
    \/ Drops(Collected(d))

(* No row of d was lost for want of reading it.                               *)
AllRead(d) == \A k \in Keys : <<d, k>> \notin torn

UndoInv ==
    phase \notin {"sql", "failed"} /\ ~unrollback =>
        \A d \in Databases :
            \/ /\ AllRead(d)
               /\ base[d].exists => \E K \in SUBSET Keys, u \in BOOLEAN : Covers(d, K, u)
               /\ ~base[d].exists => Uncreated(d)
            \/ phase = "salvage" /\ Undone(d, Collected(d))

(* Rows are lost only where the reading of them failed the import.            *)
TornInv ==
    /\ torn \subseteq Databases \X Keys
    /\ phase \notin {"salvage", "failed"} => torn = {}

(* Before the first package nothing is collected, and files come last.        *)
FreshInv ==
    /\ phase = "sql" => DOMAIN groups = {} /\ rb = <<>> /\ unrollback = FALSE
    /\ ~InPackage => rb = <<>>
    /\ phase \notin {"ok", "failed"} => DOMAIN files = {}

(* While the first package is applied nothing else has changed.               *)
FirstInv ==
    /\ phase \notin {"sql", "failed"} => at.sql > Len(job.sqls)
    /\ at.pkg = 1 =>
          /\ phase = "packages" => db = base /\ DOMAIN groups = {}
          /\ InPackage =>
                /\ DOMAIN groups = {}
                /\ \A d \in Databases \ {D} : db[d] = base[d]
                /\ ~DDLCommits => saved = base[D]
          /\ phase = "salvage" => \A d \in Databases : db[d] = base[d] \/ d \in DOMAIN groups
          /\ phase # "write"
    /\ FailureCovered

(* A database that was changed has a group of statements.                     *)
LossInv ==
    /\ phase = "packages" => \A d \in Databases : db[d] = base[d] \/ d \in DOMAIN groups
    /\ InPackage => \A d \in Databases \ {D} : db[d] = base[d] \/ d \in DOMAIN groups
    /\ NoSilentLoss

-----------------------------------------------------------------------------
LEMMA GroupSeqs == ASSUME TypeInv PROVE \A d \in Databases : CollectedBefore(d) \in Seq(Stmts)
<1>1. PICK S \in SUBSET Databases : groups \in [S -> Seq(Stmts)]
  BY DEF TypeInv
<1> QED
  BY <1>1 DEF CollectedBefore

LEMMA CollectedIs ==
    ASSUME TypeInv, NEW d \in Databases
    PROVE  /\ Collected(d) \in Seq(Stmts)
           /\ InPackage /\ D = d => Collected(d) = CollectedBefore(d) \o rb
           /\ ~(InPackage /\ D = d) => Collected(d) = CollectedBefore(d)
<1>1. CollectedBefore(d) \in Seq(Stmts) /\ rb \in Seq(Stmts)
  BY GroupSeqs DEF TypeInv
<1>2. CASE InPackage /\ D = d
  BY <1>1, <1>2 DEF Collected, InPackage
<1>3. CASE ~(InPackage /\ D = d)
  <2>1. Collected(d) = CollectedBefore(d) \o <<>>
    BY <1>3 DEF Collected, InPackage
  <2> QED
    BY <1>1, <1>3, <2>1
<1> QED
  BY <1>2, <1>3

LEMMA CollectedNext ==
    ASSUME TypeInv', NEW d \in Databases
    PROVE  /\ (InPackage /\ D = d)' => Collected(d)' = CollectedBefore(d)' \o rb'
           /\ ~(InPackage /\ D = d)' => Collected(d)' = CollectedBefore(d)'
<1>0. PICK S \in SUBSET Databases : groups' \in [S -> Seq(Stmts)]
  BY DEF TypeInv
<1>1. CollectedBefore(d)' \in Seq(Stmts)
  BY <1>0 DEF CollectedBefore
<1>2. CASE (InPackage /\ D = d)'
  BY <1>1, <1>2 DEF Collected, InPackage
<1>3. CASE ~(InPackage /\ D = d)'
  <2>1. Collected(d)' = CollectedBefore(d)' \o <<>>
    BY <1>3 DEF Collected, InPackage
  <2> QED
    BY <1>1, <1>3, <2>1
<1> QED
  BY <1>2, <1>3

LEMMA Added ==
    ASSUME TypeInv, InPackage, NEW undo \in Seq(Stmts), groups' = AddRollback(undo), NEW d \in Databases
    PROVE  /\ CollectedBefore(d)' = IF d = D THEN CollectedBefore(d) \o undo ELSE CollectedBefore(d)
           /\ DOMAIN groups' = DOMAIN groups \cup {D}
  BY DEF AddRollback, CollectedBefore

(* The job stays, and so does what was there before the packages.             *)
LEMMA Stays == Next => job' = job /\ (unrollback => unrollback') /\ (phase # "sql" => base' = base)
  BY DEF Next, ImportSQL, SQLFails, SQLDone, BeginPackage, PackageRefused, CreateTable, UpsertSkip,
         UpsertCollect, UpsertDelete, UpsertRow, ExecPair, Commit, Abort, AbortWith, ReadFails, Finish,
         WriteRollbacks

(* Steps of a package, by what they do.                                       *)
Aborts == \E undo \in Seq(Stmts) : AbortWith(undo) /\ ((undo = rb /\ UNCHANGED torn) \/ ReadFails)
Inside ==
    CreateTable \/ UpsertSkip \/ UpsertCollect \/ UpsertDelete \/ UpsertRow \/ ExecPair

LEMMA StepKinds ==
    ASSUME TypeInv, Next
    PROVE  \/ ImportSQL \/ SQLFails \/ SQLDone \/ BeginPackage \/ PackageRefused \/ Finish \/ WriteRollbacks
           \/ InPackage /\ Inside
           \/ InPackage /\ Commit
           \/ InPackage /\ Aborts
<1>1. CASE Inside
  BY <1>1 DEF Inside, InPackage, CreateTable, UpsertSkip, UpsertCollect, UpsertDelete, UpsertRow, ExecPair, AtEntry
<1>2. CASE Commit
  BY <1>2 DEF Commit, InPackage
<1>3. CASE Abort
  BY <1>3 DEF Abort, InPackage, Aborts, TypeInv
<1>4. CASE ReadFails
  <2>1. /\ InPackage /\ at.entry <= Len(Pkg.entries) /\ Entry.type = "upsert"
    BY <1>4 DEF ReadFails, AtEntry, InPackage
  <2>2. PICK n \in 0 .. Len(OldRows) :
          AbortWith(Append(rb, Stmt("delete", EntryKeys, None)) \o SubSeq(OldRows, 1, n))
    BY <1>4 DEF ReadFails
  <2>3. PICK old : old = OldRows
    OBVIOUS
  <2>4. old \in Seq(Stmts) /\ n \in 0 .. Len(old)
    BY <2>1, <2>2, <2>3, OldRowsArePuts
  <2>5. SubSeq(old, 1, n) \in Seq(Stmts)
    BY <2>4
  <2>6. Stmt("delete", EntryKeys, None) \in Stmts
    BY <2>1, UpsertFacts DEF Stmts, Stmt
  <2>7. Append(rb, Stmt("delete", EntryKeys, None)) \o SubSeq(OldRows, 1, n) \in Seq(Stmts)
    BY <2>3, <2>5, <2>6 DEF TypeInv
  <2> QED
    BY <1>4, <2>1, <2>2, <2>7 DEF Aborts
<1> QED
  BY <1>1, <1>2, <1>3, <1>4 DEF Next, Inside

(* Inside a package only its own database changes, through one statement.     *)
LEMMA InsideKeeps ==
    ASSUME TypeInv, InPackage, Inside
    PROVE  /\ UNCHANGED <<job, base, groups, files>> /\ at'.pkg = at.pkg /\ at'.sql = at.sql /\ InPackage' /\ D' = D
           /\ \A d \in Databases \ {D} : db'[d] = db[d]
           /\ ~DDLCommits => saved' = saved
           /\ phase' \in {"entry", "delete", "rows"}
<1>0. at \in Places
  BY DEF TypeInv
<1>1. NextEntry => at'.pkg = at.pkg /\ at'.sql = at.sql
  <2> SUFFICES ASSUME NextEntry PROVE at'.pkg = at.pkg /\ at'.sql = at.sql
    OBVIOUS
  <2>1. at' = [sql |-> at.sql, pkg |-> at.pkg, entry |-> at.entry + 1, row |-> 1]
    BY <1>0, NextPlace DEF NextEntry
  <2> QED
    BY <2>1
<1>2. at' = [at EXCEPT !.row = @ + 1] => at'.pkg = at.pkg /\ at'.sql = at.sql
  BY <1>0, NextPlace
<1>3. ASSUME at'.pkg = at.pkg, job' = job PROVE D' = D
  BY <1>3 DEF D, Pkg
<1>4. ASSUME NEW s, Execute(s)
      PROVE  (\A d \in Databases \ {D} : db'[d] = db[d]) /\ (~DDLCommits => saved' = saved)
  BY <1>4 DEF Execute, TypeInv
<1>5. CASE CreateTable
  BY <1>1, <1>3, <1>4, <1>5 DEF CreateTable, AtEntry, InPackage
<1>6. CASE UpsertSkip
  BY <1>1, <1>3, <1>6 DEF UpsertSkip, AtEntry, InPackage
<1>7. CASE UpsertCollect
  BY <1>3, <1>7 DEF UpsertCollect, AtEntry, InPackage
<1>8. CASE UpsertDelete
  BY <1>3, <1>4, <1>8 DEF UpsertDelete, InPackage
<1>9. CASE UpsertRow
  BY <1>1, <1>2, <1>3, <1>4, <1>9 DEF UpsertRow, InPackage
<1>10. CASE ExecPair
  BY <1>1, <1>3, <1>4, <1>10 DEF ExecPair, AtEntry, InPackage
<1> QED
  BY <1>5, <1>6, <1>7, <1>8, <1>9, <1>10 DEF Inside

-----------------------------------------------------------------------------
LEMMA FreshStep == ASSUME TypeInv, FreshInv, [Next]_vars PROVE FreshInv'
<1>1. CASE UNCHANGED vars
  BY <1>1 DEF vars, FreshInv, InPackage
<1>2. CASE Next
  <2>1. CASE ImportSQL \/ SQLFails \/ SQLDone \/ BeginPackage \/ PackageRefused \/ Finish \/ WriteRollbacks
    BY <2>1 DEF ImportSQL, SQLFails, SQLDone, BeginPackage, PackageRefused, Finish, WriteRollbacks,
                FreshInv, InPackage
  <2>2. CASE InPackage /\ Inside
    <3>1. UNCHANGED files /\ InPackage'
      BY <2>2, InsideKeeps
    <3> QED
      BY <2>2, <3>1 DEF FreshInv, InPackage
  <2>3. CASE InPackage /\ Commit
    BY <2>3 DEF Commit, FreshInv, InPackage
  <2>4. CASE InPackage /\ Aborts
    BY <2>4 DEF Aborts, AbortWith, FreshInv, InPackage
  <2> QED
    BY <1>2, <2>1, <2>2, <2>3, <2>4, StepKinds
<1> QED
  BY <1>1, <1>2

LEMMA LossStep == ASSUME TypeInv, FreshInv, LossInv, [Next]_vars PROVE LossInv'
<1>1. CASE UNCHANGED vars
  <2>1. D' = D
    BY <1>1 DEF vars, D, Pkg
  <2> QED
    BY <1>1, <2>1 DEF vars, LossInv, NoSilentLoss, InPackage
<1>2. CASE Next
  <2>1. CASE ImportSQL \/ SQLFails \/ SQLDone \/ PackageRefused \/ WriteRollbacks
    BY <2>1 DEF ImportSQL, SQLFails, SQLDone, PackageRefused, WriteRollbacks,
                FreshInv, LossInv, NoSilentLoss, InPackage
  <2>2. CASE BeginPackage
    BY <2>2 DEF BeginPackage, LossInv, NoSilentLoss, InPackage
  <2>3. CASE Finish
    BY <2>3 DEF Finish, LossInv, NoSilentLoss, InPackage
  <2>4. CASE InPackage /\ Inside
    BY <2>4, InsideKeeps DEF LossInv, NoSilentLoss, InPackage
  <2>5. CASE InPackage /\ Commit
    <3>1. rb \in Seq(Stmts) /\ groups' = AddRollback(rb)
      BY <2>5 DEF Commit, TypeInv
    <3>2. DOMAIN groups' = DOMAIN groups \cup {D}
      BY <2>5, <3>1 DEF AddRollback
    <3> QED
      BY <2>5, <3>2 DEF Commit, LossInv, NoSilentLoss, InPackage
  <2>6. CASE InPackage /\ Aborts
    BY <2>6 DEF Aborts, AbortWith, LossInv, NoSilentLoss, InPackage
  <2> QED
    BY <1>2, <2>1, <2>2, <2>3, <2>4, <2>5, <2>6, StepKinds
<1> QED
  BY <1>1, <1>2

LEMMA FirstStep == ASSUME TypeInv, FreshInv, FirstInv, [Next]_vars PROVE FirstInv'
<1>0. /\ at \in Places /\ at.pkg \in Nat \ {0} /\ at.sql \in Nat \ {0} /\ Len(job.sqls) \in Nat
  BY JobFacts DEF TypeInv, Places
<1>1. CASE UNCHANGED vars
  <2>1. D' = D
    BY <1>1 DEF vars, D, Pkg
  <2> QED
    BY <1>1, <2>1 DEF vars, FirstInv, FailureCovered, InPackage, DDLCommits, Faults
<1>2. CASE Next
  <2>0. Faults' = Faults /\ DDLCommits' = DDLCommits /\ job' = job
    BY <1>2, Stays DEF Faults, DDLCommits
  <2>1. CASE ImportSQL
    BY <2>1 DEF ImportSQL, FirstInv, FailureCovered, InPackage
  <2>2. CASE SQLFails
    BY <1>0, <2>2 DEF SQLFails, FirstInv, FailureCovered, InPackage
  <2>3. CASE SQLDone
    BY <1>0, <2>3 DEF SQLDone, FirstInv, FreshInv, FailureCovered, InPackage
  <2>4. CASE BeginPackage
    <3>1. at'.pkg = at.pkg /\ at'.sql = at.sql
      BY <1>0, <2>4 DEF BeginPackage, Places
    <3>2. D' = D
      BY <2>0, <3>1 DEF D, Pkg
    <3>3. phase = "packages" /\ phase' = "entry" /\ saved' = db[D] /\ UNCHANGED <<db, base, groups, files>>
      BY <2>4 DEF BeginPackage
    <3> QED
      BY <2>0, <3>1, <3>2, <3>3 DEF FirstInv, FailureCovered, InPackage
  <2>5. CASE PackageRefused \/ Finish
    <3>1. /\ phase = "packages" /\ phase' \in {"failed", "ok", "write"} /\ UNCHANGED <<db, base, at, groups, files>>
          /\ phase' = "write" => DOMAIN groups # {}
      BY <2>5 DEF PackageRefused, Finish
    <3> QED
      BY <2>0, <3>1 DEF FirstInv, FailureCovered, InPackage
  <2>6. CASE WriteRollbacks
    <3>1. PICK lost \in SUBSET DOMAIN groups :
            /\ "write" \in Faults \/ lost = {}
            /\ files' = [d \in DOMAIN groups \ lost |-> groups[d]]
      BY <2>6 DEF WriteRollbacks
    <3>2. /\ phase \in {"write", "salvage"} /\ phase' \in {"failed", "ok"} /\ UNCHANGED <<db, base, at, groups>>
      BY <2>6 DEF WriteRollbacks
    <3>3. "write" \notin Faults => DOMAIN files' = DOMAIN groups
      BY <3>1
    <3> QED
      BY <2>0, <3>2, <3>3 DEF FirstInv, FailureCovered, InPackage
  <2>7. CASE InPackage /\ Inside
    <3>1. phase' \notin {"packages", "salvage", "write", "failed", "sql"}
      BY <2>7, InsideKeeps
    <3> QED
      BY <2>0, <2>7, <3>1, InsideKeeps DEF FirstInv, FailureCovered, InPackage
  <2>8. CASE InPackage /\ Commit
    <3>1. at' = [sql |-> at.sql, pkg |-> at.pkg + 1, entry |-> 1, row |-> 1]
      BY <1>0, <2>8, NextPlace DEF Commit
    <3>2. at'.pkg # 1 /\ at'.sql = at.sql
      BY <1>0, <3>1
    <3> QED
      BY <2>0, <2>8, <3>2 DEF Commit, FirstInv, FailureCovered, InPackage
  <2>9. CASE InPackage /\ Aborts
    <3>1. PICK undo \in Seq(Stmts) : AbortWith(undo)
      BY <2>9 DEF Aborts
    <3>2. PICK content \in RolledBack : db' = [db EXCEPT ![D] = content]
      BY <3>1 DEF AbortWith
    <3>3. DOMAIN groups' = DOMAIN groups \cup {D}
      BY <2>9, <3>1 DEF AbortWith, AddRollback
    <3>4. phase' = (IF DDLCommits THEN "salvage" ELSE "failed") /\ UNCHANGED <<base, at>>
      BY <3>1 DEF AbortWith
    <3>5. \A d \in Databases \ {D} : db'[d] = db[d]
      BY <3>2 DEF TypeInv
    <3>6. ~DDLCommits => db'[D] = saved
      <4>1. D \in Databases
        BY <2>9, JobFacts
      <4> QED
        BY <3>2, <4>1 DEF RolledBack, DDLNext, TypeInv
    <3> QED
      BY <2>0, <2>9, <3>3, <3>4, <3>5, <3>6 DEF FirstInv, FailureCovered, InPackage
  <2> QED
    BY <1>2, <2>1, <2>2, <2>3, <2>4, <2>5, <2>6, <2>7, <2>8, <2>9, StepKinds
<1> QED
  BY <1>1, <1>2

LEMMA TornStep == ASSUME TypeInv, TornInv, [Next]_vars PROVE TornInv'
<1>1. CASE UNCHANGED vars
  BY <1>1 DEF vars, TornInv
<1>2. CASE Next /\ ~ReadFails
  <2>1. torn' = torn /\ (phase \in {"salvage", "failed"} => phase' = "failed")
    BY <1>2 DEF Next, ImportSQL, SQLFails, SQLDone, BeginPackage, PackageRefused, CreateTable, UpsertSkip,
                UpsertCollect, UpsertDelete, UpsertRow, ExecPair, Commit, Abort, AbortWith, Finish,
                WriteRollbacks, AtEntry
  <2> QED
    BY <2>1 DEF TornInv
<1>3. CASE ReadFails
  <2>1. /\ InPackage /\ at.entry <= Len(Pkg.entries) /\ Entry.type = "upsert"
    BY <1>3 DEF ReadFails, AtEntry, InPackage
  <2>2. PICK n \in 0 .. Len(OldRows) :
          /\ AbortWith(Append(rb, Stmt("delete", EntryKeys, None)) \o SubSeq(OldRows, 1, n))
          /\ torn' = {D} \X Unread(n)
    BY <1>3 DEF ReadFails
  <2>3. D \in Databases /\ EntryKeys \subseteq Keys
    BY <2>1, JobFacts, UpsertFacts
  <2>4. Unread(n) \subseteq Keys
    BY <2>3 DEF Unread
  <2>5. phase' \in {"salvage", "failed"}
    BY <2>2 DEF AbortWith
  <2> QED
    BY <2>2, <2>3, <2>4, <2>5 DEF TornInv
<1> QED
  BY <1>1, <1>2, <1>3

LEMMA FilesStep == ASSUME TypeInv, FreshInv, RollbackReady, FilesRestore, [Next]_vars PROVE FilesRestore'
<1>1. CASE UNCHANGED vars
  BY <1>1 DEF vars, FilesRestore, Undone, Restored
<1>2. CASE WriteRollbacks
  <2>1. PICK lost \in SUBSET DOMAIN groups : files' = [d \in DOMAIN groups \ lost |-> groups[d]]
    BY <1>2 DEF WriteRollbacks
  <2>2. phase \in {"write", "salvage"} /\ UNCHANGED <<db, base, unrollback, torn>>
    BY <1>2 DEF WriteRollbacks
  <2> SUFFICES ASSUME ~unrollback, NEW d \in DOMAIN files'
               PROVE  Undone(d, files'[d])
    BY <2>2 DEF FilesRestore, Undone, Restored
  <2>3. d \in DOMAIN groups /\ files'[d] = groups[d] /\ d \in Databases
    BY <2>1 DEF TypeInv
  <2>4. Collected(d) = groups[d]
    BY <2>2, <2>3, CollectedIs DEF CollectedBefore, InPackage
  <2> QED
    BY <2>2, <2>3, <2>4 DEF RollbackReady
<1>3. CASE Next /\ ~WriteRollbacks
  <2>1. DOMAIN files' = {} \/ phase' \notin {"ok", "failed"}
    <3>1. CASE ImportSQL \/ SQLFails \/ SQLDone \/ BeginPackage \/ PackageRefused \/ Finish
      BY <3>1 DEF ImportSQL, SQLFails, SQLDone, BeginPackage, PackageRefused, Finish, FreshInv
    <3>2. CASE InPackage /\ Inside
      BY <3>2, InsideKeeps
    <3>3. CASE InPackage /\ Commit
      BY <3>3 DEF Commit
    <3>4. CASE InPackage /\ Aborts
      BY <3>4 DEF Aborts, AbortWith, FreshInv, InPackage
    <3> QED
      BY <1>3, <3>1, <3>2, <3>3, <3>4, StepKinds
  <2> QED
    BY <2>1 DEF FilesRestore
<1> QED
  BY <1>1, <1>2, <1>3

-----------------------------------------------------------------------------
(* What covers a database suffices to restore it.                             *)
LEMMA CoverRestores ==
    ASSUME TypeInv, NEW d \in Databases, base[d].exists, NEW K \in SUBSET Keys, NEW u \in BOOLEAN, Covers(d, K, u)
    PROVE  Replay(db[d], Collected(d)) = [ok |-> TRUE, content |-> base[d]]
<1> DEFINE c == db[d]
           b == base[d]
<1>1. c \in Contents /\ b \in Contents /\ c.exists
  BY DEF TypeInv, Tables, Covers, Agrees
<1>2. Replay(c, Collected(d)) = [ok |-> TRUE, content |-> Laid(c, K, b.rows, u, b.col)]
  BY <1>1 DEF Covers, Lays
<1>3. Laid(c, K, b.rows, u, b.col) = b
  <2>1. /\ \A k \in Keys \ K : c.rows[k] = b.rows[k]
        /\ ~u => c.col = b.col
    BY DEF Covers, Agrees
  <2>2. b = [exists |-> TRUE, rows |-> b.rows, col |-> b.col] /\ b.rows = [k \in Keys |-> b.rows[k]]
    BY <1>1 DEF Contents
  <2> HIDE DEF c, b
  <2>3. \A k \in Keys : (IF k \in K THEN b.rows[k] ELSE c.rows[k]) = b.rows[k]
    BY <2>1
  <2>4. [k \in Keys |-> IF k \in K THEN b.rows[k] ELSE c.rows[k]] = b.rows
    BY <2>2, <2>3
  <2>5. (IF u THEN b.col ELSE c.col) = b.col
    BY <2>1
  <2> QED
    BY <2>2, <2>4, <2>5 DEF Laid
<1> QED
  BY <1>2, <1>3

LEMMA MissingIsNone == ASSUME TypeInv, NEW d \in Databases, ~base[d].exists PROVE base[d] = NoTable
  BY DEF TypeInv, Tables

LEMMA ReadIsRestored ==
    ASSUME TypeInv, NEW d \in Databases, AllRead(d)
    PROVE  Restored(d) = base[d]
<1> DEFINE r == [k \in Keys |-> IF <<d, k>> \in torn THEN None ELSE base[d].rows[k]]
<1>1. base[d] \in Contents
  BY DEF TypeInv, Tables
<1>2. Restored(d) = [base[d] EXCEPT !.rows = r]
  BY DEF Restored
<1>3. r = base[d].rows
  BY <1>1 DEF Contents, AllRead
<1> HIDE DEF r
<1>4. [base[d] EXCEPT !.rows = base[d].rows] = base[d]
  BY <1>1 DEF Contents
<1> QED
  BY <1>2, <1>3, <1>4

LEMMA MissingIsRestored ==
    ASSUME TypeInv, NEW d \in Databases, ~base[d].exists
    PROVE  Restored(d) = NoTable
<1>1. base[d] = NoTable
  BY MissingIsNone
<1> DEFINE r == [k \in Keys |-> IF <<d, k>> \in torn THEN None ELSE base[d].rows[k]]
<1>2. Restored(d) = [NoTable EXCEPT !.rows = r]
  BY <1>1 DEF Restored
<1>3. r = [k \in Keys |-> None]
  BY <1>1 DEF NoTable
<1> HIDE DEF r
<1> QED
  BY <1>2, <1>3 DEF NoTable

LEMMA UndoRestores == ASSUME TypeInv, UndoInv PROVE RollbackReady
<1> SUFFICES ASSUME phase \notin {"sql", "failed"}, ~unrollback, NEW d \in Databases
             PROVE  Undone(d, Collected(d))
  BY DEF RollbackReady
<1>1. CASE Undone(d, Collected(d))
  BY <1>1
<1>2. CASE base[d].exists /\ AllRead(d) /\ \E K \in SUBSET Keys, u \in BOOLEAN : Covers(d, K, u)
  <2>1. PICK K \in SUBSET Keys, u \in BOOLEAN : Covers(d, K, u)
    BY <1>2
  <2>2. Replay(db[d], Collected(d)) = [ok |-> TRUE, content |-> base[d]]
    BY <1>2, <2>1, CoverRestores
  <2>3. Restored(d) = base[d]
    BY <1>2, ReadIsRestored
  <2> QED
    BY <2>2, <2>3 DEF Undone
<1>3. CASE ~base[d].exists /\ Uncreated(d)
  <2>1. base[d] = NoTable /\ Restored(d) = NoTable /\ db[d] \in Tables
    BY <1>3, MissingIsNone, MissingIsRestored DEF TypeInv
  <2>2. CASE Collected(d) = <<>> /\ db[d] = base[d]
    BY <1>3, <2>1, <2>2, ReplayNothing DEF Undone
  <2>3. CASE Drops(Collected(d))
    BY <1>3, <2>1, <2>3 DEF Undone, Drops
  <2> QED
    BY <1>3, <2>2, <2>3 DEF Uncreated
<1> QED
  BY <1>1, <1>2, <1>3 DEF UndoInv

(* Entries are only ever passed, and the current one is not yet.              *)
LEMMA PassedGrows ==
    ASSUME TypeInv, Next, AtWork, AtWork', NEW d \in Databases, NEW x \in Entries(d), Passed(x)
    PROVE  Passed(x)'
<1>0. /\ at \in Places /\ at.pkg \in Nat \ {0} /\ at.entry \in Nat \ {0} /\ phase # "sql"
      /\ x[1] \in Nat /\ x[2] \in Nat \ {0}
  BY JobFacts DEF TypeInv, Places, AtWork, InPackage, Entries
<1>00. NextEntry => at'.pkg = at.pkg /\ at'.entry = at.entry + 1
  <2>1. NextEntry => at' = [sql |-> at.sql, pkg |-> at.pkg, entry |-> at.entry + 1, row |-> 1]
    BY <1>0, NextPlace DEF NextEntry
  <2> QED
    BY <2>1
<1>1. CASE BeginPackage
  <2>1. phase = "packages" /\ phase' = "entry" /\ at'.pkg = at.pkg
    BY <1>0, <1>1 DEF BeginPackage, Places
  <2> QED
    BY <2>1 DEF Passed, InPackage
<1>2. CASE InPackage /\ Inside
  <2>1. at'.pkg = at.pkg /\ InPackage'
    BY <1>2, InsideKeeps
  <2>2. CASE UpsertCollect
    BY <2>1, <2>2 DEF UpsertCollect, AtEntry, Passed, InPackage
  <2>3. CASE UpsertDelete
    BY <2>1, <2>3 DEF UpsertDelete, Passed, InPackage
  <2>4. CASE NextEntry
    BY <1>0, <1>00, <2>1, <2>4 DEF Passed, InPackage
  <2>5. CASE UpsertRow /\ ~NextEntry
    <3>1. at' = [at EXCEPT !.row = @ + 1] /\ phase = "rows" /\ phase' = phase
      BY <2>5 DEF UpsertRow
    <3>2. at' = [sql |-> at.sql, pkg |-> at.pkg, entry |-> at.entry, row |-> at.row + 1]
      BY <1>0, <3>1, NextPlace
    <3> QED
      BY <3>1, <3>2 DEF Passed, InPackage
  <2> QED
    BY <1>2, <2>2, <2>3, <2>4, <2>5 DEF Inside, CreateTable, UpsertSkip, ExecPair
<1>3. CASE InPackage /\ Commit
  <2>1. at' = [sql |-> at.sql, pkg |-> at.pkg + 1, entry |-> 1, row |-> 1]
    BY <1>0, <1>3, NextPlace DEF Commit
  <2> QED
    BY <1>0, <2>1 DEF Passed
<1>4. CASE ImportSQL \/ SQLFails \/ SQLDone \/ PackageRefused \/ Finish \/ WriteRollbacks
  BY <1>4, <1>0 DEF ImportSQL, SQLFails, SQLDone, PackageRefused, Finish, WriteRollbacks, AtWork, InPackage
<1>5. CASE InPackage /\ Aborts
  BY <1>5 DEF Aborts, AbortWith, AtWork, InPackage
<1> QED
  BY <1>1, <1>2, <1>3, <1>4, <1>5, StepKinds

LEMMA DoneGrows ==
    ASSUME TypeInv, Next, AtWork, AtWork', NEW d \in Databases
    PROVE  /\ Entries(d)' = Entries(d)
           /\ KeysDone(d) \subseteq KeysDone(d)'
           /\ ColDone(d) => ColDone(d)'
           /\ (\A x \in Entries(d) : Passed(x)) => (\A x \in Entries(d) : Passed(x))'
<1>1. job' = job
  BY Stays
<1>2. Entries(d)' = Entries(d)
  BY <1>1 DEF Entries
<1>3. \A x \in Entries(d) : EntryAt(x)' = EntryAt(x)
  BY <1>1 DEF EntryAt
<1>4. \A x \in Entries(d) : Passed(x) => Passed(x)'
  BY PassedGrows
<1>5. KeysDone(d) \subseteq KeysDone(d)'
  BY <1>2, <1>3, <1>4 DEF KeysDone
<1>6. ColDone(d) => ColDone(d)'
  BY <1>2, <1>3, <1>4 DEF ColDone
<1> QED
  BY <1>2, <1>4, <1>5, <1>6

Here == <<at.pkg, at.entry>>
LEMMA HereFacts ==
    ASSUME TypeInv, InPackage, at.entry <= Len(Pkg.entries)
    PROVE  /\ Here \in Entries(D) /\ EntryAt(Here) = Entry /\ D \in Databases
           /\ phase = "entry" => ~Passed(Here)
           /\ phase # "entry" => Passed(Here)
<1>1. at.pkg \in 1 .. Len(job.pkgs) /\ at.entry \in Nat \ {0} /\ at.pkg \in Nat /\ D \in Databases
  BY JobFacts DEF TypeInv, Places
<1>2. Here[1] = at.pkg /\ Here[2] = at.entry /\ Here \in (1 .. Len(job.pkgs)) \X (Nat \ {0})
  BY <1>1 DEF Here
<1>3. Here \in Entries(D) /\ EntryAt(Here) = Entry
  BY <1>1, <1>2 DEF Entries, EntryAt, Entry, D, Pkg
<1>4. phase = "entry" => ~Passed(Here)
  BY <1>1, <1>2 DEF Passed
<1>5. phase # "entry" => Passed(Here)
  BY <1>2 DEF Passed, InPackage
<1> QED
  BY <1>1, <1>3, <1>4, <1>5

-----------------------------------------------------------------------------
(* A step of a package leaves every other database alone.                     *)
LEMMA Others ==
    ASSUME TypeInv, TypeInv', Next, InPackage, NEW d \in Databases, d # D
    PROVE  /\ db'[d] = db[d] /\ base' = base /\ Collected(d)' = Collected(d)
           /\ ~(InPackage /\ D = d)' /\ (AtWork' => AtWork)
<1>1. AtWork /\ base' = base /\ ~(InPackage /\ D = d)
  BY Stays DEF AtWork, InPackage
<1>2. CASE Inside
  <2>1. db'[d] = db[d] /\ ~(InPackage /\ D = d)' /\ groups' = groups
    BY <1>2, InsideKeeps
  <2>2. CollectedBefore(d)' = CollectedBefore(d)
    BY <2>1 DEF CollectedBefore
  <2> QED
    BY <1>1, <2>1, <2>2, CollectedIs, CollectedNext
<1>3. CASE Commit
  <2>1. phase' = "packages" /\ db' = db /\ groups' = AddRollback(rb) /\ rb \in Seq(Stmts)
    BY <1>3 DEF Commit, TypeInv
  <2>2. CollectedBefore(d)' = CollectedBefore(d)
    BY <2>1, Added
  <2>3. ~InPackage'
    BY <2>1 DEF InPackage
  <2> QED
    BY <1>1, <2>1, <2>2, <2>3, CollectedIs, CollectedNext
<1>4. CASE Aborts
  <2>1. PICK undo \in Seq(Stmts) : AbortWith(undo)
    BY <1>4 DEF Aborts
  <2>2. CollectedBefore(d)' = CollectedBefore(d)
    BY <2>1, Added DEF AbortWith
  <2>3. ~InPackage'
    BY <2>1 DEF AbortWith, InPackage
  <2>4. db'[d] = db[d]
    BY <2>1 DEF AbortWith, TypeInv
  <2> QED
    BY <1>1, <2>2, <2>3, <2>4, CollectedIs, CollectedNext
<1>5. Inside \/ Commit \/ Aborts
  BY StepKinds DEF InPackage, ImportSQL, SQLFails, SQLDone, BeginPackage, PackageRefused, Finish, WriteRollbacks
<1> QED
  BY <1>2, <1>3, <1>4, <1>5

(* Between packages nothing is executed and nothing collected.                *)
LEMMA Between ==
    ASSUME TypeInv, TypeInv', Next, phase \notin {"sql", "failed"}, phase' # "failed", ~InPackage, FreshInv, NEW d \in Databases
    PROVE  /\ db' = db /\ base' = base /\ Collected(d)' = Collected(d) /\ (AtWork' => AtWork)
           /\ phase' \notin {"delete", "rows"}
           /\ InPackage' => D' = D /\ saved' = db[D]
<1>0. Collected(d) = CollectedBefore(d) /\ CollectedBefore(d) \in Seq(Stmts) /\ at \in Places
  BY CollectedIs, GroupSeqs DEF TypeInv
<1>1. CASE BeginPackage
  <2>1. /\ db' = db /\ base' = base /\ groups' = groups /\ saved' = db[D] /\ rb' = <<>>
        /\ phase' = "entry" /\ phase = "packages" /\ job' = job /\ at'.pkg = at.pkg
    BY <1>0, <1>1 DEF BeginPackage, Places
  <2>2. D' = D
    BY <2>1 DEF D, Pkg
  <2>3. CollectedBefore(d)' = CollectedBefore(d)
    BY <2>1 DEF CollectedBefore
  <2>4. CollectedBefore(d) \o <<>> = CollectedBefore(d)
    BY <1>0
  <2>5. Collected(d)' = Collected(d)
    BY <1>0, <2>1, <2>3, <2>4, CollectedNext
  <2> QED
    BY <2>1, <2>2, <2>5 DEF AtWork
<1>2. CASE Finish \/ WriteRollbacks
  <2>1. /\ db' = db /\ base' = base /\ groups' = groups /\ phase' \in {"ok", "failed", "write"}
    BY <1>2 DEF Finish, WriteRollbacks
  <2>2. CollectedBefore(d)' = CollectedBefore(d)
    BY <2>1 DEF CollectedBefore
  <2> QED
    BY <1>0, <2>1, <2>2, CollectedNext DEF AtWork, InPackage
<1>3. BeginPackage \/ Finish \/ WriteRollbacks
  BY StepKinds DEF ImportSQL, SQLFails, SQLDone, PackageRefused
<1> QED
  BY <1>1, <1>2, <1>3

LEMMA CoverKeeps ==
    ASSUME TypeInv, Next, NEW d \in Databases, NEW K \in SUBSET Keys, NEW u \in BOOLEAN, Covers(d, K, u),
           AtWork' => AtWork, Collected(d)' = Collected(d), base' = base, Agrees(db'[d], base[d], K, u),
           (InPackage /\ D = d)' => Agrees(saved', base[d], K, u),
           (phase \in {"delete", "rows"} /\ D = d)' => EntryKeys' \subseteq K
    PROVE  Covers(d, K, u)'
<1>1. Lays(Collected(d)', K, base'[d].rows, u, base'[d].col)
  BY DEF Covers
<1>2. AtWork' => K \subseteq KeysDone(d)' /\ (u => ColDone(d)')
  BY DoneGrows DEF Covers
<1> QED
  BY <1>1, <1>2 DEF Covers

(* A statement on a table that differs from the old one in rows K at most.    *)
LEMMA AgreesAfter ==
    ASSUME NEW c \in Tables, NEW b, NEW K \in SUBSET Keys, NEW u \in BOOLEAN, Agrees(c, b, K, u), NEW s \in Stmts,
           (s.op \in {"delete", "put"} /\ s.keys \subseteq K) \/ (s.op = "alter" /\ u)
    PROVE  Agrees(After(c, s), b, K, u)
<1>0. c \in Contents /\ c.exists /\ \A k \in Keys \ K : c.rows[k] = b.rows[k]
  BY DEF Tables, Agrees
<1>1. CASE s.op = "alter" /\ u
  BY <1>0, <1>1 DEF Agrees, After, Contents
<1>2. CASE s.op = "delete" /\ s.keys \subseteq K
  <2> DEFINE r == [k \in Keys |-> IF k \in s.keys THEN None ELSE c.rows[k]]
  <2>1. After(c, s) = [c EXCEPT !.rows = r]
    BY <1>2 DEF After
  <2>2. \A k \in Keys \ K : r[k] = b.rows[k]
    BY <1>0, <1>2
  <2> HIDE DEF r
  <2>3. After(c, s).rows = r /\ After(c, s).exists = c.exists /\ After(c, s).col = c.col
    BY <1>0, <2>1 DEF Contents
  <2> QED
    BY <1>0, <2>2, <2>3 DEF Agrees
<1>3. CASE s.op = "put" /\ s.keys \subseteq K
  <2> DEFINE r == [k \in Keys |-> IF k \in s.keys THEN s.val ELSE c.rows[k]]
  <2>1. After(c, s) = [c EXCEPT !.rows = r]
    BY <1>3 DEF After
  <2>2. \A k \in Keys \ K : r[k] = b.rows[k]
    BY <1>0, <1>3
  <2> HIDE DEF r
  <2>3. After(c, s).rows = r /\ After(c, s).exists = c.exists /\ After(c, s).col = c.col
    BY <1>0, <2>1 DEF Contents
  <2> QED
    BY <1>0, <2>2, <2>3 DEF Agrees
<1> QED
  BY <1>1, <1>2, <1>3

-----------------------------------------------------------------------------
(* The keys of the entry at hand were not written before.                     *)
LEMMA KeysAreNew ==
    ASSUME TypeInv, PackagesFit, phase = "entry", at.entry <= Len(Pkg.entries), Entry.type = "upsert", Entry.pk,
           base[D].exists
    PROVE  EntryKeys \cap KeysDone(D) = {}
<1>0. InPackage /\ phase # "sql"
  BY DEF InPackage
<1>1. Here \in Entries(D) /\ EntryAt(Here) = Entry /\ ~Passed(Here) /\ D \in Databases
  BY <1>0, HereFacts
<1>2. Fits(D)
  BY <1>0, <1>1 DEF PackagesFit
<1>3. EntryKeys = KeysIn(EntryAt(Here)) /\ Writes(EntryAt(Here))
  BY <1>1 DEF EntryKeys, KeysIn, Writes
<1> SUFFICES ASSUME NEW k \in EntryKeys, k \in KeysDone(D) PROVE FALSE
  OBVIOUS
<1>4. PICK x \in Entries(D) : Passed(x) /\ Writes(EntryAt(x)) /\ k \in KeysIn(EntryAt(x))
  BY DEF KeysDone
<1>5. x # Here
  BY <1>1, <1>4
<1>6. KeysIn(EntryAt(x)) \cap KeysIn(EntryAt(Here)) = {}
  BY <1>1, <1>2, <1>3, <1>4, <1>5 DEF Fits
<1> QED
  BY <1>3, <1>4, <1>6

LEMMA ColumnIsNew ==
    ASSUME TypeInv, PackagesFit, phase = "entry", at.entry <= Len(Pkg.entries), Entry.type = "exec",
           base[D].exists
    PROVE  ~ColDone(D) /\ Entry.back \in {None, base[D].col}
<1>0. InPackage /\ phase # "sql"
  BY DEF InPackage
<1>1. Here \in Entries(D) /\ EntryAt(Here) = Entry /\ ~Passed(Here) /\ D \in Databases
  BY <1>0, HereFacts
<1>2. Fits(D)
  BY <1>0, <1>1 DEF PackagesFit
<1>3. Entry.back \in {None, base[D].col}
  BY <1>1, <1>2 DEF Fits
<1>4. ASSUME ColDone(D) PROVE FALSE
  <2>1. PICK x \in Entries(D) : Passed(x) /\ EntryAt(x).type = "exec"
    BY <1>4 DEF ColDone
  <2>2. x # Here
    BY <1>1, <2>1
  <2> QED
    BY <1>1, <1>2, <2>1, <2>2 DEF Fits
<1> QED
  BY <1>3, <1>4

(* What the current entry adds counts as done as soon as it is passed.        *)
LEMMA HereDone ==
    ASSUME TypeInv, InPackage, at.entry <= Len(Pkg.entries), job' = job, at'.pkg = at.pkg, InPackage',
           at'.entry = at.entry + 1 \/ (at'.entry = at.entry /\ phase' \in {"delete", "rows"}),
           NEW x, x = Here, NEW d, d = D
    PROVE  /\ Passed(x)'
           /\ Entry.type = "upsert" /\ Entry.pk => EntryKeys \subseteq KeysDone(d)'
           /\ Entry.type = "exec" => ColDone(d)'
<1>1. x \in Entries(d) /\ EntryAt(x) = Entry /\ d \in Databases
  BY HereFacts
<1>2. x[1] = at.pkg /\ x[2] = at.entry /\ at.pkg \in Nat /\ at.entry \in Nat
  BY DEF Here, TypeInv, Places
<1>3. x \in Entries(d)' /\ EntryAt(x)' = EntryAt(x)
  BY <1>1 DEF Entries, EntryAt
<1>4. Passed(x)'
  BY <1>2 DEF Passed, InPackage
<1>5. ASSUME Entry.type = "upsert", Entry.pk PROVE EntryKeys \subseteq KeysDone(d)'
  <2>1. Writes(EntryAt(x)) /\ EntryKeys = KeysIn(EntryAt(x)) /\ EntryKeys \subseteq Keys
    BY <1>1, <1>5, UpsertFacts DEF Writes, EntryKeys, KeysIn
  <2>2. Writes(EntryAt(x)') /\ EntryKeys = KeysIn(EntryAt(x)')
    BY <1>3, <2>1
  <2> QED
    BY <1>3, <1>4, <2>1, <2>2 DEF KeysDone
<1>6. ASSUME Entry.type = "exec" PROVE ColDone(d)'
  BY <1>1, <1>3, <1>4, <1>6 DEF ColDone
<1> QED
  BY <1>4, <1>5, <1>6

LEMMA NextEntryIs == ASSUME TypeInv, NextEntry PROVE at'.pkg = at.pkg /\ at'.entry = at.entry + 1
<1>1. at' = [sql |-> at.sql, pkg |-> at.pkg, entry |-> at.entry + 1, row |-> 1]
  BY NextPlace DEF NextEntry, TypeInv
<1> QED
  BY <1>1

LEMMA JoinStatements == \A a, b, c \in Seq(Stmts) : a \o (b \o c) = (a \o b) \o c
<1> SUFFICES ASSUME NEW a \in Seq(Stmts), NEW b \in Seq(Stmts), NEW c \in Seq(Stmts)
             PROVE  a \o (b \o c) = (a \o b) \o c
  OBVIOUS
<1> QED
  BY ConcatAssociative

LEMMA AppendThenMore ==
    \A a, b, c \in Seq(Stmts), x \in Stmts : a \o (Append(b, x) \o c) = Append(a \o b, x) \o c
<1> SUFFICES ASSUME NEW a \in Seq(Stmts), NEW b \in Seq(Stmts), NEW c \in Seq(Stmts), NEW x \in Stmts
             PROVE  a \o (Append(b, x) \o c) = Append(a \o b, x) \o c
  OBVIOUS
<1>1. Append(b, x) \in Seq(Stmts) /\ a \o Append(b, x) = Append(a \o b, x)
  BY AppendInConcat
<1>2. PICK p \in Seq(Stmts) : p = Append(b, x)
  BY <1>1
<1>3. a \o (p \o c) = (a \o p) \o c
  BY JoinStatements
<1> QED
  BY <1>1, <1>2, <1>3

(* Inside a package, step by step, for the database of the package.           *)
LEMMA CoverInside ==
    ASSUME TypeInv, TypeInv', PackagesFit, Next, InPackage, Inside, ~unrollback', NEW d \in Databases, d = D,
           base[d].exists, NEW K \in SUBSET Keys, NEW u \in BOOLEAN, Covers(d, K, u)
    PROVE  \E L \in SUBSET Keys, v \in BOOLEAN : Covers(d, L, v)'
<1>0. /\ UNCHANGED <<job, base, groups>> /\ at'.pkg = at.pkg /\ InPackage' /\ D' = d /\ AtWork
      /\ CollectedBefore(d)' = CollectedBefore(d) /\ CollectedBefore(d) \in Seq(Stmts) /\ rb \in Seq(Stmts)
      /\ at \in Places
  BY InsideKeeps, GroupSeqs DEF CollectedBefore, AtWork, TypeInv
<1>1. /\ Collected(d) = CollectedBefore(d) \o rb /\ Collected(d) \in Seq(Stmts)
      /\ Collected(d)' = CollectedBefore(d) \o rb'
  BY <1>0, CollectedIs, CollectedNext
<1>2. /\ db[d] \in Tables /\ saved \in Tables /\ db[d].exists /\ Agrees(db[d], base[d], K, u)
      /\ Agrees(saved, base[d], K, u) /\ K \subseteq KeysDone(d) /\ (u => ColDone(d))
      /\ Lays(Collected(d), K, base[d].rows, u, base[d].col)
      /\ (phase \in {"delete", "rows"} => EntryKeys \subseteq K)
  BY <1>0 DEF Covers, TypeInv, Agrees
<1>3. /\ base[d].rows \in Rows /\ base[d].col \in Values \cup {None}
  BY DEF TypeInv, Tables, Contents, Rows
<1>4. CASE UNCHANGED <<db, saved, rb>> /\ phase' = "entry"
  <2>1. Covers(d, K, u)'
    BY <1>0, <1>1, <1>2, <1>4, CoverKeeps
  <2> QED
    BY <2>1
<1>5. CASE CreateTable
  <2>1. UNCHANGED <<db, saved, rb>> /\ phase' = "entry"
    BY <1>2, <1>5 DEF CreateTable, AtEntry
  <2> QED
    BY <1>4, <2>1
<1>6. CASE UpsertSkip
  <2>1. UNCHANGED <<db, saved, rb>> /\ phase' = "entry"
    BY <1>6 DEF UpsertSkip, AtEntry
  <2> QED
    BY <1>4, <2>1
<1>7. CASE UpsertCollect
  <2> DEFINE F == EntryKeys
             del == Stmt("delete", EntryKeys, None)
  <2>1. /\ phase = "entry" /\ phase' = "delete" /\ UNCHANGED <<db, saved, at>> /\ at.entry <= Len(Pkg.entries)
        /\ Entry.type = "upsert" /\ Entry.pk /\ rb' = Append(rb, del) \o OldRows
    BY <1>7 DEF UpsertCollect, AtEntry
  <2>2. F \in SUBSET Keys /\ F \cap KeysDone(d) = {} /\ del \in Stmts
        /\ OldRows = OldPuts(F, db[d].rows) /\ OldRows \in Seq(Stmts) /\ db[d].rows \in Rows
    BY <1>2, <2>1, UpsertFacts, KeysAreNew, OldRowsArePuts DEF Stmt, Stmts, Tables, Contents, Rows
  <2>3. EntryKeys' = F
    BY <1>0, <2>1 DEF EntryKeys, Entry, Pkg
  <2>4. \A k \in F : db[d].rows[k] = base[d].rows[k]
    BY <1>2, <2>2 DEF Agrees
  <2>5. Collected(d)' = Append(Collected(d), del) \o OldRows
    <3>1. PICK a, b, x, c : a = CollectedBefore(d) /\ b = rb /\ x = del /\ c = OldRows
      OBVIOUS
    <3>0. a \in Seq(Stmts) /\ b \in Seq(Stmts) /\ x \in Stmts /\ c \in Seq(Stmts)
      BY <1>0, <2>2, <3>1
    <3>2. a \o (Append(b, x) \o c) = Append(a \o b, x) \o c
      BY <3>0, AppendThenMore
    <3> QED
      BY <1>1, <2>1, <3>1, <3>2
  <2>6. Lays(Collected(d)', K \cup F, base[d].rows, u, base[d].col)
    <3>1. PICK E, s, r, f, w : E = F /\ s = Collected(d) /\ r = db[d].rows /\ f = base[d].rows /\ w = base[d].col
      OBVIOUS
    <3>3. /\ s \in Seq(Stmts) /\ f \in Rows /\ r \in Rows /\ E \in SUBSET Keys
          /\ (\A k \in E : r[k] = f[k]) /\ Lays(s, K, f, u, w) /\ OldPuts(E, r) \in Seq(Stmts)
      BY <1>1, <1>2, <1>3, <2>2, <2>4, <3>1
    <3>2. Lays(Append(s, Stmt("delete", E, None)) \o OldPuts(E, r), K \cup E, f, u, w)
      BY <3>3, LaysUpsert
    <3> QED
      BY <2>2, <2>5, <3>1, <3>2
  <2>7. F \subseteq KeysDone(d)' /\ KeysDone(d) \subseteq KeysDone(d)' /\ (ColDone(d) => ColDone(d)')
    <3>1. PICK x : x = Here
      OBVIOUS
    <3>2. AtWork'
      BY <1>0 DEF AtWork
    <3> QED
      BY <1>0, <2>1, <3>1, <3>2, HereDone, DoneGrows
  <2>8. PICK L \in SUBSET Keys : L = K \cup F
    BY <2>2
  <2>9. Agrees(db'[d], base'[d], L, u) /\ Agrees(saved', base'[d], L, u)
    BY <1>0, <1>2, <2>1, <2>8 DEF Agrees
  <2>10. Lays(Collected(d)', L, base'[d].rows, u, base'[d].col)
    BY <1>0, <2>6, <2>8
  <2>11. L \subseteq KeysDone(d)' /\ (u => ColDone(d)') /\ EntryKeys' \subseteq L
    BY <1>2, <2>3, <2>7, <2>8
  <2>12. Covers(d, L, u)'
    BY <2>9, <2>10, <2>11 DEF Covers
  <2> QED
    BY <2>12
<1>8. CASE UpsertDelete
  <2>1. /\ phase = "delete" /\ phase' = "rows" /\ UNCHANGED <<at, rb>> /\ Execute(Stmt("delete", EntryKeys, None))
        /\ at.entry <= Len(Pkg.entries) /\ Entry.type = "upsert"
    BY <1>8 DEF UpsertDelete, TypeInv
  <2>2. PICK s : s = Stmt("delete", EntryKeys, None)
    OBVIOUS
  <2>3. s \in Stmts /\ s.op = "delete" /\ s.keys = EntryKeys /\ s.keys \subseteq K
    BY <1>2, <2>1, <2>2, UpsertFacts DEF Stmt, Stmts
  <2>4. db'[d] = After(db[d], s) /\ (saved' = saved \/ saved' = db'[d])
    BY <2>1, <2>2, <2>3, ExecuteTypes
  <2>5. Agrees(db'[d], base[d], K, u) /\ Agrees(saved', base[d], K, u)
    BY <1>2, <2>3, <2>4, AgreesAfter
  <2>6. EntryKeys' = EntryKeys
    BY <1>0, <2>1 DEF EntryKeys, Entry, Pkg
  <2>7. Covers(d, K, u)'
    BY <1>0, <1>1, <1>2, <2>1, <2>5, <2>6, CoverKeeps
  <2> QED
    BY <2>7
<1>9. CASE UpsertRow
  <2> DEFINE row == Entry.data[at.row]
  <2>1. /\ phase = "rows" /\ UNCHANGED rb /\ Execute(Stmt("put", {row.key}, row.val))
        /\ at.entry <= Len(Pkg.entries) /\ Entry.type = "upsert" /\ at.row <= Len(Entry.data)
    BY <1>9 DEF UpsertRow, TypeInv
  <2>2. PICK t : t = Entry.data
    OBVIOUS
  <2>3. t \in Seq([key : Keys, val : Values]) /\ at.row \in 1 .. Len(t)
    BY <1>0, <2>1, <2>2, UpsertFacts DEF Places
  <2>4. row \in [key : Keys, val : Values] /\ row.key \in EntryKeys
    <3>1. row \in [key : Keys, val : Values]
      BY <2>2, <2>3, SeqElement
    <3>2. at.row \in DOMAIN t
      BY <2>3
    <3> QED
      BY <2>2, <3>1, <3>2 DEF EntryKeys
  <2>5. PICK s : s = Stmt("put", {row.key}, row.val)
    OBVIOUS
  <2>6. s \in Stmts /\ s.op = "put" /\ s.keys = {row.key} /\ s.keys \subseteq K
    BY <1>2, <2>1, <2>4, <2>5 DEF Stmt, Stmts
  <2>7. db'[d] = After(db[d], s) /\ (saved' = saved \/ saved' = db'[d])
    BY <2>1, <2>5, <2>6, ExecuteTypes
  <2>8. Agrees(db'[d], base[d], K, u) /\ Agrees(saved', base[d], K, u)
    BY <1>2, <2>6, <2>7, AgreesAfter
  <2>9. phase' = "entry" \/ EntryKeys' = EntryKeys
    <3>1. phase' = "entry" \/ at' = [at EXCEPT !.row = @ + 1]
      BY <1>9 DEF UpsertRow
    <3>2. ASSUME at' = [at EXCEPT !.row = @ + 1] PROVE EntryKeys' = EntryKeys
      <4>1. at' = [sql |-> at.sql, pkg |-> at.pkg, entry |-> at.entry, row |-> at.row + 1]
        BY <1>0, <3>2, NextPlace
      <4>2. at'.entry = at.entry /\ at'.pkg = at.pkg
        BY <4>1
      <4> QED
        BY <1>0, <4>2 DEF EntryKeys, Entry, Pkg
    <3> QED
      BY <3>1, <3>2
  <2>10. Covers(d, K, u)'
    BY <1>0, <1>1, <1>2, <2>1, <2>8, <2>9, CoverKeeps
  <2> QED
    BY <2>10
<1>10. CASE ExecPair
  <2>1. /\ phase = "entry" /\ phase' = "entry" /\ NextEntry /\ Execute(Stmt("alter", {}, Entry.to))
        /\ at.entry <= Len(Pkg.entries) /\ Entry.type = "exec"
    BY <1>10 DEF ExecPair, AtEntry
  <2>2. ~ColDone(d) /\ Entry.back \in {None, base[d].col} /\ u = FALSE
    BY <1>2, <2>1, ColumnIsNew
  <2>3. OldDefinition = base[d].col
    BY <1>2, <2>2 DEF OldDefinition, Agrees
  <2>4. rb' = Append(rb, Stmt("alter", {}, base[d].col))
    BY <1>10, <2>2, <2>3 DEF ExecPair
  <2>5. Stmt("alter", {}, base[d].col) \in Stmts
    BY <1>3 DEF Stmt, Stmts
  <2>6. Collected(d)' = Append(Collected(d), Stmt("alter", {}, base[d].col))
    BY <1>0, <1>1, <2>4, <2>5, AppendInConcat
  <2>7. Lays(Collected(d)', K, base'[d].rows, TRUE, base'[d].col)
    <3>1. PICK s : s = Collected(d)
      OBVIOUS
    <3> QED
      BY <1>0, <1>1, <1>2, <1>3, <2>6, <3>1, LaysColumn
  <2>8. PICK s : s = Stmt("alter", {}, Entry.to)
    OBVIOUS
  <2>9. Entry.to \in Values /\ s \in Stmts /\ s.op = "alter"
    <3>1. Entry.to \in Values
      BY <2>1, JobFacts DEF EntryOk
    <3> QED
      BY <2>8, <3>1 DEF Stmt, Stmts
  <2>10. db'[d] = After(db[d], s) /\ (saved' = saved \/ saved' = db'[d])
    BY <2>1, <2>8, <2>9, ExecuteTypes
  <2>11. Agrees(db[d], base[d], K, TRUE) /\ Agrees(saved, base[d], K, TRUE)
    BY <1>2 DEF Agrees
  <2>12. Agrees(db'[d], base'[d], K, TRUE) /\ Agrees(saved', base'[d], K, TRUE)
    BY <1>0, <1>2, <2>9, <2>10, <2>11, AgreesAfter
  <2>13. ColDone(d)' /\ KeysDone(d) \subseteq KeysDone(d)'
    <3>1. PICK x : x = Here
      OBVIOUS
    <3>2. AtWork'
      BY <1>0 DEF AtWork
    <3> QED
      BY <1>0, <2>1, <3>1, <3>2, HereDone, DoneGrows, NextEntryIs
  <2>14. Covers(d, K, TRUE)'
    BY <1>2, <2>1, <2>7, <2>12, <2>13 DEF Covers
  <2> QED
    BY <2>14
<1> QED
  BY <1>5, <1>6, <1>7, <1>8, <1>9, <1>10 DEF Inside

(* One step, for a database that has the table.                               *)
LEMMA CoverStep ==
    ASSUME TypeInv, TypeInv', FreshInv, PackagesFit, Next, phase \notin {"sql", "failed"}, phase' # "failed",
           ~unrollback', NEW d \in Databases, base[d].exists, NEW K \in SUBSET Keys,
           NEW u \in BOOLEAN, Covers(d, K, u), ~(ReadFails /\ d = D)
    PROVE  \E L \in SUBSET Keys, v \in BOOLEAN : Covers(d, L, v)'
<1>0. Agrees(db[d], base[d], K, u) /\ (InPackage /\ D = d => Agrees(saved, base[d], K, u))
  BY DEF Covers
<1>1. CASE ~InPackage
  <2>1. /\ db' = db /\ base' = base /\ Collected(d)' = Collected(d) /\ (AtWork' => AtWork)
        /\ phase' \notin {"delete", "rows"}
        /\ InPackage' => D' = D /\ saved' = db[D]
    BY <1>1, Between
  <2>2. Covers(d, K, u)'
    BY <1>0, <2>1, CoverKeeps
  <2> QED
    BY <2>2
<1>2. CASE InPackage /\ d # D
  <2>1. /\ db'[d] = db[d] /\ base' = base /\ Collected(d)' = Collected(d)
        /\ ~(InPackage /\ D = d)' /\ (AtWork' => AtWork)
    BY <1>2, Others
  <2>2. Covers(d, K, u)'
    BY <1>0, <2>1, CoverKeeps DEF InPackage
  <2> QED
    BY <2>2
<1>3. CASE InPackage /\ d = D /\ Inside
  BY <1>3, CoverInside
<1>4. CASE InPackage /\ d = D /\ Commit
  <2>1. /\ phase' = "packages" /\ db' = db /\ base' = base /\ groups' = AddRollback(rb) /\ rb \in Seq(Stmts)
    BY <1>4 DEF Commit, TypeInv
  <2>2. Collected(d)' = Collected(d)
    <3>1. CollectedBefore(d)' = CollectedBefore(d) \o rb
      BY <1>4, <2>1, Added
    <3> QED
      BY <1>4, <2>1, <3>1, CollectedIs, CollectedNext DEF InPackage
  <2>3. Covers(d, K, u)'
    BY <1>0, <1>4, <2>1, <2>2, CoverKeeps DEF AtWork, InPackage
  <2> QED
    BY <2>3
<1>5. CASE InPackage /\ d = D /\ Aborts
  <2>1. PICK undo \in Seq(Stmts) : AbortWith(undo) /\ (undo = rb \/ ReadFails)
    BY <1>5 DEF Aborts
  <2>2. undo = rb
    BY <1>5, <2>1
  <2>3. phase' = "salvage" /\ groups' = AddRollback(rb) /\ rb \in Seq(Stmts) /\ base' = base
    BY <2>1, <2>2 DEF AbortWith, TypeInv
  <2>4. Collected(d)' = Collected(d)
    <3>1. CollectedBefore(d)' = CollectedBefore(d) \o rb
      BY <1>5, <2>3, Added
    <3> QED
      BY <1>5, <2>3, <3>1, CollectedIs, CollectedNext DEF InPackage
  <2>5. db'[d] = saved \/ db'[d] = db[d]
    BY <1>5, <2>1 DEF AbortWith, RolledBack, TypeInv
  <2>6. Agrees(db'[d], base[d], K, u)
    BY <1>0, <1>5, <2>5
  <2>7. Covers(d, K, u)'
    BY <1>0, <2>3, <2>4, <2>6, CoverKeeps DEF AtWork, InPackage
  <2> QED
    BY <2>7
<1>6. ~InPackage \/ Inside \/ Commit \/ Aborts
  BY StepKinds DEF InPackage, ImportSQL, SQLFails, SQLDone, BeginPackage, PackageRefused, Finish, WriteRollbacks
<1> QED
  BY <1>1, <1>2, <1>3, <1>4, <1>5, <1>6

(* What a failing read collects, and what the transaction leaves.             *)
LEMMA ReadAborts ==
    ASSUME TypeInv, TypeInv', ReadFails, phase' # "failed", NEW d \in Databases, d = D
    PROVE  \E n \in 0 .. Len(OldRows) :
              /\ torn' = {d} \X Unread(n)
              /\ Collected(d)' = Append(Collected(d), Stmt("delete", EntryKeys, None)) \o SubSeq(OldRows, 1, n)
              /\ db'[d] = saved /\ base' = base /\ phase' = "salvage" /\ DDLCommits
<1>1. /\ InPackage /\ phase = "entry" /\ at.entry <= Len(Pkg.entries) /\ Entry.type = "upsert"
  BY DEF ReadFails, AtEntry, InPackage
<1>2. PICK n \in 0 .. Len(OldRows) :
        /\ AbortWith(Append(rb, Stmt("delete", EntryKeys, None)) \o SubSeq(OldRows, 1, n))
        /\ torn' = {D} \X Unread(n)
  BY DEF ReadFails
<1>3. PICK c, z, x, t, v : /\ c = CollectedBefore(d) /\ z = rb /\ x = Stmt("delete", EntryKeys, None)
                           /\ t = SubSeq(OldRows, 1, n) /\ v = Append(z, x) \o t
  OBVIOUS
<1>4. c \in Seq(Stmts) /\ z \in Seq(Stmts) /\ x \in Stmts /\ t \in Seq(Stmts) /\ v \in Seq(Stmts)
  <2>1. c \in Seq(Stmts) /\ z \in Seq(Stmts) /\ x \in Stmts
    BY <1>1, <1>3, GroupSeqs, UpsertFacts DEF TypeInv, Stmts, Stmt
  <2>2. PICK o : o = OldRows
    OBVIOUS
  <2>3. o \in Seq(Stmts) /\ n \in 0 .. Len(o)
    BY <1>1, <1>2, <2>2, OldRowsArePuts
  <2>4. SubSeq(o, 1, n) \in Seq(Stmts)
    BY <2>3
  <2>5. t \in Seq(Stmts)
    BY <1>3, <2>2, <2>4
  <2> QED
    BY <1>3, <2>1, <2>5
<1>5. AbortWith(v)
  BY <1>2, <1>3
<1>6. phase' = "salvage" /\ DDLCommits /\ base' = base /\ groups' = AddRollback(v)
  BY <1>5 DEF AbortWith
<1>7. CollectedBefore(d)' = c \o v
  BY <1>1, <1>3, <1>4, <1>6, Added
<1>8. Collected(d) = c \o z /\ Collected(d)' = c \o v
  BY <1>1, <1>3, <1>6, <1>7, CollectedIs, CollectedNext DEF InPackage
<1>9. c \o v = Append(c \o z, x) \o t
  BY <1>3, <1>4, AppendThenMore
<1>10. db'[d] = saved
  <2>1. RolledBack = {saved}
    BY <1>1 DEF RolledBack, DDLNext
  <2> QED
    BY <1>5, <2>1 DEF AbortWith, TypeInv
<1>11. Collected(d)' = Append(Collected(d), Stmt("delete", EntryKeys, None)) \o SubSeq(OldRows, 1, n)
  BY <1>3, <1>8, <1>9
<1> QED
  BY <1>2, <1>6, <1>10, <1>11

(* The undo left by a failing read restores the table, but for the rows it    *)
(* could not read.                                                            *)
LEMMA UnreadIsLost ==
    ASSUME TypeInv, TypeInv', PackagesFit, ReadFails, phase' # "failed", NEW d \in Databases, d = D,
           base[d].exists, NEW K \in SUBSET Keys, NEW u \in BOOLEAN, Covers(d, K, u)
    PROVE  Undone(d, Collected(d))'
<1>1. /\ InPackage /\ AtWork /\ phase = "entry" /\ at.entry <= Len(Pkg.entries)
      /\ Entry.type = "upsert" /\ Entry.pk
  BY DEF ReadFails, AtEntry, InPackage, AtWork
<1>2. PICK n \in 0 .. Len(OldRows) :
        /\ torn' = {d} \X Unread(n)
        /\ Collected(d)' = Append(Collected(d), Stmt("delete", EntryKeys, None)) \o SubSeq(OldRows, 1, n)
        /\ db'[d] = saved /\ base' = base /\ phase' = "salvage" /\ DDLCommits
  BY ReadAborts
<1>3. PICK b, c, E, q, f, o : /\ b = base[d] /\ c = saved /\ E = EntryKeys /\ q = db[d].rows
                              /\ f = base[d].rows /\ o = Collected(d)
  OBVIOUS
<1>4. /\ Lays(o, K, f, u, b.col) /\ K \subseteq KeysDone(d) /\ o \in Seq(Stmts)
      /\ Agrees(db[d], b, K, u) /\ Agrees(c, b, K, u)
  BY <1>1, <1>3, CollectedIs DEF Covers
<1>5. /\ b \in Contents /\ c \in Contents /\ c.exists /\ f \in Rows /\ q \in Rows /\ E \in SUBSET Keys /\ f = b.rows
      /\ b.exists
  BY <1>1, <1>3, <1>4, UpsertFacts DEF TypeInv, Tables, Contents, Rows, Agrees
<1>6. E \cap KeysDone(d) = {}
  BY <1>1, <1>3, KeysAreNew
<1>7. \A k \in E : q[k] = f[k]
  BY <1>3, <1>4, <1>5, <1>6 DEF Agrees
<1>8. OldRows = OldPuts(E, q) /\ n \in Nat /\ n <= Len(OldPuts(E, q))
  <2>1. PICK t \in Seq(Stmts) : t = OldRows /\ t = OldPuts(E, q)
    BY <1>1, <1>3, OldRowsArePuts
  <2>2. n \in 0 .. Len(t)
    BY <1>2, <2>1
  <2>3. Len(t) \in Nat
    OBVIOUS
  <2> QED
    BY <2>1, <2>2, <2>3
<1>9. PICK g : g = PartRows(E, q, f, n)
  OBVIOUS
<1>10. Lays(Collected(d)', K \cup E, g, u, b.col)
  <2>1. Lays(Append(o, Stmt("delete", E, None)) \o SubSeq(OldPuts(E, q), 1, n), K \cup E,
             PartRows(E, q, f, n), u, b.col)
    BY <1>4, <1>5, <1>7, <1>8, LaysUpsertPart
  <2> QED
    BY <1>2, <1>3, <1>8, <1>9, <2>1
<1>11. Replay(db'[d], Collected(d)') = [ok |-> TRUE, content |-> Laid(c, K \cup E, g, u, b.col)]
  BY <1>2, <1>3, <1>5, <1>10 DEF Lays
<1>12. Unread(n) = E \ PutKeys(E, q, n)
  BY <1>3, <1>8 DEF Unread, PutKeys
<1> DEFINE h == [k \in Keys |-> IF <<d, k>> \in torn' THEN None ELSE b.rows[k]]
<1>13. Restored(d)' = [b EXCEPT !.rows = h]
  BY <1>2, <1>3 DEF Restored
<1>14. [k \in Keys |-> IF k \in K \cup E THEN g[k] ELSE c.rows[k]] = h
  <2>1. ASSUME NEW k \in Keys
        PROVE  (IF k \in K \cup E THEN g[k] ELSE c.rows[k]) = (IF <<d, k>> \in torn' THEN None ELSE b.rows[k])
    <3>1. <<d, k>> \in torn' <=> k \in E /\ k \notin PutKeys(E, q, n)
      BY <1>2, <1>12
    <3>2. g[k] = IF k \in E THEN (IF k \in PutKeys(E, q, n) THEN f[k] ELSE None) ELSE f[k]
      BY <1>9 DEF PartRows
    <3>3. k \notin K => c.rows[k] = b.rows[k]
      BY <1>4 DEF Agrees
    <3> QED
      BY <1>5, <3>1, <3>2, <3>3
  <2> QED
    BY <2>1
<1>15. [b EXCEPT !.rows = h] = [exists |-> TRUE, rows |-> h, col |-> b.col]
  <2> HIDE DEF h
  <2>1. PICK e, z, w : b = [exists |-> e, rows |-> z, col |-> w] /\ e = TRUE /\ w = b.col
    BY <1>5 DEF Contents
  <2>2. [[exists |-> e, rows |-> z, col |-> w] EXCEPT !.rows = h] = [exists |-> e, rows |-> h, col |-> w]
    BY WithRows
  <2> QED
    BY <2>1, <2>2, Zenon
<1>16. Laid(c, K \cup E, g, u, b.col) = [exists |-> TRUE, rows |-> h, col |-> b.col]
  <2>1. (IF u THEN b.col ELSE c.col) = b.col
    BY <1>4 DEF Agrees
  <2> HIDE DEF h
  <2> QED
    BY <1>14, <2>1 DEF Laid
<1>17. Replay(db'[d], Collected(d)') = [ok |-> TRUE, content |-> Restored(d)']
  <2> HIDE DEF h
  <2> QED
    BY <1>11, <1>13, <1>15, <1>16
<1> QED
  BY <1>17 DEF Undone

-----------------------------------------------------------------------------
(* A table that is gone stays gone: no undo creates one.                      *)
NoCreate(t) == \A i \in 1 .. Len(t) : t[i].op # "create"

LEMMA GoneMore ==
    ASSUME NEW c, NEW s \in Seq(Stmts), Replay(c, s).content = NoTable, NEW x \in Stmts, x.op # "create"
    PROVE  Replay(c, Append(s, x)).content = NoTable
<1>1. Replay(c, Append(s, x)) = Perform(Replay(c, s), x)
  BY ReplayOneMore
<1>2. Runs(NoTable, x) => After(NoTable, x) = NoTable
  BY DEF Runs, After, NoTable
<1> QED
  BY <1>1, <1>2 DEF Perform

LEMMA GoneStays ==
    ASSUME NEW c, NEW s \in Seq(Stmts), Replay(c, s).content = NoTable, NEW t \in Seq(Stmts), NoCreate(t)
    PROVE  Replay(c, s \o t).content = NoTable
<1> DEFINE part(m) == [i \in 1 .. m |-> t[i]]
           S == {m \in Nat : m <= Len(t) => Replay(c, s \o part(m)).content = NoTable}
<1>1. 0 \in S
  <2>1. part(0) = <<>> /\ s \o <<>> = s
    OBVIOUS
  <2> HIDE DEF part
  <2> QED
    BY <2>1
<1>2. ASSUME NEW m \in Nat, m \in S PROVE m + 1 \in S
  <2> SUFFICES ASSUME m + 1 <= Len(t) PROVE Replay(c, s \o part(m + 1)).content = NoTable
    OBVIOUS
  <2>1. /\ s \o part(m) \in Seq(Stmts) /\ s \o part(m + 1) = Append(s \o part(m), t[m + 1])
    BY PrefixGrows
  <2>2. t[m + 1] \in Stmts /\ t[m + 1].op # "create"
    <3>1. m + 1 \in 1 .. Len(t)
      OBVIOUS
    <3> QED
      BY <3>1, SeqElement DEF NoCreate
  <2>3. Replay(c, s \o part(m)).content = NoTable
    BY <1>2
  <2> HIDE DEF part
  <2>4. PICK v \in Seq(Stmts), x \in Stmts : v = s \o part(m) /\ x = t[m + 1]
    BY <2>1, <2>2
  <2>5. Replay(c, Append(v, x)).content = NoTable
    BY <2>2, <2>3, <2>4, GoneMore
  <2> QED
    BY <2>1, <2>4, <2>5
<1>3. Len(t) \in S
  <2> HIDE DEF S
  <2> QED
    BY <1>1, <1>2, NumberInduction
<1>4. part(Len(t)) = t
  OBVIOUS
<1> QED
  BY <1>3, <1>4

LEMMA DropsFirst == Drops(<<DropIt>>)
<1> SUFFICES ASSUME NEW c \in Tables PROVE Replay(c, <<DropIt>>).content = NoTable
  BY DEF Drops
<1>1. DropIt \in Stmts /\ <<>> \in Seq(Stmts) /\ <<DropIt>> = Append(<<>>, DropIt)
  BY DEF DropIt, Stmt, Stmts
<1>2. Replay(c, Append(<<>>, DropIt)) = Perform([ok |-> TRUE, content |-> c], DropIt)
  BY <1>1, ReplayNothing, ReplayOneMore
<1>3. Runs(c, DropIt) /\ After(c, DropIt) = NoTable
  BY DEF Runs, After, DropIt, Stmt
<1> QED
  BY <1>1, <1>2, <1>3 DEF Perform

(* The old rows are put back, never created.                                  *)
LEMMA PutsCreateNothing ==
    ASSUME TypeInv, InPackage, at.entry <= Len(Pkg.entries), Entry.type = "upsert", NEW n \in 0 .. Len(OldRows)
    PROVE  SubSeq(OldRows, 1, n) \in Seq(Stmts) /\ NoCreate(SubSeq(OldRows, 1, n))
<1>1. PICK o : o = OldRows
  OBVIOUS
<1>2. o \in Seq(Stmts) /\ n \in 0 .. Len(o)
  BY <1>1, OldRowsArePuts
<1>3. \A i \in 1 .. Len(o) : o[i].op = "put"
  <2>1. DOMAIN o = 1 .. Len(o)
    BY <1>2
  <2>2. \A i \in DOMAIN o : o[i].op = "put"
    BY <1>1 DEF OldRows, Stmt
  <2> QED
    BY <2>1, <2>2
<1>4. SubSeq(o, 1, n) \in Seq(Stmts) /\ NoCreate(SubSeq(o, 1, n))
  <2>1. SubSeq(o, 1, n) \in Seq(Stmts) /\ Len(SubSeq(o, 1, n)) = n
    BY <1>2
  <2>2. \A i \in 1 .. n : SubSeq(o, 1, n)[i] = o[i] /\ i \in 1 .. Len(o)
    BY <1>2
  <2> QED
    BY <1>3, <2>1, <2>2 DEF NoCreate
<1> QED
  BY <1>1, <1>4

LEMMA ConcatIsEmpty ==
    ASSUME NEW S, NEW a \in Seq(S), NEW b \in Seq(S), a \o b = <<>> PROVE a = <<>> /\ b = <<>>
<1>1. Len(a \o b) = Len(a) + Len(b) /\ Len(<<>>) = 0 /\ Len(a) \in Nat /\ Len(b) \in Nat
  OBVIOUS
<1> QED
  BY <1>1

LEMMA NoTableRuns == ASSUME NEW s, Runs(NoTable, s) PROVE s.op \in {"create", "drop"}
  BY DEF Runs, NoTable

(* Collecting more keeps the drop in front.                                   *)
LEMMA DropsMore ==
    ASSUME NEW s \in Seq(Stmts), Drops(s), NEW x \in Stmts, x.op # "create", NEW t \in Seq(Stmts), NoCreate(t)
    PROVE  Drops(Append(s, x)) /\ Drops(Append(s, x) \o t)
<1> SUFFICES ASSUME NEW c \in Tables
             PROVE  Replay(c, Append(s, x)).content = NoTable /\ Replay(c, Append(s, x) \o t).content = NoTable
  BY DEF Drops
<1>1. Replay(c, s).content = NoTable
  BY DEF Drops
<1>2. Replay(c, Append(s, x)).content = NoTable /\ Append(s, x) \in Seq(Stmts)
  BY <1>1, GoneMore
<1>3. PICK v \in Seq(Stmts) : v = Append(s, x)
  BY <1>2
<1>4. Replay(c, v \o t).content = NoTable
  BY <1>2, <1>3, GoneStays
<1> QED
  BY <1>2, <1>3, <1>4

(* What a step inside a package collects.                                     *)
LEMMA InsideCollects ==
    ASSUME TypeInv, TypeInv', InPackage, Inside, NEW d \in Databases, d = D
    PROVE  \/ Collected(d)' = Collected(d)
           \/ \E x \in Stmts, t \in Seq(Stmts) :
                 /\ x.op # "create" /\ NoCreate(t)
                 /\ Collected(d)' = Append(Collected(d), x) \o t
<1>0. /\ UNCHANGED groups /\ InPackage' /\ D' = d
      /\ CollectedBefore(d)' = CollectedBefore(d) /\ CollectedBefore(d) \in Seq(Stmts) /\ rb \in Seq(Stmts)
  BY InsideKeeps, GroupSeqs DEF CollectedBefore, TypeInv
<1>1. /\ Collected(d) = CollectedBefore(d) \o rb /\ Collected(d)' = CollectedBefore(d) \o rb'
  BY <1>0, CollectedIs, CollectedNext
<1>2. CASE rb' = rb
  BY <1>1, <1>2
<1>3. ASSUME NEW x \in Stmts, NEW t \in Seq(Stmts), x.op # "create", NoCreate(t), rb' = Append(rb, x) \o t
      PROVE  \E y \in Stmts, v \in Seq(Stmts) :
                 /\ y.op # "create" /\ NoCreate(v)
                 /\ Collected(d)' = Append(Collected(d), y) \o v
  <2>1. CollectedBefore(d) \o (Append(rb, x) \o t) = Append(CollectedBefore(d) \o rb, x) \o t
    BY <1>0, AppendThenMore
  <2> QED
    BY <1>1, <1>3, <2>1
<1>4. <<>> \in Seq(Stmts) /\ NoCreate(<<>>)
  BY DEF NoCreate
<1>5. ASSUME NEW x \in Stmts, x.op # "create", rb' = Append(rb, x)
      PROVE  \E y \in Stmts, v \in Seq(Stmts) :
                 /\ y.op # "create" /\ NoCreate(v)
                 /\ Collected(d)' = Append(Collected(d), y) \o v
  <2>1. Append(rb, x) \o <<>> = Append(rb, x)
    BY <1>0
  <2> QED
    BY <1>3, <1>4, <1>5, <2>1
<1>6. CASE CreateTable
  <2>1. rb' = rb \/ rb' = Append(rb, DropIt)
    BY <1>6 DEF CreateTable, DropIt
  <2>2. DropIt \in Stmts /\ DropIt.op # "create"
    BY DEF DropIt, Stmt, Stmts
  <2> QED
    BY <1>2, <1>5, <2>1, <2>2
<1>7. CASE UpsertSkip \/ UpsertDelete \/ UpsertRow
  BY <1>2, <1>7 DEF UpsertSkip, UpsertDelete, UpsertRow
<1>8. CASE UpsertCollect
  <2>1. /\ at.entry <= Len(Pkg.entries) /\ Entry.type = "upsert"
        /\ rb' = Append(rb, Stmt("delete", EntryKeys, None)) \o OldRows
    BY <1>8 DEF UpsertCollect, AtEntry
  <2>2. PICK x : x = Stmt("delete", EntryKeys, None)
    OBVIOUS
  <2>3. x \in Stmts /\ x.op # "create"
    BY <2>1, <2>2, UpsertFacts DEF Stmt, Stmts
  <2>4. PICK o \in Seq(Stmts) : o = OldRows
    BY <2>1, OldRowsArePuts
  <2>5. Len(o) \in 0 .. Len(o) /\ SubSeq(o, 1, Len(o)) = o
    OBVIOUS
  <2>6. NoCreate(o)
    BY <2>1, <2>4, <2>5, PutsCreateNothing
  <2> QED
    BY <1>3, <2>1, <2>2, <2>3, <2>4, <2>6
<1>9. CASE ExecPair
  <2>1. at.entry <= Len(Pkg.entries) /\ Entry.type = "exec"
    BY <1>9 DEF ExecPair, AtEntry
  <2>2. Entry.back \in Values \cup {None} /\ OldDefinition \in Values \cup {None}
    BY <2>1, JobFacts DEF EntryOk, OldDefinition, TypeInv, Tables, Contents
  <2>3. \A v \in Values \cup {None} : Stmt("alter", {}, v) \in Stmts /\ Stmt("alter", {}, v).op # "create"
    BY DEF Stmt, Stmts
  <2>4. PICK a, b : a = Stmt("alter", {}, Entry.back) /\ b = Stmt("alter", {}, OldDefinition)
    OBVIOUS
  <2>5. a \in Stmts /\ b \in Stmts /\ a.op # "create" /\ b.op # "create"
    BY <2>2, <2>3, <2>4
  <2>6. rb' = rb \/ rb' = Append(rb, a) \/ rb' = Append(rb, b)
    BY <1>9, <2>4 DEF ExecPair
  <2> QED
    BY <1>2, <1>5, <2>5, <2>6
<1> QED
  BY <1>6, <1>7, <1>8, <1>9 DEF Inside

(* Of a missing table: nothing happens to it, or it is created and the undo   *)
(* drops it.                                                                  *)
LEMMA UncreatedInside ==
    ASSUME TypeInv, TypeInv', InPackage, Inside, NEW d \in Databases, d = D, ~base[d].exists, Uncreated(d)
    PROVE  Uncreated(d)'
<1>0. /\ UNCHANGED <<base, groups>> /\ InPackage' /\ D' = d
      /\ CollectedBefore(d)' = CollectedBefore(d) /\ CollectedBefore(d) \in Seq(Stmts) /\ rb \in Seq(Stmts)
      /\ base[d] = NoTable
  BY InsideKeeps, GroupSeqs, MissingIsNone DEF CollectedBefore, TypeInv
<1>1. /\ Collected(d) = CollectedBefore(d) \o rb /\ Collected(d)' = CollectedBefore(d) \o rb'
      /\ Collected(d) \in Seq(Stmts)
  BY <1>0, CollectedIs, CollectedNext
<1>4. CASE Collected(d) = <<>> /\ db[d] = base[d] /\ saved = base[d]
  <2>1. CollectedBefore(d) = <<>> /\ rb = <<>>
    <3>1. PICK a, b : a = CollectedBefore(d) /\ b = rb
      OBVIOUS
    <3>2. a \in Seq(Stmts) /\ b \in Seq(Stmts) /\ a \o b = <<>>
      BY <1>0, <1>1, <1>4, <3>1
    <3> QED
      BY <3>1, <3>2, ConcatIsEmpty
  <2>2. ASSUME UNCHANGED <<db, saved, rb>> PROVE Uncreated(d)'
    BY <1>0, <1>1, <1>4, <2>2 DEF Uncreated
  <2>3. ~NoTable.exists
    BY DEF NoTable
  <2>4. CASE CreateTable
    <3>1. rb' = Append(rb, DropIt)
      BY <1>0, <1>4, <2>3, <2>4 DEF CreateTable, DropIt
    <3>2. Collected(d)' = <<DropIt>>
      <4>1. rb' = <<DropIt>>
        BY <2>1, <3>1
      <4>2. <<>> \o <<DropIt>> = <<DropIt>>
        OBVIOUS
      <4> QED
        BY <1>1, <2>1, <4>1, <4>2
    <3> QED
      BY <3>2, DropsFirst DEF Uncreated
  <2>5. CASE UpsertSkip
    BY <2>2, <2>5 DEF UpsertSkip
  <2>6. CASE UpsertCollect
    BY <1>0, <1>4, <2>3, <2>6 DEF UpsertCollect
  <2>7. CASE UpsertDelete \/ UpsertRow \/ ExecPair
    <3>1. PICK s : Execute(s) /\ s.op \in {"delete", "put", "alter"}
      BY <2>7 DEF UpsertDelete, UpsertRow, ExecPair, Stmt
    <3>2. Runs(NoTable, s)
      BY <1>0, <1>4, <3>1 DEF Execute
    <3> QED
      BY <3>1, <3>2, NoTableRuns
  <2> QED
    BY <2>4, <2>5, <2>6, <2>7 DEF Inside
<1>5. CASE Drops(Collected(d))
  <2>1. Drops(Collected(d)')
    BY <1>1, <1>5, InsideCollects, DropsMore
  <2> QED
    BY <2>1 DEF Uncreated
<1> QED
  BY <1>0, <1>4, <1>5 DEF Uncreated

LEMMA UncreatedStep ==
    ASSUME TypeInv, TypeInv', FreshInv, Next, phase \notin {"sql", "failed"}, phase' # "failed",
           NEW d \in Databases, ~base[d].exists, Uncreated(d), ~(ReadFails /\ d = D)
    PROVE  Uncreated(d)'
<1>1. ASSUME /\ Collected(d)' = Collected(d) /\ base' = base
             /\ db[d] = base[d] /\ Collected(d) = <<>> =>
                   db'[d] = base[d] /\ (InPackage' /\ D' = d /\ (InPackage /\ D = d => saved = base[d]) => saved' = base[d])
      PROVE  Uncreated(d)'
  BY <1>1 DEF Uncreated
<1>2. CASE ~InPackage
  <2>1. /\ db' = db /\ base' = base /\ Collected(d)' = Collected(d)
        /\ InPackage' => D' = D /\ saved' = db[D]
    BY <1>2, Between
  <2> QED
    BY <1>1, <2>1
<1>3. CASE InPackage /\ d # D
  <2>1. /\ db'[d] = db[d] /\ base' = base /\ Collected(d)' = Collected(d) /\ ~(InPackage /\ D = d)'
    BY <1>3, Others
  <2> QED
    BY <1>1, <2>1
<1>4. CASE InPackage /\ d = D /\ Inside
  BY <1>4, UncreatedInside
<1>5. CASE InPackage /\ d = D /\ Commit
  <2>1. /\ phase' = "packages" /\ db' = db /\ base' = base /\ groups' = AddRollback(rb) /\ rb \in Seq(Stmts)
    BY <1>5 DEF Commit, TypeInv
  <2>2. Collected(d)' = Collected(d)
    <3>1. CollectedBefore(d)' = CollectedBefore(d) \o rb
      BY <1>5, <2>1, Added
    <3> QED
      BY <1>5, <2>1, <3>1, CollectedIs, CollectedNext DEF InPackage
  <2> QED
    BY <1>1, <1>5, <2>1, <2>2 DEF InPackage
<1>6. CASE InPackage /\ d = D /\ Aborts
  <2>1. AbortWith(rb) /\ rb \in Seq(Stmts)
    BY <1>6 DEF Aborts
  <2>2. phase' = "salvage" /\ groups' = AddRollback(rb) /\ base' = base
    BY <2>1 DEF AbortWith
  <2>3. Collected(d)' = Collected(d)
    <3>1. CollectedBefore(d)' = CollectedBefore(d) \o rb
      BY <1>6, <2>1, <2>2, Added
    <3> QED
      BY <1>6, <2>2, <3>1, CollectedIs, CollectedNext DEF InPackage
  <2>4. db'[d] = saved \/ db'[d] = db[d]
    BY <1>6, <2>1 DEF AbortWith, RolledBack, TypeInv
  <2>5. CASE Collected(d) = <<>> /\ db[d] = base[d] /\ saved = base[d]
    BY <2>2, <2>3, <2>4, <2>5 DEF Uncreated, InPackage
  <2>6. CASE Drops(Collected(d))
    BY <2>3, <2>6 DEF Uncreated
  <2> QED
    BY <1>6, <2>5, <2>6 DEF Uncreated
<1>7. ~InPackage \/ Inside \/ Commit \/ Aborts
  BY StepKinds DEF InPackage, ImportSQL, SQLFails, SQLDone, BeginPackage, PackageRefused, Finish, WriteRollbacks
<1> QED
  BY <1>2, <1>3, <1>4, <1>5, <1>6, <1>7

(* A failing read of a table that was not there leaves it to be dropped, or   *)
(* nothing to undo.                                                           *)
LEMMA UnreadMissing ==
    ASSUME TypeInv, TypeInv', ReadFails, phase' # "failed", NEW d \in Databases, d = D, ~base[d].exists, Uncreated(d)
    PROVE  Undone(d, Collected(d))'
<1>1. /\ InPackage /\ at.entry <= Len(Pkg.entries) /\ Entry.type = "upsert"
  BY DEF ReadFails, AtEntry, InPackage
<1>2. PICK n \in 0 .. Len(OldRows) :
        /\ Collected(d)' = Append(Collected(d), Stmt("delete", EntryKeys, None)) \o SubSeq(OldRows, 1, n)
        /\ db'[d] = saved /\ base' = base
  BY ReadAborts
<1>3. PICK x, t, s : x = Stmt("delete", EntryKeys, None) /\ t = SubSeq(OldRows, 1, n) /\ s = Collected(d)
  OBVIOUS
<1>4. x \in Stmts /\ x.op # "create" /\ t \in Seq(Stmts) /\ NoCreate(t) /\ s \in Seq(Stmts)
  BY <1>1, <1>3, UpsertFacts, PutsCreateNothing, CollectedIs DEF Stmt, Stmts
<1>5. base[d] = NoTable /\ saved \in Tables
  BY MissingIsNone DEF TypeInv
<1>6. Replay(saved, Append(s, x) \o t).content = NoTable
  <2>1. CASE s = <<>> /\ saved = base[d]
    <3>1. Replay(saved, s).content = NoTable
      BY <1>5, <2>1, ReplayNothing
    <3>2. Replay(saved, Append(s, x)).content = NoTable
      BY <1>4, <3>1, GoneMore
    <3>0. PICK v : v = Append(s, x)
      OBVIOUS
    <3>3. v \in Seq(Stmts) /\ v = Append(s, x)
      BY <1>4, <3>0
    <3>4. Replay(saved, v \o t).content = NoTable
      BY <1>4, <3>2, <3>3, GoneStays
    <3> QED
      BY <3>3, <3>4
  <2>2. CASE Drops(s)
    <3>1. Drops(Append(s, x) \o t)
      BY <1>4, <2>2, DropsMore
    <3> QED
      BY <1>5, <3>1 DEF Drops
  <2> QED
    BY <1>1, <1>3, <2>1, <2>2 DEF Uncreated
<1>7. Replay(db'[d], Collected(d)').content = NoTable
  BY <1>2, <1>3, <1>6
<1>8. ~base'[d].exists
  BY <1>2
<1> DEFINE h == [k \in Keys |-> IF <<d, k>> \in torn' THEN None ELSE NoTable.rows[k]]
<1>9. Restored(d)' = [NoTable EXCEPT !.rows = h]
  BY <1>2, <1>5 DEF Restored
<1>10. h = [k \in Keys |-> None]
  BY DEF NoTable
<1>11. Restored(d)' = NoTable
  <2> HIDE DEF h
  <2> QED
    BY <1>9, <1>10 DEF NoTable
<1> QED
  BY <1>7, <1>8, <1>11 DEF Undone

LEMMA UndoStep ==
    ASSUME TypeInv, TypeInv', FreshInv, TornInv, UndoInv, PackagesFit, [Next]_vars
    PROVE  UndoInv'
<1>1. CASE UNCHANGED vars
  <2>1. ASSUME NEW d \in Databases
        PROVE  /\ Collected(d)' = Collected(d) /\ KeysDone(d)' = KeysDone(d)
               /\ (ColDone(d) <=> ColDone(d)')
    BY <1>1 DEF vars, Collected, CollectedBefore, Entries, KeysDone, ColDone, Passed, EntryAt, InPackage, D, Pkg
  <2>2. InPackage' = InPackage /\ AtWork' = AtWork /\ D' = D /\ EntryKeys' = EntryKeys
    BY <1>1 DEF vars, InPackage, AtWork, D, Pkg, EntryKeys, Entry
  <2>3. ASSUME NEW d \in Databases, NEW K \in SUBSET Keys, NEW u \in BOOLEAN, Covers(d, K, u) PROVE Covers(d, K, u)'
    BY <1>1, <2>1, <2>2, <2>3 DEF vars, Covers
  <2>4. ASSUME NEW d \in Databases, Uncreated(d) PROVE Uncreated(d)'
    BY <1>1, <2>1, <2>2, <2>4 DEF vars, Uncreated
  <2>5. ASSUME NEW d \in Databases
        PROVE  (AllRead(d) => AllRead(d)') /\ (Undone(d, Collected(d)) => Undone(d, Collected(d))')
    BY <1>1, <2>1 DEF vars, AllRead, Undone, Restored
  <2> QED
    BY <1>1, <2>3, <2>4, <2>5 DEF vars, UndoInv
<1>2. CASE Next
  <2> SUFFICES ASSUME phase' \notin {"sql", "failed"}, ~unrollback', NEW d \in Databases
               PROVE  \/ /\ AllRead(d)'
                         /\ base'[d].exists => \E K \in SUBSET Keys, u \in BOOLEAN : Covers(d, K, u)'
                         /\ ~base'[d].exists => Uncreated(d)'
                      \/ phase' = "salvage" /\ Undone(d, Collected(d))'
    BY DEF UndoInv
  <2>1. ~unrollback
    BY <1>2, Stays
  <2>0. phase \notin {"salvage", "failed"} /\ torn = {}
    <3>1. phase \notin {"salvage", "failed"}
      BY <1>2, StepKinds DEF ImportSQL, SQLFails, SQLDone, BeginPackage, PackageRefused, Finish, WriteRollbacks,
                             InPackage
    <3> QED
      BY <3>1 DEF TornInv
  <2>00. ~(ReadFails /\ d = D) => AllRead(d)'
    <3>1. CASE ReadFails /\ d # D
      <4>1. PICK n : torn' = {D} \X Unread(n)
        BY <3>1 DEF ReadFails
      <4> QED
        BY <3>1, <4>1 DEF AllRead
    <3>2. CASE ~ReadFails
      <4>1. torn' = torn
        BY <1>2, <3>2 DEF Next, ImportSQL, SQLFails, SQLDone, BeginPackage, PackageRefused, CreateTable, UpsertSkip,
                UpsertCollect, UpsertDelete, UpsertRow, ExecPair, Commit, Abort, Finish, WriteRollbacks
      <4> QED
        BY <2>0, <4>1 DEF AllRead
    <3> QED
      BY <3>1, <3>2
  <2>2. CASE phase = "sql"
    <3>1. SQLDone
      BY <1>2, <2>2, StepKinds DEF ImportSQL, SQLFails, BeginPackage, PackageRefused, Finish, WriteRollbacks, InPackage
    <3>2. /\ phase' = "packages" /\ base' = db /\ db' = db /\ DOMAIN groups' = {} /\ ~InPackage'
      BY <2>2, <3>1 DEF SQLDone, FreshInv, InPackage
    <3>3. CollectedBefore(d)' = <<>>
      BY <3>2 DEF CollectedBefore
    <3>4. Collected(d)' = <<>>
      BY <3>2, <3>3, CollectedNext
    <3>5. ASSUME base'[d].exists PROVE Covers(d, {}, FALSE)'
      <4>1. Lays(Collected(d)', {}, base'[d].rows, FALSE, base'[d].col)
        BY <3>4, LaysNothing
      <4>2. Agrees(db'[d], base'[d], {}, FALSE)
        BY <3>2, <3>5 DEF Agrees
      <4> QED
        BY <3>2, <4>1, <4>2 DEF Covers, InPackage
    <3>6. Uncreated(d)'
      BY <3>2, <3>4 DEF Uncreated
    <3>7. {} \in SUBSET Keys /\ FALSE \in BOOLEAN
      OBVIOUS
    <3>8. ~ReadFails
      BY <2>2 DEF ReadFails, AtEntry
    <3> QED
      BY <2>00, <3>5, <3>6, <3>7, <3>8
  <2>3. CASE phase # "sql"
    <3>1. base' = base
      BY <1>2, <2>3, Stays
    <3>2. ASSUME base[d].exists, ~(ReadFails /\ d = D) PROVE \E K \in SUBSET Keys, u \in BOOLEAN : Covers(d, K, u)'
      <4>1. PICK K \in SUBSET Keys, u \in BOOLEAN : Covers(d, K, u)
        BY <2>0, <2>1, <2>3, <3>2 DEF UndoInv
      <4> QED
        BY <1>2, <2>0, <2>1, <2>3, <3>2, <4>1, CoverStep
    <3>3. ASSUME ~base[d].exists, ~(ReadFails /\ d = D) PROVE Uncreated(d)'
      BY <1>2, <2>0, <2>1, <2>3, <3>3, UncreatedStep DEF UndoInv
    <3>4. ASSUME ReadFails, d = D PROVE phase' = "salvage" /\ Undone(d, Collected(d))'
      <4>1. phase' = "salvage"
        BY <3>4, ReadAborts
      <4>2. CASE base[d].exists
        <5>1. PICK K \in SUBSET Keys, u \in BOOLEAN : Covers(d, K, u)
          BY <2>0, <2>1, <2>3, <4>2 DEF UndoInv
        <5> QED
          BY <3>4, <4>1, <4>2, <5>1, UnreadIsLost
      <4>3. CASE ~base[d].exists
        BY <2>0, <2>1, <2>3, <3>4, <4>1, <4>3, UnreadMissing DEF UndoInv
      <4> QED
        BY <4>1, <4>2, <4>3
    <3> QED
      BY <2>00, <3>1, <3>2, <3>3, <3>4
  <2> QED
    BY <2>2, <2>3
<1> QED
  BY <1>1, <1>2

-----------------------------------------------------------------------------
LEMMA InitAll == Init => TypeInv /\ FreshInv /\ TornInv /\ UndoInv /\ FilesRestore /\ FirstInv /\ LossInv
<1> SUFFICES ASSUME Init PROVE TypeInv /\ FreshInv /\ TornInv /\ UndoInv /\ FilesRestore /\ FirstInv /\ LossInv
  OBVIOUS
<1>1. TypeInv
  BY TypeInit
<1>2. phase = "sql" /\ DOMAIN groups = {} /\ DOMAIN files = {} /\ rb = <<>> /\ unrollback = FALSE
      /\ torn = {}
  BY DEF Init
<1> QED
  BY <1>1, <1>2 DEF FreshInv, TornInv, UndoInv, FilesRestore, FirstInv, FailureCovered, LossInv, NoSilentLoss, InPackage

LEMMA TypesHold == TypeInv /\ TornInv => TypeOK
  BY DEF TypeInv, TornInv, TypeOK, Tables

LEMMA TypesAlways == Spec => [](TypeInv /\ FreshInv /\ TornInv)
<1>1. Init => TypeInv /\ FreshInv /\ TornInv
  BY InitAll
<1>2. TypeInv /\ FreshInv /\ TornInv /\ [Next]_vars => (TypeInv /\ FreshInv /\ TornInv)'
  BY TypeStep, FreshStep, TornStep
<1> QED
  BY <1>1, <1>2, PTL DEF Spec

(* A successful import with Rollback that changed a database has a rollback   *)
(* file: losing them all fails it.                                            *)
THEOREM LossIsNoticed == Spec => []NoSilentLoss
<1>1. Init => LossInv
  BY InitAll
<1>2. TypeInv /\ FreshInv /\ LossInv /\ [Next]_vars => LossInv'
  BY LossStep
<1>3. LossInv => NoSilentLoss
  BY DEF LossInv
<1> QED
  BY <1>1, <1>2, <1>3, TypesAlways, PTL DEF Spec

(* A first package that fails leaves its database as it was, or a rollback    *)
(* file, unless files cannot be written; whatever the packages are.           *)
THEOREM FirstFailureCovered == Spec => []FailureCovered
<1>1. Init => FirstInv
  BY InitAll
<1>2. TypeInv /\ FreshInv /\ FirstInv /\ [Next]_vars => FirstInv'
  BY FirstStep
<1>3. FirstInv => FailureCovered
  BY DEF FirstInv
<1> QED
  BY <1>1, <1>2, <1>3, TypesAlways, PTL DEF Spec

(* An import whose packages fit can be undone at every step, its files undo   *)
(* it in every database they are written for, and a failure is covered; but   *)
(* the rows that could not be read when it failed are lost, and only those.   *)
THEOREM ImportIsUndone == Spec /\ []PackagesFit => []RestoreContract
<1>1. Init => UndoInv /\ FilesRestore
  BY InitAll
<1>2. TypeInv /\ TypeInv' /\ FreshInv /\ TornInv /\ UndoInv /\ PackagesFit /\ [Next]_vars => UndoInv'
  BY UndoStep
<1>3. TypeInv /\ UndoInv => RollbackReady
  BY UndoRestores
<1>4. TypeInv /\ FreshInv /\ RollbackReady /\ FilesRestore /\ [Next]_vars => FilesRestore'
  BY FilesStep
<1>5. TypeOK /\ RollbackReady /\ FilesRestore /\ FailureCovered => RestoreContract
  BY DEF RestoreContract
<1> QED
  BY <1>1, <1>2, <1>3, <1>4, <1>5, TypesHold, TypesAlways, FirstFailureCovered, PTL DEF Spec
=============================================================================
