--------------------------- MODULE SessionProofs ---------------------------
(* The conversation of a tab is sound for every number of requests and every  *)
(* scenario: whatever fails, and whichever objects the session id had.        *)
EXTENDS AISession, FiniteSetTheorems, FunctionTheorems, SequenceTheorems, WellFoundedInduction, TLAPS

-----------------------------------------------------------------------------
(* Numbers and positions *)

(* Every set of natural numbers has a least one. *)
LEMMA LeastNumber ==
    ASSUME NEW S \in SUBSET Nat, S # {}
    PROVE  \E n \in S : \A m \in S : n <= m
<1> DEFINE T == {0 .. n : n \in S}
<1>1. T \subseteq FiniteSubsetsOf(Nat) /\ T # {}
  <2>1. ASSUME NEW n \in S
        PROVE  0 .. n \in FiniteSubsetsOf(Nat)
    <3>1. n \in Nat /\ 0 .. n \subseteq Nat
      OBVIOUS
    <3>2. IsFiniteSet(0 .. n)
      BY <3>1, FS_Interval
    <3> QED
      BY <3>1, <3>2 DEF FiniteSubsetsOf
  <2> QED
    BY <2>1
<1>2. IsWellFoundedOn(StrictSubsetOrdering(Nat), FiniteSubsetsOf(Nat))
  BY FS_StrictSubsetOrderingWellFounded
<1>3. PICK x \in T : \A y \in T : ~(<<y, x>> \in StrictSubsetOrdering(Nat))
  BY <1>1, <1>2, WFMin
<1>4. PICK n \in S : x = 0 .. n
  OBVIOUS
<1>5. ASSUME NEW m \in S, m < n
      PROVE  FALSE
  <2>1. 0 .. m \in T /\ 0 .. m \subseteq 0 .. n /\ 0 .. m \in SUBSET Nat /\ 0 .. n \in SUBSET Nat
    BY <1>5
  <2>2. n \in 0 .. n /\ n \notin 0 .. m
    BY <1>5
  <2>3. <<0 .. m, 0 .. n>> \in StrictSubsetOrdering(Nat)
    BY <2>1, <2>2 DEF StrictSubsetOrdering
  <2> QED
    BY <1>3, <1>4, <2>1, <2>3
<1> QED
  BY <1>5

LEMMA MinOf ==
    ASSUME NEW S \in SUBSET Nat, S # {}
    PROVE  Min(S) \in S /\ \A m \in S : Min(S) <= m
BY LeastNumber DEF Min

(* Max, of numbers up to a bound. *)
LEMMA MaxOf ==
    ASSUME NEW b \in Nat, NEW S \in SUBSET (0 .. b), S # {}
    PROVE  Max(S) \in S /\ \A m \in S : Max(S) >= m
<1> DEFINE Below == {b - m : m \in S}
<1>1. Below \in SUBSET Nat /\ Below # {}
  <2>1. \A m \in S : m \in 0 .. b /\ b - m \in Nat
    OBVIOUS
  <2> QED
    BY <2>1
<1>2. PICK d \in Below : \A e \in Below : d <= e
  BY <1>1, LeastNumber
<1>3. PICK m \in S : d = b - m
  OBVIOUS
<1>4. \A k \in S : m >= k
  <2>1. TAKE k \in S
  <2>2. b - m <= b - k
    BY <1>2, <1>3
  <2> QED
    BY <2>2
<1> QED
  BY <1>4 DEF Max

Rank(at, i) == Cardinality({j \in at : j <= i})
Position(at, k) == CHOOSE i \in at : Rank(at, i) = k

(* The positions of a set, counted, are all numbers up to its size.           *)
LEMMA Ranks ==
    ASSUME NEW n \in Nat, NEW at \in SUBSET (1 .. n)
    PROVE  /\ Cardinality(at) \in Nat
           /\ \A i \in at : Rank(at, i) \in 1 .. Cardinality(at)
           /\ \A i, j \in at : i < j => Rank(at, i) < Rank(at, j)
           /\ \A k \in 1 .. Cardinality(at) : \E i \in at : Rank(at, i) = k
<1>1. IsFiniteSet(at)
  <2>1. IsFiniteSet(1 .. n)
    BY FS_Interval
  <2> QED
    BY <2>1, FS_Subset
<1>2. Cardinality(at) \in Nat
  BY <1>1, FS_CardinalityType
<1>3. ASSUME NEW i \in at
      PROVE  Rank(at, i) \in 1 .. Cardinality(at) /\ Rank(at, i) \in Nat
  <2>1. {j \in at : j <= i} \in SUBSET at /\ i \in {j \in at : j <= i}
    OBVIOUS
  <2>2. IsFiniteSet({j \in at : j <= i}) /\ Rank(at, i) <= Cardinality(at)
    BY <1>1, <2>1, FS_Subset DEF Rank
  <2>3. Rank(at, i) \in Nat /\ Rank(at, i) # 0
    BY <2>1, <2>2, FS_CardinalityType, FS_EmptySet DEF Rank
  <2> QED
    BY <1>2, <2>2, <2>3
<1>6. \A i \in at : Rank(at, i) \in 1 .. Cardinality(at) /\ Rank(at, i) \in Nat
  BY <1>3
<1>4. ASSUME NEW i \in at, NEW j \in at, i < j
      PROVE  Rank(at, i) < Rank(at, j)
  <2>1. {k \in at : k <= i} \in SUBSET {k \in at : k <= j}
    <3>1. i \in Nat /\ j \in Nat /\ \A k \in at : k \in Nat
      OBVIOUS
    <3>2. \A k \in at : k <= i => k <= j
      BY <1>4, <3>1
    <3> QED
      BY <3>2
  <2>2. j \in {k \in at : k <= j} /\ j \notin {k \in at : k <= i}
    BY <1>4
  <2>3. Rank(at, i) <= Rank(at, j) /\ Rank(at, i) # Rank(at, j)
    <3>1. IsFiniteSet({k \in at : k <= j})
      BY <1>1, FS_Subset
    <3> QED
      BY <2>1, <2>2, <3>1, FS_Subset DEF Rank
  <2>4. Rank(at, i) \in Nat /\ Rank(at, j) \in Nat
    BY <1>6
  <2> QED
    BY <2>3, <2>4
<1>5. ASSUME NEW k \in 1 .. Cardinality(at)
      PROVE  \E i \in at : Rank(at, i) = k
  <2> DEFINE R == {Rank(at, i) : i \in at}
             rank == [i \in at |-> Rank(at, i)]
  <2>1. rank \in Bijection(at, R)
    <3>1. rank \in [at -> R]
      OBVIOUS
    <3>2. \A i, j \in at : rank[i] = rank[j] => i = j
      <4>1. TAKE i, j \in at
      <4>2. i \in Nat /\ j \in Nat /\ rank[i] = Rank(at, i) /\ rank[j] = Rank(at, j)
        OBVIOUS
      <4>3. Rank(at, i) \in Nat /\ Rank(at, j) \in Nat
        BY <1>6
      <4>4. i < j \/ j < i \/ i = j
        BY <4>2
      <4> QED
        BY <1>4, <4>2, <4>3, <4>4
    <3> QED
      BY <3>1, <3>2, Fun_IsBij
  <2>2. IsFiniteSet(R) /\ Cardinality(R) = Cardinality(at)
    <3>1. ExistsBijection(at, R)
      BY <2>1, Fun_ExistsBij
    <3> QED
      BY <1>1, <3>1, FS_Bijection
  <2>3. R \in SUBSET (1 .. Cardinality(at))
    BY <1>6
  <2>4. IsFiniteSet(1 .. Cardinality(at)) /\ Cardinality(1 .. Cardinality(at)) = Cardinality(at)
    BY <1>2, FS_Interval
  <2>5. R = 1 .. Cardinality(at)
    BY <2>2, <2>3, <2>4, FS_Subset
  <2> QED
    BY <2>5
<1> QED
  BY <1>2, <1>4, <1>5, <1>6

(* What Keep returns: the messages at the positions, in their order.          *)
LEMMA Kept ==
    ASSUME NEW M, NEW s \in Seq(M), NEW at \in SUBSET DOMAIN s
    PROVE  /\ Keep(s, at) \in Seq(M)
           /\ DOMAIN Keep(s, at) = 1 .. Cardinality(at)
           /\ \A k \in DOMAIN Keep(s, at) :
                /\ Position(at, k) \in at
                /\ Rank(at, Position(at, k)) = k
                /\ Keep(s, at)[k] = s[Position(at, k)]
<1>1. Len(s) \in Nat /\ at \in SUBSET (1 .. Len(s)) /\ DOMAIN s = 1 .. Len(s)
  OBVIOUS
<1>2. /\ Cardinality(at) \in Nat
      /\ \A k \in 1 .. Cardinality(at) : \E i \in at : Rank(at, i) = k
  BY <1>1, Ranks
<1>3. \A k \in 1 .. Cardinality(at) : Position(at, k) \in at /\ Rank(at, Position(at, k)) = k
  BY <1>2 DEF Position
<1>4. Keep(s, at) = [k \in 1 .. Cardinality(at) |-> s[Position(at, k)]]
  BY Zenon DEF Keep, Position, Rank
<1>5. \A k \in 1 .. Cardinality(at) : s[Position(at, k)] \in M
  BY <1>1, <1>3, ElementOfSeq
<1>6. Keep(s, at) \in Seq(M)
  BY <1>2, <1>4, <1>5
<1> QED
  BY <1>3, <1>4, <1>6

-----------------------------------------------------------------------------
(* Sound conversations: no msg_id twice, every message of the user asked by a *)
(* request q, and, where the numbers of the window are its own, every answer  *)
(* under its question.                                                        *)
Bubbles == Message \cup {ErrorBubble}

Distinct(s) ==
    \A i, j \in DOMAIN s :
        s[i].role = "user" /\ s[j].role = "user" /\ s[i].id = s[j].id => i = j

Asked(m, q) == \E r \in Reqs : q[r].id = m.id /\ q[r].task = m.task

Known(s, q) == \A i \in DOMAIN s : s[i].role = "user" => Asked(s[i], q)

Paired(s) ==
    \A j \in DOMAIN s : s[j].role = "assistant" =>
        j - 1 \in DOMAIN s /\ s[j - 1].role = "user" /\ s[j].task = s[j - 1].task

Sound(s, q, own) ==
    s \in Seq(Bubbles) /\ Distinct(s) /\ Known(s, q) /\ (own => Paired(s))

(* Without error bubbles: what the server keeps. *)
Talk(s, q, own) == s \in Seq(Message) /\ Sound(s, q, own)

(* The requests that have been sent keep their message. *)
Keeps(q, q2) == \A r \in Reqs : q[r].id # 0 => q2[r].id = q[r].id /\ q2[r].task = q[r].task

LEMMA Roles ==
    \A m \in Bubbles : /\ m.role \in {"user", "assistant", "error"}
                       /\ m.role # "error" => m \in Message
                       /\ m \in Message => m.role # "error" /\ m.id \in Reqs /\ m.task \in Reqs
BY AISessionAssumption DEF Bubbles, Message, ErrorBubble, Reqs

LEMMA SoundStays ==
    ASSUME NEW q, NEW q2, NEW own, NEW s, Keeps(q, q2)
    PROVE  (Sound(s, q, own) => Sound(s, q2, own)) /\ (Talk(s, q, own) => Talk(s, q2, own))
<1>1. ASSUME Sound(s, q, own)
      PROVE  Known(s, q2)
  <2>2. SUFFICES ASSUME NEW i \in DOMAIN s, s[i].role = "user"
                 PROVE  Asked(s[i], q2)
    BY DEF Known
  <2>3. s[i] \in Bubbles /\ s \in Seq(Bubbles)
    BY <1>1 DEF Sound
  <2>4. s[i].id \in Reqs
    BY <2>2, <2>3, Roles
  <2>5. s[i].id # 0
    BY <2>4 DEF Reqs
  <2>6. Asked(s[i], q)
    BY <1>1, <2>2 DEF Sound, Known
  <2> QED
    BY <2>5, <2>6 DEF Asked, Keeps
<1> QED
  BY <1>1 DEF Sound, Talk

LEMMA TalkIsSound ==
    ASSUME NEW q, NEW own, NEW s, Sound(s, q, own), \A i \in DOMAIN s : s[i].role # "error"
    PROVE  Talk(s, q, own)
<1>1. s \in Seq(Bubbles)
  BY DEF Sound
<1>2. \A i \in 1 .. Len(s) : s[i] \in Message
  BY <1>1, Roles
<1>3. s \in Seq(Message)
  BY <1>1, <1>2
<1> QED
  BY <1>3 DEF Talk

LEMMA EmptySound ==
    ASSUME NEW q, NEW own
    PROVE  Talk(<<>>, q, own)
BY DEF Talk, Sound, Distinct, Known, Paired

LEMMA SoundAppend ==
    ASSUME NEW q, NEW own, NEW s, Sound(s, q, own), NEW m \in Bubbles,
           m.role = "user" => Asked(m, q) /\ \A i \in DOMAIN s : s[i].role = "user" => s[i].id # m.id,
           own /\ m.role = "assistant" => s # <<>> /\ Last(s).role = "user" /\ Last(s).task = m.task
    PROVE  /\ Sound(Append(s, m), q, own)
           /\ Talk(s, q, own) /\ m \in Message => Talk(Append(s, m), q, own)
<1> DEFINE t == Append(s, m)
<1>1. /\ s \in Seq(Bubbles) /\ t \in Seq(Bubbles) /\ Len(s) \in Nat
      /\ Len(t) = Len(s) + 1 /\ DOMAIN s = 1 .. Len(s) /\ DOMAIN t = 1 .. Len(s) + 1
      /\ t[Len(s) + 1] = m
  BY DEF Sound
<1>2. \A i \in DOMAIN t : i # Len(s) + 1 => i \in DOMAIN s /\ t[i] = s[i]
  BY <1>1
<1>3. Distinct(t)
  <2>1. SUFFICES ASSUME NEW i \in DOMAIN t, NEW j \in DOMAIN t,
                        t[i].role = "user", t[j].role = "user", t[i].id = t[j].id
                 PROVE  i = j
    BY DEF Distinct
  <2>2. CASE i = Len(s) + 1 \/ j = Len(s) + 1
    BY <1>1, <1>2, <2>1, <2>2
  <2>3. CASE i # Len(s) + 1 /\ j # Len(s) + 1
    BY <1>2, <2>1, <2>3 DEF Sound, Distinct
  <2> QED
    BY <2>2, <2>3
<1>4. Known(t, q)
  BY <1>1, <1>2 DEF Sound, Known
<1>5. ASSUME own
      PROVE  Paired(t)
  <2>2. SUFFICES ASSUME NEW j \in DOMAIN t, t[j].role = "assistant"
                 PROVE  j - 1 \in DOMAIN t /\ t[j - 1].role = "user" /\ t[j].task = t[j - 1].task
    BY DEF Paired
  <2>3. CASE j = Len(s) + 1
    <3>1. s # <<>> /\ s[Len(s)].role = "user" /\ s[Len(s)].task = m.task
      BY <1>1, <1>5, <2>2, <2>3 DEF Last
    <3>2. Len(s) \in DOMAIN s
      BY <1>1, <3>1
    <3> QED
      BY <1>1, <1>2, <2>3, <3>1, <3>2
  <2>4. CASE j # Len(s) + 1
    <3>1. j \in DOMAIN s /\ t[j] = s[j]
      BY <1>2, <2>4
    <3>2. j - 1 \in DOMAIN s /\ s[j - 1].role = "user" /\ s[j].task = s[j - 1].task
      BY <1>5, <2>2, <3>1 DEF Sound, Paired
    <3>3. j - 1 \in DOMAIN t /\ t[j - 1] = s[j - 1]
      BY <1>1, <1>2, <3>2
    <3> QED
      BY <3>1, <3>2, <3>3
  <2> QED
    BY <2>3, <2>4
<1>6. ASSUME Talk(s, q, own), m \in Message
      PROVE  t \in Seq(Message)
  BY <1>6 DEF Talk
<1> QED
  BY <1>1, <1>3, <1>4, <1>5, <1>6 DEF Sound, Talk

LEMMA SoundFront ==
    ASSUME NEW q, NEW own, NEW s, Sound(s, q, own), NEW n \in 0 .. Len(s)
    PROVE  /\ Sound(SubSeq(s, 1, n), q, own)
           /\ Talk(s, q, own) => Talk(SubSeq(s, 1, n), q, own)
           /\ Len(SubSeq(s, 1, n)) = n
           /\ \A i \in 1 .. n : SubSeq(s, 1, n)[i] = s[i]
<1> DEFINE t == SubSeq(s, 1, n)
<1>1. /\ s \in Seq(Bubbles) /\ Len(s) \in Nat /\ DOMAIN s = 1 .. Len(s) /\ n \in Nat
      /\ \A i \in 1 .. n : i \in DOMAIN s /\ s[i] \in Bubbles
  BY DEF Sound
<1>2. t \in Seq(Bubbles) /\ Len(t) = n /\ \A i \in 1 .. n : t[i] = s[i]
  BY <1>1, SubSeqProperties
<1>3. DOMAIN t = 1 .. n
  BY <1>2
<1>4. Distinct(t) /\ Known(t, q)
  BY <1>1, <1>2, <1>3 DEF Sound, Distinct, Known
<1>5. ASSUME own
      PROVE  Paired(t)
  <2>2. SUFFICES ASSUME NEW j \in DOMAIN t, t[j].role = "assistant"
                 PROVE  j - 1 \in DOMAIN t /\ t[j - 1].role = "user" /\ t[j].task = t[j - 1].task
    BY DEF Paired
  <2>3. j \in DOMAIN s /\ t[j] = s[j] /\ j \in 1 .. n
    BY <1>1, <1>2, <1>3
  <2>4. j - 1 \in DOMAIN s /\ s[j - 1].role = "user" /\ s[j].task = s[j - 1].task
    BY <1>5, <2>2, <2>3 DEF Sound, Paired
  <2>5. j - 1 \in 1 .. n
    BY <1>1, <2>3, <2>4
  <2> QED
    BY <1>2, <1>3, <2>3, <2>4, <2>5
<1>6. ASSUME Talk(s, q, own)
      PROVE  t \in Seq(Message)
  <2>1. s \in Seq(Message)
    BY <1>6 DEF Talk
  <2>2. \A i \in 1 .. n : s[i] \in Message
    BY <1>1, <2>1
  <2> QED
    BY <1>1, <2>2, SubSeqProperties
<1> QED
  BY <1>2, <1>4, <1>5, <1>6 DEF Sound, Talk

(* Messages are dropped, but no question that has its answer.                 *)
LEMMA SoundKeep ==
    ASSUME NEW q, NEW own, NEW s, Sound(s, q, own), NEW at \in SUBSET DOMAIN s,
           \A j \in at : s[j].role = "assistant" /\ j - 1 \in DOMAIN s /\ s[j - 1].role = "user" => j - 1 \in at
    PROVE  /\ Sound(Keep(s, at), q, own)
           /\ \A k \in DOMAIN Keep(s, at) : \E i \in at : Keep(s, at)[k] = s[i]
<1> DEFINE t == Keep(s, at)
           pos(k) == Position(at, k)
<1>1. s \in Seq(Bubbles) /\ Len(s) \in Nat /\ DOMAIN s = 1 .. Len(s) /\ at \in SUBSET (1 .. Len(s))
  BY DEF Sound
<1>2. /\ t \in Seq(Bubbles) /\ DOMAIN t = 1 .. Cardinality(at)
      /\ \A k \in DOMAIN t : pos(k) \in at /\ Rank(at, pos(k)) = k /\ t[k] = s[pos(k)]
  BY <1>1, Kept
<1>3. /\ Cardinality(at) \in Nat
      /\ \A i \in at : Rank(at, i) \in 1 .. Cardinality(at)
      /\ \A i, j \in at : i < j => Rank(at, i) < Rank(at, j)
  BY <1>1, Ranks
<1>4. Distinct(t)
  <2>1. SUFFICES ASSUME NEW k \in DOMAIN t, NEW l \in DOMAIN t,
                        t[k].role = "user", t[l].role = "user", t[k].id = t[l].id
                 PROVE  k = l
    BY DEF Distinct
  <2>2. pos(k) = pos(l)
    BY <1>1, <1>2, <2>1 DEF Sound, Distinct
  <2> QED
    BY <1>2, <2>2
<1>5. Known(t, q)
  BY <1>1, <1>2 DEF Sound, Known
<1>6. ASSUME own
      PROVE  Paired(t)
  <2>1. SUFFICES ASSUME NEW k \in DOMAIN t, t[k].role = "assistant"
                 PROVE  k - 1 \in DOMAIN t /\ t[k - 1].role = "user" /\ t[k].task = t[k - 1].task
    BY DEF Paired
  <2> DEFINE j == pos(k)
  <2>2. j \in at /\ Rank(at, j) = k /\ t[k] = s[j] /\ j \in DOMAIN s
    BY <1>1, <1>2
  <2>3. j - 1 \in DOMAIN s /\ s[j - 1].role = "user" /\ s[j].task = s[j - 1].task
    BY <1>6, <2>1, <2>2 DEF Sound, Paired
  <2>4. j - 1 \in at
    BY <2>1, <2>2, <2>3
  <2> DEFINE l == Rank(at, j - 1)
  <2>5. l \in 1 .. Cardinality(at) /\ l < k
    BY <1>1, <1>3, <2>2, <2>4
  <2>6. k - 1 \in DOMAIN t
    BY <1>2, <1>3, <2>5
  <2>7. pos(k - 1) = j - 1
    <3> DEFINE i == pos(k - 1)
    <3>1. i \in at /\ Rank(at, i) = k - 1 /\ i \in Nat /\ j \in Nat /\ k \in Nat
      BY <1>1, <1>2, <2>2, <2>6
    <3>2. ~(j - 1 < i /\ i < j)
      BY <3>1
    <3>3. ~(i < j - 1)
      BY <1>3, <2>4, <2>5, <3>1
    <3>4. ~(j < i) /\ i # j
      BY <1>3, <2>2, <3>1
    <3> QED
      BY <3>1, <3>2, <3>3, <3>4
  <2>8. t[k - 1] = s[j - 1]
    BY <1>2, <2>6, <2>7
  <2> QED
    BY <2>2, <2>3, <2>6, <2>8
<1> QED
  BY <1>2, <1>4, <1>5, <1>6 DEF Sound

-----------------------------------------------------------------------------
(* The inductive invariant *)

Chatting == {"get", "restore", "build", "saveNew", "getAgain", "lock", "model", "save", "reply"}
Resetting == {"resetGet", "resetLock", "resetSave", "resetLoad", "resetStore"}

Request == [pc : {"unused", "done", "failed"} \cup Chatting \cup Resetting,
            panel : scenario.panels \cup {0}, id : Reqs \cup {0}, task : Reqs \cup {0},
            history : Seq(Message), from : Seq(Message), restoring : BOOLEAN,
            obj : Nat, answer : Bubbles, live : BOOLEAN]

PanelType == [state : {"idle", "streaming", "deleting", "deleteRow", "resend", "resetting",
                       "closing", "closingEntry", "closed"},
              view : Seq(Bubbles), seq : Reqs \cup {0}, resend : Seq(Message)]

Typed ==
    /\ scenario \in Scenarios
    /\ heap \in Seq([messages : Seq(Message), lock : Reqs \cup {0}])
    /\ mem \in 0 .. Len(heap)
    /\ row \in [stored : BOOLEAN, messages : Seq(Message)]
    /\ rq \in [Reqs -> Request]
    /\ panel \in [scenario.panels -> PanelType]
    /\ \A r \in Reqs : ~Ended(r) => rq[r].obj \in 0 .. Len(heap)

Used(r) == rq[r].pc # "unused"

(* A msg_id is the number of a request that has been made, or less; a window  *)
(* that has never loaded a row gives each to one text.                        *)
Numbers ==
    /\ \A r, q \in Reqs : q < r /\ Used(r) => Used(q)
    /\ \A r \in Reqs : rq[r].id # 0 => rq[r].task # 0 /\ Used(r) /\ Used(rq[r].id)
    /\ \A r \in Reqs : rq[r].pc \in Chatting => rq[r].id # 0
    /\ \A p \in scenario.panels : panel[p].seq # 0 => Used(panel[p].seq)
    /\ OwnNumbers =>
          /\ \A p \in scenario.panels : \A r \in Reqs : rq[r].id <= panel[p].seq
          /\ \A r, q \in Reqs : rq[r].id # 0 /\ rq[r].id = rq[q].id => rq[r].task = rq[q].task

Objects == \A o \in DOMAIN heap : Talk(heap[o].messages, rq, OwnNumbers)
Stored == Talk(row.messages, rq, OwnNumbers)
Carried == \A r \in Reqs : Talk(rq[r].history, rq, OwnNumbers) /\ Talk(rq[r].from, rq, OwnNumbers)

Below(view, n) == \A i \in DOMAIN view : view[i].role = "user" => view[i].id <= n
Views == \A p \in scenario.panels : /\ Sound(panel[p].view, rq, OwnNumbers)
                                    /\ Below(panel[p].view, panel[p].seq)

(* The message that will be sent again has left the window.                   *)
Resends ==
    \A p \in scenario.panels : panel[p].state \in {"deleting", "deleteRow", "resend"} =>
        LET m == panel[p].resend[1]
        IN  /\ m \in Message /\ m.role = "user" /\ m.id <= panel[p].seq /\ Asked(m, rq)
            /\ \A i \in DOMAIN panel[p].view : panel[p].view[i].role = "user" => panel[p].view[i].id # m.id

(* What a request has in hand: its object, the lock, the question, the answer. *)
Hands ==
    \A r \in Reqs :
        /\ rq[r].pc \in {"saveNew", "lock", "model", "save", "resetLock", "resetSave"} =>
              rq[r].obj \in DOMAIN heap
        /\ rq[r].pc \in {"model", "save"} => heap[rq[r].obj].lock = r
        /\ rq[r].pc = "model" =>
              /\ EndsWithUser(heap[rq[r].obj].messages)
              /\ OwnNumbers => Last(heap[rq[r].obj].messages).task = rq[r].task
        /\ rq[r].pc \in {"save", "reply"} =>
              /\ rq[r].answer \in Message /\ rq[r].answer.role = "assistant"
              /\ OwnNumbers => rq[r].answer.task = rq[r].task

(* A window listens to one request: its last message, or its reset.           *)
Listened(r) == ~Ended(r) /\ rq[r].live
Listening ==
    \A r \in Reqs : Listened(r) =>
        /\ rq[r].panel \in scenario.panels
        /\ \A q \in Reqs : Listened(q) /\ rq[q].panel = rq[r].panel => q = r
        /\ rq[r].pc \in Resetting => panel[rq[r].panel].state = "resetting"
        /\ rq[r].pc \in Chatting =>
              /\ panel[rq[r].panel].state = "streaming"
              /\ panel[rq[r].panel].view # <<>>
              /\ Last(panel[rq[r].panel].view) = User(rq[r].id, rq[r].task)

IInv == /\ Typed /\ Numbers /\ Objects /\ Stored /\ Carried /\ Views
        /\ Resends /\ Hands /\ LockHeldByWorker /\ Listening

LEMMA InitInv == Init => IInv
<1> SUFFICES ASSUME Init PROVE IInv
  OBVIOUS
<1>1. Typed
  <2>1. <<>> \in Seq(Message) /\ <<>> \in Seq(Bubbles) /\ ErrorBubble \in Bubbles /\ 0 \in Nat
    BY DEF Bubbles
  <2>2. Unused \in Request
    BY <2>1 DEF Unused, Request
  <2>3. rq \in [Reqs -> Request] /\ \A r \in Reqs : Ended(r)
    BY <2>2 DEF Init, Ended, Unused
  <2>4. panel \in [scenario.panels -> PanelType]
    BY <2>1 DEF Init, PanelType
  <2>5. heap \in Seq([messages : Seq(Message), lock : Reqs \cup {0}]) /\ Len(heap) = 1
    BY <2>1 DEF Init
  <2> QED
    BY <2>1, <2>3, <2>4, <2>5 DEF Typed, Init, Row
<1>2. \A r \in Reqs : rq[r] = Unused
  BY DEF Init
<1>3. \A p \in scenario.panels : panel[p].state = "idle" /\ panel[p].view = <<>> /\ panel[p].seq = 0
  BY DEF Init
<1>4. DOMAIN heap = {1} /\ heap[1].messages = <<>> /\ heap[1].lock = 0 /\ row.messages = <<>>
  BY DEF Init, Row
<1>5. Numbers
  BY <1>2, <1>3 DEF Numbers, Used, Unused, Chatting
<1>6. Objects /\ Stored
  BY <1>4, EmptySound DEF Objects, Stored
<1>7. Carried
  BY <1>2, EmptySound DEF Carried, Unused
<1>8. Views
  BY <1>3, EmptySound DEF Views, Talk, Below
<1>9. Resends /\ Hands /\ LockHeldByWorker /\ Listening
  BY <1>2, <1>3, <1>4 DEF Resends, Hands, LockHeldByWorker, Listening, Listened, Ended, Unused
<1> QED
  BY <1>1, <1>5, <1>6, <1>7, <1>8, <1>9 DEF IInv

(* What a window shows after the end of the request it listens to.            *)
LEMMA Delivered ==
    ASSUME Typed, Listening, NEW r \in Reqs, ~Ended(r), NEW msg \in Bubbles, panel' = Deliver(r, msg)
    PROVE  /\ panel' \in [scenario.panels -> PanelType]
           /\ \A p \in scenario.panels :
                 /\ panel'[p].seq = panel[p].seq /\ panel'[p].resend = panel[p].resend
                 /\ IF rq[r].live /\ p = rq[r].panel
                    THEN panel'[p].state = "idle" /\ panel'[p].view = Append(panel[p].view, msg)
                    ELSE panel'[p] = panel[p]
<1> DEFINE w == rq[r].panel
<1>1. CASE ~rq[r].live
  BY <1>1 DEF Deliver, Typed
<1>2. CASE rq[r].live
  <2>1. w \in scenario.panels
    BY <1>2 DEF Listening, Listened
  <2>2. panel' = [panel EXCEPT ![w] = [panel[w] EXCEPT !.state = "idle", !.view = Append(panel[w].view, msg)]]
    BY <1>2, <2>1 DEF Deliver, Typed, PanelType
  <2>3. Append(panel[w].view, msg) \in Seq(Bubbles)
    BY <2>1 DEF Typed, PanelType
  <2> DEFINE new == [panel[w] EXCEPT !.state = "idle", !.view = Append(panel[w].view, msg)]
  <2>4. /\ new \in PanelType /\ new.state = "idle" /\ new.view = Append(panel[w].view, msg)
        /\ new.seq = panel[w].seq /\ new.resend = panel[w].resend
    BY <2>1, <2>3 DEF Typed, PanelType
  <2>5. panel \in [scenario.panels -> PanelType]
    BY DEF Typed
  <2> HIDE DEF new
  <2>6. panel' = [panel EXCEPT ![w] = new]
    BY <2>2 DEF new
  <2>7. /\ panel' \in [scenario.panels -> PanelType] /\ panel'[w] = new
        /\ \A p \in scenario.panels : p # w => panel'[p] = panel[p]
    BY <2>1, <2>4, <2>5, <2>6
  <2> QED
    BY <1>2, <2>4, <2>7
<1> QED
  BY <1>1, <1>2

(* The requests after a step: one that is made stays made and keeps its message. *)
Grown == \A r \in Reqs : Used(r) =>
            /\ Used(r)' /\ rq'[r].id = rq[r].id /\ rq'[r].task = rq[r].task
            /\ rq'[r].history = rq[r].history /\ rq'[r].panel = rq[r].panel

(* A step of one request r writes a record of the same message to rq[r].      *)
SameMessage(r, new) ==
    /\ new \in Request /\ new.id = rq[r].id /\ new.task = rq[r].task
    /\ new.history = rq[r].history /\ new.panel = rq[r].panel
    /\ new.pc # "unused"

Puts(r, new) == rq' = [rq EXCEPT ![r] = new]

LEMMA Updated ==
    ASSUME Typed, NEW r \in Reqs, NEW new, SameMessage(r, new), Puts(r, new)
    PROVE  /\ rq' \in [Reqs -> Request] /\ Grown
           /\ rq'[r] = new /\ \A q \in Reqs : q # r => rq'[q] = rq[q]
<1>1. /\ rq' \in [Reqs -> Request]
      /\ rq'[r] = new /\ \A q \in Reqs : q # r => rq'[q] = rq[q]
  BY DEF Typed, SameMessage, Puts
<1>2. Grown
  BY <1>1 DEF Grown, Used, SameMessage
<1> QED
  BY <1>1, <1>2

Objs == [messages : Seq(Message), lock : Reqs \cup {0}]

LEMMA HeapUpdated ==
    ASSUME Typed, NEW o \in DOMAIN heap, NEW new \in Objs, heap' = [heap EXCEPT ![o] = new]
    PROVE  /\ heap' \in Seq(Objs) /\ Len(heap') = Len(heap) /\ DOMAIN heap' = DOMAIN heap
           /\ heap'[o] = new /\ \A x \in DOMAIN heap : x # o => heap'[x] = heap[x]
<1>1. heap \in Seq(Objs) /\ o \in 1 .. Len(heap) /\ DOMAIN heap = 1 .. Len(heap)
  BY DEF Typed, Objs
<1>2. /\ heap' \in Seq(Objs) /\ Len(heap') = Len(heap)
      /\ \A j \in 1 .. Len(heap) : heap'[j] = IF j = o THEN new ELSE heap[j]
  BY <1>1, ExceptSeq
<1>3. DOMAIN heap' = 1 .. Len(heap')
  BY <1>2
<1> QED
  BY <1>1, <1>2, <1>3

(* What the repair of an unanswered message leaves is a conversation that     *)
(* ends with the message asked.                                               *)
LEMMA DedupeSound ==
    ASSUME NEW q, NEW own, NEW s, Talk(s, q, own)
    PROVE  Talk(DedupeConsecutiveUser(s), q, own)
<1> DEFINE at == {i \in DOMAIN s : i = Len(s) \/ ~SameUserText(s[i], s[i + 1])}
<1>1. Sound(s, q, own) /\ s \in Seq(Message) /\ \A i \in DOMAIN s : s[i] \in Message /\ s[i].role # "error"
  <2>1. s \in Seq(Message) /\ Sound(s, q, own)
    BY DEF Talk
  <2>2. \A i \in DOMAIN s : s[i] \in Message
    BY <2>1
  <2>3. \A i \in DOMAIN s : s[i].role # "error"
    BY <2>2, Roles DEF Bubbles
  <2> QED
    BY <2>1, <2>2, <2>3
<1>2. at \in SUBSET DOMAIN s
  OBVIOUS
<1>3. ASSUME NEW j \in at, s[j].role = "assistant", j - 1 \in DOMAIN s
      PROVE  j - 1 \in at
  <2>1. (j - 1) + 1 = j
    BY <1>1
  <2>2. ~SameUserText(s[j - 1], s[j])
    BY <1>3 DEF SameUserText
  <2> QED
    BY <1>3, <2>1, <2>2
<1>4. /\ Sound(Keep(s, at), q, own)
      /\ \A k \in DOMAIN Keep(s, at) : \E i \in at : Keep(s, at)[k] = s[i]
  <2> HIDE DEF at
  <2> QED
    BY <1>1, <1>2, <1>3, SoundKeep
<1>5. Talk(Keep(s, at), q, own)
  <2> HIDE DEF at
  <2> QED
    BY <1>1, <1>2, <1>4, TalkIsSound
<1> QED
  BY <1>5, Zenon DEF DedupeConsecutiveUser

LEMMA ShownSound ==
    ASSUME NEW q, NEW own, NEW s, Sound(s, q, own)
    PROVE  Talk(Shown(s), q, own)
<1> DEFINE at == {i \in DOMAIN s : s[i].role # "error"}
<1>1. Shown(s) = Keep(s, at)
  BY DEF Shown, Indices
<1>2. at \in SUBSET DOMAIN s /\ \A j \in at : s[j].role # "error"
  OBVIOUS
<1>3. \A j \in at : j - 1 \in DOMAIN s /\ s[j - 1].role = "user" => j - 1 \in at
  OBVIOUS
<1> HIDE DEF at
<1>4. /\ Sound(Keep(s, at), q, own)
      /\ \A k \in DOMAIN Keep(s, at) : \E i \in at : Keep(s, at)[k] = s[i]
  BY <1>2, <1>3, SoundKeep
<1> QED
  BY <1>1, <1>2, <1>4, TalkIsSound

LEMMA LastAsked ==
    ASSUME NEW s \in Seq(Message), EndsWithUser(s)
    PROVE  s # <<>> /\ Last(s).role = "user" /\ LastTask(s) = Last(s).task /\ Last(s) \in Message
<1>1. s # <<>> /\ Len(s) \in Nat \ {0} /\ DOMAIN s = 1 .. Len(s) /\ Last(s) = s[Len(s)]
  BY DEF EndsWithUser, Last
<1>2. Len(s) \in UsersOf(s) /\ \A i \in UsersOf(s) : i \in Nat /\ i <= Len(s)
  BY <1>1 DEF EndsWithUser, UsersOf, Indices
<1>3. Max(UsersOf(s)) = Len(s)
  BY <1>1, <1>2 DEF Max
<1> QED
  BY <1>1, <1>3 DEF EndsWithUser, LastTask

LEMMA LastAppended ==
    ASSUME NEW S, NEW s \in Seq(S), NEW m \in S
    PROVE  Append(s, m) # <<>> /\ Last(Append(s, m)) = m
<1>1. Len(Append(s, m)) = Len(s) + 1 /\ Append(s, m)[Len(s) + 1] = m /\ Len(s) \in Nat
  OBVIOUS
<1> QED
  BY <1>1 DEF Last

(* The conversation a chat puts to the model, taken up or added to.           *)
LEMMA AskedConversation ==
    ASSUME IInv, NEW r \in Reqs, rq[r].pc = "lock"
    PROVE  LET msgs == Object(r).messages
               known == WithMsgID(msgs, rq[r].id)
               mine == User(rq[r].id, rq[r].task)
               added == IF EndsWithUser(msgs) THEN Append(Front(msgs), mine) ELSE Append(msgs, mine)
           IN  /\ known = {} => /\ Talk(added, rq, OwnNumbers) /\ EndsWithUser(added)
                                /\ Last(added).task = rq[r].task
               /\ known # {} =>
                    LET i == Min(known)
                        head == SubSeq(msgs, 1, i)
                    IN  /\ i \in DOMAIN msgs
                        /\ Talk(head, rq, OwnNumbers) /\ EndsWithUser(head)
                        /\ OwnNumbers => Last(head).task = rq[r].task
                        /\ Answered(msgs, i) =>
                             /\ msgs[i + 1] \in Message /\ msgs[i + 1].role = "assistant"
                             /\ OwnNumbers => msgs[i + 1].task = rq[r].task
<1> DEFINE msgs == Object(r).messages
           known == WithMsgID(msgs, rq[r].id)
           mine == User(rq[r].id, rq[r].task)
<1>1. rq[r].obj \in DOMAIN heap /\ msgs = heap[rq[r].obj].messages
  BY DEF IInv, Hands, Object
<1>2. Talk(msgs, rq, OwnNumbers) /\ Sound(msgs, rq, OwnNumbers) /\ msgs \in Seq(Message)
  BY <1>1 DEF IInv, Objects, Talk
<1>3. rq[r].id \in Reqs /\ rq[r].task \in Reqs /\ Reqs = 1 .. MaxReqs
  BY DEF IInv, Numbers, Chatting, Typed, Request, Reqs
<1>4. mine \in Message /\ mine \in Bubbles /\ mine.role = "user" /\ mine.id = rq[r].id /\ mine.task = rq[r].task
  BY <1>3 DEF User, Message, Bubbles
<1>5. Len(msgs) \in Nat /\ DOMAIN msgs = 1 .. Len(msgs)
  BY <1>2
<1>6. ASSUME known = {}
      PROVE  LET added == IF EndsWithUser(msgs) THEN Append(Front(msgs), mine) ELSE Append(msgs, mine)
             IN  Talk(added, rq, OwnNumbers) /\ EndsWithUser(added) /\ Last(added).task = rq[r].task
  <2>1. \A i \in DOMAIN msgs : msgs[i].role = "user" => msgs[i].id # mine.id
    BY <1>4, <1>6 DEF WithMsgID, Indices
  <2>2. ASSUME NEW s, s = msgs \/ (s = Front(msgs) /\ EndsWithUser(msgs))
        PROVE  Talk(Append(s, mine), rq, OwnNumbers) /\ EndsWithUser(Append(s, mine)) /\ Last(Append(s, mine)) = mine
    <3>1. PICK n \in 0 .. Len(msgs) : s = SubSeq(msgs, 1, n)
      <4>1. CASE s = msgs
        BY <1>2, <1>5, <4>1, SubSeqFull
      <4>2. CASE s = Front(msgs) /\ EndsWithUser(msgs)
        <5>1. Len(msgs) - 1 \in 0 .. Len(msgs)
          BY <1>2, <1>5, <4>2 DEF EndsWithUser
        <5> QED
          BY <4>2, <5>1 DEF Front
      <4> QED
        BY <2>2, <4>1, <4>2
    <3>2. /\ Talk(s, rq, OwnNumbers) /\ Sound(s, rq, OwnNumbers) /\ Len(s) = n
          /\ \A i \in 1 .. n : s[i] = msgs[i]
      BY <1>2, <1>5, <3>1, SoundFront
    <3>3. s \in Seq(Message) /\ DOMAIN s = 1 .. n /\ n \in Nat
      BY <3>2 DEF Talk
    <3>4. \A i \in DOMAIN s : s[i].role = "user" => s[i].id # mine.id
      BY <1>5, <2>1, <3>2, <3>3
    <3>5. Asked(mine, rq)
      BY <1>4 DEF Asked
    <3>6. Talk(Append(s, mine), rq, OwnNumbers)
      BY <1>4, <3>2, <3>4, <3>5, SoundAppend
    <3>7. Append(s, mine) # <<>> /\ Last(Append(s, mine)) = mine
      BY <1>4, <3>3, LastAppended
    <3> QED
      BY <1>4, <3>6, <3>7 DEF EndsWithUser
  <2> DEFINE added == IF EndsWithUser(msgs) THEN Append(Front(msgs), mine) ELSE Append(msgs, mine)
  <2>3. PICK s : (s = msgs \/ (s = Front(msgs) /\ EndsWithUser(msgs))) /\ added = Append(s, mine)
    BY Zenon
  <2> HIDE DEF added, msgs, mine
  <2> QED
    BY <1>4, <2>2, <2>3, Zenon DEF added
<1>7. ASSUME known # {}
      PROVE  LET i == Min(known)
                 head == SubSeq(msgs, 1, i)
             IN  /\ i \in DOMAIN msgs
                 /\ Talk(head, rq, OwnNumbers) /\ EndsWithUser(head)
                 /\ OwnNumbers => Last(head).task = rq[r].task
                 /\ Answered(msgs, i) =>
                      /\ msgs[i + 1] \in Message /\ msgs[i + 1].role = "assistant"
                      /\ OwnNumbers => msgs[i + 1].task = rq[r].task
  <2> DEFINE i == Min(known)
             head == SubSeq(msgs, 1, i)
  <2>1. i \in DOMAIN msgs /\ msgs[i].role = "user" /\ msgs[i].id = rq[r].id
    <3>1. known \in SUBSET Nat
      BY <1>5 DEF WithMsgID, Indices
    <3>2. i \in known
      BY <1>7, <3>1, MinOf
    <3> QED
      BY <3>2 DEF WithMsgID, Indices
  <2> HIDE DEF i
  <2>2. OwnNumbers => msgs[i].task = rq[r].task
    <3>1. PICK q \in Reqs : rq[q].id = msgs[i].id /\ rq[q].task = msgs[i].task
      BY <1>2, <2>1 DEF Sound, Known, Asked
    <3>2. rq[r].id # 0
      BY <1>3
    <3> QED
      BY <2>1, <3>1, <3>2 DEF IInv, Numbers
  <2>3. Talk(head, rq, OwnNumbers) /\ Len(head) = i /\ head[i] = msgs[i] /\ i \in Nat \ {0}
    BY <1>2, <1>5, <2>1, SoundFront
  <2>4. head # <<>> /\ Last(head) = msgs[i]
    BY <2>3 DEF Last
  <2>5. ASSUME Answered(msgs, i)
        PROVE  /\ msgs[i + 1] \in Message /\ msgs[i + 1].role = "assistant"
               /\ OwnNumbers => msgs[i + 1].task = rq[r].task
    <3>1. i + 1 \in DOMAIN msgs /\ msgs[i + 1].role = "assistant" /\ (i + 1) - 1 = i
      BY <1>5, <2>1, <2>5 DEF Answered
    <3>2. msgs[i + 1] \in Message
      BY <1>2, <3>1
    <3>3. OwnNumbers => msgs[i + 1].task = msgs[i].task
      BY <1>2, <3>1 DEF Sound, Paired
    <3> QED
      BY <2>2, <3>1, <3>2, <3>3
  <2>6. EndsWithUser(head)
    BY <2>1, <2>4 DEF EndsWithUser
  <2> QED
    BY <2>1, <2>2, <2>3, <2>4, <2>5, <2>6 DEF i
<1> QED
  BY <1>6, <1>7

-----------------------------------------------------------------------------
(* The steps of one request.  What the request does to its record, to the     *)
(* objects, to the row and to its window; the invariant follows.              *)
NewRecord(r, new) ==
    /\ SameMessage(r, new) /\ new.live = rq[r].live
    /\ Puts(r, new)
    /\ Talk(new.from, rq, OwnNumbers)
    /\ rq[r].pc \in Chatting /\ new.pc \notin {"done", "failed"} => new.pc \in Chatting
    /\ rq[r].pc \in Resetting /\ new.pc \notin {"done", "failed"} => new.pc \in Resetting
    /\ new.pc \notin {"done", "failed"} => new.obj \in 0 .. Len(heap')

NewHands(r, new) ==
    /\ new.pc \in {"saveNew", "lock", "model", "save", "resetLock", "resetSave"} => new.obj \in DOMAIN heap'
    /\ new.pc \in {"model", "save"} => heap'[new.obj].lock = r
    /\ new.pc = "model" =>
          /\ EndsWithUser(heap'[new.obj].messages)
          /\ OwnNumbers => Last(heap'[new.obj].messages).task = rq[r].task
    /\ new.pc \in {"save", "reply"} =>
          /\ new.answer \in Message /\ new.answer.role = "assistant"
          /\ OwnNumbers => new.answer.task = rq[r].task

NewHeap(r, new) ==
    /\ heap' \in Seq(Objs) /\ Len(heap) <= Len(heap')
    /\ \A o \in DOMAIN heap' :
          /\ Talk(heap'[o].messages, rq, OwnNumbers)
          /\ \/ heap'[o].lock = 0
             \/ heap'[o].lock = r /\ new.pc \in {"model", "save"} /\ new.obj = o
             \/ o \in DOMAIN heap /\ heap'[o].lock = heap[o].lock /\ heap[o].lock # r
    /\ \A o \in DOMAIN heap : heap[o].lock \notin {0, r} => heap'[o] = heap[o]

NewRow == row' \in [stored : BOOLEAN, messages : Seq(Message)] /\ Talk(row'.messages, rq, OwnNumbers)

NewPanel(r, new) ==
    \/ panel' = panel
    \/ /\ new.pc \in {"done", "failed"}
       /\ panel' \in [scenario.panels -> PanelType]
       /\ \A p \in scenario.panels :
            \/ panel'[p] = panel[p]
            \/ /\ rq[r].live /\ p = rq[r].panel
               /\ panel'[p].state = "idle" /\ panel'[p].seq = panel[p].seq
               /\ Sound(panel'[p].view, rq, OwnNumbers) /\ Below(panel'[p].view, panel[p].seq)

LEMMA GrownKeeps ==
    ASSUME Numbers, Grown
    PROVE  Keeps(rq, rq')
BY DEF Numbers, Grown, Keeps

LEMMA RequestStep ==
    ASSUME IInv, NEW r \in Reqs, ~Ended(r), NEW new, scenario' = scenario, mem' \in 0 .. Len(heap'),
           NewRecord(r, new), NewHands(r, new), NewHeap(r, new), NewRow, NewPanel(r, new)
    PROVE  IInv'
<1>1. /\ rq' \in [Reqs -> Request] /\ Grown
      /\ rq'[r] = new /\ \A q \in Reqs : q # r => rq'[q] = rq[q]
  BY Updated DEF IInv, NewRecord
<1>2. Keeps(rq, rq')
  BY <1>1, GrownKeeps DEF IInv
<1>3. OwnNumbers' = OwnNumbers /\ Request' = Request
  BY DEF OwnNumbers, Request
<1>4. panel' \in [scenario.panels -> PanelType]
  BY DEF NewPanel, IInv, Typed
<1>5. DOMAIN heap = 1 .. Len(heap) /\ DOMAIN heap' = 1 .. Len(heap') /\ Len(heap) \in Nat /\ Len(heap') \in Nat
  BY DEF IInv, Typed, NewHeap
<1>6. new.id = rq[r].id /\ new.task = rq[r].task /\ new.history = rq[r].history /\ new.panel = rq[r].panel
      /\ new.live = rq[r].live /\ new.pc # "unused" /\ Used(r)
  BY DEF NewRecord, SameMessage, Used, Ended
<1>7. \A q \in Reqs : Used(q)' <=> Used(q)
  BY <1>1, <1>6 DEF Used
<1>8. \A q \in Reqs : rq'[q].id = rq[q].id /\ rq'[q].task = rq[q].task /\ rq'[q].panel = rq[q].panel
                      /\ rq'[q].history = rq[q].history /\ rq'[q].live = rq[q].live
  BY <1>1, <1>6
<1>9. \A p \in scenario.panels : panel'[p].seq = panel[p].seq
  BY DEF NewPanel
<1>10. Typed'
  <2>1. \A q \in Reqs : ~Ended(q)' => rq'[q].obj \in 0 .. Len(heap')
    <3>1. ASSUME NEW q \in Reqs, ~Ended(q)', q # r
          PROVE  rq'[q].obj \in 0 .. Len(heap')
      <4>1. rq'[q] = rq[q] /\ ~Ended(q)
        BY <1>1, <3>1 DEF Ended
      <4>2. rq[q].obj \in 0 .. Len(heap)
        BY <4>1 DEF IInv, Typed
      <4> QED
        BY <1>5, <4>1, <4>2 DEF NewHeap
    <3>2. ~Ended(r)' => rq'[r].obj \in 0 .. Len(heap')
      BY <1>1, <1>6 DEF Ended, NewRecord
    <3> QED
      BY <3>1, <3>2
  <2> QED
    BY <1>1, <1>3, <1>4, <2>1 DEF IInv, Typed, NewHeap, NewRow, Objs
<1>11. Numbers'
  <2>1. \A q \in Reqs : rq'[q].pc \in Chatting => rq[q].id # 0
    <3>1. rq[r].pc \in Chatting \cup Resetting
      BY DEF Ended, IInv, Typed, Request
    <3>2. new.pc \in Chatting => rq[r].pc \in Chatting
      BY <3>1 DEF NewRecord, Chatting, Resetting
    <3> QED
      BY <1>1, <3>2 DEF IInv, Numbers
  <2>2. \A q \in Reqs : rq'[q].pc # "unused" <=> rq[q].pc # "unused"
    BY <1>1, <1>6, <1>7 DEF Used
  <2>3. \A q \in Reqs : rq[q].id \in Reqs \cup {0}
    BY DEF IInv, Typed, Request
  <2>4. \A p \in scenario.panels : panel[p].seq \in Reqs \cup {0}
    BY DEF IInv, Typed, PanelType
  <2>5. Numbers
    BY DEF IInv
  <2>6. \A q1, q2 \in Reqs : q2 < q1 /\ rq'[q1].pc # "unused" => rq'[q2].pc # "unused"
    BY <1>7, <2>5 DEF Numbers, Used
  <2>7. \A q \in Reqs : rq'[q].id # 0 =>
            rq'[q].task # 0 /\ rq'[q].pc # "unused" /\ rq'[rq'[q].id].pc # "unused"
    <3>1. SUFFICES ASSUME NEW q \in Reqs, rq'[q].id # 0
                   PROVE  rq'[q].task # 0 /\ rq'[q].pc # "unused" /\ rq'[rq'[q].id].pc # "unused"
      OBVIOUS
    <3>2. rq'[q].id = rq[q].id /\ rq'[q].task = rq[q].task /\ rq[q].id \in Reqs /\ rq[q].id # 0
      BY <1>8, <2>3, <3>1
    <3>4. \A k \in Reqs : rq[k].id # 0 => rq[k].task # 0 /\ rq[k].pc # "unused" /\ rq[rq[k].id].pc # "unused"
      BY <2>5 DEF Numbers, Used
    <3>3. rq[q].task # 0 /\ rq[q].pc # "unused" /\ rq[rq[q].id].pc # "unused"
      BY <3>2, <3>4
    <3> QED
      BY <2>2, <3>2, <3>3
  <2>8. \A p \in scenario.panels : panel'[p].seq # 0 => rq'[panel'[p].seq].pc # "unused"
    BY <1>9, <2>2, <2>4, <2>5 DEF Numbers, Used
  <2>9. OwnNumbers =>
          /\ \A p \in scenario.panels : \A q \in Reqs : rq'[q].id <= panel'[p].seq
          /\ \A q1, q2 \in Reqs : rq'[q1].id # 0 /\ rq'[q1].id = rq'[q2].id => rq'[q1].task = rq'[q2].task
    BY <1>8, <1>9, <2>5 DEF Numbers
  <2> QED
    BY <1>3, <1>8, <2>1, <2>6, <2>7, <2>8, <2>9 DEF Numbers, Used
<1>12. Objects' /\ Stored'
  BY <1>2, <1>3, SoundStays DEF NewHeap, NewRow, Objects, Stored
<1>13. Carried'
  <2>1. \A q \in Reqs : Talk(rq'[q].history, rq, OwnNumbers) /\ Talk(rq'[q].from, rq, OwnNumbers)
    BY <1>1, <1>8 DEF NewRecord, IInv, Carried
  <2> QED
    BY <1>2, <1>3, <2>1, SoundStays DEF Carried
<1>14. Views'
  <2>1. \A p \in scenario.panels : Sound(panel'[p].view, rq, OwnNumbers) /\ Below(panel'[p].view, panel'[p].seq)
    BY <1>9 DEF NewPanel, IInv, Views
  <2> QED
    BY <1>2, <1>3, <2>1, SoundStays DEF Views
<1>15. Resends'
  <2>1. \A m : Asked(m, rq) => Asked(m, rq')
    BY <1>8 DEF Asked
  <2>2. ASSUME NEW p \in scenario.panels, panel'[p].state \in {"deleting", "deleteRow", "resend"}
        PROVE  panel'[p] = panel[p]
    BY <2>2 DEF NewPanel
  <2> QED
    BY <2>1, <2>2 DEF IInv, Resends
<1>16. Hands'
  <2>1. ASSUME NEW q \in Reqs, q # r
        PROVE  /\ rq[q].pc \in {"saveNew", "lock", "model", "save", "resetLock", "resetSave"} =>
                    rq[q].obj \in DOMAIN heap'
               /\ rq[q].pc \in {"model", "save"} => heap'[rq[q].obj] = heap[rq[q].obj]
    <3>1. \A o \in DOMAIN heap : o \in DOMAIN heap'
      BY <1>5 DEF NewHeap
    <3>2. rq[q].pc \in {"saveNew", "lock", "model", "save", "resetLock", "resetSave"} => rq[q].obj \in DOMAIN heap
      BY DEF IInv, Hands
    <3>3. rq[q].pc \in {"model", "save"} => heap[rq[q].obj].lock = q /\ q # 0
      BY DEF IInv, Hands, Reqs
    <3> QED
      BY <2>1, <3>1, <3>2, <3>3 DEF NewHeap
  <2>2. Hands
    BY DEF IInv
  <2> QED
    BY <1>1, <1>3, <1>6, <2>1, <2>2 DEF NewHands, Hands
<1>17. LockHeldByWorker'
  <2>1. ASSUME NEW o \in DOMAIN heap', heap'[o].lock # 0
        PROVE  LET w == heap'[o].lock IN rq'[w].pc \in {"model", "save"} /\ rq'[w].obj = o
    <3>1. CASE heap'[o].lock = r /\ new.pc \in {"model", "save"} /\ new.obj = o
      BY <1>1, <3>1
    <3>2. CASE o \in DOMAIN heap /\ heap'[o].lock = heap[o].lock /\ heap[o].lock # r
      <4>1. heap[o].lock \in Reqs
        <5>2. heap \in Seq(Objs)
          BY DEF IInv, Typed, Objs
        <5>1. heap[o] \in Objs
          BY <1>5, <3>2, <5>2
        <5> QED
          BY <2>1, <3>2, <5>1 DEF Objs
      <4>2. LET w == heap[o].lock IN rq[w].pc \in {"model", "save"} /\ rq[w].obj = o
        BY <2>1, <3>2 DEF IInv, LockHeldByWorker
      <4> QED
        BY <1>1, <3>2, <4>1, <4>2
    <3> QED
      BY <2>1, <3>1, <3>2 DEF NewHeap
  <2> QED
    BY <2>1 DEF LockHeldByWorker
<1>18. Listening'
  <2>1. ASSUME NEW q \in Reqs, Listened(q)'
        PROVE  Listened(q)
    BY <1>1, <1>8, <2>1 DEF Listened, Ended
  <2>2. ASSUME NEW q \in Reqs, Listened(q)'
        PROVE  panel'[rq[q].panel] = panel[rq[q].panel] /\ rq[q].panel \in scenario.panels
    <3>1. Listened(q) /\ rq[q].panel \in scenario.panels
      BY <2>1, <2>2 DEF IInv, Listening
    <3>2. CASE new.pc \in {"done", "failed"}
      <4>1. q # r
        BY <1>1, <2>2, <3>2 DEF Listened, Ended
      <4>2. ~(rq[r].live /\ rq[q].panel = rq[r].panel)
        BY <3>1, <4>1 DEF IInv, Listening, Listened
      <4> QED
        BY <3>1, <4>2 DEF NewPanel
    <3>3. CASE new.pc \notin {"done", "failed"}
      BY <3>1, <3>3 DEF NewPanel
    <3> QED
      BY <3>2, <3>3
  <2>3. ASSUME NEW q \in Reqs, Listened(q)'
        PROVE  /\ rq'[q].pc \in Resetting => rq[q].pc \in Resetting
               /\ rq'[q].pc \in Chatting => rq[q].pc \in Chatting
    <3>1. rq[q].pc \in Chatting \cup Resetting
      BY <2>1, <2>3 DEF Listened, Ended, IInv, Typed, Request
    <3> QED
      BY <1>1, <3>1 DEF NewRecord, Chatting, Resetting
  <2>4. Listening
    BY DEF IInv
  <2> QED
    BY <1>8, <2>1, <2>2, <2>3, <2>4 DEF Listening
<1> QED
  BY <1>10, <1>11, <1>12, <1>13, <1>14, <1>15, <1>16, <1>17, <1>18 DEF IInv

(* The parts that most steps have in common.                                  *)
LEMMA SameHeap ==
    ASSUME IInv, NEW r \in Reqs, rq[r].pc \notin {"model", "save"}, heap' = heap, NEW new
    PROVE  NewHeap(r, new)
<1>1. heap \in Seq(Objs) /\ Len(heap) \in Nat
  BY DEF IInv, Typed, Objs
<1>2. \A o \in DOMAIN heap : Talk(heap[o].messages, rq, OwnNumbers)
  BY DEF IInv, Objects
<1>3. \A o \in DOMAIN heap : heap[o].lock # r
  <2>1. r # 0
    BY DEF Reqs
  <2> QED
    BY <2>1 DEF IInv, LockHeldByWorker
<1> QED
  BY <1>1, <1>2, <1>3 DEF NewHeap

LEMMA SameRow ==
    ASSUME IInv, row' = row
    PROVE  NewRow
BY DEF IInv, Typed, Stored, NewRow

LEMMA SavedRow ==
    ASSUME IInv, NEW msgs, Talk(msgs, rq, OwnNumbers), Saved(Row(msgs))
    PROVE  NewRow
<1>1. msgs \in Seq(Message)
  BY DEF Talk
<1>2. Row(msgs) \in [stored : BOOLEAN, messages : Seq(Message)] /\ Row(msgs).messages = msgs
  BY <1>1 DEF Row
<1>3. CASE row' = Row(msgs)
  BY <1>2, <1>3 DEF NewRow
<1>4. CASE row' = row
  BY <1>4, SameRow
<1> QED
  BY <1>3, <1>4 DEF Saved

(* A step under the lock of the object writes to that object alone.           *)
LEMMA OwnObject ==
    ASSUME IInv, NEW r \in Reqs, NEW new, NEW obj \in Objs,
           rq[r].obj \in DOMAIN heap, heap[rq[r].obj].lock \in {0, r},
           heap' = [heap EXCEPT ![rq[r].obj] = obj],
           Talk(obj.messages, rq, OwnNumbers),
           obj.lock = 0 \/ (obj.lock = r /\ new.pc \in {"model", "save"} /\ new.obj = rq[r].obj)
    PROVE  NewHeap(r, new) /\ heap'[rq[r].obj] = obj /\ DOMAIN heap' = DOMAIN heap /\ Len(heap') = Len(heap)
<1>1. /\ heap' \in Seq(Objs) /\ Len(heap') = Len(heap) /\ DOMAIN heap' = DOMAIN heap
      /\ heap'[rq[r].obj] = obj /\ \A x \in DOMAIN heap : x # rq[r].obj => heap'[x] = heap[x]
  BY HeapUpdated DEF IInv
<1>2. \A o \in DOMAIN heap : heap[o].lock = r => o = rq[r].obj
  <2>1. r # 0
    BY DEF Reqs
  <2> QED
    BY <2>1 DEF IInv, LockHeldByWorker
<1>3. \A o \in DOMAIN heap : Talk(heap[o].messages, rq, OwnNumbers)
  BY DEF IInv, Objects
<1>4. Len(heap) \in Nat
  BY DEF IInv, Typed
<1> QED
  BY <1>1, <1>2, <1>3, <1>4 DEF NewHeap

LEMMA QuietStep ==
    ASSUME IInv, NEW r \in Reqs, ~Ended(r), NEW new, rq[r].pc \notin {"model", "save"},
           scenario' = scenario, heap' = heap, row' = row, panel' = panel, mem' = mem,
           NewRecord(r, new), NewHands(r, new)
    PROVE  IInv'
<1>1. NewHeap(r, new) /\ NewRow /\ NewPanel(r, new)
  BY SameHeap, SameRow DEF NewPanel
<1>2. mem' \in 0 .. Len(heap')
  BY DEF IInv, Typed
<1> QED
  BY <1>1, <1>2, RequestStep

(* The record after a move of the program counter, and of the object.         *)
MovedTo(r, pc) == [rq[r] EXCEPT !.pc = pc]
PointedTo(r, pc, o) == [rq[r] EXCEPT !.pc = pc, !.obj = o]

LEMMA Moves ==
    ASSUME Typed, NEW r \in Reqs, NEW pc
    PROVE  Goto(r, pc) => Puts(r, MovedTo(r, pc))
BY DEF Typed, Request, Goto, MovedTo, Puts

LEMMA PointMoves ==
    ASSUME Typed, NEW r \in Reqs, NEW pc, NEW o, rq' = [rq EXCEPT ![r].pc = pc, ![r].obj = o]
    PROVE  Puts(r, PointedTo(r, pc, o))
BY DEF Typed, Request, PointedTo, Puts

LEMMA MovedRecord ==
    ASSUME IInv, NEW r \in Reqs, ~Ended(r), NEW pc, Puts(r, MovedTo(r, pc)),
           pc \in {"done", "failed"} \cup Chatting \cup Resetting,
           rq[r].pc \in Chatting => pc \in {"done", "failed"} \cup Chatting,
           rq[r].pc \in Resetting => pc \in {"done", "failed"} \cup Resetting,
           Len(heap) <= Len(heap'), Len(heap') \in Nat
    PROVE  /\ NewRecord(r, MovedTo(r, pc))
           /\ MovedTo(r, pc).pc = pc /\ MovedTo(r, pc).obj = rq[r].obj
           /\ MovedTo(r, pc).answer = rq[r].answer
<1> DEFINE new == MovedTo(r, pc)
<1>1. rq[r] \in Request /\ Puts(r, new)
  BY DEF IInv, Typed
<1>2. /\ new.pc = pc /\ new.obj = rq[r].obj /\ new.answer = rq[r].answer /\ new.live = rq[r].live
      /\ new.from = rq[r].from
  BY <1>1 DEF Request, MovedTo
<1>3. SameMessage(r, new)
  BY <1>1 DEF SameMessage, Request, Chatting, Resetting, MovedTo
<1>4. Talk(rq[r].from, rq, OwnNumbers)
  BY DEF IInv, Carried
<1>5. rq[r].obj \in 0 .. Len(heap')
  BY DEF IInv, Typed
<1> HIDE DEF new
<1>6. NewRecord(r, new)
  BY <1>1, <1>2, <1>3, <1>4, <1>5 DEF NewRecord
<1> QED
  BY <1>2, <1>6 DEF new

LEMMA PointedRecord ==
    ASSUME IInv, NEW r \in Reqs, ~Ended(r), NEW pc, NEW o \in 0 .. Len(heap),
           Puts(r, PointedTo(r, pc, o)),
           pc \in Chatting \cup Resetting,
           rq[r].pc \in Chatting => pc \in Chatting, rq[r].pc \in Resetting => pc \in Resetting,
           heap' = heap
    PROVE  /\ NewRecord(r, PointedTo(r, pc, o))
           /\ PointedTo(r, pc, o).pc = pc /\ PointedTo(r, pc, o).obj = o
<1> DEFINE new == PointedTo(r, pc, o)
<1>1. rq[r] \in Request /\ o \in Nat
  <2>1. Len(heap) \in Nat
    BY DEF IInv, Typed
  <2> QED
    BY <2>1 DEF IInv, Typed
<1>2. new.pc = pc /\ new.obj = o /\ new.live = rq[r].live /\ new.from = rq[r].from
  BY <1>1 DEF Request, PointedTo
<1>3. SameMessage(r, new)
  BY <1>1 DEF SameMessage, Request, Chatting, Resetting, PointedTo
<1>4. Talk(rq[r].from, rq, OwnNumbers)
  BY DEF IInv, Carried
<1>5. NewRecord(r, new)
  <2>1. Puts(r, new)
    OBVIOUS
  <2> HIDE DEF new
  <2> QED
    BY <1>1, <1>2, <1>3, <1>4, <2>1 DEF NewRecord
<1> QED
  BY <1>2, <1>5

(* An answer or an error bubble for the last message of the window.           *)
LEMMA DeliveredPanel ==
    ASSUME IInv, NEW r \in Reqs, rq[r].pc \in Chatting, NEW msg \in Bubbles, panel' = Deliver(r, msg),
           msg.role # "user", msg.role = "assistant" /\ OwnNumbers => msg.task = rq[r].task,
           NEW new, new.pc \in {"done", "failed"}
    PROVE  NewPanel(r, new)
<1>1. ~Ended(r)
  BY DEF Ended, Chatting
<1>2. /\ panel' \in [scenario.panels -> PanelType]
      /\ \A p \in scenario.panels :
            /\ panel'[p].seq = panel[p].seq /\ panel'[p].resend = panel[p].resend
            /\ IF rq[r].live /\ p = rq[r].panel
               THEN panel'[p].state = "idle" /\ panel'[p].view = Append(panel[p].view, msg)
               ELSE panel'[p] = panel[p]
  BY <1>1, Delivered DEF IInv
<1>3. ASSUME NEW p \in scenario.panels, rq[r].live, p = rq[r].panel
      PROVE  Sound(panel'[p].view, rq, OwnNumbers) /\ Below(panel'[p].view, panel[p].seq)
  <2>1. panel[p].view # <<>> /\ Last(panel[p].view) = User(rq[r].id, rq[r].task)
    BY <1>1, <1>3 DEF IInv, Listening, Listened
  <2>2. Sound(panel[p].view, rq, OwnNumbers) /\ Below(panel[p].view, panel[p].seq)
    BY DEF IInv, Views
  <2>3. panel'[p].view = Append(panel[p].view, msg)
    BY <1>2, <1>3
  <2>4. Sound(Append(panel[p].view, msg), rq, OwnNumbers)
    BY <2>1, <2>2, SoundAppend DEF User
  <2>5. Below(Append(panel[p].view, msg), panel[p].seq)
    <3>1. panel[p].view \in Seq(Bubbles)
      BY <2>2 DEF Sound
    <3> QED
      BY <2>2, <3>1 DEF Below
  <2> QED
    BY <2>3, <2>4, <2>5
<1> QED
  BY <1>2, <1>3 DEF NewPanel

-----------------------------------------------------------------------------
(* Getting hold of a session *)

LEMMA GettingInv ==
    ASSUME IInv, NEW r \in Reqs, GetSession(r) \/ ResetGet(r)
    PROVE  IInv'
<1>1. PICK pc \in {"restore", "lock", "resetLoad", "resetLock"} :
         /\ rq' = [rq EXCEPT ![r].pc = pc, ![r].obj = mem]
         /\ rq[r].pc = "get" => pc \in {"restore", "lock"}
         /\ rq[r].pc = "resetGet" => pc \in {"resetLoad", "resetLock"}
         /\ pc \in {"lock", "resetLock"} => mem # 0
  BY DEF GetSession, ResetGet
<1> DEFINE new == PointedTo(r, pc, mem)
<1>2. /\ rq[r].pc \in {"get", "resetGet"} /\ UNCHANGED <<scenario, heap, mem, row, panel>>
      /\ ~Ended(r) /\ rq[r].pc \notin {"model", "save"}
  BY DEF GetSession, ResetGet, Ended
<1>3. mem \in 0 .. Len(heap) /\ Len(heap) \in Nat /\ DOMAIN heap = 1 .. Len(heap)
  BY DEF IInv, Typed
<1>4. /\ pc \in Chatting \cup Resetting /\ heap' = heap
      /\ rq[r].pc \in Chatting => pc \in Chatting
      /\ rq[r].pc \in Resetting => pc \in Resetting
  BY <1>1, <1>2 DEF Chatting, Resetting
<1>5. NewRecord(r, new) /\ new.pc = pc /\ new.obj = mem
  <2>1. Puts(r, new)
    BY <1>1, PointMoves DEF IInv
  <2> QED
    BY <1>2, <1>3, <1>4, <2>1, PointedRecord
<1> HIDE DEF new
<1>6. NewHands(r, new)
  BY <1>1, <1>2, <1>3, <1>5 DEF NewHands
<1> QED
  BY <1>2, <1>5, <1>6, QuietStep

LEMMA RestoreInv ==
    ASSUME IInv, NEW r \in Reqs, Restore(r) \/ BuildFails(r)
    PROVE  IInv'
<1>1. PICK from \in {row.messages, rq[r].history}, pc \in {"build", "getAgain"}, restoring \in BOOLEAN :
         rq' = [rq EXCEPT ![r].pc = pc, ![r].restoring = restoring, ![r].from = from]
  BY DEF Restore, BuildFails, IInv, Typed
<1> DEFINE new == [rq[r] EXCEPT !.pc = pc, !.restoring = restoring, !.from = from]
<1>2. /\ rq[r] \in Request /\ Puts(r, new) /\ rq[r].pc \in {"restore", "build"} /\ UNCHANGED <<scenario, heap, mem, row, panel>>
  BY <1>1 DEF IInv, Typed, Request, Restore, BuildFails, Puts
<1>3. ~Ended(r) /\ rq[r].pc \notin {"model", "save"}
  BY <1>2 DEF Ended
<1>4. Talk(from, rq, OwnNumbers) /\ from \in Seq(Message)
  BY DEF IInv, Stored, Carried, Talk
<1>5. SameMessage(r, new)
  BY <1>2, <1>4 DEF SameMessage, Request, Chatting, Resetting
<1>6. rq[r].obj \in 0 .. Len(heap)
  BY <1>3 DEF IInv, Typed
<1>7. NewRecord(r, new)
  BY <1>2, <1>4, <1>5, <1>6 DEF NewRecord, Request, Chatting, Resetting
<1>8. NewHands(r, new)
  BY <1>2 DEF NewHands, Request
<1> HIDE DEF new
<1> QED
  BY <1>2, <1>3, <1>7, <1>8, QuietStep

LEMMA BuildInv ==
    ASSUME IInv, NEW r \in Reqs, Build(r)
    PROVE  IInv'
<1> DEFINE obj == [messages |-> DedupeConsecutiveUser(rq[r].from), lock |-> 0]
           new == [rq[r] EXCEPT !.pc = "saveNew", !.obj = Len(heap) + 1, !.from = <<>>]
<1>1. /\ rq[r] \in Request /\ Puts(r, new) /\ rq[r].pc = "build"
      /\ heap' = Append(heap, obj) /\ mem' = Len(heap) + 1 /\ UNCHANGED <<scenario, row, panel>>
  BY DEF IInv, Typed, Request, Build, Puts
<1>2. ~Ended(r) /\ rq[r].pc \notin {"model", "save"}
  BY <1>1 DEF Ended
<1>3. Talk(obj.messages, rq, OwnNumbers) /\ obj.lock = 0 /\ obj \in Objs
  <2>1. Talk(DedupeConsecutiveUser(rq[r].from), rq, OwnNumbers)
    BY DedupeSound DEF IInv, Carried
  <2> QED
    BY <2>1 DEF Talk, Objs
<1>4. heap \in Seq(Objs) /\ Len(heap) \in Nat /\ DOMAIN heap = 1 .. Len(heap)
  BY DEF IInv, Typed, Objs
<1> HIDE DEF obj
<1>5. /\ heap' \in Seq(Objs) /\ Len(heap') = Len(heap) + 1 /\ DOMAIN heap' = 1 .. Len(heap) + 1
      /\ heap'[Len(heap) + 1] = obj /\ \A o \in DOMAIN heap : heap'[o] = heap[o]
  BY <1>1, <1>3, <1>4
<1>6. NewHeap(r, new)
  <2>1. NewHeap(r, new) \/ \A o \in DOMAIN heap : heap[o].lock # r /\ Talk(heap[o].messages, rq, OwnNumbers)
    BY <1>2 DEF IInv, LockHeldByWorker, Objects, Reqs
  <2> QED
    BY <1>3, <1>4, <1>5, <2>1 DEF NewHeap
<1>7. SameMessage(r, new)
  <2>1. Len(heap) + 1 \in Nat /\ <<>> \in Seq(Message)
    BY <1>4
  <2> QED
    BY <1>1, <2>1 DEF SameMessage, Request, Chatting, Resetting
<1>8. NewRecord(r, new)
  BY <1>1, <1>4, <1>5, <1>7, EmptySound DEF NewRecord, Request, Chatting, Resetting
<1>9. NewHands(r, new)
  BY <1>1, <1>4, <1>5 DEF NewHands, Request
<1>10. NewRow /\ NewPanel(r, new) /\ mem' \in 0 .. Len(heap')
  BY <1>1, <1>4, <1>5, SameRow DEF NewPanel
<1> HIDE DEF new
<1> QED
  BY <1>1, <1>2, <1>6, <1>8, <1>9, <1>10, RequestStep

LEMMA SaveNewInv ==
    ASSUME IInv, NEW r \in Reqs, SaveNew(r)
    PROVE  IInv'
<1> DEFINE new == MovedTo(r, "getAgain")
<1>1. /\ Goto(r, "getAgain") /\ rq[r].pc = "saveNew" /\ ~Ended(r) /\ rq[r].pc \notin {"model", "save"}
      /\ Saved(Row(heap[rq[r].obj].messages)) /\ UNCHANGED <<scenario, heap, mem, panel>>
  BY DEF SaveNew, Ended
<1>2. mem \in 0 .. Len(heap) /\ Len(heap) \in Nat /\ heap' = heap /\ mem' = mem
  BY <1>1 DEF IInv, Typed
<1>3. NewRecord(r, new) /\ new.pc = "getAgain"
  <2>1. /\ "getAgain" \in {"done", "failed"} \cup Chatting \cup Resetting
        /\ rq[r].pc \in Chatting => "getAgain" \in {"done", "failed"} \cup Chatting
        /\ rq[r].pc \in Resetting => "getAgain" \in {"done", "failed"} \cup Resetting
    BY <1>1 DEF Chatting, Resetting
  <2>2. Puts(r, new)
    BY <1>1, Moves DEF IInv
  <2> QED
    BY <1>1, <1>2, <2>1, <2>2, MovedRecord
<1>4. NewRow
  BY <1>1, SavedRow DEF IInv, Hands, Objects
<1>5. NewHands(r, new)
  BY <1>3 DEF NewHands
<1> HIDE DEF new
<1>6. NewHeap(r, new) /\ NewPanel(r, new)
  BY <1>1, SameHeap DEF NewPanel
<1> QED
  BY <1>1, <1>2, <1>3, <1>4, <1>5, <1>6, RequestStep

(* A chat that fails or answers leaves objects and row as they are.           *)
LEMMA EndInv ==
    ASSUME IInv, NEW r \in Reqs, NEW pc \in {"done", "failed"}, NEW msg \in Bubbles,
           rq[r].pc \in Chatting \ {"model", "save"}, Finish(r, pc, msg), UNCHANGED <<scenario, heap, mem, row>>,
           msg.role # "user", msg.role = "assistant" /\ OwnNumbers => msg.task = rq[r].task
    PROVE  IInv'
<1> DEFINE new == MovedTo(r, pc)
<1>1. Goto(r, pc) /\ panel' = Deliver(r, msg) /\ ~Ended(r) /\ rq[r].pc \notin {"model", "save"} /\ rq[r].pc \in Chatting
  BY DEF Finish, Goto, Ended, Chatting
<1>2. mem \in 0 .. Len(heap) /\ Len(heap) \in Nat
  BY DEF IInv, Typed
<1>3. NewRecord(r, new) /\ new.pc = pc
  <2>1. /\ pc \in {"done", "failed"} \cup Chatting \cup Resetting
        /\ rq[r].pc \in Chatting => pc \in {"done", "failed"} \cup Chatting
        /\ rq[r].pc \in Resetting => pc \in {"done", "failed"} \cup Resetting
    OBVIOUS
  <2>2. Puts(r, new)
    BY <1>1, Moves DEF IInv
  <2> QED
    BY <1>1, <1>2, <2>1, <2>2, MovedRecord
<1>4. NewHands(r, new)
  BY <1>3 DEF NewHands
<1> HIDE DEF new
<1>5. NewHeap(r, new) /\ NewRow /\ NewPanel(r, new)
  BY <1>1, <1>3, SameHeap, SameRow, DeliveredPanel
<1> QED
  BY <1>1, <1>2, <1>3, <1>4, <1>5, RequestStep

LEMMA GetAgainInv ==
    ASSUME IInv, NEW r \in Reqs, GetAgain(r)
    PROVE  IInv'
<1>1. /\ rq[r].pc = "getAgain" /\ ~Ended(r) /\ UNCHANGED <<scenario, heap, mem, row>>
      /\ rq[r].pc \in Chatting \ {"model", "save"} /\ rq[r].pc \notin Resetting
  BY DEF GetAgain, Ended, Chatting, Resetting
<1>2. mem \in 0 .. Len(heap) /\ Len(heap) \in Nat /\ heap' = heap /\ mem' = mem /\ DOMAIN heap = 1 .. Len(heap)
  BY <1>1 DEF IInv, Typed
<1>3. CASE mem = 0
  <2>1. Finish(r, "failed", ErrorBubble)
    BY <1>3 DEF GetAgain, Fail
  <2>2. ErrorBubble \in Bubbles /\ ErrorBubble.role = "error"
    BY DEF Bubbles, ErrorBubble
  <2> QED
    BY <1>1, <2>1, <2>2, EndInv
<1>4. CASE mem # 0
  <2> DEFINE new == PointedTo(r, "lock", mem)
  <2>1. rq' = [rq EXCEPT ![r].pc = "lock", ![r].obj = mem] /\ panel' = panel
    BY <1>4 DEF GetAgain
  <2>2. Puts(r, new)
    BY <2>1, PointMoves DEF IInv
  <2>3. "lock" \in Chatting \cup Resetting /\ "lock" \in Chatting
    BY DEF Chatting
  <2>4. NewRecord(r, new) /\ new.pc = "lock" /\ new.obj = mem
    BY <1>1, <1>2, <2>2, <2>3, PointedRecord
  <2>5. NewHands(r, new)
    BY <1>2, <1>4, <2>4 DEF NewHands
  <2> HIDE DEF new
  <2> QED
    BY <1>1, <2>1, <2>4, <2>5, QuietStep
<1> QED
  BY <1>3, <1>4

LEMMA ReplyInv ==
    ASSUME IInv, NEW r \in Reqs, Reply(r) \/ LoseReply(r)
    PROVE  IInv'
<1>1. rq[r].pc = "reply" /\ rq[r].pc \in Chatting \ {"model", "save"} /\ UNCHANGED <<scenario, heap, mem, row>>
  BY DEF Reply, LoseReply, Chatting
<1>2. /\ rq[r].answer \in Bubbles /\ rq[r].answer.role = "assistant"
      /\ OwnNumbers => rq[r].answer.task = rq[r].task
  BY <1>1 DEF IInv, Hands, Bubbles
<1>3. ErrorBubble \in Bubbles /\ ErrorBubble.role = "error"
  BY DEF Bubbles, ErrorBubble
<1>4. Finish(r, "done", rq[r].answer) \/ Finish(r, "failed", ErrorBubble)
  BY DEF Reply, LoseReply, Fail
<1> QED
  BY <1>1, <1>2, <1>3, <1>4, EndInv

-----------------------------------------------------------------------------
(* Under the lock of the session *)

LEMMA Held ==
    ASSUME IInv, NEW r \in Reqs, rq[r].pc \in {"saveNew", "lock", "model", "save", "resetLock", "resetSave"}
    PROVE  /\ rq[r].obj \in DOMAIN heap /\ Object(r) = heap[rq[r].obj] /\ Object(r) \in Objs
           /\ Talk(Object(r).messages, rq, OwnNumbers)
           /\ rq[r].pc \in {"model", "save"} => Object(r).lock = r
           /\ mem \in 0 .. Len(heap) /\ Len(heap) \in Nat
<1>1. rq[r].obj \in DOMAIN heap /\ Object(r) = heap[rq[r].obj]
  BY DEF IInv, Hands, Object
<1>2. heap \in Seq(Objs) /\ mem \in 0 .. Len(heap)
  BY DEF IInv, Typed, Objs
<1> QED
  BY <1>1, <1>2 DEF IInv, Hands, Objects

(* Writing one field of an object writes the object. *)
LEMMA FieldWritten ==
    ASSUME IInv, NEW o \in DOMAIN heap, NEW v
    PROVE  /\ [heap EXCEPT ![o].lock = v] = [heap EXCEPT ![o] = [messages |-> heap[o].messages, lock |-> v]]
           /\ [heap EXCEPT ![o].messages = v] = [heap EXCEPT ![o] = [messages |-> v, lock |-> heap[o].lock]]
<1>1. heap[o] \in Objs
  <2>1. heap \in Seq(Objs)
    BY DEF IInv, Typed, Objs
  <2> QED
    BY <2>1
<1>2. /\ [heap[o] EXCEPT !.lock = v] = [messages |-> heap[o].messages, lock |-> v]
      /\ [heap[o] EXCEPT !.messages = v] = [messages |-> v, lock |-> heap[o].lock]
  BY <1>1 DEF Objs
<1> QED
  BY <1>2

LEMMA MoveUnderLock ==
    ASSUME IInv, NEW r \in Reqs, NEW pc \in {"done", "failed"} \cup Chatting \cup Resetting, NEW obj \in Objs,
           rq[r].pc \in {"lock", "model", "save", "resetLock"}, Object(r).lock \in {0, r},
           rq[r].pc \in Chatting => pc \in {"done", "failed"} \cup Chatting,
           rq[r].pc \in Resetting => pc \in {"done", "failed"} \cup Resetting,
           heap' = [heap EXCEPT ![rq[r].obj] = obj], Talk(obj.messages, rq, OwnNumbers),
           IF pc \in {"model", "save"} THEN obj.lock = r ELSE obj.lock = 0,
           Goto(r, pc),
           pc = "model" => /\ EndsWithUser(obj.messages)
                           /\ OwnNumbers => Last(obj.messages).task = rq[r].task,
           pc \in {"save", "reply"} => rq[r].pc = "save",
           scenario' = scenario, mem' = mem, NewRow, NewPanel(r, MovedTo(r, pc))
    PROVE  IInv'
<1> DEFINE new == MovedTo(r, pc)
<1>1. /\ rq[r].obj \in DOMAIN heap /\ heap[rq[r].obj].lock \in {0, r}
      /\ mem \in 0 .. Len(heap) /\ Len(heap) \in Nat
  BY Held
<1>2. ~Ended(r)
  BY DEF Ended
<1>3. Puts(r, new)
  BY Moves DEF IInv
<1>4. new.pc = pc /\ new.obj = rq[r].obj /\ new.answer = rq[r].answer
  BY DEF MovedTo, IInv, Typed, Request
<1> HIDE DEF new
<1>5. NewHeap(r, new) /\ heap'[rq[r].obj] = obj /\ DOMAIN heap' = DOMAIN heap /\ Len(heap') = Len(heap)
  BY <1>1, <1>4, OwnObject
<1>6. NewRecord(r, new)
  BY <1>1, <1>2, <1>3, <1>5, MovedRecord DEF new
<1>7. NewHands(r, new)
  <2>1. rq[r].pc = "save" =>
          /\ rq[r].answer \in Message /\ rq[r].answer.role = "assistant"
          /\ OwnNumbers => rq[r].answer.task = rq[r].task
    BY DEF IInv, Hands
  <2> QED
    BY <1>1, <1>4, <1>5, <2>1 DEF NewHands
<1> QED
  BY <1>1, <1>2, <1>5, <1>6, <1>7, RequestStep DEF new

LEMMA LockSessionInv ==
    ASSUME IInv, NEW r \in Reqs, LockSession(r)
    PROVE  IInv'
<1> DEFINE msgs == Object(r).messages
           known == WithMsgID(msgs, rq[r].id)
           added == IF EndsWithUser(msgs) THEN Append(Front(msgs), User(rq[r].id, rq[r].task))
                    ELSE Append(msgs, User(rq[r].id, rq[r].task))
<1>1. rq[r].pc = "lock" /\ Object(r).lock = 0 /\ UNCHANGED <<scenario, mem, row, panel>>
  BY DEF LockSession
<1>2. /\ known = {} => /\ Talk(added, rq, OwnNumbers) /\ EndsWithUser(added)
                       /\ Last(added).task = rq[r].task
      /\ known # {} =>
           LET i == Min(known)
               head == SubSeq(msgs, 1, i)
           IN  /\ Talk(head, rq, OwnNumbers) /\ EndsWithUser(head)
               /\ OwnNumbers => Last(head).task = rq[r].task
               /\ Answered(msgs, i) =>
                    /\ msgs[i + 1] \in Message /\ msgs[i + 1].role = "assistant"
                    /\ OwnNumbers => msgs[i + 1].task = rq[r].task
  BY <1>1, AskedConversation, Zenon
<1>3. ASSUME NEW s, Ask(r, s), Talk(s, rq, OwnNumbers), EndsWithUser(s), OwnNumbers => Last(s).task = rq[r].task
      PROVE  IInv'
  <2> DEFINE obj == [messages |-> s, lock |-> r]
  <2>1. obj \in Objs /\ obj.messages = s /\ obj.lock = r
    BY <1>3 DEF Objs, Talk
  <2>2. heap' = [heap EXCEPT ![rq[r].obj] = obj] /\ Goto(r, "model")
    BY <1>3 DEF Ask
  <2> HIDE DEF obj
  <2>3. /\ "model" \in {"done", "failed"} \cup Chatting \cup Resetting
        /\ rq[r].pc \in Chatting => "model" \in {"done", "failed"} \cup Chatting
        /\ rq[r].pc \in Resetting => "model" \in {"done", "failed"} \cup Resetting
    BY <1>1 DEF Chatting, Resetting
  <2>4. NewRow /\ NewPanel(r, MovedTo(r, "model"))
    BY <1>1, SameRow DEF NewPanel
  <2> QED
    BY <1>1, <1>3, <2>1, <2>2, <2>3, <2>4, MoveUnderLock
<1>4. CASE known = {} /\ Add(r)
  <2>1. Ask(r, added)
    BY <1>4, Zenon DEF Add
  <2> HIDE DEF added
  <2> QED
    BY <1>2, <1>3, <1>4, <2>1
<1>5. CASE known # {} /\ Replay(r, Min(known))
  <2> DEFINE answer == msgs[Min(known) + 1]
             new == [rq[r] EXCEPT !.pc = "reply", !.answer = answer]
  <2>1. Answered(msgs, Min(known))
    BY <1>5 DEF Replay
  <2>2. answer \in Message /\ answer.role = "assistant" /\ (OwnNumbers => answer.task = rq[r].task) /\ answer \in Bubbles
    BY <1>2, <1>5, <2>1 DEF Bubbles
  <2>3. rq' = [rq EXCEPT ![r].pc = "reply", ![r].answer = answer] /\ heap' = heap
    BY <1>5 DEF Replay
  <2> HIDE DEF answer
  <2>4. rq[r] \in Request
    BY DEF IInv, Typed
  <2>5. Puts(r, new)
    BY <2>3 DEF IInv, Typed, Request, Puts
  <2>6. SameMessage(r, new) /\ new.pc = "reply" /\ new.answer = answer /\ new.live = rq[r].live /\ new.from = rq[r].from /\ new.obj = rq[r].obj
    BY <2>2, <2>4 DEF SameMessage, Request, Chatting
  <2> HIDE DEF new
  <2>7. NewRecord(r, new)
    <3>1. Talk(rq[r].from, rq, OwnNumbers) /\ ~Ended(r)
      BY <1>1 DEF IInv, Carried, Ended
    <3>2. rq[r].obj \in 0 .. Len(heap')
      BY <2>3, <3>1 DEF IInv, Typed
    <3>3. rq[r].pc \notin Resetting /\ new.pc \in Chatting
      BY <1>1, <2>6 DEF Chatting, Resetting
    <3> QED
      BY <2>5, <2>6, <3>1, <3>2, <3>3 DEF NewRecord
  <2>8. NewHands(r, new) /\ ~Ended(r)
    BY <1>1, <2>2, <2>6 DEF NewHands, Ended
  <2> QED
    BY <1>1, <2>3, <2>7, <2>8, QuietStep
<1>6. CASE known # {} /\ TakeUp(r, Min(known))
  <2>1. Ask(r, SubSeq(msgs, 1, Min(known)))
    BY <1>6 DEF TakeUp
  <2> QED
    BY <1>2, <1>3, <1>6, <2>1
<1> QED
  BY <1>4, <1>5, <1>6, Zenon DEF LockSession

LEMMA ModelAnswersInv ==
    ASSUME IInv, NEW r \in Reqs, ModelAnswers(r)
    PROVE  IInv'
<1> DEFINE msgs == Object(r).messages
           answer == Answer(r, LastTask(msgs))
           obj == [messages |-> Append(msgs, answer), lock |-> r]
           new == [rq[r] EXCEPT !.pc = "save", !.answer = answer]
<1>1. rq[r].pc = "model" /\ ~Ended(r) /\ UNCHANGED <<scenario, mem, row, panel>>
  BY DEF ModelAnswers, Ended
<1>2. /\ rq[r].obj \in DOMAIN heap /\ Object(r) = heap[rq[r].obj] /\ Object(r) \in Objs
      /\ Talk(msgs, rq, OwnNumbers) /\ Object(r).lock = r
      /\ mem \in 0 .. Len(heap) /\ Len(heap) \in Nat
  BY <1>1, Held
<1>3. EndsWithUser(msgs) /\ (OwnNumbers => Last(msgs).task = rq[r].task) /\ msgs \in Seq(Message)
  BY <1>1, <1>2 DEF IInv, Hands, Talk
<1>4. msgs # <<>> /\ Last(msgs).role = "user" /\ LastTask(msgs) = Last(msgs).task /\ Last(msgs) \in Message
  BY <1>3, LastAsked
<1>5. answer \in Message /\ answer \in Bubbles /\ answer.role = "assistant" /\ answer.task = Last(msgs).task
  <2>1. Last(msgs).task \in Reqs
    BY <1>4, Roles DEF Bubbles
  <2> QED
    BY <1>4, <2>1 DEF Answer, Message, Bubbles
<1>6. heap' = [heap EXCEPT ![rq[r].obj].messages = Append(@, answer)] /\ rq' = [rq EXCEPT ![r].pc = "save", ![r].answer = answer]
  BY Zenon DEF ModelAnswers
<1> HIDE DEF answer
<1>7. obj \in Objs /\ Talk(obj.messages, rq, OwnNumbers) /\ obj.lock = r
  <2>1. Talk(Append(msgs, answer), rq, OwnNumbers)
    BY <1>2, <1>4, <1>5, SoundAppend DEF Talk
  <2> QED
    BY <2>1 DEF Objs, Talk
<1>8. heap' = [heap EXCEPT ![rq[r].obj] = obj]
  <2>1. [heap EXCEPT ![rq[r].obj].messages = Append(heap[rq[r].obj].messages, answer)]
           = [heap EXCEPT ![rq[r].obj] = [messages |-> Append(heap[rq[r].obj].messages, answer), lock |-> heap[rq[r].obj].lock]]
    BY <1>2, FieldWritten, Zenon
  <2> QED
    BY <1>2, <1>6, <2>1, Zenon
<1>9. Puts(r, new)
  BY <1>6 DEF IInv, Typed, Request, Puts
<1>10. SameMessage(r, new) /\ new.pc = "save" /\ new.answer = answer /\ new.live = rq[r].live /\ new.from = rq[r].from /\ new.obj = rq[r].obj
  <2>1. rq[r] \in Request
    BY DEF IInv, Typed
  <2> QED
    BY <1>5, <2>1 DEF SameMessage, Request, Chatting
<1> HIDE DEF obj, new, msgs
<1>11. NewHeap(r, new) /\ heap'[rq[r].obj] = obj /\ DOMAIN heap' = DOMAIN heap /\ Len(heap') = Len(heap)
  BY <1>2, <1>7, <1>8, <1>10, OwnObject
<1>12. NewRecord(r, new)
  <2>1. Talk(rq[r].from, rq, OwnNumbers)
    BY DEF IInv, Carried
  <2>2. rq[r].obj \in 0 .. Len(heap')
    BY <1>1, <1>11 DEF IInv, Typed
  <2>3. rq[r].pc \notin Resetting /\ new.pc \in Chatting
    BY <1>1, <1>10 DEF Chatting, Resetting
  <2> QED
    BY <1>9, <1>10, <2>1, <2>2, <2>3 DEF NewRecord
<1>13. NewHands(r, new)
  BY <1>2, <1>3, <1>5, <1>7, <1>10, <1>11 DEF NewHands
<1>14. NewRow /\ NewPanel(r, new)
  BY <1>1, SameRow DEF NewPanel
<1> QED
  BY <1>1, <1>2, <1>11, <1>12, <1>13, <1>14, RequestStep

LEMMA ModelFailsInv ==
    ASSUME IInv, NEW r \in Reqs, ModelFails(r)
    PROVE  IInv'
<1> DEFINE obj == [messages |-> Object(r).messages, lock |-> 0]
<1>1. /\ rq[r].pc = "model" /\ UNCHANGED <<scenario, mem, row>> /\ Goto(r, "failed")
      /\ panel' = Deliver(r, ErrorBubble) /\ heap' = [heap EXCEPT ![rq[r].obj].lock = 0]
  BY DEF ModelFails, Fail, Finish, Goto
<1>2. /\ rq[r].obj \in DOMAIN heap /\ Object(r) = heap[rq[r].obj] /\ Object(r) \in Objs
      /\ Talk(Object(r).messages, rq, OwnNumbers) /\ Object(r).lock = r
  BY <1>1, Held
<1>3. obj \in Objs /\ obj.messages = Object(r).messages /\ obj.lock = 0 /\ heap' = [heap EXCEPT ![rq[r].obj] = obj]
  <2>1. [heap EXCEPT ![rq[r].obj].lock = 0] = [heap EXCEPT ![rq[r].obj] = [messages |-> heap[rq[r].obj].messages, lock |-> 0]]
    BY <1>2, FieldWritten, Zenon
  <2>2. heap' = [heap EXCEPT ![rq[r].obj] = obj]
    BY <1>1, <1>2, <2>1, Zenon
  <2> QED
    BY <1>2, <2>2 DEF Objs
<1> HIDE DEF obj
<1>4. ErrorBubble \in Bubbles /\ ErrorBubble.role = "error" /\ rq[r].pc \in Chatting /\ rq[r].pc \notin Resetting
  BY <1>1 DEF Bubbles, ErrorBubble, Chatting, Resetting
<1>5. MovedTo(r, "failed").pc = "failed"
  BY DEF MovedTo, IInv, Typed, Request
<1>6. NewRow /\ NewPanel(r, MovedTo(r, "failed"))
  BY <1>1, <1>4, <1>5, SameRow, DeliveredPanel
<1> QED
  BY <1>1, <1>2, <1>3, <1>4, <1>6, MoveUnderLock

LEMMA SaveChatInv ==
    ASSUME IInv, NEW r \in Reqs, SaveChat(r)
    PROVE  IInv'
<1> DEFINE obj == [messages |-> Object(r).messages, lock |-> 0]
<1>1. /\ rq[r].pc = "save" /\ UNCHANGED <<scenario, mem, panel>> /\ Goto(r, "reply")
      /\ Saved(Row(Object(r).messages)) /\ heap' = [heap EXCEPT ![rq[r].obj].lock = 0]
  BY DEF SaveChat
<1>2. /\ rq[r].obj \in DOMAIN heap /\ Object(r) = heap[rq[r].obj] /\ Object(r) \in Objs
      /\ Talk(Object(r).messages, rq, OwnNumbers) /\ Object(r).lock = r
  BY <1>1, Held
<1>3. obj \in Objs /\ obj.messages = Object(r).messages /\ obj.lock = 0 /\ heap' = [heap EXCEPT ![rq[r].obj] = obj]
  <2>1. [heap EXCEPT ![rq[r].obj].lock = 0] = [heap EXCEPT ![rq[r].obj] = [messages |-> heap[rq[r].obj].messages, lock |-> 0]]
    BY <1>2, FieldWritten, Zenon
  <2>2. heap' = [heap EXCEPT ![rq[r].obj] = obj]
    BY <1>1, <1>2, <2>1, Zenon
  <2> QED
    BY <1>2, <2>2 DEF Objs
<1> HIDE DEF obj
<1>4. /\ "reply" \in {"done", "failed"} \cup Chatting \cup Resetting
      /\ rq[r].pc \in Chatting => "reply" \in {"done", "failed"} \cup Chatting
      /\ rq[r].pc \in Resetting => "reply" \in {"done", "failed"} \cup Resetting
  BY <1>1 DEF Chatting, Resetting
<1>5. NewRow /\ NewPanel(r, MovedTo(r, "reply"))
  BY <1>1, <1>2, SavedRow DEF NewPanel
<1> QED
  BY <1>1, <1>2, <1>3, <1>4, <1>5, MoveUnderLock

LEMMA ResetLockedInv ==
    ASSUME IInv, NEW r \in Reqs, ResetLocked(r)
    PROVE  IInv'
<1> DEFINE obj == [messages |-> <<>>, lock |-> 0]
<1>1. /\ rq[r].pc = "resetLock" /\ Object(r).lock = 0 /\ UNCHANGED <<scenario, mem, row, panel>>
      /\ Goto(r, "resetSave") /\ heap' = [heap EXCEPT ![rq[r].obj].messages = <<>>]
  BY DEF ResetLocked
<1>2. rq[r].obj \in DOMAIN heap /\ Object(r) = heap[rq[r].obj] /\ Object(r) \in Objs
  BY <1>1, Held
<1>3. obj \in Objs /\ obj.messages = <<>> /\ obj.lock = 0 /\ heap' = [heap EXCEPT ![rq[r].obj] = obj]
  <2>1. [heap EXCEPT ![rq[r].obj].messages = <<>>] = [heap EXCEPT ![rq[r].obj] = [messages |-> <<>>, lock |-> heap[rq[r].obj].lock]]
    BY <1>2, FieldWritten, Zenon
  <2>2. heap' = [heap EXCEPT ![rq[r].obj] = obj]
    BY <1>1, <1>2, <2>1, Zenon
  <2> QED
    BY <1>2, <2>2 DEF Objs
<1> HIDE DEF obj
<1>4. /\ "resetSave" \in {"done", "failed"} \cup Chatting \cup Resetting
      /\ rq[r].pc \in Chatting => "resetSave" \in {"done", "failed"} \cup Chatting
      /\ rq[r].pc \in Resetting => "resetSave" \in {"done", "failed"} \cup Resetting
  BY <1>1 DEF Chatting, Resetting
<1>5. NewRow /\ NewPanel(r, MovedTo(r, "resetSave")) /\ Talk(<<>>, rq, OwnNumbers)
  BY <1>1, SameRow, EmptySound DEF NewPanel
<1> QED
  BY <1>1, <1>3, <1>4, <1>5, MoveUnderLock
-----------------------------------------------------------------------------
(* The end of a reset *)

LEMMA WindowSet ==
    ASSUME Typed, NEW w \in scenario.panels, NEW new \in PanelType, panel' = [panel EXCEPT ![w] = new]
    PROVE  /\ panel' \in [scenario.panels -> PanelType] /\ panel'[w] = new
           /\ \A p \in scenario.panels : p # w => panel'[p] = panel[p]
BY DEF Typed

LEMMA ResetEndInv ==
    ASSUME IInv, NEW r \in Reqs, rq[r].pc \in {"resetSave", "resetLoad", "resetStore"}, ResetEnds(r),
           UNCHANGED <<scenario, heap, mem>>, NewRow
    PROVE  IInv'
<1> DEFINE new == MovedTo(r, "done")
           w == rq[r].panel
           shown == [panel[w] EXCEPT !.state = "idle", !.view = <<>>]
<1>1. /\ ~Ended(r) /\ rq[r].pc \notin {"model", "save"} /\ rq[r].pc \notin Chatting
      /\ mem \in 0 .. Len(heap) /\ Len(heap) \in Nat
  BY DEF Ended, Chatting, IInv, Typed
<1>2. NewRecord(r, new) /\ new.pc = "done"
  <2>1. Puts(r, new)
    BY Moves DEF IInv, ResetEnds, Goto
  <2> QED
    BY <1>1, <2>1, MovedRecord
<1>3. NewHands(r, new)
  BY <1>2 DEF NewHands
<1> HIDE DEF new
<1>4. NewHeap(r, new)
  BY <1>1, SameHeap
<1>5. NewPanel(r, new)
  <2>1. CASE ~rq[r].live
    BY <2>1 DEF ResetEnds, NewPanel
  <2>2. CASE rq[r].live
    <3>1. w \in scenario.panels
      BY <1>1, <2>2 DEF IInv, Listening, Listened
    <3>2. panel[w] \in PanelType
      BY <3>1 DEF IInv, Typed
    <3>3. panel' = [panel EXCEPT ![w] = shown]
      BY <2>2, <3>1 DEF ResetEnds, IInv, Typed, PanelType
    <3>4. shown \in PanelType /\ shown.state = "idle" /\ shown.view = <<>> /\ shown.seq = panel[w].seq
      <4>1. <<>> \in Seq(Bubbles)
        OBVIOUS
      <4> QED
        BY <3>2, <4>1 DEF PanelType
    <3> HIDE DEF shown
    <3>5. /\ panel' \in [scenario.panels -> PanelType] /\ panel'[w] = shown
          /\ \A p \in scenario.panels : p # w => panel'[p] = panel[p]
      BY <3>1, <3>3, <3>4, WindowSet DEF IInv
    <3>6. Sound(<<>>, rq, OwnNumbers) /\ Below(<<>>, panel[w].seq)
      BY EmptySound DEF Talk, Below
    <3>7. ASSUME NEW p \in scenario.panels, p = w
          PROVE  /\ panel'[p].state = "idle" /\ panel'[p].seq = panel[p].seq
                 /\ Sound(panel'[p].view, rq, OwnNumbers) /\ Below(panel'[p].view, panel[p].seq)
      BY <3>4, <3>5, <3>6, <3>7
    <3> QED
      BY <1>2, <2>2, <3>5, <3>7 DEF NewPanel
  <2> QED
    BY <2>1, <2>2
<1> QED
  BY <1>1, <1>2, <1>3, <1>4, <1>5, RequestStep

LEMMA ResettingInv ==
    ASSUME IInv, NEW r \in Reqs, ResetSave(r) \/ ResetLoad(r) \/ ResetStore(r)
    PROVE  IInv'
<1>1. CASE ResetSave(r)
  <2>1. rq[r].pc = "resetSave" /\ ResetEnds(r) /\ Saved(Row(Object(r).messages)) /\ UNCHANGED <<scenario, heap, mem>>
    BY <1>1 DEF ResetSave
  <2>2. NewRow
    BY <2>1, Held, SavedRow
  <2> QED
    BY <2>1, <2>2, ResetEndInv
<1>2. CASE ResetLoad(r) /\ ~row.stored
  <2>1. rq[r].pc = "resetLoad" /\ ResetEnds(r) /\ UNCHANGED <<scenario, heap, mem, row>>
    BY <1>2 DEF ResetLoad
  <2> QED
    BY <2>1, SameRow, ResetEndInv
<1>3. CASE ResetLoad(r) /\ row.stored
  <2> DEFINE new == MovedTo(r, "resetStore")
  <2>1. rq[r].pc = "resetLoad" /\ Goto(r, "resetStore") /\ UNCHANGED <<scenario, heap, mem, row, panel>>
    BY <1>3 DEF ResetLoad
  <2>2. ~Ended(r) /\ rq[r].pc \notin {"model", "save"} /\ mem \in 0 .. Len(heap) /\ Len(heap) \in Nat
    BY <2>1 DEF Ended, IInv, Typed
  <2>3. /\ "resetStore" \in {"done", "failed"} \cup Chatting \cup Resetting
        /\ rq[r].pc \in Chatting => "resetStore" \in {"done", "failed"} \cup Chatting
        /\ rq[r].pc \in Resetting => "resetStore" \in {"done", "failed"} \cup Resetting
    BY <2>1 DEF Chatting, Resetting
  <2>4. NewRecord(r, new) /\ new.pc = "resetStore"
    <3>1. Puts(r, new)
      BY <2>1, Moves DEF IInv
    <3> QED
      BY <2>1, <2>2, <2>3, <3>1, MovedRecord
  <2>5. NewHands(r, new)
    BY <2>4 DEF NewHands
  <2> HIDE DEF new
  <2> QED
    BY <2>1, <2>2, <2>4, <2>5, QuietStep
<1>4. CASE ResetStore(r)
  <2>1. rq[r].pc = "resetStore" /\ ResetEnds(r) /\ Saved(Row(<<>>)) /\ UNCHANGED <<scenario, heap, mem>>
    BY <1>4 DEF ResetStore
  <2>2. NewRow
    BY <2>1, EmptySound, SavedRow
  <2> QED
    BY <2>1, <2>2, ResetEndInv
<1> QED
  BY <1>1, <1>2, <1>3, <1>4

-----------------------------------------------------------------------------
(* The steps of one window.  The other requests go on, those of the window    *)
(* unheard; at most one new request begins.                                   *)
GoesOn(q) ==
    /\ rq'[q].pc = rq[q].pc /\ rq'[q].id = rq[q].id /\ rq'[q].task = rq[q].task
    /\ rq'[q].history = rq[q].history /\ rq'[q].from = rq[q].from /\ rq'[q].obj = rq[q].obj
    /\ rq'[q].answer = rq[q].answer /\ rq'[q].panel = rq[q].panel
    /\ rq'[q].live => rq[q].live

Begins(r, p, new) ==
    /\ ~Used(r) /\ \A k \in Reqs : k < r => Used(k)
    /\ rq'[r].from = <<>> /\ rq'[r].obj = 0 /\ rq'[r].panel = p /\ Talk(rq'[r].history, rq, OwnNumbers)
    /\ \/ rq'[r].pc = "resetGet" /\ rq'[r].id = 0 /\ new.state = "resetting"
       \/ /\ rq'[r].pc = "get" /\ rq'[r].id \in Reqs /\ rq'[r].task \in Reqs
          /\ Used(rq'[r].id) \/ rq'[r].id = r
          /\ new.state = "streaming" /\ new.view # <<>> /\ Last(new.view) = User(rq'[r].id, rq'[r].task)
          /\ OwnNumbers => /\ rq'[r].id <= new.seq
                           /\ \A q \in Reqs : rq[q].id = rq'[r].id => rq[q].task = rq'[r].task

NewRequests(p, new) ==
    /\ rq' \in [Reqs -> Request]
    /\ \/ \A q \in Reqs : GoesOn(q)
       \/ \E r \in Reqs : Begins(r, p, new) /\ \A q \in Reqs \ {r} : GoesOn(q)
    /\ \A q \in Reqs : Used(q) /\ Listened(q)' => rq[q].panel # p

NewWindow(p, new) ==
    /\ new \in PanelType /\ panel' = [panel EXCEPT ![p] = new]
    /\ new.seq # 0 => rq'[new.seq].pc # "unused"
    /\ OwnNumbers => panel[p].seq <= new.seq
    /\ Sound(new.view, rq', OwnNumbers) /\ Below(new.view, new.seq)
    /\ new.state \in {"deleting", "deleteRow", "resend"} =>
          LET m == new.resend[1]
          IN  /\ m \in Message /\ m.role = "user" /\ m.id <= new.seq /\ Asked(m, rq)
              /\ \A i \in DOMAIN new.view : new.view[i].role = "user" => new.view[i].id # m.id

LEMMA RequestsKeep ==
    ASSUME IInv, NEW p, NEW new, NewRequests(p, new)
    PROVE  /\ Keeps(rq, rq') /\ \A m : m.id # 0 /\ Asked(m, rq) => Asked(m, rq')
           /\ \A q \in Reqs : Used(q) => GoesOn(q)
<1>1. \A q \in Reqs : Used(q) => GoesOn(q)
  BY DEF NewRequests, Begins
<1>2. \A q \in Reqs : rq[q].id # 0 => Used(q)
  BY DEF IInv, Numbers
<1>3. Keeps(rq, rq')
  BY <1>1, <1>2 DEF GoesOn, Keeps
<1> QED
  BY <1>1, <1>3 DEF Keeps, Asked
LEMMA WindowStep ==
    ASSUME IInv, NEW p \in scenario.panels, NEW new, NewRequests(p, new), NewWindow(p, new),
           scenario' = scenario, heap' = heap, mem' \in 0 .. Len(heap), NewRow
    PROVE  IInv'
<1>1. /\ Keeps(rq, rq') /\ \A m : m.id # 0 /\ Asked(m, rq) => Asked(m, rq')
      /\ \A q \in Reqs : Used(q) => GoesOn(q)
  BY RequestsKeep
<1>2. OwnNumbers' = OwnNumbers /\ Request' = Request
  BY DEF OwnNumbers, Request
<1>3. /\ panel' \in [scenario.panels -> PanelType] /\ panel'[p] = new
      /\ \A w \in scenario.panels : w # p => panel'[w] = panel[w]
  BY WindowSet DEF NewWindow, IInv
<1>4. \A q \in Reqs : GoesOn(q) \/ (Begins(q, p, new) /\ \A k \in Reqs \ {q} : GoesOn(k))
  BY DEF NewRequests
<1>5. /\ rq \in [Reqs -> Request] /\ rq' \in [Reqs -> Request] /\ heap \in Seq(Objs) /\ Len(heap) \in Nat
      /\ \A q \in Reqs : rq[q].id \in Reqs \cup {0} /\ rq'[q].id \in Reqs \cup {0}
  BY DEF IInv, Typed, Objs, NewRequests, Request
<1>6. \A q \in Reqs : Used(q) => rq'[q].pc # "unused"
  BY <1>1 DEF Used, GoesOn
<1>7. OwnNumbers => \A w \in scenario.panels : w = p
  <2>1. scenario \in Scenarios
    BY DEF IInv, Typed
  <2>2. IsFiniteSet(scenario.panels)
    BY <2>1, AISessionAssumption
  <2>3. OwnNumbers => \E x : scenario.panels = {x}
    BY <2>2, FS_Singleton DEF OwnNumbers
  <2> QED
    BY <2>3
<1>8. Typed'
  <2>1. ASSUME NEW q \in Reqs, ~Ended(q)'
        PROVE  rq'[q].obj \in 0 .. Len(heap)
    <3>1. CASE GoesOn(q)
      BY <2>1, <3>1 DEF GoesOn, Ended, IInv, Typed
    <3>2. CASE Begins(q, p, new)
      BY <1>5, <3>2 DEF Begins
    <3> QED
      BY <1>4, <3>1, <3>2
  <2> QED
    BY <1>2, <1>3, <1>5, <2>1 DEF IInv, Typed, NewRow
<1>9. Numbers'
  <2>1. ASSUME NEW r \in Reqs, NEW q \in Reqs, q < r, rq'[r].pc # "unused"
        PROVE  rq'[q].pc # "unused"
    BY <1>4, <1>6, <2>1 DEF IInv, Numbers, Used, GoesOn, Begins
  <2>2. ASSUME NEW r \in Reqs, rq'[r].id # 0
        PROVE  rq'[r].task # 0 /\ rq'[r].pc # "unused" /\ rq'[rq'[r].id].pc # "unused"
    <3>1. CASE GoesOn(r)
      <4>1. rq[r].id # 0 /\ rq[r].task # 0 /\ Used(r) /\ Used(rq[r].id) /\ rq[r].id \in Reqs
        BY <1>5, <2>2, <3>1 DEF GoesOn, IInv, Numbers
      <4> QED
        BY <1>6, <3>1, <4>1 DEF GoesOn
    <3>2. CASE Begins(r, p, new)
      <4>1. rq'[r].pc = "get" /\ rq'[r].task \in Reqs /\ (Used(rq'[r].id) \/ rq'[r].id = r) /\ rq'[r].id \in Reqs
        BY <2>2, <3>2 DEF Begins
      <4> QED
        BY <1>6, <4>1 DEF Reqs
    <3> QED
      BY <1>4, <3>1, <3>2
  <2>3. ASSUME NEW r \in Reqs, rq'[r].pc \in Chatting
        PROVE  rq'[r].id # 0
    <3>1. CASE GoesOn(r)
      BY <2>3, <3>1 DEF GoesOn, IInv, Numbers
    <3>2. CASE Begins(r, p, new)
      BY <2>3, <3>2 DEF Begins, Chatting, Reqs
    <3> QED
      BY <1>4, <3>1, <3>2
  <2>4. ASSUME NEW w \in scenario.panels, panel'[w].seq # 0
        PROVE  rq'[panel'[w].seq].pc # "unused"
    <3>1. CASE w = p
      BY <1>3, <2>4, <3>1 DEF NewWindow
    <3>2. CASE w # p
      <4>1. panel'[w] = panel[w] /\ panel[w].seq \in Reqs
        BY <1>3, <2>4, <3>2 DEF IInv, Typed, PanelType
      <4> QED
        BY <1>6, <2>4, <4>1 DEF IInv, Numbers
    <3> QED
      BY <3>1, <3>2
  <2>5. ASSUME OwnNumbers, NEW w \in scenario.panels, NEW q \in Reqs
        PROVE  rq'[q].id <= panel'[w].seq
    <3>1. w = p /\ panel'[w] = new /\ panel[p].seq <= new.seq /\ panel[p].seq \in Nat /\ new.seq \in Nat
      BY <1>3, <1>7, <2>5 DEF NewWindow, IInv, Typed, PanelType, Reqs
    <3>2. CASE GoesOn(q)
      <4>1. rq[q].id <= panel[p].seq /\ rq'[q].id = rq[q].id /\ rq[q].id \in Nat
        BY <1>5, <2>5, <3>2 DEF IInv, Numbers, GoesOn, Reqs
      <4> QED
        BY <3>1, <4>1
    <3>3. CASE Begins(q, p, new)
      BY <2>5, <3>1, <3>3 DEF Begins
    <3> QED
      BY <1>4, <3>2, <3>3
  <2>6. ASSUME OwnNumbers, NEW r \in Reqs, NEW q \in Reqs, rq'[r].id # 0, rq'[r].id = rq'[q].id
        PROVE  rq'[r].task = rq'[q].task
    <3>1. CASE GoesOn(r) /\ GoesOn(q)
      <4>1. \A k, l \in Reqs : rq[k].id # 0 /\ rq[k].id = rq[l].id => rq[k].task = rq[l].task
        BY <2>6 DEF IInv, Numbers
      <4> QED
        BY <2>6, <3>1, <4>1 DEF GoesOn
    <3>2. CASE Begins(r, p, new) /\ GoesOn(q)
      BY <2>6, <3>2 DEF GoesOn, Begins
    <3>3. CASE Begins(q, p, new) /\ GoesOn(r)
      BY <2>6, <3>3 DEF GoesOn, Begins
    <3> QED
      BY <1>4, <3>1, <3>2, <3>3
  <2> QED
    BY <1>2, <2>1, <2>2, <2>3, <2>4, <2>5, <2>6 DEF Numbers, Used
<1>10. Objects' /\ Stored'
  BY <1>1, <1>2, SoundStays DEF NewRow, IInv, Objects, Stored
<1>11. Carried'
  <2>1. ASSUME NEW q \in Reqs
        PROVE  Talk(rq'[q].history, rq, OwnNumbers) /\ Talk(rq'[q].from, rq, OwnNumbers)
    <3>1. CASE GoesOn(q)
      BY <3>1 DEF GoesOn, IInv, Carried
    <3>2. CASE Begins(q, p, new)
      BY <3>2, EmptySound DEF Begins
    <3> QED
      BY <1>4, <3>1, <3>2
  <2> QED
    BY <1>1, <1>2, <2>1, SoundStays DEF Carried
<1>12. Views'
  <2>1. ASSUME NEW w \in scenario.panels
        PROVE  Sound(panel'[w].view, rq', OwnNumbers) /\ Below(panel'[w].view, panel'[w].seq)
    <3>1. CASE w = p
      BY <1>3, <3>1 DEF NewWindow
    <3>2. CASE w # p
      BY <1>1, <1>3, <3>2, SoundStays DEF IInv, Views
    <3> QED
      BY <3>1, <3>2
  <2> QED
    BY <1>2, <2>1 DEF Views
<1>13. Resends'
  <2>1. \A m \in Message : Asked(m, rq) => Asked(m, rq')
    BY <1>1, Roles DEF Bubbles, Reqs
  <2>2. ASSUME NEW w \in scenario.panels, panel'[w].state \in {"deleting", "deleteRow", "resend"}
        PROVE  LET m == panel'[w].resend[1]
               IN  /\ m \in Message /\ m.role = "user" /\ m.id <= panel'[w].seq /\ Asked(m, rq)
                   /\ \A i \in DOMAIN panel'[w].view : panel'[w].view[i].role = "user" => panel'[w].view[i].id # m.id
    <3>1. CASE w = p
      BY <1>3, <2>2, <3>1 DEF NewWindow
    <3>2. CASE w # p
      BY <1>3, <2>2, <3>2 DEF IInv, Resends
    <3> QED
      BY <3>1, <3>2
  <2> QED
    BY <2>1, <2>2 DEF Resends
<1>14. Hands'
  <2>1. ASSUME NEW q \in Reqs
        PROVE  \/ rq'[q].pc \in {"get", "resetGet"}
               \/ /\ rq'[q].pc = rq[q].pc /\ rq'[q].obj = rq[q].obj /\ rq'[q].answer = rq[q].answer
                  /\ rq'[q].task = rq[q].task
    BY <1>4 DEF GoesOn, Begins
  <2>2. Hands
    BY DEF IInv
  <2> QED
    BY <1>2, <2>1, <2>2 DEF Hands
<1>15. LockHeldByWorker'
  <2>1. \A q \in Reqs : rq[q].pc \in {"model", "save"} => rq'[q].pc = rq[q].pc /\ rq'[q].obj = rq[q].obj
    BY <1>1 DEF Used, GoesOn
  <2>2. \A o \in DOMAIN heap : heap[o] \in Objs
    BY <1>5
  <2>3. \A o \in DOMAIN heap : heap[o].lock # 0 => heap[o].lock \in Reqs
    BY <2>2 DEF Objs
  <2>4. LockHeldByWorker
    BY DEF IInv
  <2> QED
    BY <2>1, <2>3, <2>4 DEF LockHeldByWorker
<1>16. Listening'
  <2>1. ASSUME NEW q \in Reqs, Listened(q)', GoesOn(q)
        PROVE  /\ Listened(q) /\ rq'[q].panel = rq[q].panel /\ rq[q].panel # p
               /\ rq[q].panel \in scenario.panels /\ panel'[rq[q].panel] = panel[rq[q].panel]
    <3>1. Listened(q) /\ Used(q) /\ rq'[q].panel = rq[q].panel
      BY <2>1 DEF Listened, GoesOn, Ended, Used
    <3>2. rq[q].panel # p /\ rq[q].panel \in scenario.panels
      BY <2>1, <3>1 DEF NewRequests, IInv, Listening
    <3> QED
      BY <1>3, <3>1, <3>2
  <2>2. ASSUME NEW r \in Reqs, Listened(r)'
        PROVE  /\ rq'[r].panel \in scenario.panels
               /\ \A q \in Reqs : Listened(q)' /\ rq'[q].panel = rq'[r].panel => q = r
    <3>1. CASE Begins(r, p, new) /\ \A k \in Reqs \ {r} : GoesOn(k)
      BY <2>1, <3>1 DEF Begins
    <3>2. CASE GoesOn(r)
      <4>1. ASSUME NEW q \in Reqs, Listened(q)', rq'[q].panel = rq'[r].panel
            PROVE  q = r
        <5>1. CASE GoesOn(q)
          BY <2>1, <2>2, <3>2, <4>1, <5>1 DEF IInv, Listening
        <5>2. CASE Begins(q, p, new)
          BY <2>1, <2>2, <3>2, <4>1, <5>2 DEF Begins
        <5> QED
          BY <1>4, <5>1, <5>2
      <4> QED
        BY <2>1, <2>2, <3>2, <4>1
    <3> QED
      BY <1>4, <3>1, <3>2
  <2>3. ASSUME NEW r \in Reqs, Listened(r)'
        PROVE  /\ rq'[r].pc \in Resetting => panel'[rq'[r].panel].state = "resetting"
               /\ rq'[r].pc \in Chatting =>
                    /\ panel'[rq'[r].panel].state = "streaming"
                    /\ panel'[rq'[r].panel].view # <<>>
                    /\ Last(panel'[rq'[r].panel].view) = User(rq'[r].id, rq'[r].task)
    <3>1. CASE Begins(r, p, new)
      BY <1>3, <3>1 DEF Begins, Chatting, Resetting
    <3>2. CASE GoesOn(r)
      <4>1. rq'[r].pc = rq[r].pc /\ rq'[r].id = rq[r].id /\ rq'[r].task = rq[r].task
        BY <3>2 DEF GoesOn
      <4> QED
        BY <2>1, <2>3, <3>2, <4>1 DEF IInv, Listening
    <3> QED
      BY <1>4, <3>1, <3>2
  <2> QED
    BY <1>2, <2>2, <2>3 DEF Listening
<1> QED
  BY <1>8, <1>9, <1>10, <1>11, <1>12, <1>13, <1>14, <1>15, <1>16 DEF IInv

-----------------------------------------------------------------------------
(* What users and their windows do *)

LEMMA CancelledRequests ==
    ASSUME IInv, NEW p
    PROVE  /\ Cancelled(p) \in [Reqs -> Request]
           /\ \A q \in Reqs : /\ Cancelled(p)[q].pc = rq[q].pc /\ Cancelled(p)[q].id = rq[q].id
                              /\ Cancelled(p)[q].task = rq[q].task /\ Cancelled(p)[q].history = rq[q].history
                              /\ Cancelled(p)[q].from = rq[q].from /\ Cancelled(p)[q].obj = rq[q].obj
                              /\ Cancelled(p)[q].answer = rq[q].answer /\ Cancelled(p)[q].panel = rq[q].panel
                              /\ Cancelled(p)[q].live => rq[q].live
                              /\ Cancelled(p)[q].live /\ ~Ended(q) => rq[q].panel # p
<1> DEFINE Off(q) == [rq[q] EXCEPT !.live = FALSE]
<1>1. ASSUME NEW q \in Reqs
      PROVE  LET c == Off(q)
             IN  /\ c \in Request /\ c.pc = rq[q].pc /\ c.id = rq[q].id /\ c.task = rq[q].task
                 /\ c.history = rq[q].history /\ c.from = rq[q].from /\ c.obj = rq[q].obj
                 /\ c.answer = rq[q].answer /\ c.panel = rq[q].panel /\ ~c.live
  <2>1. rq[q] \in Request
    BY DEF IInv, Typed
  <2> QED
    BY <2>1 DEF Request
<1>2. \A q \in Reqs : rq[q] \in Request
  BY DEF IInv, Typed
<1>3. \A q \in Reqs : Cancelled(p)[q] = IF rq[q].panel = p /\ ~Ended(q) /\ rq[q].live
                                        THEN Off(q) ELSE rq[q]
  BY DEF Cancelled
<1> HIDE DEF Off
<1>4. \A q \in Reqs : Cancelled(p)[q] \in Request
  BY <1>1, <1>2, <1>3
<1>5. Cancelled(p) \in [Reqs -> Request]
  <2>1. Cancelled(p) = [q \in Reqs |-> Cancelled(p)[q]]
    BY DEF Cancelled
  <2> QED
    BY <1>4, <2>1
<1> QED
  BY <1>1, <1>3, <1>5

LEMMA Unheard ==
    ASSUME IInv, NEW p, NEW new,
           rq' = Cancelled(p) \/ (rq' = rq /\ \A q \in Reqs : Listened(q) => rq[q].panel # p)
    PROVE  NewRequests(p, new)
<1>1. CASE rq' = Cancelled(p)
  BY <1>1, CancelledRequests DEF NewRequests, GoesOn, Listened, Ended
<1>2. CASE rq' = rq /\ \A q \in Reqs : Listened(q) => rq[q].panel # p
  BY <1>2 DEF NewRequests, GoesOn, Listened, Ended, IInv, Typed
<1> QED
  BY <1>1, <1>2

(* No request is listened to by a window that is neither streaming nor resetting. *)
LEMMA IdleUnheard ==
    ASSUME IInv, NEW p, panel[p].state \notin {"streaming", "resetting"}
    PROVE  \A q \in Reqs : Listened(q) => rq[q].panel # p
<1>1. ASSUME NEW q \in Reqs, Listened(q), rq[q].panel = p
      PROVE  FALSE
  <2>1. rq[q].pc \in Chatting \cup Resetting
    BY <1>1 DEF Listened, Ended, IInv, Typed, Request
  <2> QED
    BY <1>1, <2>1 DEF IInv, Listening
<1> QED
  BY <1>1

(* Stopping, closing the tab, deleting the session: the window keeps what it shows. *)
LEMMA SameView ==
    ASSUME IInv, NEW p \in scenario.panels, NEW st, panel' = [panel EXCEPT ![p].state = st],
           st \in {"idle", "streaming", "resend", "deleteRow", "resetting", "closing", "closingEntry", "closed"},
           st \in {"deleteRow", "resend"} => panel[p].state \in {"deleting", "deleteRow"},
           rq' = Cancelled(p) \/ (rq' = rq /\ panel[p].state \notin {"streaming", "resetting"}),
           scenario' = scenario, heap' = heap, mem' \in {0, mem}, row' \in {row, NoRow}
    PROVE  IInv'
<1> DEFINE new == [panel[p] EXCEPT !.state = st]
<1>1. panel[p] \in PanelType /\ panel \in [scenario.panels -> PanelType] /\ mem \in 0 .. Len(heap) /\ Len(heap) \in Nat
  BY DEF IInv, Typed
<1>2. /\ new \in PanelType /\ new.state = st /\ new.view = panel[p].view
      /\ new.seq = panel[p].seq /\ new.resend = panel[p].resend
  BY <1>1 DEF PanelType
<1>3. panel' = [panel EXCEPT ![p] = new]
  OBVIOUS
<1> HIDE DEF new
<1>4. NewRequests(p, new)
  BY IdleUnheard, Unheard
<1>5. /\ Keeps(rq, rq') /\ \A q \in Reqs : Used(q) => rq'[q].pc # "unused"
  BY <1>4, RequestsKeep DEF GoesOn, Used
<1>6. NewWindow(p, new)
  <2>1. new.seq # 0 => new.seq \in Reqs /\ rq'[new.seq].pc # "unused"
    BY <1>1, <1>2, <1>5 DEF IInv, Numbers, PanelType
  <2>2. Sound(new.view, rq', OwnNumbers) /\ Below(new.view, new.seq)
    BY <1>2, <1>5, SoundStays DEF IInv, Views
  <2>3. panel[p].seq <= new.seq
    BY <1>1, <1>2 DEF PanelType, Reqs
  <2>4. new.state \in {"deleting", "deleteRow", "resend"} => panel[p].state \in {"deleting", "deleteRow", "resend"}
    BY <1>2
  <2>5. panel[p].state \in {"deleting", "deleteRow", "resend"} =>
          LET m == panel[p].resend[1]
          IN  /\ m \in Message /\ m.role = "user" /\ m.id <= panel[p].seq /\ Asked(m, rq)
              /\ \A i \in DOMAIN panel[p].view : panel[p].view[i].role = "user" => panel[p].view[i].id # m.id
    BY DEF IInv, Resends
  <2>6. new.state \in {"deleting", "deleteRow", "resend"} =>
          LET m == new.resend[1]
          IN  /\ m \in Message /\ m.role = "user" /\ m.id <= new.seq /\ Asked(m, rq)
              /\ \A i \in DOMAIN new.view : new.view[i].role = "user" => new.view[i].id # m.id
    BY <1>2, <2>4, <2>5
  <2> QED
    BY <1>2, <1>3, <2>1, <2>2, <2>3, <2>6 DEF NewWindow
<1>7. NewRow
  <2>1. CASE row' = row
    BY <2>1, SameRow
  <2>2. CASE row' = NoRow
    <3>1. Talk(<<>>, rq, OwnNumbers) /\ <<>> \in Seq(Message)
      BY EmptySound
    <3> QED
      BY <2>2, <3>1 DEF NoRow, NewRow
  <2> QED
    BY <2>1, <2>2
<1>8. mem' \in 0 .. Len(heap)
  BY <1>1
<1> QED
  BY <1>4, <1>6, <1>7, <1>8, WindowStep

LEMMA WindowMovesInv ==
    ASSUME IInv, NEW p \in scenario.panels, PanelStep(p) \/ Stop(p) \/ CloseTab(p)
    PROVE  IInv'
<1>1. CASE Stop(p)
  BY <1>1, SameView DEF Stop
<1>2. CASE CloseTab(p)
  BY <1>2, SameView DEF CloseTab
<1>3. CASE DeleteEntry(p)
  <2>1. PICK st \in {"resend", "deleteRow"} : panel' = [panel EXCEPT ![p].state = st]
    BY <1>3 DEF DeleteEntry
  <2> QED
    BY <1>3, <2>1, SameView DEF DeleteEntry
<1>4. CASE DeleteRow(p)
  BY <1>4, SameView DEF DeleteRow
<1>5. CASE DeleteRowByTab(p)
  BY <1>5, SameView DEF DeleteRowByTab
<1>6. CASE DeleteEntryByTab(p)
  BY <1>6, SameView DEF DeleteEntryByTab
<1> QED
  BY <1>1, <1>2, <1>3, <1>4, <1>5, <1>6 DEF PanelStep

(* The retry takes the message that failed, and what came after it, out of    *)
(* the window, to send it again.                                              *)
LEMMA SoundHead ==
    ASSUME NEW q, NEW own, NEW s, Sound(s, q, own), NEW n \in 0 .. Len(s)
    PROVE  Sound(SubSeq(s, 1, n), q, own)
<1>1. s \in Seq(Bubbles) /\ Len(s) \in Nat /\ DOMAIN s = 1 .. Len(s)
  BY DEF Sound
<1> DEFINE t == SubSeq(s, 1, n)
<1>2. t \in Seq(Bubbles) /\ DOMAIN t = 1 .. n /\ \A i \in 1 .. n : t[i] = s[i] /\ i \in DOMAIN s
  BY <1>1
<1> HIDE DEF t
<1>3. Distinct(t) /\ Known(t, q)
  BY <1>2 DEF Distinct, Known, Sound
<1>4. own => Paired(t)
  <2>1. SUFFICES ASSUME own, NEW j \in 1 .. n, t[j].role = "assistant"
                 PROVE  j - 1 \in 1 .. n /\ t[j - 1].role = "user" /\ t[j].task = t[j - 1].task
    BY <1>2 DEF Paired
  <2>2. j - 1 \in DOMAIN s /\ s[j - 1].role = "user" /\ s[j].task = s[j - 1].task
    BY <1>2, <2>1 DEF Sound, Paired
  <2>3. j - 1 \in 1 .. n
    BY <1>1, <2>2
  <2> QED
    BY <1>2, <2>2, <2>3
<1> QED
  BY <1>2, <1>3, <1>4 DEF Sound, t

LEMMA RetryInv ==
    ASSUME IInv, NEW p \in scenario.panels, NEW i, Retry(p, i)
    PROVE  IInv'
<1> DEFINE view == panel[p].view
           before == {u \in UsersOf(view) : u < i}
           k == Max(before)
           new == [panel[p] EXCEPT !.state = "deleting", !.view = SubSeq(view, 1, k - 1), !.resend = <<view[k]>>]
<1>1. /\ panel[p].state = "idle" /\ i \in DOMAIN view /\ before # {} /\ UNCHANGED <<scenario, heap, mem, row, rq>>
      /\ panel' = [panel EXCEPT ![p].state = "deleting", ![p].view = SubSeq(view, 1, k - 1), ![p].resend = <<view[k]>>]
  BY DEF Retry
<1>2. panel[p] \in PanelType /\ panel \in [scenario.panels -> PanelType] /\ mem \in 0 .. Len(heap) /\ Len(heap) \in Nat
  BY DEF IInv, Typed
<1>3. Sound(view, rq, OwnNumbers) /\ Below(view, panel[p].seq) /\ view \in Seq(Bubbles)
  BY DEF IInv, Views, Sound
<1>4. k \in DOMAIN view /\ view[k].role = "user" /\ k \in 1 .. Len(view) /\ Len(view) \in Nat /\ DOMAIN view = 1 .. Len(view)
  <2>1. Len(view) \in Nat /\ DOMAIN view = 1 .. Len(view)
    BY <1>3
  <2>2. before \in SUBSET (0 .. Len(view))
    BY <2>1 DEF UsersOf, Indices
  <2>3. k \in before
    BY <1>1, <2>1, <2>2, MaxOf
  <2> QED
    BY <2>1, <2>3 DEF UsersOf, Indices
<1> HIDE DEF k, before
<1>5. view[k] \in Message
  BY <1>3, <1>4, Roles
<1>6. /\ new \in PanelType /\ new.state = "deleting" /\ new.view = SubSeq(view, 1, k - 1)
      /\ new.seq = panel[p].seq /\ new.resend[1] = view[k]
  <2>1. SubSeq(view, 1, k - 1) \in Seq(Bubbles) /\ <<view[k]>> \in Seq(Message)
    BY <1>3, <1>4, <1>5
  <2> QED
    BY <1>2, <2>1 DEF PanelType
<1>7. panel' = [panel EXCEPT ![p] = new]
  BY <1>1
<1>8. SubSeq(view, 1, k - 1) \in Seq(Bubbles) /\ DOMAIN SubSeq(view, 1, k - 1) = 1 .. k - 1
      /\ \A j \in 1 .. k - 1 : SubSeq(view, 1, k - 1)[j] = view[j] /\ j \in DOMAIN view
  BY <1>3, <1>4
<1> HIDE DEF new
<1>9. NewRequests(p, new)
  BY <1>1, IdleUnheard, Unheard
<1>10. Sound(new.view, rq', OwnNumbers) /\ Below(new.view, new.seq)
  <2>1. Sound(new.view, rq, OwnNumbers)
    BY <1>3, <1>4, <1>6, SoundHead
  <2>2. Below(new.view, new.seq)
    BY <1>3, <1>6, <1>8 DEF Below
  <2> QED
    BY <1>1, <2>1, <2>2
<1>11. NewWindow(p, new)
  <2>1. new.seq # 0 => new.seq \in Reqs /\ rq'[new.seq].pc # "unused"
    BY <1>1, <1>2, <1>6 DEF IInv, Numbers, PanelType, Used
  <2>2. panel[p].seq <= new.seq
    BY <1>2, <1>6 DEF PanelType, Reqs
  <2>3. view[k].id <= new.seq /\ Asked(view[k], rq)
    BY <1>3, <1>4, <1>6 DEF Below, Sound, Known
  <2>4. \A j \in DOMAIN new.view : new.view[j].role = "user" => new.view[j].id # view[k].id
    <3>1. \A j \in 1 .. k - 1 : view[j].role = "user" => view[j].id # view[k].id
      <4>1. \A j \in 1 .. k - 1 : j \in DOMAIN view /\ j # k
        BY <1>4
      <4>2. Distinct(view)
        BY <1>3 DEF Sound
      <4> QED
        BY <1>4, <4>1, <4>2 DEF Distinct
    <3> QED
      BY <1>6, <1>8, <3>1
  <2> QED
    BY <1>4, <1>5, <1>6, <1>7, <1>10, <2>1, <2>2, <2>3, <2>4 DEF NewWindow
<1> QED
  BY <1>1, <1>2, <1>9, <1>11, SameRow, WindowStep

(* The stored conversation takes the place of what the window showed.         *)
LEMMA ReloadInv ==
    ASSUME IInv, NEW p \in scenario.panels, Reload(p)
    PROVE  IInv'
<1> DEFINE msgs == row.messages
           ids == {msgs[i].id : i \in UsersOf(msgs)}
           seq == IF ids = {} THEN 0 ELSE Max(ids)
           new == [panel[p] EXCEPT !.state = "idle", !.view = msgs, !.seq = seq]
<1>1. /\ rq' = Cancelled(p) /\ UNCHANGED <<scenario, heap, mem, row>> /\ "reload" \in scenario.moves
      /\ panel' = [panel EXCEPT ![p].state = "idle", ![p].view = msgs, ![p].seq = seq]
  BY DEF Reload
<1>2. panel[p] \in PanelType /\ panel \in [scenario.panels -> PanelType] /\ mem \in 0 .. Len(heap) /\ Len(heap) \in Nat
  BY DEF IInv, Typed
<1>3. Talk(msgs, rq, OwnNumbers) /\ Sound(msgs, rq, OwnNumbers) /\ msgs \in Seq(Message) /\ msgs \in Seq(Bubbles)
  BY DEF IInv, Stored, Talk, Sound
<1>4. \A j \in UsersOf(msgs) : /\ j \in DOMAIN msgs /\ msgs[j].role = "user" /\ msgs[j].id \in Reqs
                              /\ Asked(msgs[j], rq)
  BY <1>3, Roles DEF UsersOf, Indices, Sound, Known, Bubbles
<1>5. \A d \in ids : d \in Reqs /\ Used(d)
  <2>1. SUFFICES ASSUME NEW j \in UsersOf(msgs)
                 PROVE  msgs[j].id \in Reqs /\ Used(msgs[j].id)
    OBVIOUS
  <2>2. PICK r \in Reqs : rq[r].id = msgs[j].id
    BY <1>4 DEF Asked
  <2> QED
    BY <1>4, <2>2 DEF IInv, Numbers, Reqs
<1>6. /\ seq \in Reqs \cup {0}
      /\ seq # 0 => Used(seq)
      /\ \A d \in ids : d <= seq
  <2>1. ids \in SUBSET (0 .. MaxReqs) /\ MaxReqs \in Nat
    BY <1>5, AISessionAssumption DEF Reqs
  <2>2. ids # {} => Max(ids) \in ids /\ \A d \in ids : Max(ids) >= d
    BY <2>1, MaxOf
  <2>3. \A d \in ids : d \in Nat
    BY <2>1
  <2> QED
    BY <1>5, <2>2, <2>3
<1>7. \A j \in DOMAIN msgs : msgs[j].role = "user" => msgs[j].id \in ids
  BY DEF UsersOf, Indices
<1>8. Below(msgs, seq)
  BY <1>6, <1>7 DEF Below
<1> HIDE DEF seq, ids
<1>9. /\ new \in PanelType /\ new.state = "idle" /\ new.view = msgs /\ new.seq = seq
  BY <1>2, <1>3, <1>6 DEF PanelType
<1>10. panel' = [panel EXCEPT ![p] = new]
  BY <1>1
<1> HIDE DEF new
<1>11. NewRequests(p, new)
  BY <1>1, Unheard
<1>12. /\ Keeps(rq, rq') /\ \A q \in Reqs : Used(q) => rq'[q].pc # "unused"
  BY <1>11, RequestsKeep DEF GoesOn, Used
<1>13. NewWindow(p, new)
  <2>1. Sound(new.view, rq', OwnNumbers) /\ Below(new.view, new.seq)
    BY <1>3, <1>8, <1>9, <1>12, SoundStays
  <2>2. new.seq # 0 => rq'[new.seq].pc # "unused"
    BY <1>6, <1>9, <1>12 DEF Used
  <2>3. ~OwnNumbers
    BY <1>1 DEF OwnNumbers
  <2> QED
    BY <1>9, <1>10, <2>1, <2>2, <2>3 DEF NewWindow
<1> QED
  BY <1>1, <1>2, <1>11, <1>13, SameRow, WindowStep

(* A message is sent, anew or again: a request begins. *)
LEMMA SubmitInv ==
    ASSUME IInv, NEW p \in scenario.panels, NEW r \in Reqs, NEW id \in Reqs, NEW task \in Reqs, NEW seq \in Reqs,
           Submit(p, r, id, task, panel[p].view, seq), UNCHANGED <<scenario, heap, mem, row>>,
           panel[p].state \in {"idle", "resend"}, panel[p].seq <= seq,
           Used(id) \/ id = r, id <= seq, Used(seq) \/ seq = r,
           \A i \in DOMAIN panel[p].view : panel[p].view[i].role = "user" => panel[p].view[i].id # id,
           OwnNumbers => \A q \in Reqs : rq[q].id = id => rq[q].task = task
    PROVE  IInv'
<1> DEFINE view == panel[p].view
           asked == [Unused EXCEPT !.pc = "get", !.panel = p, !.id = id, !.task = task,
                                   !.history = Shown(view), !.live = TRUE]
           new == [state |-> "streaming", seq |-> seq, resend |-> <<>>, view |-> Append(view, User(id, task))]
<1>1. /\ Free(r) /\ rq' = [rq EXCEPT ![r] = asked] /\ panel' = [panel EXCEPT ![p] = new]
  BY DEF Submit
<1>2. /\ panel[p] \in PanelType /\ panel \in [scenario.panels -> PanelType] /\ mem \in 0 .. Len(heap)
      /\ rq \in [Reqs -> Request] /\ Len(heap) \in Nat
  BY DEF IInv, Typed
<1>3. ~Used(r) /\ \A k \in Reqs : k < r => Used(k)
  <2>1. \A k \in Reqs : k < r => k \in 1 .. r - 1
    BY DEF Reqs
  <2> QED
    BY <1>1, <2>1 DEF Free, Used
<1>4. /\ Sound(view, rq, OwnNumbers) /\ Below(view, panel[p].seq) /\ view \in Seq(Bubbles)
      /\ Talk(Shown(view), rq, OwnNumbers) /\ Shown(view) \in Seq(Message)
  <2>1. Sound(view, rq, OwnNumbers) /\ Below(view, panel[p].seq) /\ view \in Seq(Bubbles)
    BY DEF IInv, Views, Sound
  <2>2. Talk(Shown(view), rq, OwnNumbers)
    BY <2>1, ShownSound
  <2> QED
    BY <2>1, <2>2 DEF Talk
<1>5. User(id, task) \in Message /\ User(id, task) \in Bubbles /\ User(id, task).role = "user"
      /\ User(id, task).id = id /\ User(id, task).task = task
  BY DEF User, Message, Bubbles, Reqs
<1>6. /\ asked \in Request /\ asked.pc = "get" /\ asked.panel = p /\ asked.id = id /\ asked.task = task
      /\ asked.history = Shown(view) /\ asked.from = <<>> /\ asked.obj = 0 /\ asked.live
  <2>1. <<>> \in Seq(Message) /\ ErrorBubble \in Bubbles /\ 0 \in Nat
    BY DEF Bubbles
  <2> QED
    BY <1>4, <2>1 DEF Unused, Request, Chatting
<1>7. /\ new \in PanelType /\ new.state = "streaming" /\ new.seq = seq /\ new.view = Append(view, User(id, task))
      /\ new.view # <<>> /\ Last(new.view) = User(id, task)
  <2>1. Append(view, User(id, task)) \in Seq(Bubbles) /\ <<>> \in Seq(Message)
    BY <1>4, <1>5
  <2>2. Append(view, User(id, task)) # <<>> /\ Last(Append(view, User(id, task))) = User(id, task)
    BY <1>4, <1>5, LastAppended
  <2> QED
    BY <2>1, <2>2 DEF PanelType
<1> HIDE DEF asked, new
<1>8. rq' \in [Reqs -> Request] /\ rq'[r] = asked /\ \A q \in Reqs \ {r} : rq'[q] = rq[q]
  BY <1>1, <1>2, <1>6
<1>9. NewRequests(p, new)
  <2>1. Begins(r, p, new)
    BY <1>3, <1>4, <1>6, <1>7, <1>8 DEF Begins
  <2>2. \A q \in Reqs \ {r} : GoesOn(q)
    BY <1>8 DEF GoesOn
  <2>3. ASSUME NEW q \in Reqs, Used(q), Listened(q)'
        PROVE  rq[q].panel # p
    <3>1. q # r
      BY <1>3, <2>3
    <3>2. Listened(q)
      BY <1>8, <2>3, <3>1 DEF Listened, Ended
    <3> QED
      BY <3>2, IdleUnheard
  <2> QED
    BY <1>8, <2>1, <2>2, <2>3 DEF NewRequests
<1>10. Keeps(rq, rq') /\ \A q \in Reqs : Used(q) => rq'[q].pc # "unused"
  BY <1>9, RequestsKeep DEF GoesOn, Used
<1>11. Sound(new.view, rq', OwnNumbers)
  <2>1. Sound(view, rq', OwnNumbers)
    BY <1>4, <1>10, SoundStays
  <2>2. Asked(User(id, task), rq')
    BY <1>5, <1>6, <1>8 DEF Asked
  <2> QED
    BY <1>5, <1>7, <2>1, <2>2, SoundAppend
<1>12. Below(new.view, new.seq)
  <2>1. panel[p].seq \in Nat /\ seq \in Nat /\ \A m \in Message : m.id \in Nat
    <3>1. \A m \in Message : m.id \in Reqs
      BY Roles DEF Bubbles
    <3> QED
      BY <1>2, <3>1 DEF PanelType, Reqs
  <2>2. \A i \in DOMAIN view : view[i].role = "user" => view[i].id <= seq
    <3>1. ASSUME NEW i \in DOMAIN view, view[i].role = "user"
          PROVE  view[i].id <= seq
      <4>1. view[i] \in Bubbles /\ view[i].id <= panel[p].seq
        BY <1>4, <3>1 DEF Below
      <4>2. view[i] \in Message
        BY <3>1, <4>1, Roles
      <4> QED
        BY <2>1, <4>1, <4>2
    <3> QED
      BY <3>1
  <2>3. \A i \in DOMAIN new.view : (i \in DOMAIN view /\ new.view[i] = view[i]) \/ new.view[i] = User(id, task)
    BY <1>4, <1>7
  <2> QED
    BY <1>5, <1>7, <2>2, <2>3 DEF Below
<1>13. NewWindow(p, new)
  BY <1>1, <1>6, <1>7, <1>8, <1>10, <1>11, <1>12 DEF NewWindow
<1> QED
  BY <1>2, <1>9, <1>13, SameRow, WindowStep

LEMMA SendInv ==
    ASSUME IInv, NEW p \in scenario.panels, NEW r \in Reqs, Send(p, r)
    PROVE  IInv'
<1> DEFINE id == panel[p].seq + 1
<1>1. panel[p].state = "idle" /\ Submit(p, r, id, r, panel[p].view, id) /\ UNCHANGED <<scenario, heap, mem, row>>
  BY DEF Send
<1>2. panel[p].seq \in Reqs \cup {0} /\ panel[p].seq # 0 => Used(panel[p].seq)
  BY DEF IInv, Typed, Numbers, PanelType
<1>3. ~Used(r)
  BY <1>1 DEF Submit, Free, Used
<1>4. panel[p].seq < r /\ panel[p].seq \in Nat /\ panel[p].seq \in Reqs \cup {0} /\ r \in Nat /\ MaxReqs \in Nat /\ r <= MaxReqs
  <2>1. panel[p].seq \in Reqs \cup {0}
    BY DEF IInv, Typed, PanelType
  <2>2. panel[p].seq # 0 => Used(panel[p].seq)
    BY DEF IInv, Numbers
  <2>3. \A k \in Reqs : Used(k) => k < r
    <3>1. ASSUME NEW k \in Reqs, Used(k), r <= k
          PROVE  FALSE
      <4>1. r = k \/ r < k
        BY <3>1 DEF Reqs
      <4> QED
        BY <1>3, <3>1, <4>1 DEF IInv, Numbers
    <3> QED
      BY <3>1 DEF Reqs
  <2> QED
    BY <2>1, <2>2, <2>3, AISessionAssumption DEF Reqs
<1>5. id \in Reqs /\ id <= r /\ panel[p].seq <= id /\ id <= id
  BY <1>4 DEF Reqs
<1>6. Used(id) \/ id = r
  <2>1. id = r \/ id < r
    BY <1>4, <1>5
  <2>2. \A k \in Reqs : k < r => Used(k)
    <3>1. \A k \in Reqs : k < r => k \in 1 .. r - 1
      BY DEF Reqs
    <3> QED
      BY <1>1, <3>1 DEF Submit, Free, Used
  <2> QED
    BY <1>5, <2>1, <2>2
<1>7. \A i \in DOMAIN panel[p].view : panel[p].view[i].role = "user" => panel[p].view[i].id # id
  <2>1. SUFFICES ASSUME NEW i \in DOMAIN panel[p].view, panel[p].view[i].role = "user"
                 PROVE  panel[p].view[i].id # id
    OBVIOUS
  <2>2. panel[p].view[i].id <= panel[p].seq
    BY <2>1 DEF IInv, Views, Below
  <2>3. panel[p].view[i] \in Bubbles
    BY <2>1 DEF IInv, Views, Sound
  <2>4. panel[p].view[i].id \in Nat
    BY <2>1, <2>3, Roles DEF Reqs
  <2> QED
    BY <1>4, <2>2, <2>4
<1>8. OwnNumbers => \A q \in Reqs : rq[q].id # id
  <2>1. ASSUME OwnNumbers, NEW q \in Reqs
        PROVE  rq[q].id <= panel[p].seq /\ rq[q].id \in Nat
    <3>1. rq[q].id \in Nat
      BY DEF IInv, Typed, Request, Reqs
    <3> QED
      BY <2>1, <3>1 DEF IInv, Numbers
  <2> QED
    BY <1>4, <2>1
<1> HIDE DEF id
<1> QED
  BY <1>1, <1>5, <1>6, <1>7, <1>8, SubmitInv

LEMMA ResendInv ==
    ASSUME IInv, NEW p \in scenario.panels, NEW r \in Reqs, Resend(p, r)
    PROVE  IInv'
<1> DEFINE m == panel[p].resend[1]
<1>1. /\ panel[p].state = "resend" /\ Submit(p, r, m.id, m.task, panel[p].view, panel[p].seq)
      /\ UNCHANGED <<scenario, heap, mem, row>>
  BY DEF Resend
<1>2. /\ m \in Message /\ m.id <= panel[p].seq /\ Asked(m, rq)
      /\ \A i \in DOMAIN panel[p].view : panel[p].view[i].role = "user" => panel[p].view[i].id # m.id
  BY <1>1 DEF IInv, Resends
<1>3. m.id \in Reqs /\ m.task \in Reqs
  BY <1>2, Roles DEF Bubbles
<1>4. panel[p].seq \in Reqs /\ Used(panel[p].seq) /\ panel[p].seq <= panel[p].seq
  <2>1. panel[p].seq \in Reqs \cup {0}
    BY DEF IInv, Typed, PanelType
  <2>2. panel[p].seq # 0
    BY <1>2, <1>3, <2>1 DEF Reqs
  <2> QED
    BY <2>1, <2>2 DEF IInv, Numbers, Reqs
<1>5. PICK q0 \in Reqs : rq[q0].id = m.id /\ rq[q0].task = m.task
  BY <1>2 DEF Asked
<1>6. m.id # 0 /\ Used(m.id)
  BY <1>3, <1>5 DEF IInv, Numbers, Reqs
<1>7. OwnNumbers => \A q \in Reqs : rq[q].id = m.id => rq[q].task = m.task
  BY <1>5, <1>6 DEF IInv, Numbers
<1>8. panel[p].state \in {"idle", "resend"}
  BY <1>1
<1> DEFINE id == m.id
           task == m.task
           seq == panel[p].seq
<1>9. /\ Submit(p, r, id, task, panel[p].view, seq) /\ id \in Reqs /\ task \in Reqs /\ seq \in Reqs
      /\ panel[p].seq <= seq /\ Used(id) /\ Used(seq) /\ id <= seq
      /\ \A i \in DOMAIN panel[p].view : panel[p].view[i].role = "user" => panel[p].view[i].id # id
      /\ OwnNumbers => \A q \in Reqs : rq[q].id = id => rq[q].task = task
  BY <1>1, <1>2, <1>3, <1>4, <1>6, <1>7
<1> HIDE DEF m, id, task, seq
<1> QED
  BY <1>1, <1>8, <1>9, SubmitInv

LEMMA ResetInv ==
    ASSUME IInv, NEW p \in scenario.panels, NEW r \in Reqs, Reset(p, r)
    PROVE  IInv'
<1> DEFINE asked == [Unused EXCEPT !.pc = "resetGet", !.panel = p, !.live = TRUE]
           new == [panel[p] EXCEPT !.state = "resetting"]
<1>1. /\ Free(r) /\ rq' = [Cancelled(p) EXCEPT ![r] = asked] /\ panel' = [panel EXCEPT ![p].state = "resetting"]
      /\ UNCHANGED <<scenario, heap, mem, row>>
  BY DEF Reset
<1>2. /\ panel[p] \in PanelType /\ panel \in [scenario.panels -> PanelType] /\ mem \in 0 .. Len(heap)
      /\ rq \in [Reqs -> Request] /\ Len(heap) \in Nat
  BY DEF IInv, Typed
<1>3. ~Used(r) /\ \A k \in Reqs : k < r => Used(k)
  <2>1. \A k \in Reqs : k < r => k \in 1 .. r - 1
    BY DEF Reqs
  <2> QED
    BY <1>1, <2>1 DEF Free, Used
<1>4. /\ asked \in Request /\ asked.pc = "resetGet" /\ asked.panel = p /\ asked.id = 0
      /\ asked.history = <<>> /\ asked.from = <<>> /\ asked.obj = 0
  <2>1. <<>> \in Seq(Message) /\ ErrorBubble \in Bubbles /\ 0 \in Nat
    BY DEF Bubbles
  <2> QED
    BY <2>1 DEF Unused, Request, Resetting
<1>5. /\ new \in PanelType /\ new.state = "resetting" /\ new.view = panel[p].view /\ new.seq = panel[p].seq
  BY <1>2 DEF PanelType
<1>6. panel' = [panel EXCEPT ![p] = new]
  BY <1>1
<1> HIDE DEF asked, new
<1>7. rq' \in [Reqs -> Request] /\ rq'[r] = asked /\ \A q \in Reqs \ {r} : rq'[q] = Cancelled(p)[q]
  <2>1. Cancelled(p) \in [Reqs -> Request]
    BY CancelledRequests
  <2> QED
    BY <1>1, <1>4, <2>1
<1>8. NewRequests(p, new)
  <2>1. Begins(r, p, new)
    BY <1>3, <1>4, <1>5, <1>7, EmptySound DEF Begins
  <2>2. \A q \in Reqs \ {r} : GoesOn(q)
    BY <1>7, CancelledRequests DEF GoesOn
  <2>3. ASSUME NEW q \in Reqs, Used(q), Listened(q)'
        PROVE  rq[q].panel # p
    <3>1. q # r
      BY <1>3, <2>3
    <3>2. rq'[q] = Cancelled(p)[q]
      BY <1>7, <3>1
    <3>3. Cancelled(p)[q].live /\ ~Ended(q)
      BY <2>3, <3>2, CancelledRequests DEF Listened, Ended
    <3> QED
      BY <3>3, CancelledRequests
  <2> QED
    BY <1>7, <2>1, <2>2, <2>3 DEF NewRequests
<1>9. Keeps(rq, rq') /\ \A q \in Reqs : Used(q) => rq'[q].pc # "unused"
  BY <1>8, RequestsKeep DEF GoesOn, Used
<1>10. NewWindow(p, new)
  <2>1. Sound(new.view, rq', OwnNumbers) /\ Below(new.view, new.seq)
    BY <1>5, <1>9, SoundStays DEF IInv, Views
  <2>2. new.seq # 0 => rq'[new.seq].pc # "unused"
    BY <1>2, <1>5, <1>9 DEF IInv, Numbers, PanelType
  <2>3. panel[p].seq <= new.seq
    BY <1>2, <1>5 DEF PanelType, Reqs
  <2> QED
    BY <1>5, <1>6, <2>1, <2>2, <2>3 DEF NewWindow
<1> QED
  BY <1>1, <1>2, <1>8, <1>10, SameRow, WindowStep

-----------------------------------------------------------------------------
(* The environment *)

LEMMA EvictInv ==
    ASSUME IInv, Evict
    PROVE  IInv'
<1>1. mem' = 0 /\ UNCHANGED <<scenario, heap, row, rq, panel>>
  BY DEF Evict
<1>2. Typed'
  BY <1>1 DEF IInv, Typed, Request, PanelType, Ended
<1>3. Numbers'
  BY <1>1 DEF IInv, Numbers, Used, OwnNumbers
<1>4. Objects' /\ Stored' /\ Carried' /\ Views'
  BY <1>1 DEF IInv, Objects, Stored, Carried, Views, OwnNumbers
<1>5. Resends' /\ Hands' /\ LockHeldByWorker' /\ Listening'
  BY <1>1 DEF IInv, Resends, Hands, LockHeldByWorker, Listening, Listened, Ended, OwnNumbers
<1> QED
  BY <1>2, <1>3, <1>4, <1>5 DEF IInv

(* A window after the restart: it has an error bubble more, or nothing left.  *)
AfterCrash(p) ==
    CASE panel[p].state = "streaming" ->
             [panel[p] EXCEPT !.state = "idle", !.view = Append(@, ErrorBubble)]
      [] panel[p].state = "resetting" -> [panel[p] EXCEPT !.state = "idle", !.view = <<>>]
      [] panel[p].state = "deleteRow" -> [panel[p] EXCEPT !.state = "resend"]
      [] panel[p].state \in {"closing", "closingEntry"} -> [panel[p] EXCEPT !.state = "closed"]
      [] OTHER -> panel[p]

LEMMA WindowAfterCrash ==
    ASSUME IInv, NEW p \in scenario.panels
    PROVE  /\ AfterCrash(p) \in PanelType /\ AfterCrash(p).seq = panel[p].seq /\ AfterCrash(p).resend = panel[p].resend
           /\ AfterCrash(p).state \in {"deleting", "deleteRow", "resend"} =>
                 /\ panel[p].state \in {"deleting", "deleteRow", "resend"}
                 /\ AfterCrash(p).view = panel[p].view
           /\ Sound(AfterCrash(p).view, rq, OwnNumbers) /\ Below(AfterCrash(p).view, panel[p].seq)
<1>1. panel[p] \in PanelType /\ Sound(panel[p].view, rq, OwnNumbers) /\ Below(panel[p].view, panel[p].seq)
      /\ panel[p].view \in Seq(Bubbles)
  BY DEF IInv, Typed, Views, Sound
<1>2. CASE panel[p].state = "streaming"
  <2> DEFINE view == Append(panel[p].view, ErrorBubble)
             new == [panel[p] EXCEPT !.state = "idle", !.view = view]
  <2>1. AfterCrash(p) = new
    BY <1>2 DEF AfterCrash
  <2>2. ErrorBubble \in Bubbles /\ ErrorBubble.role = "error"
    BY DEF Bubbles, ErrorBubble
  <2>3. view \in Seq(Bubbles) /\ \A i \in DOMAIN view : view[i] = ErrorBubble \/ (i \in DOMAIN panel[p].view /\ view[i] = panel[p].view[i])
    BY <1>1, <2>2
  <2>4. Sound(view, rq, OwnNumbers)
    BY <1>1, <2>2, SoundAppend
  <2>5. Below(view, panel[p].seq)
    BY <1>1, <2>2, <2>3 DEF Below
  <2> HIDE DEF view
  <2>6. /\ new \in PanelType /\ new.state = "idle" /\ new.view = view
        /\ new.seq = panel[p].seq /\ new.resend = panel[p].resend
    BY <1>1, <2>3 DEF PanelType
  <2> HIDE DEF new
  <2> QED
    BY <2>1, <2>4, <2>5, <2>6
<1>3. CASE panel[p].state = "resetting"
  <2> DEFINE new == [panel[p] EXCEPT !.state = "idle", !.view = <<>>]
  <2>1. AfterCrash(p) = new
    BY <1>3 DEF AfterCrash
  <2>2. <<>> \in Seq(Bubbles) /\ Sound(<<>>, rq, OwnNumbers) /\ Below(<<>>, panel[p].seq)
    BY EmptySound DEF Talk, Below
  <2>3. /\ new \in PanelType /\ new.state = "idle" /\ new.view = <<>>
        /\ new.seq = panel[p].seq /\ new.resend = panel[p].resend
    BY <1>1, <2>2 DEF PanelType
  <2> HIDE DEF new
  <2> QED
    BY <2>1, <2>2, <2>3
<1>4. CASE panel[p].state \notin {"streaming", "resetting"}
  <2>1. PICK st : /\ AfterCrash(p) = [panel[p] EXCEPT !.state = st]
                  /\ \/ st = panel[p].state
                     \/ st = "resend" /\ panel[p].state = "deleteRow"
                     \/ st = "closed"
    <3>1. panel[p] = [panel[p] EXCEPT !.state = panel[p].state]
      BY <1>1 DEF PanelType
    <3> QED
      BY <1>4, <3>1 DEF AfterCrash
  <2> DEFINE new == [panel[p] EXCEPT !.state = st]
  <2>2. /\ new \in PanelType /\ new.state = st /\ new.view = panel[p].view
        /\ new.seq = panel[p].seq /\ new.resend = panel[p].resend
    BY <1>1, <2>1 DEF PanelType
  <2>3. AfterCrash(p) = new
    BY <2>1
  <2> HIDE DEF new
  <2> QED
    BY <1>1, <2>1, <2>2, <2>3
<1> QED
  BY <1>2, <1>3, <1>4

LEMMA CrashInv ==
    ASSUME IInv, Crash
    PROVE  IInv'
<1>1. /\ mem' = 0 /\ heap' = <<>> /\ UNCHANGED <<scenario, row>>
      /\ rq' = [r \in Reqs |-> IF Ended(r) THEN rq[r] ELSE [rq[r] EXCEPT !.pc = "failed"]]
      /\ panel' = [p \in scenario.panels |-> AfterCrash(p)]
  BY DEF Crash, AfterCrash
<1>2. OwnNumbers' = OwnNumbers /\ Request' = Request /\ Len(heap') = 0 /\ DOMAIN heap' = {}
  BY <1>1 DEF OwnNumbers, Request
<1>3. ASSUME NEW r \in Reqs
      PROVE  /\ rq'[r] \in Request /\ rq'[r].pc \in {"unused", "done", "failed"} /\ Ended(r)'
             /\ rq'[r].id = rq[r].id /\ rq'[r].task = rq[r].task /\ rq'[r].history = rq[r].history
             /\ rq'[r].from = rq[r].from
             /\ Used(r)' <=> Used(r)
  <2>1. rq[r] \in Request
    BY DEF IInv, Typed
  <2>2. CASE Ended(r)
    <3>1. rq'[r] = rq[r]
      BY <1>1, <2>2
    <3> QED
      BY <2>1, <2>2, <3>1 DEF Ended, Used
  <2>3. CASE ~Ended(r)
    <3>1. rq'[r] = [rq[r] EXCEPT !.pc = "failed"]
      BY <1>1, <2>3
    <3> QED
      BY <2>1, <2>3, <3>1 DEF Ended, Used, Request
  <2> QED
    BY <2>2, <2>3
<1>4. ASSUME NEW p \in scenario.panels
      PROVE  /\ panel'[p] \in PanelType /\ panel'[p].seq = panel[p].seq /\ panel'[p].resend = panel[p].resend
             /\ panel'[p].state \in {"deleting", "deleteRow", "resend"} =>
                   panel[p].state \in {"deleting", "deleteRow", "resend"} /\ panel'[p].view = panel[p].view
             /\ Sound(panel'[p].view, rq, OwnNumbers) /\ Below(panel'[p].view, panel[p].seq)
  BY <1>1, WindowAfterCrash
<1>5. Keeps(rq, rq')
  BY <1>3 DEF Keeps
<1>6. Typed'
  <2>1. rq' \in [Reqs -> Request]
    BY <1>1, <1>3
  <2>2. panel' \in [scenario.panels -> PanelType]
    BY <1>1, <1>4
  <2>3. heap' \in Seq([messages : Seq(Message), lock : Reqs \cup {0}]) /\ mem' \in 0 .. Len(heap')
    BY <1>1, <1>2
  <2> QED
    BY <1>1, <1>2, <1>3, <2>1, <2>2, <2>3 DEF IInv, Typed
<1>7. Numbers'
  <2>1. \A r \in Reqs : rq'[r].pc \notin Chatting
    BY <1>3 DEF Chatting
  <2>2. \A r \in Reqs : rq[r].id \in Reqs \cup {0}
    BY DEF IInv, Typed, Request
  <2>3. \A p \in scenario.panels : panel[p].seq \in Reqs \cup {0}
    BY DEF IInv, Typed, PanelType
  <2>4. \A r \in Reqs : rq'[r].pc # "unused" <=> rq[r].pc # "unused"
    BY <1>3 DEF Used
  <2>5. Numbers
    BY DEF IInv
  <2>6. \A r, q \in Reqs : q < r /\ rq'[r].pc # "unused" => rq'[q].pc # "unused"
    BY <2>4, <2>5 DEF Numbers, Used
  <2>7. ASSUME NEW r \in Reqs, rq'[r].id # 0
        PROVE  rq'[r].task # 0 /\ rq'[r].pc # "unused" /\ rq'[rq'[r].id].pc # "unused"
    <3>1. rq[r].id # 0 /\ rq[r].id \in Reqs /\ rq'[r].id = rq[r].id /\ rq'[r].task = rq[r].task
      BY <1>3, <2>2, <2>7
    <3>2. rq[r].task # 0 /\ rq[r].pc # "unused" /\ rq[rq[r].id].pc # "unused"
      BY <2>5, <3>1 DEF Numbers, Used
    <3> QED
      BY <2>4, <3>1, <3>2
  <2>8. ASSUME NEW p \in scenario.panels, panel'[p].seq # 0
        PROVE  rq'[panel'[p].seq].pc # "unused"
    <3>1. panel'[p].seq = panel[p].seq /\ panel[p].seq \in Reqs
      BY <1>4, <2>3, <2>8
    <3> QED
      BY <2>4, <2>5, <2>8, <3>1 DEF Numbers, Used
  <2>9. OwnNumbers =>
          /\ \A p \in scenario.panels : \A r \in Reqs : rq'[r].id <= panel'[p].seq
          /\ \A r, q \in Reqs : rq'[r].id # 0 /\ rq'[r].id = rq'[q].id => rq'[r].task = rq'[q].task
    <3>1. SUFFICES ASSUME OwnNumbers
                   PROVE  /\ \A p \in scenario.panels : \A r \in Reqs : rq[r].id <= panel[p].seq
                          /\ \A r, q \in Reqs : rq[r].id # 0 /\ rq[r].id = rq[q].id => rq[r].task = rq[q].task
      BY <1>3, <1>4
    <3> QED
      BY <2>5, <3>1 DEF Numbers
  <2> QED
    BY <1>1, <1>2, <2>1, <2>6, <2>7, <2>8, <2>9 DEF Numbers, Used
<1>8. Objects' /\ Stored' /\ Carried' /\ Views'
  <2>1. Objects'
    BY <1>2 DEF Objects
  <2>2. Stored'
    BY <1>1, <1>2, <1>5, SoundStays DEF IInv, Stored
  <2>3. Carried'
    BY <1>2, <1>3, <1>5, SoundStays DEF IInv, Carried
  <2>4. Views'
    BY <1>1, <1>2, <1>4, <1>5, SoundStays DEF IInv, Views
  <2> QED
    BY <2>1, <2>2, <2>3, <2>4
<1>9. Resends'
  <2>1. \A m : Asked(m, rq) => Asked(m, rq')
    BY <1>3 DEF Asked
  <2>2. Resends
    BY DEF IInv
  <2>3. ASSUME NEW p \in scenario.panels, panel'[p].state \in {"deleting", "deleteRow", "resend"}
        PROVE  LET m == panel'[p].resend[1]
               IN  /\ m \in Message /\ m.role = "user" /\ m.id <= panel'[p].seq /\ Asked(m, rq)
                   /\ \A i \in DOMAIN panel'[p].view : panel'[p].view[i].role = "user" => panel'[p].view[i].id # m.id
    BY <1>4, <2>2, <2>3 DEF Resends
  <2> QED
    BY <1>1, <2>1, <2>3 DEF Resends
<1>10. Hands' /\ LockHeldByWorker' /\ Listening'
  BY <1>2, <1>3 DEF Hands, LockHeldByWorker, Listening, Listened
<1> QED
  BY <1>6, <1>7, <1>8, <1>9, <1>10 DEF IInv

-----------------------------------------------------------------------------
LEMMA NextInv == IInv /\ [Next]_vars => IInv'
<1> SUFFICES ASSUME IInv, [Next]_vars
             PROVE  IInv'
  OBVIOUS
<1>1. ASSUME NEW r \in Reqs, ChatStep(r)
      PROVE  IInv'
  BY <1>1, GettingInv, RestoreInv, BuildInv, SaveNewInv, GetAgainInv, LockSessionInv, ModelAnswersInv,
     ModelFailsInv, SaveChatInv, ReplyInv DEF ChatStep
<1>2. ASSUME NEW r \in Reqs, ResetStep(r)
      PROVE  IInv'
  BY <1>2, GettingInv, ResetLockedInv, ResettingInv DEF ResetStep
<1>3. ASSUME NEW p \in scenario.panels, PanelStep(p) \/ UserMove(p)
      PROVE  IInv'
  BY <1>3, WindowMovesInv, SendInv, ResendInv, ResetInv, RetryInv, ReloadInv DEF UserMove
<1>4. CASE UNCHANGED vars
  <2>1. UNCHANGED <<scenario, heap, mem, row, rq, panel>>
    BY <1>4 DEF vars
  <2>2. Typed' /\ Numbers'
    BY <2>1 DEF IInv, Typed, Request, PanelType, Ended, Numbers, Used, OwnNumbers
  <2>3. Objects' /\ Stored' /\ Carried' /\ Views'
    BY <2>1 DEF IInv, Objects, Stored, Carried, Views, OwnNumbers
  <2>4. Resends' /\ Hands' /\ LockHeldByWorker' /\ Listening'
    BY <2>1 DEF IInv, Resends, Hands, LockHeldByWorker, Listening, Listened, Ended, OwnNumbers
  <2> QED
    BY <2>2, <2>3, <2>4 DEF IInv
<1> QED
  BY <1>1, <1>2, <1>3, <1>4, EvictInv, CrashInv DEF Next

LEMMA OnceInTalk ==
    ASSUME NEW q, NEW own, NEW s, Talk(s, q, own), NEW id
    PROVE  Cardinality(WithMsgID(s, id)) <= 1
<1> DEFINE W == WithMsgID(s, id)
<1>1. \A i, j \in W : i = j
  BY DEF WithMsgID, Indices, Talk, Sound, Distinct
<1>2. W = {} \/ \E x : W = {x}
  BY <1>1
<1>3. Cardinality(W) = 0 \/ Cardinality(W) = 1
  BY <1>2, FS_EmptySet, FS_Singleton
<1> QED
  BY <1>3

LEMMA Elements ==
    ASSUME NEW S, NEW s \in Seq(S)
    PROVE  Range(s) \subseteq S
BY DEF Range

LEMMA SoundFromInv == IInv => SessionSound
<1> SUFFICES ASSUME IInv
             PROVE  SessionSound
  OBVIOUS
<1>1. TypeOK
  <2>1. ASSUME NEW o \in DOMAIN heap
        PROVE  heap[o].lock \in Reqs \cup {0} /\ Range(heap[o].messages) \subseteq Message
    <3>1. heap \in Seq(Objs)
      BY DEF IInv, Typed, Objs
    <3>2. heap[o] \in Objs
      BY <3>1
    <3> QED
      BY <3>2, Elements DEF Objs
  <2>2. mem \in 0 .. Len(heap) /\ \A r \in Reqs : ~Ended(r) => rq[r].obj \in 0 .. Len(heap)
    BY DEF IInv, Typed
  <2>3. row.stored \in BOOLEAN /\ Range(row.messages) \subseteq Message
    BY Elements DEF IInv, Typed
  <2>4. \A p \in scenario.panels : Range(panel[p].view) \subseteq Message \cup {ErrorBubble}
    BY Elements DEF IInv, Views, Sound, Bubbles
  <2> QED
    BY <2>1, <2>2, <2>3, <2>4 DEF TypeOK
<1>2. MsgOnce
  BY OnceInTalk DEF IInv, Stored, Objects, MsgOnce
<1>3. AnswersTheQuestion
  <2>1. SUFFICES ASSUME OwnNumbers, NEW p \in scenario.panels, NEW j \in DOMAIN panel[p].view,
                        panel[p].view[j].role = "assistant"
                 PROVE  /\ j > 1 /\ panel[p].view[j - 1].role = "user"
                        /\ panel[p].view[j].task = panel[p].view[j - 1].task
    BY DEF AnswersTheQuestion
  <2>2. /\ j - 1 \in DOMAIN panel[p].view /\ panel[p].view[j - 1].role = "user"
        /\ panel[p].view[j].task = panel[p].view[j - 1].task /\ panel[p].view \in Seq(Bubbles)
    BY <2>1 DEF IInv, Views, Sound, Paired
  <2>3. j > 1
    BY <2>1, <2>2
  <2> QED
    BY <2>2, <2>3
<1> QED
  BY <1>1, <1>2, <1>3 DEF SessionSound, IInv

(* For every number of requests, every set of windows and every combination   *)
(* of faults: a msg_id occurs once in the conversation, in every object the   *)
(* session ever had and in the stored row; the lock of an object is held by a *)
(* chat at work on it; and a window whose numbers are its own shows under a   *)
(* message only an answer to it (aiChat, restoreSession, retrySend).          *)
THEOREM SessionIsSound == Spec => []SessionSound
<1>1. Init => IInv
  BY InitInv
<1>2. IInv /\ [Next]_vars => IInv'
  BY NextInv
<1>3. IInv => SessionSound
  BY SoundFromInv
<1> QED
  BY <1>1, <1>2, <1>3, PTL DEF Spec
-----------------------------------------------------------------------------
(* The answers of a conversation, and the messages under a msg_id             *)

LEMMA AnswersIn ==
    ASSUME NEW s
    PROVE  \A m : m \in AnswersOf(s) <=> \E i \in DOMAIN s : s[i] = m /\ s[i].role = "assistant"
BY DEF AnswersOf, Indices

LEMMA NoneUnder ==
    ASSUME NEW s, NEW id
    PROVE  WithMsgID(s, id) = {} <=> \A i \in DOMAIN s : ~(s[i].role = "user" /\ s[i].id = id)
BY DEF WithMsgID, Indices

LEMMA NoMessages == AnswersOf(<<>>) = {} /\ \A id : WithMsgID(<<>>, id) = {}
BY DEF AnswersOf, Indices, WithMsgID

LEMMA AnswersAppended ==
    ASSUME NEW S, NEW s \in Seq(S), NEW m \in S
    PROVE  /\ m.role # "assistant" => AnswersOf(Append(s, m)) = AnswersOf(s)
           /\ m.role = "assistant" => AnswersOf(Append(s, m)) = AnswersOf(s) \cup {m}
           /\ \A id : WithMsgID(s, id) = {} /\ ~(m.role = "user" /\ m.id = id) => WithMsgID(Append(s, m), id) = {}
<1> DEFINE t == Append(s, m)
<1>1. /\ Len(s) \in Nat /\ DOMAIN s = 1 .. Len(s) /\ DOMAIN t = 1 .. Len(s) + 1
      /\ t[Len(s) + 1] = m /\ \A i \in DOMAIN s : t[i] = s[i]
  OBVIOUS
<1>2. DOMAIN t = DOMAIN s \cup {Len(s) + 1} /\ Len(s) + 1 \notin DOMAIN s
  BY <1>1
<1> HIDE DEF t
<1>3. \A x : x \in AnswersOf(t) <=> x \in AnswersOf(s) \/ (x = m /\ m.role = "assistant")
  BY <1>1, <1>2, AnswersIn
<1>4. \A id : WithMsgID(s, id) = {} /\ ~(m.role = "user" /\ m.id = id) => WithMsgID(t, id) = {}
  BY <1>1, <1>2, NoneUnder
<1> QED
  BY <1>3, <1>4 DEF t

LEMMA AnswersOfHead ==
    ASSUME NEW S, NEW s \in Seq(S), NEW n \in 0 .. Len(s)
    PROVE  /\ AnswersOf(SubSeq(s, 1, n)) \subseteq AnswersOf(s)
           /\ \A id : WithMsgID(s, id) = {} => WithMsgID(SubSeq(s, 1, n), id) = {}
<1> DEFINE t == SubSeq(s, 1, n)
<1>1. /\ Len(s) \in Nat /\ DOMAIN s = 1 .. Len(s) /\ n \in Nat
      /\ \A i \in 1 .. n : i \in DOMAIN s /\ s[i] \in S
  OBVIOUS
<1>2. Len(t) = n /\ t \in Seq(S) /\ \A i \in 1 .. n : t[i] = s[i]
  BY <1>1, SubSeqProperties
<1>3. DOMAIN t = 1 .. n
  BY <1>2
<1> HIDE DEF t
<1>4. \A x : x \in AnswersOf(t) => x \in AnswersOf(s)
  BY <1>1, <1>2, <1>3, AnswersIn
<1>5. \A id : WithMsgID(s, id) = {} => WithMsgID(t, id) = {}
  BY <1>1, <1>2, <1>3, NoneUnder
<1> QED
  BY <1>4, <1>5 DEF t

(* What is left when the unanswered question at the end is taken away.        *)
LEMMA WithoutQuestion ==
    ASSUME NEW S, NEW s \in Seq(S), EndsWithUser(s)
    PROVE  /\ Front(s) \in Seq(S) /\ Len(Front(s)) = Len(s) - 1
           /\ \A i \in 1 .. Len(s) - 1 : Front(s)[i] = s[i]
           /\ AnswersOf(Front(s)) = AnswersOf(s)
           /\ \A id : WithMsgID(s, id) = {} => WithMsgID(Front(s), id) = {}
<1> DEFINE t == Front(s)
<1>1. /\ Len(s) \in Nat \ {0} /\ DOMAIN s = 1 .. Len(s) /\ s[Len(s)].role = "user"
      /\ \A i \in 1 .. Len(s) - 1 : i \in DOMAIN s /\ s[i] \in S
  BY DEF EndsWithUser, Last
<1>2. t = SubSeq(s, 1, Len(s) - 1) /\ Len(s) - 1 \in 0 .. Len(s)
  BY <1>1 DEF Front
<1>3. Len(t) = Len(s) - 1 /\ t \in Seq(S) /\ \A i \in 1 .. Len(s) - 1 : t[i] = s[i]
  BY <1>1, <1>2, SubSeqProperties
<1>4. DOMAIN t = 1 .. Len(s) - 1
  BY <1>3
<1>5. AnswersOf(t) \subseteq AnswersOf(s) /\ \A id : WithMsgID(s, id) = {} => WithMsgID(t, id) = {}
  BY <1>2, AnswersOfHead
<1> HIDE DEF t
<1>6. ASSUME NEW x, x \in AnswersOf(s)
      PROVE  x \in AnswersOf(t)
  <2>1. PICK i \in DOMAIN s : s[i] = x /\ s[i].role = "assistant"
    BY <1>6, AnswersIn
  <2>2. i \in 1 .. Len(s) - 1
    BY <1>1, <2>1
  <2> QED
    BY <1>3, <1>4, <2>1, <2>2, AnswersIn
<1> QED
  BY <1>3, <1>5, <1>6 DEF t

(* Where only questions and bubbles are left out, all answers stay.           *)
LEMMA AnswersKept ==
    ASSUME NEW S, NEW s \in Seq(S), NEW at \in SUBSET DOMAIN s
    PROVE  /\ AnswersOf(Keep(s, at)) \subseteq AnswersOf(s)
           /\ (\A i \in DOMAIN s : s[i].role = "assistant" => i \in at) => AnswersOf(Keep(s, at)) = AnswersOf(s)
           /\ \A id : WithMsgID(s, id) = {} => WithMsgID(Keep(s, at), id) = {}
<1> DEFINE t == Keep(s, at)
<1>1. Len(s) \in Nat /\ at \in SUBSET (1 .. Len(s)) /\ DOMAIN s = 1 .. Len(s)
  OBVIOUS
<1>2. /\ DOMAIN t = 1 .. Cardinality(at)
      /\ \A k \in DOMAIN t : Position(at, k) \in at /\ Rank(at, Position(at, k)) = k /\ t[k] = s[Position(at, k)]
  BY Kept
<1>3. /\ \A i \in at : Rank(at, i) \in 1 .. Cardinality(at)
      /\ \A i, j \in at : i < j => Rank(at, i) < Rank(at, j)
      /\ Cardinality(at) \in Nat
  BY <1>1, Ranks
<1> HIDE DEF t
<1>4. \A k \in DOMAIN t : \E i \in DOMAIN s : t[k] = s[i]
  BY <1>2
<1>5. ASSUME NEW i \in at
      PROVE  \E k \in DOMAIN t : t[k] = s[i]
  <2> DEFINE k == Rank(at, i)
             j == Position(at, k)
  <2>1. k \in DOMAIN t /\ k \in Nat
    BY <1>2, <1>3
  <2>2. j \in at /\ Rank(at, j) = k /\ t[k] = s[j]
    BY <1>2, <2>1
  <2>3. i \in Nat /\ j \in Nat
    BY <1>1, <2>2
  <2>4. ~(i < j) /\ ~(j < i)
    BY <1>3, <2>1, <2>2
  <2>5. i = j
    BY <2>3, <2>4
  <2> QED
    BY <2>1, <2>2, <2>5
<1>6. AnswersOf(t) \subseteq AnswersOf(s)
  BY <1>4, AnswersIn
<1>7. ASSUME \A i \in DOMAIN s : s[i].role = "assistant" => i \in at
      PROVE  AnswersOf(s) \subseteq AnswersOf(t)
  <2>1. SUFFICES ASSUME NEW x, x \in AnswersOf(s)
                 PROVE  x \in AnswersOf(t)
    OBVIOUS
  <2>2. PICK i \in DOMAIN s : s[i] = x /\ s[i].role = "assistant"
    BY <2>1, AnswersIn
  <2>3. PICK k \in DOMAIN t : t[k] = s[i]
    BY <1>5, <1>7, <2>2
  <2> QED
    BY <2>2, <2>3, AnswersIn
<1>8. \A id : WithMsgID(s, id) = {} => WithMsgID(t, id) = {}
  BY <1>4, NoneUnder
<1> QED
  BY <1>6, <1>7, <1>8 DEF t

LEMMA DedupeKeeps ==
    ASSUME NEW S, NEW s \in Seq(S)
    PROVE  /\ AnswersOf(DedupeConsecutiveUser(s)) = AnswersOf(s)
           /\ \A id : WithMsgID(s, id) = {} => WithMsgID(DedupeConsecutiveUser(s), id) = {}
<1> DEFINE at == {i \in DOMAIN s : i = Len(s) \/ ~SameUserText(s[i], s[i + 1])}
<1>1. DedupeConsecutiveUser(s) = Keep(s, at)
  BY Zenon DEF DedupeConsecutiveUser
<1>2. at \in SUBSET DOMAIN s /\ \A i \in DOMAIN s : s[i].role = "assistant" => i \in at
  BY DEF SameUserText
<1> HIDE DEF at
<1> QED
  BY <1>1, <1>2, AnswersKept

LEMMA ShownKeeps ==
    ASSUME NEW S, NEW s \in Seq(S)
    PROVE  /\ AnswersOf(Shown(s)) = AnswersOf(s)
           /\ \A id : WithMsgID(s, id) = {} => WithMsgID(Shown(s), id) = {}
<1> DEFINE at == {i \in DOMAIN s : s[i].role # "error"}
<1>1. Shown(s) = Keep(s, at)
  BY DEF Shown, Indices
<1>2. at \in SUBSET DOMAIN s /\ \A i \in DOMAIN s : s[i].role = "assistant" => i \in at
  OBVIOUS
<1> HIDE DEF at
<1> QED
  BY <1>1, <1>2, AnswersKept

-----------------------------------------------------------------------------
(* No round is lost, where the one object of the session stays: nothing drops *)
(* it, and it is emptied only by the one window there is, whose cancelled     *)
(* requests do not finish.                                                    *)
Steady(s) ==
    /\ s.faults \cap {"save", "crash", "evict"} = {}
    /\ s.moves \subseteq {"stop", "reset", "reload"}
    /\ "reset" \in s.moves => Cardinality(s.panels) = 1 /\ "late" \notin s.faults

Log == heap[1].messages
Nobody(pc) == \A r \in Reqs : rq[r].pc # pc

Rounds(s) == \A i \in DOMAIN s : s[i].role = "user" /\ i # Len(s) => s[i + 1].role = "assistant"

OneObject ==
    /\ mem = 1 /\ DOMAIN heap = {1}
    /\ \A r \in Reqs : rq[r].pc \in {"lock", "model", "save", "resetLock", "resetSave"} => rq[r].obj = 1

SteadyPcs ==
    \A r \in Reqs : ~Ended(r) =>
        /\ rq[r].pc \in {"get", "lock", "model", "save", "reply", "resetGet", "resetLock", "resetSave"}
        /\ rq[r].pc \in {"resetGet", "resetLock", "resetSave"} => rq[r].live /\ "reset" \in scenario.moves

(* What the object holds and the row does not is about to be saved.           *)
RowBehind ==
    \A m \in AnswersOf(Log) :
        m \in AnswersOf(row.messages) \/ \E r \in Reqs : rq[r].pc = "save" /\ rq[r].answer = m
SavesKept == \A r \in Reqs : rq[r].pc = "save" => rq[r].answer \in AnswersOf(Log)

(* What the row holds and the object does not is about to be removed.         *)
RowAhead == Nobody("resetSave") => AnswersOf(row.messages) \subseteq AnswersOf(Log)
ResetClears == ~Nobody("resetSave") => AnswersOf(Log) = {} /\ Nobody("save")

RepliesKept ==
    \A r \in Reqs : rq[r].pc = "reply" /\ rq[r].live => rq[r].answer \in AnswersOf(row.messages)

WindowsKept ==
    \A p \in scenario.panels :
        /\ panel[p].state \in {"idle", "streaming", "resetting"}
        /\ panel[p].state = "streaming" => panel[p].view # <<>>
        /\ panel[p].state # "resetting" => AnswersOf(panel[p].view) \subseteq AnswersOf(row.messages)

(* An emptied window has nothing behind it.                                   *)
EmptyForgot ==
    Undisturbed => \A p \in scenario.panels : Emptied(p) =>
        AnswersOf(row.messages) = {} /\ AnswersOf(Log) = {} /\ Nobody("save")

SteadyInv ==
    /\ OneObject /\ SteadyPcs /\ Rounds(Log) /\ RowBehind /\ SavesKept /\ RowAhead
    /\ ResetClears /\ RepliesKept /\ WindowsKept /\ EmptyForgot

LEMMA OneWindow ==
    ASSUME Typed, Cardinality(scenario.panels) = 1
    PROVE  \A p, q \in scenario.panels : p = q
<1>1. IsFiniteSet(scenario.panels)
  BY AISessionAssumption DEF Typed
<1>2. \E x : scenario.panels = {x}
  BY <1>1, FS_Singleton
<1> QED
  BY <1>2

(* While a reset is on its way, its window waits for nothing else.            *)
LEMMA ResetAlone ==
    ASSUME IInv, Steady(scenario), SteadyInv,
           NEW r \in Reqs, rq[r].pc \in {"resetGet", "resetLock", "resetSave"}
    PROVE  /\ rq[r].live /\ "late" \notin scenario.faults
           /\ \A q \in Reqs : Listened(q) => q = r
           /\ \A p \in scenario.panels : p = rq[r].panel /\ panel[p].state = "resetting"
<1>1. ~Ended(r) /\ rq[r].live /\ "reset" \in scenario.moves
  BY DEF Ended, SteadyInv, SteadyPcs
<1>2. Cardinality(scenario.panels) = 1 /\ "late" \notin scenario.faults
  BY <1>1 DEF Steady
<1>3. \A p, q \in scenario.panels : p = q
  BY <1>2, OneWindow DEF IInv
<1>4. rq[r].panel \in scenario.panels /\ panel[rq[r].panel].state = "resetting"
  BY <1>1 DEF IInv, Listening, Listened, Resetting
<1>5. \A q \in Reqs : Listened(q) => q = r
  BY <1>1, <1>3 DEF IInv, Listening, Listened
<1> QED
  BY <1>1, <1>2, <1>3, <1>4, <1>5

LEMMA SteadyInit ==
    ASSUME Init, Steady(scenario)
    PROVE  SteadyInv
<1>1. mem = 1 /\ DOMAIN heap = {1} /\ heap[1].messages = <<>> /\ row.messages = <<>>
  BY DEF Init, Row
<1>2. \A r \in Reqs : rq[r].pc = "unused"
  BY DEF Init, Unused
<1>3. \A p \in scenario.panels : panel[p].state = "idle" /\ panel[p].view = <<>>
  BY DEF Init
<1>4. OneObject /\ SteadyPcs /\ Rounds(Log)
  BY <1>1, <1>2 DEF OneObject, SteadyPcs, Ended, Rounds, Log
<1>5. AnswersOf(Log) = {} /\ AnswersOf(row.messages) = {}
  BY <1>1, NoMessages DEF Log
<1> QED
  BY <1>2, <1>3, <1>4, <1>5, NoMessages DEF SteadyInv, RowBehind, SavesKept, RowAhead, ResetClears, RepliesKept,
     WindowsKept, EmptyForgot, Nobody

LEMMA RoundsAppended ==
    ASSUME NEW S, NEW s \in Seq(S), NEW m \in S, Rounds(s), EndsWithUser(s) => m.role = "assistant"
    PROVE  Rounds(Append(s, m))
<1> DEFINE t == Append(s, m)
<1>1. /\ Len(s) \in Nat /\ DOMAIN s = 1 .. Len(s) /\ DOMAIN t = 1 .. Len(s) + 1 /\ Len(t) = Len(s) + 1
      /\ t[Len(s) + 1] = m /\ \A i \in DOMAIN s : t[i] = s[i]
  OBVIOUS
<1>2. \A i \in DOMAIN s : i = Len(s) /\ s[i].role = "user" => m.role = "assistant"
  BY <1>1 DEF EndsWithUser, Last
<1> HIDE DEF t
<1>3. ASSUME NEW i \in DOMAIN t, t[i].role = "user", i # Len(t)
      PROVE  t[i + 1].role = "assistant"
  <2>1. i \in DOMAIN s /\ t[i] = s[i]
    BY <1>1, <1>3
  <2>2. CASE i = Len(s)
    BY <1>1, <1>2, <1>3, <2>1, <2>2
  <2>3. CASE i # Len(s)
    <3>1. i + 1 \in DOMAIN s /\ s[i + 1].role = "assistant"
      BY <1>1, <1>3, <2>1, <2>3 DEF Rounds
    <3> QED
      BY <1>1, <3>1
  <2> QED
    BY <2>2, <2>3
<1> QED
  BY <1>3 DEF Rounds, t

LEMMA RoundsWithout ==
    ASSUME NEW S, NEW s \in Seq(S), Rounds(s), EndsWithUser(s)
    PROVE  Rounds(Front(s)) /\ ~EndsWithUser(Front(s))
<1> DEFINE t == Front(s)
<1>1. /\ Len(s) \in Nat \ {0} /\ DOMAIN s = 1 .. Len(s) /\ s[Len(s)].role = "user"
  BY DEF EndsWithUser, Last
<1>2. t \in Seq(S) /\ Len(t) = Len(s) - 1 /\ \A i \in 1 .. Len(s) - 1 : t[i] = s[i]
  BY WithoutQuestion
<1>3. DOMAIN t = 1 .. Len(s) - 1
  BY <1>2
<1> HIDE DEF t
<1>4. \A i \in DOMAIN t : t[i].role = "user" => s[i + 1].role = "assistant" /\ i + 1 # Len(s)
  BY <1>1, <1>2, <1>3 DEF Rounds
<1>5. Rounds(t)
  <2>1. SUFFICES ASSUME NEW i \in DOMAIN t, t[i].role = "user", i # Len(t)
                 PROVE  t[i + 1].role = "assistant"
    BY DEF Rounds
  <2>2. i + 1 \in 1 .. Len(s) - 1
    BY <1>1, <1>2, <1>3, <2>1
  <2> QED
    BY <1>2, <1>4, <2>1, <2>2
<1>6. ~EndsWithUser(t)
  <2>1. SUFFICES ASSUME t # <<>>, t[Len(t)].role = "user"
                 PROVE  FALSE
    BY DEF EndsWithUser, Last
  <2>2. Len(t) \in DOMAIN t
    BY <1>1, <1>2, <1>3, <2>1
  <2> QED
    BY <1>1, <1>2, <1>4, <2>1, <2>2
<1> QED
  BY <1>5, <1>6 DEF t

(* A request moves to another point of its handler.                           *)
Proceeds(r, pc) ==
    /\ \A q \in Reqs : q # r => rq'[q] = rq[q]
    /\ rq'[r].pc = pc
    /\ rq'[r].live = rq[r].live /\ rq'[r].panel = rq[r].panel /\ rq'[r].id = rq[r].id
    /\ rq'[r].history = rq[r].history

LEMMA Proceeded ==
    ASSUME Typed, NEW r \in Reqs, NEW pc, Goto(r, pc)
    PROVE  Proceeds(r, pc) /\ rq'[r].obj = rq[r].obj /\ rq'[r].answer = rq[r].answer /\ rq'[r].from = rq[r].from
BY DEF Typed, Request, Goto, Proceeds

LEMMA ProceededWith ==
    ASSUME Typed, NEW r \in Reqs, NEW pc, NEW o, rq' = [rq EXCEPT ![r].pc = pc, ![r].obj = o]
    PROVE  Proceeds(r, pc) /\ rq'[r].obj = o /\ rq'[r].answer = rq[r].answer /\ rq'[r].from = rq[r].from
BY DEF Typed, Request, Proceeds

LEMMA ProceededAnswering ==
    ASSUME Typed, NEW r \in Reqs, NEW pc, NEW a, rq' = [rq EXCEPT ![r].pc = pc, ![r].answer = a]
    PROVE  Proceeds(r, pc) /\ rq'[r].answer = a /\ rq'[r].obj = rq[r].obj
BY DEF Typed, Request, Proceeds

(* A step that neither adds to the object nor empties it, nor saves.          *)
LEMMA SteadyQuietly ==
    ASSUME IInv, Steady(scenario), SteadyInv, NEW r \in Reqs, NEW pc, Proceeds(r, pc), UNCHANGED <<scenario, mem, row>>,
           rq[r].pc \notin {"save", "resetSave"}, pc \notin {"save", "resetSave"}, ~Ended(r),
           DOMAIN heap' = {1}, Rounds(Log'), AnswersOf(Log') = AnswersOf(Log),
           pc \in {"done", "failed", "lock", "model", "reply", "resetLock"},
           pc = "resetLock" => rq[r].pc = "resetGet",
           pc \in {"lock", "model", "resetLock"} => rq'[r].obj = 1,
           pc = "reply" => rq'[r].answer \in AnswersOf(row.messages),
           \A p \in scenario.panels :
               \/ panel'[p] = panel[p]
               \/ /\ panel'[p].state = "idle" /\ panel'[p].view # <<>>
                  /\ AnswersOf(panel'[p].view) \subseteq AnswersOf(row.messages)
    PROVE  SteadyInv'
<1>1. /\ scenario' = scenario /\ mem' = mem /\ row' = row /\ \A q \in Reqs : q # r => rq'[q] = rq[q]
      /\ rq'[r].pc = pc /\ rq'[r].live = rq[r].live
  BY DEF Proceeds
<1>2. /\ \A q \in Reqs : rq'[q].pc = "save" <=> rq[q].pc = "save"
      /\ \A q \in Reqs : rq'[q].pc = "resetSave" <=> rq[q].pc = "resetSave"
      /\ \A q \in Reqs : rq[q].pc = "save" => rq'[q].answer = rq[q].answer
  BY <1>1
<1>3. Nobody("save")' = Nobody("save") /\ Nobody("resetSave")' = Nobody("resetSave")
  BY <1>2 DEF Nobody
<1>4. OneObject'
  BY <1>1 DEF SteadyInv, OneObject
<1>5. SteadyPcs'
  BY <1>1 DEF SteadyInv, SteadyPcs, Ended
<1>6. RowBehind' /\ SavesKept'
  BY <1>1, <1>2 DEF SteadyInv, RowBehind, SavesKept
<1>7. RowAhead' /\ ResetClears'
  BY <1>1, <1>3 DEF SteadyInv, RowAhead, ResetClears
<1>8. RepliesKept'
  BY <1>1 DEF SteadyInv, RepliesKept
<1>9. WindowsKept'
  BY <1>1 DEF SteadyInv, WindowsKept
<1>10. EmptyForgot'
  <2>1. \A p \in scenario.panels : Emptied(p)' => Emptied(p)
    BY <1>1 DEF Emptied
  <2> QED
    BY <1>1, <1>3, <2>1 DEF SteadyInv, EmptyForgot, Undisturbed
<1> QED
  BY <1>4, <1>5, <1>6, <1>7, <1>8, <1>9, <1>10 DEF SteadyInv

(* What a window shows after its request has ended.                           *)
LEMMA SteadyDelivered ==
    ASSUME IInv, SteadyInv, NEW r \in Reqs, rq[r].pc \in Chatting, NEW msg \in Bubbles, panel' = Deliver(r, msg),
           msg.role = "assistant" /\ rq[r].live => msg \in AnswersOf(row.messages)
    PROVE  \A p \in scenario.panels :
               \/ panel'[p] = panel[p]
               \/ /\ panel'[p].state = "idle" /\ panel'[p].view # <<>>
                  /\ AnswersOf(panel'[p].view) \subseteq AnswersOf(row.messages)
<1>1. ~Ended(r)
  BY DEF Ended, Chatting
<1>2. \A p \in scenario.panels :
         IF rq[r].live /\ p = rq[r].panel
         THEN panel'[p].state = "idle" /\ panel'[p].view = Append(panel[p].view, msg)
         ELSE panel'[p] = panel[p]
  BY <1>1, Delivered DEF IInv
<1>3. ASSUME NEW p \in scenario.panels, rq[r].live, p = rq[r].panel
      PROVE  /\ Append(panel[p].view, msg) # <<>>
             /\ AnswersOf(Append(panel[p].view, msg)) \subseteq AnswersOf(row.messages)
  <2>1. panel[p].state = "streaming"
    BY <1>1, <1>3 DEF IInv, Listening, Listened
  <2>2. AnswersOf(panel[p].view) \subseteq AnswersOf(row.messages)
    BY <2>1 DEF SteadyInv, WindowsKept
  <2>3. panel[p].view \in Seq(Bubbles)
    BY DEF IInv, Typed, PanelType
  <2> QED
    BY <1>3, <2>2, <2>3, AnswersAppended, LastAppended
<1> QED
  BY <1>2, <1>3

LEMMA SteadyGetting ==
    ASSUME IInv, Steady(scenario), SteadyInv, NEW r \in Reqs, GetSession(r) \/ ResetGet(r)
    PROVE  SteadyInv'
<1>1. mem = 1 /\ DOMAIN heap = {1}
  BY DEF SteadyInv, OneObject
<1>2. PICK pc \in {"lock", "resetLock"} :
         /\ rq' = [rq EXCEPT ![r].pc = pc, ![r].obj = 1]
         /\ rq[r].pc \in {"get", "resetGet"} /\ (pc = "resetLock" => rq[r].pc = "resetGet")
  BY <1>1 DEF GetSession, ResetGet
<1>3. UNCHANGED <<scenario, heap, mem, row, panel>> /\ ~Ended(r)
  BY <1>2 DEF GetSession, ResetGet, Ended
<1>4. Typed
  BY DEF IInv
<1>5. Proceeds(r, pc) /\ rq'[r].obj = 1
  BY Zenon, <1>2, <1>4, ProceededWith
<1> QED
  BY <1>1, <1>2, <1>3, <1>5, SteadyQuietly DEF SteadyInv, Log

LEMMA SteadyReplying ==
    ASSUME IInv, Steady(scenario), SteadyInv, NEW r \in Reqs, Reply(r) \/ LoseReply(r)
    PROVE  SteadyInv'
<1>1. PICK pc \in {"done", "failed"}, msg \in {rq[r].answer, ErrorBubble} : Finish(r, pc, msg)
  BY DEF Reply, LoseReply, Fail
<1>2. /\ rq[r].pc = "reply" /\ UNCHANGED <<scenario, heap, mem, row>> /\ ~Ended(r) /\ rq[r].pc \in Chatting
      /\ Goto(r, pc) /\ panel' = Deliver(r, msg)
  BY <1>1 DEF Reply, LoseReply, Ended, Chatting, Finish, Goto
<1>3. Proceeds(r, pc)
  BY <1>2, Proceeded DEF IInv
<1>4. msg \in Bubbles /\ (msg.role = "assistant" /\ rq[r].live => msg \in AnswersOf(row.messages))
  BY <1>2 DEF IInv, Hands, Bubbles, ErrorBubble, SteadyInv, RepliesKept
<1>5. \A p \in scenario.panels :
               \/ panel'[p] = panel[p]
               \/ /\ panel'[p].state = "idle" /\ panel'[p].view # <<>>
                  /\ AnswersOf(panel'[p].view) \subseteq AnswersOf(row.messages)
  BY <1>2, <1>4, SteadyDelivered
<1> QED
  BY <1>2, <1>3, <1>5, SteadyQuietly DEF SteadyInv, OneObject, Log

LEMMA SteadyFailing ==
    ASSUME IInv, Steady(scenario), SteadyInv, NEW r \in Reqs, ModelFails(r)
    PROVE  SteadyInv'
<1>1. /\ rq[r].pc = "model" /\ UNCHANGED <<scenario, mem, row>> /\ ~Ended(r) /\ rq[r].pc \in Chatting
      /\ Goto(r, "failed") /\ panel' = Deliver(r, ErrorBubble) /\ heap' = [heap EXCEPT ![rq[r].obj].lock = 0]
  BY DEF ModelFails, Fail, Finish, Goto, Ended, Chatting
<1>2. rq[r].obj = 1 /\ DOMAIN heap = {1} /\ heap[1] \in Objs
  BY <1>1, Held DEF SteadyInv, OneObject
<1>3. DOMAIN heap' = {1} /\ heap'[1].messages = heap[1].messages
  BY <1>1, <1>2 DEF Objs
<1>4. Proceeds(r, "failed")
  BY <1>1, Proceeded DEF IInv
<1>5. ErrorBubble \in Bubbles /\ ErrorBubble.role # "assistant"
  BY DEF Bubbles, ErrorBubble
<1>6. \A p \in scenario.panels :
               \/ panel'[p] = panel[p]
               \/ /\ panel'[p].state = "idle" /\ panel'[p].view # <<>>
                  /\ AnswersOf(panel'[p].view) \subseteq AnswersOf(row.messages)
  BY <1>1, <1>5, SteadyDelivered
<1> QED
  BY <1>1, <1>3, <1>4, <1>6, SteadyQuietly DEF SteadyInv, Log

(* A message that stands in the conversation is its last or has its answer.   *)
LEMMA AskedOrAnswered ==
    ASSUME NEW S, NEW s \in Seq(S), Rounds(s), NEW id, WithMsgID(s, id) # {}
    PROVE  LET i == Min(WithMsgID(s, id))
           IN  /\ Answered(s, i) => s[i + 1] \in AnswersOf(s)
               /\ ~Answered(s, i) => SubSeq(s, 1, i) = s
<1> DEFINE i == Min(WithMsgID(s, id))
<1>1. Len(s) \in Nat /\ DOMAIN s = 1 .. Len(s)
  OBVIOUS
<1>2. i \in DOMAIN s /\ s[i].role = "user"
  <2>1. WithMsgID(s, id) \in SUBSET Nat
    BY <1>1 DEF WithMsgID, Indices
  <2>2. i \in WithMsgID(s, id)
    BY <2>1, MinOf
  <2> QED
    BY <2>2 DEF WithMsgID, Indices
<1> HIDE DEF i
<1>3. ASSUME Answered(s, i)
      PROVE  s[i + 1] \in AnswersOf(s)
  <2>1. i + 1 \in DOMAIN s /\ s[i + 1].role = "assistant"
    BY <1>1, <1>2, <1>3 DEF Answered
  <2> QED
    BY <2>1, AnswersIn
<1>4. ASSUME ~Answered(s, i)
      PROVE  SubSeq(s, 1, i) = s
  <2>1. i = Len(s)
    BY <1>1, <1>2, <1>4 DEF Rounds, Answered
  <2> QED
    BY <2>1, SubSeqFull
<1> QED
  BY <1>3, <1>4 DEF i

LEMMA SteadyLocking ==
    ASSUME IInv, Steady(scenario), SteadyInv, NEW r \in Reqs, LockSession(r)
    PROVE  SteadyInv'
<1> DEFINE known == WithMsgID(Log, rq[r].id)
           mine == User(rq[r].id, rq[r].task)
           i == Min(known)
<1>1. rq[r].pc = "lock" /\ UNCHANGED <<scenario, mem, row, panel>> /\ ~Ended(r)
  BY DEF LockSession, Ended
<1>2. rq[r].obj = 1 /\ DOMAIN heap = {1} /\ heap[1] \in Objs /\ Object(r) = heap[1] /\ Object(r).messages = Log
  BY <1>1, Held DEF SteadyInv, OneObject, Log
<1>3. Log \in Seq(Message) /\ Rounds(Log) /\ heap[1].lock = 0
  BY <1>2 DEF LockSession, Objs, Log, SteadyInv
<1>4. mine \in Message /\ mine.role = "user"
  <2>1. rq[r].id \in Reqs /\ rq[r].task \in Reqs
    BY <1>1 DEF IInv, Numbers, Chatting, Typed, Request
  <2> QED
    BY <2>1 DEF User, Message, Reqs
<1>5. ASSUME NEW s, Ask(r, s), Rounds(s), AnswersOf(s) = AnswersOf(Log)
      PROVE  SteadyInv'
  <2>1. heap' = [heap EXCEPT ![1] = [messages |-> s, lock |-> r]] /\ Goto(r, "model")
    BY <1>2, <1>5 DEF Ask
  <2>2. DOMAIN heap' = {1} /\ Log' = s
    BY <1>2, <2>1 DEF Log
  <2>3. Proceeds(r, "model") /\ rq'[r].obj = 1
    BY <1>2, <2>1, Proceeded DEF IInv
  <2> QED
    BY <1>1, <1>5, <2>2, <2>3, SteadyQuietly
<1>6. CASE known = {} /\ Add(r)
  <2>1. CASE EndsWithUser(Log)
    <3>1. Ask(r, Append(Front(Log), mine))
      BY <1>2, <1>6, <2>1 DEF Add
    <3>2. Front(Log) \in Seq(Message) /\ AnswersOf(Front(Log)) = AnswersOf(Log)
      BY <1>3, <2>1, WithoutQuestion
    <3>3. Rounds(Front(Log)) /\ ~EndsWithUser(Front(Log))
      BY <1>3, <2>1, RoundsWithout
    <3>4. Rounds(Append(Front(Log), mine)) /\ AnswersOf(Append(Front(Log), mine)) = AnswersOf(Log)
      BY <1>4, <3>2, <3>3, RoundsAppended, AnswersAppended
    <3> QED
      BY <1>5, <3>1, <3>4
  <2>2. CASE ~EndsWithUser(Log)
    <3>1. Ask(r, Append(Log, mine))
      BY <1>2, <1>6, <2>2 DEF Add
    <3>2. Rounds(Append(Log, mine)) /\ AnswersOf(Append(Log, mine)) = AnswersOf(Log)
      BY <1>3, <1>4, <2>2, RoundsAppended, AnswersAppended
    <3> QED
      BY <1>5, <3>1, <3>2
  <2> QED
    BY <2>1, <2>2
<1>7. CASE known # {} /\ TakeUp(r, i)
  <2>1. SubSeq(Log, 1, i) = Log
    BY <1>2, <1>3, <1>7, AskedOrAnswered DEF TakeUp
  <2>2. Ask(r, Log)
    BY <1>2, <1>7, <2>1 DEF TakeUp
  <2> QED
    BY <1>3, <1>5, <2>2
<1>8. CASE known # {} /\ Replay(r, i)
  <2>1. Log[i + 1] \in AnswersOf(Log)
    BY <1>2, <1>3, <1>8, AskedOrAnswered DEF Replay
  <2>2. rq' = [rq EXCEPT ![r].pc = "reply", ![r].answer = Log[i + 1]] /\ heap' = heap
    BY <1>2, <1>8 DEF Replay
  <2>3. \A q \in Reqs : rq[q].pc # "save"
    BY <1>3 DEF IInv, Hands, SteadyInv, OneObject, Reqs
  <2>4. Log[i + 1] \in AnswersOf(row.messages)
    BY <2>1, <2>3 DEF SteadyInv, RowBehind
  <2>5. Proceeds(r, "reply") /\ rq'[r].answer = Log[i + 1]
    BY <2>2, ProceededAnswering DEF IInv
  <2> QED
    BY <1>1, <1>2, <1>3, <2>2, <2>4, <2>5, SteadyQuietly DEF Log
<1> QED
  BY <1>2, <1>6, <1>7, <1>8 DEF LockSession

LEMMA SteadyAnswering ==
    ASSUME IInv, Steady(scenario), SteadyInv, NEW r \in Reqs, ModelAnswers(r)
    PROVE  SteadyInv'
<1> DEFINE answer == Answer(r, LastTask(Object(r).messages))
<1>1. /\ rq[r].pc = "model" /\ UNCHANGED <<scenario, mem, row, panel>> /\ ~Ended(r) /\ rq[r].pc \in Chatting
      /\ rq[r].live \/ "late" \in scenario.faults
      /\ rq' = [rq EXCEPT ![r].pc = "save", ![r].answer = answer]
      /\ heap' = [heap EXCEPT ![rq[r].obj].messages = Append(@, answer)]
  BY Zenon DEF ModelAnswers, Ended, Chatting
<1>2. /\ rq[r].obj = 1 /\ DOMAIN heap = {1} /\ heap[1] \in Objs /\ Object(r) = heap[1]
      /\ Log \in Seq(Message) /\ EndsWithUser(Log)
  <2>1. rq[r].obj = 1 /\ DOMAIN heap = {1} /\ heap[1] \in Objs /\ Object(r) = heap[1]
    BY <1>1, Held DEF SteadyInv, OneObject
  <2> QED
    BY <1>1, <2>1 DEF Objs, Log, IInv, Hands
<1>3. answer \in Message /\ answer.role = "assistant"
  <2>1. LastTask(Log) \in Reqs
    BY <1>2, LastAsked, Roles DEF Bubbles
  <2> QED
    BY <1>2, <2>1 DEF Answer, Message, Log
<1> HIDE DEF answer
<1>4. DOMAIN heap' = {1} /\ Log' = Append(Log, answer)
  BY <1>1, <1>2 DEF Objs, Log
<1>5. Proceeds(r, "save") /\ rq'[r].answer = answer /\ rq'[r].obj = 1
  BY <1>1, <1>2, ProceededAnswering DEF IInv
<1>6. /\ \A q \in Reqs : q # r => rq'[q] = rq[q]
      /\ rq'[r].pc = "save" /\ rq'[r].live = rq[r].live
  BY <1>5 DEF Proceeds
<1>7. Rounds(Log') /\ AnswersOf(Log') = AnswersOf(Log) \cup {answer}
  BY <1>2, <1>3, <1>4, RoundsAppended, AnswersAppended DEF SteadyInv
<1>8. Nobody("resetSave")
  <2>1. ASSUME NEW q \in Reqs, rq[q].pc = "resetSave"
        PROVE  FALSE
    <3>1. "late" \notin scenario.faults /\ \A k \in Reqs : Listened(k) => k = q
      BY <2>1, ResetAlone
    <3> QED
      BY <1>1, <2>1, <3>1 DEF Listened
  <2> QED
    BY <2>1 DEF Nobody
<1>9. Nobody("resetSave")'
  BY <1>6, <1>8 DEF Nobody
<1>10. OneObject'
  BY <1>1, <1>4, <1>5, <1>6 DEF SteadyInv, OneObject
<1>11. SteadyPcs'
  BY <1>1, <1>6 DEF SteadyInv, SteadyPcs, Ended
<1>16. SavesKept'
  BY <1>1, <1>5, <1>6, <1>7 DEF SteadyInv, SavesKept
<1>12. RowBehind'
  <2>1. \A q \in Reqs : rq[q].pc = "save" => rq'[q] = rq[q]
    BY <1>1, <1>6
  <2>2. ASSUME NEW m \in AnswersOf(Log)
        PROVE  m \in AnswersOf(row.messages) \/ \E q \in Reqs : rq'[q].pc = "save" /\ rq'[q].answer = m
    BY <2>1 DEF SteadyInv, RowBehind
  <2>3. \E q \in Reqs : rq'[q].pc = "save" /\ rq'[q].answer = answer
    BY <1>5, <1>6
  <2> QED
    BY <1>1, <1>7, <2>2, <2>3 DEF RowBehind
<1>13. RowAhead' /\ ResetClears'
  BY <1>1, <1>7, <1>8, <1>9 DEF SteadyInv, RowAhead, ResetClears
<1>14. RepliesKept' /\ WindowsKept'
  BY <1>1, <1>6 DEF SteadyInv, RepliesKept, WindowsKept
<1>15. EmptyForgot'
  <2>1. SUFFICES ASSUME Undisturbed, NEW p \in scenario.panels, Emptied(p)
                 PROVE  FALSE
    BY <1>1 DEF EmptyForgot, Undisturbed, Emptied
  <2>2. rq[r].live
    BY <1>1, <2>1 DEF Undisturbed
  <2>3. rq[r].panel \in scenario.panels /\ panel[rq[r].panel].state = "streaming"
    BY <1>1, <2>2 DEF IInv, Listening, Listened
  <2>4. p = rq[r].panel
    BY <2>1, <2>3, OneWindow DEF IInv, Undisturbed
  <2> QED
    BY <2>1, <2>3, <2>4 DEF Emptied
<1> QED
  BY <1>7, <1>10, <1>11, <1>12, <1>13, <1>14, <1>15, <1>16 DEF SteadyInv

(* Whoever saves holds the lock, so nobody else does.                         *)
LEMMA OneSaves ==
    ASSUME IInv, SteadyInv, NEW r \in Reqs, rq[r].pc = "save"
    PROVE  \A q \in Reqs : rq[q].pc = "save" => q = r
<1>1. \A q \in Reqs : rq[q].pc = "save" => heap[rq[q].obj].lock = q /\ rq[q].obj = 1
  BY DEF IInv, Hands, SteadyInv, OneObject
<1> QED
  BY <1>1

LEMMA SteadySaving ==
    ASSUME IInv, Steady(scenario), SteadyInv, NEW r \in Reqs, SaveChat(r)
    PROVE  SteadyInv'
<1>1. /\ rq[r].pc = "save" /\ UNCHANGED <<scenario, mem, panel>> /\ ~Ended(r)
      /\ Goto(r, "reply") /\ heap' = [heap EXCEPT ![rq[r].obj].lock = 0]
      /\ "save" \notin scenario.faults
  BY DEF SaveChat, Ended, Steady
<1>2. rq[r].obj = 1 /\ DOMAIN heap = {1} /\ heap[1] \in Objs /\ Object(r) = heap[1]
  BY <1>1, Held DEF SteadyInv, OneObject
<1>3. DOMAIN heap' = {1} /\ Log' = Log /\ row'.messages = Log
  <2>1. row' = Row(Object(r).messages)
    BY <1>1 DEF SaveChat, Saved
  <2> QED
    BY <1>1, <1>2, <2>1 DEF Objs, Log, Row
<1>4. /\ \A q \in Reqs : q # r => rq'[q] = rq[q]
      /\ rq'[r].pc = "reply" /\ rq'[r].live = rq[r].live /\ rq'[r].answer = rq[r].answer
  BY <1>1, Proceeded DEF IInv, Proceeds
<1>5. Nobody("save")' /\ Nobody("resetSave")
  BY <1>1, <1>4, OneSaves DEF Nobody, SteadyInv, ResetClears
<1>6. AnswersOf(row.messages) \subseteq AnswersOf(Log) /\ rq[r].answer \in AnswersOf(Log)
  BY <1>1, <1>5 DEF SteadyInv, RowAhead, SavesKept
<1>7. OneObject' /\ SteadyPcs'
  BY <1>1, <1>3, <1>4 DEF SteadyInv, OneObject, SteadyPcs, Ended
<1>8. RowBehind' /\ SavesKept' /\ RowAhead'
  BY <1>3, <1>5 DEF RowBehind, SavesKept, RowAhead, Nobody
<1>9. ResetClears'
  BY <1>4, <1>5 DEF ResetClears, Nobody
<1>10. RepliesKept'
  BY <1>3, <1>4, <1>6 DEF SteadyInv, RepliesKept
<1>11. WindowsKept'
  BY <1>1, <1>3, <1>6 DEF SteadyInv, WindowsKept
<1>12. EmptyForgot'
  BY <1>1 DEF SteadyInv, EmptyForgot, Undisturbed, Emptied, Nobody
<1> QED
  BY <1>3, <1>7, <1>8, <1>9, <1>10, <1>11, <1>12 DEF SteadyInv

LEMMA SteadyEmptying ==
    ASSUME IInv, Steady(scenario), SteadyInv, NEW r \in Reqs, ResetLocked(r)
    PROVE  SteadyInv'
<1>1. /\ rq[r].pc = "resetLock" /\ UNCHANGED <<scenario, mem, row, panel>> /\ ~Ended(r)
      /\ Goto(r, "resetSave") /\ heap' = [heap EXCEPT ![rq[r].obj].messages = <<>>] /\ Object(r).lock = 0
  BY DEF ResetLocked, Ended
<1>2. rq[r].obj = 1 /\ DOMAIN heap = {1} /\ heap[1] \in Objs /\ Object(r) = heap[1]
  BY <1>1, Held DEF SteadyInv, OneObject
<1>3. DOMAIN heap' = {1} /\ Log' = <<>>
  BY <1>1, <1>2 DEF Objs, Log
<1>4. /\ \A q \in Reqs : q # r => rq'[q] = rq[q]
      /\ rq'[r].pc = "resetSave" /\ rq'[r].live = rq[r].live /\ rq'[r].answer = rq[r].answer
      /\ rq'[r].obj = rq[r].obj
  BY <1>1, Proceeded DEF IInv, Proceeds
<1>5. \A q \in Reqs : rq[q].pc # "save"
  <2>1. \A q \in Reqs : rq[q].pc = "save" => heap[rq[q].obj].lock = q /\ rq[q].obj = 1
    BY DEF IInv, Hands, SteadyInv, OneObject
  <2> QED
    BY <1>1, <1>2, <2>1 DEF Reqs
<1>6. \A p \in scenario.panels : panel[p].state = "resetting"
  BY <1>1, ResetAlone
<1>7. AnswersOf(Log') = {} /\ Rounds(Log')
  BY <1>3, NoMessages DEF Rounds
<1>8. OneObject' /\ SteadyPcs'
  BY <1>1, <1>2, <1>3, <1>4 DEF SteadyInv, OneObject, SteadyPcs, Ended
<1>9. Nobody("save")' /\ ~Nobody("resetSave")'
  BY <1>4, <1>5 DEF Nobody
<1>10. RowBehind' /\ SavesKept' /\ RowAhead' /\ ResetClears'
  BY <1>7, <1>9 DEF RowBehind, SavesKept, RowAhead, ResetClears, Nobody
<1>11. RepliesKept' /\ WindowsKept'
  BY <1>1, <1>4 DEF SteadyInv, RepliesKept, WindowsKept
<1>12. EmptyForgot'
  BY <1>1, <1>6 DEF EmptyForgot, Emptied
<1> QED
  BY <1>7, <1>8, <1>10, <1>11, <1>12 DEF SteadyInv

LEMMA SteadyCleared ==
    ASSUME IInv, Steady(scenario), SteadyInv, NEW r \in Reqs, ResetSave(r)
    PROVE  SteadyInv'
<1>1. /\ rq[r].pc = "resetSave" /\ UNCHANGED <<scenario, heap, mem>> /\ ~Ended(r) /\ ResetEnds(r) /\ Goto(r, "done")
      /\ "save" \notin scenario.faults
  BY DEF ResetSave, Ended, ResetEnds, Goto, Steady
<1>2. rq[r].obj = 1 /\ Object(r) = heap[1]
  BY <1>1, Held DEF SteadyInv, OneObject
<1>3. row'.messages = Log /\ Log' = Log
  BY <1>1, <1>2 DEF ResetSave, Saved, Row, Log
<1>4. /\ \A q \in Reqs : q # r => rq'[q] = rq[q]
      /\ rq'[r].pc = "done" /\ rq'[r].live = rq[r].live /\ rq'[r].answer = rq[r].answer
      /\ rq'[r].obj = rq[r].obj
  BY <1>1, Proceeded DEF IInv, Proceeds
<1>5. /\ rq[r].live /\ \A q \in Reqs : Listened(q) => q = r
      /\ \A p \in scenario.panels : p = rq[r].panel
  BY <1>1, ResetAlone
<1>6. \A p \in scenario.panels : panel'[p].state = "idle" /\ panel'[p].view = <<>>
  <2>1. panel' = [panel EXCEPT ![rq[r].panel].state = "idle", ![rq[r].panel].view = <<>>]
    BY <1>1, <1>5 DEF ResetEnds
  <2>2. panel \in [scenario.panels -> PanelType]
    BY DEF IInv, Typed
  <2> QED
    BY <1>5, <2>1, <2>2 DEF PanelType
<1>7. \A q \in Reqs : rq[q].pc = "resetSave" => q = r
  BY <1>5 DEF SteadyInv, SteadyPcs, Listened, Ended
<1>8. AnswersOf(Log) = {} /\ \A q \in Reqs : rq[q].pc # "save"
  BY <1>1 DEF SteadyInv, ResetClears, Nobody
<1>9. Nobody("save")' /\ Nobody("resetSave")'
  BY <1>4, <1>7, <1>8 DEF Nobody
<1>10. OneObject' /\ SteadyPcs'
  BY <1>1, <1>2, <1>4 DEF SteadyInv, OneObject, SteadyPcs, Ended
<1>11. RowBehind' /\ SavesKept' /\ RowAhead' /\ ResetClears'
  BY <1>3, <1>8, <1>9 DEF RowBehind, SavesKept, RowAhead, ResetClears, Nobody
<1>12. RepliesKept'
  <2>1. \A q \in Reqs : rq[q].pc = "reply" /\ rq[q].live => q = r
    BY <1>5 DEF Listened, Ended
  <2> QED
    BY <1>1, <1>4, <2>1 DEF RepliesKept
<1>13. WindowsKept'
  BY <1>1, <1>6, NoMessages DEF WindowsKept
<1>14. EmptyForgot'
  BY <1>1, <1>3, <1>8, <1>9 DEF EmptyForgot
<1> QED
  BY <1>3, <1>10, <1>11, <1>12, <1>13, <1>14 DEF SteadyInv

(* A step of a window: the requests go on, some of them unheard, and one may  *)
(* begin.                                                                     *)
LEMMA SteadyWindow ==
    ASSUME IInv, Steady(scenario), SteadyInv, NEW p \in scenario.panels, UNCHANGED <<scenario, heap, mem, row>>,
           \A q \in Reqs :
               \/ /\ rq[q].pc = "unused" /\ rq'[q].pc \in {"get", "resetGet"}
                  /\ rq'[q].pc = "resetGet" => rq'[q].live /\ "reset" \in scenario.moves
               \/ /\ rq'[q].pc = rq[q].pc /\ rq'[q].obj = rq[q].obj /\ rq'[q].answer = rq[q].answer
                  /\ rq'[q].live => rq[q].live
                  /\ rq[q].pc \in {"resetGet", "resetLock", "resetSave"} => rq'[q].live = rq[q].live,
           \A w \in scenario.panels : w # p => panel'[w] = panel[w],
           panel'[p].state \in {"idle", "streaming", "resetting"},
           panel'[p].state # "resetting" =>
               panel'[p].view # <<>> /\ AnswersOf(panel'[p].view) \subseteq AnswersOf(row.messages)
    PROVE  SteadyInv'
<1>1. /\ \A q \in Reqs : rq'[q].pc = "save" <=> rq[q].pc = "save"
      /\ \A q \in Reqs : rq'[q].pc = "resetSave" <=> rq[q].pc = "resetSave"
      /\ \A q \in Reqs : rq[q].pc = "save" => rq'[q].answer = rq[q].answer
  OBVIOUS
<1>2. Nobody("save")' = Nobody("save") /\ Nobody("resetSave")' = Nobody("resetSave") /\ Log' = Log
  BY <1>1 DEF Nobody, Log
<1>3. OneObject' /\ SteadyPcs'
  BY DEF SteadyInv, OneObject, SteadyPcs, Ended
<1>4. RowBehind' /\ SavesKept'
  BY <1>1, <1>2 DEF SteadyInv, RowBehind, SavesKept
<1>5. RowAhead' /\ ResetClears'
  BY <1>2 DEF SteadyInv, RowAhead, ResetClears
<1>6. RepliesKept'
  BY DEF SteadyInv, RepliesKept
<1>7. WindowsKept'
  BY DEF SteadyInv, WindowsKept
<1>8. EmptyForgot'
  <2>1. \A w \in scenario.panels : Emptied(w)' => Emptied(w)
    BY DEF Emptied
  <2> QED
    BY <1>2, <2>1 DEF SteadyInv, EmptyForgot, Undisturbed
<1> QED
  BY <1>2, <1>3, <1>4, <1>5, <1>6, <1>7, <1>8 DEF SteadyInv

(* The requests of a window that stops to listen.                             *)
LEMMA Hushed ==
    ASSUME IInv, NEW p \in scenario.panels, panel[p].state # "resetting", NEW q \in Reqs
    PROVE  /\ Cancelled(p)[q].pc = rq[q].pc /\ Cancelled(p)[q].obj = rq[q].obj
           /\ Cancelled(p)[q].answer = rq[q].answer
           /\ Cancelled(p)[q].live => rq[q].live
           /\ rq[q].pc \in {"resetGet", "resetLock", "resetSave"} => Cancelled(p)[q].live = rq[q].live
<1>1. ASSUME rq[q].pc \in {"resetGet", "resetLock", "resetSave"}
      PROVE  Cancelled(p)[q] = rq[q]
  <2>1. ~(rq[q].panel = p /\ ~Ended(q) /\ rq[q].live)
    BY <1>1 DEF IInv, Listening, Listened, Resetting
  <2> QED
    BY <2>1 DEF Cancelled
<1> QED
  BY <1>1, CancelledRequests

LEMMA SteadyMoves ==
    ASSUME IInv, Steady(scenario), SteadyInv, NEW p \in scenario.panels, Stop(p) \/ Reload(p)
    PROVE  SteadyInv'
<1>1. /\ rq' = Cancelled(p) /\ UNCHANGED <<scenario, heap, mem, row>>
      /\ panel[p].state \in {"idle", "streaming"}
      /\ panel \in [scenario.panels -> PanelType]
  BY DEF Stop, Reload, Streaming, IInv, Typed
<1>2. \A q \in Reqs :
        /\ rq'[q].pc = rq[q].pc /\ rq'[q].obj = rq[q].obj /\ rq'[q].answer = rq[q].answer
        /\ rq'[q].live => rq[q].live
        /\ rq[q].pc \in {"resetGet", "resetLock", "resetSave"} => rq'[q].live = rq[q].live
  BY <1>1, Hushed
<1>3. /\ \A w \in scenario.panels : w # p => panel'[w] = panel[w]
      /\ panel'[p].state = "idle" /\ panel'[p].view # <<>>
      /\ AnswersOf(panel'[p].view) \subseteq AnswersOf(row.messages)
  <2>1. CASE Stop(p)
    <3>1. panel' = [panel EXCEPT ![p].state = "idle"] /\ panel[p].state = "streaming"
      BY <2>1 DEF Stop, Streaming
    <3>2. panel'[p].state = "idle" /\ panel'[p].view = panel[p].view /\ \A w \in scenario.panels : w # p => panel'[w] = panel[w]
      BY <1>1, <3>1 DEF PanelType
    <3> QED
      BY <3>1, <3>2 DEF SteadyInv, WindowsKept
  <2>2. CASE Reload(p)
    <3>1. PICK n : panel' = [panel EXCEPT ![p].state = "idle", ![p].view = row.messages, ![p].seq = n]
      BY <2>2 DEF Reload
    <3>2. row.messages # <<>>
      BY <2>2 DEF Reload
    <3> QED
      BY <1>1, <3>1, <3>2 DEF PanelType
  <2> QED
    BY <2>1, <2>2
<1> QED
  BY <1>1, <1>2, <1>3, SteadyWindow

LEMMA SteadySending ==
    ASSUME IInv, Steady(scenario), SteadyInv, NEW p \in scenario.panels, NEW r \in Reqs, Send(p, r)
    PROVE  SteadyInv'
<1>1. PICK id : Submit(p, r, id, r, panel[p].view, id)
  BY DEF Send
<1>2. /\ UNCHANGED <<scenario, heap, mem, row>> /\ panel[p].state = "idle" /\ rq[r].pc = "unused"
      /\ panel \in [scenario.panels -> PanelType] /\ rq \in [Reqs -> Request] /\ panel[p].view \in Seq(Bubbles)
  BY <1>1 DEF Send, Submit, Free, IInv, Typed, PanelType
<1>3. /\ rq'[r].pc = "get" /\ \A q \in Reqs : q # r => rq'[q] = rq[q]
      /\ panel'[p].state = "streaming" /\ panel'[p].view = Append(panel[p].view, User(id, r))
      /\ \A w \in scenario.panels : w # p => panel'[w] = panel[w]
  BY <1>1, <1>2 DEF Submit, Unused
<1>4. /\ Append(panel[p].view, User(id, r)) # <<>>
      /\ AnswersOf(Append(panel[p].view, User(id, r))) \subseteq AnswersOf(row.messages)
  <2>1. User(id, r).role = "user" /\ AnswersOf(panel[p].view) \subseteq AnswersOf(row.messages)
    BY <1>2 DEF User, SteadyInv, WindowsKept
  <2>2. panel[p].view \in Seq(Bubbles \cup {User(id, r)}) /\ User(id, r) \in Bubbles \cup {User(id, r)}
    BY <1>2
  <2> QED
    BY <2>1, <2>2, AnswersAppended, LastAppended
<1> QED
  BY <1>2, <1>3, <1>4, SteadyWindow

LEMMA SteadyResetting ==
    ASSUME IInv, Steady(scenario), SteadyInv, NEW p \in scenario.panels, NEW r \in Reqs, Reset(p, r)
    PROVE  SteadyInv'
<1>1. /\ UNCHANGED <<scenario, heap, mem, row>> /\ panel[p].state \in {"idle", "streaming"} /\ rq[r].pc = "unused"
      /\ "reset" \in scenario.moves /\ panel' = [panel EXCEPT ![p].state = "resetting"]
      /\ panel \in [scenario.panels -> PanelType]
  BY DEF Reset, Free, IInv, Typed
<1>2. /\ rq'[r].pc = "resetGet" /\ rq'[r].live /\ \A q \in Reqs : q # r => rq'[q] = Cancelled(p)[q]
  <2>1. Cancelled(p) \in [Reqs -> Request]
    BY CancelledRequests
  <2> QED
    BY <2>1 DEF Reset, Unused
<1>3. panel'[p].state = "resetting" /\ \A w \in scenario.panels : w # p => panel'[w] = panel[w]
  BY <1>1 DEF PanelType
<1>4. \A q \in Reqs :
               \/ /\ rq[q].pc = "unused" /\ rq'[q].pc \in {"get", "resetGet"}
                  /\ rq'[q].pc = "resetGet" => rq'[q].live /\ "reset" \in scenario.moves
               \/ /\ rq'[q].pc = rq[q].pc /\ rq'[q].obj = rq[q].obj /\ rq'[q].answer = rq[q].answer
                  /\ rq'[q].live => rq[q].live
                  /\ rq[q].pc \in {"resetGet", "resetLock", "resetSave"} => rq'[q].live = rq[q].live
  <2>1. \A q \in Reqs : q # r =>
                  /\ rq'[q].pc = rq[q].pc /\ rq'[q].obj = rq[q].obj /\ rq'[q].answer = rq[q].answer
                  /\ rq'[q].live => rq[q].live
                  /\ rq[q].pc \in {"resetGet", "resetLock", "resetSave"} => rq'[q].live = rq[q].live
    BY <1>1, <1>2, Hushed
  <2> QED
    BY <1>1, <1>2, <2>1
<1> QED
  BY <1>1, <1>3, <1>4, SteadyWindow

LEMMA SteadyNext ==
    ASSUME IInv, [Next]_vars, Steady(scenario), SteadyInv
    PROVE  SteadyInv'
<1>1. ASSUME NEW r \in Reqs, ChatStep(r) \/ ResetStep(r)
      PROVE  SteadyInv'
  <2>1. ~Ended(r) => rq[r].pc \in {"get", "lock", "model", "save", "reply", "resetGet", "resetLock", "resetSave"}
    BY DEF SteadyInv, SteadyPcs
  <2>2. ~(Restore(r) \/ Build(r) \/ BuildFails(r) \/ SaveNew(r) \/ GetAgain(r) \/ ResetLoad(r) \/ ResetStore(r))
    BY <2>1 DEF Ended, Restore, Build, BuildFails, SaveNew, GetAgain, ResetLoad, ResetStore
  <2> QED
    BY <1>1, <2>2, SteadyGetting, SteadyLocking, SteadyAnswering, SteadyFailing, SteadySaving, SteadyReplying,
       SteadyEmptying, SteadyCleared DEF ChatStep, ResetStep
<1>2. ASSUME NEW p \in scenario.panels, PanelStep(p) \/ UserMove(p)
      PROVE  SteadyInv'
  <2>1. panel[p].state \in {"idle", "streaming", "resetting"} /\ scenario.moves \subseteq {"stop", "reset", "reload"}
    BY DEF SteadyInv, WindowsKept, Steady
  <2>2. ~PanelStep(p) /\ ~CloseTab(p) /\ \A i : ~Retry(p, i)
    BY <2>1 DEF PanelStep, DeleteEntry, DeleteRow, DeleteRowByTab, DeleteEntryByTab, CloseTab, Retry
  <2>3. \A r \in Reqs : ~Resend(p, r)
    BY <2>1 DEF Resend
  <2> QED
    BY <1>2, <2>2, <2>3, SteadySending, SteadyResetting, SteadyMoves DEF UserMove
<1>3. ~Evict /\ ~Crash
  BY DEF Evict, Crash, Steady
<1>4. CASE UNCHANGED vars
  BY <1>4 DEF vars, SteadyInv, OneObject, SteadyPcs, Ended, Log, RowBehind, SavesKept, RowAhead, ResetClears, RepliesKept,
     WindowsKept, EmptyForgot, Undisturbed, Emptied, Nobody
<1> QED
  BY <1>1, <1>2, <1>3, <1>4 DEF Next

LEMMA SteadyKept ==
    ASSUME IInv, Steady(scenario), SteadyInv
    PROVE  ConversationKept
<1>1. NoRoundLost
  BY DEF NoRoundLost, SteadyInv, WindowsKept
<1>2. ResetForgets
  BY DEF ResetForgets, SteadyInv, EmptyForgot
<1> QED
  BY <1>1, <1>2 DEF ConversationKept

-----------------------------------------------------------------------------
(* No round is lost, where one window waits for its answers: nothing resets   *)
(* or stops, the server may restart and the session be dropped; a retry       *)
(* deletes the session where nothing else does and a rebuild succeeds.        *)
Alone(s) ==
    /\ Cardinality(s.panels) = 1 /\ "save" \notin s.faults
    /\ s.moves \subseteq {"close", "retry"}
    /\ "retry" \in s.moves => s.faults \cap {"build", "crash", "evict"} = {}

Again == "retry" \in scenario.moves
Open(p) == panel[p].state \in {"idle", "streaming", "deleting", "deleteRow", "resend"}
Building == {"get", "restore", "build"}
Early == Building \cup {"saveNew", "getAgain", "lock"}

Fresh(s, r) == WithMsgID(s, rq[r].id) = {}
Has(s, p) == AnswersOf(panel[p].view) \subseteq AnswersOf(s)

AloneStates ==
    /\ row.stored \/ row.messages = <<>>
    /\ \A p \in scenario.panels :
          /\ Open(p) \/ panel[p].state \in {"closing", "closingEntry", "closed"}
          /\ panel[p].state \in {"deleting", "deleteRow", "resend"} => Again
          /\ Emptied(p) => AnswersOf(row.messages) = {}
AlonePcs ==
    \A r \in Reqs : ~Ended(r) => rq[r].pc \in Chatting /\ (rq[r].live \/ \A p \in scenario.panels : ~Open(p))

(* What the window shows is in the object and in the row.  After a retry has  *)
(* deleted them, it is in the history of the request until a new object is    *)
(* built, and saved.                                                          *)
MemHas(p) == mem # 0 => Has(heap[mem].messages, p)
RowGone(p) ==
    /\ Again /\ ~row.stored
    /\ \/ panel[p].state = "resend"
       \/ \E r \in Reqs : rq[r].pc = "saveNew" \/ (mem = 0 /\ rq[r].pc \in Building)
RowHas(p) == Has(row.messages, p) \/ RowGone(p)
MemGone(p) ==
    Again => /\ panel[p].state \in {"deleteRow", "resend"} => mem = 0
             /\ panel[p].state = "resend" => ~row.stored
             /\ mem = 0 => panel[p].state \in {"deleteRow", "resend"} \/ \E r \in Reqs : rq[r].pc \in Building

(* What the request of the window has in hand: a question that stands nowhere *)
(* yet, the conversation to build from, the object, the answer.               *)
InHand(p, r) ==
    /\ rq[r].pc \in Early =>
          /\ Fresh(row.messages, r) /\ Fresh(rq[r].history, r) /\ Has(rq[r].history, p)
          /\ mem # 0 => Fresh(heap[mem].messages, r)
    /\ rq[r].pc = "build" => Has(rq[r].from, p) /\ Fresh(rq[r].from, r)
    /\ rq[r].pc \in {"saveNew", "lock"} => Fresh(heap[rq[r].obj].messages, r)
    /\ rq[r].pc \in {"saveNew", "lock", "model", "save"} => Has(heap[rq[r].obj].messages, p)
    /\ rq[r].pc \in {"lock", "model", "save"} => mem \in {0, rq[r].obj}
    /\ rq[r].pc = "save" => rq[r].answer \in AnswersOf(heap[rq[r].obj].messages)
    /\ rq[r].pc = "reply" => /\ rq[r].answer \in AnswersOf(row.messages)
                             /\ mem # 0 => rq[r].answer \in AnswersOf(heap[mem].messages)

OpenKept(p) == MemHas(p) /\ RowHas(p) /\ MemGone(p) /\ \A r \in Reqs : InHand(p, r)
AloneInv == AloneStates /\ AlonePcs /\ \A p \in scenario.panels : Open(p) => OpenKept(p)

LEMMA AloneInit ==
    ASSUME Init, Alone(scenario)
    PROVE  AloneInv
<1>1. mem = 1 /\ heap[1].messages = <<>> /\ row.messages = <<>> /\ row.stored
  BY DEF Init, Row
<1>2. \A r \in Reqs : rq[r].pc = "unused"
  BY DEF Init, Unused
<1>3. \A p \in scenario.panels : panel[p].state = "idle" /\ panel[p].view = <<>>
  BY DEF Init
<1>4. AloneStates /\ AlonePcs
  BY <1>1, <1>2, <1>3, NoMessages DEF AloneStates, AlonePcs, Open, Ended
<1>5. ASSUME NEW p \in scenario.panels
      PROVE  MemHas(p) /\ RowHas(p) /\ MemGone(p)
  BY <1>1, <1>3 DEF MemHas, RowHas, MemGone, Has
<1>6. ASSUME NEW p \in scenario.panels, NEW r \in Reqs
      PROVE  InHand(p, r)
  BY <1>2 DEF InHand, Early, Building
<1> QED
  BY <1>4, <1>5, <1>6 DEF AloneInv, OpenKept

(* An open window waits for the one request there is.                         *)
LEMMA OnlyRequest ==
    ASSUME IInv, Alone(scenario), AloneInv, NEW p \in scenario.panels, Open(p), NEW r \in Reqs, ~Ended(r)
    PROVE  /\ rq[r].live /\ rq[r].panel = p /\ rq[r].pc \in Chatting
           /\ panel[p].state = "streaming" /\ panel[p].view # <<>>
           /\ \A q \in Reqs : ~Ended(q) => q = r
           /\ \A w \in scenario.panels : w = p
<1>1. \A w \in scenario.panels : w = p
  BY OneWindow DEF IInv, Alone
<1>2. \A q \in Reqs : ~Ended(q) => Listened(q) /\ rq[q].pc \in Chatting
  BY DEF AloneInv, AlonePcs, Listened
<1>3. \A q \in Reqs : ~Ended(q) => rq[q].panel = p
  BY <1>1, <1>2 DEF IInv, Listening
<1> QED
  BY <1>1, <1>2, <1>3 DEF IInv, Listening, Listened

(* A request nobody waits for.                                                *)
LEMMA AloneUnheard ==
    ASSUME IInv, Alone(scenario), AloneInv, NEW r \in Reqs, NEW pc, pc \in Chatting \cup {"done", "failed"},
           ~Ended(r), Proceeds(r, pc), scenario' = scenario,
           \A p \in scenario.panels : ~Open(p),
           row' = row \/ row'.stored,
           panel' = panel \/ (\E msg : panel' = Deliver(r, msg))
    PROVE  AloneInv'
<1>1. ~rq[r].live
  BY DEF Open, AloneInv, AlonePcs, IInv, Listening, Listened
<1>2. panel' = panel
  BY <1>1 DEF Deliver
<1>3. \A p \in scenario.panels : ~Open(p)' /\ ~Emptied(p)'
  BY <1>2 DEF Open, Emptied
<1>4. AloneStates'
  BY <1>2, <1>3 DEF AloneInv, AloneStates, Open, Again
<1>5. AlonePcs'
  BY <1>3 DEF AloneInv, AlonePcs, Proceeds, Ended
<1> QED
  BY <1>3, <1>4, <1>5 DEF AloneInv

(* The request of the window goes on.                                         *)
LEMMA AloneGoesOn ==
    ASSUME IInv, Alone(scenario), AloneInv, NEW p \in scenario.panels, Open(p), NEW r \in Reqs, ~Ended(r),
           NEW pc, pc \in Chatting, Proceeds(r, pc), UNCHANGED <<scenario, panel>>,
           row' = row \/ row'.stored,
           mem' # 0 => AnswersOf(panel[p].view) \subseteq AnswersOf(heap'[mem'].messages),
           \/ AnswersOf(panel[p].view) \subseteq AnswersOf(row'.messages)
           \/ Again /\ ~row'.stored /\ (pc = "saveNew" \/ (mem' = 0 /\ pc \in Building)),
           Again /\ mem' = 0 => pc \in Building,
           InHand(p, r)'
    PROVE  AloneInv'
<1>1. /\ panel[p].state = "streaming" /\ panel[p].view # <<>> /\ rq[r].live
      /\ \A q \in Reqs : ~Ended(q) => q = r
      /\ \A w \in scenario.panels : w = p
  BY OnlyRequest
<1>2. /\ rq'[r].pc = pc /\ rq'[r].live /\ ~Ended(r)'
      /\ \A q \in Reqs : q # r => rq'[q] = rq[q] /\ Ended(q) /\ Ended(q)'
  BY <1>1 DEF Proceeds, Ended, Chatting
<1>3. \A w \in scenario.panels : w = p /\ Open(w)' /\ ~Emptied(w)' /\ panel'[w].state = "streaming"
  BY <1>1 DEF Open, Emptied
<1>4. AloneStates'
  BY <1>3 DEF AloneInv, AloneStates
<1>5. AlonePcs'
  BY <1>2 DEF AlonePcs
<1>6. MemHas(p)' /\ RowHas(p)'
  BY <1>2 DEF MemHas, RowHas, Has, RowGone, Again
<1>7. MemGone(p)'
  BY <1>2, <1>3 DEF MemGone, Again
<1>8. ASSUME NEW q \in Reqs, q # r
      PROVE  InHand(p, q)'
  BY <1>2, <1>8 DEF InHand, Ended, Early, Building
<1> QED
  BY <1>3, <1>4, <1>5, <1>6, <1>7, <1>8 DEF AloneInv, OpenKept

(* The request of the window ends.                                            *)
LEMMA AloneEnds ==
    ASSUME IInv, Alone(scenario), AloneInv, NEW p \in scenario.panels, Open(p), NEW r \in Reqs, ~Ended(r),
           NEW pc, pc \in {"done", "failed"}, Proceeds(r, pc), UNCHANGED <<scenario, mem, row>>,
           NEW msg \in Bubbles, panel' = Deliver(r, msg), rq[r].pc \notin Building \cup {"saveNew"},
           mem # 0 => heap'[mem].messages = heap[mem].messages,
           msg.role = "assistant" => /\ msg \in AnswersOf(row.messages)
                                     /\ mem # 0 => msg \in AnswersOf(heap[mem].messages)
    PROVE  AloneInv'
<1>1. /\ panel[p].state = "streaming" /\ rq[r].live /\ rq[r].panel = p
      /\ \A q \in Reqs : ~Ended(q) => q = r
      /\ \A w \in scenario.panels : w = p
  BY OnlyRequest
<1>2. \A q \in Reqs : Ended(q)'
  BY <1>1 DEF Proceeds, Ended
<1>3. panel'[p].state = "idle" /\ panel'[p].view = Append(panel[p].view, msg)
  BY <1>1, Delivered DEF IInv
<1>4. panel[p].view \in Seq(Bubbles)
  BY DEF IInv, Typed, PanelType
<1>5. /\ panel'[p].view # <<>>
      /\ AnswersOf(panel'[p].view) \subseteq AnswersOf(panel[p].view) \cup (IF msg.role = "assistant" THEN {msg} ELSE {})
  BY <1>3, <1>4, AnswersAppended, LastAppended
<1>6. \A q \in Reqs : rq[q].pc \notin Building \cup {"saveNew"}
  BY <1>1 DEF Ended, Building
<1>7. MemHas(p) /\ RowHas(p) /\ MemGone(p)
  BY DEF AloneInv, OpenKept
<1>8. Has(row.messages, p) /\ ~(Again /\ mem = 0)
  BY <1>1, <1>6, <1>7 DEF RowHas, RowGone, MemGone
<1>9. MemHas(p)' /\ RowHas(p)'
  BY <1>5, <1>7, <1>8 DEF MemHas, RowHas, Has
<1>10. MemGone(p)'
  BY <1>3, <1>8 DEF MemGone, Again
<1>11. \A q \in Reqs : InHand(p, q)'
  BY <1>2 DEF InHand, Ended, Early, Building
<1>12. AloneStates'
  BY <1>1, <1>3, <1>5 DEF AloneInv, AloneStates, Open, Emptied
<1>13. AlonePcs'
  BY <1>2 DEF AlonePcs
<1> QED
  BY <1>1, <1>9, <1>10, <1>11, <1>12, <1>13 DEF AloneInv, OpenKept

LEMMA AloneGetting ==
    ASSUME IInv, Alone(scenario), AloneInv, NEW r \in Reqs, GetSession(r)
    PROVE  AloneInv'
<1>1. PICK pc \in {"lock", "restore"} :
         rq' = [rq EXCEPT ![r].pc = pc, ![r].obj = mem] /\ (mem = 0 <=> pc = "restore")
  BY DEF GetSession
<1>2. rq[r].pc = "get" /\ ~Ended(r) /\ UNCHANGED <<scenario, heap, mem, row, panel>> /\ pc \in Chatting
  BY DEF GetSession, Ended, Chatting
<1>3. Proceeds(r, pc) /\ rq'[r].obj = mem /\ rq'[r].from = rq[r].from
  BY <1>1, ProceededWith DEF IInv
<1>4. rq'[r].pc = pc /\ rq'[r].id = rq[r].id /\ rq'[r].history = rq[r].history
  BY <1>3 DEF Proceeds
<1>5. ASSUME NEW p \in scenario.panels, Open(p)
      PROVE  AloneInv'
  <2>1. MemHas(p) /\ RowHas(p) /\ MemGone(p) /\ InHand(p, r)
    BY <1>5 DEF AloneInv, OpenKept
  <2>2. panel[p].state = "streaming" /\ \A q \in Reqs : ~Ended(q) => q = r
    BY <1>2, <1>5, OnlyRequest
  <2>3. \A q \in Reqs : rq[q].pc # "saveNew"
    BY <1>2, <2>2 DEF Ended
  <2>4. Has(row.messages, p) \/ (Again /\ ~row.stored /\ mem = 0)
    BY <2>1, <2>2, <2>3 DEF RowHas, RowGone
  <2>5. InHand(p, r)'
    BY <1>1, <1>2, <1>3, <1>4, <2>1 DEF InHand, Fresh, Has, Early, Building, MemHas
  <2> QED
    BY <1>1, <1>2, <1>3, <1>5, <2>1, <2>4, <2>5, AloneGoesOn DEF MemHas, Has, Building
<1>6. CASE \A p \in scenario.panels : ~Open(p)
  BY <1>2, <1>3, <1>6, AloneUnheard
<1> QED
  BY <1>5, <1>6

LEMMA AloneRestoring ==
    ASSUME IInv, Alone(scenario), AloneInv, NEW r \in Reqs, Restore(r) \/ BuildFails(r)
    PROVE  AloneInv'
<1>1. PICK pc \in {"build", "getAgain"}, from \in {row.messages, rq[r].history}, restoring \in BOOLEAN :
         /\ rq' = [rq EXCEPT ![r].pc = pc, ![r].restoring = restoring, ![r].from = from]
         /\ \/ Restore(r) /\ pc = "build" /\ from = IF row.stored THEN row.messages ELSE rq[r].history
            \/ BuildFails(r) /\ from = rq[r].history
  BY DEF Restore, BuildFails, IInv, Typed
<1>2. rq[r].pc \in {"restore", "build"} /\ ~Ended(r) /\ UNCHANGED <<scenario, heap, mem, row, panel>> /\ pc \in Chatting
  BY <1>1 DEF Restore, BuildFails, Ended, Chatting
<1>3. /\ Proceeds(r, pc) /\ rq'[r].from = from /\ rq'[r].pc = pc /\ rq'[r].id = rq[r].id
      /\ rq'[r].history = rq[r].history
  BY <1>1 DEF IInv, Typed, Request, Proceeds
<1>5. ASSUME NEW p \in scenario.panels, Open(p)
      PROVE  AloneInv'
  <2>1. MemHas(p) /\ RowHas(p) /\ MemGone(p) /\ InHand(p, r)
    BY <1>5 DEF AloneInv, OpenKept
  <2>2. panel[p].state = "streaming" /\ rq[r].live /\ \A q \in Reqs : ~Ended(q) => q = r
    BY <1>2, <1>5, OnlyRequest
  <2>3. \A q \in Reqs : rq[q].pc # "saveNew"
    BY <1>2, <2>2 DEF Ended
  <2>4. Has(row.messages, p) \/ (Again /\ ~row.stored /\ mem = 0)
    BY <2>1, <2>2, <2>3 DEF RowHas, RowGone
  <2>5. BuildFails(r) => ~Again
    BY <2>2 DEF BuildFails, Alone, Again
  <2>6. Has(from, p) /\ Fresh(from, r)
    BY <1>1, <1>2, <2>1, <2>4 DEF InHand, Early, Building
  <2>7. InHand(p, r)'
    BY <1>1, <1>2, <1>3, <2>1, <2>6 DEF InHand, Fresh, Has, Early, Building
  <2> QED
    BY <1>1, <1>2, <1>3, <1>5, <2>1, <2>4, <2>5, <2>7, AloneGoesOn DEF MemHas, Has, Building
<1>6. CASE \A p \in scenario.panels : ~Open(p)
  BY <1>2, <1>3, <1>6, AloneUnheard
<1> QED
  BY <1>5, <1>6

LEMMA AloneBuilding ==
    ASSUME IInv, Alone(scenario), AloneInv, NEW r \in Reqs, Build(r)
    PROVE  AloneInv'
<1> DEFINE obj == [messages |-> DedupeConsecutiveUser(rq[r].from), lock |-> 0]
           o == Len(heap) + 1
<1>1. /\ rq[r].pc = "build" /\ ~Ended(r) /\ UNCHANGED <<scenario, row, panel>> /\ "saveNew" \in Chatting
      /\ heap' = Append(heap, obj) /\ mem' = o
      /\ rq' = [rq EXCEPT ![r].pc = "saveNew", ![r].obj = o, ![r].from = <<>>]
  BY DEF Build, Ended, Chatting
<1>2. /\ Proceeds(r, "saveNew") /\ rq'[r].obj = o /\ rq'[r].pc = "saveNew" /\ rq'[r].id = rq[r].id
      /\ rq'[r].history = rq[r].history
  BY <1>1 DEF IInv, Typed, Request, Proceeds
<1>3. heap'[o].messages = DedupeConsecutiveUser(rq[r].from) /\ o # 0
  <2>1. heap \in Seq(Objs) /\ Len(heap) \in Nat
    BY DEF IInv, Typed, Objs
  <2>2. heap'[o] = obj
    BY <1>1, <2>1
  <2> QED
    BY <2>1, <2>2
<1> HIDE DEF obj, o
<1>4. /\ AnswersOf(heap'[o].messages) = AnswersOf(rq[r].from)
      /\ WithMsgID(rq[r].from, rq[r].id) = {} => WithMsgID(heap'[o].messages, rq[r].id) = {}
  <2>1. rq[r].from \in Seq(Message)
    BY DEF IInv, Typed, Request
  <2> QED
    BY <1>3, <2>1, DedupeKeeps
<1>5. ASSUME NEW p \in scenario.panels, Open(p)
      PROVE  AloneInv'
  <2>1. MemHas(p) /\ RowHas(p) /\ MemGone(p) /\ InHand(p, r)
    BY <1>5 DEF AloneInv, OpenKept
  <2>2. panel[p].state = "streaming"
    BY <1>1, <1>5, OnlyRequest
  <2>4. Has(row.messages, p) \/ (Again /\ ~row.stored)
    BY <2>1 DEF RowHas, RowGone
  <2>6. Has(heap'[o].messages, p) /\ WithMsgID(heap'[o].messages, rq[r].id) = {}
    BY <1>1, <1>4, <2>1 DEF InHand, Fresh, Has
  <2>7. InHand(p, r)'
    BY <1>1, <1>2, <2>1, <2>6 DEF InHand, Fresh, Has, Early, Building
  <2> QED
    BY <1>1, <1>2, <1>3, <1>5, <2>4, <2>6, <2>7, AloneGoesOn DEF Has
<1>6. CASE \A p \in scenario.panels : ~Open(p)
  BY <1>1, <1>2, <1>6, AloneUnheard
<1> QED
  BY <1>5, <1>6

LEMMA AloneSavingNew ==
    ASSUME IInv, Alone(scenario), AloneInv, NEW r \in Reqs, SaveNew(r)
    PROVE  AloneInv'
<1>1. /\ rq[r].pc = "saveNew" /\ ~Ended(r) /\ UNCHANGED <<scenario, heap, mem, panel>> /\ Goto(r, "getAgain")
      /\ "getAgain" \in Chatting /\ row' = Row(heap[rq[r].obj].messages)
  BY DEF SaveNew, Ended, Chatting, Saved, Alone
<1>2. row'.stored /\ row'.messages = heap[rq[r].obj].messages
  BY <1>1 DEF Row
<1>3. /\ Proceeds(r, "getAgain") /\ rq'[r].pc = "getAgain" /\ rq'[r].id = rq[r].id
      /\ rq'[r].history = rq[r].history
  BY <1>1, Proceeded DEF IInv, Proceeds
<1>5. ASSUME NEW p \in scenario.panels, Open(p)
      PROVE  AloneInv'
  <2>1. MemHas(p) /\ MemGone(p) /\ InHand(p, r)
    BY <1>5 DEF AloneInv, OpenKept
  <2>2. panel[p].state = "streaming" /\ \A q \in Reqs : ~Ended(q) => q = r
    BY <1>1, <1>5, OnlyRequest
  <2>3. \A q \in Reqs : rq[q].pc \notin Building
    BY <1>1, <2>2 DEF Ended, Building
  <2>4. ~(Again /\ mem = 0)
    BY <2>1, <2>2, <2>3 DEF MemGone
  <2>6. Has(row'.messages, p) /\ WithMsgID(row'.messages, rq[r].id) = {}
    BY <1>1, <1>2, <2>1 DEF InHand, Fresh
  <2>7. InHand(p, r)'
    BY <1>1, <1>3, <2>1, <2>6 DEF InHand, Fresh, Has, Early, Building
  <2> QED
    BY <1>1, <1>2, <1>3, <1>5, <2>1, <2>4, <2>6, <2>7, AloneGoesOn DEF Has, MemHas
<1>6. CASE \A p \in scenario.panels : ~Open(p)
  BY <1>1, <1>2, <1>3, <1>6, AloneUnheard
<1> QED
  BY <1>5, <1>6

LEMMA AloneGettingAgain ==
    ASSUME IInv, Alone(scenario), AloneInv, NEW r \in Reqs, GetAgain(r)
    PROVE  AloneInv'
<1>1. rq[r].pc = "getAgain" /\ ~Ended(r) /\ UNCHANGED <<scenario, heap, mem, row>> /\ "lock" \in Chatting
  BY DEF GetAgain, Ended, Chatting
<1>2. CASE mem = 0
  <2>1. Goto(r, "failed") /\ panel' = Deliver(r, ErrorBubble) /\ ErrorBubble \in Bubbles /\ ErrorBubble.role = "error"
    BY <1>2 DEF GetAgain, Fail, Finish, Goto, ErrorBubble, Bubbles
  <2>2. Proceeds(r, "failed")
    BY <2>1, Proceeded DEF IInv
  <2>3. CASE \A p \in scenario.panels : ~Open(p)
    BY <1>1, <2>1, <2>2, <2>3, AloneUnheard
  <2>4. ASSUME NEW p \in scenario.panels, Open(p)
        PROVE  AloneInv'
    BY <1>1, <2>1, <2>2, <2>4, AloneEnds DEF Building
  <2> QED
    BY <2>3, <2>4
<1>3. CASE mem # 0
  <2>1. rq' = [rq EXCEPT ![r].pc = "lock", ![r].obj = mem] /\ panel' = panel
    BY <1>3 DEF GetAgain
  <2>2. Proceeds(r, "lock") /\ rq'[r].obj = mem
    BY <2>1, ProceededWith DEF IInv
  <2>3. CASE \A p \in scenario.panels : ~Open(p)
    BY <1>1, <2>1, <2>2, <2>3, AloneUnheard
  <2>4. ASSUME NEW p \in scenario.panels, Open(p)
        PROVE  AloneInv'
    <3>1. MemHas(p) /\ RowHas(p) /\ InHand(p, r)
      BY <2>4 DEF AloneInv, OpenKept
    <3>2. panel[p].state = "streaming" /\ \A q \in Reqs : ~Ended(q) => q = r
      BY <1>1, <2>4, OnlyRequest
    <3>3. \A q \in Reqs : rq[q].pc \notin Building \cup {"saveNew"}
      BY <1>1, <3>2 DEF Ended, Building
    <3>4. Has(row.messages, p)
      BY <3>1, <3>2, <3>3 DEF RowHas, RowGone
    <3>5. InHand(p, r)'
      BY <1>1, <1>3, <2>1, <2>2, <3>1 DEF InHand, Fresh, Has, Early, Building, MemHas, Proceeds
    <3> QED
      BY <1>1, <1>3, <2>1, <2>2, <2>4, <3>1, <3>4, <3>5, AloneGoesOn DEF MemHas, Has
  <2> QED
    BY <2>3, <2>4
<1> QED
  BY <1>2, <1>3

LEMMA AloneLocking ==
    ASSUME IInv, Alone(scenario), AloneInv, NEW r \in Reqs, LockSession(r)
    PROVE  AloneInv'
<1> DEFINE msgs == Object(r).messages
           mine == User(rq[r].id, rq[r].task)
           o == rq[r].obj
<1>1. rq[r].pc = "lock" /\ UNCHANGED <<scenario, mem, row, panel>> /\ ~Ended(r) /\ "model" \in Chatting /\ "reply" \in Chatting
  BY DEF LockSession, Ended, Chatting
<1>2. o \in DOMAIN heap /\ Object(r) = heap[o] /\ heap[o] \in Objs /\ msgs = heap[o].messages
  BY <1>1, Held
<1>3. CASE \A p \in scenario.panels : ~Open(p)
  <2>1. Goto(r, "model") \/ \E a : rq' = [rq EXCEPT ![r].pc = "reply", ![r].answer = a]
    BY DEF LockSession, Add, Replay, TakeUp, Ask
  <2>2. Proceeds(r, "model") \/ Proceeds(r, "reply")
    BY <2>1, Proceeded, ProceededAnswering DEF IInv
  <2> QED
    BY <1>1, <1>3, <2>2, AloneUnheard
<1>4. ASSUME NEW p \in scenario.panels, Open(p)
      PROVE  AloneInv'
  <2>1. MemHas(p) /\ RowHas(p) /\ MemGone(p) /\ InHand(p, r)
    BY <1>4 DEF AloneInv, OpenKept
  <2>2. panel[p].state = "streaming" /\ \A q \in Reqs : ~Ended(q) => q = r
    BY <1>1, <1>4, OnlyRequest
  <2>3. \A q \in Reqs : rq[q].pc \notin Building \cup {"saveNew"}
    BY <1>1, <2>2 DEF Ended, Building
  <2>4. Has(row.messages, p) /\ ~(Again /\ mem = 0)
    BY <2>1, <2>2, <2>3 DEF RowHas, RowGone, MemGone
  <2>5. WithMsgID(msgs, rq[r].id) = {} /\ Has(msgs, p) /\ mem \in {0, o}
    BY <1>1, <1>2, <2>1 DEF InHand, Fresh
  <2>6. Add(r)
    BY <2>5 DEF LockSession
  <2>7. PICK s : Ask(r, s) /\ AnswersOf(s) = AnswersOf(msgs)
    <3>1. mine \in Message /\ mine.role = "user" /\ msgs \in Seq(Message)
      <4>1. rq[r].id \in Reqs /\ rq[r].task \in Reqs
        BY <1>1 DEF IInv, Numbers, Chatting, Typed, Request
      <4> QED
        BY <1>2, <4>1 DEF User, Message, Reqs, Objs
    <3>2. CASE EndsWithUser(msgs)
      <4>1. Front(msgs) \in Seq(Message) /\ AnswersOf(Front(msgs)) = AnswersOf(msgs)
        BY <3>1, <3>2, WithoutQuestion
      <4>2. AnswersOf(Append(Front(msgs), mine)) = AnswersOf(msgs)
        BY <3>1, <4>1, AnswersAppended
      <4>3. Ask(r, Append(Front(msgs), mine))
        BY <2>6, <3>2 DEF Add
      <4> QED
        BY <4>2, <4>3
    <3>3. CASE ~EndsWithUser(msgs)
      <4>2. AnswersOf(Append(msgs, mine)) = AnswersOf(msgs)
        BY <3>1, AnswersAppended
      <4>3. Ask(r, Append(msgs, mine))
        BY <2>6, <3>3 DEF Add
      <4> QED
        BY <4>2, <4>3
    <3> QED
      BY <3>2, <3>3
  <2>8. heap' = [heap EXCEPT ![o] = [messages |-> s, lock |-> r]] /\ Goto(r, "model")
    BY <2>7 DEF Ask
  <2>9. heap'[o].messages = s
    BY <1>2, <2>8 DEF IInv, Typed
  <2>10. Proceeds(r, "model") /\ rq'[r].obj = o /\ rq'[r].pc = "model"
    BY <2>8, Proceeded DEF IInv, Proceeds
  <2>11. AnswersOf(panel[p].view) \subseteq AnswersOf(heap'[o].messages)
    BY <2>5, <2>7, <2>9 DEF Has
  <2>12. InHand(p, r)'
    BY <1>1, <2>5, <2>10, <2>11 DEF InHand, Has, Early, Building
  <2> QED
    BY <1>1, <1>4, <2>4, <2>5, <2>10, <2>11, <2>12, AloneGoesOn DEF Has
<1> QED
  BY <1>3, <1>4

LEMMA AloneAnswering ==
    ASSUME IInv, Alone(scenario), AloneInv, NEW r \in Reqs, ModelAnswers(r)
    PROVE  AloneInv'
<1> DEFINE answer == Answer(r, LastTask(Object(r).messages))
           o == rq[r].obj
<1>1. /\ rq[r].pc = "model" /\ UNCHANGED <<scenario, mem, row, panel>> /\ ~Ended(r) /\ "save" \in Chatting
      /\ rq' = [rq EXCEPT ![r].pc = "save", ![r].answer = answer]
      /\ heap' = [heap EXCEPT ![o].messages = Append(@, answer)]
  BY Zenon DEF ModelAnswers, Ended, Chatting
<1>2. o \in DOMAIN heap /\ Object(r) = heap[o] /\ heap[o] \in Objs /\ heap[o].messages \in Seq(Message)
  BY <1>1, Held DEF Objs
<1>3. answer \in Message /\ answer.role = "assistant"
  <2>1. LastTask(heap[o].messages) \in Reqs
    BY <1>1, <1>2, LastAsked, Roles DEF Bubbles, IInv, Hands
  <2> QED
    BY <1>2, <2>1 DEF Answer, Message
<1> HIDE DEF answer
<1>4. heap'[o].messages = Append(heap[o].messages, answer)
  BY <1>1, <1>2 DEF IInv, Typed, Objs
<1>5. Proceeds(r, "save") /\ rq'[r].answer = answer /\ rq'[r].obj = o /\ rq'[r].pc = "save"
  BY <1>1, ProceededAnswering DEF IInv, Proceeds
<1>6. AnswersOf(heap'[o].messages) = AnswersOf(heap[o].messages) \cup {answer}
  BY <1>2, <1>3, <1>4, AnswersAppended
<1>7. CASE \A p \in scenario.panels : ~Open(p)
  BY <1>1, <1>5, <1>7, AloneUnheard
<1>8. ASSUME NEW p \in scenario.panels, Open(p)
      PROVE  AloneInv'
  <2>1. MemHas(p) /\ RowHas(p) /\ MemGone(p) /\ InHand(p, r)
    BY <1>8 DEF AloneInv, OpenKept
  <2>2. panel[p].state = "streaming" /\ \A q \in Reqs : ~Ended(q) => q = r
    BY <1>1, <1>8, OnlyRequest
  <2>3. \A q \in Reqs : rq[q].pc \notin Building \cup {"saveNew"}
    BY <1>1, <2>2 DEF Ended, Building
  <2>4. Has(row.messages, p) /\ ~(Again /\ mem = 0)
    BY <2>1, <2>2, <2>3 DEF RowHas, RowGone, MemGone
  <2>5. AnswersOf(panel[p].view) \subseteq AnswersOf(heap'[o].messages) /\ mem \in {0, o}
    BY <1>1, <1>6, <2>1 DEF InHand, Has
  <2>6. InHand(p, r)'
    BY <1>1, <1>5, <1>6, <2>5 DEF InHand, Has, Early, Building
  <2> QED
    BY <1>1, <1>5, <1>8, <2>4, <2>5, <2>6, AloneGoesOn DEF Has
<1> QED
  BY <1>7, <1>8

LEMMA AloneFailing ==
    ASSUME IInv, Alone(scenario), AloneInv, NEW r \in Reqs, ModelFails(r)
    PROVE  AloneInv'
<1>1. /\ rq[r].pc = "model" /\ UNCHANGED <<scenario, mem, row>> /\ ~Ended(r)
      /\ Goto(r, "failed") /\ panel' = Deliver(r, ErrorBubble) /\ heap' = [heap EXCEPT ![rq[r].obj].lock = 0]
  BY DEF ModelFails, Fail, Finish, Goto, Ended
<1>2. ErrorBubble \in Bubbles /\ ErrorBubble.role = "error"
  BY DEF ErrorBubble, Bubbles
<1>3. Proceeds(r, "failed")
  BY <1>1, Proceeded DEF IInv
<1>4. mem # 0 => heap'[mem].messages = heap[mem].messages
  <2>1. heap \in Seq(Objs) /\ mem \in 0 .. Len(heap) /\ DOMAIN heap = 1 .. Len(heap)
    BY DEF IInv, Typed, Objs
  <2>2. mem # 0 => mem \in DOMAIN heap /\ heap[mem] \in Objs
    BY <2>1
  <2> QED
    BY <1>1, <2>1, <2>2 DEF Objs
<1>5. CASE \A p \in scenario.panels : ~Open(p)
  BY <1>1, <1>3, <1>5, AloneUnheard
<1>6. ASSUME NEW p \in scenario.panels, Open(p)
      PROVE  AloneInv'
  BY <1>1, <1>2, <1>3, <1>4, <1>6, AloneEnds DEF Building
<1> QED
  BY <1>5, <1>6

LEMMA AloneSaving ==
    ASSUME IInv, Alone(scenario), AloneInv, NEW r \in Reqs, SaveChat(r)
    PROVE  AloneInv'
<1> DEFINE o == rq[r].obj
<1>1. /\ rq[r].pc = "save" /\ UNCHANGED <<scenario, mem, panel>> /\ ~Ended(r) /\ "reply" \in Chatting
      /\ Goto(r, "reply") /\ heap' = [heap EXCEPT ![o].lock = 0]
      /\ row' = Row(Object(r).messages)
  BY DEF SaveChat, Ended, Saved, Alone, Chatting
<1>2. o \in DOMAIN heap /\ Object(r) = heap[o] /\ heap[o] \in Objs
  BY <1>1, Held
<1>3. heap'[o].messages = heap[o].messages /\ row'.messages = heap[o].messages /\ row'.stored
  BY <1>1, <1>2 DEF IInv, Typed, Objs, Row
<1>4. Proceeds(r, "reply") /\ rq'[r].answer = rq[r].answer /\ rq'[r].obj = o /\ rq'[r].pc = "reply"
  BY <1>1, Proceeded DEF IInv, Proceeds
<1>5. CASE \A p \in scenario.panels : ~Open(p)
  BY <1>1, <1>3, <1>4, <1>5, AloneUnheard
<1>6. ASSUME NEW p \in scenario.panels, Open(p)
      PROVE  AloneInv'
  <2>1. MemGone(p) /\ InHand(p, r)
    BY <1>6 DEF AloneInv, OpenKept
  <2>2. panel[p].state = "streaming" /\ \A q \in Reqs : ~Ended(q) => q = r
    BY <1>1, <1>6, OnlyRequest
  <2>3. \A q \in Reqs : rq[q].pc \notin Building
    BY <1>1, <2>2 DEF Ended, Building
  <2>4. ~(Again /\ mem = 0)
    BY <2>1, <2>2, <2>3 DEF MemGone
  <2>5. /\ AnswersOf(panel[p].view) \subseteq AnswersOf(heap'[o].messages) /\ mem \in {0, o}
        /\ rq[r].answer \in AnswersOf(heap'[o].messages)
    BY <1>1, <1>3, <2>1 DEF InHand, Has
  <2>6. InHand(p, r)'
    BY <1>1, <1>3, <1>4, <2>5 DEF InHand, Has, Early, Building
  <2> QED
    BY <1>1, <1>3, <1>4, <1>6, <2>4, <2>5, <2>6, AloneGoesOn
<1> QED
  BY <1>5, <1>6

LEMMA AloneReplying ==
    ASSUME IInv, Alone(scenario), AloneInv, NEW r \in Reqs, Reply(r) \/ LoseReply(r)
    PROVE  AloneInv'
<1>1. PICK pc \in {"done", "failed"}, msg \in {rq[r].answer, ErrorBubble} : Finish(r, pc, msg)
  BY DEF Reply, LoseReply, Fail
<1>2. /\ rq[r].pc = "reply" /\ UNCHANGED <<scenario, heap, mem, row>> /\ ~Ended(r)
      /\ Goto(r, pc) /\ panel' = Deliver(r, msg)
  BY <1>1 DEF Reply, LoseReply, Ended, Finish, Goto
<1>3. Proceeds(r, pc)
  BY <1>2, Proceeded DEF IInv
<1>4. msg \in Bubbles /\ (msg.role = "assistant" => msg = rq[r].answer)
  BY <1>2 DEF IInv, Hands, Bubbles, ErrorBubble
<1>5. CASE \A p \in scenario.panels : ~Open(p)
  BY <1>2, <1>3, <1>5, AloneUnheard
<1>6. ASSUME NEW p \in scenario.panels, Open(p)
      PROVE  AloneInv'
  <2>1. InHand(p, r)
    BY <1>6 DEF AloneInv, OpenKept
  <2>2. rq[r].answer \in AnswersOf(row.messages) /\ (mem # 0 => rq[r].answer \in AnswersOf(heap[mem].messages))
    BY <1>2, <2>1 DEF InHand
  <2> QED
    BY <1>2, <1>3, <1>4, <1>6, <2>2, AloneEnds DEF Building
<1> QED
  BY <1>5, <1>6

(* A message is sent from the window, or sent again.                          *)
LEMMA AloneSubmitting ==
    ASSUME IInv, Alone(scenario), AloneInv, NEW p \in scenario.panels, panel[p].state \in {"idle", "resend"},
           NEW r \in Reqs, NEW id, NEW task, NEW seq, Submit(p, r, id, task, panel[p].view, seq),
           UNCHANGED <<scenario, heap, mem, row>>,
           WithMsgID(row.messages, id) = {}, WithMsgID(panel[p].view, id) = {},
           mem # 0 => WithMsgID(heap[mem].messages, id) = {},
           Has(row.messages, p) \/ (Again /\ ~row.stored /\ mem = 0)
    PROVE  AloneInv'
<1> DEFINE view == panel[p].view
           mine == User(id, task)
           new == [Unused EXCEPT !.pc = "get", !.panel = p, !.id = id, !.task = task, !.history = Shown(view), !.live = TRUE]
<1>1. /\ Open(p) /\ panel \in [scenario.panels -> PanelType] /\ rq \in [Reqs -> Request] /\ view \in Seq(Bubbles)
      /\ \A w \in scenario.panels : w = p
  BY OneWindow DEF Open, IInv, Typed, PanelType, Alone
<1>2. \A q \in Reqs : Ended(q)
  BY <1>1, OnlyRequest
<1>3. /\ new.pc = "get" /\ new.live /\ new.id = id /\ new.history = Shown(view)
      /\ rq' = [rq EXCEPT ![r] = new]
      /\ panel' = [panel EXCEPT ![p] = [state |-> "streaming", seq |-> seq, resend |-> <<>>, view |-> Append(view, mine)]]
  BY DEF Submit, Unused
<1> HIDE DEF new
<1>4. /\ rq'[r].pc = "get" /\ rq'[r].live /\ rq'[r].id = id /\ rq'[r].history = Shown(view)
      /\ \A q \in Reqs : q # r => rq'[q] = rq[q]
      /\ panel'[p].state = "streaming" /\ panel'[p].view = Append(view, mine)
  BY <1>1, <1>3
<1>5. Append(view, mine) # <<>> /\ AnswersOf(Append(view, mine)) = AnswersOf(view)
  <2>1. mine.role = "user" /\ view \in Seq(Bubbles \cup {mine}) /\ mine \in Bubbles \cup {mine}
    BY <1>1 DEF User
  <2> QED
    BY <2>1, AnswersAppended, LastAppended
<1>6. AnswersOf(Shown(view)) = AnswersOf(view) /\ WithMsgID(Shown(view), id) = {}
  BY <1>1, ShownKeeps
<1>7. MemHas(p)
  BY <1>1 DEF AloneInv, OpenKept
<1>8. MemHas(p)' /\ RowHas(p)' /\ MemGone(p)'
  BY <1>4, <1>5, <1>7 DEF MemHas, RowHas, RowGone, MemGone, Has, Again, Building
<1>9. InHand(p, r)'
  BY <1>4, <1>5, <1>6 DEF InHand, Fresh, Has
<1>10. ASSUME NEW q \in Reqs, q # r
       PROVE  InHand(p, q)'
  BY <1>2, <1>4, <1>10 DEF InHand, Ended, Early, Building
<1>11. AloneStates'
  BY <1>1, <1>4 DEF AloneInv, AloneStates, Open, Emptied
<1>12. AlonePcs'
  BY <1>2, <1>4 DEF AlonePcs, Ended, Chatting
<1> QED
  BY <1>1, <1>8, <1>9, <1>10, <1>11, <1>12 DEF AloneInv, OpenKept

LEMMA AloneSending ==
    ASSUME IInv, Alone(scenario), AloneInv, NEW p \in scenario.panels, NEW r \in Reqs, Send(p, r)
    PROVE  AloneInv'
<1> DEFINE id == panel[p].seq + 1
<1>1. panel[p].state = "idle" /\ Open(p) /\ Submit(p, r, id, r, panel[p].view, id) /\ UNCHANGED <<scenario, heap, mem, row>>
  BY DEF Send, Open
<1>2. OwnNumbers
  BY DEF OwnNumbers, Alone
<1>3. panel[p].seq \in Nat /\ \A q \in Reqs : rq[q].id <= panel[p].seq /\ rq[q].id \in Nat
  <2>1. panel[p].seq \in Reqs \cup {0}
    BY DEF IInv, Typed, PanelType
  <2>2. \A q \in Reqs : rq[q].id \in Reqs \cup {0}
    BY DEF IInv, Typed, Request
  <2>3. \A q \in Reqs : rq[q].id <= panel[p].seq
    BY <1>2 DEF IInv, Numbers
  <2>4. panel[p].seq \in Nat
    BY <2>1 DEF Reqs
  <2>5. ASSUME NEW q \in Reqs
        PROVE  rq[q].id \in Nat
    BY <2>2 DEF Reqs
  <2> QED
    BY <2>3, <2>4, <2>5, Zenon
<1>4. ASSUME NEW s, Talk(s, rq, OwnNumbers)
      PROVE  WithMsgID(s, id) = {}
  <2>1. \A i \in DOMAIN s : s[i].role = "user" => \E q \in Reqs : rq[q].id = s[i].id
    BY <1>4 DEF Talk, Sound, Known, Asked
  <2>2. \A q \in Reqs : rq[q].id # id
    BY <1>3
  <2> QED
    BY <2>1, <2>2, NoneUnder
<1>5. WithMsgID(panel[p].view, id) = {}
  <2>1. \A i \in DOMAIN panel[p].view : panel[p].view[i].role = "user" => \E q \in Reqs : rq[q].id = panel[p].view[i].id
    BY DEF IInv, Views, Sound, Known, Asked
  <2>2. \A q \in Reqs : rq[q].id # id
    BY <1>3
  <2> QED
    BY <2>1, <2>2, NoneUnder
<1>6. mem # 0 => mem \in DOMAIN heap
  BY DEF IInv, Typed
<1>7. WithMsgID(row.messages, id) = {} /\ (mem # 0 => WithMsgID(heap[mem].messages, id) = {})
  BY <1>4, <1>6 DEF IInv, Stored, Objects
<1>8. \A q \in Reqs : Ended(q)
  BY <1>1, OnlyRequest
<1>9. Has(row.messages, p)
  BY <1>1, <1>8 DEF AloneInv, OpenKept, RowHas, RowGone, Ended, Building
<1> HIDE DEF id
<1> QED
  BY <1>1, <1>5, <1>7, <1>9, AloneSubmitting

LEMMA AloneResending ==
    ASSUME IInv, Alone(scenario), AloneInv, NEW p \in scenario.panels, NEW r \in Reqs, Resend(p, r)
    PROVE  AloneInv'
<1> DEFINE m == panel[p].resend[1]
<1>1. /\ panel[p].state = "resend" /\ Open(p) /\ UNCHANGED <<scenario, heap, mem, row>>
      /\ Submit(p, r, m.id, m.task, panel[p].view, panel[p].seq)
  BY DEF Resend, Open
<1>2. WithMsgID(panel[p].view, m.id) = {}
  BY <1>1, NoneUnder DEF IInv, Resends
<1>3. Again /\ mem = 0 /\ ~row.stored /\ row.messages = <<>>
  BY <1>1 DEF AloneInv, AloneStates, OpenKept, MemGone
<1>4. WithMsgID(row.messages, m.id) = {}
  BY <1>3, NoMessages
<1> HIDE DEF m
<1> QED
  BY <1>1, <1>2, <1>3, <1>4, AloneSubmitting

(* The window forgets, or the session is deleted behind it.                   *)
LEMMA AloneRetrying ==
    ASSUME IInv, Alone(scenario), AloneInv, NEW p \in scenario.panels, NEW i, Retry(p, i)
    PROVE  AloneInv'
<1> DEFINE before == {u \in UsersOf(panel[p].view) : u < i}
           n == Max(before) - 1
<1>1. /\ UNCHANGED <<scenario, heap, mem, row, rq>> /\ panel[p].state = "idle" /\ Again /\ Open(p)
      /\ panel \in [scenario.panels -> PanelType] /\ panel[p].view \in Seq(Bubbles)
      /\ before # {}
      /\ panel' = [panel EXCEPT ![p].state = "deleting", ![p].view = SubSeq(@, 1, n),
                                ![p].resend = <<panel[p].view[Max(before)]>>]
  BY Zenon DEF Retry, Again, Open, IInv, Typed, PanelType
<1>2. n \in 0 .. Len(panel[p].view)
  <2> DEFINE view == panel[p].view
  <2>5. view \in Seq(Bubbles)
    BY <1>1
  <2>6. Len(view) \in Nat /\ DOMAIN view = 1 .. Len(view)
    <3> HIDE DEF before, n, view
    <3> QED
      BY <2>5
  <2>1. Len(panel[p].view) \in Nat /\ DOMAIN panel[p].view = 1 .. Len(panel[p].view)
    BY <2>6
  <2>2. before \in SUBSET (0 .. Len(panel[p].view)) /\ \A u \in before : u \in 1 .. Len(panel[p].view)
    BY <2>1 DEF UsersOf, Indices
  <2>3. Max(before) \in before
    BY <1>1, <2>1, <2>2, MaxOf
  <2>4. Max(before) \in 1 .. Len(panel[p].view)
    BY <2>2, <2>3
  <2> QED
    BY <2>1, <2>4
<1> HIDE DEF before, n
<1>3. panel'[p].state = "deleting" /\ panel'[p].view = SubSeq(panel[p].view, 1, n)
  BY <1>1 DEF PanelType
<1>4. AnswersOf(panel'[p].view) \subseteq AnswersOf(panel[p].view)
  BY <1>1, <1>2, <1>3, AnswersOfHead
<1>5. \A q \in Reqs : Ended(q) /\ Ended(q)'
  BY <1>1, OnlyRequest DEF Ended
<1>6. MemHas(p) /\ RowHas(p) /\ MemGone(p)
  BY <1>1 DEF AloneInv, OpenKept
<1>7. MemHas(p)' /\ RowHas(p)' /\ MemGone(p)'
  BY <1>1, <1>3, <1>4, <1>5, <1>6 DEF MemHas, RowHas, RowGone, MemGone, Has, Again, Ended, Building
<1>8. \A q \in Reqs : InHand(p, q)'
  BY <1>5 DEF InHand, Ended, Early, Building
<1>9. \A w \in scenario.panels : w = p
  BY OneWindow DEF IInv, Alone
<1>10. AloneStates'
  BY <1>1, <1>3, <1>9 DEF AloneInv, AloneStates, Open, Emptied, Again
<1>11. AlonePcs'
  BY <1>5 DEF AlonePcs
<1> QED
  BY <1>1, <1>7, <1>8, <1>9, <1>10, <1>11 DEF AloneInv, OpenKept

LEMMA AloneDeleting ==
    ASSUME IInv, Alone(scenario), AloneInv, NEW p \in scenario.panels, DeleteEntry(p) \/ DeleteRow(p)
    PROVE  AloneInv'
<1>1. /\ UNCHANGED <<scenario, heap, rq>> /\ panel[p].state \in {"deleting", "deleteRow"} /\ Open(p)
      /\ panel \in [scenario.panels -> PanelType] /\ mem' = 0
      /\ row' = row \/ row' = NoRow
  BY DEF DeleteEntry, DeleteRow, Open, IInv, Typed, AloneInv, OpenKept, MemGone, AloneStates
<1>2. \A q \in Reqs : Ended(q) /\ Ended(q)'
  BY <1>1, OnlyRequest DEF Ended
<1>3. MemHas(p) /\ RowHas(p) /\ MemGone(p) /\ Again
  BY <1>1 DEF AloneInv, OpenKept, AloneStates
<1>4. PICK st \in {"deleteRow", "resend"} :
         /\ panel' = [panel EXCEPT ![p].state = st]
         /\ st = "deleteRow" => row' = row
         /\ st = "resend" => row' = NoRow
  <2>1. panel[p].state = "deleting" => mem # 0
    BY <1>2, <1>3 DEF MemGone, Ended, Building
  <2> QED
    BY <2>1 DEF DeleteEntry, DeleteRow
<1>5. panel'[p].state = st /\ panel'[p].view = panel[p].view
  BY <1>1, <1>4 DEF PanelType
<1>6. st = "deleteRow" => Has(row.messages, p)
  <2>1. st = "deleteRow" => panel[p].state = "deleting"
    BY <1>1, <1>4 DEF DeleteEntry, DeleteRow, PanelType
  <2> QED
    BY <1>2, <1>3, <2>1 DEF RowHas, RowGone, Ended, Building
<1>7. MemHas(p)' /\ RowHas(p)' /\ MemGone(p)'
  BY <1>1, <1>3, <1>4, <1>5, <1>6 DEF MemHas, RowHas, RowGone, MemGone, Has, Again, NoRow
<1>8. \A q \in Reqs : InHand(p, q)'
  BY <1>2 DEF InHand, Ended, Early, Building
<1>9. \A w \in scenario.panels : w = p
  BY OneWindow DEF IInv, Alone
<1>10. AloneStates'
  BY <1>1, <1>3, <1>4, <1>5, <1>9 DEF AloneInv, AloneStates, Open, Emptied, Again, NoRow
<1>11. AlonePcs'
  BY <1>2 DEF AlonePcs
<1> QED
  BY <1>1, <1>7, <1>8, <1>9, <1>10, <1>11 DEF AloneInv, OpenKept

LEMMA AloneClosing ==
    ASSUME IInv, Alone(scenario), AloneInv, NEW p \in scenario.panels,
           CloseTab(p) \/ DeleteRowByTab(p) \/ DeleteEntryByTab(p)
    PROVE  AloneInv'
<1>1. PICK st \in {"closing", "closingEntry", "closed"} : panel' = [panel EXCEPT ![p].state = st]
  BY DEF CloseTab, DeleteRowByTab, DeleteEntryByTab
<1>2. /\ scenario' = scenario /\ panel \in [scenario.panels -> PanelType] /\ (row' = row \/ row' = NoRow)
      /\ rq' = rq \/ rq' = Cancelled(p)
  BY DEF CloseTab, DeleteRowByTab, DeleteEntryByTab, IInv, Typed
<1>3. \A w \in scenario.panels : w = p
  BY OneWindow DEF IInv, Alone
<1>4. \A w \in scenario.panels : panel'[w].state = st
  BY <1>1, <1>2, <1>3 DEF PanelType
<1>5. \A q \in Reqs : rq'[q].pc = rq[q].pc
  BY <1>2, CancelledRequests
<1>6. AloneStates'
  BY <1>2, <1>4 DEF AloneInv, AloneStates, Open, Emptied, Again, NoRow
<1>7. AlonePcs'
  BY <1>2, <1>4, <1>5 DEF AloneInv, AlonePcs, Ended, Open
<1>8. \A w \in scenario.panels : ~Open(w)'
  BY <1>4 DEF Open
<1> QED
  BY <1>2, <1>6, <1>7, <1>8 DEF AloneInv

LEMMA AloneEvicted ==
    ASSUME IInv, Alone(scenario), AloneInv, Evict
    PROVE  AloneInv'
<1>1. mem' = 0 /\ UNCHANGED <<scenario, heap, row, rq, panel>> /\ ~Again
  BY DEF Evict, Alone, Again
<1>2. AloneStates' /\ AlonePcs'
  BY <1>1 DEF AloneInv, AloneStates, AlonePcs, Open, Emptied, Again, Ended
<1>3. ASSUME NEW p \in scenario.panels, Open(p)
      PROVE  OpenKept(p)'
  <2>1. MemHas(p)' /\ RowHas(p)' /\ MemGone(p)'
    BY <1>1, <1>3 DEF AloneInv, OpenKept, MemHas, RowHas, RowGone, MemGone, Has, Again
  <2>2. ASSUME NEW q \in Reqs
        PROVE  InHand(p, q)'
    BY <1>1, <1>3 DEF AloneInv, OpenKept, InHand, Has, Fresh, Early, Building
  <2> QED
    BY <2>1, <2>2 DEF OpenKept
<1> QED
  BY <1>1, <1>2, <1>3 DEF AloneInv, Open

LEMMA AloneCrashed ==
    ASSUME IInv, Alone(scenario), AloneInv, Crash
    PROVE  AloneInv'
<1>1. mem' = 0 /\ UNCHANGED <<scenario, row>> /\ ~Again
  BY DEF Crash, Alone, Again
<1>2. \A q \in Reqs : Ended(q)'
  BY DEF Crash, Ended, IInv, Typed, Request
<1>3. ASSUME NEW p \in scenario.panels
      PROVE  /\ Open(p)' => /\ Open(p) /\ AnswersOf(panel'[p].view) = AnswersOf(panel[p].view)
                            /\ panel'[p].state \in {"idle"}
             /\ Open(p)' \/ panel'[p].state \in {"closing", "closingEntry", "closed"}
             /\ Emptied(p)' => Emptied(p)
  <2>1. panel[p] \in PanelType /\ panel[p].view \in Seq(Bubbles)
    BY DEF IInv, Typed, PanelType
  <2>2. /\ panel[p].state \in {"idle", "streaming", "closing", "closingEntry", "closed"}
    BY <1>1 DEF AloneInv, AloneStates, Open
  <2>3. panel'[p] = IF panel[p].state = "streaming"
                    THEN [panel[p] EXCEPT !.state = "idle", !.view = Append(panel[p].view, ErrorBubble)]
                    ELSE IF panel[p].state \in {"closing", "closingEntry"} THEN [panel[p] EXCEPT !.state = "closed"]
                    ELSE panel[p]
    BY <2>2 DEF Crash
  <2>4. ErrorBubble \in Bubbles /\ ErrorBubble.role # "assistant"
    BY DEF ErrorBubble, Bubbles
  <2>5. CASE panel[p].state = "streaming"
    <3>1. panel'[p].state = "idle" /\ panel'[p].view = Append(panel[p].view, ErrorBubble)
      BY <2>1, <2>3, <2>5 DEF PanelType
    <3>2. Append(panel[p].view, ErrorBubble) # <<>> /\ AnswersOf(Append(panel[p].view, ErrorBubble)) = AnswersOf(panel[p].view)
      BY <2>1, <2>4, AnswersAppended, LastAppended
    <3> QED
      BY <2>5, <3>1, <3>2 DEF Open, Emptied
  <2>6. CASE panel[p].state \in {"closing", "closingEntry"}
    BY <2>1, <2>3, <2>6 DEF PanelType, Open, Emptied
  <2>7. CASE panel[p].state \in {"idle", "closed"}
    BY <2>3, <2>7 DEF Open, Emptied
  <2> QED
    BY <2>2, <2>5, <2>6, <2>7
<1>4. AloneStates'
  BY <1>1, <1>3 DEF AloneInv, AloneStates, Open
<1>5. AlonePcs'
  BY <1>2 DEF AlonePcs
<1>6. ASSUME NEW p \in scenario.panels, Open(p)'
      PROVE  OpenKept(p)'
  <2>1. RowHas(p)' /\ MemHas(p)' /\ MemGone(p)'
    BY <1>1, <1>3, <1>6 DEF AloneInv, OpenKept, MemHas, RowHas, RowGone, MemGone, Has, Again
  <2>2. ASSUME NEW q \in Reqs
        PROVE  InHand(p, q)'
    BY <1>2 DEF InHand, Ended, Early, Building
  <2> QED
    BY <2>1, <2>2 DEF OpenKept
<1> QED
  BY <1>1, <1>4, <1>5, <1>6 DEF AloneInv

LEMMA AloneNext ==
    ASSUME IInv, [Next]_vars, Alone(scenario), AloneInv
    PROVE  AloneInv'
<1>1. ASSUME NEW r \in Reqs, ChatStep(r) \/ ResetStep(r)
      PROVE  AloneInv'
  <2>1. ~ResetStep(r)
    BY DEF AloneInv, AlonePcs, Ended, Chatting, ResetStep, ResetGet, ResetLocked, ResetSave, ResetLoad, ResetStore
  <2> QED
    BY <1>1, <2>1, AloneGetting, AloneRestoring, AloneBuilding, AloneSavingNew, AloneGettingAgain, AloneLocking,
       AloneAnswering, AloneFailing, AloneSaving, AloneReplying DEF ChatStep
<1>2. ASSUME NEW p \in scenario.panels, PanelStep(p) \/ UserMove(p)
      PROVE  AloneInv'
  <2>1. ~Stop(p) /\ ~Reload(p) /\ \A r : ~Reset(p, r)
    BY DEF Alone, Stop, Reload, Reset
  <2> QED
    BY <1>2, <2>1, AloneSending, AloneResending, AloneRetrying, AloneDeleting, AloneClosing DEF PanelStep, UserMove
<1>3. CASE UNCHANGED vars
  <2>1. UNCHANGED <<scenario, heap, mem, row, rq, panel>>
    BY <1>3 DEF vars
  <2>2. AloneStates' /\ AlonePcs'
    BY <2>1 DEF AloneInv, AloneStates, AlonePcs, Open, Emptied, Again, Ended
  <2>3. ASSUME NEW p \in scenario.panels, Open(p)
        PROVE  OpenKept(p)'
    BY <2>1, <2>3 DEF AloneInv, OpenKept, MemHas, RowHas, RowGone, MemGone, Has, Again, InHand, Fresh, Early, Building
  <2> QED
    BY <2>1, <2>2, <2>3 DEF AloneInv, Open
<1> QED
  BY <1>1, <1>2, <1>3, AloneEvicted, AloneCrashed DEF Next

LEMMA AloneKept ==
    ASSUME IInv, Alone(scenario), AloneInv
    PROVE  ConversationKept
<1>1. NoRoundLost
  <2>1. SUFFICES ASSUME \A r \in Reqs : Ended(r), NEW p \in scenario.panels, panel[p].state = "idle"
                 PROVE  Has(row.messages, p)
    BY DEF NoRoundLost, Quiet, Has
  <2> QED
    BY <2>1 DEF AloneInv, OpenKept, Open, RowHas, RowGone, Ended, Building
<1>2. ResetForgets
  BY DEF ResetForgets, AloneInv, AloneStates
<1> QED
  BY <1>1, <1>2 DEF ConversationKept

-----------------------------------------------------------------------------
KeptInv == (Steady(scenario) => SteadyInv) /\ (Alone(scenario) => AloneInv)

LEMMA SameScenario == [Next]_vars => scenario' = scenario
BY DEF Next, vars, ChatStep, ResetStep, PanelStep, UserMove, GetSession, Restore, Build, BuildFails, SaveNew, GetAgain,
   LockSession, ModelAnswers, ModelFails, SaveChat, Reply, LoseReply, ResetGet, ResetLocked, ResetSave, ResetLoad,
   ResetStore, DeleteEntry, DeleteRow, DeleteRowByTab, DeleteEntryByTab, Send, Resend, Reset, Retry, Stop, CloseTab,
   Reload, Evict, Crash

(* Whatever happens in an order nobody planned, once nothing is going on every *)
(* answer a window shows is in the stored row (ai.go:666), and a reset that an *)
(* emptied window shows has left no answer behind (ai.go:879): for any number  *)
(* of windows that send, stop, reload and share the object, for one window     *)
(* that resets, and for one window through restarts, evictions, failed         *)
(* rebuilds, lost answers and retries.                                         *)
THEOREM RoundsAreKept ==
    ASSUME \A s \in Scenarios : "save" \in s.faults \/ Steady(s) \/ Alone(s)
    PROVE  Spec => []ConversationKept
<1>1. Init => IInv /\ KeptInv
  BY InitInv, SteadyInit, AloneInit DEF KeptInv
<1>2. IInv /\ KeptInv /\ [Next]_vars => (IInv /\ KeptInv)'
  <2>1. ASSUME IInv, KeptInv, [Next]_vars
        PROVE  KeptInv'
    <3>1. scenario' = scenario
      BY <2>1, SameScenario
    <3>2. Steady(scenario) => SteadyInv'
      BY <2>1, SteadyNext DEF KeptInv
    <3>3. Alone(scenario) => AloneInv'
      BY <2>1, AloneNext DEF KeptInv
    <3> QED
      BY <3>1, <3>2, <3>3 DEF KeptInv
  <2> QED
    BY <2>1, NextInv
<1>3. IInv /\ KeptInv => ConversationKept
  <2>1. ASSUME IInv, KeptInv
        PROVE  ConversationKept
    <3>1. scenario \in Scenarios
      BY <2>1 DEF IInv, Typed
    <3>2. CASE "save" \in scenario.faults
      BY <3>2 DEF ConversationKept, NoRoundLost, ResetForgets, Undisturbed
    <3> QED
      BY <2>1, <3>1, <3>2, SteadyKept, AloneKept DEF KeptInv
  <2> QED
    BY <2>1
<1> QED
  BY <1>1, <1>2, <1>3, PTL DEF Spec

=============================================================================
