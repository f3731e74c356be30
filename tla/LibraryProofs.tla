---------------------------- MODULE LibraryProofs ----------------------------
(***************************************************************************)
(* What is proved of the rest of the library's database: the SQL console's *)
(* tables, the saved tasks and the options of commands, the connections    *)
(* with what hangs on them; and of the whole, that the newest are kept.    *)
(***************************************************************************)
EXTENDS Library, ArtifactProofs,
        FiniteSetTheorems, FunctionTheorems, SequenceTheorems,
        WellFoundedInduction, TLAPS

-----------------------------------------------------------------------------
(* Lists, whatever they hold.                                               *)

IsList(s) == \E S : s \in Seq(S)

LEMMA ListAppend ==
    ASSUME NEW s, IsList(s), NEW e
    PROVE  /\ IsList(Append(s, e)) /\ Len(s) \in Nat /\ Len(Append(s, e)) = Len(s) + 1
           /\ DOMAIN s = 1..Len(s) /\ DOMAIN Append(s, e) = 1..Len(s) + 1
           /\ Append(s, e)[Len(s) + 1] = e
           /\ \A n \in 1..Len(s) : Append(s, e)[n] = s[n]
<1> PICK S : s \in Seq(S)
  BY DEF IsList
<1> DEFINE T == S \cup {e}
<1>1. s \in Seq(T) /\ e \in T
  OBVIOUS
<1>2. Append(s, e) \in Seq(T)
  BY <1>1
<1> HIDE DEF T
<1> QED
  BY <1>1, <1>2 DEF IsList

-----------------------------------------------------------------------------
(* The SQL console: the calls and their results have their shape.            *)

IsCall(r) == \E s, a, t, e : r = [step |-> s, at |-> a, stamp |-> t, seen |-> e]
SqlShape ==
    /\ sqlCase \in SqlCases
    /\ sqlCalls = [c \in SqlCallers |-> sqlCalls[c]] /\ \A c \in SqlCallers : IsCall(sqlCalls[c])
    /\ results  = [c \in SqlCallers |-> results[c]]  /\ \A c \in SqlCallers : IsList(results[c])

(* The call of c goes on with these values, the others stay.                 *)
Moved(c, s, a, t, e) ==
    /\ \A d \in SqlCallers \ {c} : sqlCalls'[d] = sqlCalls[d]
    /\ sqlCalls'[c].step = s /\ sqlCalls'[c].at = a /\ sqlCalls'[c].stamp = t /\ sqlCalls'[c].seen = e

LEMMA CallMoves ==
    ASSUME SqlShape, NEW c \in SqlCallers, NEW s, NEW a, NEW t, NEW e,
           GoSql(c, [step |-> s, at |-> a, stamp |-> t, seen |-> e])
    PROVE  /\ Moved(c, s, a, t, e)
           /\ sqlCalls' = [d \in SqlCallers |-> sqlCalls'[d]] /\ \A d \in SqlCallers : IsCall(sqlCalls'[d])
<1> DEFINE new == [step |-> s, at |-> a, stamp |-> t, seen |-> e]
<1>1. IsCall(new) /\ new.step = s /\ new.at = a /\ new.stamp = t /\ new.seen = e
  BY DEF IsCall
<1> HIDE DEF new
<1>2. sqlCalls' = [sqlCalls EXCEPT ![c] = new]
  BY DEF GoSql, new
<1>3. sqlCalls = [d \in SqlCallers |-> sqlCalls[d]] /\ \A d \in SqlCallers : IsCall(sqlCalls[d])
  BY DEF SqlShape
<1>4. sqlCalls'[c] = new /\ \A d \in SqlCallers \ {c} : sqlCalls'[d] = sqlCalls[d]
  BY <1>2, <1>3
<1>5. sqlCalls' = [d \in SqlCallers |-> sqlCalls'[d]]
  BY <1>2, <1>3
<1> QED
  BY <1>1, <1>3, <1>4, <1>5 DEF Moved

(* The records the actions write, field by field.                            *)
WithStep(r, s) == [r EXCEPT !.step = s]
WithAtStep(r, a, s) == [r EXCEPT !.at = a, !.step = s]
WithStepAt(r, s, a) == [r EXCEPT !.step = s, !.at = a]
WithStamp(r, s, t) == [r EXCEPT !.step = s, !.stamp = t]
WithSeen(r, s, e) == [r EXCEPT !.step = s, !.seen = e]
WithSeenOnly(r, e) == [r EXCEPT !.seen = e]

LEMMA CallFields ==
    ASSUME NEW r, IsCall(r), NEW s, NEW a, NEW t, NEW e
    PROVE  /\ WithStep(r, s) = [step |-> s, at |-> r.at, stamp |-> r.stamp, seen |-> r.seen]
           /\ WithAtStep(r, a, s) = [step |-> s, at |-> a, stamp |-> r.stamp, seen |-> r.seen]
           /\ WithStepAt(r, s, a) = [step |-> s, at |-> a, stamp |-> r.stamp, seen |-> r.seen]
           /\ WithStamp(r, s, t) = [step |-> s, at |-> r.at, stamp |-> t, seen |-> r.seen]
           /\ WithSeen(r, s, e) = [step |-> s, at |-> r.at, stamp |-> r.stamp, seen |-> e]
           /\ WithSeenOnly(r, e) = [step |-> r.step, at |-> r.at, stamp |-> r.stamp, seen |-> e]
<1> PICK s0, a0, t0, e0 : r = [step |-> s0, at |-> a0, stamp |-> t0, seen |-> e0]
  BY DEF IsCall
<1>1. r.step = s0 /\ r.at = a0 /\ r.stamp = t0 /\ r.seen = e0
  OBVIOUS
<1>2. [r EXCEPT !.step = s] = [step |-> s, at |-> a0, stamp |-> t0, seen |-> e0]
  OBVIOUS
<1>3. [r EXCEPT !.at = a, !.step = s] = [step |-> s, at |-> a, stamp |-> t0, seen |-> e0]
  <2>1. [r EXCEPT !.at = a] = [step |-> s0, at |-> a, stamp |-> t0, seen |-> e0]
    OBVIOUS
  <2>2. [[step |-> s0, at |-> a, stamp |-> t0, seen |-> e0] EXCEPT !.step = s] = [step |-> s, at |-> a, stamp |-> t0, seen |-> e0]
    OBVIOUS
  <2> QED
    BY <2>1, <2>2, Zenon
<1>4. [r EXCEPT !.step = s, !.at = a] = [step |-> s, at |-> a, stamp |-> t0, seen |-> e0]
  <2>1. [r EXCEPT !.step = s] = [step |-> s, at |-> a0, stamp |-> t0, seen |-> e0]
    OBVIOUS
  <2>2. [[step |-> s, at |-> a0, stamp |-> t0, seen |-> e0] EXCEPT !.at = a] = [step |-> s, at |-> a, stamp |-> t0, seen |-> e0]
    OBVIOUS
  <2> QED
    BY <2>1, <2>2, Zenon
<1>5. [r EXCEPT !.step = s, !.stamp = t] = [step |-> s, at |-> a0, stamp |-> t, seen |-> e0]
  <2>1. [r EXCEPT !.step = s] = [step |-> s, at |-> a0, stamp |-> t0, seen |-> e0]
    OBVIOUS
  <2>2. [[step |-> s, at |-> a0, stamp |-> t0, seen |-> e0] EXCEPT !.stamp = t] = [step |-> s, at |-> a0, stamp |-> t, seen |-> e0]
    OBVIOUS
  <2> QED
    BY <2>1, <2>2, Zenon
<1>6. [r EXCEPT !.step = s, !.seen = e] = [step |-> s, at |-> a0, stamp |-> t0, seen |-> e]
  <2>1. [r EXCEPT !.step = s] = [step |-> s, at |-> a0, stamp |-> t0, seen |-> e0]
    OBVIOUS
  <2>2. [[step |-> s, at |-> a0, stamp |-> t0, seen |-> e0] EXCEPT !.seen = e] = [step |-> s, at |-> a0, stamp |-> t0, seen |-> e]
    OBVIOUS
  <2> QED
    BY <2>1, <2>2, Zenon
<1>7. [r EXCEPT !.seen = e] = [step |-> s0, at |-> a0, stamp |-> t0, seen |-> e]
  OBVIOUS
<1> QED
  BY <1>1, <1>2, <1>3, <1>4, <1>5, <1>6, <1>7
     DEF WithStep, WithAtStep, WithStepAt, WithStamp, WithSeen, WithSeenOnly
(* A statement adds its result to the list of its request.                   *)
ResultAdded(c, x) ==
    /\ \A d \in SqlCallers \ {c} : results'[d] = results[d]
    /\ Len(results[c]) \in Nat /\ DOMAIN results[c] = 1..Len(results[c])
    /\ Len(results'[c]) = Len(results[c]) + 1 /\ DOMAIN results'[c] = 1..Len(results[c]) + 1
    /\ results'[c][Len(results[c]) + 1] = x
    /\ \A n \in 1..Len(results[c]) : results'[c][n] = results[c][n]

LEMMA ExecuteMoves ==
    ASSUME SqlShape, NEW c \in SqlCallers, NEW e, Execute(c, e)
    PROVE  /\ ResultAdded(c, Result(req(c).stmts[at(c)], e))
           /\ results' = [d \in SqlCallers |-> results'[d]] /\ \A d \in SqlCallers : IsList(results'[d])
<1> DEFINE x == Result(req(c).stmts[at(c)], e)
<1>1. results' = [results EXCEPT ![c] = Append(results[c], x)]
  BY DEF Execute
<1>2. results = [d \in SqlCallers |-> results[d]] /\ \A d \in SqlCallers : IsList(results[d])
  BY DEF SqlShape
<1> HIDE DEF x
<1>3. results'[c] = Append(results[c], x) /\ \A d \in SqlCallers \ {c} : results'[d] = results[d]
  BY <1>1, <1>2
<1>4. results' = [d \in SqlCallers |-> results'[d]]
  BY <1>1, <1>2
<1>5. IsList(results[c])
  BY <1>2
<1>6. IsList(results'[c]) /\ ResultAdded(c, x)
  BY <1>3, <1>5, ListAppend DEF ResultAdded
<1> QED
  BY <1>2, <1>3, <1>4, <1>6 DEF x

Stamp(c) == sqlCalls[c].stamp
Seen(c)  == sqlCalls[c].seen
StepOf(c) == sqlCalls[c].step
NewCalls == sqlCalls' = [d \in SqlCallers |-> sqlCalls'[d]] /\ \A d \in SqlCallers : IsCall(sqlCalls'[d])

(* What each step does to the calls.                                         *)
LEMMA CallSteps ==
    ASSUME SqlShape, NEW c \in SqlCallers
    PROVE  /\ \A s : SqlStep(c, s) => Moved(c, s, at(c), Stamp(c), Seen(c)) /\ NewCalls
           /\ \A s, a : GoSql(c, WithAtStep(sqlCalls[c], a, s)) =>
                          Moved(c, s, a, Stamp(c), Seen(c)) /\ NewCalls
           /\ \A s, a : GoSql(c, WithStepAt(sqlCalls[c], s, a)) =>
                          Moved(c, s, a, Stamp(c), Seen(c)) /\ NewCalls
           /\ \A s, t : GoSql(c, WithStamp(sqlCalls[c], s, t)) =>
                          Moved(c, s, at(c), t, Seen(c)) /\ NewCalls
           /\ \A s, e : GoSql(c, WithSeen(sqlCalls[c], s, e)) =>
                          Moved(c, s, at(c), Stamp(c), e) /\ NewCalls
           /\ \A e : GoSql(c, WithSeenOnly(sqlCalls[c], e)) =>
                          Moved(c, StepOf(c), at(c), Stamp(c), e) /\ NewCalls
<1> DEFINE r == sqlCalls[c]
<1>1. IsCall(r)
  BY DEF SqlShape
<1> HIDE DEF r
<1>2. \A s, a, t, e : GoSql(c, [step |-> s, at |-> a, stamp |-> t, seen |-> e]) => Moved(c, s, a, t, e) /\ NewCalls
  BY CallMoves DEF NewCalls
<1>3. r.at = at(c) /\ r.stamp = Stamp(c) /\ r.seen = Seen(c) /\ r.step = StepOf(c)
  BY DEF r, at, Stamp, Seen, StepOf
<1>4. \A s : GoSql(c, WithStep(r, s)) => Moved(c, s, at(c), Stamp(c), Seen(c)) /\ NewCalls
  <2> TAKE s
  <2>1. WithStep(r, s) = [step |-> s, at |-> r.at, stamp |-> r.stamp, seen |-> r.seen]
    BY <1>1, CallFields
  <2> QED
    BY <1>2, <1>3, <2>1, Zenon
<1>5. \A s, a : GoSql(c, WithAtStep(r, a, s)) => Moved(c, s, a, Stamp(c), Seen(c)) /\ NewCalls
  <2> TAKE s, a
  <2>1. WithAtStep(r, a, s) = [step |-> s, at |-> a, stamp |-> r.stamp, seen |-> r.seen]
    BY <1>1, CallFields
  <2> QED
    BY <1>2, <1>3, <2>1, Zenon
<1>6. \A s, a : GoSql(c, WithStepAt(r, s, a)) => Moved(c, s, a, Stamp(c), Seen(c)) /\ NewCalls
  <2> TAKE s, a
  <2>1. WithStepAt(r, s, a) = [step |-> s, at |-> a, stamp |-> r.stamp, seen |-> r.seen]
    BY <1>1, CallFields
  <2> QED
    BY <1>2, <1>3, <2>1, Zenon
<1>7. \A s, t : GoSql(c, WithStamp(r, s, t)) => Moved(c, s, at(c), t, Seen(c)) /\ NewCalls
  <2> TAKE s, t
  <2>1. WithStamp(r, s, t) = [step |-> s, at |-> r.at, stamp |-> t, seen |-> r.seen]
    BY <1>1, CallFields
  <2> QED
    BY <1>2, <1>3, <2>1, Zenon
<1>8. \A s, e : GoSql(c, WithSeen(r, s, e)) => Moved(c, s, at(c), Stamp(c), e) /\ NewCalls
  <2> TAKE s, e
  <2>1. WithSeen(r, s, e) = [step |-> s, at |-> r.at, stamp |-> r.stamp, seen |-> e]
    BY <1>1, CallFields
  <2> QED
    BY <1>2, <1>3, <2>1, Zenon
<1>9. \A e : GoSql(c, WithSeenOnly(r, e)) => Moved(c, StepOf(c), at(c), Stamp(c), e) /\ NewCalls
  <2> TAKE e
  <2>1. WithSeenOnly(r, e) = [step |-> r.step, at |-> r.at, stamp |-> r.stamp, seen |-> e]
    BY <1>1, CallFields
  <2> QED
    BY <1>2, <1>3, <2>1, Zenon
<1> QED
  BY <1>4, <1>5, <1>6, <1>7, <1>8, <1>9 DEF r, SqlStep, WithStep
(* The actions, as what they do to one call and its results.                 *)
LEMMA SqlActs ==
    ASSUME SqlShape, NEW c \in SqlCallers
    PROVE  /\ RunStatement(c) => NewCalls /\ \E s \in {"run", "record"} : Moved(c, s, at(c) + 1, Stamp(c), Seen(c))
           /\ AddSQLHistory(c) => NewCalls /\ Moved(c, "trim", at(c), clock, Seen(c))
           /\ TrimRead(c) => NewCalls /\ \/ Moved(c, "audit", at(c), Stamp(c), Seen(c))
                                         \/ \E b \in Boundary(InDomain(c)) : Moved(c, "cut", b, Stamp(c), Seen(c))
           /\ TrimDelete(c) => NewCalls /\ Moved(c, "audit", at(c), Stamp(c), Seen(c))
           /\ HistoryFails(c) => NewCalls /\ Moved(c, "audit", at(c), Stamp(c), Seen(c))
           /\ AuditScript(c) => NewCalls /\ Moved(c, "done", at(c), Stamp(c), Seen(c))
           /\ EditRow(c) => NewCalls /\ Moved(c, "audit", at(c), Stamp(c), Seen(c))
           /\ AuditRow(c) => NewCalls /\ \E s \in {"run", "done"} : Moved(c, s, at(c) + 1, Stamp(c), Seen(c))
           /\ ListForClear(c) => NewCalls /\ \E e : Moved(c, "clear", at(c), Stamp(c), e)
           /\ ClearOne(c) => NewCalls /\ \E e : Moved(c, "clear", at(c), Stamp(c), e)
           /\ Cleared(c) => NewCalls /\ Moved(c, "done", at(c), Stamp(c), Seen(c))
           /\ AddFavorite(c) => NewCalls /\ Moved(c, "done", at(c), Stamp(c), Seen(c))
           /\ DeleteFavorite(c) => NewCalls /\ Moved(c, "done", at(c), Stamp(c), Seen(c))
           /\ ReadFavorite(c) => NewCalls /\ \E s \in {"done", "update"} : \E e : Moved(c, s, at(c), Stamp(c), e)
           /\ UpdateFavorite(c) => NewCalls /\ Moved(c, "done", at(c), Stamp(c), Seen(c))
<1>1. RunStatement(c) => NewCalls /\ \E s \in {"run", "record"} : Moved(c, s, at(c) + 1, Stamp(c), Seen(c))
  <2> SUFFICES ASSUME RunStatement(c) PROVE NewCalls /\ \E s \in {"run", "record"} : Moved(c, s, at(c) + 1, Stamp(c), Seen(c))
    OBVIOUS
  <2> PICK e \in Outcome(req(c).stmts[at(c)]) :
        GoSql(c, [sqlCalls[c] EXCEPT !.at = @ + 1, !.step = IF e.ok /\ More(c) THEN "run" ELSE "record"])
    BY DEF RunStatement
  <2> DEFINE s == IF e.ok /\ More(c) THEN "run" ELSE "record"
  <2>1. GoSql(c, WithAtStep(sqlCalls[c], at(c) + 1, s)) /\ s \in {"run", "record"}
    BY DEF WithAtStep, at
  <2> HIDE DEF s
  <2>2. NewCalls /\ Moved(c, s, at(c) + 1, Stamp(c), Seen(c))
    BY <2>1, CallSteps DEF WithAtStep
  <2> QED
    BY <2>1, <2>2
<1>2. AddSQLHistory(c) => NewCalls /\ Moved(c, "trim", at(c), clock, Seen(c))
  <2> SUFFICES ASSUME AddSQLHistory(c) PROVE NewCalls /\ Moved(c, "trim", at(c), clock, Seen(c))
    OBVIOUS
  <2>1. GoSql(c, WithStamp(sqlCalls[c], "trim", clock))
    BY DEF AddSQLHistory, WithStamp
  <2> QED
    BY <2>1, CallSteps DEF WithStamp
<1>3. TrimRead(c) => NewCalls /\ \/ Moved(c, "audit", at(c), Stamp(c), Seen(c))
                                 \/ \E b \in Boundary(InDomain(c)) : Moved(c, "cut", b, Stamp(c), Seen(c))
  <2> SUFFICES ASSUME TrimRead(c)
               PROVE  NewCalls /\ \/ Moved(c, "audit", at(c), Stamp(c), Seen(c))
                                  \/ \E b \in Boundary(InDomain(c)) : Moved(c, "cut", b, Stamp(c), Seen(c))
    OBVIOUS
  <2>1. CASE SqlStep(c, "audit")
    BY <2>1, CallSteps
  <2>2. CASE \E b \in Boundary(InDomain(c)) : GoSql(c, WithStepAt(sqlCalls[c], "cut", b))
    <3> PICK b \in Boundary(InDomain(c)) : GoSql(c, WithStepAt(sqlCalls[c], "cut", b))
      BY <2>2
    <3>1. NewCalls /\ Moved(c, "cut", b, Stamp(c), Seen(c))
      BY CallSteps DEF WithStepAt
    <3> QED
      BY <3>1
  <2> QED
    BY <2>1, <2>2 DEF TrimRead, WithStepAt
<1>4. EditRow(c) => NewCalls /\ Moved(c, "audit", at(c), Stamp(c), Seen(c))
  BY CallSteps DEF EditRow
<1>5. /\ TrimDelete(c) => NewCalls /\ Moved(c, "audit", at(c), Stamp(c), Seen(c))
      /\ HistoryFails(c) => NewCalls /\ Moved(c, "audit", at(c), Stamp(c), Seen(c))
      /\ AuditScript(c) => NewCalls /\ Moved(c, "done", at(c), Stamp(c), Seen(c))
      /\ Cleared(c) => NewCalls /\ Moved(c, "done", at(c), Stamp(c), Seen(c))
  BY CallSteps DEF TrimDelete, HistoryFails, AuditScript, Cleared
<1>6. /\ AddFavorite(c) => NewCalls /\ Moved(c, "done", at(c), Stamp(c), Seen(c))
      /\ DeleteFavorite(c) => NewCalls /\ Moved(c, "done", at(c), Stamp(c), Seen(c))
      /\ UpdateFavorite(c) => NewCalls /\ Moved(c, "done", at(c), Stamp(c), Seen(c))
  BY CallSteps DEF AddFavorite, DeleteFavorite, UpdateFavorite
<1>7. AuditRow(c) => NewCalls /\ \E s \in {"run", "done"} : Moved(c, s, at(c) + 1, Stamp(c), Seen(c))
  <2> SUFFICES ASSUME AuditRow(c) PROVE NewCalls /\ \E s \in {"run", "done"} : Moved(c, s, at(c) + 1, Stamp(c), Seen(c))
    OBVIOUS
  <2> DEFINE s == IF Last(c).ok /\ More(c) THEN "run" ELSE "done"
  <2>1. GoSql(c, WithAtStep(sqlCalls[c], at(c) + 1, s)) /\ s \in {"run", "done"}
    BY DEF AuditRow, WithAtStep, at
  <2> HIDE DEF s
  <2>2. NewCalls /\ Moved(c, s, at(c) + 1, Stamp(c), Seen(c))
    BY <2>1, CallSteps DEF WithAtStep
  <2> QED
    BY <2>1, <2>2
<1>8. ListForClear(c) => NewCalls /\ \E e : Moved(c, "clear", at(c), Stamp(c), e)
  <2> SUFFICES ASSUME ListForClear(c) PROVE NewCalls /\ \E e : Moved(c, "clear", at(c), Stamp(c), e)
    OBVIOUS
  <2>1. GoSql(c, WithSeen(sqlCalls[c], "clear", InDomain(c)))
    BY DEF ListForClear, WithSeen
  <2>2. NewCalls /\ Moved(c, "clear", at(c), Stamp(c), InDomain(c))
    BY <2>1, CallSteps DEF WithSeen
  <2> QED
    BY <2>2
<1>9. ClearOne(c) => NewCalls /\ \E e : Moved(c, "clear", at(c), Stamp(c), e)
  <2> SUFFICES ASSUME ClearOne(c) PROVE NewCalls /\ \E e : Moved(c, "clear", at(c), Stamp(c), e)
    OBVIOUS
  <2> PICK q \in sqlCalls[c].seen : GoSql(c, [sqlCalls[c] EXCEPT !.seen = @ \ {q}])
    BY DEF ClearOne
  <2>1. GoSql(c, WithSeenOnly(sqlCalls[c], Seen(c) \ {q})) /\ StepOf(c) = "clear"
    BY DEF ClearOne, AtSql, WithSeenOnly, Seen, StepOf
  <2>2. NewCalls /\ Moved(c, "clear", at(c), Stamp(c), Seen(c) \ {q})
    BY <2>1, CallSteps DEF WithSeenOnly
  <2> QED
    BY <2>2
<1>10. ReadFavorite(c) => NewCalls /\ \E s \in {"done", "update"} : \E e : Moved(c, s, at(c), Stamp(c), e)
  <2> SUFFICES ASSUME ReadFavorite(c) PROVE NewCalls /\ \E s \in {"done", "update"} : \E e : Moved(c, s, at(c), Stamp(c), e)
    OBVIOUS
  <2> DEFINE s == IF Mine(c) = {} THEN "done" ELSE "update"
  <2>1. GoSql(c, WithSeen(sqlCalls[c], s, Mine(c))) /\ s \in {"done", "update"}
    BY DEF ReadFavorite, WithSeen
  <2> HIDE DEF s
  <2>2. NewCalls /\ Moved(c, s, at(c), Stamp(c), Mine(c))
    BY <2>1, CallSteps DEF WithSeen
  <2> QED
    BY <2>1, <2>2
<1> QED
  BY <1>1, <1>2, <1>3, <1>4, <1>5, <1>6, <1>7, <1>8, <1>9, <1>10
LEMMA ShapeKept == SqlShape /\ [SqlNext]_sqlVars => SqlShape'
<1> SUFFICES ASSUME SqlShape, [SqlNext]_sqlVars PROVE SqlShape'
  OBVIOUS
<1> USE DEF SqlShape, NewCalls
<1>1. CASE Tick \/ UNCHANGED sqlVars
  BY <1>1 DEF Tick, sqlVars
<1>2. ASSUME NEW c \in SqlCallers, RunStatement(c) \/ EditRow(c) PROVE SqlShape'
  <2>1. NewCalls /\ sqlCase' = sqlCase
    BY <1>2, SqlActs DEF RunStatement, EditRow
  <2>2. \E e : Execute(c, e)
    BY <1>2 DEF RunStatement, EditRow
  <2>3. results' = [d \in SqlCallers |-> results'[d]] /\ \A d \in SqlCallers : IsList(results'[d])
    BY <2>2, ExecuteMoves
  <2> QED
    BY <2>1, <2>3
<1>3. ASSUME NEW c \in SqlCallers,
             AddSQLHistory(c) \/ TrimRead(c) \/ TrimDelete(c) \/ HistoryFails(c) \/ AuditScript(c) \/ AuditRow(c)
      PROVE SqlShape'
  <2>1. NewCalls
    BY <1>3, SqlActs
  <2> QED
    BY <1>3, <2>1 DEF AddSQLHistory, TrimRead, TrimDelete, HistoryFails, AuditScript, AuditRow, storeVars
<1>4. ASSUME NEW c \in SqlCallers, ListForClear(c) \/ ClearOne(c) \/ Cleared(c) PROVE SqlShape'
  <2>1. NewCalls
    BY <1>4, SqlActs
  <2> QED
    BY <1>4, <2>1 DEF ListForClear, ClearOne, Cleared, storeVars
<1>5. ASSUME NEW c \in SqlCallers, AddFavorite(c) \/ DeleteFavorite(c) \/ ReadFavorite(c) \/ UpdateFavorite(c)
      PROVE SqlShape'
  <2>1. NewCalls
    BY <1>5, SqlActs
  <2> QED
    BY <1>5, <2>1 DEF AddFavorite, DeleteFavorite, ReadFavorite, UpdateFavorite, storeVars
<1> QED
  BY <1>1, <1>2, <1>3, <1>4, <1>5 DEF SqlNext

LEMMA ShapeStart == SqlInit => SqlShape
<1> SUFFICES ASSUME SqlInit PROVE SqlShape
  OBVIOUS
<1>1. IsList(<<>>)
  <2>1. <<>> \in Seq({})
    OBVIOUS
  <2> QED
    BY <2>1 DEF IsList
<1>2. IsCall([step |-> "run", at |-> 1, stamp |-> 0, seen |-> {}])
  BY DEF IsCall
<1> QED
  BY <1>1, <1>2 DEF SqlInit, SqlShape

-----------------------------------------------------------------------------
(* The audit log.  A script that is over has its entry; an edit has one for  *)
(* every row it tried, but for the last while that one is to be written; or  *)
(* the entry was logged as missing.                                         *)

ScriptAudited(c) == Warned(c, Len(results[c])) \/ \E a \in Entries(c) : a.ok = ScriptOk(c) /\ (a.ok => a.count = Rows(c) /\ a.write = Written(c))
RowAudited(c, n) == Warned(c, n) \/ \E a \in Entries(c) : a.n = n /\ a.ok = results[c][n].ok /\ a.count = results[c][n].count
AuditOf(c) ==
    /\ Over(c) /\ req(c).op = "script" => ScriptAudited(c)
    /\ req(c).op = "edit" => \A n \in DOMAIN results[c] :
                               (sqlCalls[c].step = "audit" /\ n = Len(results[c])) \/ RowAudited(c, n)
AuditInv == SqlShape /\ (~StoreFails => warned = {}) /\ \A c \in SqlCallers : AuditOf(c)

(* What was audited of a request stays so while its results stay.            *)
LEMMA AuditStays ==
    ASSUME NEW c \in SqlCallers, sqlCase' = sqlCase, results'[c] = results[c], audit \subseteq audit', warned \subseteq warned'
    PROVE  /\ ScriptAudited(c) => ScriptAudited(c)'
           /\ \A n : RowAudited(c, n) => RowAudited(c, n)'
<1>1. Entries(c) \subseteq Entries(c)'
  BY DEF Entries
<1>2. ScriptOk(c)' = ScriptOk(c) /\ Written(c)' = Written(c) /\ Rows(c)' = Rows(c)
  BY DEF ScriptOk, Written, Rows
<1>3. \A n : Warned(c, n) => Warned(c, n)'
  BY DEF Warned
<1> QED
  BY <1>1, <1>2, <1>3 DEF ScriptAudited, RowAudited

(* An entry is added, or the log names it.                                   *)
LEMMA EntryAppended ==
    ASSUME NEW c \in SqlCallers, NEW a, a.call = c, AppendSQLAudit(a), results' = results, sqlCase' = sqlCase
    PROVE  /\ audit \subseteq audit' /\ warned \subseteq warned' /\ (~StoreFails => warned' = warned)
           /\ Warned(c, a.n)' \/ a \in Entries(c)'
BY DEF AppendSQLAudit, Warned, Entries, StoreFails

LEMMA AuditOfOthers ==
    ASSUME NEW c \in SqlCallers, sqlCase' = sqlCase, results'[c] = results[c], audit \subseteq audit',
           warned \subseteq warned', AuditOf(c),
           sqlCalls'[c].step = sqlCalls[c].step \/ (req(c).op # "edit" /\ sqlCalls'[c].step # "done")
             \/ req(c).op \notin {"script", "edit"}
    PROVE  AuditOf(c)'
<1>1. req(c)' = req(c)
  BY DEF req
<1>2. Over(c)' /\ req(c).op = "script" => ScriptAudited(c)'
  BY <1>1, AuditStays DEF AuditOf, Over
<1>3. req(c).op = "edit" => \A n \in DOMAIN results'[c] :
                  (sqlCalls'[c].step = "audit" /\ n = Len(results'[c])) \/ RowAudited(c, n)'
  BY <1>1, AuditStays DEF AuditOf
<1> QED
  BY <1>1, <1>2, <1>3 DEF AuditOf
LEMMA WarnedStep == AuditInv /\ [SqlNext]_sqlVars => (~StoreFails => warned = {})'
<1> SUFFICES ASSUME AuditInv, [SqlNext]_sqlVars PROVE StoreFails' \/ warned' = {}
  OBVIOUS
<1>1. sqlCase' = sqlCase /\ (warned' = warned \/ StoreFails)
  BY DEF SqlNext, Tick, sqlVars, storeVars, RunStatement, AddSQLHistory, TrimRead, TrimDelete, HistoryFails,
         AuditScript, EditRow, AuditRow, ListForClear, ClearOne, Cleared, AddFavorite, DeleteFavorite,
         ReadFavorite, UpdateFavorite, AppendSQLAudit
<1> QED
  BY <1>1 DEF AuditInv, StoreFails

LEMMA AuditStep == AuditInv /\ [SqlNext]_sqlVars => AuditInv'
<1> SUFFICES ASSUME AuditInv, [SqlNext]_sqlVars, NEW d \in SqlCallers PROVE AuditOf(d)'
  BY ShapeKept, WarnedStep DEF AuditInv
<1> SqlShape /\ AuditOf(d)
  BY DEF AuditInv
<1>1. CASE Tick \/ UNCHANGED sqlVars
  BY <1>1, AuditOfOthers DEF Tick, sqlVars, storeVars
<1>2. ASSUME NEW c \in SqlCallers, RunStatement(c) PROVE AuditOf(d)'
  <2> PICK s \in {"run", "record"} : Moved(c, s, at(c) + 1, Stamp(c), Seen(c))
    BY <1>2, SqlActs
  <2>1. req(c).op = "script" /\ sqlCase' = sqlCase /\ audit' = audit /\ warned' = warned /\ \E e : Execute(c, e)
    BY <1>2 DEF RunStatement, AtSql, storeVars
  <2>2. CASE d = c
    BY <2>1, <2>2 DEF Moved, AuditOf, Over, req
  <2>3. CASE d # c
    <3>1. results'[d] = results[d]
      BY <2>1, <2>3, ExecuteMoves DEF ResultAdded
    <3> QED
      BY <2>1, <2>3, <3>1, AuditOfOthers DEF Moved
  <2> QED
    BY <2>2, <2>3
<1>3. ASSUME NEW c \in SqlCallers, AddSQLHistory(c) \/ TrimRead(c) \/ TrimDelete(c) \/ HistoryFails(c) PROVE AuditOf(d)'
  <2>1. /\ req(c).op = "script" /\ sqlCase' = sqlCase /\ audit' = audit /\ warned' = warned /\ results' = results
        /\ \E s \in {"trim", "audit", "cut"} : \E a, t, e : Moved(c, s, a, t, e)
    BY <1>3, SqlActs DEF AddSQLHistory, TrimRead, TrimDelete, HistoryFails, AtSql, storeVars
  <2> QED
    BY <2>1, AuditOfOthers DEF Moved
<1>4. ASSUME NEW c \in SqlCallers, AuditScript(c) PROVE AuditOf(d)'
  <2>00. PICK a : a = ScriptEntry(c)
    OBVIOUS
  <2>0. AppendSQLAudit(a) /\ a.call = c /\ a.n = Len(results[c])
          /\ a.ok = ScriptOk(c) /\ (a.ok => a.count = Rows(c) /\ a.write = Written(c))
    <3>1. AppendSQLAudit(a)
      BY <1>4, <2>00 DEF AuditScript
    <3>2. PICK b \in BOOLEAN : b = ScriptOk(c)
      BY DEF ScriptOk
    <3>3. PICK w \in BOOLEAN : w = Written(c)
      BY DEF Written
    <3>4. a = Entry(c, "script", TRUE, w, Rows(c)) \/ a = Entry(c, "script", FALSE, FALSE, 0)
      BY <2>00, <3>3 DEF ScriptEntry
    <3>5. b => a = Entry(c, "script", TRUE, w, Rows(c))
      BY <2>00, <3>2, <3>3 DEF ScriptEntry
    <3>6. ~b => a = Entry(c, "script", FALSE, FALSE, 0)
      BY <2>00, <3>2 DEF ScriptEntry
    <3>7. a.call = c /\ a.n = Len(results[c])
      BY <3>4 DEF Entry
    <3>8. a.ok = b
      <4>1. CASE b = TRUE
        <5>1. a.ok = TRUE
          BY <3>5, <4>1 DEF Entry
        <5> QED
          BY <4>1, <5>1, Zenon
      <4>2. CASE b = FALSE
        <5>1. a.ok = FALSE
          BY <3>6, <4>2 DEF Entry
        <5> QED
          BY <4>2, <5>1, Zenon
      <4> QED
        BY <3>2, <4>1, <4>2, Zenon
    <3>9. b => a.count = Rows(c) /\ a.write = w
      BY <3>5 DEF Entry
    <3> QED
      BY <3>1, <3>2, <3>3, <3>7, <3>8, <3>9
  <2>1. /\ req(c).op = "script" /\ sqlCase' = sqlCase /\ results' = results
        /\ Moved(c, "done", at(c), Stamp(c), Seen(c))
    BY <1>4, SqlActs DEF AuditScript, AtSql
  <2>1a. audit \subseteq audit' /\ warned \subseteq warned' /\ (Warned(c, a.n)' \/ a \in Entries(c)')
    BY <2>0, <2>1, EntryAppended
  <2>2. CASE d = c
    <3>3. ScriptOk(c)' = ScriptOk(c) /\ Rows(c)' = Rows(c) /\ Written(c)' = Written(c)
      BY <2>1 DEF ScriptOk, Rows, Written
    <3>4. ScriptAudited(c)'
      <4>1. CASE a \in Entries(c)'
        BY <2>0, <3>3, <4>1 DEF ScriptAudited
      <4>2. CASE Warned(c, a.n)'
        BY <2>0, <2>1, <4>2 DEF ScriptAudited, Warned
      <4> QED
        BY <2>1a, <4>1, <4>2
    <3> QED
      BY <2>1, <2>2, <3>4 DEF AuditOf, req
  <2>3. CASE d # c
    BY <2>1, <2>1a, <2>3, AuditOfOthers DEF Moved
  <2> QED
    BY <2>2, <2>3
<1>5. ASSUME NEW c \in SqlCallers, EditRow(c) PROVE AuditOf(d)'
  <2>1. /\ req(c).op = "edit" /\ sqlCalls[c].step = "run" /\ sqlCase' = sqlCase /\ audit' = audit
        /\ warned' = warned /\ Moved(c, "audit", at(c), Stamp(c), Seen(c))
    BY <1>5, SqlActs DEF EditRow, AtSql, storeVars
  <2>2. \E x : ResultAdded(c, x)
    <3>1. \E e : Execute(c, e)
      BY <1>5 DEF EditRow
    <3> QED
      BY <3>1, ExecuteMoves
  <2>3. CASE d = c
    <3>1. ASSUME NEW n \in DOMAIN results'[c] PROVE n = Len(results'[c]) \/ RowAudited(c, n)'
      <4>1. CASE n = Len(results[c]) + 1
        BY <2>2, <4>1 DEF ResultAdded
      <4>2. CASE n \in 1..Len(results[c])
        <5>1. RowAudited(c, n)
          BY <2>1, <2>2, <2>3, <4>2 DEF AuditOf, ResultAdded
        <5>2. results'[c][n] = results[c][n] /\ Entries(c)' = Entries(c) /\ Warned(c, n)' = Warned(c, n)
          BY <2>1, <2>2, <4>2 DEF ResultAdded, Entries, Warned
        <5> QED
          BY <5>1, <5>2 DEF RowAudited
      <4> QED
        BY <2>2, <4>1, <4>2 DEF ResultAdded
    <3> QED
      BY <2>1, <2>3, <3>1 DEF AuditOf, req, Moved
  <2>4. CASE d # c
    BY <2>1, <2>2, <2>4, AuditOfOthers DEF Moved, ResultAdded
  <2> QED
    BY <2>3, <2>4
<1>6. ASSUME NEW c \in SqlCallers, AuditRow(c) PROVE AuditOf(d)'
  <2>00. PICK a : a = RowEntry(c)
    OBVIOUS
  <2>0. AppendSQLAudit(a) /\ a.call = c /\ a.n = Len(results[c]) /\ a.ok = results[c][Len(results[c])].ok
          /\ a.count = results[c][Len(results[c])].count
    <3>1. AppendSQLAudit(a)
      BY <1>6, <2>00 DEF AuditRow
    <3> QED
      BY <2>00, <3>1 DEF RowEntry, Entry, Last
  <2>1. /\ req(c).op = "edit" /\ sqlCase' = sqlCase /\ results' = results
        /\ \E s \in {"run", "done"} : Moved(c, s, at(c) + 1, Stamp(c), Seen(c))
    BY <1>6, SqlActs DEF AuditRow, AtSql
  <2>1a. audit \subseteq audit' /\ warned \subseteq warned' /\ (Warned(c, a.n)' \/ a \in Entries(c)')
    BY <2>0, <2>1, EntryAppended
  <2>2. CASE d = c
    <3>3. ASSUME NEW n \in DOMAIN results'[c] PROVE RowAudited(c, n)'
      <4>1. CASE n = Len(results[c])
        <5>1. CASE a \in Entries(c)'
          <6>1. \A m : m = Len(results[c]) => RowAudited(c, m)'
            BY <2>0, <2>1, <5>1 DEF RowAudited
          <6> QED
            BY <4>1, <6>1
        <5>2. CASE Warned(c, a.n)'
          <6>1. \A m : m = Len(results[c]) => RowAudited(c, m)'
            BY <2>0, <5>2 DEF RowAudited, Warned
          <6> QED
            BY <4>1, <6>1
        <5> QED
          BY <2>1a, <5>1, <5>2
      <4>2. CASE n # Len(results[c])
        <5>1. RowAudited(c, n)
          BY <2>1, <2>2, <4>2 DEF AuditOf
        <5> QED
          BY <2>1, <2>1a, <5>1, AuditStays
      <4> QED
        BY <4>1, <4>2
    <3> QED
      BY <2>1, <2>2, <3>3 DEF AuditOf, req
  <2>3. CASE d # c
    BY <2>1, <2>1a, <2>3, AuditOfOthers DEF Moved
  <2> QED
    BY <2>2, <2>3
<1>7. ASSUME NEW c \in SqlCallers, ListForClear(c) \/ ClearOne(c) \/ Cleared(c) PROVE AuditOf(d)'
  <2>1. /\ req(c).op = "clear" /\ sqlCase' = sqlCase /\ audit' = audit /\ warned' = warned /\ results' = results
        /\ \E s, a, t, e : Moved(c, s, a, t, e)
    BY <1>7, SqlActs DEF ListForClear, ClearOne, Cleared, AtSql, storeVars
  <2> QED
    BY <2>1, AuditOfOthers DEF Moved
<1>8. ASSUME NEW c \in SqlCallers, AddFavorite(c) \/ DeleteFavorite(c) \/ ReadFavorite(c) \/ UpdateFavorite(c)
      PROVE AuditOf(d)'
  <2>1. /\ req(c).op \notin {"script", "edit"} /\ sqlCase' = sqlCase /\ audit' = audit /\ warned' = warned /\ results' = results
        /\ \E s, a, t, e : Moved(c, s, a, t, e)
    BY <1>8, SqlActs DEF AddFavorite, DeleteFavorite, ReadFavorite, UpdateFavorite, AtSql, storeVars
  <2> QED
    BY <2>1, AuditOfOthers DEF Moved
<1> QED
  BY <1>1, <1>2, <1>3, <1>4, <1>5, <1>6, <1>7, <1>8 DEF SqlNext

(* recordSQL and the edits of rows: however the requests interleave, one     *)
(* that is over left an audit entry for its script, or for each row it tried *)
(* to change, that says what it was told, or a line in the log that the entry *)
(* could not be written; without an error of the store it is the entry.      *)
THEOREM AuditIsComplete == SqlSpec => []AuditComplete
<1>1. SqlInit => AuditInv
  <2> SUFFICES ASSUME SqlInit, NEW c \in SqlCallers PROVE AuditOf(c)
    BY ShapeStart DEF AuditInv, SqlInit
  <2>1. sqlCalls[c].step = "run" /\ results[c] = <<>>
    BY DEF SqlInit
  <2> QED
    BY <2>1 DEF AuditOf, Over
<1>2. AuditInv => AuditComplete
  <2> SUFFICES ASSUME AuditInv, NEW c \in SqlCallers, Over(c)
               PROVE  /\ req(c).op = "script" => ScriptAudited(c)
                      /\ req(c).op = "edit" => \A n \in DOMAIN results[c] : RowAudited(c, n)
    BY DEF AuditComplete, ScriptAudited, RowAudited, AuditInv
  <2> QED
    BY DEF AuditInv, AuditOf, Over
<1> QED
  BY <1>1, <1>2, AuditStep, PTL DEF SqlSpec

-----------------------------------------------------------------------------
(* Favourites                                                               *)

IsFav(f) == f = [id |-> f.id, user |-> f.user, title |-> f.title]
Same(f, g) == f.id = g.id /\ f.user = g.user

FavInv ==
    /\ SqlShape /\ \A f \in favs : IsFav(f)
    /\ \A c \in SqlCallers : req(c).op = "deleteFav" /\ Over(c) => Mine(c) = {}
    /\ \A f \in sqlCase.favs : (\E g \in favs : Same(g, f)) \/
         \E c \in SqlCallers : req(c).op = "deleteFav" /\ req(c).id = f.id /\ req(c).user = f.user

(* A new title leaves a favourite its ID and user.                           *)
LEMMA Retitled == ASSUME NEW f, IsFav(f), NEW t PROVE IsFav([f EXCEPT !.title = t]) /\ Same([f EXCEPT !.title = t], f)
<1>1. [f EXCEPT !.title = t] = [id |-> f.id, user |-> f.user, title |-> t]
  <2> PICK i, u, t0 : f = [id |-> i, user |-> u, title |-> t0]
    BY DEF IsFav
  <2>1. f.id = i /\ f.user = u
    OBVIOUS
  <2>2. [f EXCEPT !.title = t] = [id |-> i, user |-> u, title |-> t]
    OBVIOUS
  <2> QED
    BY <2>1, <2>2, Zenon
<1> QED
  BY <1>1 DEF IsFav, Same

(* The favourites keep the invariant when each is one of before, or new.      *)
LEMMA FavsMove ==
    ASSUME FavInv, SqlShape', sqlCase' = sqlCase, \A f \in favs' : IsFav(f),
           \A f \in favs' : (\E g \in favs : Same(f, g)) \/ f.id \in SqlCallers,
           \A c \in SqlCallers : req(c).op = "deleteFav" /\ Over(c)' => Over(c) \/ Mine(c)' = {},
           \A g \in favs : (\E f \in favs' : Same(f, g)) \/
             \E c \in SqlCallers : req(c).op = "deleteFav" /\ req(c).id = g.id /\ req(c).user = g.user
    PROVE  FavInv'
<1>1. \A c : req(c)' = req(c)
  BY DEF req
<1>2. ASSUME NEW c \in SqlCallers, req(c).op = "deleteFav", Over(c)' PROVE Mine(c)' = {}
  <2>1. req(c).id \notin SqlCallers
    BY SqlCasesAssumption DEF FavInv, SqlShape, req
  <2>2. CASE Over(c)
    <3> SUFFICES ASSUME NEW g \in Mine(c)' PROVE FALSE
      OBVIOUS
    <3>1. g \in favs' /\ g.id = req(c).id /\ g.user = req(c).user
      BY <1>1 DEF Mine
    <3> PICK h \in favs : Same(g, h)
      BY <2>1, <3>1
    <3>2. h \in Mine(c)
      BY <3>1 DEF Mine, Same
    <3> QED
      BY <1>2, <2>2, <3>2 DEF FavInv
  <2> QED
    BY <1>2, <2>2
<1>3. ASSUME NEW f \in sqlCase.favs
      PROVE  (\E g \in favs' : Same(g, f)) \/
             \E c \in SqlCallers : req(c).op = "deleteFav" /\ req(c).id = f.id /\ req(c).user = f.user
  <2>1. CASE \E g \in favs : Same(g, f)
    <3> PICK g \in favs : Same(g, f)
      BY <2>1
    <3> QED
      BY DEF Same
  <2> QED
    BY <2>1 DEF FavInv
<1> QED
  BY <1>1, <1>2, <1>3 DEF FavInv

LEMMA FavStep == FavInv /\ [SqlNext]_sqlVars => FavInv'
<1> SUFFICES ASSUME FavInv, [SqlNext]_sqlVars PROVE FavInv'
  OBVIOUS
<1>0. SqlShape /\ SqlShape' /\ \A f \in favs : IsFav(f)
  BY ShapeKept DEF FavInv
<1>1. ASSUME sqlCase' = sqlCase, favs' = favs,
             \A c \in SqlCallers : req(c).op = "deleteFav" => sqlCalls'[c] = sqlCalls[c]
      PROVE  FavInv'
  BY <1>0, <1>1, FavsMove DEF Over, Same
<1>2. CASE Tick \/ UNCHANGED sqlVars
  BY <1>1, <1>2 DEF Tick, sqlVars, storeVars
<1>3. ASSUME NEW c \in SqlCallers, RunStatement(c) \/ AddSQLHistory(c) \/ TrimRead(c) \/ TrimDelete(c)
                                   \/ HistoryFails(c) \/ AuditScript(c) \/ EditRow(c) \/ AuditRow(c)
      PROVE  FavInv'
  <2>1. req(c).op \in {"script", "edit"} /\ sqlCase' = sqlCase /\ favs' = favs
    BY <1>3 DEF RunStatement, AddSQLHistory, TrimRead, TrimDelete, HistoryFails, AuditScript, EditRow, AuditRow,
                AtSql, storeVars
  <2>2. \A d \in SqlCallers \ {c} : sqlCalls'[d] = sqlCalls[d]
    BY <1>0, <1>3, SqlActs DEF Moved
  <2> QED
    BY <1>1, <2>1, <2>2
<1>4. ASSUME NEW c \in SqlCallers, ListForClear(c) \/ ClearOne(c) \/ Cleared(c) \/ ReadFavorite(c) PROVE FavInv'
  <2>1. req(c).op \in {"clear", "renameFav"} /\ sqlCase' = sqlCase /\ favs' = favs
    BY <1>4 DEF ListForClear, ClearOne, Cleared, ReadFavorite, AtSql, storeVars
  <2>2. \A d \in SqlCallers \ {c} : sqlCalls'[d] = sqlCalls[d]
    BY <1>0, <1>4, SqlActs DEF Moved
  <2> QED
    BY <1>1, <2>1, <2>2
<1>5. ASSUME NEW c \in SqlCallers, AddFavorite(c) PROVE FavInv'
  <2>1. req(c).op = "addFav" /\ sqlCase' = sqlCase /\ Moved(c, "done", at(c), Stamp(c), Seen(c))
    BY <1>0, <1>5, SqlActs DEF AddFavorite, AtSql
  <2> DEFINE new == [id |-> c, user |-> req(c).user, title |-> "first"]
  <2>2. favs' = favs \cup {new} /\ new.id = c /\ IsFav(new)
    BY <1>5 DEF AddFavorite, IsFav
  <2> HIDE DEF new
  <2>3. \A f \in favs' : IsFav(f) /\ ((\E g \in favs : Same(f, g)) \/ f.id \in SqlCallers)
    BY <1>0, <2>2 DEF Same
  <2>4. \A g \in favs : \E f \in favs' : Same(f, g)
    BY <2>2 DEF Same
  <2>5. \A d \in SqlCallers : req(d).op = "deleteFav" /\ Over(d)' => Over(d)
    BY <2>1 DEF Moved, Over
  <2> QED
    BY <1>0, <2>1, <2>3, <2>4, <2>5, FavsMove
<1>6. ASSUME NEW c \in SqlCallers, DeleteFavorite(c) PROVE FavInv'
  <2>1. req(c).op = "deleteFav" /\ sqlCase' = sqlCase /\ favs' = favs \ Mine(c)
          /\ Moved(c, "done", at(c), Stamp(c), Seen(c))
    BY <1>0, <1>6, SqlActs DEF DeleteFavorite, AtSql
  <2>2. \A f \in favs' : IsFav(f) /\ \E g \in favs : Same(f, g)
    BY <1>0, <2>1 DEF Same
  <2>3. \A g \in favs : (\E f \in favs' : Same(f, g)) \/ (req(c).id = g.id /\ req(c).user = g.user)
    BY <2>1 DEF Mine, Same
  <2>4. Mine(c)' = {}
    BY <2>1 DEF Mine, req
  <2>5. \A d \in SqlCallers : req(d).op = "deleteFav" /\ Over(d)' => Over(d) \/ d = c
    BY <2>1 DEF Moved, Over
  <2> QED
    BY <1>0, <2>1, <2>2, <2>3, <2>4, <2>5, FavsMove
<1>7. ASSUME NEW c \in SqlCallers, UpdateFavorite(c) PROVE FavInv'
  <2>1. req(c).op = "renameFav" /\ sqlCase' = sqlCase /\ Moved(c, "done", at(c), Stamp(c), Seen(c))
          /\ favs' = (favs \ Mine(c)) \cup {[f EXCEPT !.title = "new"] : f \in Mine(c)} /\ Mine(c) \subseteq favs
    BY <1>0, <1>7, SqlActs DEF UpdateFavorite, AtSql, Mine
  <2>2. \A f \in favs' : IsFav(f) /\ \E g \in favs : Same(f, g)
    <3> TAKE f \in favs'
    <3>1. CASE f \in favs
      BY <1>0, <3>1 DEF Same
    <3>2. ASSUME NEW g \in Mine(c), f = [g EXCEPT !.title = "new"] PROVE IsFav(f) /\ Same(f, g) /\ g \in favs
      <4>1. IsFav(g) /\ g \in favs
        BY <1>0, <2>1
      <4> QED
        BY <3>2, <4>1, Retitled
    <3> QED
      BY <2>1, <3>1, <3>2
  <2>3. \A g \in favs : \E f \in favs' : Same(f, g)
    <3> TAKE g \in favs
    <3>1. CASE g \in Mine(c)
      BY <1>0, <2>1, <3>1, Retitled
    <3>2. CASE g \notin Mine(c)
      BY <2>1, <3>2 DEF Same
    <3> QED
      BY <3>1, <3>2
  <2>4. \A d \in SqlCallers : req(d).op = "deleteFav" /\ Over(d)' => Over(d)
    BY <2>1 DEF Moved, Over
  <2> QED
    BY <1>0, <2>1, <2>2, <2>3, <2>4, FavsMove
<1> QED
  BY <1>2, <1>3, <1>4, <1>5, <1>6, <1>7 DEF SqlNext

(* DeleteFavorite and RenameFavorite: a favourite that was deleted does not   *)
(* come back with a rename that had read it, and one disappears only when its *)
(* own user asked for that.                                                *)
THEOREM FavoritesStayDeleted == SqlSpec => []DeletedFavoriteStays
<1>1. SqlInit => FavInv
  <2> SUFFICES ASSUME SqlInit PROVE FavInv
    OBVIOUS
  <2>1. \A c \in SqlCallers : ~Over(c)
    BY DEF SqlInit, Over
  <2>2. favs = sqlCase.favs /\ \A f \in favs : IsFav(f)
    BY SqlCasesAssumption DEF SqlInit, IsFav
  <2> QED
    BY <2>1, <2>2, ShapeStart DEF FavInv, Same
<1>2. FavInv => DeletedFavoriteStays
  BY DEF FavInv, DeletedFavoriteStays, Same
<1> QED
  BY <1>1, <1>2, FavStep, PTL DEF SqlSpec

-----------------------------------------------------------------------------
(* What the requests were told                                              *)

LEMMA ToldMember ==
    ASSUME NEW do, NEW x
    PROVE  /\ x \in Told(do) <=> \E c \in SqlCallers : \E n \in DOMAIN results[c] :
                results[c][n].do = do /\ \E i \in 1..results[c][n].count : x = <<c, n, i>>
           /\ x \in Told(do)' <=> \E c \in SqlCallers : \E n \in DOMAIN results'[c] :
                results'[c][n].do = do /\ \E i \in 1..results'[c][n].count : x = <<c, n, i>>
BY DEF Told, ToldOf, RowsOf

LEMMA ToldStays == ASSUME results' = results, NEW do PROVE Told(do)' = Told(do)
BY DEF Told, ToldOf, RowsOf

(* A result tells of new rows, when it is of that kind.                      *)
LEMMA ToldGrows ==
    ASSUME SqlShape, NEW c \in SqlCallers, NEW r, ResultAdded(c, r), NEW do
    PROVE  /\ \A i : <<c, Len(results[c]) + 1, i>> \notin Told(do)
           /\ r.do # do => Told(do)' = Told(do)
           /\ r.do = do => Told(do)' = Told(do) \cup {<<c, Len(results[c]) + 1, i>> : i \in 1..r.count}
<1> DEFINE L == Len(results[c])
<1>1. /\ L \in Nat /\ DOMAIN results[c] = 1..L /\ DOMAIN results'[c] = 1..L + 1 /\ results'[c][L + 1] = r
      /\ \A n \in 1..L : results'[c][n] = results[c][n]
      /\ \A d \in SqlCallers \ {c} : results'[d] = results[d]
  BY DEF ResultAdded
<1> HIDE DEF L
<1>2. \A i : <<c, L + 1, i>> \notin Told(do)
  BY <1>1, ToldMember
<1>3. ASSUME NEW x, x \in Told(do)' PROVE x \in Told(do) \/ (r.do = do /\ \E i \in 1..r.count : x = <<c, L + 1, i>>)
  <2> PICK d, n, i : d \in SqlCallers /\ n \in DOMAIN results'[d] /\ i \in 1..results'[d][n].count /\
        results'[d][n].do = do /\ x = <<d, n, i>>
    BY <1>3, ToldMember
  <2>1. CASE d = c /\ n = L + 1
    BY <1>1, <2>1
  <2>2. CASE ~(d = c /\ n = L + 1)
    <3>1. n \in DOMAIN results[d] /\ results'[d][n] = results[d][n]
      <4>1. CASE d = c
        BY <1>1, <2>2, <4>1
      <4>2. CASE d # c
        BY <1>1, <4>2
      <4> QED
        BY <4>1, <4>2
    <3> QED
      BY <3>1, ToldMember
  <2> QED
    BY <2>1, <2>2
<1>4. ASSUME NEW x, x \in Told(do) PROVE x \in Told(do)'
  <2> PICK d, n, i : d \in SqlCallers /\ n \in DOMAIN results[d] /\ i \in 1..results[d][n].count /\
        results[d][n].do = do /\ x = <<d, n, i>>
    BY <1>4, ToldMember
  <2>1. n \in DOMAIN results'[d] /\ results'[d][n] = results[d][n]
    BY <1>1
  <2> QED
    BY <2>1, ToldMember
<1>5. ASSUME NEW i \in 1..r.count, r.do = do PROVE <<c, L + 1, i>> \in Told(do)'
  <2>1. L + 1 \in DOMAIN results'[c] /\ results'[c][L + 1] = r
    BY <1>1
  <2> QED
    BY <1>5, <2>1, ToldMember
<1> QED
  BY <1>2, <1>3, <1>4, <1>5 DEF L

LEMMA LostMember ==
    ASSUME NEW do, NEW x
    PROVE  /\ x \in LostRows(do) <=> \E c \in SqlCallers : \E n \in DOMAIN results[c] :
                results[c][n].lost /\ results[c][n].do = do /\ x = <<c, n>>
           /\ x \in LostRows(do)' <=> \E c \in SqlCallers : \E n \in DOMAIN results'[c] :
                results'[c][n].lost /\ results'[c][n].do = do /\ x = <<c, n>>
BY DEF LostRows, LostOf

LEMMA LostStays == ASSUME results' = results, NEW do PROVE LostRows(do)' = LostRows(do)
BY DEF LostRows, LostOf

(* A result without an answer counts once, when it is of that kind.          *)
LEMMA LostGrows ==
    ASSUME SqlShape, NEW c \in SqlCallers, NEW r, ResultAdded(c, r), NEW do
    PROVE  /\ <<c, Len(results[c]) + 1>> \notin LostRows(do)
           /\ ~r.lost \/ r.do # do => LostRows(do)' = LostRows(do)
           /\ r.lost /\ r.do = do => LostRows(do)' = LostRows(do) \cup {<<c, Len(results[c]) + 1>>}
<1> DEFINE L == Len(results[c])
<1>1. /\ L \in Nat /\ DOMAIN results[c] = 1..L /\ DOMAIN results'[c] = 1..L + 1 /\ results'[c][L + 1] = r
      /\ \A n \in 1..L : results'[c][n] = results[c][n]
      /\ \A d \in SqlCallers \ {c} : results'[d] = results[d]
  BY DEF ResultAdded
<1> HIDE DEF L
<1>2. <<c, L + 1>> \notin LostRows(do)
  BY <1>1, LostMember
<1>3. ASSUME NEW x, x \in LostRows(do)' PROVE x \in LostRows(do) \/ (r.lost /\ r.do = do /\ x = <<c, L + 1>>)
  <2> PICK d, n : d \in SqlCallers /\ n \in DOMAIN results'[d] /\ results'[d][n].lost
                   /\ results'[d][n].do = do /\ x = <<d, n>>
    BY <1>3, LostMember
  <2>1. CASE d = c /\ n = L + 1
    BY <1>1, <2>1
  <2>2. CASE ~(d = c /\ n = L + 1)
    <3>1. n \in DOMAIN results[d] /\ results'[d][n] = results[d][n]
      <4>1. CASE d = c
        BY <1>1, <2>2, <4>1
      <4>2. CASE d # c
        BY <1>1, <4>2
      <4> QED
        BY <4>1, <4>2
    <3> QED
      BY <3>1, LostMember
  <2> QED
    BY <2>1, <2>2
<1>4. ASSUME NEW x, x \in LostRows(do) PROVE x \in LostRows(do)'
  <2> PICK d, n : d \in SqlCallers /\ n \in DOMAIN results[d] /\ results[d][n].lost
                   /\ results[d][n].do = do /\ x = <<d, n>>
    BY <1>4, LostMember
  <2>1. n \in DOMAIN results'[d] /\ results'[d][n] = results[d][n]
    BY <1>1
  <2> QED
    BY <2>1, LostMember
<1>5. ASSUME r.lost, r.do = do PROVE <<c, L + 1>> \in LostRows(do)'
  <2>1. L + 1 \in DOMAIN results'[c] /\ results'[c][L + 1] = r
    BY <1>1
  <2> QED
    BY <1>5, <2>1, LostMember
<1> QED
  BY <1>2, <1>3, <1>4, <1>5 DEF L

(* The rows there are, those there were, and what was told of them.          *)
Balance ==
    /\ Cardinality(table) + Cardinality(Told("delete"))
         <= Cardinality(sqlCase.rows) + Cardinality(Told("insert")) + Cardinality(LostRows("insert"))
    /\ Cardinality(sqlCase.rows) + Cardinality(Told("insert"))
         <= Cardinality(table) + Cardinality(Told("delete")) + Cardinality(LostRows("delete"))
Finite ==
    /\ IsFiniteSet(table) /\ IsFiniteSet(Told("delete")) /\ IsFiniteSet(Told("insert"))
    /\ IsFiniteSet(LostRows("delete")) /\ IsFiniteSet(LostRows("insert"))
ReportInv ==
    /\ SqlShape /\ Finite /\ Balance
    /\ \A c \in SqlCallers : \A n \in DOMAIN results[c] :
         n < Len(results[c]) \/ sqlCalls[c].step = "run" => results[c][n].ok

(* A statement changes the table by what its result says.                    *)
LEMMA ExecuteBalances ==
    ASSUME ReportInv, NEW c \in SqlCallers, NEW s, NEW e \in Outcome(s), s = req(c).stmts[at(c)],
           Execute(c, e), sqlCase' = sqlCase
    PROVE  Finite' /\ Balance'
<1> DEFINE L == Len(results[c])
           D == Told("delete")
           I == Told("insert")
           LD == LostRows("delete")
           LI == LostRows("insert")
<1>1. SqlShape /\ IsFiniteSet(table) /\ IsFiniteSet(D) /\ IsFiniteSet(I) /\ IsFiniteSet(LD) /\ IsFiniteSet(LI)
      /\ Cardinality(table) + Cardinality(D) <= Cardinality(sqlCase.rows) + Cardinality(I) + Cardinality(LI)
      /\ Cardinality(sqlCase.rows) + Cardinality(I) <= Cardinality(table) + Cardinality(D) + Cardinality(LD)
  BY DEF ReportInv, Balance, Finite
<1>2. Cardinality(table) \in Nat /\ Cardinality(D) \in Nat /\ Cardinality(I) \in Nat
      /\ Cardinality(LD) \in Nat /\ Cardinality(LI) \in Nat /\ Cardinality(sqlCase.rows) \in Nat
  <2>1. IsFiniteSet(sqlCase.rows)
    BY <1>1, SqlCasesAssumption DEF SqlShape
  <2> QED
    BY <1>1, <2>1, FS_CardinalityType
<1> DEFINE r == Result(s, e)
<1>3. ResultAdded(c, r) /\ table' = e.rows
  BY <1>1, ExecuteMoves DEF Execute
<1>4. r.do = s.do /\ r.lost = e.lost /\ r.count = IF e.ok THEN e.count ELSE 0
  BY DEF Result
<1> HIDE DEF L, D, I, LD, LI, r
<1>5. /\ D' = IF r.do = "delete" THEN D \cup {<<c, L + 1, i>> : i \in 1..r.count} ELSE D
      /\ I' = IF r.do = "insert" THEN I \cup {<<c, L + 1, i>> : i \in 1..r.count} ELSE I
      /\ \A i : <<c, L + 1, i>> \notin D /\ <<c, L + 1, i>> \notin I
  BY <1>1, <1>3, ToldGrows DEF D, I, L
<1>6. /\ LD' = IF r.lost /\ r.do = "delete" THEN LD \cup {<<c, L + 1>>} ELSE LD
      /\ LI' = IF r.lost /\ r.do = "insert" THEN LI \cup {<<c, L + 1>>} ELSE LI
      /\ <<c, L + 1>> \notin LD /\ <<c, L + 1>> \notin LI
  BY <1>1, <1>3, LostGrows DEF LD, LI, L
<1>7. SUFFICES /\ IsFiniteSet(table') /\ IsFiniteSet(D') /\ IsFiniteSet(I') /\ IsFiniteSet(LD') /\ IsFiniteSet(LI')
               /\ Cardinality(table') + Cardinality(D') <= Cardinality(sqlCase.rows) + Cardinality(I') + Cardinality(LI')
               /\ Cardinality(sqlCase.rows) + Cardinality(I') <= Cardinality(table') + Cardinality(D') + Cardinality(LD')
  BY DEF Balance, Finite, D, I, LD, LI
(* Nobody is told of a row: the told ones stay.                              *)
<1>8. r.count = 0 => D' = D /\ I' = I
  <2>1. \A n : n = 0 => {<<c, L + 1, i>> : i \in 1..n} = {}
    OBVIOUS
  <2> QED
    BY <1>5, <2>1
(* One row is told of.                                                       *)
<1>9. ASSUME r.count = 1 PROVE /\ r.do = "delete" => IsFiniteSet(D') /\ Cardinality(D') = Cardinality(D) + 1
                               /\ r.do = "insert" => IsFiniteSet(I') /\ Cardinality(I') = Cardinality(I) + 1
  <2> DEFINE t == <<c, L + 1, 1>>
  <2>1. {<<c, L + 1, i>> : i \in 1..1} = {t}
    OBVIOUS
  <2>2. (r.do = "delete" => D' = D \cup {t}) /\ (r.do = "insert" => I' = I \cup {t}) /\ t \notin D /\ t \notin I
    BY <1>5, <1>9, <2>1
  <2> HIDE DEF t
  <2>3. IsFiniteSet(D \cup {t}) /\ Cardinality(D \cup {t}) = Cardinality(D) + 1
    <3>1. PICK Told0 : Told0 = D
      OBVIOUS
    <3>2. PICK x : x = t
      OBVIOUS
    <3>3. IsFiniteSet(Told0) /\ x \notin Told0
      BY <1>1, <2>2, <3>1, <3>2
    <3> QED
      BY <3>1, <3>2, <3>3, FS_AddElement
  <2>4. IsFiniteSet(I \cup {t}) /\ Cardinality(I \cup {t}) = Cardinality(I) + 1
    <3>1. PICK Told0 : Told0 = I
      OBVIOUS
    <3>2. PICK x : x = t
      OBVIOUS
    <3>3. IsFiniteSet(Told0) /\ x \notin Told0
      BY <1>1, <2>2, <3>1, <3>2
    <3> QED
      BY <3>1, <3>2, <3>3, FS_AddElement
  <2> QED
    BY <2>2, <2>3, <2>4
<1> PICK f : f = Effect(s)
  OBVIOUS
(* What executing it does to the rows.                                       *)
<1>10. /\ s.do = "insert" => \/ f.ok /\ f.count = 1 /\ s.key \notin table /\ f.rows = table \cup {s.key}
                             \/ ~f.ok /\ f.rows = table
       /\ s.do = "delete" => \/ f.ok /\ f.count = 1 /\ s.key \in table /\ f.rows = table \ {s.key}
                             \/ f.ok /\ f.count = 0 /\ f.rows = table
       /\ s.do \notin {"insert", "delete"} => f.rows = table
  <2>1. CASE s.do = "insert"
    BY <2>1 DEF Effect
  <2>2. CASE s.do = "delete"
    <3>1. f.ok /\ f.rows = table \ {s.key} /\ f.count = Cardinality({s.key} \cap table)
      BY <2>2 DEF Effect
    <3>2. CASE s.key \notin table
      <4>1. {s.key} \cap table = {} /\ table \ {s.key} = table
        BY <3>2
      <4> QED
        BY <2>2, <3>1, <4>1, FS_EmptySet
    <3>3. CASE s.key \in table
      <4>1. {s.key} \cap table = {s.key} /\ Cardinality({s.key}) = 1
        BY <3>3, FS_Singleton
      <4> QED
        BY <2>2, <3>1, <3>3, <4>1
    <3> QED
      BY <3>2, <3>3
  <2>3. CASE s.do \notin {"insert", "delete"}
    BY <2>3 DEF Effect
  <2> QED
    BY <2>1, <2>2, <2>3
<1>11. /\ \A k : k \notin table => IsFiniteSet(table \cup {k}) /\ Cardinality(table \cup {k}) = Cardinality(table) + 1
       /\ \A k : k \in table => IsFiniteSet(table \ {k}) /\ Cardinality(table \ {k}) = Cardinality(table) - 1
  BY <1>1, FS_AddElement, FS_RemoveElement
(* An answer.                                                                *)
<1>12. CASE e = Answered(s)
  <2>1. e.ok = f.ok /\ e.rows = f.rows /\ e.count = f.count /\ e.lost = FALSE
    BY <1>12 DEF Answered
  <2>2. LD' = LD /\ LI' = LI /\ table' = f.rows /\ r.count = IF f.ok THEN f.count ELSE 0
    BY <1>3, <1>4, <1>6, <2>1
  <2>3. CASE s.do = "insert"
    <3>1. D' = D
      BY <1>4, <1>5, <2>3
    <3>2. CASE f.ok
      <4>1. IsFiniteSet(I') /\ Cardinality(I') = Cardinality(I) + 1
        BY <1>4, <1>9, <1>10, <2>2, <2>3, <3>2
      <4>2. IsFiniteSet(table') /\ Cardinality(table') = Cardinality(table) + 1
        BY <1>10, <1>11, <2>2, <2>3, <3>2
      <4> QED
        BY <1>1, <1>2, <2>2, <3>1, <4>1, <4>2
    <3>3. CASE ~f.ok
      BY <1>1, <1>8, <1>10, <2>2, <2>3, <3>3
    <3> QED
      BY <3>2, <3>3
  <2>4. CASE s.do = "delete"
    <3>1. I' = I
      BY <1>4, <1>5, <2>4
    <3>2. CASE f.rows # table
      <4>1. IsFiniteSet(D') /\ Cardinality(D') = Cardinality(D) + 1
        BY <1>4, <1>9, <1>10, <2>2, <2>4, <3>2
      <4>2. IsFiniteSet(table') /\ Cardinality(table') = Cardinality(table) - 1
        BY <1>10, <1>11, <2>2, <2>4, <3>2
      <4> QED
        BY <1>1, <1>2, <2>2, <3>1, <4>1, <4>2
    <3>3. CASE f.rows = table
      <4>1. f.count = 0
        BY <1>10, <2>4, <3>3
      <4> QED
        BY <1>1, <1>8, <2>2, <3>3, <4>1
    <3> QED
      BY <3>2, <3>3
  <2>5. CASE s.do \notin {"insert", "delete"}
    <3>1. D' = D /\ I' = I
      BY <1>4, <1>5, <2>5
    <3> QED
      BY <1>1, <1>10, <2>2, <2>5, <3>1
  <2> QED
    BY <2>3, <2>4, <2>5
(* No answer.                                                                *)
<1>13. CASE e \in {Unanswered(s, table), Unanswered(s, f.rows)}
  <2>1. ~e.ok /\ e.rows \in {table, f.rows} /\ e.lost = TRUE
    BY <1>13 DEF Unanswered
  <2>2. D' = D /\ I' = I /\ r.lost = TRUE /\ table' \in {table, f.rows}
    BY <1>3, <1>4, <1>8, <2>1
  <2> DEFINE t == <<c, L + 1>>
  <2>3. CASE s.do = "insert"
    <3>1. LD' = LD /\ LI' = LI \cup {t} /\ t \notin LI
      BY <1>4, <1>6, <2>2, <2>3
    <3> HIDE DEF t
    <3>2. IsFiniteSet(LI') /\ Cardinality(LI') = Cardinality(LI) + 1
      BY <1>1, <3>1, FS_AddElement
    <3>3. IsFiniteSet(table') /\ (Cardinality(table') = Cardinality(table) \/ Cardinality(table') = Cardinality(table) + 1)
      <4>1. CASE table' = table
        BY <1>1, <4>1
      <4>2. CASE table' = f.rows /\ s.key \notin table /\ f.rows = table \cup {s.key}
        BY <1>11, <4>2
      <4> QED
        BY <1>10, <2>2, <2>3, <4>1, <4>2
    <3> QED
      BY <1>1, <1>2, <2>2, <3>1, <3>2, <3>3
  <2>4. CASE s.do = "delete"
    <3>1. LI' = LI /\ LD' = LD \cup {t} /\ t \notin LD
      BY <1>4, <1>6, <2>2, <2>4
    <3> HIDE DEF t
    <3>2. IsFiniteSet(LD') /\ Cardinality(LD') = Cardinality(LD) + 1
      BY <1>1, <3>1, FS_AddElement
    <3>3. IsFiniteSet(table') /\ (Cardinality(table') = Cardinality(table) \/ Cardinality(table') = Cardinality(table) - 1)
      <4>1. CASE table' = table
        BY <1>1, <4>1
      <4>2. CASE table' = f.rows /\ s.key \in table /\ f.rows = table \ {s.key}
        BY <1>11, <4>2
      <4> QED
        BY <1>10, <2>2, <2>4, <4>1, <4>2
    <3> QED
      BY <1>1, <1>2, <2>2, <3>1, <3>2, <3>3
  <2>5. CASE s.do \notin {"insert", "delete"}
    <3>1. LD' = LD /\ LI' = LI /\ table' = table
      BY <1>4, <1>6, <1>10, <2>2, <2>5
    <3> QED
      BY <1>1, <2>2, <3>1
  <2> QED
    BY <2>3, <2>4, <2>5
<1> QED
  BY <1>12, <1>13 DEF Outcome
OksOf(c) == \A n \in DOMAIN results[c] : n < Len(results[c]) \/ sqlCalls[c].step = "run" => results[c][n].ok

(* A step that runs no statement.                                            *)
LEMMA ReportStays ==
    ASSUME ReportInv, SqlShape', sqlCase' = sqlCase, table' = table, results' = results,
           \A c \in SqlCallers : sqlCalls'[c].step = "run" => OksOf(c) /\ \A n \in DOMAIN results[c] : results[c][n].ok
    PROVE  ReportInv'
<1>1. Told("delete")' = Told("delete") /\ Told("insert")' = Told("insert")
  BY ToldStays
<1>2. LostRows("delete")' = LostRows("delete") /\ LostRows("insert")' = LostRows("insert")
  BY LostStays
<1> QED
  BY <1>1, <1>2 DEF ReportInv, Balance, Finite

LEMMA ReportStep == ReportInv /\ [SqlNext]_sqlVars => ReportInv'
<1> SUFFICES ASSUME ReportInv, [SqlNext]_sqlVars PROVE ReportInv'
  OBVIOUS
<1>0. SqlShape /\ SqlShape' /\ \A c \in SqlCallers : OksOf(c)
  BY ShapeKept DEF ReportInv, OksOf
<1>1. ASSUME sqlCase' = sqlCase, table' = table, results' = results,
             \A c \in SqlCallers : sqlCalls'[c].step = "run" => sqlCalls[c].step = "run"
      PROVE  ReportInv'
  BY <1>0, <1>1, ReportStays DEF OksOf
<1>2. CASE Tick \/ UNCHANGED sqlVars
  BY <1>1, <1>2 DEF Tick, sqlVars
<1>3. ASSUME NEW c \in SqlCallers, AddSQLHistory(c) \/ TrimRead(c) \/ TrimDelete(c) \/ HistoryFails(c) \/ AuditScript(c)
      PROVE ReportInv'
  <2>1. /\ sqlCase' = sqlCase /\ table' = table /\ results' = results
        /\ \E s \in {"trim", "audit", "cut", "done"} : \E a, t, e : Moved(c, s, a, t, e)
    BY <1>0, <1>3, SqlActs DEF AddSQLHistory, TrimRead, TrimDelete, HistoryFails, AuditScript
  <2> QED
    BY <1>1, <2>1 DEF Moved
<1>4. ASSUME NEW c \in SqlCallers, ListForClear(c) \/ ClearOne(c) \/ Cleared(c) PROVE ReportInv'
  <2>1. /\ sqlCase' = sqlCase /\ table' = table /\ results' = results
        /\ \E s \in {"clear", "done"} : \E a, t, e : Moved(c, s, a, t, e)
    BY <1>0, <1>4, SqlActs DEF ListForClear, ClearOne, Cleared
  <2> QED
    BY <1>1, <2>1 DEF Moved
<1>5. ASSUME NEW c \in SqlCallers, AddFavorite(c) \/ DeleteFavorite(c) \/ ReadFavorite(c) \/ UpdateFavorite(c)
      PROVE ReportInv'
  <2>1. /\ sqlCase' = sqlCase /\ table' = table /\ results' = results
    BY <1>5 DEF AddFavorite, DeleteFavorite, ReadFavorite, UpdateFavorite
  <2>2. \E s \in {"update", "done"} : \E a, t, e : Moved(c, s, a, t, e)
    BY <1>0, <1>5, SqlActs, Zenon
  <2> QED
    BY <1>1, <2>1, <2>2 DEF Moved
<1>6. ASSUME NEW c \in SqlCallers, AuditRow(c) PROVE ReportInv'
  <2>1. /\ sqlCase' = sqlCase /\ table' = table /\ results' = results
        /\ \A d \in SqlCallers \ {c} : sqlCalls'[d] = sqlCalls[d]
    BY <1>0, <1>6, SqlActs DEF AuditRow, Moved
  <2>2. sqlCalls'[c].step = "run" => results[c][Len(results[c])].ok
    <3>1. GoSql(c, WithAtStep(sqlCalls[c], at(c) + 1, IF Last(c).ok /\ More(c) THEN "run" ELSE "done"))
      BY <1>6 DEF AuditRow, WithAtStep, at
    <3> DEFINE s == IF Last(c).ok /\ More(c) THEN "run" ELSE "done"
    <3> HIDE DEF s
    <3>2. sqlCalls'[c].step = s
      BY <1>0, <3>1, CallSteps DEF Moved, s
    <3> QED
      BY <3>2 DEF Last, s
  <2>3. \A n \in DOMAIN results[c] : n < Len(results[c]) \/ n = Len(results[c])
    <3>1. IsList(results[c])
      BY <1>0 DEF SqlShape
    <3>2. Len(results[c]) \in Nat /\ DOMAIN results[c] = 1..Len(results[c])
      BY <3>1, ListAppend
    <3> QED
      BY <3>2
  <2> QED
    BY <1>0, <2>1, <2>2, <2>3, ReportStays DEF OksOf
<1>7. ASSUME NEW c \in SqlCallers, RunStatement(c) \/ EditRow(c) PROVE ReportInv'
  <2> DEFINE s == req(c).stmts[at(c)]
  <2> PICK e \in Outcome(s) : Execute(c, e) /\ (RunStatement(c) /\ sqlCalls'[c].step = "run" => e.ok)
    <3>1. CASE EditRow(c)
      <4>1. AtSql(c, "edit", "run") /\ \E e \in Outcome(s) : Execute(c, e)
        BY <3>1 DEF EditRow
      <4>2. ~RunStatement(c)
        BY <4>1 DEF RunStatement, AtSql
      <4> QED
        BY <4>1, <4>2
    <3>2. CASE RunStatement(c)
      <4> PICK e \in Outcome(s) : /\ Execute(c, e)
                                  /\ GoSql(c, [sqlCalls[c] EXCEPT !.at = @ + 1, !.step = IF e.ok /\ More(c) THEN "run" ELSE "record"])
        BY <3>2 DEF RunStatement
      <4>1. GoSql(c, WithAtStep(sqlCalls[c], at(c) + 1, IF e.ok /\ More(c) THEN "run" ELSE "record"))
        BY DEF WithAtStep, at
      <4>2. sqlCalls'[c].step = IF e.ok /\ More(c) THEN "run" ELSE "record"
        BY <1>0, <4>1, CallSteps DEF Moved
      <4> QED
        BY <4>2
    <3> QED
      BY <1>7, <3>1, <3>2
  <2>1. /\ sqlCalls[c].step = "run" /\ sqlCase' = sqlCase /\ \A d \in SqlCallers \ {c} : sqlCalls'[d] = sqlCalls[d]
        /\ EditRow(c) => sqlCalls'[c].step = "audit"
    BY <1>0, <1>7, SqlActs DEF RunStatement, EditRow, AtSql, Moved
  <2> DEFINE r == Result(s, e)
  <2>2. ResultAdded(c, r) /\ r.ok = e.ok
    BY <1>0, ExecuteMoves DEF Result
  <2>3. Finite' /\ Balance'
    BY <2>1, ExecuteBalances
  <2> HIDE DEF r, s
  <2>4. \A n \in DOMAIN results'[c] : n < Len(results'[c]) \/ sqlCalls'[c].step = "run" => results'[c][n].ok
    <3> TAKE n \in DOMAIN results'[c]
    <3>1. CASE n = Len(results[c]) + 1
      BY <1>7, <2>1, <2>2, <3>1 DEF ResultAdded
    <3>2. CASE n \in 1..Len(results[c])
      BY <1>0, <2>1, <2>2, <3>2 DEF ResultAdded, OksOf
    <3> QED
      BY <2>2, <3>1, <3>2 DEF ResultAdded
  <2>5. \A d \in SqlCallers \ {c} : \A n \in DOMAIN results'[d] :
            n < Len(results'[d]) \/ sqlCalls'[d].step = "run" => results'[d][n].ok
    BY <1>0, <2>1, <2>2 DEF ResultAdded, OksOf
  <2> QED
    BY <1>0, <2>3, <2>4, <2>5 DEF ReportInv
<1> QED
  BY <1>2, <1>3, <1>4, <1>5, <1>6, <1>7 DEF SqlNext

(* RunSQLScript and the edits of rows: the rows the requests were told of     *)
(* add up to what happened to the table, whatever statements failed and       *)
(* however the requests interleaved, but for one row at most for each         *)
(* statement whose answer was lost; nothing ran after a failed statement.     *)
THEOREM ReportsAddUp == SqlSpec => []ReportedExactly
<1>1. SqlInit => ReportInv
  <2> SUFFICES ASSUME SqlInit PROVE ReportInv
    OBVIOUS
  <2>1. SqlShape /\ table = sqlCase.rows /\ \A c \in SqlCallers : results[c] = <<>>
    BY ShapeStart DEF SqlInit
  <2>2. Told("delete") = {} /\ Told("insert") = {}
    BY <2>1, ToldMember
  <2>2a. LostRows("delete") = {} /\ LostRows("insert") = {}
    BY <2>1, LostMember
  <2>3. IsFiniteSet(table) /\ Cardinality(table) \in Nat
    BY <2>1, SqlCasesAssumption, FS_CardinalityType DEF SqlShape
  <2>4. \A c \in SqlCallers : DOMAIN results[c] = {}
    BY <2>1
  <2>5. Balance /\ Finite
    <3>1. IsFiniteSet({}) /\ Cardinality({}) = 0
      BY FS_EmptySet
    <3>2. Finite
      BY <2>2, <2>2a, <2>3, <3>1, Zenon DEF Finite
    <3>3. /\ Cardinality(Told("delete")) = 0 /\ Cardinality(Told("insert")) = 0
          /\ Cardinality(LostRows("delete")) = 0 /\ Cardinality(LostRows("insert")) = 0
      BY <2>2, <2>2a, <3>1, Zenon
    <3> QED
      BY <2>1, <2>3, <3>2, <3>3 DEF Balance
  <2> QED
    BY <2>1, <2>4, <2>5 DEF ReportInv
<1>2. ReportInv => ReportedExactly
  BY DEF ReportInv, ReportedExactly, Balance
<1> QED
  BY <1>1, <1>2, ReportStep, PTL DEF SqlSpec

-----------------------------------------------------------------------------
(* The history of scripts                                                   *)

HistRow(c) == [call |-> c, user |-> req(c).user, conn |-> req(c).conn, stamp |-> Stamp(c)]
AtLeast(c, b) == {d \in SqlCallers : Stamp(d) >= b /\ Domain(d) = Domain(c)}
Newer(c)    == {d \in SqlCallers : Stamp(d) > Stamp(c) /\ Domain(d) = Domain(c)}
Clearing(c) == \E d \in SqlCallers : req(d).op = "clear" /\ sqlCalls[d].step # "run" /\ Within(Domain(d), Domain(c))

(* What a deletion counted on when it read the boundary still holds when it   *)
(* deletes, for stamps only grow; a clearing call removes its own domain.     *)
HistInv ==
    /\ SqlShape /\ clock \in Nat \ {0}
    /\ \A c \in SqlCallers : /\ Stamp(c) \in Nat
                             /\ Stamp(c) > 0 => req(c).op = "script" /\ StepOf(c) \notin {"run", "record"}
    /\ \A r \in sqlHist : r.call \in SqlCallers /\ r = HistRow(r.call) /\ Stamp(r.call) > 0
    /\ \A c \in SqlCallers : AtSql(c, "script", "cut") =>
         at(c) \in Nat \ {0} /\ Cardinality(AtLeast(c, at(c))) >= MaxSqlHistory
    /\ \A c \in SqlCallers : req(c).op = "clear" =>
         \A r \in Seen(c) : r.call \in SqlCallers /\ Within(Domain(c), Domain(r.call))
    /\ \A c \in SqlCallers : (Stamp(c) > 0 /\ \A r \in sqlHist : r.call # c) =>
         Clearing(c) \/ Cardinality(Newer(c)) >= MaxSqlHistory

LEMMA HistIsKept == HistInv => NewestScriptsKept
BY DEF HistInv, NewestScriptsKept, Clearing, Newer, Stamp

LEMMA HistSets ==
    ASSUME HistInv
    PROVE  /\ \A c, b : IsFiniteSet(AtLeast(c, b)) /\ Cardinality(AtLeast(c, b)) \in Nat
           /\ \A c : IsFiniteSet(Newer(c)) /\ Cardinality(Newer(c)) \in Nat
<1>1. \A c, b : AtLeast(c, b) \subseteq SqlCallers
  BY DEF AtLeast
<1>2. \A c : Newer(c) \subseteq SqlCallers
  BY DEF Newer
<1>3. IsFiniteSet(SqlCallers)
  BY SqlAssumption
<1> QED
  BY <1>1, <1>2, <1>3, FS_Subset, FS_CardinalityType

(* A step that stamps nothing: rows disappear only by a clearing, or when     *)
(* enough newer ones were there.                                           *)
LEMMA HistStays ==
    ASSUME HistInv, SqlShape', sqlCase' = sqlCase, clock' \in Nat \ {0}, sqlHist' \subseteq sqlHist,
           \A c \in SqlCallers : Stamp(c)' = Stamp(c),
           \A c \in SqlCallers : req(c).op = "script" /\ StepOf(c)' \in {"run", "record"} => StepOf(c) \in {"run", "record"},
           \A c \in SqlCallers : req(c).op = "clear" /\ StepOf(c) # "run" => StepOf(c)' # "run",
           \A c \in SqlCallers : req(c).op = "script" /\ StepOf(c)' = "cut" =>
             \/ StepOf(c) = "cut" /\ at(c)' = at(c)
             \/ at(c)' \in Nat \ {0} /\ Cardinality(AtLeast(c, at(c)')) >= MaxSqlHistory,
           \A c \in SqlCallers : req(c).op = "clear" =>
             \A r \in Seen(c)' : r \in Seen(c) \/ (r.call \in SqlCallers /\ Within(Domain(c), Domain(r.call))),
           \A r \in sqlHist \ sqlHist' : Clearing(r.call) \/ Cardinality(Newer(r.call)) >= MaxSqlHistory
    PROVE  HistInv'
<1>1. \A c : req(c)' = req(c) /\ Domain(c)' = Domain(c)
  BY DEF req, Domain
<1>2. \A c \in SqlCallers : HistRow(c)' = HistRow(c)
  BY <1>1 DEF HistRow
<1>3. \A c \in SqlCallers : Newer(c)' = Newer(c)
  BY <1>1 DEF Newer
<1>4. \A c, b : AtLeast(c, b)' = AtLeast(c, b)
  BY <1>1 DEF AtLeast
<1>5. \A c \in SqlCallers : Clearing(c) => Clearing(c)'
  BY <1>1 DEF Clearing, Within, StepOf
<1>6. ASSUME NEW c \in SqlCallers
      PROVE  /\ Stamp(c)' \in Nat
             /\ Stamp(c)' > 0 => req(c)'.op = "script" /\ StepOf(c)' \notin {"run", "record"}
  BY <1>1 DEF HistInv
<1>7. ASSUME NEW r \in sqlHist' PROVE r.call \in SqlCallers /\ r = HistRow(r.call) /\ Stamp(r.call) > 0
  BY DEF HistInv
<1>8. \A r \in sqlHist' : \A c \in SqlCallers : r.call = c => r = HistRow(c)' /\ Stamp(c)' > 0
  BY <1>2, <1>7
<1>9. ASSUME NEW c \in SqlCallers, req(c).op = "script", StepOf(c)' = "cut"
      PROVE  at(c)' \in Nat \ {0} /\ \A b : b = at(c)' => Cardinality(AtLeast(c, b)') >= MaxSqlHistory
  <2>1. at(c)' \in Nat \ {0} /\ Cardinality(AtLeast(c, at(c)')) >= MaxSqlHistory
    BY <1>9 DEF HistInv, AtSql, StepOf
  <2> QED
    BY <1>4, <2>1
<1>10. ASSUME NEW c \in SqlCallers, req(c).op = "clear", NEW r \in Seen(c)'
       PROVE  r.call \in SqlCallers /\ \A d \in SqlCallers : d = r.call => Within(Domain(c), Domain(d))'
  <2>1. r.call \in SqlCallers /\ Within(Domain(c), Domain(r.call))
    BY <1>10 DEF HistInv
  <2> QED
    BY <1>1, <2>1 DEF Within
<1>11. ASSUME NEW c \in SqlCallers, Stamp(c)' > 0, \A r \in sqlHist' : r.call # c
       PROVE  Clearing(c)' \/ Cardinality(Newer(c)') >= MaxSqlHistory
  <2>1. Clearing(c) \/ Cardinality(Newer(c)) >= MaxSqlHistory
    <3>1. CASE \A r \in sqlHist : r.call # c
      BY <1>11, <3>1 DEF HistInv
    <3>2. CASE \E r \in sqlHist : r.call = c
      BY <1>11, <3>2
    <3> QED
      BY <3>1, <3>2
  <2> QED
    BY <1>3, <1>5, <2>1
<1> QED
  BY <1>1, <1>6, <1>7, <1>8, <1>9, <1>10, <1>11 DEF HistInv, AtSql, StepOf

LEMMA AddStep == ASSUME HistInv, NEW c \in SqlCallers, AddSQLHistory(c) PROVE HistInv'
<1>0. SqlShape /\ SqlShape'
  <2>1. SqlShape
    BY DEF HistInv
  <2> QED
    BY <2>1, ShapeKept DEF SqlNext
<1>1. /\ AtSql(c, "script", "record") /\ Moved(c, "trim", at(c), clock, Seen(c)) /\ sqlCase' = sqlCase /\ clock' = clock
      /\ sqlHist' = sqlHist \cup {[call |-> c, user |-> req(c).user, conn |-> req(c).conn, stamp |-> clock]}
  BY <1>0, SqlActs DEF AddSQLHistory
<1>2. /\ \A d : req(d)' = req(d) /\ Domain(d)' = Domain(d)
      /\ \A d \in SqlCallers \ {c} : Stamp(d)' = Stamp(d) /\ StepOf(d)' = StepOf(d) /\ Seen(d)' = Seen(d) /\ at(d)' = at(d)
      /\ Stamp(c)' = clock /\ StepOf(c)' = "trim" /\ Seen(c)' = Seen(c) /\ req(c).op = "script"
      /\ clock \in Nat \ {0} /\ Stamp(c) = 0
  BY <1>1 DEF HistInv, AtSql, Moved, req, Domain, Stamp, StepOf, Seen, at
<1>3. \A d \in SqlCallers : Stamp(d) \in Nat /\ Stamp(d)' \in Nat /\ Stamp(d) <= Stamp(d)'
  BY <1>2 DEF HistInv
<1>4. \A d \in SqlCallers \ {c} : HistRow(d)' = HistRow(d)
  BY <1>2 DEF HistRow
<1>5. HistRow(c)' = [call |-> c, user |-> req(c).user, conn |-> req(c).conn, stamp |-> clock]
  BY <1>2 DEF HistRow
<1>6. \A r \in sqlHist : r.call \in SqlCallers \ {c} /\ r = HistRow(r.call) /\ Stamp(r.call) > 0
  BY <1>2 DEF HistInv
<1>7. \A r \in sqlHist' : r.call \in SqlCallers /\ \A d : d = r.call => r = HistRow(d)' /\ Stamp(d)' > 0
  <2> TAKE r \in sqlHist'
  <2>1. CASE r \in sqlHist
    BY <1>2, <1>4, <1>6, <2>1
  <2>2. CASE r = [call |-> c, user |-> req(c).user, conn |-> req(c).conn, stamp |-> clock]
    BY <1>2, <1>5, <2>2
  <2> QED
    BY <1>1, <2>1, <2>2
<1>8. ASSUME NEW S \in SUBSET SqlCallers, NEW T \in SUBSET SqlCallers, S \subseteq T, Cardinality(S) >= MaxSqlHistory
      PROVE  Cardinality(T) >= MaxSqlHistory
  <2>1. IsFiniteSet(S) /\ IsFiniteSet(T)
    BY SqlAssumption, FS_Subset
  <2>2. Cardinality(S) \in Nat /\ Cardinality(T) \in Nat /\ Cardinality(S) <= Cardinality(T)
    BY <1>8, <2>1, FS_Subset, FS_CardinalityType
  <2> QED
    BY <1>8, <2>2, SqlAssumption
<1>9. ASSUME NEW d \in SqlCallers, req(d).op = "script", StepOf(d)' = "cut"
      PROVE  at(d)' \in Nat \ {0} /\ \A b : b = at(d)' => Cardinality(AtLeast(d, b)') >= MaxSqlHistory
  <2>1. d # c /\ StepOf(d) = "cut" /\ at(d)' = at(d)
    BY <1>2, <1>9
  <2>2. at(d) \in Nat \ {0} /\ Cardinality(AtLeast(d, at(d))) >= MaxSqlHistory
    BY <1>9, <2>1 DEF HistInv, AtSql, StepOf
  <2>3. \A b \in Nat : AtLeast(d, b) \subseteq AtLeast(d, b)' /\ AtLeast(d, b)' \subseteq SqlCallers
                        /\ AtLeast(d, b) \subseteq SqlCallers
    BY <1>2, <1>3 DEF AtLeast
  <2> QED
    BY <1>8, <2>1, <2>2, <2>3
<1>10. ASSUME NEW d \in SqlCallers, req(d).op = "clear", NEW r \in Seen(d)'
       PROVE  r.call \in SqlCallers /\ \A f \in SqlCallers : f = r.call => Within(Domain(d), Domain(f))'
  <2>1. Seen(d)' = Seen(d)
    BY <1>2
  <2>2. r.call \in SqlCallers /\ Within(Domain(d), Domain(r.call))
    BY <1>10, <2>1 DEF HistInv
  <2> QED
    BY <1>2, <2>2 DEF Within
<1>11. ASSUME NEW d \in SqlCallers, Stamp(d)' > 0, \A r \in sqlHist' : r.call # d
       PROVE  Clearing(d)' \/ Cardinality(Newer(d)') >= MaxSqlHistory
  <2>1. d # c
    <3> DEFINE new == [call |-> c, user |-> req(c).user, conn |-> req(c).conn, stamp |-> clock]
    <3>1. new \in sqlHist' /\ new.call = c
      BY <1>1
    <3> QED
      BY <1>11, <3>1
  <2>2. Clearing(d) \/ Cardinality(Newer(d)) >= MaxSqlHistory
    BY <1>1, <1>2, <1>11, <2>1 DEF HistInv
  <2>3. Clearing(d) => Clearing(d)'
    BY <1>1, <1>2, <2>1 DEF Clearing, Within, Moved
  <2>4. Newer(d) \subseteq Newer(d)' /\ Newer(d) \subseteq SqlCallers /\ Newer(d)' \subseteq SqlCallers
    BY <1>2, <1>3, <2>1 DEF Newer
  <2> QED
    BY <1>8, <2>2, <2>3, <2>4
<1>12. ASSUME NEW d \in SqlCallers
       PROVE  /\ Stamp(d)' \in Nat
              /\ Stamp(d)' > 0 => req(d)'.op = "script" /\ StepOf(d)' \notin {"run", "record"}
  <2>1. CASE d = c
    BY <1>2, <2>1
  <2>2. CASE d # c
    BY <1>2, <2>2 DEF HistInv
  <2> QED
    BY <2>1, <2>2
<1> QED
  BY <1>0, <1>1, <1>2, <1>7, <1>9, <1>10, <1>11, <1>12 DEF HistInv, AtSql, StepOf

(* The boundary: as many rows as are kept are at least as new as it.          *)
LEMMA BoundaryHolds ==
    ASSUME HistInv, NEW c \in SqlCallers, req(c).op = "script", NEW b \in Boundary(InDomain(c))
    PROVE  b \in Nat \ {0} /\ Cardinality(AtLeast(c, b)) >= MaxSqlHistory
<1> DEFINE all == InDomain(c)
           R == {n \in all : n.stamp >= b}
           f == [r \in R |-> r.call]
<1>1. all \subseteq sqlHist /\ \A r \in all : Within(Domain(c), r)
  BY DEF InDomain
<1>2. \A r \in all : r.call \in SqlCallers /\ r = HistRow(r.call) /\ Stamp(r.call) \in Nat \ {0}
  BY <1>1 DEF HistInv
<1>3. PICK q \in all : b = q.stamp /\ Cardinality({n \in all : n.stamp >= q.stamp}) >= MaxSqlHistory
  BY DEF Boundary
<1>4. \A r \in all : r.stamp = Stamp(r.call) /\ r.user = req(r.call).user /\ r.conn = req(r.call).conn
  <2> TAKE r \in all
  <2>1. r = HistRow(r.call)
    BY <1>2
  <2> DEFINE d == r.call
  <2>2. r = [call |-> d, user |-> req(d).user, conn |-> req(d).conn, stamp |-> Stamp(d)]
    BY <2>1 DEF HistRow
  <2> HIDE DEF d
  <2>3. r.stamp = Stamp(d) /\ r.user = req(d).user /\ r.conn = req(d).conn
    BY <2>2
  <2> QED
    BY <2>3 DEF d
<1>5. b \in Nat \ {0}
  BY <1>2, <1>3, <1>4
<1>6. \A r \in all : Domain(r.call) = Domain(c)
  <2>1. req(c).conn # "any"
    BY SqlCasesAssumption DEF HistInv, SqlShape, req
  <2> TAKE r \in all
  <2>2. r.user = req(c).user /\ r.conn = req(c).conn
    <3>1. Domain(c).user = req(c).user /\ Domain(c).conn = req(c).conn
      BY DEF Domain
    <3> QED
      BY <1>1, <2>1, <3>1 DEF Within
  <2> QED
    BY <1>4, <2>2 DEF Domain
<1>7. f \in Injection(R, AtLeast(c, b))
  <2>1. f \in [R -> AtLeast(c, b)]
    BY <1>2, <1>4, <1>6 DEF AtLeast
  <2>2. \A r, s \in R : f[r] = f[s] => r = s
    BY <1>2
  <2> HIDE DEF f, R
  <2> QED
    BY <2>1, <2>2, Fun_IsInj
<1>8. IsFiniteSet(AtLeast(c, b)) /\ Cardinality(AtLeast(c, b)) \in Nat
  BY HistSets
<1> HIDE DEF f, R, all
<1>9. Cardinality(R) <= Cardinality(AtLeast(c, b)) /\ IsFiniteSet(R)
  BY <1>7, <1>8, FS_Injection
<1>10. Cardinality(R) \in Nat /\ Cardinality(R) >= MaxSqlHistory
  BY <1>3, <1>9, FS_CardinalityType DEF R
<1> QED
  BY <1>5, <1>8, <1>9, <1>10, SqlAssumption

LEMMA TrimStep == ASSUME HistInv, NEW c \in SqlCallers, TrimDelete(c) PROVE HistInv'
<1>0. SqlShape /\ SqlShape'
  <2>1. SqlShape
    BY DEF HistInv
  <2> QED
    BY <2>1, ShapeKept DEF SqlNext
<1>1. /\ AtSql(c, "script", "cut") /\ sqlCase' = sqlCase /\ clock' = clock /\ clock \in Nat \ {0}
      /\ sqlHist' = sqlHist \ {r \in InDomain(c) : r.stamp < at(c)} /\ Moved(c, "audit", at(c), Stamp(c), Seen(c))
  BY <1>0, SqlActs DEF TrimDelete, HistInv
<1>2. /\ \A d \in SqlCallers \ {c} : Stamp(d)' = Stamp(d) /\ StepOf(d)' = StepOf(d) /\ Seen(d)' = Seen(d) /\ at(d)' = at(d)
      /\ Stamp(c)' = Stamp(c) /\ StepOf(c)' = "audit" /\ Seen(c)' = Seen(c) /\ req(c).op = "script"
  BY <1>1 DEF AtSql, Moved, Stamp, StepOf, Seen, at
<1>3. ASSUME NEW r \in sqlHist \ sqlHist' PROVE Cardinality(Newer(r.call)) >= MaxSqlHistory
  <2>1. r \in sqlHist /\ r.stamp < at(c) /\ Within(Domain(c), r)
    BY <1>1 DEF InDomain
  <2> PICK d \in SqlCallers : d = r.call /\ r = HistRow(d)
    BY DEF HistInv
  <2>2. r.stamp = Stamp(d) /\ r.user = req(d).user /\ r.conn = req(d).conn
    <3>1. r = [call |-> d, user |-> req(d).user, conn |-> req(d).conn, stamp |-> Stamp(d)]
      BY DEF HistRow
    <3> QED
      BY <3>1
  <2>3. req(c).conn # "any"
    BY <1>2, SqlCasesAssumption DEF HistInv, SqlShape, req
  <2>4. Domain(d) = Domain(c)
    BY <2>1, <2>2, <2>3 DEF Within, Domain
  <2>5. at(c) \in Nat \ {0} /\ Cardinality(AtLeast(c, at(c))) >= MaxSqlHistory /\ \A e \in SqlCallers : Stamp(e) \in Nat
    BY <1>1 DEF HistInv
  <2>6. AtLeast(c, at(c)) \subseteq Newer(d)
    <3>1. Stamp(d) < at(c) /\ Stamp(d) \in Nat
      BY <2>1, <2>2, <2>5
    <3>2. \A e \in SqlCallers : Stamp(e) >= at(c) => Stamp(e) > Stamp(d)
      BY <2>5, <3>1
    <3> QED
      BY <2>4, <3>2 DEF AtLeast, Newer
  <2>7. IsFiniteSet(Newer(d)) /\ Cardinality(Newer(d)) \in Nat /\ Cardinality(AtLeast(c, at(c))) \in Nat
    BY HistSets
  <2>8. Cardinality(AtLeast(c, at(c))) <= Cardinality(Newer(d))
    BY <2>6, <2>7, FS_Subset
  <2> QED
    BY <2>5, <2>7, <2>8, SqlAssumption
<1> QED
  BY <1>0, <1>1, <1>2, <1>3, HistStays

LEMMA HistStep == HistInv /\ [SqlNext]_sqlVars => HistInv'
<1> SUFFICES ASSUME HistInv, [SqlNext]_sqlVars PROVE HistInv'
  OBVIOUS
<1>0. SqlShape /\ SqlShape' /\ clock \in Nat \ {0}
  BY ShapeKept DEF HistInv
<1>1. ASSUME sqlCase' = sqlCase, sqlHist' = sqlHist, clock' \in Nat \ {0}, sqlCalls' = sqlCalls PROVE HistInv'
  <2>1. \A c : Stamp(c)' = Stamp(c) /\ StepOf(c)' = StepOf(c) /\ Seen(c)' = Seen(c) /\ at(c)' = at(c)
    BY <1>1 DEF Stamp, StepOf, Seen, at
  <2> QED
    BY <1>0, <1>1, <2>1, HistStays
<1>2. CASE Tick \/ UNCHANGED sqlVars
  BY <1>0, <1>1, <1>2 DEF Tick, sqlVars, storeVars
(* A step of one call that leaves the history alone.                         *)
<1>3. ASSUME NEW c \in SqlCallers, NEW s, NEW a, NEW e, Moved(c, s, a, Stamp(c), e),
             sqlCase' = sqlCase, sqlHist' = sqlHist, clock' = clock,
             req(c).op = "script" /\ s \in {"run", "record"} => StepOf(c) \in {"run", "record"},
             req(c).op = "clear" => s # "run",
             req(c).op = "script" /\ s = "cut" => a \in Nat \ {0} /\ Cardinality(AtLeast(c, a)) >= MaxSqlHistory,
             req(c).op = "clear" => \A r \in e : r \in Seen(c) \/ (r.call \in SqlCallers /\ Within(Domain(c), Domain(r.call)))
      PROVE  HistInv'
  <2>1. /\ \A d \in SqlCallers \ {c} : Stamp(d)' = Stamp(d) /\ StepOf(d)' = StepOf(d) /\ Seen(d)' = Seen(d) /\ at(d)' = at(d)
        /\ Stamp(c)' = Stamp(c) /\ StepOf(c)' = s /\ Seen(c)' = e /\ at(c)' = a
    BY <1>3 DEF Moved, Stamp, StepOf, Seen, at
  <2> QED
    BY <1>0, <1>3, <2>1, HistStays
<1>4. ASSUME NEW c \in SqlCallers, RunStatement(c) PROVE HistInv'
  <2>1. /\ req(c).op = "script" /\ StepOf(c) = "run" /\ sqlCase' = sqlCase /\ sqlHist' = sqlHist /\ clock' = clock
        /\ \E s \in {"run", "record"} : Moved(c, s, at(c) + 1, Stamp(c), Seen(c))
    BY <1>0, <1>4, SqlActs DEF RunStatement, AtSql, StepOf, storeVars
  <2> QED
    BY <1>3, <2>1
<1>5. ASSUME NEW c \in SqlCallers, TrimRead(c) PROVE HistInv'
  <2>1. /\ req(c).op = "script" /\ sqlCase' = sqlCase /\ sqlHist' = sqlHist /\ clock' = clock
        /\ \/ Moved(c, "audit", at(c), Stamp(c), Seen(c))
           \/ \E b \in Boundary(InDomain(c)) : Moved(c, "cut", b, Stamp(c), Seen(c))
    BY <1>0, <1>5, SqlActs DEF TrimRead, AtSql, storeVars
  <2>2. CASE Moved(c, "audit", at(c), Stamp(c), Seen(c))
    BY <1>3, <2>1, <2>2
  <2>3. ASSUME NEW b \in Boundary(InDomain(c)), Moved(c, "cut", b, Stamp(c), Seen(c)) PROVE HistInv'
    BY <1>3, <2>1, <2>3, BoundaryHolds
  <2> QED
    BY <2>1, <2>2, <2>3
<1>6. ASSUME NEW c \in SqlCallers, HistoryFails(c) \/ AuditScript(c) PROVE HistInv'
  <2>1. /\ req(c).op = "script" /\ sqlCase' = sqlCase /\ sqlHist' = sqlHist /\ clock' = clock
        /\ \E s \in {"audit", "done"} : Moved(c, s, at(c), Stamp(c), Seen(c))
    BY <1>0, <1>6, SqlActs DEF HistoryFails, AuditScript, AtSql, storeVars
  <2> QED
    BY <1>3, <2>1
<1>7. ASSUME NEW c \in SqlCallers, EditRow(c) \/ AuditRow(c) PROVE HistInv'
  <2>1. req(c).op = "edit" /\ sqlCase' = sqlCase /\ sqlHist' = sqlHist /\ clock' = clock
    BY <1>7 DEF EditRow, AuditRow, AtSql, storeVars
  <2>2. \E s, a : Moved(c, s, a, Stamp(c), Seen(c))
    BY <1>0, <1>7, SqlActs
  <2> QED
    BY <1>3, <2>1, <2>2
<1>8. ASSUME NEW c \in SqlCallers, ListForClear(c) PROVE HistInv'
  <2>1. /\ req(c).op = "clear" /\ sqlCase' = sqlCase /\ sqlHist' = sqlHist /\ clock' = clock
        /\ GoSql(c, WithSeen(sqlCalls[c], "clear", InDomain(c)))
    BY <1>8 DEF ListForClear, AtSql, WithSeen, storeVars
  <2>2. Moved(c, "clear", at(c), Stamp(c), InDomain(c))
    BY <1>0, <2>1, CallSteps
  <2>3. ASSUME NEW r \in InDomain(c) PROVE r.call \in SqlCallers /\ Within(Domain(c), Domain(r.call))
    <3> PICK d \in SqlCallers : d = r.call /\ r = HistRow(d)
      BY DEF HistInv, InDomain
    <3>1. r.user = req(d).user /\ r.conn = req(d).conn
      <4>1. r = [call |-> d, user |-> req(d).user, conn |-> req(d).conn, stamp |-> Stamp(d)]
        BY DEF HistRow
      <4> QED
        BY <4>1
    <3>2. Domain(d).user = req(d).user /\ Domain(d).conn = req(d).conn
      BY DEF Domain
    <3> QED
      BY <3>1, <3>2 DEF Within, InDomain
  <2> QED
    BY <1>3, <2>1, <2>2, <2>3
<1>9. ASSUME NEW c \in SqlCallers, ClearOne(c) PROVE HistInv'
  <2> PICK q \in sqlCalls[c].seen : /\ sqlHist' = {r \in sqlHist : r.call # q.call}
                                    /\ GoSql(c, [sqlCalls[c] EXCEPT !.seen = @ \ {q}])
    BY <1>9 DEF ClearOne
  <2>1. /\ req(c).op = "clear" /\ StepOf(c) = "clear" /\ sqlCase' = sqlCase /\ clock' = clock /\ q \in Seen(c)
        /\ GoSql(c, WithSeenOnly(sqlCalls[c], Seen(c) \ {q}))
    BY <1>9 DEF ClearOne, AtSql, StepOf, Seen, WithSeenOnly
  <2>2. Moved(c, "clear", at(c), Stamp(c), Seen(c) \ {q})
    BY <1>0, <2>1, CallSteps
  <2>3. /\ \A d \in SqlCallers \ {c} : Stamp(d)' = Stamp(d) /\ StepOf(d)' = StepOf(d) /\ Seen(d)' = Seen(d) /\ at(d)' = at(d)
        /\ Stamp(c)' = Stamp(c) /\ StepOf(c)' = "clear" /\ Seen(c)' = Seen(c) \ {q}
    BY <2>2 DEF Moved, Stamp, StepOf, Seen, at
  <2>4. \A r \in sqlHist \ sqlHist' : Clearing(r.call)
    <3>1. Within(Domain(c), Domain(q.call))
      BY <2>1 DEF HistInv
    <3>2. Clearing(q.call)
      BY <2>1, <3>1 DEF Clearing, StepOf
    <3> QED
      BY <3>2
  <2> QED
    BY <1>0, <2>1, <2>3, <2>4, HistStays
<1>10. ASSUME NEW c \in SqlCallers, Cleared(c) PROVE HistInv'
  <2>1. /\ sqlCase' = sqlCase /\ sqlHist' = sqlHist /\ clock' = clock /\ req(c).op = "clear"
        /\ Moved(c, "done", at(c), Stamp(c), Seen(c))
    BY <1>0, <1>10, SqlActs DEF Cleared, AtSql, storeVars
  <2> QED
    BY <1>3, <2>1
<1>11. ASSUME NEW c \in SqlCallers, AddFavorite(c) \/ DeleteFavorite(c) \/ ReadFavorite(c) \/ UpdateFavorite(c)
       PROVE HistInv'
  <2>1. req(c).op \notin {"script", "clear"} /\ sqlCase' = sqlCase /\ sqlHist' = sqlHist /\ clock' = clock
    BY <1>11 DEF AddFavorite, DeleteFavorite, ReadFavorite, UpdateFavorite, AtSql, storeVars
  <2>2. \E s, e : Moved(c, s, at(c), Stamp(c), e)
    BY <1>0, <1>11, SqlActs, Zenon
  <2> QED
    BY <1>3, <2>1, <2>2
<1> QED
  BY <1>2, <1>4, <1>5, <1>6, <1>7, <1>8, <1>9, <1>10, <1>11, AddStep, TrimStep DEF SqlNext

(* trimSQLHistory reads the boundary in one query and deletes in another:     *)
(* however scripts and clearings interleave with that, the row of a script   *)
(* goes only after the agreed number of newer ones, or when its user clears. *)
THEOREM ScriptsAreKept == SqlSpec => []NewestScriptsKept
<1>1. SqlInit => HistInv
  <2> SUFFICES ASSUME SqlInit PROVE HistInv
    OBVIOUS
  <2>1. clock = 1 /\ sqlHist = {} /\ \A c \in SqlCallers : StepOf(c) = "run" /\ Stamp(c) = 0 /\ Seen(c) = {}
    BY DEF SqlInit, StepOf, Stamp, Seen
  <2> QED
    BY <2>1, ShapeStart DEF HistInv, AtSql, StepOf
<1> QED
  BY <1>1, HistStep, HistIsKept, PTL DEF SqlSpec

-----------------------------------------------------------------------------
(* The types of saved tasks and of the options of commands.                  *)

IsTaskCall(x) == x = [op |-> "idle"] \/
    \E o \in {"load", "mark"}, i \in TaskIds, k \in TaskKinds : \E t : x = [op |-> o, id |-> i, kind |-> k, todo |-> t]

TaskRowType == [kind : TaskKinds, updated : 1 .. MaxEdits, last : BOOLEAN]
RowsTyped(T) == \A i \in TaskIds : T[i] = NoTask \/ T[i] \in TaskRowType
TaskTyping ==
    /\ TaskTypeOK
    /\ task = [i \in TaskIds |-> task[i]] /\ RowsTyped(task)
    /\ taskCalls = [c \in TaskCalls |-> taskCalls[c]] /\ \A c \in TaskCalls : IsTaskCall(taskCalls[c])
    /\ \A c \in TaskCalls : taskCalls[c].op = "mark" =>
         \A r \in taskCalls[c].todo : r.row \in TaskRowType

LEMMA NoTaskApart == NoTask \notin TaskRowType
BY DEF NoTask, TaskRowType

LEMMA RowsTypeOK ==
    ASSUME RowsTyped(task)
    PROVE  \A i \in TaskRows : task[i].kind \in TaskKinds /\ task[i].updated \in 1 .. MaxEdits
BY DEF RowsTyped, TaskRows, TaskRowType

LEMMA OptsFromTyped ==
    ASSUME NEW layer, NEW name \in {"config", "task", "flag"}
    PROVE  OptsFrom(layer, name) \in Options
<1> DEFINE conditions == IF layer.cond /\ kindOf \in {"export", "migrate"} THEN <<name>> ELSE <<>>
<1>1. conditions \in Seq({"config", "task", "flag"})
  <2>1. <<name>> \in Seq({"config", "task", "flag"}) /\ <<>> \in Seq({"config", "task", "flag"})
    OBVIOUS
  <2> QED
    BY <2>1
<1> HIDE DEF conditions
<1> QED
  BY <1>1 DEF OptsFrom, Options, Layers, conditions

LEMMA FlaggedTyped ==
    ASSUME NEW o \in Options, NEW conditions \in BOOLEAN, NEW named \in BOOLEAN
    PROVE  Flagged(o, conditions, named) \in Options
<1> PICK a \in Layers, b \in Layers, c \in Seq({"config", "task", "flag"}), d \in Layers, e \in {"own"} \cup Layers :
        o = [inline |-> a, ref |-> b, conditions |-> c, outputDir |-> d, dbName |-> e]
  BY DEF Options
<1> DEFINE b2 == IF flags.conn = "ref" THEN "flag" ELSE b
           a2 == IF flags.conn = "inline" THEN "flag" ELSE a
           e2 == IF flags.conn = "inline" THEN (IF flags.db THEN "flag" ELSE "own") ELSE e
           c2 == IF flags.cond /\ conditions THEN Append(c, "flag") ELSE c
           d2 == IF flags.out # "none" /\ named THEN "flag" ELSE d
<1>1. /\ a2 \in Layers /\ b2 \in Layers /\ d2 \in Layers /\ e2 \in {"own"} \cup Layers
      /\ c2 \in Seq({"config", "task", "flag"})
  BY DEF Layers
<1>2. Flagged(o, conditions, named) = [inline |-> a2, ref |-> b2, conditions |-> c2, outputDir |-> d2, dbName |-> e2]
  <2> DEFINE o1 == [inline |-> a, ref |-> b2, conditions |-> c, outputDir |-> d, dbName |-> e]
             o2 == [inline |-> a2, ref |-> b2, conditions |-> c, outputDir |-> d, dbName |-> e]
             o3 == [inline |-> a2, ref |-> b2, conditions |-> c, outputDir |-> d, dbName |-> e2]
             o4 == [inline |-> a2, ref |-> b2, conditions |-> c2, outputDir |-> d, dbName |-> e2]
             o5 == [inline |-> a2, ref |-> b2, conditions |-> c2, outputDir |-> d2, dbName |-> e2]
  <2>1. Flagged(o, conditions, named) = [[[[[o EXCEPT !.ref = b2] EXCEPT !.inline = a2] EXCEPT !.dbName = e2]
                                            EXCEPT !.conditions = c2] EXCEPT !.outputDir = d2]
    BY DEF Flagged
  <2> HIDE DEF a2, b2, c2, d2, e2
  <2>2. [o EXCEPT !.ref = b2] = o1 /\ [o1 EXCEPT !.inline = a2] = o2 /\ [o2 EXCEPT !.dbName = e2] = o3
    OBVIOUS
  <2>3. [o3 EXCEPT !.conditions = c2] = o4 /\ [o4 EXCEPT !.outputDir = d2] = o5
    OBVIOUS
  <2> HIDE DEF o1, o2, o3, o4, o5
  <2>4. Flagged(o, conditions, named) = o5
    BY <2>1, <2>2, <2>3, Zenon
  <2> QED
    BY <2>4 DEF o5
<1> HIDE DEF a2, b2, c2, d2, e2
<1> QED
  BY <1>1, <1>2 DEF Options

LEMMA CommandTyped ==
    ASSUME TaskTyping, Command
    PROVE  TaskTyping'
<1>1. opts \in Options /\ wantZip \in Layers
  BY DEF TaskTyping, TaskTypeOK
<1>2. UNCHANGED <<cmdCase, callVars>> /\ cmdStep' \in {"task", "flags", "override", "run", "done", "failed"}
  BY DEF Command, ReadConfig, ReadTask, SkipTask, TaskUnusable, cliExport, cliDictionary, cliImport, cliMigrate, cliCompare,
         ApplyFlags, OverrideDatabase, NoOverride, Run, Step
<1>3. opts' \in Options /\ wantZip' \in Layers
  <2>1. CASE ReadConfig
    <3>1. opts' = opts \/ opts' = OptsFrom(config, "config")
      BY <2>1 DEF ReadConfig
    <3>2. wantZip' \in Layers
      BY <1>1, <2>1 DEF ReadConfig, Layers
    <3> QED
      BY <1>1, <3>1, <3>2, OptsFromTyped
  <2>2. CASE ReadTask
    <3>1. opts' = OptsFrom(ByTask, "task") /\ wantZip' = wantZip
      BY <2>2 DEF ReadTask
    <3> QED
      BY <1>1, <3>1, OptsFromTyped
  <2>3. CASE SkipTask \/ TaskUnusable \/ NoOverride \/ Run
    BY <1>1, <2>3 DEF SkipTask, TaskUnusable, NoOverride, Run
  <2>4. ASSUME NEW conditions \in BOOLEAN, NEW named \in BOOLEAN, ApplyFlags(conditions, named)
        PROVE  opts' \in Options /\ wantZip' \in Layers
    <3>1. opts' = Flagged(opts, conditions, named)
      BY <2>4 DEF ApplyFlags
    <3>2. wantZip' \in {wantZip, "flag", "none"}
      BY <2>4 DEF ApplyFlags
    <3> QED
      BY <1>1, <3>1, <3>2, FlaggedTyped DEF Layers
  <2>5. CASE cliExport \/ cliDictionary \/ cliImport \/ cliMigrate \/ cliCompare
    BY <2>4, <2>5, Zenon DEF cliExport, cliDictionary, cliImport, cliMigrate, cliCompare
  <2>6. CASE OverrideDatabase
    <3>1. opts.ref \in Layers /\ OverrideBy \in Layers
      BY <1>1 DEF Options, OverrideBy, Layers
    <3>2. wantZip' = wantZip /\ opts' \in {opts, [opts EXCEPT !.inline = opts.ref, !.ref = "none", !.dbName = OverrideBy]}
      BY <2>6 DEF OverrideDatabase
    <3>3. [opts EXCEPT !.inline = opts.ref] \in Options
      BY <1>1, <3>1 DEF Options
    <3>4. [opts EXCEPT !.inline = opts.ref, !.ref = "none"] \in Options
      BY <1>1, <3>1 DEF Options, Layers
    <3>5. [opts EXCEPT !.inline = opts.ref, !.ref = "none", !.dbName = OverrideBy] \in Options
      BY <1>1, <3>1 DEF Options, Layers
    <3> QED
      BY <1>1, <3>2, <3>5
  <2> QED
    BY <2>1, <2>2, <2>3, <2>5, <2>6 DEF Command
<1> QED
  BY <1>2, <1>3 DEF TaskTyping, TaskTypeOK, callVars, TaskRows, RowsTyped

LEMMA CallsTyped ==
    ASSUME TaskTyping, Calls
    PROVE  TaskTyping'
<1>1. /\ task = [i \in TaskIds |-> task[i]] /\ RowsTyped(task) /\ edits \in 0 .. MaxEdits
      /\ taskCalls = [c \in TaskCalls |-> taskCalls[c]] /\ \A c \in TaskCalls : IsTaskCall(taskCalls[c])
      /\ \A c \in TaskCalls : taskCalls[c].op = "mark" => \A r \in taskCalls[c].todo : r.row \in TaskRowType
      /\ newest \in [TaskKinds -> TaskIds \cup {NoNewest}] /\ clash \in BOOLEAN
  BY DEF TaskTyping, TaskTypeOK
<1>0. Nobody \in [TaskKinds -> TaskIds \cup {NoNewest}]
  BY DEF Nobody
<1>2. ASSUME task' = [i \in TaskIds |-> task'[i]], RowsTyped(task'), edits' \in 0 .. MaxEdits,
             taskCalls' = [c \in TaskCalls |-> taskCalls'[c]], \A c \in TaskCalls : IsTaskCall(taskCalls'[c]),
             \A c \in TaskCalls : taskCalls'[c].op = "mark" => \A r \in taskCalls'[c].todo : r.row \in TaskRowType,
             newest' \in [TaskKinds -> TaskIds \cup {NoNewest}], clash' \in BOOLEAN, cmdVars' = cmdVars
      PROVE  TaskTyping'
  <2>1. \A i \in TaskRows' : task'[i].kind \in TaskKinds /\ task'[i].updated \in 1 .. MaxEdits
    BY <1>2 DEF RowsTyped, TaskRows, TaskRowType
  <2> QED
    BY <1>2, <2>1 DEF TaskTyping, TaskTypeOK, cmdVars, RowsTyped
<1>3. ASSUME NEW c \in TaskCalls, NEW new, IsTaskCall(new), taskCalls' = [taskCalls EXCEPT ![c] = new],
             new.op = "mark" => \A r \in new.todo : r.row \in TaskRowType
      PROVE  /\ taskCalls' = [d \in TaskCalls |-> taskCalls'[d]] /\ \A d \in TaskCalls : IsTaskCall(taskCalls'[d])
             /\ \A d \in TaskCalls : taskCalls'[d].op = "mark" => \A r \in taskCalls'[d].todo : r.row \in TaskRowType
  <2>1. taskCalls'[c] = new /\ \A d \in TaskCalls : d # c => taskCalls'[d] = taskCalls[d]
    BY <1>1, <1>3
  <2> QED
    BY <1>1, <1>3, <2>1
<1>10. ASSUME NEW meets \in BOOLEAN, NEW known \in [TaskKinds -> TaskIds \cup {NoNewest}], Noted(meets, known)
       PROVE  clash' \in BOOLEAN /\ newest' \in [TaskKinds -> TaskIds \cup {NoNewest}]
  BY <1>0, <1>1, <1>10 DEF Noted
<1>11. ASSUME NEW c \in TaskCalls, EndCall(c)
       PROVE  /\ clash' \in BOOLEAN
              /\ taskCalls' = [d \in TaskCalls |-> taskCalls'[d]] /\ \A d \in TaskCalls : IsTaskCall(taskCalls'[d])
              /\ \A d \in TaskCalls : taskCalls'[d].op = "mark" => \A r \in taskCalls'[d].todo : r.row \in TaskRowType
  <2> DEFINE new == [op |-> "idle"]
  <2>1. IsTaskCall(new) /\ new.op # "mark"
    BY DEF IsTaskCall
  <2>2. taskCalls' = [taskCalls EXCEPT ![c] = new]
    BY <1>11 DEF EndCall
  <2>3. clash' \in BOOLEAN
    BY <1>1, <1>11 DEF EndCall
  <2> HIDE DEF new
  <2> QED
    BY <1>3, <2>1, <2>2, <2>3
<1>4. ASSUME NEW c \in TaskCalls, NEW i \in TaskIds, NEW k \in TaskKinds, BeginCall(c, i, k, "load")
      PROVE  /\ taskCalls' = [d \in TaskCalls |-> taskCalls'[d]] /\ \A d \in TaskCalls : IsTaskCall(taskCalls'[d])
             /\ \A d \in TaskCalls : taskCalls'[d].op = "mark" => \A r \in taskCalls'[d].todo : r.row \in TaskRowType
             /\ edits + 1 \in 1 .. MaxEdits
  <2> DEFINE new == [op |-> "load", id |-> i, kind |-> k, todo |-> {}]
  <2>1. IsTaskCall(new) /\ new.op # "mark"
    BY DEF IsTaskCall
  <2>2. taskCalls' = [taskCalls EXCEPT ![c] = new] /\ edits < MaxEdits
    BY <1>4 DEF BeginCall
  <2>3. edits + 1 \in 1 .. MaxEdits
    BY <1>1, <2>2, TaskAssumption
  <2> HIDE DEF new
  <2> QED
    BY <1>3, <2>1, <2>2, <2>3
<1>5. ASSUME NEW c \in TaskCalls, NEW i \in TaskIds, NEW k \in TaskKinds, SaveTask(c, i, k)
      PROVE  TaskTyping'
  <2> DEFINE known == [x \in TaskKinds |-> IF x # k /\ newest[x] = i THEN NoNewest ELSE newest[x]]
             meets == \E x \in {k} \cup OldKind(i) : InProgress(x)
  <2>1. BeginCall(c, i, k, "load") /\ edits' = edits + 1 /\ cmdVars' = cmdVars /\ Noted(meets, known)
    BY <1>5 DEF SaveTask, BeginCall
  <2>2. PICK mark \in BOOLEAN : task' = [task EXCEPT ![i] = [kind |-> k, updated |-> edits + 1, last |-> mark]]
    BY <1>5 DEF SaveTask
  <2>3. edits + 1 \in 1 .. MaxEdits
    BY <1>4, <2>1
  <2> DEFINE row == [kind |-> k, updated |-> edits + 1, last |-> mark]
  <2>4. row \in TaskRowType
    BY <2>3 DEF TaskRowType
  <2>5. task' = [task EXCEPT ![i] = row]
    BY <2>2
  <2> HIDE DEF row
  <2>6. task' = [j \in TaskIds |-> task'[j]] /\ RowsTyped(task')
    BY <1>1, <2>4, <2>5 DEF RowsTyped
  <2>7. newest' \in [TaskKinds -> TaskIds \cup {NoNewest}] /\ clash' \in BOOLEAN
    <3>1. known \in [TaskKinds -> TaskIds \cup {NoNewest}] /\ meets \in BOOLEAN
      BY <1>1
    <3> HIDE DEF known, meets
    <3> QED
      BY <1>10, <2>1, <3>1
  <2>8. edits' \in 0 .. MaxEdits
    BY <2>1, <2>3
  <2> QED
    BY <1>2, <1>4, <2>1, <2>6, <2>7, <2>8
<1>6. ASSUME NEW c \in TaskCalls, NEW i \in TaskIds, RunTask(c, i)
      PROVE  TaskTyping'
  <2>1. BeginCall(c, i, task[i].kind, "load") /\ edits' = edits + 1 /\ cmdVars' = cmdVars /\ task' = task /\ task[i] # NoTask
    BY <1>6 DEF RunTask, BeginCall
  <2>2. task[i].kind \in TaskKinds
    BY <1>1, <2>1 DEF RowsTyped, TaskRowType
  <2>3. edits' \in 0 .. MaxEdits
    BY <1>4, <2>1, <2>2
  <2>4. newest' \in [TaskKinds -> TaskIds \cup {NoNewest}] /\ clash' \in BOOLEAN
    <3> PICK meets \in BOOLEAN : meets = InProgress(task[i].kind)
      BY DEF InProgress
    <3>1. Noted(meets, newest)
      BY <1>6 DEF RunTask
    <3> QED
      BY <1>1, <1>10, <3>1
  <2> QED
    BY <1>1, <1>2, <1>4, <2>1, <2>2, <2>3, <2>4
<1>7. ASSUME NEW c \in TaskCalls, LoadTasks(c)
      PROVE  TaskTyping'
  <2>1. taskCalls[c].op = "load" /\ taskCalls[c] # [op |-> "idle"]
    BY <1>7 DEF LoadTasks
  <2> PICK o, i, k, t : taskCalls[c] = [op |-> o, id |-> i, kind |-> k, todo |-> t] /\ i \in TaskIds /\ k \in TaskKinds
    BY <1>1, <2>1 DEF IsTaskCall
  <2> DEFINE all == {[id |-> j, row |-> task[j]] : j \in TaskRows}
             new == [op |-> "mark", id |-> i, kind |-> k, todo |-> all]
  <2>2. \A r \in all : r.row \in TaskRowType
    BY <1>1 DEF TaskRows, RowsTyped
  <2> HIDE DEF all
  <2>3. IsTaskCall(new) /\ new.todo = all
    BY DEF IsTaskCall
  <2>4. taskCalls' = [taskCalls EXCEPT ![c] = new]
    <3>1. taskCalls' = [taskCalls EXCEPT ![c].op = "mark", ![c].todo = all]
      BY <1>7 DEF LoadTasks, all
    <3>2. taskCalls' = [taskCalls EXCEPT ![c] = [[taskCalls[c] EXCEPT !.op = "mark"] EXCEPT !.todo = all]]
      BY <1>1, <3>1
    <3>3. [[op |-> o, id |-> i, kind |-> k, todo |-> t] EXCEPT !.op = "mark"] = [op |-> "mark", id |-> i, kind |-> k, todo |-> t]
      OBVIOUS
    <3>4. [[op |-> "mark", id |-> i, kind |-> k, todo |-> t] EXCEPT !.todo = all] = new
      OBVIOUS
    <3> QED
      BY <3>2, <3>3, <3>4, Zenon
  <2>5. cmdVars' = cmdVars /\ task' = task /\ edits' = edits /\ newest' = newest /\ clash' = clash
    BY <1>7 DEF LoadTasks
  <2> HIDE DEF new
  <2> QED
    BY <1>1, <1>2, <1>3, <2>2, <2>3, <2>4, <2>5
<1>8. ASSUME NEW c \in TaskCalls, MarkLastUsed(c)
      PROVE  TaskTyping'
  <2>1. taskCalls[c].op = "mark" /\ taskCalls[c] # [op |-> "idle"] /\ cmdVars' = cmdVars /\ edits' = edits
    BY <1>8 DEF MarkLastUsed
  <2> PICK o, i, k, t : taskCalls[c] = [op |-> o, id |-> i, kind |-> k, todo |-> t] /\ i \in TaskIds /\ k \in TaskKinds
    BY <1>1, <2>1 DEF IsTaskCall
  <2>2. o = "mark" /\ \A r \in t : r.row \in TaskRowType
    BY <1>1, <2>1
  <2>3. CASE \E r \in t : task' = [task EXCEPT ![r.id] = Marked(r, i)] /\ newest' = newest /\ clash' = clash
                          /\ taskCalls' = [taskCalls EXCEPT ![c].todo = @ \ {r}]
    <3> PICK r \in t : task' = [task EXCEPT ![r.id] = Marked(r, i)] /\ newest' = newest /\ clash' = clash
                       /\ taskCalls' = [taskCalls EXCEPT ![c].todo = @ \ {r}]
      BY <2>3
    <3>1. Marked(r, i) \in TaskRowType
      BY <2>2 DEF Marked, TaskRowType
    <3>2. task' = [j \in TaskIds |-> task'[j]] /\ RowsTyped(task')
      BY <1>1, <3>1 DEF RowsTyped
    <3> DEFINE new == [op |-> "mark", id |-> i, kind |-> k, todo |-> t \ {r}]
    <3>3. IsTaskCall(new) /\ new.todo = t \ {r}
      BY DEF IsTaskCall
    <3>4. taskCalls' = [taskCalls EXCEPT ![c] = new]
      <4>1. PICK left : left = taskCalls[c].todo \ {r}
        OBVIOUS
      <4>1a. left = t \ {r}
        BY <4>1
      <4>1b. taskCalls' = [taskCalls EXCEPT ![c] = [taskCalls[c] EXCEPT !.todo = left]]
        BY <4>1
      <4>3. [[op |-> "mark", id |-> i, kind |-> k, todo |-> t] EXCEPT !.todo = left]
              = [op |-> "mark", id |-> i, kind |-> k, todo |-> left]
        OBVIOUS
      <4> QED
        BY <2>2, <4>1a, <4>1b, <4>3, Zenon
    <3> HIDE DEF new
    <3> QED
      BY <1>1, <1>2, <1>3, <2>1, <2>2, <3>2, <3>3, <3>4
  <2>4. CASE task' = task /\ EndCall(c) /\ newest' \in {Nobody, [newest EXCEPT ![k] = i]}
    <3>1. newest' \in [TaskKinds -> TaskIds \cup {NoNewest}]
      BY <1>0, <1>1, <2>4
    <3> QED
      BY <1>1, <1>2, <1>11, <2>1, <2>4, <3>1
  <2> QED
    BY <1>8, <2>3, <2>4 DEF MarkLastUsed
<1>12. ASSUME NEW c \in TaskCalls, AccessFails(c)
       PROVE  TaskTyping'
  <2>1. /\ EndCall(c) /\ task' = task /\ edits' = edits /\ cmdVars' = cmdVars
        /\ newest' = [newest EXCEPT ![CallKind(c)] = NoNewest]
    BY <1>12 DEF AccessFails
  <2>2. newest' \in [TaskKinds -> TaskIds \cup {NoNewest}]
    BY <1>1, <2>1
  <2> QED
    BY <1>1, <1>2, <1>11, <2>1, <2>2
<1>9. ASSUME NEW i \in TaskIds, DeleteTask(i)
      PROVE  TaskTyping'
  <2> DEFINE known == [k \in TaskKinds |-> IF newest[k] = i THEN NoNewest ELSE newest[k]]
  <2> PICK meets \in BOOLEAN : meets = InProgress(task[i].kind)
    BY DEF InProgress
  <2>1. /\ task' = [task EXCEPT ![i] = NoTask] /\ Noted(meets, known)
        /\ cmdVars' = cmdVars /\ edits' = edits /\ taskCalls' = taskCalls
    BY <1>9 DEF DeleteTask
  <2>2. task' = [j \in TaskIds |-> task'[j]] /\ RowsTyped(task')
    BY <1>1, <2>1 DEF RowsTyped
  <2>3. newest' \in [TaskKinds -> TaskIds \cup {NoNewest}] /\ clash' \in BOOLEAN
    <3>1. known \in [TaskKinds -> TaskIds \cup {NoNewest}]
      BY <1>1
    <3> HIDE DEF known
    <3> QED
      BY <1>10, <2>1, <3>1
  <2> QED
    BY <1>1, <1>2, <2>1, <2>2, <2>3
<1> QED
  BY <1>5, <1>6, <1>7, <1>8, <1>9, <1>12 DEF Calls

LEMMA TypingStart == TaskInit => TaskTyping
<1> SUFFICES ASSUME TaskInit PROVE TaskTyping
  OBVIOUS
<1>1. /\ task = [i \in TaskIds |-> NoTask] /\ edits = 0 /\ taskCalls = [c \in TaskCalls |-> [op |-> "idle"]]
      /\ newest = [k \in TaskKinds |-> NoNewest] /\ clash = FALSE /\ wantZip = "none" /\ opts = Defaults /\ cmdStep \in {"start", "absent"}
  BY DEF TaskInit
<1>2. Defaults \in Options
  BY DEF Defaults, Options, Layers
<1>3. RowsTyped(task) /\ TaskRows = {}
  BY <1>1 DEF RowsTyped, TaskRows
<1>4. \A c \in TaskCalls : taskCalls[c].op # "mark" /\ IsTaskCall(taskCalls[c])
  BY <1>1 DEF IsTaskCall
<1>5. 0 \in 0 .. MaxEdits
  BY TaskAssumption
<1> QED
  BY <1>1, <1>2, <1>3, <1>4, <1>5 DEF TaskTyping, TaskTypeOK, Layers

LEMMA TypingStep == TaskTyping /\ [TaskNext]_taskVars => TaskTyping'
<1> SUFFICES ASSUME TaskTyping, [TaskNext]_taskVars PROVE TaskTyping'
  OBVIOUS
<1>1. CASE UNCHANGED taskVars
  BY <1>1 DEF taskVars, cmdVars, callVars, TaskTyping, TaskTypeOK, TaskRows, RowsTyped
<1> QED
  BY <1>1, CommandTyped, CallsTyped DEF TaskNext

LEMMA TasksTyped == TaskSpec => []TaskTypeOK
<1>1. TaskTyping => TaskTypeOK
  BY DEF TaskTyping
<1> QED
  BY <1>1, TypingStart, TypingStep, PTL DEF TaskSpec

-----------------------------------------------------------------------------
(* Saved tasks                                                              *)

(* A set of numbers up to a bound has a greatest one.                        *)
LEMMA GreatestNumber ==
    ASSUME NEW b \in Nat, NEW S \in SUBSET (0 .. b), S # {}
    PROVE  \E n \in S : \A m \in S : m <= n
<1> DEFINE T == {n .. b : n \in S}
<1>1. T \subseteq FiniteSubsetsOf(Nat) /\ T # {}
  <2>1. ASSUME NEW n \in S PROVE n .. b \in FiniteSubsetsOf(Nat)
    <3>1. n \in Nat /\ n .. b \subseteq Nat
      OBVIOUS
    <3>2. IsFiniteSet(n .. b)
      BY <3>1, FS_Interval
    <3> QED
      BY <3>1, <3>2 DEF FiniteSubsetsOf
  <2> QED
    BY <2>1
<1>2. IsWellFoundedOn(StrictSubsetOrdering(Nat), FiniteSubsetsOf(Nat))
  BY FS_StrictSubsetOrderingWellFounded
<1>3. PICK x \in T : \A y \in T : ~(<<y, x>> \in StrictSubsetOrdering(Nat))
  BY <1>1, <1>2, WFMin
<1>4. PICK n \in S : x = n .. b
  OBVIOUS
<1>5. ASSUME NEW m \in S, n < m PROVE FALSE
  <2>1. m .. b \in T /\ m .. b \subseteq n .. b /\ m .. b \in SUBSET Nat /\ n .. b \in SUBSET Nat
    BY <1>5
  <2>2. n \in n .. b /\ n \notin m .. b
    BY <1>5
  <2>3. <<m .. b, n .. b>> \in StrictSubsetOrdering(Nat)
    BY <2>1, <2>2 DEF StrictSubsetOrdering
  <2> QED
    BY <1>3, <1>4, <2>1, <2>3
<1> QED
  BY <1>5

IsTask(r, b) == r = NoTask \/ \E k \in TaskKinds, u \in 0..b, l \in BOOLEAN : r = [kind |-> k, updated |-> u, last |-> l]
(* The rows a marking still has to write are the ones there are; the others   *)
(* of its kind are marked already.                                         *)
MarkOf(call) == call.op = "mark" =>
    /\ \A r \in call.todo : r = [id |-> r.id, row |-> r.row]
    /\ \A r \in call.todo : r.row.kind = call.kind => r.id \in TaskIds /\ r.row = task[r.id]
    /\ \A i \in TaskIds : task[i].kind = call.kind =>
         (\E r \in call.todo : r.id = i /\ r.row = task[i]) \/ task[i].last = (i = call.id)
CallOf(call) == call.op # "idle" => task[call.id].kind = call.kind /\ MarkOf(call)
LatestOf(k) == newest[k] # NoNewest =>
    /\ newest[k] \in TaskIds /\ task[newest[k]].kind = k
    /\ \A i \in TaskIds : task[i].kind = k => task[i].last = (i = newest[k])

TasksShape ==
    /\ edits \in Nat
    /\ task = [i \in TaskIds |-> task[i]] /\ \A i \in TaskIds : IsTask(task[i], MaxEdits)
    /\ taskCalls = [c \in TaskCalls |-> taskCalls[c]] /\ \A c \in TaskCalls : IsTaskCall(taskCalls[c])
    /\ newest = [k \in TaskKinds |-> newest[k]]
CalmInv ==
    /\ TasksShape
    /\ \A c, d \in TaskCalls : c # d /\ taskCalls[c].op # "idle" /\ taskCalls[d].op # "idle" => CallKind(c) # CallKind(d)
    /\ \A c \in TaskCalls : CallOf(taskCalls[c])
    /\ \A k \in TaskKinds : ~InProgress(k) => LatestOf(k)

(* As long as calls met that are in progress nothing is told.                 *)
CallsInv == (clash => newest = Nobody) /\ (~clash => CalmInv)

LEMMA TypingShapes == ASSUME TaskTyping PROVE TasksShape
BY DEF TaskTyping, TaskTypeOK, TasksShape, RowsTyped, TaskRowType, IsTask

(* The rows of a kind, before and after, are as they were.                   *)
Untouched(k) == \A i \in TaskIds : task[i].kind = k \/ task'[i].kind = k => task'[i] = task[i]

LEMMA CallKeeps ==
    ASSUME NEW call, IsTaskCall(call), CallOf(call), call.op # "idle" => Untouched(call.kind)
    PROVE  CallOf(call)'
<1>1. CASE call.op = "idle"
  BY <1>1 DEF CallOf
<1>2. CASE call.op # "idle"
  <2> PICK o, j, k, t : /\ o \in {"load", "mark"} /\ j \in TaskIds /\ k \in TaskKinds
                        /\ call = [op |-> o, id |-> j, kind |-> k, todo |-> t]
    BY <1>2 DEF IsTaskCall
  <2>1. call.op = o /\ call.id = j /\ call.kind = k /\ call.todo = t
    OBVIOUS
  <2>2. Untouched(k) /\ task[j].kind = k /\ MarkOf(call)
    BY <1>2, <2>1 DEF CallOf
  <2>3. task'[j].kind = k
    BY <2>2 DEF Untouched
  <2>4. MarkOf(call)'
    <3> SUFFICES ASSUME o = "mark" PROVE MarkOf(call)'
      BY <2>1 DEF MarkOf
    <3>1. \A r \in t : r = [id |-> r.id, row |-> r.row]
      BY <2>1, <2>2 DEF MarkOf
    <3>2. \A r \in t : r.row.kind = k => r.id \in TaskIds /\ r.row = task'[r.id]
      BY <2>1, <2>2 DEF MarkOf, Untouched
    <3>3. \A i \in TaskIds : task'[i].kind = k => (\E r \in t : r.id = i /\ r.row = task'[i]) \/ task'[i].last = (i = j)
      BY <2>1, <2>2 DEF MarkOf, Untouched
    <3> QED
      BY <2>1, <3>1, <3>2, <3>3 DEF MarkOf
  <2> QED
    BY <2>1, <2>3, <2>4 DEF CallOf
<1> QED
  BY <1>1, <1>2

LEMMA LatestKeeps ==
    ASSUME NEW k \in TaskKinds, LatestOf(k), newest'[k] \in {newest[k], NoNewest},
           \A i \in TaskIds : task'[i].kind = k => task'[i] = task[i],
           newest'[k] # NoNewest => task'[newest[k]].kind = k
    PROVE  LatestOf(k)'
BY DEF LatestOf

(* One call goes on; the rows of the kinds others work on stay.              *)
LEMMA CallGoesOn ==
    ASSUME CalmInv, NEW c \in TaskCalls, NEW new, IsTaskCall(new), taskCalls' = [taskCalls EXCEPT ![c] = new],
           edits' \in Nat, task' = [i \in TaskIds |-> task'[i]], \A i \in TaskIds : IsTask(task'[i], MaxEdits),
           newest' = [k \in TaskKinds |-> newest'[k]],
           CallOf(new)',
           \A d \in TaskCalls \ {c} : taskCalls[d].op # "idle" =>
             Untouched(CallKind(d)) /\ (new.op # "idle" => CallKind(d) # new.kind),
           \A k \in TaskKinds : (\A d \in TaskCalls \ {c} : taskCalls[d].op # "idle" => CallKind(d) # k) /\
                                (new.op # "idle" => new.kind # k) => LatestOf(k)'
    PROVE  CalmInv'
<1>1. taskCalls = [d \in TaskCalls |-> taskCalls[d]] /\ \A d \in TaskCalls : IsTaskCall(taskCalls[d]) /\ CallOf(taskCalls[d])
  BY DEF CalmInv, TasksShape
<1>2. taskCalls'[c] = new /\ \A d \in TaskCalls \ {c} : taskCalls'[d] = taskCalls[d]
  BY <1>1
<1>3. taskCalls' = [d \in TaskCalls |-> taskCalls'[d]]
  BY <1>1
<1>4. \A d \in TaskCalls : IsTaskCall(taskCalls'[d])
  BY <1>1, <1>2
<1>5. \A d \in TaskCalls : CallKind(d)' = taskCalls'[d].kind /\ CallKind(d) = taskCalls[d].kind
  BY DEF CallKind
<1>6. TasksShape'
  BY <1>3, <1>4 DEF TasksShape
<1>7. ASSUME NEW d \in TaskCalls, NEW e \in TaskCalls, d # e, taskCalls'[d].op # "idle", taskCalls'[e].op # "idle"
      PROVE  CallKind(d)' # CallKind(e)'
  <2>1. CASE d = c
    BY <1>2, <1>5, <1>7, <2>1
  <2>2. CASE e = c
    BY <1>2, <1>5, <1>7, <2>2
  <2>3. CASE d # c /\ e # c
    BY <1>2, <1>5, <1>7, <2>3 DEF CalmInv
  <2> QED
    BY <2>1, <2>2, <2>3
<1>8. ASSUME NEW d \in TaskCalls PROVE \A call : call = taskCalls'[d] => CallOf(call)'
  <2>1. CASE d = c
    BY <1>2, <2>1
  <2>2. CASE d # c
    <3>1. CallOf(taskCalls[d]) /\ taskCalls'[d] = taskCalls[d] /\ IsTaskCall(taskCalls[d])
            /\ (taskCalls[d].op # "idle" => Untouched(taskCalls[d].kind))
      BY <1>1, <1>2, <1>5, <2>2
    <3>2. \A call : call = taskCalls[d] => CallOf(call)'
      BY <3>1, CallKeeps
    <3> QED
      BY <3>1, <3>2
  <2> QED
    BY <2>1, <2>2
<1>9. ASSUME NEW k \in TaskKinds, ~InProgress(k)' PROVE LatestOf(k)'
  <2>1. \A d \in TaskCalls : taskCalls'[d].op # "idle" => taskCalls'[d].kind # k
    BY <1>9 DEF InProgress, CallKind
  <2>2. \A d \in TaskCalls \ {c} : taskCalls[d].op # "idle" => CallKind(d) # k
    BY <1>2, <1>5, <2>1
  <2> QED
    BY <1>2, <2>1, <2>2
<1> QED
  BY <1>6, <1>7, <1>8, <1>9 DEF CalmInv

(* A record of a call that begins.                                           *)
LEMMA BeginsOk ==
    ASSUME NEW i \in TaskIds, NEW k \in TaskKinds, task'[i].kind = k
    PROVE  \A call : call = [op |-> "load", id |-> i, kind |-> k, todo |-> {}] =>
             IsTaskCall(call) /\ call.op = "load" /\ call.kind = k /\ CallOf(call)'
<1> TAKE call
<1> HAVE call = [op |-> "load", id |-> i, kind |-> k, todo |-> {}]
<1>1. call.op = "load" /\ call.kind = k /\ call.id = i
  OBVIOUS
<1>2. IsTaskCall(call)
  BY DEF IsTaskCall
<1>3. CallOf(call)'
  BY <1>1 DEF CallOf, MarkOf
<1> QED
  BY <1>1, <1>2, <1>3

LEMMA TaskCallFields ==
    ASSUME NEW x, IsTaskCall(x), x.op # "idle"
    PROVE  /\ x.op \in {"load", "mark"} /\ x.id \in TaskIds /\ x.kind \in TaskKinds
           /\ x = [op |-> x.op, id |-> x.id, kind |-> x.kind, todo |-> x.todo]
<1> PICK o, i, k, t : /\ o \in {"load", "mark"} /\ i \in TaskIds /\ k \in TaskKinds
                      /\ x = [op |-> o, id |-> i, kind |-> k, todo |-> t]
  BY DEF IsTaskCall
<1>1. x.op = o /\ x.id = i /\ x.kind = k /\ x.todo = t
  OBVIOUS
<1> QED
  BY <1>1

LEMMA TaskRowFields ==
    ASSUME TasksShape, NEW i \in TaskIds
    PROVE  /\ task[i] # NoTask => /\ task[i].kind \in TaskKinds /\ task[i].updated \in 0..MaxEdits /\ task[i].last \in BOOLEAN
                                  /\ task[i] = [kind |-> task[i].kind, updated |-> task[i].updated, last |-> task[i].last]
           /\ task[i] = NoTask <=> task[i].kind \notin TaskKinds
<1>1. IsTask(task[i], MaxEdits)
  BY DEF TasksShape
<1>2. NoTask.kind \notin TaskKinds
  BY DEF NoTask, TaskKinds
<1>3. CASE task[i] = NoTask
  BY <1>2, <1>3
<1>4. ASSUME NEW k \in TaskKinds, NEW u \in 0..MaxEdits, NEW l \in BOOLEAN, task[i] = [kind |-> k, updated |-> u, last |-> l]
      PROVE  /\ task[i].kind = k /\ task[i].updated = u /\ task[i].last = l
             /\ task[i] = [kind |-> task[i].kind, updated |-> task[i].updated, last |-> task[i].last]
  BY <1>4
<1> QED
  BY <1>1, <1>2, <1>3, <1>4 DEF IsTask

LEMMA TaskFields ==
    ASSUME CalmInv, NEW i \in TaskIds
    PROVE  /\ task[i] # NoTask => /\ task[i].kind \in TaskKinds /\ task[i].updated \in 0..MaxEdits /\ task[i].last \in BOOLEAN
                                  /\ task[i] = [kind |-> task[i].kind, updated |-> task[i].updated, last |-> task[i].last]
           /\ task[i] = NoTask <=> task[i].kind \notin TaskKinds
BY TaskRowFields DEF CalmInv

LEMMA SaveStep == ASSUME CalmInv, NEW c \in TaskCalls, NEW i \in TaskIds, NEW k \in TaskKinds, SaveTask(c, i, k),
                         ~clash'
                  PROVE  CalmInv'
<1> DEFINE new == [op |-> "load", id |-> i, kind |-> k, todo |-> {}]
<1>1. /\ taskCalls[c].op = "idle" /\ ~InProgress(k) /\ (task[i] # NoTask => ~InProgress(task[i].kind))
      /\ taskCalls' = [taskCalls EXCEPT ![c] = new] /\ edits' = edits + 1 /\ edits < MaxEdits
      /\ newest' = [x \in TaskKinds |-> IF x # k /\ newest[x] = i THEN NoNewest ELSE newest[x]]
  BY DEF SaveTask, BeginCall, Noted, OldKind
<1> PICK mark \in BOOLEAN : task' = [task EXCEPT ![i] = [kind |-> k, updated |-> edits + 1, last |-> mark]]
  BY DEF SaveTask
<1>2. edits \in Nat /\ task = [j \in TaskIds |-> task[j]] /\ \A j \in TaskIds : IsTask(task[j], MaxEdits)
  BY DEF CalmInv, TasksShape
<1> DEFINE row == [kind |-> k, updated |-> edits + 1, last |-> mark]
<1>3. IsTask(row, MaxEdits) /\ row.kind = k
  <2>1. edits + 1 \in 0..MaxEdits
    BY <1>1, <1>2, TaskAssumption
  <2>2. row.kind = k
    OBVIOUS
  <2> QED
    BY <2>1, <2>2 DEF IsTask
<1> HIDE DEF row, new
<1>4. task'[i] = row /\ (\A j \in TaskIds \ {i} : task'[j] = task[j]) /\ task' = [j \in TaskIds |-> task'[j]]
  BY <1>2 DEF row
<1>5. \A j \in TaskIds : IsTask(task'[j], MaxEdits)
  BY <1>2, <1>3, <1>4
<1>6. IsTaskCall(new) /\ new.op = "load" /\ new.kind = k /\ CallOf(new)'
  BY <1>3, <1>4, BeginsOk DEF new
<1>7. \A x \in TaskKinds : x # k /\ x # task[i].kind => Untouched(x)
  BY <1>3, <1>4 DEF Untouched
<1>8. ASSUME NEW d \in TaskCalls \ {c}, taskCalls[d].op # "idle" PROVE Untouched(CallKind(d)) /\ CallKind(d) # k
  <2>1. CallKind(d) \in TaskKinds
    <3>1. IsTaskCall(taskCalls[d])
      BY DEF CalmInv, TasksShape
    <3> QED
      BY <1>8, <3>1, TaskCallFields DEF CallKind
  <2>2. InProgress(CallKind(d))
    BY <1>8 DEF InProgress
  <2>3. CallKind(d) # k /\ CallKind(d) # task[i].kind
    BY <1>1, <2>1, <2>2, TaskFields
  <2> QED
    BY <1>7, <2>1, <2>3
<1>9. ASSUME NEW x \in TaskKinds, \A d \in TaskCalls \ {c} : taskCalls[d].op # "idle" => CallKind(d) # x, x # k
      PROVE  LatestOf(x)'
  <2>1. ~InProgress(x)
    BY <1>1, <1>9 DEF InProgress
  <2>2. LatestOf(x)
    BY <2>1 DEF CalmInv
  <2>3. newest'[x] = IF newest[x] = i THEN NoNewest ELSE newest[x]
    BY <1>1, <1>9
  <2>4. newest'[x] # NoNewest => newest[x] # NoNewest /\ newest[x] # i
    BY <2>3
  <2>5. newest'[x] # NoNewest => task'[newest[x]].kind = x
    BY <1>4, <2>2, <2>4 DEF LatestOf
  <2>6. \A j \in TaskIds : task'[j].kind = x => task'[j] = task[j]
    BY <1>3, <1>4, <1>9
  <2> QED
    BY <2>2, <2>3, <2>5, <2>6, LatestKeeps
<1>10. newest' = [x \in TaskKinds |-> newest'[x]] /\ edits' \in Nat
  BY <1>1, <1>2
<1> QED
  BY <1>1, <1>4, <1>5, <1>6, <1>8, <1>9, <1>10, CallGoesOn

LEMMA RunStep == ASSUME CalmInv, NEW c \in TaskCalls, NEW i \in TaskIds, RunTask(c, i), ~clash' PROVE CalmInv'
<1>1. /\ task[i] # NoTask /\ taskCalls[c].op = "idle" /\ ~InProgress(task[i].kind)
      /\ taskCalls' = [taskCalls EXCEPT ![c] = [op |-> "load", id |-> i, kind |-> task[i].kind, todo |-> {}]]
      /\ edits' = edits + 1 /\ task' = task /\ newest' = newest
  BY DEF RunTask, BeginCall, Noted
<1>2. task[i].kind \in TaskKinds /\ edits \in Nat /\ TasksShape
  BY <1>1, TaskFields DEF CalmInv, TasksShape
<1> PICK k \in TaskKinds : k = task[i].kind
  BY <1>2
<1> DEFINE new == [op |-> "load", id |-> i, kind |-> k, todo |-> {}]
<1>3. IsTaskCall(new) /\ new.op = "load" /\ new.kind = k /\ CallOf(new)'
  BY <1>1, BeginsOk
<1>4. taskCalls' = [taskCalls EXCEPT ![c] = new]
  BY <1>1
<1> HIDE DEF new
<1>5. \A j \in TaskIds : IsTask(task'[j], MaxEdits)
  BY <1>1, <1>2 DEF TasksShape, IsTask
<1>6. \A x : Untouched(x)
  BY <1>1 DEF Untouched
<1>7. ASSUME NEW d \in TaskCalls \ {c}, taskCalls[d].op # "idle" PROVE CallKind(d) # k
  BY <1>1, <1>7 DEF InProgress
<1>8. ASSUME NEW x \in TaskKinds, \A d \in TaskCalls \ {c} : taskCalls[d].op # "idle" => CallKind(d) # x
      PROVE  LatestOf(x)'
  <2>1. ~InProgress(x)
    BY <1>1, <1>8 DEF InProgress
  <2>2. LatestOf(x)
    BY <2>1 DEF CalmInv
  <2> QED
    BY <1>1, <2>2 DEF LatestOf
<1>9. task' = [j \in TaskIds |-> task'[j]] /\ newest' = [x \in TaskKinds |-> newest'[x]] /\ edits' \in Nat
  BY <1>1, <1>2 DEF TasksShape
<1> QED
  BY <1>3, <1>4, <1>5, <1>6, <1>7, <1>8, <1>9, CallGoesOn

LEMMA LoadStep == ASSUME CalmInv, NEW c \in TaskCalls, LoadTasks(c) PROVE CalmInv'
<1>1. taskCalls[c].op = "load" /\ task' = task /\ edits' = edits /\ newest' = newest
  BY DEF LoadTasks
<1>2. TasksShape /\ IsTaskCall(taskCalls[c]) /\ CallOf(taskCalls[c])
  BY DEF CalmInv, TasksShape
<1> PICK i, k, t : /\ i \in TaskIds /\ k \in TaskKinds
                   /\ taskCalls[c] = [op |-> "load", id |-> i, kind |-> k, todo |-> t]
  <2> DEFINE x == taskCalls[c]
  <2>1. IsTaskCall(x) /\ x.op = "load" /\ x.op # "idle"
    BY <1>1, <1>2
  <2> HIDE DEF x
  <2>2. x.id \in TaskIds /\ x.kind \in TaskKinds /\ x = [op |-> x.op, id |-> x.id, kind |-> x.kind, todo |-> x.todo]
    BY <2>1, TaskCallFields
  <2>3. x = [op |-> "load", id |-> x.id, kind |-> x.kind, todo |-> x.todo]
    BY <2>1, <2>2, Zenon
  <2>4. \E i \in TaskIds, k \in TaskKinds : \E t : x = [op |-> "load", id |-> i, kind |-> k, todo |-> t]
    BY <2>2, <2>3, Zenon
  <2> QED
    BY <2>4 DEF x
<1>3. task[i].kind = k /\ CallKind(c) = k
  BY <1>1, <1>2 DEF CallOf, CallKind
<1> PICK loaded : loaded = {[id |-> j, row |-> task[j]] : j \in TaskRows}
  OBVIOUS
<1> DEFINE new == [op |-> "mark", id |-> i, kind |-> k, todo |-> loaded]
<1>4. taskCalls' = [taskCalls EXCEPT ![c] = new]
  <2>1. [[op |-> "load", id |-> i, kind |-> k, todo |-> t] EXCEPT !.op = "mark"] = [op |-> "mark", id |-> i, kind |-> k, todo |-> t]
    OBVIOUS
  <2>2. [[op |-> "mark", id |-> i, kind |-> k, todo |-> t] EXCEPT !.todo = loaded] = new
    OBVIOUS
  <2>3. taskCalls' = [taskCalls EXCEPT ![c] = [[taskCalls[c] EXCEPT !.op = "mark"] EXCEPT !.todo = loaded]]
    <3>1. taskCalls = [d \in TaskCalls |-> taskCalls[d]]
      BY <1>2 DEF TasksShape
    <3>2. taskCalls' = [taskCalls EXCEPT ![c].op = "mark", ![c].todo = loaded]
      BY DEF LoadTasks
    <3> QED
      BY <3>1, <3>2
  <2> QED
    BY <2>1, <2>2, <2>3, Zenon
<1>5. \A r \in loaded : r = [id |-> r.id, row |-> r.row] /\ r.id \in TaskIds /\ r.row = task[r.id]
  <2> TAKE r \in loaded
  <2> PICK j \in TaskIds : r = [id |-> j, row |-> task[j]]
    BY DEF TaskRows
  <2> QED
    OBVIOUS
<1>6. \A j \in TaskIds : task[j].kind = k => \E r \in loaded : r.id = j /\ r.row = task[j]
  <2> TAKE j \in TaskIds
  <2> HAVE task[j].kind = k
  <2>1. j \in TaskRows
    BY TaskFields DEF TaskRows
  <2> DEFINE r == [id |-> j, row |-> task[j]]
  <2>2. r \in loaded /\ r.id = j /\ r.row = task[j]
    BY <2>1
  <2> QED
    BY <2>2
<1>7. IsTaskCall(new) /\ new.op = "mark" /\ new.kind = k /\ new.id = i /\ new.todo = loaded
  BY DEF IsTaskCall
<1> HIDE DEF new
<1>8. CallOf(new)'
  <2>1. MarkOf(new)'
    BY <1>1, <1>5, <1>6, <1>7 DEF MarkOf
  <2> QED
    BY <1>1, <1>3, <1>7, <2>1 DEF CallOf
<1>9. \A x : Untouched(x)
  BY <1>1 DEF Untouched
<1>10. ASSUME NEW d \in TaskCalls \ {c}, taskCalls[d].op # "idle" PROVE CallKind(d) # k
  BY <1>1, <1>3, <1>10 DEF CalmInv
<1>11. ASSUME NEW x \in TaskKinds, \A d \in TaskCalls \ {c} : taskCalls[d].op # "idle" => CallKind(d) # x, x # k
       PROVE  LatestOf(x)'
  <2>1. ~InProgress(x)
    BY <1>3, <1>11 DEF InProgress
  <2>2. LatestOf(x)
    BY <2>1 DEF CalmInv
  <2> QED
    BY <1>1, <2>2 DEF LatestOf
<1>12. /\ task' = [j \in TaskIds |-> task'[j]] /\ newest' = [x \in TaskKinds |-> newest'[x]] /\ edits' \in Nat
       /\ \A j \in TaskIds : IsTask(task'[j], MaxEdits)
  BY <1>1, <1>2 DEF TasksShape
<1> QED
  BY <1>4, <1>7, <1>8, <1>9, <1>10, <1>11, <1>12, CallGoesOn

(* What is known of the call whose rows are marked.                          *)
Marking(c, i, k, t) ==
    /\ i \in TaskIds /\ k \in TaskKinds
    /\ taskCalls[c] = [op |-> "mark", id |-> i, kind |-> k, todo |-> t]
    /\ task[i].kind = k /\ CallKind(c) = k
    /\ \A r \in t : r = [id |-> r.id, row |-> r.row]
    /\ \A r \in t : r.row.kind = k => r.id \in TaskIds /\ r.row = task[r.id]
    /\ \A j \in TaskIds : task[j].kind = k => (\E r \in t : r.id = j /\ r.row = task[j]) \/ task[j].last = (j = i)

LEMMA MarkingCall ==
    ASSUME CalmInv, NEW c \in TaskCalls, taskCalls[c].op = "mark"
    PROVE  \E i, k, t : Marking(c, i, k, t)
<1> DEFINE x == taskCalls[c]
<1>1. IsTaskCall(x) /\ x.op = "mark" /\ x.op # "idle" /\ CallOf(x) /\ CallKind(c) = x.kind
  BY DEF CalmInv, TasksShape, CallKind
<1> HIDE DEF x
<1>2. x.id \in TaskIds /\ x.kind \in TaskKinds /\ x = [op |-> x.op, id |-> x.id, kind |-> x.kind, todo |-> x.todo]
  BY <1>1, TaskCallFields
<1>3. x = [op |-> "mark", id |-> x.id, kind |-> x.kind, todo |-> x.todo]
  BY <1>1, <1>2, Zenon
<1>4. MarkOf(x) /\ task[x.id].kind = x.kind
  BY <1>1 DEF CallOf
<1>5. /\ \A r \in x.todo : r = [id |-> r.id, row |-> r.row]
      /\ \A r \in x.todo : r.row.kind = x.kind => r.id \in TaskIds /\ r.row = task[r.id]
      /\ \A j \in TaskIds : task[j].kind = x.kind =>
           (\E r \in x.todo : r.id = j /\ r.row = task[j]) \/ task[j].last = (j = x.id)
  BY <1>1, <1>4 DEF MarkOf
<1>6. x = taskCalls[c]
  BY DEF x
<1> QED
  <2>1. /\ taskCalls[c] = [op |-> "mark", id |-> x.id, kind |-> x.kind, todo |-> x.todo]
        /\ task[x.id].kind = x.kind /\ CallKind(c) = x.kind
    BY <1>1, <1>3, <1>4, <1>6, Zenon
  <2>2. Marking(c, x.id, x.kind, x.todo)
    BY <1>2, <1>5, <2>1 DEF Marking
  <2> QED
    BY <2>2, Zenon

LEMMA MarkStep == ASSUME CalmInv, NEW c \in TaskCalls, MarkLastUsed(c), ~clash PROVE CalmInv'
<1>1. taskCalls[c].op = "mark" /\ edits' = edits /\ TasksShape
  BY DEF MarkLastUsed, CalmInv
<1>0. PICK i, k, t : Marking(c, i, k, t)
  BY <1>1, MarkingCall
<1>7. /\ i \in TaskIds /\ k \in TaskKinds
      /\ taskCalls[c] = [op |-> "mark", id |-> i, kind |-> k, todo |-> t]
      /\ task[i].kind = k /\ CallKind(c) = k
      /\ \A r \in t : r = [id |-> r.id, row |-> r.row]
      /\ \A r \in t : r.row.kind = k => r.id \in TaskIds /\ r.row = task[r.id]
      /\ \A j \in TaskIds : task[j].kind = k => (\E r \in t : r.id = j /\ r.row = task[j]) \/ task[j].last = (j = i)
  BY <1>0 DEF Marking
<1> i \in TaskIds /\ k \in TaskKinds
  BY <1>7
<1>2. taskCalls[c].todo = t /\ taskCalls[c].kind = k /\ taskCalls[c].id = i
  BY <1>7
<1>3. ASSUME NEW d \in TaskCalls \ {c}, taskCalls[d].op # "idle" PROVE CallKind(d) # k
  BY <1>1, <1>3, <1>7 DEF CalmInv
<1>4. ASSUME NEW r \in t, r.row.kind = k, task' = [task EXCEPT ![r.id] = Marked(r, i)],
             taskCalls' = [taskCalls EXCEPT ![c].todo = t \ {r}], newest' = newest
      PROVE  CalmInv'
  <2>0. PICK rest : rest = t \ {r}
    OBVIOUS
  <2> DEFINE new == [op |-> "mark", id |-> i, kind |-> k, todo |-> rest]
  <2>1. taskCalls' = [taskCalls EXCEPT ![c] = new]
    <3>1. [[op |-> "mark", id |-> i, kind |-> k, todo |-> t] EXCEPT !.todo = rest] = new
      OBVIOUS
    <3>2. taskCalls' = [taskCalls EXCEPT ![c] = [taskCalls[c] EXCEPT !.todo = rest]]
      BY <1>1, <1>4, <2>0 DEF TasksShape
    <3> QED
      BY <1>7, <3>1, <3>2, Zenon
  <2>2. IsTaskCall(new) /\ new.op = "mark" /\ new.kind = k /\ new.id = i /\ new.todo = rest
    BY DEF IsTaskCall
  <2> HIDE DEF new
  <2>3. r.id \in TaskIds /\ r.row = task[r.id] /\ task[r.id].kind = k
    BY <1>4, <1>7
  <2>4. Marked(r, i).kind = k /\ Marked(r, i).last = (r.id = i) /\ IsTask(Marked(r, i), MaxEdits)
    <3>1. task[r.id] # NoTask
      BY <2>3, TaskFields
    <3> PICK u \in 0..MaxEdits, l \in BOOLEAN : task[r.id] = [kind |-> k, updated |-> u, last |-> l]
      <4>1. /\ task[r.id].updated \in 0..MaxEdits /\ task[r.id].last \in BOOLEAN
            /\ task[r.id] = [kind |-> task[r.id].kind, updated |-> task[r.id].updated, last |-> task[r.id].last]
        BY <2>3, <3>1, TaskFields
      <4>2. task[r.id] = [kind |-> k, updated |-> task[r.id].updated, last |-> task[r.id].last]
        BY <2>3, <4>1, Zenon
      <4> QED
        BY <4>1, <4>2, Zenon
    <3> PICK b \in BOOLEAN : b = (r.id = i)
      OBVIOUS
    <3>2. Marked(r, i) = [kind |-> k, updated |-> u, last |-> b]
      BY <2>3 DEF Marked
    <3>3. Marked(r, i).kind = k /\ Marked(r, i).last = b
      BY <3>2
    <3> QED
      BY <3>2, <3>3 DEF IsTask
  <2>5. task'[r.id] = Marked(r, i) /\ (\A j \in TaskIds \ {r.id} : task'[j] = task[j]) /\ task' = [j \in TaskIds |-> task'[j]]
    BY <1>1, <1>4, <2>3 DEF TasksShape
  <2>6. \A j \in TaskIds : IsTask(task'[j], MaxEdits)
    BY <1>1, <2>4, <2>5 DEF TasksShape
  <2>7. CallOf(new)'
    <3>1. task'[i].kind = k
      BY <1>7, <2>4, <2>5
    <3>2. ASSUME NEW q \in rest, q.row.kind = k PROVE q.id \in TaskIds /\ q.row = task'[q.id]
      <4>1. q.id \in TaskIds /\ q.row = task[q.id] /\ q = [id |-> q.id, row |-> q.row]
        BY <1>7, <2>0, <3>2
      <4>2. r = [id |-> r.id, row |-> r.row] /\ q # r
        BY <1>7, <2>0
      <4>3. q.id # r.id
        BY <2>3, <4>1, <4>2, Zenon
      <4> QED
        BY <2>5, <4>1, <4>3
    <3>3. ASSUME NEW j \in TaskIds, task'[j].kind = k
          PROVE  (\E q \in rest : q.id = j /\ q.row = task'[j]) \/ task'[j].last = (j = i)
      <4>1. CASE j = r.id
        BY <2>4, <2>5, <4>1
      <4>2. CASE j # r.id
        BY <1>7, <2>0, <2>5, <3>3, <4>2
      <4> QED
        BY <4>1, <4>2
    <3>4. MarkOf(new)'
      BY <1>7, <2>0, <2>2, <3>2, <3>3 DEF MarkOf
    <3> QED
      BY <2>2, <3>1, <3>4 DEF CallOf
  <2>8. \A x : x # k => Untouched(x)
    BY <2>3, <2>4, <2>5 DEF Untouched
  <2>9. ASSUME NEW x \in TaskKinds, \A d \in TaskCalls \ {c} : taskCalls[d].op # "idle" => CallKind(d) # x, x # k
        PROVE  LatestOf(x)'
    <3>1. ~InProgress(x)
      BY <1>7, <2>9 DEF InProgress
    <3>2. LatestOf(x)
      BY <3>1 DEF CalmInv
    <3>3. \A j \in TaskIds : task'[j].kind = x => task'[j] = task[j]
      BY <2>4, <2>5, <2>9
    <3>4. newest'[x] # NoNewest => task'[newest[x]].kind = x
      BY <1>4, <2>3, <2>5, <2>9, <3>2 DEF LatestOf
    <3> QED
      BY <1>4, <3>2, <3>3, <3>4, LatestKeeps
  <2>10. newest' = [x \in TaskKinds |-> newest'[x]] /\ edits' \in Nat
    BY <1>1, <1>4 DEF TasksShape
  <2>11. \A d \in TaskCalls \ {c} : taskCalls[d].op # "idle" => Untouched(CallKind(d)) /\ CallKind(d) # k
    BY <1>3, <2>8
  <2> QED
    BY <2>1, <2>2, <2>5, <2>6, <2>7, <2>9, <2>10, <2>11, CallGoesOn
<1>5. ASSUME ~\E r \in t : r.row.kind = k, taskCalls' = [taskCalls EXCEPT ![c] = [op |-> "idle"]],
             newest' = [newest EXCEPT ![k] = i], task' = task
      PROVE  CalmInv'
  <2> DEFINE new == [op |-> "idle"]
  <2>1. taskCalls' = [taskCalls EXCEPT ![c] = new] /\ IsTaskCall(new) /\ new.op = "idle" /\ CallOf(new)'
    BY <1>5 DEF IsTaskCall, CallOf
  <2> HIDE DEF new
  <2>2. newest'[k] = i /\ \A x \in TaskKinds \ {k} : newest'[x] = newest[x]
    BY <1>1, <1>5 DEF TasksShape
  <2>3. \A x : Untouched(x)
    BY <1>5 DEF Untouched
  <2>4. ASSUME NEW x \in TaskKinds, \A d \in TaskCalls \ {c} : taskCalls[d].op # "idle" => CallKind(d) # x
        PROVE  LatestOf(x)'
    <3>1. CASE x = k
      <4>1. \A j \in TaskIds : task[j].kind = k => task[j].last = (j = i)
        BY <1>5, <1>7
      <4> QED
        BY <1>5, <1>7, <2>2, <3>1, <4>1 DEF LatestOf
    <3>2. CASE x # k
      <4>1. ~InProgress(x)
        BY <1>7, <2>4, <3>2 DEF InProgress
      <4>2. LatestOf(x)
        BY <4>1 DEF CalmInv
      <4> QED
        BY <1>5, <2>2, <3>2, <4>2 DEF LatestOf
    <3> QED
      BY <3>1, <3>2
  <2>5. /\ task' = [j \in TaskIds |-> task'[j]] /\ newest' = [x \in TaskKinds |-> newest'[x]] /\ edits' \in Nat
        /\ \A j \in TaskIds : IsTask(task'[j], MaxEdits)
    BY <1>1, <1>5 DEF TasksShape
  <2> QED
    BY <2>1, <2>3, <2>4, <2>5, CallGoesOn
<1>6. CASE \E r \in {r \in t : r.row.kind = k} :
              /\ task' = [task EXCEPT ![r.id] = Marked(r, i)]
              /\ taskCalls' = [taskCalls EXCEPT ![c].todo = @ \ {r}] /\ newest' = newest
  <2> PICK r \in t : /\ r.row.kind = k /\ task' = [task EXCEPT ![r.id] = Marked(r, i)]
                     /\ taskCalls' = [taskCalls EXCEPT ![c].todo = @ \ {r}] /\ newest' = newest
    BY <1>6
  <2>1. taskCalls' = [taskCalls EXCEPT ![c].todo = t \ {r}]
    BY <1>1, <1>2 DEF TasksShape
  <2> QED
    BY <1>4, <2>1
<1> QED
  BY <1>2, <1>5, <1>6 DEF MarkLastUsed, EndCall

LEMMA DeleteStep == ASSUME CalmInv, NEW i \in TaskIds, DeleteTask(i), ~clash' PROVE CalmInv'
<1>1. /\ task[i] # NoTask /\ ~InProgress(task[i].kind) /\ task' = [task EXCEPT ![i] = NoTask]
      /\ newest' = [k \in TaskKinds |-> IF newest[k] = i THEN NoNewest ELSE newest[k]]
      /\ edits' = edits /\ taskCalls' = taskCalls
  BY DEF DeleteTask, Noted
<1>2. TasksShape
  BY DEF CalmInv
<1>3. task'[i] = NoTask /\ (\A j \in TaskIds \ {i} : task'[j] = task[j]) /\ task' = [j \in TaskIds |-> task'[j]]
  BY <1>1, <1>2 DEF TasksShape
<1>4. NoTask.kind \notin TaskKinds
  BY DEF NoTask, TaskKinds
<1>5. TasksShape'
  <2>1. \A j \in TaskIds : IsTask(task'[j], MaxEdits)
    BY <1>1, <1>2, <1>3 DEF TasksShape, IsTask
  <2> QED
    BY <1>1, <1>2, <1>3, <2>1 DEF TasksShape
<1>6. \A k \in TaskKinds : k # task[i].kind => Untouched(k)
  BY <1>3, <1>4 DEF Untouched
<1>7. ASSUME NEW c \in TaskCalls PROVE CallOf(taskCalls[c])'
  <2>1. IsTaskCall(taskCalls[c]) /\ CallOf(taskCalls[c])
    BY <1>2 DEF CalmInv, TasksShape
  <2>2. taskCalls[c].op # "idle" => Untouched(taskCalls[c].kind)
    BY <1>1, <1>6, <2>1, TaskCallFields DEF InProgress, CallKind
  <2>3. \A call : call = taskCalls[c] => CallOf(call)'
    BY <2>1, <2>2, CallKeeps
  <2> QED
    BY <1>1, <2>3
<1>8. ASSUME NEW k \in TaskKinds, ~InProgress(k)' PROVE LatestOf(k)'
  <2>1. ~InProgress(k)
    BY <1>1, <1>8 DEF InProgress, CallKind
  <2>2. LatestOf(k)
    BY <2>1 DEF CalmInv
  <2>3. \A j \in TaskIds : task'[j].kind = k => task'[j] = task[j]
    BY <1>3, <1>4
  <2>4. newest'[k] = IF newest[k] = i THEN NoNewest ELSE newest[k]
    BY <1>1
  <2>5. newest'[k] # NoNewest => task'[newest[k]].kind = k
    BY <1>3, <2>2, <2>4 DEF LatestOf
  <2> QED
    BY <2>2, <2>3, <2>4, <2>5, LatestKeeps
<1> QED
  BY <1>1, <1>5, <1>7, <1>8 DEF CalmInv, CallKind

(* Of the kind of a call that ends early nothing is told.                     *)
LEMMA AccessFailsStep == ASSUME CalmInv, NEW c \in TaskCalls, AccessFails(c) PROVE CalmInv'
<1> DEFINE new == [op |-> "idle"]
<1>1. /\ taskCalls' = [taskCalls EXCEPT ![c] = new] /\ task' = task /\ edits' = edits
      /\ newest' = [newest EXCEPT ![CallKind(c)] = NoNewest]
  BY DEF AccessFails, EndCall
<1>2. IsTaskCall(new) /\ new.op = "idle" /\ CallOf(new)'
  BY DEF IsTaskCall, CallOf
<1> HIDE DEF new
<1>3. TasksShape
  BY DEF CalmInv
<1>4. \A x : Untouched(x)
  BY <1>1 DEF Untouched
<1>5. taskCalls[c].op # "idle"
  BY DEF AccessFails
<1>6. ASSUME NEW x \in TaskKinds, \A d \in TaskCalls \ {c} : taskCalls[d].op # "idle" => CallKind(d) # x
      PROVE  LatestOf(x)'
  <2>1. CASE x = CallKind(c)
    <3>1. newest'[x] = NoNewest
      BY <1>1, <1>3, <2>1 DEF TasksShape
    <3> QED
      BY <3>1 DEF LatestOf
  <2>2. CASE x # CallKind(c)
    <3>1. ~InProgress(x)
      BY <1>6, <2>2 DEF InProgress
    <3>2. LatestOf(x) /\ newest'[x] = newest[x]
      BY <1>1, <1>3, <2>2, <3>1 DEF CalmInv, TasksShape
    <3> QED
      BY <1>1, <3>2 DEF LatestOf
  <2> QED
    BY <2>1, <2>2
<1>7. /\ task' = [j \in TaskIds |-> task'[j]] /\ newest' = [x \in TaskKinds |-> newest'[x]] /\ edits' \in Nat
      /\ \A j \in TaskIds : IsTask(task'[j], MaxEdits)
  BY <1>1, <1>3 DEF TasksShape
<1> QED
  BY <1>1, <1>2, <1>4, <1>6, <1>7, CallGoesOn

(* The newest of some rows is one of them.                                   *)
LEMMA NewestIsThere ==
    ASSUME TasksShape, NEW S \in SUBSET TaskRows, S # {}
    PROVE  (CHOOSE i \in S : \A j \in S : task[j].updated <= task[i].updated) \in S
<1> DEFINE N == {task[i].updated : i \in S}
<1>1. \A i \in S : task[i].updated \in 0..MaxEdits
  BY TaskRowFields DEF TaskRows
<1>2. MaxEdits \in Nat /\ N \in SUBSET (0..MaxEdits) /\ N # {}
  BY <1>1, TaskAssumption
<1>3. \E n \in N : \A m \in N : m <= n
  BY <1>2, GreatestNumber
<1>4. \E i \in S : \A j \in S : task[j].updated <= task[i].updated
  BY <1>3
<1> QED
  BY <1>4

LEMMA CallsTell == TaskTyping /\ CallsInv => LastUsedIsLatest
<1> SUFFICES ASSUME TaskTyping, CallsInv, NEW k \in TaskKinds
             PROVE  /\ newest[k] # NoNewest /\ ~InProgress(k) => GetLastUsed(k) = newest[k]
                    /\ TasksOf(k) # {} => GetLastUsed(k) \in TasksOf(k)
  BY DEF LastUsedIsLatest
<1>0. TasksShape
  BY TypingShapes
<1> DEFINE mine   == TasksOf(k)
           marked == {i \in mine : task[i].last}
           LastOf(S) == CHOOSE i \in S : \A j \in S : task[j].updated <= task[i].updated
<1>1. GetLastUsed(k) = IF marked # {} THEN LastOf(marked) ELSE IF mine # {} THEN LastOf(mine) ELSE NoNewest
  BY DEF GetLastUsed
<1>2. mine \in SUBSET TaskRows /\ marked \in SUBSET mine
  BY DEF TasksOf
<1>3. \A S \in SUBSET TaskRows : S # {} => LastOf(S) \in S
  BY <1>0, NewestIsThere
<1>4. \A i \in TaskIds : i \in mine <=> task[i].kind = k
  BY <1>0, TaskRowFields DEF TasksOf, TaskRows
<1>5. ASSUME newest[k] # NoNewest, ~InProgress(k) PROVE GetLastUsed(k) = newest[k]
  <2>1. LatestOf(k)
    <3>1. newest # Nobody
      BY <1>5 DEF Nobody
    <3> QED
      BY <1>5, <3>1 DEF CallsInv, CalmInv
  <2>2. newest[k] \in mine /\ marked = {newest[k]}
    <3>1. newest[k] \in TaskIds /\ task[newest[k]].kind = k /\ \A i \in TaskIds : task[i].kind = k => task[i].last = (i = newest[k])
      BY <1>5, <2>1 DEF LatestOf
    <3>2. newest[k] \in mine
      BY <1>4, <3>1
    <3>3. \A i \in mine : i \in TaskIds /\ task[i].last = (i = newest[k])
      BY <1>4, <3>1 DEF TasksOf, TaskRows
    <3> QED
      BY <3>2, <3>3
  <2>3. marked \in SUBSET TaskRows
    BY <1>2
  <2> HIDE DEF LastOf, marked, mine
  <2>4. LastOf(marked) \in marked
    BY <1>3, <2>2, <2>3
  <2> QED
    BY <1>1, <2>2, <2>4
<1>6. ASSUME mine # {} PROVE GetLastUsed(k) \in mine
  <2> HIDE DEF LastOf, marked, mine
  <2>1. marked # {} => LastOf(marked) \in mine
    BY <1>2, <1>3
  <2>2. LastOf(mine) \in mine
    BY <1>2, <1>3, <1>6
  <2> QED
    BY <1>1, <1>6, <2>1, <2>2
<1> QED
  BY <1>5, <1>6

LEMMA CallsStart == TaskInit => CallsInv
<1> SUFFICES ASSUME TaskInit PROVE CallsInv
  OBVIOUS
<1>1. edits = 0 /\ task = [i \in TaskIds |-> NoTask] /\ taskCalls = [c \in TaskCalls |-> [op |-> "idle"]]
      /\ newest = [k \in TaskKinds |-> NoNewest] /\ clash = FALSE
  BY DEF TaskInit
<1>2. \A c \in TaskCalls : taskCalls[c] = [op |-> "idle"] /\ taskCalls[c].op = "idle"
  BY <1>1
<1>3. TasksShape
  BY <1>1, <1>2 DEF TasksShape, IsTask, IsTaskCall
<1>4. \A c \in TaskCalls : CallOf(taskCalls[c])
  BY <1>2 DEF CallOf
<1>5. \A k \in TaskKinds : LatestOf(k)
  BY <1>1 DEF LatestOf
<1> QED
  BY <1>1, <1>2, <1>3, <1>4, <1>5 DEF CallsInv, CalmInv

LEMMA CalmCallsStay ==
    ASSUME CalmInv, task' = task, edits' = edits, taskCalls' = taskCalls, newest' = newest
    PROVE  CalmInv'
<1>1. TasksShape'
  BY DEF CalmInv, TasksShape
<1>2. ASSUME NEW c \in TaskCalls PROVE CallOf(taskCalls[c])'
  <2>1. CallOf(taskCalls[c])
    BY DEF CalmInv
  <2> QED
    BY <2>1 DEF CallOf, MarkOf
<1>3. ASSUME NEW k \in TaskKinds, ~InProgress(k)' PROVE LatestOf(k)'
  <2>1. ~InProgress(k)
    BY <1>3 DEF InProgress, CallKind
  <2>2. LatestOf(k)
    BY <2>1 DEF CalmInv
  <2> QED
    BY <2>2 DEF LatestOf
<1>4. \A c \in TaskCalls : CallKind(c)' = CallKind(c) /\ taskCalls'[c] = taskCalls[c]
  BY DEF CallKind
<1> QED
  BY <1>1, <1>2, <1>3, <1>4 DEF CalmInv

(* When all the calls that met are over nothing is told of any kind.          *)
LEMMA CalmAgain ==
    ASSUME TaskTyping', NEW c \in TaskCalls, EndCall(c), taskCalls = [d \in TaskCalls |-> taskCalls[d]],
           clash, ~clash', newest' = Nobody
    PROVE  CalmInv'
<1>1. \A d \in TaskCalls : taskCalls'[d].op = "idle"
  BY DEF EndCall
<1>2. TasksShape'
  BY DEF TaskTyping, TaskTypeOK, TasksShape, RowsTyped, TaskRowType, IsTask
<1>3. \A d \in TaskCalls : CallOf(taskCalls[d])'
  BY <1>1 DEF CallOf
<1>4. \A k \in TaskKinds : LatestOf(k)'
  BY DEF LatestOf, Nobody
<1> QED
  BY <1>1, <1>2, <1>3, <1>4 DEF CalmInv

LEMMA NotedStep ==
    ASSUME NEW meets, NEW known, Noted(meets, known), CallsInv, ~clash' /\ ~clash => CalmInv'
    PROVE  CallsInv'
BY DEF Noted, CallsInv

LEMMA EndStep ==
    ASSUME TaskTyping, TaskTyping', CallsInv, NEW c \in TaskCalls, EndCall(c),
           clash => newest' = Nobody, ~clash => CalmInv'
    PROVE  CallsInv'
<1>1. taskCalls = [d \in TaskCalls |-> taskCalls[d]]
  BY DEF TaskTyping
<1>2. ~clash => ~clash'
  BY DEF EndCall
<1>3. clash /\ ~clash' => CalmInv'
  BY <1>1, CalmAgain
<1> QED
  BY <1>2, <1>3 DEF CallsInv

LEMMA CallsStep == TaskTyping /\ TaskTyping' /\ CallsInv /\ [TaskNext]_taskVars => CallsInv'
<1> SUFFICES ASSUME TaskTyping, TaskTyping', CallsInv, [TaskNext]_taskVars PROVE CallsInv'
  OBVIOUS
<1>1. CASE UNCHANGED callVars
  <2>1. task' = task /\ edits' = edits /\ taskCalls' = taskCalls /\ newest' = newest /\ clash' = clash
    BY <1>1 DEF callVars
  <2> QED
    BY <2>1, CalmCallsStay DEF CallsInv
<1>2. CASE Command
  BY <1>1, <1>2 DEF Command, ReadConfig, ReadTask, SkipTask, TaskUnusable, cliExport, cliDictionary, cliImport, cliMigrate,
     cliCompare, ApplyFlags, OverrideDatabase, NoOverride, Run, Step
<1>3. ASSUME NEW c \in TaskCalls, NEW i \in TaskIds, NEW k \in TaskKinds, SaveTask(c, i, k) PROVE CallsInv'
  <2>1. ~clash' /\ ~clash => CalmInv'
    BY <1>3, SaveStep DEF CallsInv
  <2> QED
    BY <1>3, <2>1, NotedStep DEF SaveTask
<1>4. ASSUME NEW c \in TaskCalls, NEW i \in TaskIds, RunTask(c, i) PROVE CallsInv'
  <2>1. ~clash' /\ ~clash => CalmInv'
    BY <1>4, RunStep DEF CallsInv
  <2> QED
    BY <1>4, <2>1, NotedStep DEF RunTask
<1>5. ASSUME NEW i \in TaskIds, DeleteTask(i) PROVE CallsInv'
  <2>1. ~clash' /\ ~clash => CalmInv'
    BY <1>5, DeleteStep DEF CallsInv
  <2> QED
    BY <1>5, <2>1, NotedStep DEF DeleteTask
<1>6. ASSUME NEW c \in TaskCalls, LoadTasks(c) PROVE CallsInv'
  <2>1. newest' = newest /\ clash' = clash
    BY <1>6 DEF LoadTasks
  <2> QED
    BY <1>6, <2>1, LoadStep DEF CallsInv
<1>7. ASSUME NEW c \in TaskCalls, AccessFails(c) PROVE CallsInv'
  <2>1. EndCall(c) /\ newest' = [newest EXCEPT ![CallKind(c)] = NoNewest]
    BY <1>7 DEF AccessFails
  <2>2. clash => newest' = Nobody
    BY <2>1 DEF CallsInv, Nobody
  <2>3. ~clash => CalmInv'
    BY <1>7, AccessFailsStep DEF CallsInv
  <2> QED
    BY <2>1, <2>2, <2>3, EndStep
<1>8. ASSUME NEW c \in TaskCalls, MarkLastUsed(c) PROVE CallsInv'
  <2>1. ~clash => CalmInv'
    BY <1>8, MarkStep DEF CallsInv
  <2>2. CASE newest' = newest /\ clash' = clash
    BY <2>1, <2>2 DEF CallsInv
  <2>3. CASE EndCall(c) /\ (clash => newest' = Nobody)
    BY <2>1, <2>3, EndStep
  <2>4. \/ newest' = newest /\ clash' = clash
        \/ EndCall(c) /\ (clash => newest' = Nobody)
    BY <1>8 DEF MarkLastUsed
  <2> QED
    BY <2>2, <2>3, <2>4
<1>9. CASE Calls
  BY <1>3, <1>4, <1>5, <1>6, <1>7, <1>8, <1>9 DEF Calls
<1>10. CASE UNCHANGED taskVars
  BY <1>1, <1>10 DEF taskVars
<1> QED
  BY <1>2, <1>9, <1>10 DEF TaskNext

(* The configuration offered as the last used one of its kind is the one saved *)
(* or run last, unless calls met on a kind; and there is an answer of the right *)
(* kind whatever they have done to each other: however many configurations and  *)
(* calls there are, whichever way the calls interleave with the rows a marking  *)
(* loaded before and writes back one by one (MarkLastUsed, GetLastUsed).       *)
THEOREM LastUsedIsRight == TaskSpec => []LastUsedIsLatest
<1>1. TaskInit => TaskTyping
  BY TypingStart
<1>2. TaskTyping /\ [TaskNext]_taskVars => TaskTyping'
  BY TypingStep
<1> QED
  BY <1>1, <1>2, CallsStart, CallsStep, CallsTell, PTL DEF TaskSpec

-----------------------------------------------------------------------------
(* The connections.                                                         *)

(* Short names differ, in the lists of connections lib and mem.               *)
ShortsIn(lib, mem) ==
    \A i, j \in LibIds : \A a \in {lib[i], mem[i]}, b \in {lib[j], mem[j]} :
      (i # j /\ a # NoConn /\ b # NoConn /\ a.short # Blank) => a.short # b.short
FromStart(f) == [i \in LibIds |-> IF i \in DOMAIN f THEN f[i] ELSE NoConn]
ShortsApart  == ShortsIn(conns, inline)
ShortsBegin  == ShortsIn(FromStart(libCase.stored), FromStart(libCase.inline))
OneSaves     == NeverOverlap("save") /\ ~LibFault("read") /\ ShortsBegin

LibFields    == {"op", "step", "id", "rec", "row", "force", "since", "list", "result"}
IsLibCall(x) == DOMAIN x = LibFields /\ x = [f \in LibFields |-> x[f]]
LibShape ==
    /\ libCase \in LibCases
    /\ conns \in [LibIds -> Records \cup {NoConn}] /\ inline \in [LibIds -> Records \cup {NoConn}]
    /\ attached \subseteq [conn : LibIds, kind : Kinds]
    /\ libCalls = [c \in LibCallers |-> libCalls[c]] /\ \A c \in LibCallers : IsLibCall(libCalls[c])

(* What the calls in progress rely on.                                       *)
Saving(x)   == x.op = "save" /\ x.step = "write"
Deleting(x) == x.op = "delete" /\ x.step \in {"pick", "remove", "chats", "tabs"}
SaveAim(x) ==
    /\ x.rec \in libCase.requests /\ x.id \in LibIds
    /\ OneSaves => ~Taken(conns, x.id, x.rec.short)
DeleteAim(x) ==
    /\ x.step = "pick" => Strays \/ (x.row = x.id /\ x.id \in LibIds)
    /\ x.step = "remove" => x.row \in LibIds /\ (Strays \/ x.row = x.id)
    /\ x.step \in {"chats", "tabs"} /\ x.id \in LibIds =>
         conns[x.id] = NoConn \/ StoredAgain(x.id) \/ (Strays /\ x.row # x.id)
CallOk(x)      == (Saving(x) => SaveAim(x)) /\ (Deleting(x) => DeleteAim(x))
Together(x, y) == Saving(x) /\ Saving(y) => ~NeverOverlap("save")

(* The deletion y will still take x away, or took the row of x's connection    *)
(* after it had found another.                                              *)
Misled(y, i) == Strays /\ y.op = "delete" /\ y.row = i /\ y.id # i /\ y.step \notin {"new", "pick"}
Covers(y, x) ==
    \/ y.op = "delete" /\ y.id = x.conn /\ (y.step = "chats" \/ (y.step = "tabs" /\ x.kind # "chat"))
    \/ Misled(y, x.conn)
Orphan(x)    == conns[x.conn] = NoConn /\ ~LibFault("cascade")

(* The call goes on from x to y and keeps what others rely on.                 *)
GoesOn(x, y) ==
    /\ \A a \in attached : Covers(x, a) => Covers(y, a)
    /\ \A i \in LibIds : StoredBy(x, i) => StoredBy(y, i)

LibInv ==
    /\ LibShape
    /\ \A c \in LibCallers : CallOk(libCalls[c])
    /\ \A c, d \in LibCallers : c # d => Together(libCalls[c], libCalls[d])
    /\ \A x \in attached : Orphan(x) => \E c \in LibCallers : Covers(libCalls[c], x)
    /\ OneSaves => ShortsApart

LEMMA LibCallMoves ==
    ASSUME LibShape, NEW c \in LibCallers, NEW new, IsLibCall(new), Go(c, new)
    PROVE  /\ libCalls'[c] = new /\ \A d \in LibCallers \ {c} : libCalls'[d] = libCalls[d]
           /\ libCalls' = [d \in LibCallers |-> libCalls'[d]] /\ \A d \in LibCallers : IsLibCall(libCalls'[d])
<1>1. libCalls = [d \in LibCallers |-> libCalls[d]] /\ \A d \in LibCallers : IsLibCall(libCalls[d])
  BY DEF LibShape
<1>2. libCalls' = [libCalls EXCEPT ![c] = new]
  BY DEF Go
<1> QED
  BY <1>1, <1>2

LEMMA StoredStays ==
    ASSUME LibShape, NEW c \in LibCallers, NEW new, IsLibCall(new), Go(c, new), GoesOn(libCalls[c], new),
           NEW i \in LibIds, StoredAgain(i)
    PROVE  StoredAgain(i)'
<1>1. libCalls'[c] = new /\ \A d \in LibCallers \ {c} : libCalls'[d] = libCalls[d]
  BY LibCallMoves
<1> PICK d \in LibCallers : StoredBy(libCalls[d], i)
  BY DEF StoredAgain
<1>2. StoredBy(libCalls'[d], i)
  BY <1>1 DEF GoesOn
<1> QED
  BY <1>2 DEF StoredAgain, StoredBy

LEMMA CaseStays ==
    ASSUME libCase' = libCase
    PROVE  /\ Strays' = Strays /\ OneSaves' = OneSaves /\ NeverOverlap("save")' = NeverOverlap("save")
           /\ LibFault("read")' = LibFault("read") /\ LibFault("cascade")' = LibFault("cascade")
<1>1. ShortsBegin' = ShortsBegin
  BY DEF ShortsBegin, ShortsIn, FromStart
<1> QED
  BY <1>1 DEF Strays, OneSaves, NeverOverlap, LibFault

(* What a call relies on, when its part of the state stays.                   *)
LEMMA AimStays ==
    ASSUME NEW x, CallOk(x), libCase' = libCase, conns' = conns, inline' = inline,
           \A i \in LibIds : StoredAgain(i) => StoredAgain(i)'
    PROVE  CallOk(x)'
<1>1. Strays' = Strays /\ OneSaves' = OneSaves
  BY CaseStays
<1>2. Saving(x)' = Saving(x) /\ Deleting(x)' = Deleting(x)
  BY DEF Saving, Deleting
<1>3. SaveAim(x) => SaveAim(x)'
  BY <1>1 DEF SaveAim, Taken, Ids
<1>4. DeleteAim(x) => DeleteAim(x)'
  BY <1>1 DEF DeleteAim
<1> QED
  BY <1>2, <1>3, <1>4 DEF CallOk

(* One call moves on and the connections stay.                               *)
LEMMA LibCallOnly ==
    ASSUME LibInv, NEW c \in LibCallers, NEW new, IsLibCall(new), Go(c, new),
           libCase' = libCase, conns' = conns, inline' = inline, attached' = attached,
           CallOk(new), \A d \in LibCallers \ {c} : Together(new, libCalls[d]) /\ Together(libCalls[d], new),
           GoesOn(libCalls[c], new)
    PROVE  LibInv'
<1>1. LibShape
  BY DEF LibInv
<1>2. /\ libCalls'[c] = new /\ \A d \in LibCallers \ {c} : libCalls'[d] = libCalls[d]
      /\ libCalls' = [d \in LibCallers |-> libCalls'[d]] /\ \A d \in LibCallers : IsLibCall(libCalls'[d])
  BY <1>1, LibCallMoves
<1>3. LibShape'
  BY <1>1, <1>2 DEF LibShape
<1>4. (OneSaves => ShortsApart)'
  <2>1. ShortsApart => ShortsApart'
    BY DEF ShortsApart, ShortsIn
  <2>2. OneSaves' = OneSaves
    BY CaseStays
  <2> QED
    BY <2>1, <2>2 DEF LibInv
<1>5. \A d \in LibCallers : CallOk(libCalls'[d])
  BY <1>2 DEF LibInv
<1>6. ASSUME NEW d \in LibCallers PROVE CallOk(libCalls[d])'
  <2>1. \A i \in LibIds : StoredAgain(i) => StoredAgain(i)'
    BY <1>1, StoredStays
  <2> PICK x : x = libCalls'[d]
    OBVIOUS
  <2>2. CallOk(x)'
    BY <1>5, <2>1, AimStays
  <2> QED
    BY <2>2
<1>7. \A d, e \in LibCallers : d # e => Together(libCalls'[d], libCalls'[e])
  BY <1>2 DEF LibInv
<1>8. \A d, e \in LibCallers : d # e => Together(libCalls[d], libCalls[e])'
  BY <1>7, CaseStays DEF Together, Saving
<1>9. \A x \in attached : Orphan(x) => \E d \in LibCallers : Covers(libCalls'[d], x)
  BY <1>2 DEF LibInv, GoesOn
<1>10. \A x \in attached' : Orphan(x)' => \E d \in LibCallers : Covers(libCalls[d], x)'
  BY <1>9, CaseStays DEF Orphan, Covers, Misled
<1> QED
  BY <1>3, <1>4, <1>6, <1>8, <1>10 DEF LibInv

(* ... to a step nothing relies on.                                          *)
LEMMA LibAside ==
    ASSUME LibInv, NEW c \in LibCallers, NEW new, IsLibCall(new), Go(c, new),
           libCase' = libCase, conns' = conns, inline' = inline, attached' = attached,
           GoesOn(libCalls[c], new), new.op \notin {"save", "delete"} \/ new.step = "done"
    PROVE  LibInv'
<1>1. ~Saving(new) /\ ~Deleting(new)
  BY DEF Saving, Deleting
<1>2. CallOk(new) /\ \A d \in LibCallers \ {c} : Together(new, libCalls[d]) /\ Together(libCalls[d], new)
  BY <1>1 DEF CallOk, Together
<1> QED
  BY <1>2, LibCallOnly

(* Nothing relies on a call that has not begun, or that reads lists.          *)
LEMMA NewGoesOn == ASSUME NEW x, NEW y, x.step = "new" \/ x.op = "list" PROVE GoesOn(x, y)
BY DEF GoesOn, Covers, Misled, StoredBy

(* A saving starts when no other may be in progress.                         *)
LEMMA StartsAlone ==
    ASSUME NEW c \in LibCallers, Starts(c, "save"), NEW d \in LibCallers
    PROVE  NeverOverlap("save") /\ libCalls[d].op = "save" => libCalls[d].step \in {"new", "done"}
BY DEF Starts, Alone, NeverOverlap

LEMMA CheckSaveKeeps == ASSUME LibInv, NEW c \in LibCallers, CheckSave(c) PROVE LibInv'
<1>1. LibShape
  BY DEF LibInv
<1> PICK id \in {c} \cup (IF "edit" \in libCase.ops THEN SavedIds ELSE {}), r \in libCase.requests, lib \in LoadConns :
         Go(c, [NoCall EXCEPT !.op = "save", !.id = id, !.rec = r,
                  !.step = IF Taken(lib, id, r.short) THEN "done" ELSE "write",
                  !.result = IF Taken(lib, id, r.short) THEN "refused" ELSE "none"])
  BY DEF CheckSave
<1>2. Starts(c, "save") /\ libCase' = libCase /\ conns' = conns /\ inline' = inline /\ attached' = attached
  BY DEF CheckSave
<1> PICK new : new = [NoCall EXCEPT !.op = "save", !.id = id, !.rec = r,
                  !.step = IF Taken(lib, id, r.short) THEN "done" ELSE "write",
                  !.result = IF Taken(lib, id, r.short) THEN "refused" ELSE "none"]
  OBVIOUS
<1>3. /\ new.op = "save" /\ new.id = id /\ new.rec = r /\ IsLibCall(new) /\ Go(c, new)
      /\ new.step \in {"done", "write"} /\ new.step = "write" => ~Taken(lib, id, r.short)
  <2>1. IsLibCall(NoCall)
    BY DEF NoCall, IsLibCall, LibFields
  <2> QED
    BY <1>2, <2>1 DEF IsLibCall, LibFields
<1>4. GoesOn(libCalls[c], new)
  BY <1>2, NewGoesOn DEF Starts
<1>5. CASE new.step = "done"
  BY <1>2, <1>3, <1>4, <1>5, LibAside
<1>6. CASE new.step = "write"
  <2>1. OneSaves => lib = conns
    BY DEF OneSaves, LoadConns
  <2>2. CallOk(new)
    BY <1>3, <1>6, <2>1 DEF CallOk, SaveAim, Saving, Deleting, LibIds
  <2>3. ASSUME NEW d \in LibCallers \ {c} PROVE Together(new, libCalls[d]) /\ Together(libCalls[d], new)
    BY <1>2, <1>3, StartsAlone DEF Together, Saving
  <2> QED
    BY <1>2, <1>3, <1>4, <2>2, <2>3, LibCallOnly
<1> QED
  BY <1>3, <1>5, <1>6

(* The calls of the metadata cache, and the last step of a change.           *)
LEMMA ListsKeep ==
    ASSUME LibInv, NEW c \in LibCallers,
           Invalidate(c) \/ ResolveConn(c) \/ Forget(c) \/ Lookup(c) \/ Query(c) \/ Fill(c)
    PROVE  LibInv'
<1>1. LibShape
  BY DEF LibInv
<1>2. IsLibCall(libCalls[c]) /\ IsLibCall(NoCall)
  BY <1>1 DEF LibShape, NoCall, IsLibCall, LibFields
<1>3. libCase' = libCase /\ conns' = conns /\ inline' = inline /\ attached' = attached
  BY DEF Invalidate, ResolveConn, Forget, Lookup, Query, Fill
<1>4. CASE Invalidate(c)
  <2>1. Go(c, [libCalls[c] EXCEPT !.step = "done", !.result = "ok"]) /\ libCalls[c].step = "reset"
    BY <1>4 DEF Invalidate, Finish
  <2> PICK new : new = [libCalls[c] EXCEPT !.step = "done", !.result = "ok"]
    OBVIOUS
  <2>2. /\ IsLibCall(new) /\ new.step = "done" /\ new.result = "ok" /\ Go(c, new)
        /\ new.op = libCalls[c].op /\ new.id = libCalls[c].id /\ new.row = libCalls[c].row
    BY <1>2, <2>1 DEF IsLibCall, LibFields
  <2>3. GoesOn(libCalls[c], new)
    BY <2>1, <2>2 DEF GoesOn, Covers, Misled, StoredBy
  <2> QED
    BY <1>3, <2>2, <2>3, LibAside
<1>5. CASE ResolveConn(c) \/ Forget(c) \/ Lookup(c) \/ Query(c) \/ Fill(c)
  <2>1. \E new : IsLibCall(new) /\ new.op = "list" /\ Go(c, new)
    <3>1. CASE ResolveConn(c)
      <4> PICK key \in libCase.keys, force \in BOOLEAN, lib \in LoadConns :
             \/ Go(c, [NoCall EXCEPT !.op = "list", !.step = "done", !.result = "error"])
             \/ \E r \in Resolved(lib, key) :
                  Go(c, [NoCall EXCEPT !.op = "list", !.rec = r, !.force = force,
                         !.since = schema[r.server], !.step = IF force THEN "forget" ELSE "lookup"])
        BY <3>1 DEF ResolveConn
      <4> QED
        BY <1>2 DEF IsLibCall, LibFields
    <3>2. CASE Forget(c)
      BY <1>2, <3>2 DEF Forget, ToStep, AtStep, IsLibCall, LibFields
    <3>3. CASE Lookup(c)
      BY <1>2, <3>3 DEF Lookup, ToStep, AtStep, IsLibCall, LibFields
    <3>4. CASE Query(c)
      BY <1>2, <3>4 DEF Query, Finish, AtStep, IsLibCall, LibFields
    <3>5. CASE Fill(c)
      BY <1>2, <3>5 DEF Fill, Finish, AtStep, IsLibCall, LibFields
    <3> QED
      BY <1>5, <3>1, <3>2, <3>3, <3>4, <3>5
  <2>2. libCalls[c].step = "new" \/ libCalls[c].op = "list"
    BY <1>5 DEF ResolveConn, Starts, Forget, Lookup, Query, Fill, AtStep
  <2> QED
    BY <1>3, <2>1, <2>2, NewGoesOn, LibAside
<1> QED
  BY <1>4, <1>5

LEMMA RecordNames ==
    /\ \A r \in Records : /\ r # NoConn /\ r.name \in LibNames /\ r.short \in LibNames \cup {Blank}
                          /\ r.name \notin LibIds /\ r.short \notin LibIds
    /\ NoConn.short = Blank /\ NoConn.name = Blank
    /\ Blank \notin LibIds /\ \A k \in LibNames : k \notin LibIds /\ k # Blank
<1>1. /\ NoConn.short = Blank /\ NoConn.name = Blank
      /\ \A k \in LibNames : k \notin LibIds /\ k # Blank
  BY LibKeysApart DEF NoConn, LibIds
<1>2. Blank \notin LibIds
  BY LibKeysApart DEF LibIds
<1>3. \A r \in Records : r.name \in LibNames /\ r.short \in LibNames \cup {Blank}
  BY DEF Records
<1> QED
  BY <1>1, <1>2, <1>3

(* A record is stored under an ID, in the store or in the memory registry.   *)
LEMMA StoredKeeps ==
    ASSUME LibInv, NEW c \in LibCallers, Saving(libCalls[c]), NEW new, IsLibCall(new), Go(c, new),
           new.op = "save", new.step = "reset", new.id = libCalls[c].id, libCase' = libCase, attached' = attached,
           \/ conns' = [conns EXCEPT ![libCalls[c].id] = libCalls[c].rec] /\ inline' = inline
           \/ inline' = [inline EXCEPT ![libCalls[c].id] = libCalls[c].rec] /\ conns' = conns
    PROVE  LibInv'
<1>1. LibShape /\ CallOk(libCalls[c])
  BY DEF LibInv
<1> PICK id, r : id = libCalls[c].id /\ r = libCalls[c].rec
  OBVIOUS
<1>2. r \in libCase.requests /\ id \in LibIds /\ (OneSaves => ~Taken(conns, id, r.short))
  BY <1>1 DEF CallOk, SaveAim
<1>3. r \in Records /\ r # NoConn
  BY <1>1, <1>2, LibCasesAssumption, RecordNames DEF LibShape
<1>4. \/ conns' = [conns EXCEPT ![id] = r] /\ inline' = inline
      \/ inline' = [inline EXCEPT ![id] = r] /\ conns' = conns
  OBVIOUS
<1>5. conns' \in [LibIds -> Records \cup {NoConn}] /\ inline' \in [LibIds -> Records \cup {NoConn}]
  BY <1>1, <1>2, <1>3, <1>4 DEF LibShape
<1>6. /\ \A i \in LibIds \ {id} : conns'[i] = conns[i] /\ inline'[i] = inline[i]
      /\ conns'[id] \in {conns[id], r} /\ inline'[id] \in {inline[id], r}
  BY <1>1, <1>2, <1>4 DEF LibShape
<1>7. /\ libCalls'[c] = new /\ \A d \in LibCallers \ {c} : libCalls'[d] = libCalls[d]
      /\ libCalls' = [d \in LibCallers |-> libCalls'[d]] /\ \A d \in LibCallers : IsLibCall(libCalls'[d])
  BY <1>1, LibCallMoves
<1>8. LibShape'
  BY <1>1, <1>5, <1>7 DEF LibShape
<1>9. /\ StoredAgain(id)' /\ \A i \in LibIds : StoredAgain(i) => StoredAgain(i)'
      /\ \A x : ~Covers(libCalls[c], x)
  <2>1. \A x : ~Covers(libCalls[c], x)
    BY DEF Covers, Misled, Saving
  <2>2. StoredBy(libCalls'[c], id)
    BY <1>7 DEF StoredBy
  <2>3. StoredAgain(id)'
    BY <2>2 DEF StoredAgain, StoredBy
  <2>4. GoesOn(libCalls[c], new)
    BY <2>1 DEF GoesOn, StoredBy, Saving
  <2> QED
    BY <1>1, <2>1, <2>3, <2>4, StoredStays
<1>10. ASSUME NEW d \in LibCallers PROVE CallOk(libCalls[d])'
  <2> PICK x : x = libCalls'[d]
    OBVIOUS
  <2>1. CASE d = c
    <3>1. CallOk(x)'
      BY <1>7, <2>1 DEF CallOk, Saving, Deleting
    <3> QED
      BY <3>1
  <2>2. CASE d # c
    <3>1. x = libCalls[d] /\ CallOk(x) /\ Together(libCalls[c], x)
      BY <1>7, <2>2 DEF LibInv
    <3>2. ASSUME Saving(x) PROVE SaveAim(x)'
      <4>1. ~OneSaves /\ SaveAim(x)
        BY <3>1, <3>2 DEF Together, CallOk, OneSaves
      <4> QED
        BY <4>1, CaseStays DEF SaveAim
    <3>3. ASSUME Deleting(x) PROVE DeleteAim(x)'
      <4>1. DeleteAim(x)
        BY <3>1, <3>3 DEF CallOk
      <4> QED
        BY <1>6, <1>9, <4>1, CaseStays DEF DeleteAim
    <3>4. CallOk(x)'
      BY <3>2, <3>3 DEF CallOk, Saving, Deleting
    <3> QED
      BY <3>4
  <2> QED
    BY <2>1, <2>2
<1>11. ASSUME NEW d \in LibCallers, NEW e \in LibCallers, d # e PROVE Together(libCalls[d], libCalls[e])'
  <2>1. Together(libCalls[d], libCalls[e])
    BY <1>11 DEF LibInv
  <2>2. Together(libCalls'[d], libCalls'[e])
    BY <1>7, <1>11, <2>1 DEF Together, Saving
  <2> QED
    BY <2>2, CaseStays DEF Together, Saving
<1>12. ASSUME NEW x \in attached', Orphan(x)' PROVE \E d \in LibCallers : Covers(libCalls[d], x)'
  <2>1. x \in attached /\ x.conn \in LibIds
    BY <1>1 DEF LibShape
  <2>2. Orphan(x)
    BY <1>3, <1>6, <1>12, <2>1, CaseStays DEF Orphan
  <2> PICK d \in LibCallers : Covers(libCalls[d], x)
    BY <2>1, <2>2 DEF LibInv
  <2>3. d # c
    BY <1>9
  <2>4. Covers(libCalls'[d], x)
    BY <1>7, <2>3
  <2> QED
    BY <2>4, CaseStays DEF Covers, Misled
<1>13. ASSUME OneSaves PROVE ShortsApart'
  <2>1. ShortsApart /\ ~Taken(conns, id, r.short)
    BY <1>2, <1>13 DEF LibInv
  <2>2. ASSUME NEW i \in LibIds \ {id}, NEW a \in {conns[i], inline[i]}, a # NoConn, r.short # Blank
        PROVE  a.short # r.short
    BY <2>1, <2>2 DEF Taken, Ids
  <2>3. ASSUME NEW i \in LibIds, NEW j \in LibIds, NEW a \in {conns'[i], inline'[i]}, NEW b \in {conns'[j], inline'[j]},
               i # j, a # NoConn, b # NoConn, a.short # Blank
        PROVE  a.short # b.short
    <3>1. \/ a \in {conns[i], inline[i]}
          \/ i = id /\ a = r
      BY <1>6, <2>3
    <3>2. \/ b \in {conns[j], inline[j]}
          \/ j = id /\ b = r
      BY <1>6, <2>3
    <3>3. CASE a \in {conns[i], inline[i]} /\ b \in {conns[j], inline[j]}
      BY <2>1, <2>3, <3>3 DEF ShortsApart, ShortsIn
    <3> QED
      BY <2>2, <2>3, <3>1, <3>2, <3>3
  <2> QED
    BY <2>3 DEF ShortsApart, ShortsIn
<1> QED
  BY <1>8, <1>10, <1>11, <1>12, <1>13, CaseStays DEF LibInv

(* A row is removed, from the store or the registry.                         *)
LEMMA RemovedKeeps ==
    ASSUME LibInv, NEW c \in LibCallers, NEW new, IsLibCall(new), Go(c, new), libCase' = libCase, attached' = attached,
           NEW i \in LibIds,
           \/ conns' = [conns EXCEPT ![i] = NoConn] /\ inline' = inline
           \/ inline' = [inline EXCEPT ![i] = NoConn] /\ conns' = conns,
           ~Saving(new), GoesOn(libCalls[c], new),
           Deleting(new) => new.step = "chats" /\ (new.id = i => conns'[i] = NoConn) /\ (new.id # i => Strays /\ new.row # new.id),
           conns[i] # NoConn /\ conns'[i] = NoConn => \A x : x.conn = i => Covers(new, x)
    PROVE  LibInv'
<1>1. LibShape
  BY DEF LibInv
<1>2. conns' \in [LibIds -> Records \cup {NoConn}] /\ inline' \in [LibIds -> Records \cup {NoConn}]
  BY <1>1 DEF LibShape
<1>3. \A j \in LibIds : /\ conns'[j] \in {conns[j], NoConn} /\ inline'[j] \in {inline[j], NoConn}
                        /\ j # i => conns'[j] = conns[j]
  BY <1>1 DEF LibShape
<1>4. /\ libCalls'[c] = new /\ \A d \in LibCallers \ {c} : libCalls'[d] = libCalls[d]
      /\ libCalls' = [d \in LibCallers |-> libCalls'[d]] /\ \A d \in LibCallers : IsLibCall(libCalls'[d])
  BY <1>1, LibCallMoves
<1>5. LibShape'
  BY <1>1, <1>2, <1>4 DEF LibShape
<1>6. \A j \in LibIds : StoredAgain(j) => StoredAgain(j)'
  BY <1>1, StoredStays
<1>7. ASSUME NEW d \in LibCallers PROVE CallOk(libCalls[d])'
  <2> PICK x : x = libCalls'[d]
    OBVIOUS
  <2>1. CASE d = c
    <3>1. x = new
      BY <1>4, <2>1
    <3>2. Deleting(x) => DeleteAim(x)'
      BY <3>1, CaseStays DEF DeleteAim, Deleting
    <3>3. CallOk(x)'
      BY <3>1, <3>2 DEF CallOk, Saving, Deleting
    <3> QED
      BY <3>3
  <2>2. CASE d # c
    <3>1. x = libCalls[d] /\ CallOk(x)
      BY <1>4, <2>2 DEF LibInv
    <3>2. ASSUME Saving(x), SaveAim(x) PROVE SaveAim(x)'
      <4>1. ASSUME OneSaves PROVE ~Taken(conns, x.id, x.rec.short)'
        <5>1. ~Taken(conns, x.id, x.rec.short)
          BY <3>2, <4>1 DEF SaveAim
        <5>2. \A j \in LibIds : x.rec.short # Blank /\ j # x.id /\ (conns[j] # NoConn \/ inline[j] # NoConn) =>
                x.rec.short \notin {conns[j].short, inline[j].short}
          BY <5>1 DEF Taken, Ids
        <5>3. \A j \in LibIds : x.rec.short # Blank /\ j # x.id /\ (conns'[j] # NoConn \/ inline'[j] # NoConn) =>
                x.rec.short \notin {conns'[j].short, inline'[j].short}
          BY <1>3, <5>2, RecordNames
        <5> QED
          BY <5>3 DEF Taken, Ids
      <4> QED
        BY <3>2, <4>1, CaseStays DEF SaveAim
    <3>3. ASSUME Deleting(x), DeleteAim(x) PROVE DeleteAim(x)'
      BY <1>3, <1>6, <3>3, CaseStays DEF DeleteAim
    <3>4. CallOk(x)'
      BY <3>1, <3>2, <3>3 DEF CallOk, Saving, Deleting
    <3> QED
      BY <3>4
  <2> QED
    BY <2>1, <2>2
<1>8. ASSUME NEW d \in LibCallers, NEW e \in LibCallers, d # e PROVE Together(libCalls[d], libCalls[e])'
  <2>1. Together(libCalls[d], libCalls[e])
    BY <1>8 DEF LibInv
  <2>2. Together(libCalls'[d], libCalls'[e])
    BY <1>4, <1>8, <2>1 DEF Together
  <2> QED
    BY <2>2, CaseStays DEF Together, Saving
<1>9. ASSUME NEW x \in attached', Orphan(x)' PROVE \E d \in LibCallers : Covers(libCalls[d], x)'
  <2>1. x \in attached /\ x.conn \in LibIds
    BY <1>1 DEF LibShape
  <2>2. \E d \in LibCallers : Covers(libCalls'[d], x)
    <3>1. CASE conns[x.conn] = NoConn
      <4>1. Orphan(x)
        BY <1>9, <3>1, CaseStays DEF Orphan
      <4> PICK d \in LibCallers : Covers(libCalls[d], x)
        BY <2>1, <4>1 DEF LibInv
      <4> QED
        BY <1>4, <2>1 DEF GoesOn
    <3>2. CASE conns[x.conn] # NoConn
      <4>1. x.conn = i /\ conns'[i] = NoConn
        BY <1>3, <1>9, <2>1, <3>2 DEF Orphan
      <4> QED
        BY <1>4, <3>2, <4>1
    <3> QED
      BY <3>1, <3>2
  <2> QED
    BY <2>2, CaseStays DEF Covers, Misled
<1>10. ASSUME OneSaves PROVE ShortsApart'
  <2>1. ShortsApart
    BY <1>10 DEF LibInv
  <2> QED
    BY <1>3, <2>1 DEF ShortsApart, ShortsIn
<1> QED
  BY <1>5, <1>7, <1>8, <1>9, <1>10, CaseStays DEF LibInv

LEMMA FindKeeps == ASSUME LibInv, NEW c \in LibCallers, FindConn(c) PROVE LibInv'
<1>1. LibShape
  BY DEF LibInv
<1> PICK key \in libCase.keys, lib \in LoadConns : \E id \in IF GetConn(lib, key) # {} THEN GetConn(lib, key) ELSE {key} :
           Go(c, [NoCall EXCEPT !.op = "delete", !.step = "pick", !.id = id, !.row = key])
  BY DEF FindConn
<1>2. Starts(c, "delete") /\ libCase' = libCase /\ conns' = conns /\ inline' = inline /\ attached' = attached
  BY DEF FindConn
<1> PICK id \in IF GetConn(lib, key) # {} THEN GetConn(lib, key) ELSE {key} :
           Go(c, [NoCall EXCEPT !.op = "delete", !.step = "pick", !.id = id, !.row = key])
  OBVIOUS
<1> PICK new : new = [NoCall EXCEPT !.op = "delete", !.step = "pick", !.id = id, !.row = key]
  OBVIOUS
<1>3. new.op = "delete" /\ new.id = id /\ new.row = key /\ IsLibCall(new) /\ Go(c, new) /\ new.step = "pick"
  <2>1. IsLibCall(NoCall)
    BY DEF NoCall, IsLibCall, LibFields
  <2> QED
    BY <2>1 DEF IsLibCall, LibFields
<1>4. ASSUME ~Strays PROVE id = key /\ key \in LibIds
  <2>1. lib = conns /\ key \in LibIds
    BY <1>4 DEF Strays, LoadConns
  <2>2. \A i \in LibIds : conns[i] # NoConn => conns[i].name # key /\ conns[i].short # key
    BY <1>1, <2>1, RecordNames DEF LibShape
  <2> QED
    BY <2>1, <2>2 DEF GetConn, Ids
<1>5. CallOk(new)
  BY <1>3, <1>4 DEF CallOk, DeleteAim, Saving
<1>6. \A d \in LibCallers \ {c} : Together(new, libCalls[d]) /\ Together(libCalls[d], new)
  BY <1>3 DEF Together, Saving
<1>7. GoesOn(libCalls[c], new)
  BY <1>2, NewGoesOn DEF Starts
<1> QED
  BY <1>2, <1>3, <1>5, <1>6, <1>7, LibCallOnly

LEMMA PickKeeps == ASSUME LibInv, NEW c \in LibCallers, PickRow(c) PROVE LibInv'
<1>1. LibShape /\ libCalls[c].op = "delete" /\ libCalls[c].step = "pick" /\ IsLibCall(libCalls[c])
  BY DEF LibInv, LibShape, PickRow, AtStep
<1>2. libCase' = libCase /\ conns' = conns /\ inline' = inline /\ attached' = attached
  BY DEF PickRow
<1> PICK id, key : id = libCalls[c].id /\ key = libCalls[c].row
  OBVIOUS
<1>3. Strays \/ (key = id /\ id \in LibIds)
  BY <1>1 DEF LibInv, CallOk, Deleting, DeleteAim
<1> PICK lib \in LoadConns :
         LET found == AnyConn(lib, libCalls[c].row)
         IN  IF found = {} THEN Go(c, [libCalls[c] EXCEPT !.step = "chats", !.row = Blank])
             ELSE \E i \in found : Go(c, [libCalls[c] EXCEPT !.step = "remove", !.row = i])
  BY DEF PickRow
<1>4. ASSUME ~Strays
      PROVE  AnyConn(lib, key) \subseteq {id} /\ (AnyConn(lib, key) = {} => conns[id] = NoConn)
  <2>1. lib = conns /\ key = id /\ id \in LibIds
    BY <1>3, <1>4 DEF Strays, LoadConns
  <2>2. \A i \in LibIds : conns[i] # NoConn => conns[i].name # key /\ conns[i].short # key
    BY <1>1, <2>1, RecordNames DEF LibShape
  <2> QED
    BY <2>1, <2>2 DEF AnyConn, Ids
<1>5. AnyConn(lib, key) \subseteq LibIds
  BY DEF AnyConn, Ids
<1>6. \E new : /\ Go(c, new) /\ IsLibCall(new) /\ new.op = "delete" /\ new.id = id
               /\ \/ new.step = "chats" /\ new.row = Blank /\ (Strays \/ conns[id] = NoConn)
                  \/ new.step = "remove" /\ new.row \in LibIds /\ (Strays \/ new.row = id)
  <2>1. CASE AnyConn(lib, key) = {}
    <3>1. Go(c, [libCalls[c] EXCEPT !.step = "chats", !.row = Blank])
      BY <2>1
    <3> PICK new : new = [libCalls[c] EXCEPT !.step = "chats", !.row = Blank]
      OBVIOUS
    <3>2. Go(c, new) /\ IsLibCall(new) /\ new.op = "delete" /\ new.id = id /\ new.step = "chats" /\ new.row = Blank
      BY <1>1, <3>1 DEF IsLibCall, LibFields
    <3> QED
      BY <1>4, <2>1, <3>2
  <2>2. CASE AnyConn(lib, key) # {}
    <3> PICK i \in AnyConn(lib, key) : Go(c, [libCalls[c] EXCEPT !.step = "remove", !.row = i])
      BY <2>2
    <3> PICK new : new = [libCalls[c] EXCEPT !.step = "remove", !.row = i]
      OBVIOUS
    <3>1. Go(c, new) /\ IsLibCall(new) /\ new.op = "delete" /\ new.id = id /\ new.step = "remove" /\ new.row = i
      BY <1>1 DEF IsLibCall, LibFields
    <3> QED
      BY <1>4, <1>5, <3>1
  <2> QED
    BY <2>1, <2>2
<1> PICK new : /\ Go(c, new) /\ IsLibCall(new) /\ new.op = "delete" /\ new.id = id
               /\ \/ new.step = "chats" /\ new.row = Blank /\ (Strays \/ conns[id] = NoConn)
                  \/ new.step = "remove" /\ new.row \in LibIds /\ (Strays \/ new.row = id)
  BY <1>6
<1>7. CallOk(new)
  BY RecordNames DEF CallOk, Saving, DeleteAim
<1>8. \A d \in LibCallers \ {c} : Together(new, libCalls[d]) /\ Together(libCalls[d], new)
  BY DEF Together, Saving
<1>9. GoesOn(libCalls[c], new)
  BY <1>1 DEF GoesOn, Covers, Misled, StoredBy
<1> QED
  BY <1>2, <1>7, <1>8, <1>9, LibCallOnly

LEMMA RemoveKeeps == ASSUME LibInv, NEW c \in LibCallers, RemoveRow(c) PROVE LibInv'
<1>1. LibShape /\ libCalls[c].op = "delete" /\ libCalls[c].step = "remove" /\ IsLibCall(libCalls[c])
  BY DEF LibInv, LibShape, RemoveRow, AtStep
<1>2. libCase' = libCase /\ inline' = inline /\ attached' = attached
  BY DEF RemoveRow
<1> PICK id, row : id = libCalls[c].id /\ row = libCalls[c].row
  OBVIOUS
<1>3. row \in LibIds /\ (Strays \/ row = id)
  BY <1>1 DEF LibInv, CallOk, Deleting, DeleteAim
<1>4. CASE conns' = [conns EXCEPT ![libCalls[c].row] = NoConn] /\ ToStep(c, "chats")
  <2> PICK new : new = [libCalls[c] EXCEPT !.step = "chats"]
    OBVIOUS
  <2>1. Go(c, new) /\ IsLibCall(new) /\ new.op = "delete" /\ new.id = id /\ new.row = row /\ new.step = "chats"
    BY <1>1, <1>4 DEF IsLibCall, LibFields, ToStep
  <2>2. conns' = [conns EXCEPT ![row] = NoConn] /\ conns'[row] = NoConn
    BY <1>1, <1>3, <1>4 DEF LibShape
  <2>3. GoesOn(libCalls[c], new) /\ ~Saving(new)
    BY <1>1, <2>1 DEF GoesOn, Covers, Misled, StoredBy, Saving
  <2>4. \A x : x.conn = row => Covers(new, x)
    BY <1>3, <2>1 DEF Covers, Misled
  <2>5. (new.id = row => conns'[row] = NoConn) /\ (new.id # row => Strays /\ new.row # new.id)
    BY <1>3, <2>1, <2>2
  <2> QED
    BY <1>2, <1>3, <2>1, <2>2, <2>3, <2>4, <2>5, RemovedKeeps
<1>5. CASE conns' = conns /\ Finish(c, "error")
  <2> PICK new : new = [libCalls[c] EXCEPT !.step = "done", !.result = "error"]
    OBVIOUS
  <2>1. Go(c, new) /\ IsLibCall(new) /\ new.step = "done" /\ new.op = "delete" /\ new.id = id /\ new.row = row
    BY <1>1, <1>5 DEF IsLibCall, LibFields, Finish
  <2>2. GoesOn(libCalls[c], new)
    BY <1>1, <2>1 DEF GoesOn, Covers, Misled, StoredBy
  <2> QED
    BY <1>2, <1>5, <2>1, <2>2, LibAside
<1> QED
  BY <1>4, <1>5 DEF RemoveRow

LEMMA MemDeleteKeeps == ASSUME LibInv, NEW c \in LibCallers, MemDelete(c) PROVE LibInv'
<1>1. LibShape /\ libCalls[c].step = "new" /\ IsLibCall(NoCall)
  BY DEF LibInv, MemDelete, Starts, IsLibCall, NoCall, LibFields
<1>2. libCase' = libCase /\ conns' = conns /\ attached' = attached
  BY DEF MemDelete
<1>3. \A new : GoesOn(libCalls[c], new)
  BY <1>1, NewGoesOn
<1> PICK key \in libCase.keys :
      \/ /\ Go(c, [NoCall EXCEPT !.op = "delete", !.step = "done", !.result = "error"])
         /\ UNCHANGED inline
      \/ \E i \in AnyConn(inline, key) :
                /\ inline' = [inline EXCEPT ![i] = NoConn]
                /\ Go(c, [NoCall EXCEPT !.op = "delete", !.step = "reset", !.row = i])
  BY DEF MemDelete
<1>4. CASE Go(c, [NoCall EXCEPT !.op = "delete", !.step = "done", !.result = "error"]) /\ UNCHANGED inline
  <2> PICK new : new = [NoCall EXCEPT !.op = "delete", !.step = "done", !.result = "error"]
    OBVIOUS
  <2>1. Go(c, new) /\ IsLibCall(new) /\ new.step = "done"
    BY <1>1, <1>4 DEF IsLibCall, LibFields
  <2> QED
    BY <1>2, <1>3, <1>4, <2>1, LibAside
<1>5. ASSUME NEW i \in AnyConn(inline, key), inline' = [inline EXCEPT ![i] = NoConn],
             Go(c, [NoCall EXCEPT !.op = "delete", !.step = "reset", !.row = i])
      PROVE  LibInv'
  <2> PICK new : new = [NoCall EXCEPT !.op = "delete", !.step = "reset", !.row = i]
    OBVIOUS
  <2>1. Go(c, new) /\ IsLibCall(new) /\ new.step = "reset" /\ new.op = "delete"
    BY <1>1, <1>5 DEF IsLibCall, LibFields
  <2>2. ~Saving(new) /\ ~Deleting(new)
    BY <2>1 DEF Saving, Deleting
  <2>3. i \in LibIds
    BY DEF AnyConn, Ids
  <2> QED
    BY <1>2, <1>3, <1>5, <2>1, <2>2, <2>3, RemovedKeeps
<1> QED
  BY <1>4, <1>5

LEMMA SaveConnKeeps == ASSUME LibInv, NEW c \in LibCallers, SaveConn(c) PROVE LibInv'
<1>1. LibShape /\ libCalls[c].op = "save" /\ libCalls[c].step = "write" /\ IsLibCall(libCalls[c])
  BY DEF LibInv, LibShape, SaveConn, AtStep
<1>2. libCase' = libCase /\ attached' = attached
  BY DEF SaveConn
<1>3. CASE ToStep(c, "reset")
  <2> PICK new : new = [libCalls[c] EXCEPT !.step = "reset"]
    OBVIOUS
  <2>1. Go(c, new) /\ IsLibCall(new) /\ new.op = "save" /\ new.step = "reset" /\ new.id = libCalls[c].id
    BY <1>1, <1>3 DEF IsLibCall, LibFields, ToStep
  <2>2. ~Finish(c, "error")
    <3>1. [libCalls[c] EXCEPT !.step = "done", !.result = "error"].step = "done"
      BY <1>1 DEF IsLibCall, LibFields
    <3>2. libCalls'[c].step = "reset"
      BY <1>1, <2>1, LibCallMoves
    <3> QED
      BY <1>1, <3>1, <3>2 DEF Finish, Go, LibShape
  <2>3. \/ conns' = [conns EXCEPT ![libCalls[c].id] = libCalls[c].rec] /\ inline' = inline
        \/ inline' = [inline EXCEPT ![libCalls[c].id] = libCalls[c].rec] /\ conns' = conns
    BY <2>2 DEF SaveConn
  <2> QED
    BY <1>1, <1>2, <2>1, <2>3, StoredKeeps DEF Saving
<1>4. CASE conns' = conns /\ inline' = inline /\ Finish(c, "error")
  <2> PICK new : new = [libCalls[c] EXCEPT !.step = "done", !.result = "error"]
    OBVIOUS
  <2>1. Go(c, new) /\ IsLibCall(new) /\ new.step = "done"
    BY <1>1, <1>4 DEF IsLibCall, LibFields, Finish
  <2>2. GoesOn(libCalls[c], new)
    BY <1>1 DEF GoesOn, Covers, Misled, StoredBy
  <2> QED
    BY <1>2, <1>4, <2>1, <2>2, LibAside
<1> QED
  BY <1>3, <1>4 DEF SaveConn

LEMMA CascadeKeeps == ASSUME LibInv, NEW c \in LibCallers, Cascade(c) PROVE LibInv'
<1>1. LibShape /\ IsLibCall(libCalls[c]) /\ libCalls[c].op = "delete"
  BY DEF LibInv, LibShape, Cascade, AtStep
<1>2. libCase' = libCase /\ conns' = conns /\ inline' = inline
  BY DEF Cascade
<1> PICK k \in Kinds :
         /\ AtStep(c, "delete", IF k = "chat" THEN "chats" ELSE "tabs")
         /\ \/ attached' = attached \ OfKind(libCalls[c].id, k)
            \/ LibFault("cascade") /\ UNCHANGED attached
         /\ ToStep(c, IF k = "chat" THEN "tabs" ELSE "reset")
  BY DEF Cascade
<1> PICK id, row : id = libCalls[c].id /\ row = libCalls[c].row
  OBVIOUS
<1> PICK new : new = [libCalls[c] EXCEPT !.step = IF k = "chat" THEN "tabs" ELSE "reset"]
  OBVIOUS
<1>3. /\ Go(c, new) /\ IsLibCall(new) /\ new.op = "delete" /\ new.id = id /\ new.row = row
      /\ new.step = IF k = "chat" THEN "tabs" ELSE "reset"
  BY <1>1 DEF IsLibCall, LibFields, ToStep
<1>4. libCalls[c].step = (IF k = "chat" THEN "chats" ELSE "tabs") /\ Deleting(libCalls[c])
  BY DEF AtStep, Deleting
<1>5. CallOk(new)
  BY <1>3, <1>4 DEF LibInv, CallOk, DeleteAim, Saving, Deleting
<1>6. /\ libCalls'[c] = new /\ \A d \in LibCallers \ {c} : libCalls'[d] = libCalls[d]
      /\ libCalls' = [d \in LibCallers |-> libCalls'[d]] /\ \A d \in LibCallers : IsLibCall(libCalls'[d])
  BY <1>1, <1>3, LibCallMoves
<1>7. LibShape'
  BY <1>1, <1>2, <1>6 DEF LibShape
<1>8. (OneSaves => ShortsApart)'
  <2>1. ShortsApart => ShortsApart'
    BY <1>2 DEF ShortsApart, ShortsIn
  <2>2. OneSaves' = OneSaves
    BY <1>2, CaseStays
  <2> QED
    BY <2>1, <2>2 DEF LibInv
<1>9. \A i \in LibIds : StoredAgain(i) => StoredAgain(i)'
  <2>1. \A d \in LibCallers, i \in LibIds : StoredBy(libCalls[d], i) => StoredBy(libCalls'[d], i)
    BY <1>1, <1>6 DEF StoredBy
  <2> QED
    BY <2>1 DEF StoredAgain, StoredBy
<1>10. ASSUME NEW d \in LibCallers PROVE CallOk(libCalls[d])'
  <2> PICK x : x = libCalls'[d]
    OBVIOUS
  <2>1. CallOk(x)
    BY <1>5, <1>6 DEF LibInv
  <2>2. CallOk(x)'
    BY <1>2, <1>9, <2>1, AimStays
  <2> QED
    BY <2>2
<1>11. \A d, e \in LibCallers : d # e => Together(libCalls'[d], libCalls'[e])
  <2>1. ~Saving(new)
    BY <1>3 DEF Saving
  <2>2. \A y : Together(new, y) /\ Together(y, new)
    BY <2>1 DEF Together
  <2> QED
    BY <1>6, <2>2 DEF LibInv
<1>12. \A d, e \in LibCallers : d # e => Together(libCalls[d], libCalls[e])'
  BY <1>2, <1>11, CaseStays DEF Together, Saving
<1>13. ASSUME NEW x \in attached', Orphan(x)' PROVE \E d \in LibCallers : Covers(libCalls[d], x)'
  <2>1. x \in attached /\ Orphan(x) /\ x.kind \in Kinds
    BY <1>1, <1>2, <1>13, CaseStays DEF Orphan, LibShape
  <2> PICK d \in LibCallers : Covers(libCalls[d], x)
    BY <2>1 DEF LibInv
  <2>2. Covers(libCalls'[d], x)
    <3>1. CASE d # c
      BY <1>6, <3>1
    <3>2. CASE d = c /\ Misled(libCalls[c], x.conn)
      BY <1>3, <1>4, <1>6, <3>2 DEF Covers, Misled
    <3>3. CASE d = c /\ ~Misled(libCalls[c], x.conn)
      <4>1. attached' = attached \ OfKind(id, k) /\ x.conn = id
        BY <2>1, <3>3 DEF Orphan, Covers
      <4>2. x.kind # k
        BY <1>13, <2>1, <4>1 DEF OfKind
      <4>3. k = "chat"
        BY <1>4, <2>1, <3>3, <4>2 DEF Covers, Kinds
      <4> QED
        BY <1>3, <1>6, <3>3, <4>1, <4>2, <4>3 DEF Covers
    <3> QED
      BY <3>1, <3>2, <3>3
  <2> QED
    BY <1>2, <2>2, CaseStays DEF Covers, Misled
<1> QED
  BY <1>7, <1>8, <1>10, <1>12, <1>13 DEF LibInv

LEMMA LibStep == LibInv /\ [LibNext]_libVars => LibInv'
<1> SUFFICES ASSUME LibInv, [LibNext]_libVars PROVE LibInv'
  OBVIOUS
<1>1. ASSUME libCase' = libCase, conns' = conns, inline' = inline, libCalls' = libCalls,
             attached' = attached \/ \E id \in LibIds, k \in Kinds : Attach(id, k)
      PROVE  LibInv'
  <2>1. LibShape'
    <3>1. attached' \subseteq [conn : LibIds, kind : Kinds]
      <4>1. \A id \in LibIds, k \in Kinds : [conn |-> id, kind |-> k] \in [conn : LibIds, kind : Kinds]
        OBVIOUS
      <4> QED
        BY <1>1, <4>1 DEF LibInv, LibShape, Attach
    <3> QED
      BY <1>1, <3>1 DEF LibInv, LibShape
  <2>2. (OneSaves => ShortsApart)'
    <3>1. ShortsApart => ShortsApart'
      BY <1>1 DEF ShortsApart, ShortsIn
    <3>2. OneSaves' = OneSaves
      BY <1>1, CaseStays
    <3> QED
      BY <3>1, <3>2 DEF LibInv
  <2>3. ASSUME NEW d \in LibCallers PROVE CallOk(libCalls[d])'
    <3>1. \A i \in LibIds : StoredAgain(i) => StoredAgain(i)'
      BY <1>1 DEF StoredAgain, StoredBy
    <3> PICK x : x = libCalls'[d]
      OBVIOUS
    <3>2. CallOk(x)
      BY <1>1 DEF LibInv
    <3>3. CallOk(x)'
      BY <1>1, <3>1, <3>2, AimStays
    <3> QED
      BY <3>3
  <2>4. \A d, e \in LibCallers : d # e => Together(libCalls[d], libCalls[e])'
    BY <1>1, CaseStays DEF LibInv, Together, Saving
  <2>5. ASSUME NEW x \in attached', Orphan(x)' PROVE \E d \in LibCallers : Covers(libCalls[d], x)'
    <3>1. Orphan(x)
      BY <1>1, <2>5, CaseStays DEF Orphan
    <3>2. x \in attached
      <4> SUFFICES ASSUME x \notin attached PROVE FALSE
        OBVIOUS
      <4> PICK id \in LibIds, k \in Kinds : Attach(id, k)
        BY <1>1, <2>5
      <4>1. x = [conn |-> id, kind |-> k] /\ conns[id] # NoConn
        BY <2>5 DEF Attach, Ids
      <4> QED
        BY <3>1, <4>1 DEF Orphan
    <3> QED
      BY <1>1, <3>1, <3>2, CaseStays DEF LibInv, Covers, Misled
  <2> QED
    BY <2>1, <2>2, <2>3, <2>4, <2>5 DEF LibInv
<1>2. ASSUME NEW c \in LibCallers,
         \/ CheckSave(c) \/ SaveConn(c) \/ Invalidate(c)
         \/ FindConn(c) \/ PickRow(c) \/ RemoveRow(c) \/ Cascade(c) \/ MemDelete(c)
         \/ ResolveConn(c) \/ Forget(c) \/ Lookup(c) \/ Query(c) \/ Fill(c)
      PROVE  LibInv'
  BY <1>2, CheckSaveKeeps, SaveConnKeeps, ListsKeep, FindKeeps, PickKeeps, RemoveKeeps, CascadeKeeps, MemDeleteKeeps
<1>3. ASSUME NEW id \in LibIds, NEW k \in Kinds, Attach(id, k) PROVE LibInv'
  BY <1>1, <1>3 DEF Attach
<1>4. ASSUME NEW s \in Servers, Alter(s) \/ Expire(s) PROVE LibInv'
  BY <1>1, <1>4 DEF Alter, Expire
<1>5. CASE UNCHANGED libVars
  BY <1>1, <1>5 DEF libVars
<1> QED
  BY <1>2, <1>3, <1>4, <1>5 DEF LibNext

LEMMA LibStart == LibInit => LibInv
<1> SUFFICES ASSUME LibInit PROVE LibInv
  OBVIOUS
<1>1. libCase \in LibCases /\ attached = {}
  BY DEF LibInit
<1>2. conns  = [i \in LibIds |-> IF i \in DOMAIN libCase.stored THEN libCase.stored[i] ELSE NoConn]
      /\ inline = [i \in LibIds |-> IF i \in DOMAIN libCase.inline THEN libCase.inline[i] ELSE NoConn]
  BY DEF LibInit
<1>3. /\ \A i \in DOMAIN libCase.stored : libCase.stored[i] \in Records
      /\ \A i \in DOMAIN libCase.inline : libCase.inline[i] \in Records
  BY <1>1, LibCasesAssumption
<1>4. \A c \in LibCallers : libCalls[c] = NoCall
  BY DEF LibInit
<1>5. NoCall.op = "none" /\ NoCall.step = "new" /\ IsLibCall(NoCall)
  BY DEF NoCall, IsLibCall, LibFields
<1>6. LibShape
  <2>1. libCalls = [c \in LibCallers |-> libCalls[c]]
    BY DEF LibInit
  <2>2. conns \in [LibIds -> Records \cup {NoConn}] /\ inline \in [LibIds -> Records \cup {NoConn}]
    BY <1>2, <1>3
  <2> QED
    BY <1>1, <1>4, <1>5, <2>1, <2>2 DEF LibShape
<1>7. OneSaves => ShortsApart
  BY <1>2 DEF OneSaves, ShortsBegin, ShortsApart, ShortsIn, FromStart
<1>8. \A c \in LibCallers : ~Saving(libCalls[c]) /\ ~Deleting(libCalls[c])
  BY <1>4, <1>5 DEF Saving, Deleting
<1> QED
  BY <1>1, <1>6, <1>7, <1>8 DEF LibInv, CallOk, Together

(* A chat or a tab disappears only when its connection has, or an edit has     *)
(* stored it again, however savings, deletions and browsers interleave and    *)
(* whatever fails; but for a deletion whose two lookups find different rows     *)
(* (DeleteConnection), which the statement names.                            *)
THEOREM ChatsGoWithConnection == LibSpec => KeptWithConnection
<1>1. LibInv /\ [LibNext]_libVars => [\A x \in attached \ attached' : MayGo(x)]_libVars
  <2> SUFFICES ASSUME LibInv, [LibNext]_libVars, NEW x \in attached \ attached' PROVE MayGo(x)
    BY DEF libVars
  <2>1. PICK c \in LibCallers : Cascade(c)
    BY DEF LibNext, CheckSave, SaveConn, Invalidate, FindConn, PickRow, RemoveRow, MemDelete, ResolveConn, Forget,
       Lookup, Query, Fill, Attach, Alter, Expire, libVars
  <2>2. /\ x.conn = libCalls[c].id /\ Deleting(libCalls[c]) /\ libCalls[c].op = "delete"
        /\ libCalls[c].step \in {"chats", "tabs"}
    BY <2>1 DEF Cascade, OfKind, AtStep, Deleting
  <2>3. x.conn \in LibIds
    BY DEF LibInv, LibShape
  <2>4. conns[x.conn] = NoConn \/ StoredAgain(x.conn) \/ (Strays /\ libCalls[c].row # x.conn)
    BY <2>2, <2>3 DEF LibInv, CallOk, DeleteAim
  <2> QED
    BY <2>2, <2>4 DEF MayGo
<1> QED
  BY <1>1, LibStart, LibStep, PTL DEF LibSpec, KeptWithConnection

(* The library stays in order under overlapping calls: nothing hangs on a      *)
(* connection that is gone, and a short name leads to one connection           *)
(* (AddConnection, DeleteConnection).                                        *)
THEOREM LibraryStaysInOrder == LibSpec /\ ShortsBegin => []LibraryOrdered
<1>1. LibInv /\ ShortsBegin => LibraryOrdered
  <2> SUFFICES ASSUME LibInv, ShortsBegin PROVE NothingOrphaned /\ ShortsUnique
    BY DEF LibraryOrdered
  <2>1. NothingOrphaned
    <3> SUFFICES ASSUME ~LibFault("cascade"), \A c \in LibCallers : libCalls[c].step \in {"new", "done"},
                        NEW x \in attached, conns[x.conn] = NoConn
                 PROVE  Strays /\ \E c \in LibCallers :
                          libCalls[c].op = "delete" /\ libCalls[c].row = x.conn /\ libCalls[c].id # x.conn
      BY DEF NothingOrphaned
    <3> QED
      BY DEF LibInv, Orphan, Covers, Misled
  <2>2. ShortsUnique
    BY DEF LibInv, OneSaves, ShortsUnique, ShortsApart, ShortsIn
  <2> QED
    BY <2>1, <2>2
<1>2. ShortsBegin /\ [LibNext]_libVars => ShortsBegin'
  <2> SUFFICES ASSUME [LibNext]_libVars PROVE libCase' = libCase
    BY DEF ShortsBegin, ShortsIn, FromStart
  <2> QED
    BY DEF LibNext, CheckSave, SaveConn, Invalidate, FindConn, PickRow, RemoveRow, Cascade, MemDelete, ResolveConn,
       Forget, Lookup, Query, Fill, Attach, Alter, Expire, libVars
<1> QED
  BY <1>1, <1>2, LibStart, LibStep, PTL DEF LibSpec

-----------------------------------------------------------------------------
(* The metadata cache.                                                      *)

(* All connections of one server are configured for the same database: the   *)
(* cache's key has the server only.                                         *)
AllRecords == libCase.requests \cup UNION {{f[i] : i \in DOMAIN f} : f \in {libCase.stored, libCase.inline, libCase.provider}}
OneDatabase == \A r, q \in AllRecords : r.server = q.server => r.only = q.only

Asking(x) == x.op = "list" /\ x.step \notin {"new", "done"}
ListOf(l, r) == l.server = r.server /\ l.only = r.only /\ l.seen \in Nat
ListAim(x) == x.op = "list" =>
    /\ x.step # "new" /\ (x.step # "done" => x.result = "none")
    /\ x.step # "done" \/ x.result = "ok" =>
         x.rec \in AllRecords /\ x.since \in Nat /\ x.since <= schema[x.rec.server]
    /\ x.step = "fill" \/ x.result = "ok" =>
         ListOf(x.list, x.rec) /\ (x.force /\ NeverOverlap("list") => x.list.seen >= x.since)
    /\ x.step \in {"lookup", "query"} /\ x.force /\ NeverOverlap("list") => metaCached[x.rec.server] = NoList
SaveRec(x) == x.op = "save" => x.rec \in AllRecords
CachedOk(cached) == \A s \in Servers : cached[s] = NoList \/ \E r \in AllRecords : r.server = s /\ ListOf(cached[s], r)

CacheShape ==
    /\ libCase \in LibCases
    /\ conns \in [LibIds -> AllRecords \cup {NoConn}] /\ inline \in [LibIds -> AllRecords \cup {NoConn}]
    /\ schema \in [Servers -> Nat]
    /\ metaCached = [s \in Servers |-> metaCached[s]]
    /\ libCalls = [c \in LibCallers |-> libCalls[c]] /\ \A c \in LibCallers : IsLibCall(libCalls[c])
CacheInv ==
    /\ CacheShape /\ OneDatabase /\ CachedOk(metaCached)
    /\ \A c \in LibCallers : ListAim(libCalls[c]) /\ SaveRec(libCalls[c])
    /\ \A c, d \in LibCallers : c # d /\ Asking(libCalls[c]) /\ Asking(libCalls[d]) => ~NeverOverlap("list")

LEMMA AllAreRecords == ASSUME libCase \in LibCases PROVE \A r \in AllRecords : r \in Records /\ r.server \in Servers
BY LibCasesAssumption DEF AllRecords, Records

(* One call moves on; what it does to the connections and the cache.          *)
LEMMA CacheMoves ==
    ASSUME CacheInv, NEW c \in LibCallers, NEW new, IsLibCall(new), Go(c, new),
           libCase' = libCase, schema' = schema,
           conns' \in [LibIds -> AllRecords \cup {NoConn}], inline' \in [LibIds -> AllRecords \cup {NoConn}],
           metaCached' = [s \in Servers |-> metaCached'[s]], CachedOk(metaCached'),
           (\A s \in Servers : metaCached'[s] \in {metaCached[s], NoList}) \/ Asking(libCalls[c]),
           ListAim(new)', SaveRec(new), Asking(new) => Asking(libCalls[c]) \/ Starts(c, "list")
    PROVE  CacheInv'
<1>1. libCalls = [d \in LibCallers |-> libCalls[d]] /\ \A d \in LibCallers : IsLibCall(libCalls[d])
  BY DEF CacheInv, CacheShape
<1>2. libCalls' = [libCalls EXCEPT ![c] = new]
  BY DEF Go
<1>3. /\ libCalls'[c] = new /\ \A d \in LibCallers \ {c} : libCalls'[d] = libCalls[d]
      /\ libCalls' = [d \in LibCallers |-> libCalls'[d]] /\ \A d \in LibCallers : IsLibCall(libCalls'[d])
  BY <1>1, <1>2
<1>4. AllRecords' = AllRecords
  BY DEF AllRecords
<1>5. CacheShape'
  BY <1>3, <1>4 DEF CacheInv, CacheShape
<1>6. OneDatabase' /\ CachedOk(metaCached)'
  BY <1>4 DEF CacheInv, OneDatabase, CachedOk
<1>7. ASSUME NEW d \in LibCallers, NEW e \in LibCallers, d # e, Asking(libCalls'[d]), Asking(libCalls'[e])
      PROVE  ~NeverOverlap("list")
  <2>1. ASSUME NEW x \in LibCallers \ {c}, Asking(libCalls[x]), Asking(new) PROVE ~NeverOverlap("list")
    <3>1. CASE Asking(libCalls[c])
      BY <2>1, <3>1 DEF CacheInv
    <3>2. CASE Starts(c, "list")
      BY <2>1, <3>2 DEF Starts, Alone, NeverOverlap, Asking
    <3> QED
      BY <2>1, <3>1, <3>2
  <2>2. CASE d = c
    BY <1>3, <1>7, <2>1, <2>2
  <2>3. CASE e = c
    BY <1>3, <1>7, <2>1, <2>3
  <2>4. CASE d # c /\ e # c
    BY <1>3, <1>7, <2>4 DEF CacheInv
  <2> QED
    BY <2>2, <2>3, <2>4
<1>8. ASSUME NEW d \in LibCallers PROVE \A x : x = libCalls'[d] => ListAim(x)' /\ SaveRec(x)'
  <2>1. CASE d = c
    BY <1>3, <1>4, <2>1 DEF SaveRec
  <2>2. CASE d # c
    <3> PICK x : x = libCalls[d]
      OBVIOUS
    <3>1. ListAim(x) /\ SaveRec(x)
      BY DEF CacheInv
    <3>2. ASSUME x.op = "list", x.step \in {"lookup", "query"}, x.force, NeverOverlap("list")
          PROVE  metaCached'[x.rec.server] = NoList
      <4>1. Asking(x) /\ metaCached[x.rec.server] = NoList /\ x.rec.server \in Servers
        BY <3>1, <3>2, AllAreRecords DEF Asking, ListAim, CacheInv, CacheShape
      <4>2. ~Asking(libCalls[c])
        BY <2>2, <3>2, <4>1 DEF CacheInv
      <4> QED
        BY <4>1, <4>2
    <3>3. NeverOverlap("list")' => NeverOverlap("list")
      BY DEF NeverOverlap
    <3>4. ListAim(x)' /\ SaveRec(x)'
      BY <1>4, <3>1, <3>2, <3>3 DEF ListAim, SaveRec
    <3> QED
      BY <1>3, <2>2, <3>4
  <2> QED
    BY <2>1, <2>2
<1>9. \A d, e \in LibCallers : d # e /\ Asking(libCalls'[d]) /\ Asking(libCalls'[e]) => ~NeverOverlap("list")'
  BY <1>7 DEF NeverOverlap
<1> QED
  BY <1>5, <1>6, <1>8, <1>9 DEF CacheInv, Asking

(* Savings and deletions say nothing of lists.                               *)
LEMMA ChangesKeepCache ==
    ASSUME CacheInv, NEW c \in LibCallers,
           \/ CheckSave(c) \/ SaveConn(c) \/ Invalidate(c)
           \/ FindConn(c) \/ PickRow(c) \/ RemoveRow(c) \/ Cascade(c) \/ MemDelete(c)
    PROVE  CacheInv'
<1> DEFINE x == libCalls[c]
<1>1. IsLibCall(x) /\ IsLibCall(NoCall) /\ SaveRec(x)
  BY DEF CacheInv, CacheShape, IsLibCall, NoCall, LibFields
<1>2. libCase' = libCase /\ schema' = schema
  BY DEF CheckSave, SaveConn, Invalidate, FindConn, PickRow, RemoveRow, Cascade, MemDelete
<1>3. /\ metaCached' = [s \in Servers |-> metaCached'[s]] /\ CachedOk(metaCached')
      /\ \A s \in Servers : metaCached'[s] \in {metaCached[s], NoList}
  <2>1. metaCached' = metaCached \/ metaCached' = [s \in Servers |-> NoList]
    BY DEF CheckSave, SaveConn, Invalidate, ResetAll, FindConn, PickRow, RemoveRow, Cascade, MemDelete
  <2> QED
    BY <2>1 DEF CacheInv, CacheShape, CachedOk
<1>4. conns' \in [LibIds -> AllRecords \cup {NoConn}] /\ inline' \in [LibIds -> AllRecords \cup {NoConn}]
  <2>1. conns \in [LibIds -> AllRecords \cup {NoConn}] /\ inline \in [LibIds -> AllRecords \cup {NoConn}]
    BY DEF CacheInv, CacheShape
  <2>2. CASE conns' = conns /\ inline' = inline
    BY <2>1, <2>2
  <2>3. CASE SaveConn(c)
    <3>1. x.rec \in AllRecords
      BY <1>1, <2>3 DEF SaveConn, AtStep, SaveRec
    <3>2. /\ conns' = conns \/ conns' = [conns EXCEPT ![x.id] = x.rec]
          /\ inline' = inline \/ inline' = [inline EXCEPT ![x.id] = x.rec]
      BY <2>3 DEF SaveConn
    <3> QED
      BY <2>1, <3>1, <3>2
  <2>4. CASE RemoveRow(c)
    <3>1. inline' = inline /\ (conns' = conns \/ conns' = [conns EXCEPT ![x.row] = NoConn])
      BY <2>4 DEF RemoveRow
    <3> QED
      BY <2>1, <3>1
  <2>5. CASE MemDelete(c)
    <3>1. conns' = conns /\ (inline' = inline \/ \E i : inline' = [inline EXCEPT ![i] = NoConn])
      BY <2>5 DEF MemDelete
    <3> QED
      BY <2>1, <3>1
  <2> QED
    BY <2>2, <2>3, <2>4, <2>5 DEF CheckSave, Invalidate, FindConn, PickRow, Cascade
<1>5. \E new : IsLibCall(new) /\ Go(c, new) /\ new.op \in {"save", "delete"} /\ SaveRec(new)
  <2> DEFINE Ok(new) == IsLibCall(new) /\ new.op \in {"save", "delete"} /\ SaveRec(new)
  <2> SUFFICES \E new : Ok(new) /\ Go(c, new)
    OBVIOUS
  <2>1. CASE CheckSave(c)
    <3> PICK id \in {c} \cup (IF "edit" \in libCase.ops THEN SavedIds ELSE {}), r \in libCase.requests, lib \in LoadConns :
         Go(c, [NoCall EXCEPT !.op = "save", !.id = id, !.rec = r,
                  !.step = IF Taken(lib, id, r.short) THEN "done" ELSE "write",
                  !.result = IF Taken(lib, id, r.short) THEN "refused" ELSE "none"])
      BY <2>1 DEF CheckSave
    <3> PICK new : new = [NoCall EXCEPT !.op = "save", !.id = id, !.rec = r,
                  !.step = IF Taken(lib, id, r.short) THEN "done" ELSE "write",
                  !.result = IF Taken(lib, id, r.short) THEN "refused" ELSE "none"]
      OBVIOUS
    <3>1. IsLibCall(new) /\ new.op = "save" /\ new.rec = r
      BY <1>1 DEF IsLibCall, LibFields
    <3>2. Ok(new)
      BY <3>1 DEF SaveRec, AllRecords
    <3> QED
      BY <3>2
  <2>2. CASE SaveConn(c) \/ Invalidate(c) \/ PickRow(c) \/ RemoveRow(c) \/ Cascade(c)
    <3>1. x.op \in {"save", "delete"}
      BY <2>2 DEF SaveConn, Invalidate, PickRow, RemoveRow, Cascade, AtStep
    <3>2. ASSUME NEW s, NEW t PROVE Ok([x EXCEPT !.step = s, !.result = t]) /\ Ok([x EXCEPT !.step = s]) /\ Ok([x EXCEPT !.step = s, !.row = t])
      BY <1>1, <3>1 DEF IsLibCall, LibFields, SaveRec
    <3>3. \/ \E s, t : Go(c, [x EXCEPT !.step = s, !.result = t])
          \/ \E s : Go(c, [x EXCEPT !.step = s])
          \/ \E s, t : Go(c, [x EXCEPT !.step = s, !.row = t])
      <4>1. CASE SaveConn(c)
        BY <4>1 DEF SaveConn, ToStep, Finish
      <4>2. CASE Invalidate(c)
        BY <4>2 DEF Invalidate, Finish
      <4>3. CASE PickRow(c)
        BY <4>3, Zenon DEF PickRow
      <4>4. CASE RemoveRow(c)
        BY <4>4 DEF RemoveRow, ToStep, Finish
      <4>5. CASE Cascade(c)
        BY <4>5 DEF Cascade, ToStep
      <4> QED
        BY <2>2, <4>1, <4>2, <4>3, <4>4, <4>5
    <3> HIDE DEF x, Ok
    <3> QED
      BY <3>2, <3>3
  <2>3. CASE FindConn(c) \/ MemDelete(c)
    <3>1. ASSUME NEW s, NEW t, NEW u
          PROVE  /\ Ok([NoCall EXCEPT !.op = "delete", !.step = s, !.id = t, !.row = u])
                 /\ Ok([NoCall EXCEPT !.op = "delete", !.step = s, !.result = t])
                 /\ Ok([NoCall EXCEPT !.op = "delete", !.step = s, !.row = t])
      BY <1>1 DEF IsLibCall, LibFields, SaveRec
    <3>2. \/ \E s, t, u : Go(c, [NoCall EXCEPT !.op = "delete", !.step = s, !.id = t, !.row = u])
          \/ \E s, t : Go(c, [NoCall EXCEPT !.op = "delete", !.step = s, !.result = t])
          \/ \E s, t : Go(c, [NoCall EXCEPT !.op = "delete", !.step = s, !.row = t])
      BY <2>3, Zenon DEF FindConn, MemDelete
    <3> HIDE DEF Ok
    <3> QED
      BY <3>1, <3>2
  <2> QED
    BY <2>1, <2>2, <2>3
<1> PICK new : IsLibCall(new) /\ Go(c, new) /\ new.op \in {"save", "delete"} /\ SaveRec(new)
  BY <1>5
<1>6. ListAim(new)' /\ ~Asking(new)
  BY DEF ListAim, Asking
<1> QED
  BY <1>2, <1>3, <1>4, <1>6, CacheMoves

LEMMA ResolveKeeps == ASSUME CacheInv, NEW c \in LibCallers, ResolveConn(c) PROVE CacheInv'
<1>1. /\ libCase' = libCase /\ schema' = schema /\ conns' = conns /\ inline' = inline /\ metaCached' = metaCached
      /\ Starts(c, "list") /\ IsLibCall(NoCall)
  BY DEF ResolveConn, IsLibCall, NoCall, LibFields
<1>2. CacheShape /\ CachedOk(metaCached)
  BY DEF CacheInv
<1>6. PICK key \in libCase.keys, force \in BOOLEAN, lib \in LoadConns :
             \/ Go(c, [NoCall EXCEPT !.op = "list", !.step = "done", !.result = "error"])
             \/ \E r \in Resolved(lib, key) :
                  Go(c, [NoCall EXCEPT !.op = "list", !.rec = r, !.force = force,
                         !.since = schema[r.server], !.step = IF force THEN "forget" ELSE "lookup"])
  BY DEF ResolveConn
<1>3. ASSUME NEW new, IsLibCall(new), Go(c, new), new.op = "list", ListAim(new) PROVE CacheInv'
  <2>1. ListAim(new)' /\ SaveRec(new)
    BY <1>1, <1>3 DEF ListAim, SaveRec, AllRecords, NeverOverlap
  <2> QED
    BY <1>1, <1>2, <1>3, <2>1, CacheMoves DEF CacheShape
<1>4. CASE Go(c, [NoCall EXCEPT !.op = "list", !.step = "done", !.result = "error"])
  <2> PICK new : new = [NoCall EXCEPT !.op = "list", !.step = "done", !.result = "error"]
    OBVIOUS
  <2>1. IsLibCall(new) /\ Go(c, new) /\ new.op = "list" /\ new.step = "done" /\ new.result = "error"
    BY <1>1, <1>4 DEF IsLibCall, LibFields
  <2> QED
    BY <1>3, <2>1 DEF ListAim
<1>5. ASSUME NEW r \in Resolved(lib, key),
             Go(c, [NoCall EXCEPT !.op = "list", !.rec = r, !.force = force,
                         !.since = schema[r.server], !.step = IF force THEN "forget" ELSE "lookup"])
      PROVE  CacheInv'
  <2>6. PICK new : new = [NoCall EXCEPT !.op = "list", !.rec = r, !.force = force,
                         !.since = schema[r.server], !.step = IF force THEN "forget" ELSE "lookup"]
    OBVIOUS
  <2>1. NoCall.result = "none"
    BY DEF NoCall
  <2>2. /\ IsLibCall(new) /\ Go(c, new) /\ new.op = "list" /\ new.rec = r /\ new.since = schema[r.server]
        /\ new.result = "none" /\ new.force = force /\ new.step = IF force THEN "forget" ELSE "lookup"
    BY <1>1, <1>5, <2>1, <2>6 DEF IsLibCall, LibFields
  <2>3. r \in AllRecords
    <3>1. lib \in [LibIds -> AllRecords \cup {NoConn}]
      BY <1>2 DEF LoadConns, Empty, CacheShape
    <3>2. \A i \in AnyConn(inline, key) : inline[i] \in AllRecords
      BY <1>2 DEF AnyConn, Ids, CacheShape
    <3>3. \A i \in GetConn(lib, key) : lib[i] \in AllRecords
      BY <3>1 DEF GetConn, Ids
    <3>4. key \in DOMAIN libCase.provider => libCase.provider[key] \in AllRecords
      BY DEF AllRecords
    <3> QED
      BY <3>2, <3>3, <3>4 DEF Resolved
  <2>4. schema[r.server] \in Nat
    BY <1>2, <2>3, AllAreRecords DEF CacheShape
  <2>5. ListAim(new)
    <3>1. new.step \in {"forget", "lookup"} /\ (new.step = "lookup" => ~new.force)
      BY <2>2
    <3> PICK v \in Nat : v = schema[r.server]
      BY <2>4
    <3>2. new.rec \in AllRecords /\ new.since = v /\ schema[new.rec.server] = v
      BY <2>2, <2>3
    <3>3. v <= v
      OBVIOUS
    <3> QED
      BY <2>2, <3>1, <3>2, <3>3 DEF ListAim
  <2> QED
    BY <1>3, <2>2, <2>5
<1> QED
  BY <1>4, <1>5, <1>6

LEMMA AskingKeeps ==
    ASSUME CacheInv, NEW c \in LibCallers, Forget(c) \/ Lookup(c) \/ Query(c) \/ Fill(c)
    PROVE  CacheInv'
<1>1. /\ libCase' = libCase /\ schema' = schema /\ conns' = conns /\ inline' = inline
  BY DEF Forget, Lookup, Query, Fill
<1>2. CacheShape /\ CachedOk(metaCached) /\ ListAim(libCalls[c]) /\ IsLibCall(libCalls[c])
  BY DEF CacheInv, CacheShape
<1>3. libCalls[c].op = "list" /\ libCalls[c].step \notin {"new", "done"} /\ Asking(libCalls[c])
  BY DEF Forget, Lookup, Query, Fill, AtStep, Asking
<1> PICK x : x = libCalls[c]
  OBVIOUS
<1>4. /\ x.rec \in AllRecords /\ x.since \in Nat /\ x.since <= schema[x.rec.server] /\ x.result = "none"
      /\ x.rec.server \in Servers /\ schema[x.rec.server] \in Nat
  BY <1>2, <1>3, AllAreRecords DEF ListAim, CacheShape
<1>5. ASSUME NEW new, IsLibCall(new), Go(c, new), new.op = "list", ListAim(new)',
             metaCached' = [s \in Servers |-> metaCached'[s]], CachedOk(metaCached')
      PROVE  CacheInv'
  <2>1. SaveRec(new)
    BY <1>5 DEF SaveRec
  <2> QED
    BY <1>1, <1>2, <1>3, <1>5, <2>1, CacheMoves DEF CacheShape
<1>6. AllRecords' = AllRecords /\ (NeverOverlap("list")' => NeverOverlap("list"))
  BY <1>1 DEF AllRecords, NeverOverlap
<1>7. CASE Forget(c)
  <2> PICK new : new = [x EXCEPT !.step = "lookup"]
    OBVIOUS
  <2>1. /\ IsLibCall(new) /\ Go(c, new) /\ new.op = "list" /\ new.rec = x.rec /\ new.since = x.since
        /\ new.result = "none" /\ new.step = "lookup"
    BY <1>2, <1>3, <1>4, <1>7 DEF Forget, ToStep, IsLibCall, LibFields
  <2>2. metaCached' = [metaCached EXCEPT ![x.rec.server] = NoList]
    BY <1>7 DEF Forget
  <2>3. /\ metaCached' = [s \in Servers |-> metaCached'[s]] /\ CachedOk(metaCached') /\ metaCached'[x.rec.server] = NoList
    BY <1>2, <1>4, <2>2 DEF CacheShape, CachedOk
  <2>4. ListAim(new)'
    BY <1>1, <1>4, <1>6, <2>1, <2>3 DEF ListAim
  <2> QED
    BY <1>5, <2>1, <2>3, <2>4
<1>8. CASE Lookup(c)
  <2>1. metaCached' = metaCached /\ x.step = "lookup"
    BY <1>8 DEF Lookup, AtStep
  <2>2. metaCached' = [s \in Servers |-> metaCached'[s]] /\ CachedOk(metaCached')
    BY <1>2, <2>1 DEF CacheShape
  <2>3. CASE metaCached[x.rec.server] = NoList
    <3> PICK new : new = [x EXCEPT !.step = "query"]
      OBVIOUS
    <3>1. /\ IsLibCall(new) /\ Go(c, new) /\ new.op = "list" /\ new.rec = x.rec /\ new.since = x.since
          /\ new.result = "none" /\ new.step = "query"
      BY <1>2, <1>3, <1>4, <1>8, <2>3 DEF Lookup, ToStep, IsLibCall, LibFields
    <3>2. ListAim(new)'
      BY <1>1, <1>4, <1>6, <2>1, <2>3, <3>1 DEF ListAim
    <3> QED
      BY <1>5, <2>2, <3>1, <3>2
  <2>4. CASE metaCached[x.rec.server] # NoList
    <3> PICK hit : hit = metaCached[x.rec.server]
      OBVIOUS
    <3> PICK new : new = [x EXCEPT !.list = hit, !.step = "done", !.result = "ok"]
      OBVIOUS
    <3>1. /\ IsLibCall(new) /\ Go(c, new) /\ new.op = "list" /\ new.rec = x.rec /\ new.since = x.since
          /\ new.result = "ok" /\ new.step = "done" /\ new.list = hit /\ new.force = x.force
      BY <1>2, <1>3, <1>8, <2>4 DEF Lookup, IsLibCall, LibFields
    <3>2. ListOf(hit, x.rec)
      <4> PICK r \in AllRecords : r.server = x.rec.server /\ ListOf(hit, r)
        BY <1>2, <1>4, <2>4 DEF CachedOk
      <4> QED
        BY <1>4 DEF CacheInv, OneDatabase, ListOf
    <3>3. ~(x.force /\ NeverOverlap("list"))
      BY <1>2, <1>3, <2>1, <2>4 DEF ListAim
    <3>4. ListAim(new)'
      BY <1>1, <1>4, <1>6, <2>1, <3>1, <3>2, <3>3 DEF ListAim, ListOf
    <3> QED
      BY <1>5, <2>2, <3>1, <3>4
  <2> QED
    BY <2>3, <2>4
<1>9. CASE Query(c)
  <2>1. metaCached' = metaCached /\ x.step = "query"
    BY <1>9 DEF Query, AtStep
  <2>2. metaCached' = [s \in Servers |-> metaCached'[s]] /\ CachedOk(metaCached')
    BY <1>2, <2>1 DEF CacheShape
  <2>3. CASE Go(c, [x EXCEPT !.list = DatabaseList(x.rec), !.step = "fill"])
    <3> PICK l, v : l = DatabaseList(x.rec) /\ v = schema[x.rec.server]
      OBVIOUS
    <3>1. l.server = x.rec.server /\ l.only = x.rec.only /\ l.seen = v
      BY DEF DatabaseList
    <3> PICK new : new = [x EXCEPT !.list = l, !.step = "fill"]
      OBVIOUS
    <3>2. /\ IsLibCall(new) /\ Go(c, new) /\ new.op = "list" /\ new.rec = x.rec /\ new.since = x.since
          /\ new.result = "none" /\ new.step = "fill" /\ new.list = l
      BY <1>2, <1>3, <1>4, <2>3 DEF IsLibCall, LibFields
    <3>3. ListAim(new)'
      BY <1>1, <1>4, <1>6, <3>1, <3>2 DEF ListAim, ListOf
    <3> QED
      BY <1>5, <2>2, <3>2, <3>3
  <2>4. CASE Finish(c, "error")
    <3> PICK new : new = [x EXCEPT !.step = "done", !.result = "error"]
      OBVIOUS
    <3>1. IsLibCall(new) /\ Go(c, new) /\ new.op = "list" /\ new.result = "error" /\ new.step = "done"
      BY <1>2, <1>3, <2>4 DEF IsLibCall, LibFields, Finish
    <3>2. ListAim(new)'
      BY <3>1 DEF ListAim
    <3> QED
      BY <1>5, <2>2, <3>1, <3>2
  <2> QED
    BY <1>9, <2>3, <2>4 DEF Query
<1>10. CASE Fill(c)
  <2>1. x.step = "fill" /\ metaCached' = [metaCached EXCEPT ![x.rec.server] = x.list]
    BY <1>10 DEF Fill, AtStep
  <2>2. ListOf(x.list, x.rec) /\ (x.force /\ NeverOverlap("list") => x.list.seen >= x.since)
    BY <1>2, <1>3, <2>1 DEF ListAim
  <2>3. metaCached' = [s \in Servers |-> metaCached'[s]] /\ CachedOk(metaCached')
    BY <1>2, <1>4, <2>1, <2>2 DEF CacheShape, CachedOk
  <2> PICK new : new = [x EXCEPT !.step = "done", !.result = "ok"]
    OBVIOUS
  <2>4. /\ IsLibCall(new) /\ Go(c, new) /\ new.op = "list" /\ new.rec = x.rec /\ new.since = x.since
        /\ new.result = "ok" /\ new.step = "done" /\ new.list = x.list /\ new.force = x.force
    BY <1>2, <1>3, <1>10 DEF Fill, Finish, IsLibCall, LibFields
  <2>5. ListAim(new)'
    BY <1>1, <1>4, <1>6, <2>2, <2>4 DEF ListAim, ListOf
  <2> QED
    BY <1>5, <2>3, <2>4, <2>5
<1> QED
  BY <1>7, <1>8, <1>9, <1>10

(* The callers rest: a server's databases change, an entry expires.           *)
LEMMA ServersKeepCache ==
    ASSUME CacheInv, libCase' = libCase, conns' = conns, inline' = inline, libCalls' = libCalls,
           schema' \in [Servers -> Nat], \A s \in Servers : schema'[s] >= schema[s],
           metaCached' = [s \in Servers |-> metaCached'[s]], \A s \in Servers : metaCached'[s] \in {metaCached[s], NoList}
    PROVE  CacheInv'
<1>1. AllRecords' = AllRecords /\ (NeverOverlap("list")' <=> NeverOverlap("list"))
  BY DEF AllRecords, NeverOverlap
<1>2. CacheShape' /\ OneDatabase' /\ CachedOk(metaCached)'
  BY <1>1 DEF CacheInv, CacheShape, OneDatabase, CachedOk
<1>3. ASSUME NEW c \in LibCallers PROVE \A x : x = libCalls[c] => ListAim(x)' /\ SaveRec(x)'
  <2> PICK x : x = libCalls[c]
    OBVIOUS
  <2>1. ListAim(x) /\ SaveRec(x)
    BY DEF CacheInv
  <2>2. x.rec \in AllRecords => /\ schema[x.rec.server] \in Nat /\ schema'[x.rec.server] \in Nat
                                /\ schema'[x.rec.server] >= schema[x.rec.server]
                                /\ metaCached'[x.rec.server] \in {metaCached[x.rec.server], NoList}
    BY AllAreRecords DEF CacheInv, CacheShape
  <2>3. ListAim(x)'
    BY <1>1, <2>1, <2>2 DEF ListAim
  <2> QED
    BY <1>1, <2>1, <2>3 DEF SaveRec
<1>4. \A c, d \in LibCallers : c # d /\ Asking(libCalls[c])' /\ Asking(libCalls[d])' => ~NeverOverlap("list")'
  BY <1>1 DEF CacheInv, Asking
<1> QED
  BY <1>2, <1>3, <1>4 DEF CacheInv

LEMMA CacheStep == CacheInv /\ [LibNext]_libVars => CacheInv'
<1> SUFFICES ASSUME CacheInv, [LibNext]_libVars PROVE CacheInv'
  OBVIOUS
<1>1. schema \in [Servers -> Nat] /\ metaCached = [s \in Servers |-> metaCached[s]]
  BY DEF CacheInv, CacheShape
<1>2. ASSUME NEW c \in LibCallers,
         \/ CheckSave(c) \/ SaveConn(c) \/ Invalidate(c)
         \/ FindConn(c) \/ PickRow(c) \/ RemoveRow(c) \/ Cascade(c) \/ MemDelete(c)
         \/ ResolveConn(c) \/ Forget(c) \/ Lookup(c) \/ Query(c) \/ Fill(c)
      PROVE  CacheInv'
  BY <1>2, ChangesKeepCache, ResolveKeeps, AskingKeeps
<1>3. ASSUME NEW id \in LibIds, NEW k \in Kinds, Attach(id, k) PROVE CacheInv'
  BY <1>1, <1>3, ServersKeepCache DEF Attach
<1>4. ASSUME NEW s \in Servers, Alter(s) PROVE CacheInv'
  BY <1>1, <1>4, ServersKeepCache DEF Alter
<1>5. ASSUME NEW s \in Servers, Expire(s) PROVE CacheInv'
  BY <1>1, <1>5, ServersKeepCache DEF Expire
<1>6. CASE UNCHANGED libVars
  BY <1>1, <1>6, ServersKeepCache DEF libVars
<1> QED
  BY <1>2, <1>3, <1>4, <1>5, <1>6 DEF LibNext

LEMMA CacheStart == ASSUME LibInit, OneDatabase PROVE CacheInv
<1>1. /\ conns  = [i \in LibIds |-> IF i \in DOMAIN libCase.stored THEN libCase.stored[i] ELSE NoConn]
      /\ inline = [i \in LibIds |-> IF i \in DOMAIN libCase.inline THEN libCase.inline[i] ELSE NoConn]
      /\ schema = [s \in Servers |-> 0] /\ metaCached = [s \in Servers |-> NoList] /\ libCase \in LibCases
  BY DEF LibInit
<1>2. libCalls = [c \in LibCallers |-> NoCall] /\ NoCall.op = "none" /\ IsLibCall(NoCall)
  BY DEF LibInit, NoCall, IsLibCall, LibFields
<1>3. \A c \in LibCallers : libCalls[c] = NoCall /\ libCalls = [d \in LibCallers |-> libCalls[d]]
  BY <1>2
<1>4. CacheShape
  <2>1. /\ \A i \in DOMAIN libCase.stored : libCase.stored[i] \in AllRecords
        /\ \A i \in DOMAIN libCase.inline : libCase.inline[i] \in AllRecords
    BY DEF AllRecords
  <2>2. conns \in [LibIds -> AllRecords \cup {NoConn}] /\ inline \in [LibIds -> AllRecords \cup {NoConn}]
    BY <1>1, <2>1
  <2> QED
    BY <1>1, <1>2, <1>3, <2>2 DEF CacheShape
<1>5. CachedOk(metaCached)
  BY <1>1 DEF CachedOk
<1> QED
  BY <1>2, <1>3, <1>4, <1>5 DEF CacheInv, ListAim, SaveRec, Asking

(* A list of databases answers for the connection it was asked of, and a       *)
(* forced refresh with what the server has by then, whichever way calls,       *)
(* changes of connections and expiry interleave; as long as the connections    *)
(* of a server are configured for one database (cachedMeta, metaConnKey).     *)
THEOREM AnswersAreOwn == LibSpec /\ OneDatabase => []CacheFaithful
<1>1. CacheInv => CacheFaithful
  BY DEF CacheInv, CacheFaithful, RefreshIsFresh, AnswerIsOwn, ListAim, ListOf
<1> QED
  BY <1>1, CacheStart, CacheStep, PTL DEF LibSpec

-----------------------------------------------------------------------------
(* Commands: the options are at every step a function of the layers.          *)

Layered(c) == c.config \in Layer /\ c.byTask \in Layer /\ c.flags \in Layer
LayerName  == IF TakesTask THEN "task" ELSE "config"
Stored2    == OptsFrom(Below, LayerName)
WithFlags  == Flagged(Stored2, kindOf \in {"export", "migrate"}, kindOf \in Exports)
Overrides  == OverrideBy # "none" /\ WithFlags.ref # "none" /\ WithFlags.inline = "none"
InTheEnd   == IF Overrides
              THEN [WithFlags EXCEPT !.inline = WithFlags.ref, !.ref = "none", !.dbName = OverrideBy]
              ELSE WithFlags
FileZip    == IF config.out = "zip" /\ kindOf \in Exports THEN "config" ELSE "none"
FinalZip   == IF flags.out # "none" /\ kindOf \in Exports
              THEN (IF flags.out = "zip" THEN "flag" ELSE "none")
              ELSE FileZip

OptsInv ==
    /\ Layered(cmdCase)
    /\ cmdStep = "start" => opts = Defaults /\ wantZip = "none"
    /\ cmdStep = "task"  => opts = OptsFrom(config, "config") /\ wantZip = FileZip
    /\ cmdStep = "flags" => opts = Stored2 /\ wantZip = FileZip
    /\ cmdStep \in {"override", "run", "done"} => wantZip = FinalZip /\ (WithFlags.inline # "none" \/ WithFlags.ref # "none")
    /\ cmdStep = "override" => opts = WithFlags
    /\ cmdStep \in {"run", "done"} => opts = InTheEnd

LEMMA NothingIsDefault == ASSUME config = NotGiven PROVE OptsFrom(config, "config") = Defaults /\ FileZip = "none"
<1>1. config.conn = "none" /\ config.cond = FALSE /\ config.out = "none" /\ config.db = FALSE
  BY DEF NotGiven
<1> QED
  BY <1>1 DEF OptsFrom, Defaults, FileZip

LEMMA OptsStep == OptsInv /\ [TaskNext]_taskVars => OptsInv'
<1> SUFFICES ASSUME OptsInv, [TaskNext]_taskVars PROVE OptsInv'
  OBVIOUS
<1>1. Layered(cmdCase)
  BY DEF OptsInv
<1>2. CASE UNCHANGED <<cmdCase, cmdVars>>
  <2>1. cmdCase' = cmdCase /\ opts' = opts /\ wantZip' = wantZip /\ cmdStep' = cmdStep
    BY <1>2 DEF cmdVars
  <2> QED
    BY <2>1 DEF OptsInv, Layered, Below, FileZip, FinalZip, Stored2, LayerName, TakesTask, WithFlags, Flagged, InTheEnd,
       Overrides, OverrideBy, OptsFrom, config, flags, ByTask, kindOf
<1>3. ASSUME cmdCase' = cmdCase
      PROVE  /\ Layered(cmdCase)' /\ FileZip' = FileZip /\ FinalZip' = FinalZip /\ Stored2' = Stored2
             /\ WithFlags' = WithFlags /\ InTheEnd' = InTheEnd /\ OptsFrom(config, "config")' = OptsFrom(config, "config")
  BY <1>1, <1>3 DEF Layered, Below, FileZip, FinalZip, Stored2, LayerName, TakesTask, WithFlags, Flagged, InTheEnd,
     Overrides, OverrideBy, OptsFrom, config, flags, ByTask, kindOf
<1>4. CASE ReadConfig
  <2>1. cmdStep = "start" /\ cmdCase' = cmdCase /\ cmdStep' \in {"task", "failed"}
    BY <1>4 DEF ReadConfig, Step
  <2>2. cmdStep' = "task" => opts' = OptsFrom(config, "config") /\ wantZip' = FileZip
    BY <1>4, <2>1, NothingIsDefault DEF ReadConfig, Step, OptsInv, FileZip
  <2> QED
    BY <1>3, <2>1, <2>2 DEF OptsInv
<1>5. CASE ReadTask \/ SkipTask \/ TaskUnusable
  <2>1. cmdStep = "task" /\ cmdCase' = cmdCase /\ cmdStep' \in {"flags", "failed"} /\ wantZip' = wantZip
    BY <1>5 DEF ReadTask, SkipTask, TaskUnusable, Step
  <2>2. cmdStep' = "flags" => opts' = Stored2
    <3>1. CASE TakesTask
      <4>1. cmdStep' = "flags" => opts' = OptsFrom(ByTask, "task")
        BY <1>5, <3>1 DEF ReadTask, SkipTask, TaskUnusable, Step, TakesTask
      <4>2. Stored2 = OptsFrom(ByTask, "task")
        BY <3>1 DEF Stored2, TakesTask, LayerName, Below, ByTask, kindOf
      <4> QED
        BY <4>1, <4>2
    <3>2. CASE ~TakesTask
      <4>1. cmdStep' = "flags" => opts' = opts /\ opts = OptsFrom(config, "config")
        BY <1>5, <2>1, <3>2 DEF ReadTask, SkipTask, TaskUnusable, Step, TakesTask, OptsInv
      <4>2. Stored2 = OptsFrom(config, "config")
        BY <3>2 DEF Stored2, TakesTask, LayerName, Below, ByTask, kindOf, config
      <4> QED
        BY <4>1, <4>2
    <3> QED
      BY <3>1, <3>2
  <2> QED
    BY <1>3, <2>1, <2>2 DEF OptsInv
<1>6. CASE cliExport \/ cliDictionary \/ cliImport \/ cliMigrate \/ cliCompare
  <2>2. ApplyFlags(kindOf \in {"export", "migrate"}, kindOf \in Exports)
    <3>1. CASE cliExport
      <4>1. kindOf = "export" /\ ApplyFlags(TRUE, TRUE)
        BY <3>1, Zenon DEF cliExport
      <4>2. (kindOf \in {"export", "migrate"}) = TRUE
        BY <4>1
      <4>3. (kindOf \in Exports) = TRUE
        BY <4>1 DEF Exports
      <4> QED
        BY <4>1, <4>2, <4>3, Zenon
    <3>2. CASE cliDictionary
      <4>1. kindOf = "dictionary" /\ ApplyFlags(FALSE, TRUE)
        BY <3>2, Zenon DEF cliDictionary
      <4>2. (kindOf \in {"export", "migrate"}) = FALSE
        BY <4>1
      <4>3. (kindOf \in Exports) = TRUE
        BY <4>1 DEF Exports
      <4> QED
        BY <4>1, <4>2, <4>3, Zenon
    <3>3. CASE cliImport
      <4>1. kindOf = "import" /\ ApplyFlags(FALSE, FALSE)
        BY <3>3, Zenon DEF cliImport
      <4>2. (kindOf \in {"export", "migrate"}) = FALSE
        BY <4>1
      <4>3. (kindOf \in Exports) = FALSE
        BY <4>1 DEF Exports
      <4> QED
        BY <4>1, <4>2, <4>3, Zenon
    <3>4. CASE cliMigrate
      <4>1. kindOf = "migrate" /\ ApplyFlags(TRUE, FALSE)
        BY <3>4, Zenon DEF cliMigrate
      <4>2. (kindOf \in {"export", "migrate"}) = TRUE
        BY <4>1
      <4>3. (kindOf \in Exports) = FALSE
        BY <4>1 DEF Exports
      <4> QED
        BY <4>1, <4>2, <4>3, Zenon
    <3>5. CASE cliCompare
      <4>1. kindOf = "compare" /\ ApplyFlags(FALSE, FALSE)
        BY <3>5, Zenon DEF cliCompare
      <4>2. (kindOf \in {"export", "migrate"}) = FALSE
        BY <4>1
      <4>3. (kindOf \in Exports) = FALSE
        BY <4>1 DEF Exports
      <4> QED
        BY <4>1, <4>2, <4>3, Zenon
    <3> QED
      BY <1>6, <3>1, <3>2, <3>3, <3>4, <3>5
  <2>3. cmdStep = "flags" /\ cmdCase' = cmdCase /\ opts = Stored2 /\ wantZip = FileZip
    BY <2>2 DEF ApplyFlags, Step, OptsInv
  <2>4. /\ opts' = WithFlags /\ wantZip' = FinalZip
        /\ cmdStep' = IF WithFlags.inline # "none" \/ WithFlags.ref # "none" THEN "override" ELSE "failed"
    BY <2>2, <2>3 DEF ApplyFlags, Step, WithFlags, FinalZip
  <2> QED
    BY <1>3, <2>3, <2>4 DEF OptsInv
<1>7. CASE OverrideDatabase
  <2>1. cmdStep = "override" /\ cmdCase' = cmdCase /\ opts = WithFlags /\ cmdStep' \in {"run", "failed"} /\ wantZip' = wantZip
    BY <1>7 DEF OverrideDatabase, Step, OptsInv
  <2>2. cmdStep' = "run" => opts' = InTheEnd
    BY <1>7, <2>1 DEF OverrideDatabase, Step, InTheEnd, Overrides
  <2> QED
    BY <1>3, <2>1, <2>2 DEF OptsInv
<1>8. CASE NoOverride
  <2>1. cmdStep = "override" /\ cmdCase' = cmdCase /\ opts = WithFlags /\ cmdStep' = "run" /\ wantZip' = wantZip /\ opts' = opts
    BY <1>8 DEF NoOverride, Step, OptsInv
  <2>2. opts = InTheEnd
    BY <1>8, <2>1 DEF NoOverride, InTheEnd, Overrides
  <2> QED
    BY <1>3, <2>1, <2>2 DEF OptsInv
<1>9. CASE Run
  <2>1. cmdStep = "run" /\ cmdCase' = cmdCase /\ cmdStep' \in {"done", "failed"} /\ wantZip' = wantZip /\ opts' = opts
    BY <1>9 DEF Run, Step
  <2> QED
    BY <1>3, <2>1 DEF OptsInv
<1>10. CASE Calls
  BY <1>2, <1>10 DEF Calls, SaveTask, RunTask, LoadTasks, MarkLastUsed, AccessFails, DeleteTask
<1>11. CASE UNCHANGED taskVars
  BY <1>2, <1>11 DEF taskVars
<1> QED
  BY <1>4, <1>5, <1>6, <1>7, <1>8, <1>9, <1>10, <1>11 DEF TaskNext, Command

(* What the layers say together.                                             *)
LEMMA OptsTell == OptsInv => LastGivenWins
<1> SUFFICES ASSUME OptsInv, cmdStep \in {"run", "done"}
             PROVE  /\ ConnInForce = Meant(Given(flags, "conn") /\ ~Outweighed("conn"), Given(ByTask, "conn"), Given(config, "conn"))
                    /\ kindOf \in Exports =>
                         /\ opts.outputDir = Meant(Given(flags, "out"), Given(ByTask, "out"), Given(config, "out"))
                         /\ wantZip # "none" => \/ wantZip = opts.outputDir
                                                \/ TakesTask /\ ~Given(flags, "out") /\ wantZip = "config"
                    /\ kindOf \in {"export", "migrate"} =>
                         CondInForce = Meant(flags.cond /\ ~Outweighed("cond"), ByTask.cond, config.cond)
                    /\ kindOf \in Pairs /\ flags.db => (opts.dbName = "flag" <=> ~Outweighed("db"))
  BY DEF LastGivenWins
<1> PICK n, b : n \in {"config", "task"} /\ n = LayerName /\ b = Below
  BY DEF LayerName
<1>1. /\ opts = InTheEnd /\ wantZip = FinalZip /\ (WithFlags.inline # "none" \/ WithFlags.ref # "none")
      /\ Layered(cmdCase)
  BY DEF OptsInv
<1>2. /\ b.conn \in {"none", "inline", "ref"} /\ b.cond \in BOOLEAN /\ b.out \in {"none", "dir", "zip"} /\ b.db \in BOOLEAN
      /\ flags.conn \in {"none", "inline", "ref"} /\ flags.cond \in BOOLEAN /\ flags.out \in {"none", "dir", "zip"} /\ flags.db \in BOOLEAN
  BY <1>1 DEF Layered, Layer, Below, flags, ByTask, config
<1>3. /\ Outweighed("conn") <=> flags.conn = "ref" /\ b.conn = "inline"
      /\ Outweighed("cond") <=> b.cond
      /\ Outweighed("db") <=> flags.conn # "inline" /\ b.conn = "inline"
  BY DEF Outweighed
<1>4. \/ TakesTask /\ n = "task" /\ b = ByTask
      \/ ~TakesTask /\ n = "config" /\ b = config
  BY DEF LayerName, Below
<1>5. \A f, t, c : Meant(f, t, c) = IF f THEN "flag" ELSE IF TakesTask THEN (IF t THEN "task" ELSE "none")
                                    ELSE IF c THEN "config" ELSE "none"
  BY DEF Meant, TakesTask
<1>6. /\ Stored2.inline = (IF b.conn = "inline" THEN n ELSE "none")
      /\ Stored2.ref = (IF b.conn = "ref" THEN n ELSE "none")
      /\ Stored2.conditions = (IF b.cond /\ kindOf \in {"export", "migrate"} THEN <<n>> ELSE <<>>)
      /\ Stored2.outputDir = (IF b.out # "none" /\ kindOf \in Exports THEN n ELSE "none")
  BY DEF Stored2, OptsFrom
<1>7. /\ WithFlags.ref = (IF flags.conn = "ref" THEN "flag" ELSE Stored2.ref)
      /\ WithFlags.inline = (IF flags.conn = "inline" THEN "flag" ELSE Stored2.inline)
      /\ WithFlags.conditions = (IF flags.cond /\ kindOf \in {"export", "migrate"}
                                 THEN Append(Stored2.conditions, "flag") ELSE Stored2.conditions)
      /\ WithFlags.outputDir = (IF flags.out # "none" /\ kindOf \in Exports THEN "flag" ELSE Stored2.outputDir)
      /\ WithFlags.dbName = IF flags.conn = "inline" THEN (IF flags.db THEN "flag" ELSE "own") ELSE Stored2.dbName
      /\ Stored2.dbName \in {n, "own"}
  BY DEF WithFlags, Flagged, Stored2, OptsFrom
<1>8. /\ InTheEnd.inline = (IF Overrides THEN WithFlags.ref ELSE WithFlags.inline)
      /\ InTheEnd.ref = (IF Overrides THEN "none" ELSE WithFlags.ref)
      /\ InTheEnd.dbName = (IF Overrides THEN OverrideBy ELSE WithFlags.dbName)
      /\ InTheEnd.conditions = WithFlags.conditions /\ InTheEnd.outputDir = WithFlags.outputDir
  BY DEF InTheEnd, WithFlags, Flagged, Stored2, OptsFrom
<1>9. ConnInForce = IF WithFlags.inline # "none" THEN WithFlags.inline ELSE WithFlags.ref
  BY <1>1, <1>8 DEF ConnInForce, Overrides
<1>10. ConnInForce = Meant(Given(flags, "conn") /\ ~Outweighed("conn"), Given(ByTask, "conn"), Given(config, "conn"))
  <2>1. ConnInForce = IF flags.conn # "none" /\ ~Outweighed("conn") THEN "flag" ELSE IF b.conn # "none" THEN n ELSE "none"
    BY <1>2, <1>3, <1>6, <1>7, <1>9
  <2> QED
    BY <1>4, <1>5, <2>1 DEF Given
<1>11. ASSUME kindOf \in Exports
       PROVE  /\ opts.outputDir = Meant(Given(flags, "out"), Given(ByTask, "out"), Given(config, "out"))
              /\ wantZip # "none" => \/ wantZip = opts.outputDir
                                     \/ TakesTask /\ ~Given(flags, "out") /\ wantZip = "config"
  <2>1. opts.outputDir = IF flags.out # "none" THEN "flag" ELSE IF b.out # "none" THEN n ELSE "none"
    BY <1>1, <1>6, <1>7, <1>8, <1>11
  <2>2. opts.outputDir = Meant(Given(flags, "out"), Given(ByTask, "out"), Given(config, "out"))
    BY <1>4, <1>5, <2>1 DEF Given
  <2>3. wantZip # "none" => \/ wantZip = opts.outputDir
                            \/ TakesTask /\ ~Given(flags, "out") /\ wantZip = "config"
    <3>1. CASE flags.out # "none"
      BY <1>1, <1>11, <2>1, <3>1 DEF FinalZip
    <3>2. CASE flags.out = "none"
      <4>1. wantZip = FileZip
        BY <1>1, <3>2 DEF FinalZip
      <4>2. wantZip # "none" => wantZip = "config" /\ config.out = "zip"
        BY <4>1 DEF FileZip
      <4>3. CASE TakesTask
        BY <3>2, <4>2, <4>3 DEF Given
      <4>4. CASE ~TakesTask
        BY <1>4, <2>1, <3>2, <4>2, <4>4
      <4> QED
        BY <4>3, <4>4
    <3> QED
      BY <3>1, <3>2
  <2> QED
    BY <2>2, <2>3
<1>12. ASSUME kindOf \in {"export", "migrate"}
       PROVE  CondInForce = Meant(flags.cond /\ ~Outweighed("cond"), ByTask.cond, config.cond)
  <2>1. opts.conditions = IF flags.cond THEN Append(IF b.cond THEN <<n>> ELSE <<>>, "flag") ELSE IF b.cond THEN <<n>> ELSE <<>>
    BY <1>1, <1>2, <1>6, <1>7, <1>8, <1>12
  <2>2. /\ Append(<<>>, "flag") # <<>> /\ Head(Append(<<>>, "flag")) = "flag"
        /\ Append(<<n>>, "flag") # <<>> /\ Head(Append(<<n>>, "flag")) = n
        /\ <<n>> # <<>> /\ Head(<<n>>) = n
    OBVIOUS
  <2>3. CondInForce = IF b.cond THEN n ELSE IF flags.cond THEN "flag" ELSE "none"
    BY <1>2, <2>1, <2>2 DEF CondInForce
  <2> QED
    BY <1>2, <1>3, <1>4, <1>5, <2>3
<1>13. ASSUME kindOf \in Pairs, flags.db PROVE opts.dbName = "flag" <=> ~Outweighed("db")
  <2>1. OverrideBy = "flag"
    BY <1>13 DEF OverrideBy
  <2>2. CASE Overrides
    <3>1. WithFlags.inline = "none"
      BY <2>2 DEF Overrides
    <3> QED
      BY <1>1, <1>2, <1>3, <1>6, <1>7, <1>8, <2>1, <2>2, <3>1
  <2>3. CASE ~Overrides
    <3>1. opts.dbName = WithFlags.dbName
      BY <1>1, <1>8, <2>3
    <3>2. WithFlags.inline # "none"
      BY <1>1, <2>1, <2>3 DEF Overrides
    <3>3. flags.conn = "inline" \/ b.conn = "inline"
      BY <1>2, <1>6, <1>7, <3>2
    <3> QED
      BY <1>3, <1>7, <1>13, <3>1, <3>3
  <2> QED
    BY <2>2, <2>3
<1> QED
  BY <1>10, <1>11, <1>12, <1>13

(* Each option of a command that runs comes from the layer that goes last       *)
(* among those that give it, whatever the layers say together, but for the      *)
(* flags that are Outweighed and the file name that is kept (cliExport and its   *)
(* like, overrideConnDB).                                                      *)
THEOREM LastLayerWins == TaskSpec /\ Layered(cmdCase) => []LastGivenWins
<1>1. TaskInit /\ Layered(cmdCase) => OptsInv
  BY DEF TaskInit, OptsInv
<1> QED
  BY <1>1, OptsStep, OptsTell, PTL DEF TaskSpec

-----------------------------------------------------------------------------
(* The parts share no state: a behaviour of the library is one of each part.   *)

LEMMA EachPart == LibrarySpec => ArtSpec /\ LibSpec /\ SqlSpec /\ TaskSpec
<1>1. LibraryInit => ArtInit /\ LibInit /\ SqlInit /\ TaskInit
  BY DEF LibraryInit
<1>2. [LibraryNext]_<<part, artVars, libVars, sqlVars, taskVars>>
        => [ArtNext]_artVars /\ [LibNext]_libVars /\ [SqlNext]_sqlVars /\ [TaskNext]_taskVars
  BY DEF LibraryNext
<1> QED
  BY <1>1, <1>2, PTL DEF LibrarySpec, ArtSpec, LibSpec, SqlSpec, TaskSpec

(* Where old entries are dropped the newest stay: a record of the history and   *)
(* a script of the SQL history go only behind the allowed number of newer ones  *)
(* (trimHistory, trimSQLHistory).                                            *)
THEOREM NewestAreKept == LibrarySpec => []TrimsKeepNewest
<1>1. NewestKept /\ NewestScriptsKept => TrimsKeepNewest
  BY DEF TrimsKeepNewest
<1> QED
  BY <1>1, EachPart, RecordsAreKept, ScriptsAreKept, PTL
-----------------------------------------------------------------------------
(* The types of the SQL console: where each request is in its statements, and  *)
(* that the rows it affected add up to a number.                             *)

SumTo(sum, list, len) ==
    /\ sum = [n \in 0 .. len |-> sum[n]] /\ sum[0] = 0
    /\ \A n \in 1 .. len : sum[n] = sum[n - 1] + list[n].count
AreNumbers(sum, len) == \A n \in 0 .. len : sum[n] \in Nat

(* A set of numbers with 0 and with every successor is all of them.           *)
LEMMA EveryNumber ==
    ASSUME NEW S, 0 \in S, \A n \in Nat : n \in S => n + 1 \in S
    PROVE  Nat \subseteq S
<1> DEFINE T == {0 .. n : n \in Nat \ S}
<1>1. T \subseteq FiniteSubsetsOf(Nat)
  <2>1. \A n \in Nat : 0 .. n \in FiniteSubsetsOf(Nat)
    BY FS_Interval DEF FiniteSubsetsOf
  <2> QED
    BY <2>1
<1>2. SUFFICES ASSUME T # {} PROVE FALSE
  OBVIOUS
<1>3. PICK x \in T : \A y \in T : ~(<<y, x>> \in StrictSubsetOrdering(Nat))
  BY <1>1, <1>2, FS_StrictSubsetOrderingWellFounded, WFMin
<1>4. PICK n \in Nat \ S : x = 0 .. n
  OBVIOUS
<1>5. n - 1 \in Nat \ S
  <2>1. n # 0 /\ n - 1 \in Nat /\ (n - 1) + 1 = n
    BY <1>4
  <2> QED
    BY <1>4, <2>1
<1>6. /\ 0 .. (n - 1) \in T /\ 0 .. (n - 1) \in SUBSET Nat /\ 0 .. n \in SUBSET Nat
      /\ 0 .. (n - 1) \subseteq 0 .. n /\ n \in 0 .. n /\ n \notin 0 .. (n - 1)
  BY <1>5
<1>7. <<0 .. (n - 1), 0 .. n>> \in StrictSubsetOrdering(Nat)
  BY <1>6 DEF StrictSubsetOrdering
<1> QED
  BY <1>3, <1>4, <1>6, <1>7

LEMMA SumExists ==
    ASSUME NEW list, NEW len \in Nat
    PROVE  \E sum : SumTo(sum, list, len)
<1> DEFINE S == {n \in Nat : \E sum : SumTo(sum, list, n)}
<1>1. 0 \in S
  <2> DEFINE f == [n \in 0 .. 0 |-> 0]
  <2>1. SumTo(f, list, 0)
    BY DEF SumTo
  <2> QED
    BY <2>1
<1>2. ASSUME NEW n \in Nat, n \in S PROVE n + 1 \in S
  <2> PICK g : SumTo(g, list, n)
    BY <1>2
  <2> DEFINE f == [i \in 0 .. n + 1 |-> IF i = n + 1 THEN g[n] + list[n + 1].count ELSE g[i]]
  <2>1. f[n + 1] = g[n] + list[n + 1].count /\ (\A i \in 0 .. n : f[i] = g[i]) /\ f = [i \in 0 .. n + 1 |-> f[i]]
    OBVIOUS
  <2> HIDE DEF f
  <2>2. ASSUME NEW i \in 1 .. n + 1 PROVE f[i] = f[i - 1] + list[i].count
    <3>1. CASE i = n + 1
      <4>1. i - 1 = n /\ n \in 0 .. n
        BY <3>1
      <4> QED
        BY <2>1, <3>1, <4>1
    <3>2. CASE i # n + 1
      <4>1. i \in 1 .. n /\ i \in 0 .. n /\ i - 1 \in 0 .. n
        BY <3>2
      <4> QED
        BY <2>1, <4>1 DEF SumTo
    <3> QED
      BY <3>1, <3>2
  <2>3. f[0] = 0
    <3>1. 0 \in 0 .. n
      OBVIOUS
    <3> QED
      BY <2>1, <3>1 DEF SumTo
  <2>4. SumTo(f, list, n + 1)
    BY <2>1, <2>2, <2>3 DEF SumTo
  <2> QED
    BY <2>4
<1> HIDE DEF S
<1>3. len \in S
  BY <1>1, <1>2, EveryNumber
<1> QED
  BY <1>3 DEF S

LEMMA SumOfNumbers ==
    ASSUME NEW list, NEW len \in Nat, \A n \in 1 .. len : list[n].count \in Nat, NEW sum, SumTo(sum, list, len)
    PROVE  AreNumbers(sum, len)
<1> DEFINE S == {n \in Nat : n <= len => sum[n] \in Nat}
<1>1. 0 \in S
  BY DEF SumTo
<1>2. ASSUME NEW n \in Nat, n \in S PROVE n + 1 \in S
  <2> SUFFICES ASSUME n + 1 <= len PROVE sum[n + 1] \in Nat
    OBVIOUS
  <2>1. n + 1 \in 1 .. len /\ (n + 1) - 1 = n /\ sum[n] \in Nat
    BY <1>2
  <2>2. sum[n + 1] = sum[n] + list[n + 1].count /\ list[n + 1].count \in Nat
    BY <2>1 DEF SumTo
  <2> QED
    BY <2>1, <2>2
<1> HIDE DEF S
<1>3. Nat \subseteq S
  BY <1>1, <1>2, EveryNumber
<1>4. \A n \in 0 .. len : sum[n] \in Nat
  BY <1>3 DEF S
<1> QED
  BY <1>4 DEF AreNumbers

LEMMA TotalIsNumber ==
    ASSUME NEW list, Len(list) \in Nat, \A n \in 1 .. Len(list) : list[n].count \in Nat
    PROVE  Total(list) \in Nat
<1> DEFINE Turn(f) == [n \in 0 .. Len(list) |-> IF n = 0 THEN 0 ELSE f[n - 1] + list[n].count]
           g == CHOOSE f : f = Turn(f)
<1>1. Total(list) = g[Len(list)]
  BY DEF Total
<1>2. PICK f : SumTo(f, list, Len(list))
  BY SumExists
<1>3. f = Turn(f)
  <2>1. ASSUME NEW n \in 0 .. Len(list) PROVE f[n] = Turn(f)[n]
    <3>1. n = 0 \/ n \in 1 .. Len(list)
      OBVIOUS
    <3> QED
      BY <1>2, <3>1 DEF SumTo
  <2>2. f = [n \in 0 .. Len(list) |-> f[n]]
    BY <1>2 DEF SumTo
  <2> QED
    BY <2>1, <2>2
<1>4. g = Turn(g)
  BY <1>3
<1> HIDE DEF g
<1>5. SumTo(g, list, Len(list))
  <2>1. g = [n \in 0 .. Len(list) |-> g[n]] /\ g[0] = 0
    BY <1>4
  <2>2. ASSUME NEW n \in 1 .. Len(list) PROVE g[n] = g[n - 1] + list[n].count
    <3>1. n \in 0 .. Len(list) /\ n # 0
      OBVIOUS
    <3>2. g[n] = Turn(g)[n]
      BY <1>4
    <3> QED
      BY <3>1, <3>2
  <2> QED
    BY <2>1, <2>2 DEF SumTo
<1>6. g[Len(list)] \in Nat
  <2>1. AreNumbers(g, Len(list)) /\ Len(list) \in 0 .. Len(list)
    BY <1>5, SumOfNumbers
  <2> QED
    BY <2>1 DEF AreNumbers
<1> QED
  BY <1>1, <1>6

PlaceOf(c) ==
    /\ Stamp(c) \in 0 .. MaxClock /\ Len(results[c]) <= Len(req(c).stmts)
    /\ \A n \in DOMAIN results[c] : results[c][n].count \in Nat
    /\ AtSql(c, "script", "run") \/ AtSql(c, "edit", "run") =>
         at(c) = Len(results[c]) + 1 /\ at(c) <= Len(req(c).stmts)
    /\ AtSql(c, "edit", "audit") => at(c) = Len(results[c]) /\ at(c) # 0
HistTyped  == \A r \in sqlHist : r.call \in SqlCallers /\ r.stamp \in 1 .. MaxClock
AuditTyped == \A a \in audit : a.call \in SqlCallers /\ a.write \in BOOLEAN /\ a.count \in Nat
SqlTyping ==
    /\ SqlShape /\ IsFiniteSet(table) /\ table \subseteq RowKeys /\ clock \in 1 .. MaxClock
    /\ HistTyped /\ AuditTyped
    /\ \A c \in SqlCallers : PlaceOf(c)

LEMMA StatementsTyped ==
    ASSUME sqlCase \in SqlCases, NEW c \in SqlCallers
    PROVE  /\ req(c).stmts \in Seq([do : STRING, key : RowKeys]) /\ Len(req(c).stmts) \in Nat
           /\ \A n \in 1 .. Len(req(c).stmts) : req(c).stmts[n] \in [do : STRING, key : RowKeys]
           /\ req(c).op \in {"script", "edit"} => 1 <= Len(req(c).stmts)
<1> DEFINE T == [do : STRING, key : RowKeys]
<1> PICK list : list = req(c).stmts
  OBVIOUS
<1>1. list \in Seq(T) /\ (req(c).op \in {"script", "edit"} => list # <<>>)
  BY SqlCasesAssumption DEF req
<1> HIDE DEF T
<1>2. Len(list) \in Nat /\ (\A n \in 1 .. Len(list) : list[n] \in T) /\ (list # <<>> => 1 <= Len(list))
  BY <1>1
<1> QED
  BY <1>1, <1>2 DEF T

LEMMA EffectTyped ==
    ASSUME IsFiniteSet(table), table \subseteq RowKeys, NEW s \in [do : STRING, key : RowKeys], NEW e \in Outcome(s)
    PROVE  /\ IsFiniteSet(e.rows) /\ e.rows \subseteq RowKeys
           /\ Result(s, e).count \in Nat
<1>1. s.key \in RowKeys
  OBVIOUS
<1>2. IsFiniteSet(table \cup {s.key}) /\ IsFiniteSet(table \ {s.key}) /\ IsFiniteSet({s.key} \cap table)
  <2>1. /\ table \ {s.key} \subseteq table /\ {s.key} \cap table \subseteq table
    OBVIOUS
  <2> QED
    BY <2>1, FS_AddElement, FS_Subset
<1>3. Cardinality(table) \in Nat /\ Cardinality({s.key} \cap table) \in Nat
  BY <1>2, FS_CardinalityType
<1> PICK f : f = Effect(s)
  OBVIOUS
<1>4. \/ f.rows = table /\ f.count \in {Cardinality(table), 0, Cardinality({s.key} \cap table)}
      \/ f.rows = table \cup {s.key} /\ f.count = 1
      \/ f.rows = table \ {s.key} /\ f.count = Cardinality({s.key} \cap table)
  BY DEF Effect
<1>5. e.rows \in {table, f.rows} /\ e.count \in {0, f.count}
  BY DEF Outcome, Answered, Unanswered
<1>6. Result(s, e).count \in {0, e.count}
  BY DEF Result
<1> QED
  BY <1>1, <1>2, <1>3, <1>4, <1>5, <1>6

(* One request moves and the others stay where they are.                     *)
LEMMA PlacesStay ==
    ASSUME SqlTyping, sqlCase' = sqlCase, NEW c \in SqlCallers, PlaceOf(c)',
           \A d \in SqlCallers \ {c} : sqlCalls'[d] = sqlCalls[d] /\ results'[d] = results[d]
    PROVE  \A d \in SqlCallers : PlaceOf(d)'
<1> SUFFICES ASSUME NEW d \in SqlCallers \ {c} PROVE PlaceOf(d)'
  OBVIOUS
<1>1. PlaceOf(d)
  BY DEF SqlTyping
<1>2. sqlCalls'[d] = sqlCalls[d] /\ results'[d] = results[d]
  OBVIOUS
<1> QED
  BY <1>1, <1>2 DEF PlaceOf, Stamp, req, AtSql, at

(* A step that adds no result.                                               *)
LEMMA PlaceMoves ==
    ASSUME SqlTyping, sqlCase' = sqlCase, results' = results, NEW c \in SqlCallers,
           NEW s, NEW a, NEW t \in 0 .. MaxClock, NEW e, Moved(c, s, a, t, e),
           s = "run" => req(c).op = "edit" /\ a = Len(results[c]) + 1 /\ a <= Len(req(c).stmts),
           s = "audit" => req(c).op = "script"
    PROVE  \A d \in SqlCallers : PlaceOf(d)'
<1>1. PlaceOf(c)
  BY DEF SqlTyping
<1>2. PlaceOf(c)'
  BY <1>1 DEF PlaceOf, Moved, Stamp, req, AtSql, at
<1> QED
  BY <1>2, PlacesStay DEF Moved

LEMMA StatementTyped ==
    ASSUME SqlTyping, NEW c \in SqlCallers, RunStatement(c) \/ EditRow(c)
    PROVE  SqlTyping'
<1>1. SqlShape /\ PlaceOf(c) /\ sqlCase \in SqlCases /\ IsFiniteSet(table) /\ table \subseteq RowKeys
  BY DEF SqlTyping, SqlShape
<1>2. /\ sqlCase' = sqlCase /\ sqlHist' = sqlHist /\ audit' = audit /\ clock' = clock
      /\ AtSql(c, "script", "run") \/ AtSql(c, "edit", "run")
  BY DEF RunStatement, EditRow, storeVars
<1> DEFINE s == req(c).stmts[at(c)]
<1>3. SqlShape'
  BY <1>1, ShapeKept DEF SqlNext
<1>4. /\ at(c) = Len(results[c]) + 1 /\ at(c) <= Len(req(c).stmts) /\ Len(results[c]) \in Nat
      /\ DOMAIN results[c] = 1 .. Len(results[c])
  BY <1>1, <1>2, ListAppend DEF PlaceOf, SqlShape
<1>5. s \in [do : STRING, key : RowKeys] /\ Len(req(c).stmts) \in Nat
  BY <1>1, <1>4, StatementsTyped
<1> PICK e \in Outcome(s) : Execute(c, e)
  BY DEF RunStatement, EditRow
<1> DEFINE r == Result(s, e)
<1>6. ResultAdded(c, r)
  BY <1>1, ExecuteMoves
<1>7. IsFiniteSet(table') /\ table' \subseteq RowKeys /\ r.count \in Nat
  BY <1>1, <1>5, EffectTyped DEF Execute
<1> HIDE DEF r, s
<1>8. \A n \in DOMAIN results'[c] : results'[c][n].count \in Nat
  <2> TAKE n \in DOMAIN results'[c]
  <2>1. n = Len(results[c]) + 1 \/ n \in 1 .. Len(results[c])
    BY <1>4, <1>6 DEF ResultAdded
  <2> QED
    BY <1>1, <1>4, <1>6, <1>7, <2>1 DEF ResultAdded, PlaceOf
<1>9. PlaceOf(c)' /\ \A d \in SqlCallers \ {c} : sqlCalls'[d] = sqlCalls[d]
  <2>1. Len(results'[c]) = Len(results[c]) + 1
    BY <1>6 DEF ResultAdded
  <2>2. CASE RunStatement(c)
    <3>1. AtSql(c, "script", "run")
      BY <2>2 DEF RunStatement
    <3> PICK f : GoSql(c, [sqlCalls[c] EXCEPT !.at = @ + 1, !.step = IF f.ok /\ More(c) THEN "run" ELSE "record"])
      BY <2>2 DEF RunStatement
    <3> DEFINE go == IF f.ok /\ More(c) THEN "run" ELSE "record"
    <3>2. GoSql(c, WithAtStep(sqlCalls[c], at(c) + 1, go)) /\ (go = "run" => More(c)) /\ go \in {"run", "record"}
      BY DEF WithAtStep, at
    <3> HIDE DEF go
    <3>3. Moved(c, go, at(c) + 1, Stamp(c), Seen(c))
      BY <1>1, <3>2, CallSteps DEF WithAtStep
    <3>4. go = "run" => at(c) + 1 <= Len(req(c).stmts)
      BY <1>4, <1>5, <3>2 DEF More
    <3> QED
      BY <1>1, <1>2, <1>4, <1>5, <1>8, <2>1, <3>1, <3>2, <3>3, <3>4 DEF PlaceOf, Moved, Stamp, req, AtSql, at
  <2>3. CASE EditRow(c)
    <3>1. AtSql(c, "edit", "run")
      BY <2>3 DEF EditRow
    <3>2. Moved(c, "audit", at(c), Stamp(c), Seen(c))
      BY <1>1, <2>3, SqlActs
    <3> QED
      BY <1>1, <1>2, <1>4, <1>5, <1>8, <2>1, <3>1, <3>2 DEF PlaceOf, Moved, Stamp, req, AtSql, at
  <2> QED
    BY <2>2, <2>3
<1>10. \A d \in SqlCallers : PlaceOf(d)'
  BY <1>2, <1>6, <1>9, PlacesStay DEF ResultAdded
<1> QED
  BY <1>2, <1>3, <1>7, <1>10 DEF SqlTyping, HistTyped, AuditTyped

(* The rows a script affected, and those of the last row edited.              *)
LEMMA CountsTyped ==
    ASSUME SqlTyping, NEW c \in SqlCallers
    PROVE  /\ Rows(c) \in Nat /\ Written(c) \in BOOLEAN
           /\ AtSql(c, "edit", "audit") => Last(c).count \in Nat
<1>1. PlaceOf(c) /\ IsList(results[c])
  BY DEF SqlTyping, SqlShape
<1>2. Len(results[c]) \in Nat /\ DOMAIN results[c] = 1 .. Len(results[c])
  BY <1>1, ListAppend
<1>3. Rows(c) \in Nat
  BY <1>1, <1>2, TotalIsNumber DEF Rows, PlaceOf
<1>4. Written(c) \in BOOLEAN
  BY DEF Written
<1>5. AtSql(c, "edit", "audit") => Last(c).count \in Nat
  BY <1>1, <1>2 DEF PlaceOf, Last
<1> QED
  BY <1>3, <1>4, <1>5

LEMMA RecordTyped ==
    ASSUME SqlTyping, NEW c \in SqlCallers,
           AddSQLHistory(c) \/ TrimRead(c) \/ TrimDelete(c) \/ HistoryFails(c) \/ AuditScript(c) \/ AuditRow(c)
    PROVE  SqlTyping'
<1>1. SqlShape /\ SqlShape' /\ PlaceOf(c) /\ Stamp(c) \in 0 .. MaxClock /\ clock \in 1 .. MaxClock /\ clock \in 0 .. MaxClock
  BY ShapeKept DEF SqlTyping, SqlNext, PlaceOf
<1>2. sqlCase' = sqlCase /\ table' = table /\ results' = results /\ clock' = clock /\ req(c).op \in {"script", "edit"}
  BY DEF AddSQLHistory, TrimRead, TrimDelete, HistoryFails, AuditScript, AuditRow, storeVars, AtSql
<1>3. HistTyped' /\ AuditTyped'
  <2>1. HistTyped /\ AuditTyped
    BY DEF SqlTyping
  <2>2. CASE AddSQLHistory(c)
    BY <1>1, <2>1, <2>2 DEF AddSQLHistory, HistTyped, AuditTyped
  <2>3. CASE TrimRead(c) \/ TrimDelete(c) \/ HistoryFails(c)
    BY <2>1, <2>3 DEF TrimRead, TrimDelete, HistoryFails, storeVars, HistTyped, AuditTyped
  <2>4. CASE AuditScript(c)
    <3> PICK w, k : w = Written(c) /\ k = Rows(c)
      OBVIOUS
    <3>1. w \in BOOLEAN /\ k \in Nat
      BY CountsTyped
    <3> PICK a : a = ScriptEntry(c)
      OBVIOUS
    <3>2. a.call = c /\ a.write \in BOOLEAN /\ a.count \in Nat
      BY <3>1 DEF ScriptEntry, Entry
    <3>3. (audit' = audit \cup {a} \/ audit' = audit) /\ sqlHist' = sqlHist
      BY <2>4 DEF AuditScript, AppendSQLAudit
    <3> QED
      BY <2>1, <3>2, <3>3 DEF HistTyped, AuditTyped
  <2>5. CASE AuditRow(c)
    <3> PICK a : /\ (audit' = audit \cup {a} \/ audit' = audit) /\ sqlHist' = sqlHist /\ AtSql(c, "edit", "audit")
                 /\ a = Entry(c, Last(c).do, Last(c).ok, TRUE, Last(c).count)
      BY <2>5 DEF AuditRow, AppendSQLAudit, RowEntry
    <3>1. a.call = c /\ a.write = TRUE /\ a.count = Last(c).count
      BY DEF Entry
    <3> QED
      BY <2>1, <3>1, CountsTyped DEF HistTyped, AuditTyped
  <2> QED
    BY <2>2, <2>3, <2>4, <2>5
<1>4. \A d \in SqlCallers : PlaceOf(d)'
  <2>1. CASE AuditRow(c)
    <3>1. AtSql(c, "edit", "audit") /\ req(c).op = "edit" /\ at(c) = Len(results[c])
      BY <1>1, <2>1 DEF AuditRow, PlaceOf, AtSql
    <3> DEFINE go == IF Last(c).ok /\ More(c) THEN "run" ELSE "done"
    <3>2. GoSql(c, WithAtStep(sqlCalls[c], at(c) + 1, go)) /\ (go = "run" => More(c)) /\ go \in {"run", "done"}
      BY <2>1 DEF AuditRow, WithAtStep, at
    <3> HIDE DEF go
    <3>3. Moved(c, go, at(c) + 1, Stamp(c), Seen(c))
      BY <1>1, <3>2, CallSteps DEF WithAtStep
    <3>4. Len(req(c).stmts) \in Nat /\ Len(results[c]) \in Nat
      BY <1>1, StatementsTyped, ListAppend DEF SqlShape
    <3>5. go = "run" => at(c) + 1 <= Len(req(c).stmts)
      BY <3>1, <3>2, <3>4 DEF More
    <3> QED
      BY <1>1, <1>2, <3>1, <3>2, <3>3, <3>5, PlaceMoves
  <2>2. CASE AddSQLHistory(c)
    BY <1>1, <1>2, <2>2, SqlActs, PlaceMoves
  <2>3. CASE TrimRead(c) \/ TrimDelete(c) \/ HistoryFails(c) \/ AuditScript(c)
    <3>1. req(c).op = "script"
      BY <2>3 DEF TrimRead, TrimDelete, HistoryFails, AuditScript, AtSql
    <3>2. \E s \in {"audit", "cut", "done"} : \E a, e : Moved(c, s, a, Stamp(c), e)
      BY <1>1, <2>3, SqlActs
    <3> QED
      BY <1>1, <1>2, <3>1, <3>2, PlaceMoves
  <2> QED
    BY <2>1, <2>2, <2>3
<1> QED
  BY <1>1, <1>2, <1>3, <1>4 DEF SqlTyping

LEMMA RestTyped ==
    ASSUME SqlTyping, NEW c \in SqlCallers,
           \/ ListForClear(c) \/ ClearOne(c) \/ Cleared(c)
           \/ AddFavorite(c) \/ DeleteFavorite(c) \/ ReadFavorite(c) \/ UpdateFavorite(c)
    PROVE  SqlTyping'
<1>1. SqlShape /\ SqlShape' /\ Stamp(c) \in 0 .. MaxClock
  BY ShapeKept DEF SqlTyping, SqlNext, PlaceOf
<1>2. /\ sqlCase' = sqlCase /\ table' = table /\ results' = results /\ clock' = clock /\ audit' = audit
      /\ sqlHist' \subseteq sqlHist
  BY DEF ListForClear, ClearOne, Cleared, AddFavorite, DeleteFavorite, ReadFavorite, UpdateFavorite, storeVars
<1>3. \E s \in {"clear", "done", "update"} : \E a, e : Moved(c, s, a, Stamp(c), e)
  BY <1>1, SqlActs
<1>4. \A d \in SqlCallers : PlaceOf(d)'
  BY <1>1, <1>2, <1>3, PlaceMoves
<1> QED
  BY <1>1, <1>2, <1>4 DEF SqlTyping, HistTyped, AuditTyped

LEMMA SqlTyped == SqlSpec => []SqlTypeOK
<1>1. SqlInit => SqlTyping
  <2> SUFFICES ASSUME SqlInit PROVE SqlTyping
    OBVIOUS
  <2>1. SqlShape /\ sqlCase \in SqlCases /\ table = sqlCase.rows /\ sqlHist = {} /\ audit = {} /\ clock = 1
    BY ShapeStart DEF SqlInit
  <2>2. IsFiniteSet(table) /\ table \subseteq RowKeys /\ clock \in 1 .. MaxClock
    BY <2>1, SqlCasesAssumption, SqlAssumption
  <2>3. ASSUME NEW c \in SqlCallers PROVE PlaceOf(c)
    <3>1. /\ results[c] = <<>> /\ Len(results[c]) = 0 /\ DOMAIN results[c] = {}
          /\ at(c) = 1 /\ Stamp(c) = 0 /\ StepOf(c) = "run"
      BY DEF SqlInit, at, Stamp, StepOf
    <3>2. 0 \in 0 .. MaxClock
      BY SqlAssumption
    <3> QED
      BY <2>1, <3>1, <3>2, StatementsTyped DEF PlaceOf, AtSql, StepOf
  <2> QED
    BY <2>1, <2>2, <2>3 DEF SqlTyping, HistTyped, AuditTyped
<1>2. SqlTyping /\ [SqlNext]_sqlVars => SqlTyping'
  <2> SUFFICES ASSUME SqlTyping, [SqlNext]_sqlVars PROVE SqlTyping'
    OBVIOUS
  <2>1. CASE Tick \/ UNCHANGED sqlVars
    <3>1. /\ sqlCase' = sqlCase /\ table' = table /\ sqlCalls' = sqlCalls /\ results' = results
          /\ sqlHist' = sqlHist /\ audit' = audit /\ clock' \in 1 .. MaxClock
      BY <2>1, SqlAssumption DEF Tick, sqlVars, storeVars, SqlTyping
    <3> QED
      BY <3>1 DEF SqlTyping, SqlShape, HistTyped, AuditTyped, PlaceOf, Stamp, req, AtSql, at
  <2> QED
    BY <2>1, StatementTyped, RecordTyped, RestTyped DEF SqlNext
<1>3. SqlTyping => SqlTypeOK
  BY DEF SqlTyping, SqlTypeOK, SqlShape, HistTyped, AuditTyped, PlaceOf, Stamp, req
<1> QED
  BY <1>1, <1>2, <1>3, PTL DEF SqlSpec

-----------------------------------------------------------------------------
(* The types of the connections: what a call carries from step to step.       *)

CarriesOk(x) ==
    /\ x.list \in Lists \cup {NoList}
    /\ x.op = "save" /\ x.step = "write" => x.id \in LibIds /\ x.rec \in Records
    /\ Asking(x) => x.rec \in Records
    /\ x.op = "list" /\ x.step = "fill" => x.list \in Lists
LibTyping ==
    /\ LibShape
    /\ schema \in [Servers -> 0 .. MaxSchema] /\ metaCached \in [Servers -> Lists \cup {NoList}]
    /\ \A c \in LibCallers : CarriesOk(libCalls[c])

LEMMA NoCallOk == IsLibCall(NoCall) /\ CarriesOk(NoCall) /\ NoCall.list = NoList
BY DEF IsLibCall, LibFields, NoCall, CarriesOk, Asking

LEMMA CarryMoves ==
    ASSUME LibTyping, NEW c \in LibCallers, NEW new, IsLibCall(new), CarriesOk(new), Go(c, new), libCase' = libCase,
           conns' \in [LibIds -> Records \cup {NoConn}], inline' \in [LibIds -> Records \cup {NoConn}],
           attached' \subseteq [conn : LibIds, kind : Kinds], schema' = schema,
           metaCached' \in [Servers -> Lists \cup {NoList}]
    PROVE  LibTyping'
<1>1. LibShape
  BY DEF LibTyping
<1>2. /\ libCalls'[c] = new /\ \A d \in LibCallers \ {c} : libCalls'[d] = libCalls[d]
      /\ libCalls' = [d \in LibCallers |-> libCalls'[d]] /\ \A d \in LibCallers : IsLibCall(libCalls'[d])
  BY <1>1, LibCallMoves
<1>3. \A d \in LibCallers : CarriesOk(libCalls'[d])
  BY <1>2 DEF LibTyping
<1>4. \A d \in LibCallers : CarriesOk(libCalls[d])'
  BY <1>3 DEF CarriesOk, Asking
<1> QED
  BY <1>1, <1>2, <1>4 DEF LibTyping, LibShape

LEMMA LoadedTyped == ASSUME LibShape, NEW lib \in LoadConns PROVE lib \in [LibIds -> Records \cup {NoConn}]
BY DEF LoadConns, Empty, LibShape

LEMMA ChangesTyped ==
    ASSUME LibTyping, NEW c \in LibCallers,
           \/ CheckSave(c) \/ SaveConn(c) \/ Invalidate(c)
           \/ FindConn(c) \/ PickRow(c) \/ RemoveRow(c) \/ Cascade(c) \/ MemDelete(c)
    PROVE  LibTyping'
<1> PICK x : x = libCalls[c]
  OBVIOUS
<1>1. IsLibCall(x) /\ CarriesOk(x) /\ LibShape /\ libCase \in LibCases
      /\ conns \in [LibIds -> Records \cup {NoConn}] /\ inline \in [LibIds -> Records \cup {NoConn}]
      /\ attached \subseteq [conn : LibIds, kind : Kinds] /\ metaCached \in [Servers -> Lists \cup {NoList}]
  BY DEF LibTyping, LibShape
<1>2. libCase' = libCase /\ schema' = schema
  BY DEF CheckSave, SaveConn, Invalidate, FindConn, PickRow, RemoveRow, Cascade, MemDelete
<1>3. metaCached' \in [Servers -> Lists \cup {NoList}]
  <2>1. metaCached' = metaCached \/ metaCached' = [s \in Servers |-> NoList]
    BY DEF CheckSave, SaveConn, Invalidate, ResetAll, FindConn, PickRow, RemoveRow, Cascade, MemDelete
  <2> QED
    BY <1>1, <2>1
<1>4. attached' \subseteq [conn : LibIds, kind : Kinds]
  <2>1. attached' \subseteq attached
    BY DEF CheckSave, SaveConn, Invalidate, FindConn, PickRow, RemoveRow, Cascade, MemDelete
  <2> QED
    BY <1>1, <2>1
<1>5. conns' \in [LibIds -> Records \cup {NoConn}] /\ inline' \in [LibIds -> Records \cup {NoConn}]
  <2>1. CASE SaveConn(c)
    <3>1. x.id \in LibIds /\ x.rec \in Records
      BY <1>1, <2>1 DEF SaveConn, AtStep, CarriesOk
    <3>2. /\ conns' = conns \/ conns' = [conns EXCEPT ![x.id] = x.rec]
          /\ inline' = inline \/ inline' = [inline EXCEPT ![x.id] = x.rec]
      BY <2>1 DEF SaveConn
    <3> QED
      BY <1>1, <3>1, <3>2
  <2>2. CASE RemoveRow(c)
    <3>1. inline' = inline /\ (conns' = conns \/ conns' = [conns EXCEPT ![x.row] = NoConn])
      BY <2>2 DEF RemoveRow
    <3> QED
      BY <1>1, <3>1
  <2>3. CASE MemDelete(c)
    <3>1. conns' = conns /\ (inline' = inline \/ \E i : inline' = [inline EXCEPT ![i] = NoConn])
      BY <2>3 DEF MemDelete
    <3> QED
      BY <1>1, <3>1
  <2>4. CASE CheckSave(c) \/ Invalidate(c) \/ FindConn(c) \/ PickRow(c) \/ Cascade(c)
    BY <1>1, <2>4 DEF CheckSave, Invalidate, FindConn, PickRow, Cascade
  <2> QED
    BY <2>1, <2>2, <2>3, <2>4
<1>6. \E new : IsLibCall(new) /\ CarriesOk(new) /\ Go(c, new)
  <2> DEFINE Ok(new) == IsLibCall(new) /\ CarriesOk(new)
  <2> SUFFICES \E new : Ok(new) /\ Go(c, new)
    OBVIOUS
  <2>1. CASE CheckSave(c)
    <3> PICK id \in {c} \cup (IF "edit" \in libCase.ops THEN SavedIds ELSE {}), r \in libCase.requests, lib \in LoadConns :
         Go(c, [NoCall EXCEPT !.op = "save", !.id = id, !.rec = r,
                  !.step = IF Taken(lib, id, r.short) THEN "done" ELSE "write",
                  !.result = IF Taken(lib, id, r.short) THEN "refused" ELSE "none"])
      BY <2>1 DEF CheckSave
    <3> PICK new : new = [NoCall EXCEPT !.op = "save", !.id = id, !.rec = r,
                  !.step = IF Taken(lib, id, r.short) THEN "done" ELSE "write",
                  !.result = IF Taken(lib, id, r.short) THEN "refused" ELSE "none"]
      OBVIOUS
    <3>1. IsLibCall(new) /\ new.op = "save" /\ new.rec = r /\ new.id = id /\ new.list = NoList
      BY NoCallOk DEF IsLibCall, LibFields
    <3>2. r \in Records /\ id \in LibIds
      BY <1>1, LibCasesAssumption DEF LibIds
    <3>3. Ok(new)
      BY <3>1, <3>2 DEF CarriesOk, Asking
    <3> QED
      BY <3>3
  <2>2. CASE SaveConn(c) \/ Invalidate(c) \/ PickRow(c) \/ RemoveRow(c) \/ Cascade(c)
    <3>1. x.op \in {"save", "delete"}
      BY <2>2 DEF SaveConn, Invalidate, PickRow, RemoveRow, Cascade, AtStep
    <3>2. ASSUME NEW s, NEW t, s # "write"
          PROVE  Ok([x EXCEPT !.step = s, !.result = t]) /\ Ok([x EXCEPT !.step = s]) /\ Ok([x EXCEPT !.step = s, !.row = t])
      BY <1>1, <3>1, <3>2 DEF IsLibCall, LibFields, CarriesOk, Asking
    <3> HIDE DEF Ok
    <3>3. \/ \E t : Go(c, [x EXCEPT !.step = "done", !.result = t])
          \/ \E s \in {"reset", "chats", "tabs"} : Go(c, [x EXCEPT !.step = s])
          \/ \E s \in {"chats", "remove"} : \E t : Go(c, [x EXCEPT !.step = s, !.row = t])
      <4>1. CASE SaveConn(c)
        BY <4>1 DEF SaveConn, ToStep, Finish
      <4>2. CASE Invalidate(c)
        BY <4>2 DEF Invalidate, Finish
      <4>3. CASE PickRow(c)
        <5>1. \/ Go(c, [x EXCEPT !.step = "chats", !.row = Blank])
              \/ \E i : Go(c, [x EXCEPT !.step = "remove", !.row = i])
          BY <4>3, Zenon DEF PickRow
        <5> QED
          BY <5>1
      <4>4. CASE RemoveRow(c)
        BY <4>4 DEF RemoveRow, ToStep, Finish
      <4>5. CASE Cascade(c)
        <5> PICK k \in Kinds : ToStep(c, IF k = "chat" THEN "tabs" ELSE "reset")
          BY <4>5 DEF Cascade
        <5> QED
          BY DEF ToStep
      <4> QED
        BY <2>2, <4>1, <4>2, <4>3, <4>4, <4>5
    <3> QED
      BY <3>2, <3>3
  <2>3. CASE FindConn(c) \/ MemDelete(c)
    <3>1. ASSUME NEW s, NEW t, NEW u
          PROVE  /\ Ok([NoCall EXCEPT !.op = "delete", !.step = s, !.id = t, !.row = u])
                 /\ Ok([NoCall EXCEPT !.op = "delete", !.step = s, !.result = t])
                 /\ Ok([NoCall EXCEPT !.op = "delete", !.step = s, !.row = t])
      BY NoCallOk DEF IsLibCall, LibFields, CarriesOk, Asking
    <3>2. \/ \E s, t, u : Go(c, [NoCall EXCEPT !.op = "delete", !.step = s, !.id = t, !.row = u])
          \/ \E s, t : Go(c, [NoCall EXCEPT !.op = "delete", !.step = s, !.result = t])
          \/ \E s, t : Go(c, [NoCall EXCEPT !.op = "delete", !.step = s, !.row = t])
      BY <2>3, Zenon DEF FindConn, MemDelete
    <3> HIDE DEF Ok
    <3> QED
      BY <3>1, <3>2
  <2> QED
    BY <2>1, <2>2, <2>3
<1> QED
  BY <1>2, <1>3, <1>4, <1>5, <1>6, CarryMoves

LEMMA AskingTyped ==
    ASSUME LibTyping, NEW c \in LibCallers, ResolveConn(c) \/ Forget(c) \/ Lookup(c) \/ Query(c) \/ Fill(c)
    PROVE  LibTyping'
<1> PICK x : x = libCalls[c]
  OBVIOUS
<1>1. /\ IsLibCall(x) /\ CarriesOk(x) /\ LibShape /\ libCase \in LibCases
      /\ metaCached \in [Servers -> Lists \cup {NoList}] /\ schema \in [Servers -> 0 .. MaxSchema]
      /\ conns \in [LibIds -> Records \cup {NoConn}] /\ inline \in [LibIds -> Records \cup {NoConn}]
      /\ attached \subseteq [conn : LibIds, kind : Kinds]
  BY DEF LibTyping, LibShape
<1>2. libCase' = libCase /\ schema' = schema /\ conns' = conns /\ inline' = inline /\ attached' = attached
  BY DEF ResolveConn, Forget, Lookup, Query, Fill
<1>3. ASSUME NEW new, IsLibCall(new), CarriesOk(new), Go(c, new), metaCached' \in [Servers -> Lists \cup {NoList}]
      PROVE  LibTyping'
  BY <1>1, <1>2, <1>3, CarryMoves
<1>4. CASE ResolveConn(c)
  <2>1. metaCached' = metaCached
    BY <1>4 DEF ResolveConn
  <2> PICK key \in libCase.keys, force \in BOOLEAN, lib \in LoadConns :
             \/ Go(c, [NoCall EXCEPT !.op = "list", !.step = "done", !.result = "error"])
             \/ \E r \in Resolved(lib, key) :
                  Go(c, [NoCall EXCEPT !.op = "list", !.rec = r, !.force = force,
                         !.since = schema[r.server], !.step = IF force THEN "forget" ELSE "lookup"])
    BY <1>4 DEF ResolveConn
  <2>2. CASE Go(c, [NoCall EXCEPT !.op = "list", !.step = "done", !.result = "error"])
    <3> PICK new : new = [NoCall EXCEPT !.op = "list", !.step = "done", !.result = "error"]
      OBVIOUS
    <3>1. IsLibCall(new) /\ Go(c, new) /\ new.op = "list" /\ new.step = "done" /\ new.list = NoList
      BY <2>2, NoCallOk DEF IsLibCall, LibFields
    <3>2. CarriesOk(new)
      BY <3>1 DEF CarriesOk, Asking
    <3> QED
      BY <1>1, <1>3, <2>1, <3>1, <3>2
  <2>3. ASSUME NEW r \in Resolved(lib, key),
               Go(c, [NoCall EXCEPT !.op = "list", !.rec = r, !.force = force,
                         !.since = schema[r.server], !.step = IF force THEN "forget" ELSE "lookup"])
        PROVE  LibTyping'
    <3> PICK new : new = [NoCall EXCEPT !.op = "list", !.rec = r, !.force = force,
                         !.since = schema[r.server], !.step = IF force THEN "forget" ELSE "lookup"]
      OBVIOUS
    <3>1. /\ IsLibCall(new) /\ Go(c, new) /\ new.op = "list" /\ new.rec = r /\ new.list = NoList
          /\ new.step \in {"forget", "lookup"}
      BY <2>3, NoCallOk DEF IsLibCall, LibFields
    <3>2. r \in Records
      <4>1. \A i \in AnyConn(inline, key) : inline[i] \in Records
        BY <1>1 DEF AnyConn, Ids
      <4>2. \A i \in GetConn(lib, key) : lib[i] \in Records
        BY <1>1, LoadedTyped DEF GetConn, Ids
      <4>3. key \in DOMAIN libCase.provider => libCase.provider[key] \in Records
        BY <1>1, LibCasesAssumption
      <4> QED
        BY <4>1, <4>2, <4>3 DEF Resolved
    <3>3. CarriesOk(new)
      BY <3>1, <3>2 DEF CarriesOk, Asking
    <3> QED
      BY <1>1, <1>3, <2>1, <3>1, <3>3
  <2> QED
    BY <2>2, <2>3
<1>5. ASSUME x.op = "list", x.step \notin {"new", "done"} PROVE x.rec \in Records /\ x.rec.server \in Servers
  BY <1>1, <1>5 DEF CarriesOk, Asking, Records
<1>6. CASE Forget(c)
  <2> PICK new : new = [x EXCEPT !.step = "lookup"]
    OBVIOUS
  <2>1. x.op = "list" /\ x.step = "forget" /\ metaCached' = [metaCached EXCEPT ![x.rec.server] = NoList]
    BY <1>6 DEF Forget, AtStep
  <2>2. /\ IsLibCall(new) /\ Go(c, new) /\ new.op = "list" /\ new.rec = x.rec /\ new.list = x.list /\ new.step = "lookup"
    BY <1>1, <1>6, <2>1 DEF Forget, ToStep, IsLibCall, LibFields
  <2>3. CarriesOk(new)
    BY <1>1, <1>5, <2>1, <2>2 DEF CarriesOk, Asking
  <2>4. metaCached' \in [Servers -> Lists \cup {NoList}]
    BY <1>1, <2>1
  <2> QED
    BY <1>3, <2>2, <2>3, <2>4
<1>7. CASE Lookup(c)
  <2>1. x.op = "list" /\ x.step = "lookup" /\ metaCached' = metaCached
    BY <1>7 DEF Lookup, AtStep
  <2> PICK hit : hit = metaCached[x.rec.server]
    OBVIOUS
  <2>2. hit \in Lists \cup {NoList}
    BY <1>1, <1>5, <2>1
  <2>3. CASE Go(c, [x EXCEPT !.step = "query"])
    <3> PICK new : new = [x EXCEPT !.step = "query"]
      OBVIOUS
    <3>1. IsLibCall(new) /\ Go(c, new) /\ new.op = "list" /\ new.rec = x.rec /\ new.list = x.list /\ new.step = "query"
      BY <1>1, <2>1, <2>3 DEF IsLibCall, LibFields
    <3>2. CarriesOk(new)
      BY <1>1, <1>5, <2>1, <3>1 DEF CarriesOk, Asking
    <3> QED
      BY <1>1, <1>3, <2>1, <3>1, <3>2
  <2>4. CASE Go(c, [x EXCEPT !.list = hit, !.step = "done", !.result = "ok"])
    <3> PICK new : new = [x EXCEPT !.list = hit, !.step = "done", !.result = "ok"]
      OBVIOUS
    <3>1. IsLibCall(new) /\ Go(c, new) /\ new.op = "list" /\ new.list = hit /\ new.step = "done"
      BY <1>1, <2>1, <2>4 DEF IsLibCall, LibFields
    <3>2. CarriesOk(new)
      BY <2>2, <3>1 DEF CarriesOk, Asking
    <3> QED
      BY <1>1, <1>3, <2>1, <3>1, <3>2
  <2> QED
    BY <1>7, <2>3, <2>4 DEF Lookup, ToStep
<1>8. CASE Query(c)
  <2>1. x.op = "list" /\ x.step = "query" /\ metaCached' = metaCached
    BY <1>8 DEF Query, AtStep
  <2> PICK l : l = DatabaseList(x.rec)
    OBVIOUS
  <2>2. l \in Lists
    <3>1. /\ x.rec.server \in Servers /\ x.rec.only \in {"all", "one"} /\ schema[x.rec.server] \in 0 .. MaxSchema
      BY <1>1, <1>5, <2>1 DEF Records
    <3> QED
      BY <3>1 DEF DatabaseList, Lists
  <2>3. CASE Go(c, [x EXCEPT !.list = l, !.step = "fill"])
    <3> PICK new : new = [x EXCEPT !.list = l, !.step = "fill"]
      OBVIOUS
    <3>1. IsLibCall(new) /\ Go(c, new) /\ new.op = "list" /\ new.rec = x.rec /\ new.list = l /\ new.step = "fill"
      BY <1>1, <2>1, <2>3 DEF IsLibCall, LibFields
    <3>2. CarriesOk(new)
      BY <1>5, <2>1, <2>2, <3>1 DEF CarriesOk, Asking
    <3> QED
      BY <1>1, <1>3, <2>1, <3>1, <3>2
  <2>4. CASE Finish(c, "error")
    <3> PICK new : new = [x EXCEPT !.step = "done", !.result = "error"]
      OBVIOUS
    <3>1. IsLibCall(new) /\ Go(c, new) /\ new.op = "list" /\ new.list = x.list /\ new.step = "done"
      BY <1>1, <2>1, <2>4 DEF IsLibCall, LibFields, Finish
    <3>2. CarriesOk(new)
      BY <1>1, <3>1 DEF CarriesOk, Asking
    <3> QED
      BY <1>1, <1>3, <2>1, <3>1, <3>2
  <2> QED
    BY <1>8, <2>3, <2>4 DEF Query
<1>9. CASE Fill(c)
  <2>1. x.op = "list" /\ x.step = "fill" /\ metaCached' = [metaCached EXCEPT ![x.rec.server] = x.list]
    BY <1>9 DEF Fill, AtStep
  <2>2. x.list \in Lists
    BY <1>1, <2>1 DEF CarriesOk
  <2> PICK new : new = [x EXCEPT !.step = "done", !.result = "ok"]
    OBVIOUS
  <2>3. IsLibCall(new) /\ Go(c, new) /\ new.op = "list" /\ new.list = x.list /\ new.step = "done"
    BY <1>1, <1>9, <2>1 DEF Fill, Finish, IsLibCall, LibFields
  <2>4. CarriesOk(new) /\ metaCached' \in [Servers -> Lists \cup {NoList}]
    BY <1>1, <1>5, <2>1, <2>2, <2>3 DEF CarriesOk, Asking
  <2> QED
    BY <1>3, <2>3, <2>4
<1> QED
  BY <1>4, <1>6, <1>7, <1>8, <1>9

LEMMA LibTyped == LibSpec => []LibTypeOK
<1>1. LibInit => LibTyping
  <2> SUFFICES ASSUME LibInit PROVE LibTyping
    OBVIOUS
  <2>1. /\ conns  = [i \in LibIds |-> IF i \in DOMAIN libCase.stored THEN libCase.stored[i] ELSE NoConn]
        /\ inline = [i \in LibIds |-> IF i \in DOMAIN libCase.inline THEN libCase.inline[i] ELSE NoConn]
        /\ schema = [s \in Servers |-> 0] /\ metaCached = [s \in Servers |-> NoList] /\ libCase \in LibCases
        /\ attached = {} /\ libCalls = [c \in LibCallers |-> NoCall]
    BY DEF LibInit
  <2>2. conns \in [LibIds -> Records \cup {NoConn}] /\ inline \in [LibIds -> Records \cup {NoConn}]
    <3>1. /\ \A i \in DOMAIN libCase.stored : libCase.stored[i] \in Records
          /\ \A i \in DOMAIN libCase.inline : libCase.inline[i] \in Records
      BY <2>1, LibCasesAssumption
    <3> QED
      BY <2>1, <3>1
  <2>3. schema \in [Servers -> 0 .. MaxSchema]
    BY <2>1, LibAssumption
  <2>4. \A c \in LibCallers : libCalls[c] = NoCall
    BY <2>1
  <2> QED
    BY <2>1, <2>2, <2>3, <2>4, NoCallOk DEF LibTyping, LibShape
<1>2. LibTyping /\ [LibNext]_libVars => LibTyping'
  <2> SUFFICES ASSUME LibTyping, [LibNext]_libVars PROVE LibTyping'
    OBVIOUS
  <2>1. /\ LibShape /\ schema \in [Servers -> 0 .. MaxSchema] /\ metaCached \in [Servers -> Lists \cup {NoList}]
        /\ attached \subseteq [conn : LibIds, kind : Kinds]
    BY DEF LibTyping, LibShape
  <2>2. ASSUME libCase' = libCase, conns' = conns, inline' = inline, libCalls' = libCalls,
               attached' \subseteq [conn : LibIds, kind : Kinds], schema' \in [Servers -> 0 .. MaxSchema],
               metaCached' \in [Servers -> Lists \cup {NoList}]
        PROVE  LibTyping'
    BY <2>2 DEF LibTyping, LibShape, CarriesOk, Asking
  <2>3. ASSUME NEW id \in LibIds, NEW k \in Kinds, Attach(id, k) PROVE LibTyping'
    BY <2>1, <2>2, <2>3 DEF Attach
  <2>4. ASSUME NEW s \in Servers, Alter(s) PROVE LibTyping'
    <3>1. schema[s] \in 0 .. MaxSchema /\ schema[s] < MaxSchema /\ schema' = [schema EXCEPT ![s] = schema[s] + 1]
      BY <2>1, <2>4 DEF Alter
    <3>2. schema[s] + 1 \in 0 .. MaxSchema
      BY <3>1, LibAssumption
    <3>3. schema' \in [Servers -> 0 .. MaxSchema]
      BY <2>1, <3>1, <3>2
    <3> QED
      BY <2>1, <2>2, <2>4, <3>3 DEF Alter
  <2>5. ASSUME NEW s \in Servers, Expire(s) PROVE LibTyping'
    BY <2>1, <2>2, <2>5 DEF Expire
  <2>6. CASE UNCHANGED libVars
    BY <2>1, <2>2, <2>6 DEF libVars
  <2> QED
    BY <2>3, <2>4, <2>5, <2>6, ChangesTyped, AskingTyped DEF LibNext
<1>3. LibTyping => LibTypeOK
  BY DEF LibTyping, LibShape, LibTypeOK, CarriesOk
<1> QED
  BY <1>1, <1>2, <1>3, PTL DEF LibSpec

-----------------------------------------------------------------------------
(* The variables of the component at work have their types, in every            *)
(* interleaving of its calls: rows and records of the tables, positions of      *)
(* requests in their statements, options and where they come from.            *)
THEOREM LibraryTyped == LibrarySpec => []LibraryTypeOK
<1>1. ArtTypeOK /\ LibTypeOK /\ SqlTypeOK /\ TaskTypeOK => LibraryTypeOK
  BY DEF LibraryTypeOK
<1> QED
  BY <1>1, EachPart, ArtTyped, LibTyped, SqlTyped, TasksTyped, PTL


=============================================================================
