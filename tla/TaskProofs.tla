----------------------------- MODULE TaskProofs -----------------------------
(***************************************************************************)
(* TLAPS proofs about the task runner, for any set of tasks and clients,   *)
(* any channel capacity and any bound: its streams of progress, its        *)
(* records, and that it keeps the promise of TaskLifecycle.                *)
(***************************************************************************)
EXTENDS TaskProps, SequenceTheorems, TLAPS

(* Offering an event newer than everything in flight keeps the order and   *)
(* makes it the newest (first select of publish, and the retry).           *)
LEMMA AppendKeepsOrder ==
    ASSUME NEW s \in Seq(Event), NEW last \in Event, NEW e \in Event,
           InOrder(s, last), NewestOf(s, last).seq < e.seq,
           NewestOf(s, last).state \notin Terminal
    PROVE  /\ Append(s, e) \in Seq(Event)
           /\ Len(Append(s, e)) = Len(s) + 1
           /\ InOrder(Append(s, e), last)
           /\ NewestOf(Append(s, e), last) = e
<1> DEFINE r == Append(s, e)
<1>1. /\ r \in Seq(Event) /\ Len(s) \in Nat /\ Len(r) = Len(s) + 1
      /\ \A i \in 1 .. Len(s) : r[i] = s[i] /\ s[i] \in Event
      /\ r[Len(s) + 1] = e
      /\ r # <<>>
  OBVIOUS
<1>2. NewestOf(r, last) = e
  BY <1>1 DEF NewestOf
<1>3. last.seq \in Nat /\ e.seq \in Nat /\ \A i \in 1 .. Len(s) : s[i].seq \in Nat
  BY <1>1 DEF Event
<1>4. last.seq < e.seq /\ (Len(s) > 0 => s[Len(s)].seq < e.seq /\ s[Len(s)].state \notin Terminal)
  <2>1. CASE s = <<>>
    BY <2>1 DEF NewestOf
  <2>2. CASE s # <<>>
    <3>1. Len(s) \in 1 .. Len(s)
      BY <2>2, <1>1
    <3>2. last.seq < s[Len(s)].seq
      BY <3>1 DEF InOrder
    <3> QED BY <2>2, <3>1, <3>2, <1>3 DEF NewestOf
  <2> QED BY <2>1, <2>2
<1>5. ASSUME NEW i \in 1 .. Len(r)
      PROVE  /\ last.seq < r[i].seq
             /\ r[i].state \in Terminal => i = Len(r)
             /\ \A j \in 1 .. i - 1 : r[j].seq < r[i].seq
  <2>1. CASE i \in 1 .. Len(s)
    <3>1. \A j \in 1 .. i - 1 : j \in 1 .. Len(s)
      BY <2>1, <1>1
    <3>2. s[i].state \notin Terminal
      BY <2>1, <1>1, <1>4 DEF InOrder
    <3> QED BY <2>1, <3>1, <3>2, <1>1 DEF InOrder
  <2>2. CASE i = Len(s) + 1
    <3>1. ASSUME NEW j \in 1 .. i - 1
          PROVE  r[j].seq < r[i].seq
      <4>1. j \in 1 .. Len(s) /\ Len(s) \in 1 .. Len(s)
        BY <2>2, <1>1
      <4>2. j = Len(s) \/ (j \in 1 .. Len(s) - 1 /\ s[j].seq < s[Len(s)].seq)
        BY <4>1, <1>1 DEF InOrder
      <4> QED BY <4>1, <4>2, <2>2, <1>1, <1>3, <1>4
    <3> QED BY <3>1, <2>2, <1>1, <1>4
  <2> QED BY <1>1, <2>1, <2>2
<1>6. InOrder(r, last)
  BY <1>5 DEF InOrder
<1> QED BY <1>1, <1>2, <1>6

(* Taking the oldest event away keeps the rest in order and leaves the     *)
(* newest one in place, unless it was the only one.                        *)
LEMMA TailKeepsOrder ==
    ASSUME NEW s \in Seq(Event), NEW last \in Event, s # <<>>, InOrder(s, last)
    PROVE  /\ Tail(s) \in Seq(Event) /\ Head(s) \in Event
           /\ Len(Tail(s)) = Len(s) - 1
           /\ InOrder(Tail(s), last)
           /\ InOrder(Tail(s), Head(s))
           /\ NewestOf(Tail(s), Head(s)) = NewestOf(s, last)
           /\ Tail(s) # <<>> => NewestOf(Tail(s), last) = NewestOf(s, last)
           /\ Tail(s) = <<>> => NewestOf(Tail(s), last) = last
           /\ last.seq < NewestOf(s, last).seq
           /\ Head(s).state \in Terminal => Tail(s) = <<>>
<1> DEFINE r == Tail(s)
<1>1. /\ r \in Seq(Event) /\ Len(s) \in Nat /\ Len(s) > 0 /\ Len(r) = Len(s) - 1
      /\ \A i \in 1 .. Len(r) : r[i] = s[i + 1]
      /\ Head(s) = s[1] /\ Head(s) \in Event
      /\ \A i \in 1 .. Len(s) : s[i] \in Event
      /\ (r = <<>> <=> Len(r) = 0)
  <2>1. Head(s) \in Event /\ r \in Seq(Event) /\ Len(r) = Len(s) - 1
        /\ \A i \in 1 .. Len(r) : r[i] = s[i + 1]
    BY HeadTailProperties
  <2>2. Len(s) \in Nat /\ Len(s) > 0 /\ (r = <<>> <=> Len(r) = 0)
    <3>1. Len(s) \in Nat /\ Len(r) \in Nat
      BY <2>1, LenProperties
    <3>2. r = <<>> <=> Len(r) = 0
      BY <2>1, EmptySeq
    <3> HIDE DEF r
    <3> QED BY <2>1, <3>1, <3>2
  <2>3. Head(s) = s[1] /\ \A i \in 1 .. Len(s) : s[i] \in Event
    BY ElementOfSeq
  <2> QED BY <2>1, <2>2, <2>3
<1> HIDE DEF r
<1>2. last.seq \in Nat /\ \A i \in 1 .. Len(s) : s[i].seq \in Nat
  BY <1>1 DEF Event
<1>3. ASSUME NEW i \in 1 .. Len(r)
      PROVE  /\ last.seq < r[i].seq
             /\ s[1].seq < r[i].seq
             /\ r[i].state \in Terminal => i = Len(r)
             /\ \A j \in 1 .. i - 1 : r[j].seq < r[i].seq
  <2>1. i + 1 \in 1 .. Len(s) /\ r[i] = s[i + 1] /\ 1 \in 1 .. (i + 1) - 1
    BY <1>1
  <2>2. \A j \in 1 .. i - 1 : j + 1 \in 1 .. (i + 1) - 1 /\ r[j] = s[j + 1]
    BY <1>1
  <2>3. /\ last.seq < s[i + 1].seq
        /\ s[i + 1].state \in Terminal => i + 1 = Len(s)
        /\ \A j \in 1 .. (i + 1) - 1 : s[j].seq < s[i + 1].seq
    BY <2>1, <1>1 DEF InOrder
  <2>4. \A j \in 1 .. i - 1 : r[j].seq < r[i].seq
    <3> SUFFICES ASSUME NEW j \in 1 .. i - 1 PROVE r[j].seq < r[i].seq
      OBVIOUS
    <3>1. j + 1 \in 1 .. (i + 1) - 1 /\ r[j] = s[j + 1]
      BY <2>2
    <3>2. s[j + 1].seq < s[i + 1].seq
      BY <3>1, <2>3
    <3> QED BY <3>1, <3>2, <2>1
  <2>5. r[i].state \in Terminal => i = Len(r)
    BY <2>1, <2>3, <1>1
  <2>6. last.seq < r[i].seq /\ s[1].seq < r[i].seq
    BY <2>1, <2>3
  <2> QED BY <2>4, <2>5, <2>6
<1>4. InOrder(r, last) /\ InOrder(r, Head(s))
  BY <1>1, <1>3 DEF InOrder
<1>5. r # <<>> => r[Len(r)] = s[Len(s)]
  <2> SUFFICES ASSUME r # <<>> PROVE r[Len(r)] = s[Len(s)]
    OBVIOUS
  <2>1. Len(r) \in 1 .. Len(r) /\ Len(r) + 1 = Len(s)
    <3>1. Len(r) \in Nat
      BY <1>1, LenProperties
    <3> QED BY <3>1, <1>1
  <2> QED BY <2>1, <1>1
<1>6. r = <<>> => Head(s) = s[Len(s)] /\ Len(s) = 1
  <2> SUFFICES ASSUME r = <<>> PROVE Head(s) = s[Len(s)] /\ Len(s) = 1
    OBVIOUS
  <2>1. Len(r) = 0
    BY <1>1
  <2>2. Len(s) = 1
    BY <2>1, <1>1
  <2> QED BY <2>2, <1>1
<1>7. Len(s) \in 1 .. Len(s) /\ 1 \in 1 .. Len(s)
  BY <1>1
<1>8. Head(s).state \in Terminal => r = <<>>
  <2>1. s[1].state \in Terminal => 1 = Len(s)
    BY <1>7 DEF InOrder
  <2> QED BY <2>1, <1>1
<1>9. last.seq < s[Len(s)].seq
  BY <1>7 DEF InOrder
<1> QED BY <1>1, <1>4, <1>5, <1>6, <1>8, <1>9 DEF NewestOf, r

-----------------------------------------------------------------------------
(* What an action leaves alone, for the actions that only move a goroutine *)
(* or a record.                                                            *)
StreamsUntouched == UNCHANGED <<latest, subs, pub, chan, clientVars>>

LEMMA EventTypes == NoEvent \in Event /\ \A e \in Event : e.seq \in Nat
  BY DEF NoEvent, Event

LEMMA PubType ==
    ASSUME pub \in {Idle} \cup [step : {"offer", "evict", "retry"}, task : Tasks,
                                todo : SUBSET Clients, cur : Clients \cup {None}],
           pub.step # "idle"
    PROVE  pub \in [step : {"offer", "evict", "retry"}, task : Tasks,
                    todo : SUBSET Clients, cur : Clients \cup {None}]
  BY DEF Idle

LEMMA AppendType ==
    ASSUME NEW s \in Seq(Event), NEW e \in Event
    PROVE  /\ Append(s, e) \in Seq(Event)
           /\ Len(s) \in Nat /\ Len(Append(s, e)) = Len(s) + 1
  OBVIOUS

(* The type invariant is inductive on its own.                             *)
LEMMA TypeInit == Init => TypeOK
<1> SUFFICES ASSUME Init PROVE TypeOK
  OBVIOUS
<1> USE DEF Init
<1>1. chan \in [Clients -> Seq(Event)] /\ \A c \in Clients : Len(chan[c]) <= Cap
  BY CapAssumption, EmptySeq
<1> QED BY <1>1, EventTypes, BoundAssumption DEF TypeOK, Stages

LEMMA TypeStep == TypeOK /\ [Next]_vars => TypeOK'
<1> SUFFICES ASSUME TypeOK, [Next]_vars PROVE TypeOK'
  OBVIOUS
<1> USE DEF taskVars, runnerVars, clientVars
<1>1. ASSUME NEW t \in Tasks, SaveRunning(t) PROVE TypeOK'
  BY <1>1 DEF SaveRunning, TypeOK, Stages
<1>2. ASSUME NEW t \in Tasks, Register(t) PROVE TypeOK'
  BY <1>2 DEF Register, TypeOK, Stages
<1>3. ASSUME NEW t \in Tasks, NEW s \in {"running"} \cup Terminal, BeginPublish(t, s)
      PROVE  /\ latest' \in [Tasks -> Event]
             /\ pub' \in [step : {"offer"}, task : Tasks, todo : SUBSET Clients,
                          cur : {None}]
  BY <1>3 DEF BeginPublish, TypeOK, Event
<1>4. ASSUME NEW t \in Tasks, EnginePublish(t) PROVE TypeOK'
  <2>1. BeginPublish(t, "running")
    BY <1>4 DEF EnginePublish
  <2>2. latest' \in [Tasks -> Event]
        /\ pub' \in [step : {"offer"}, task : Tasks, todo : SUBSET Clients, cur : {None}]
    BY <1>3, <2>1
  <2> QED BY <1>4, <2>2 DEF EnginePublish, TypeOK
<1>5. ASSUME NEW t \in Tasks, Relay(t) PROVE TypeOK'
  <2>1. CASE BeginPublish(t, "running")
    <3>1. latest' \in [Tasks -> Event]
          /\ pub' \in [step : {"offer"}, task : Tasks, todo : SUBSET Clients, cur : {None}]
      BY <1>3, <2>1
    <3> QED BY <1>5, <3>1 DEF Relay, TypeOK, Stages
  <2>2. CASE UNCHANGED <<latest, pub>>
    BY <1>5, <2>2 DEF Relay, TypeOK, Stages
  <2> QED BY <1>5, <2>1, <2>2 DEF Relay
<1>6. ASSUME NEW t \in Tasks, PublishFinal(t) PROVE TypeOK'
  <2>1. BeginPublish(t, Conclude(t)) /\ Conclude(t) \in {"running"} \cup Terminal
    BY <1>6 DEF PublishFinal, Conclude, Terminal
  <2>2. latest' \in [Tasks -> Event]
        /\ pub' \in [step : {"offer"}, task : Tasks, todo : SUBSET Clients, cur : {None}]
    BY <1>3, <2>1
  <2> QED BY <1>6, <2>2 DEF PublishFinal, TypeOK, Stages
<1>7. ASSUME NEW t \in Tasks, EngineReturn(t) \/ EnginePanic(t) PROVE TypeOK'
  <2>1. CASE EngineReturn(t)
    <3>1. PICK o \in {"ok", "failed"} :
             /\ outcome' = [outcome EXCEPT ![t] = o]
             /\ stage' = [stage EXCEPT ![t] = "returned"]
      BY <2>1 DEF EngineReturn
    <3> QED BY <2>1, <3>1 DEF EngineReturn, TypeOK, Stages
  <2>2. CASE EnginePanic(t)
    BY <2>2 DEF EnginePanic, TypeOK, Stages
  <2> QED BY <1>7, <2>1, <2>2
<1>8. ASSUME NEW t \in Tasks, DecideRecord(t) PROVE TypeOK'
  BY <1>8 DEF DecideRecord, Conclude, TypeOK, Stages, Terminal
<1>9. ASSUME NEW t \in Tasks, SaveFinal(t) PROVE TypeOK'
  <2>1. stage' \in [Tasks -> Stages]
    BY <1>9 DEF SaveFinal, TypeOK, Stages
  <2>2. history' \in [Tasks -> {"absent", "running"} \cup Terminal]
    BY <1>9 DEF SaveFinal, TypeOK, Terminal
  <2> QED BY <1>9, <2>1, <2>2 DEF SaveFinal, TypeOK
<1>10. ASSUME NEW t \in Tasks, Unregister(t) PROVE TypeOK'
  BY <1>10 DEF Unregister, TypeOK, Stages
<1>11. ASSUME NEW t \in Tasks, Cancel(t) \/ DeleteHistory(t) PROVE TypeOK'
  BY <1>11 DEF Cancel, DeleteHistory, TypeOK
<1>12. ASSUME NEW c \in Clients, Offer(c) PROVE TypeOK'
  <2>1. pub \in [step : {"offer", "evict", "retry"}, task : Tasks,
                 todo : SUBSET Clients, cur : Clients \cup {None}]
    BY <1>12, PubType DEF Offer, TypeOK
  <2>2. pub' \in [step : {"offer", "evict", "retry"}, task : Tasks,
                  todo : SUBSET Clients, cur : Clients \cup {None}]
    BY <1>12, <2>1 DEF Offer
  <2>3. chan' \in [Clients -> Seq(Event)] /\ \A d \in Clients : Len(chan'[d]) <= Cap
    <3>1. Offered \in Event /\ chan[c] \in Seq(Event)
      BY <2>1 DEF TypeOK, Offered
    <3>2. /\ Append(chan[c], Offered) \in Seq(Event)
          /\ Len(Append(chan[c], Offered)) = Len(chan[c]) + 1 /\ Len(chan[c]) \in Nat
      BY <3>1, AppendType
    <3>3. chan \in [Clients -> Seq(Event)] /\ \A d \in Clients : Len(chan[d]) <= Cap
      BY DEF TypeOK
    <3>4. CASE Len(chan[c]) < Cap
      <4>1. chan' = [chan EXCEPT ![c] = Append(chan[c], Offered)]
        BY <1>12, <3>4 DEF Offer
      <4>2. Len(Append(chan[c], Offered)) <= Cap
        BY <3>2, <3>4, CapAssumption
      <4> HIDE DEF Offered
      <4> QED BY <4>1, <4>2, <3>2, <3>3
    <3>5. CASE ~(Len(chan[c]) < Cap)
      BY <1>12, <3>3, <3>5 DEF Offer
    <3> QED BY <3>4, <3>5
  <2> QED BY <1>12, <2>2, <2>3 DEF Offer, TypeOK
<1>13. ASSUME Evict PROVE TypeOK'
  <2>1. pub' \in [step : {"offer", "evict", "retry"}, task : Tasks,
                  todo : SUBSET Clients, cur : Clients \cup {None}]
    BY <1>13, PubType DEF Evict, TypeOK
  <2>2. ASSUME NEW d \in Clients
        PROVE  chan'[d] \in Seq(Event) /\ Len(chan'[d]) <= Cap
    <3>1. CASE chan[d] # <<>>
      <4>1. Tail(chan[d]) \in Seq(Event) /\ Len(Tail(chan[d])) = Len(chan[d]) - 1
        BY <3>1, HeadTailProperties DEF TypeOK
      <4> QED BY <1>13, <4>1, CapAssumption DEF Evict, TypeOK
    <3>2. CASE chan[d] = <<>>
      BY <1>13, <3>2 DEF Evict, TypeOK
    <3> QED BY <3>1, <3>2
  <2>3. chan' \in [Clients -> Seq(Event)]
    BY <1>13, <2>2 DEF Evict, TypeOK
  <2> QED BY <1>13, <2>1, <2>2, <2>3 DEF Evict, TypeOK
<1>14. ASSUME Retry PROVE TypeOK'
  <2>1. pub \in [step : {"offer", "evict", "retry"}, task : Tasks,
                 todo : SUBSET Clients, cur : Clients \cup {None}]
    BY <1>14, PubType DEF Retry, TypeOK
  <2>2. pub' \in [step : {"offer", "evict", "retry"}, task : Tasks,
                  todo : SUBSET Clients, cur : Clients \cup {None}]
    BY <1>14, <2>1 DEF Retry
  <2>3. ASSUME NEW d \in Clients
        PROVE  chan'[d] \in Seq(Event) /\ Len(chan'[d]) <= Cap
    <3>1. Offered \in Event /\ chan[d] \in Seq(Event)
      BY <2>1 DEF TypeOK, Offered
    <3>2. /\ Append(chan[d], Offered) \in Seq(Event)
          /\ Len(Append(chan[d], Offered)) = Len(chan[d]) + 1 /\ Len(chan[d]) \in Nat
      BY <3>1, AppendType
    <3>3. chan'[d] = chan[d] \/ (Len(chan[d]) < Cap /\ chan'[d] = Append(chan[d], Offered))
      BY <1>14 DEF Retry, TypeOK
    <3>4. CASE chan'[d] = chan[d]
      BY <3>1, <3>4 DEF TypeOK
    <3>5. CASE Len(chan[d]) < Cap /\ chan'[d] = Append(chan[d], Offered)
      <4>1. Len(Append(chan[d], Offered)) <= Cap
        BY <3>2, <3>5, CapAssumption
      <4> QED BY <4>1, <3>2, <3>5
    <3> QED BY <3>3, <3>4, <3>5
  <2>4. chan' = [e \in Clients |-> chan'[e]]
    BY <1>14 DEF Retry, TypeOK
  <2>5. chan' \in [Clients -> Seq(Event)]
    BY <2>3, <2>4
  <2> QED BY <1>14, <2>2, <2>3, <2>5 DEF Retry, TypeOK
<1>15. ASSUME EndPublish PROVE TypeOK'
  BY <1>15 DEF EndPublish, TypeOK
<1>16. ASSUME NEW c \in Clients, NEW t \in Tasks, Subscribe(c, t) PROVE TypeOK'
  <2>1. chan' \in [Clients -> Seq(Event)] /\ \A d \in Clients : Len(chan'[d]) <= Cap
    <3>1. ASSUME NEW e \in Event PROVE <<e>> \in Seq(Event) /\ Len(<<e>>) = 1
      OBVIOUS
    <3> QED BY <1>16, <3>1, EmptySeq, CapAssumption DEF Subscribe, TypeOK
  <2> QED BY <1>16, <2>1, EventTypes DEF Subscribe, TypeOK
<1>17. ASSUME NEW c \in Clients, NEW t \in Tasks, SubscribeMiss(c, t) PROVE TypeOK'
  BY <1>17, EventTypes DEF SubscribeMiss, TypeOK
<1>18. ASSUME NEW c \in Clients, Replay(c) PROVE TypeOK'
  BY <1>18 DEF Replay, TypeOK, Event, Terminal
<1>19. ASSUME NEW c \in Clients, Receive(c) PROVE TypeOK'
  <2>1. /\ Head(chan[c]) \in Event /\ Tail(chan[c]) \in Seq(Event)
        /\ Len(Tail(chan[c])) <= Len(chan[c])
    BY <1>19, HeadTailProperties, LenProperties DEF Receive, TypeOK
  <2> QED BY <1>19, <2>1, CapAssumption, LenProperties DEF Receive, TypeOK
<1>20. ASSUME NEW c \in Clients, ClientGone(c) PROVE TypeOK'
  BY <1>20 DEF ClientGone, TypeOK
<1>21. ASSUME NEW c \in Clients, Release(c) PROVE TypeOK'
  BY <1>21, EmptySeq, CapAssumption DEF Release, TypeOK
<1>22. ASSUME Crash PROVE TypeOK'
  BY <1>22, EventTypes, EmptySeq, CapAssumption, BoundAssumption
     DEF Crash, TypeOK, Stages
<1>23. ASSUME UNCHANGED vars PROVE TypeOK'
  BY <1>23 DEF vars, TypeOK
<1> QED
  BY <1>1, <1>2, <1>4, <1>5, <1>6, <1>7, <1>8, <1>9, <1>10, <1>11, <1>12, <1>13,
     <1>14, <1>15, <1>16, <1>17, <1>18, <1>19, <1>20, <1>21, <1>22, <1>23
     DEF Next, Goroutine, Publisher, Stream

(* No step of the runner, of a client or of a crash leaves the types; no   *)
(* channel ever holds more than its capacity.                              *)
THEOREM TypeCorrect == Spec => []TypeOK
  BY TypeInit, TypeStep, PTL DEF Spec
-----------------------------------------------------------------------------
(* The inductive invariant.  Actions that move only a goroutine, a context *)
(* or a record leave the streams alone.                                    *)
Quiet(t) ==
    \/ SaveRunning(t)  \/ Register(t)     \/ EngineReturn(t) \/ EnginePanic(t)
    \/ DecideRecord(t) \/ SaveFinal(t)    \/ Cancel(t)       \/ DeleteHistory(t)
    \/ Relay(t) /\ UNCHANGED <<latest, pub>>

LEMMA QuietSteps ==
    ASSUME NEW t \in Tasks, Quiet(t)
    PROVE  StreamsUntouched
  BY DEF Quiet, StreamsUntouched, SaveRunning, Register, EngineReturn, EnginePanic,
         DecideRecord, SaveFinal, Cancel, DeleteHistory, Relay, taskVars, runnerVars,
         clientVars

(* A goroutine that publishes: the task runs, its latest event was not     *)
(* final, and the new one is newer.                                        *)
Publishes(t, state) ==
    /\ BeginPublish(t, state)
    /\ stage[t] \in {"engine", "saved", "relayed"}
    /\ stage' = [stage EXCEPT ![t] = IF state \in Terminal THEN "final" ELSE stage'[t]]
    /\ stage'[t] \in (IF state \in Terminal THEN {"final"} ELSE {"engine", "relayed"})
    /\ UNCHANGED <<running, subs, chan, clientVars>>

LEMMA PublishSteps ==
    ASSUME TypeOK, NEW t \in Tasks,
           EnginePublish(t) \/ PublishFinal(t) \/ (Relay(t) /\ BeginPublish(t, "running"))
    PROVE  \E state \in {"running"} \cup Terminal : Publishes(t, state)
<1>1. CASE EnginePublish(t)
  <2>1. Publishes(t, "running")
    BY <1>1 DEF EnginePublish, Publishes, TypeOK, taskVars, Terminal
  <2> QED BY <2>1
<1>2. CASE PublishFinal(t)
  <2>1. Conclude(t) \in Terminal
    BY DEF Conclude, Terminal
  <2>2. Publishes(t, Conclude(t))
    BY <1>2, <2>1 DEF PublishFinal, Publishes, TypeOK, taskVars
  <2> QED BY <2>1, <2>2
<1>3. CASE Relay(t) /\ BeginPublish(t, "running")
  <2>1. Publishes(t, "running")
    BY <1>3 DEF Relay, Publishes, TypeOK, taskVars, Terminal
  <2> QED BY <2>1
<1> QED BY <1>1, <1>2, <1>3

(* Every step, sorted by what it does to the streams.                      *)
LEMMA StepKinds ==
    ASSUME TypeOK, [Next]_vars
    PROVE  \/ \E t \in Tasks : Quiet(t)
           \/ \E t \in Tasks, state \in {"running"} \cup Terminal : Publishes(t, state)
           \/ \E t \in Tasks : Unregister(t)
           \/ \E c \in Clients : Offer(c)
           \/ Evict \/ Retry \/ EndPublish
           \/ \E c \in Clients, t \in Tasks : Subscribe(c, t) \/ SubscribeMiss(c, t)
           \/ \E c \in Clients : Replay(c) \/ Receive(c) \/ ClientGone(c) \/ Release(c)
           \/ Crash \/ UNCHANGED vars
<1>1. ASSUME NEW t \in Tasks, Relay(t)
      PROVE  Quiet(t) \/ \E state \in {"running"} \cup Terminal : Publishes(t, state)
  <2>1. BeginPublish(t, "running") \/ UNCHANGED <<latest, pub>>
    BY <1>1 DEF Relay
  <2> QED BY <1>1, <2>1, PublishSteps DEF Quiet
<1>2. ASSUME NEW t \in Tasks, EnginePublish(t) \/ PublishFinal(t)
      PROVE  \E state \in {"running"} \cup Terminal : Publishes(t, state)
  BY <1>2, PublishSteps
<1> QED BY <1>1, <1>2 DEF Next, Goroutine, Publisher, Stream, Quiet

LEMMA IdleType == ASSUME TypeOK, MuFree PROVE pub = Idle /\ pub.todo = {}
  BY DEF TypeOK, MuFree, Publishing, Idle

(* A goroutine that moves on before its final event.                       *)
LEMMA StageMove ==
    ASSUME StageInv, NEW t \in Tasks, UNCHANGED latest,
           \A u \in Tasks \ {t} : stage'[u] = stage[u] /\ (u \in running' <=> u \in running),
           t \in running' <=> stage'[t] \in Active,
           stage[t] \notin {"final", "ended", "lost"}, stage'[t] \notin {"final", "ended", "lost"}
    PROVE  StageInv'
<1> SUFFICES ASSUME NEW u \in Tasks
             PROVE  /\ u \in running' <=> stage'[u] \in Active
                    /\ stage'[u] \in {"final", "ended"} => latest[u].state \in Terminal
                    /\ stage'[u] \notin {"final", "ended", "lost"} => latest[u].state \notin Terminal
                    /\ latest[u] = NoEvent \/ latest[u].seq > 0
  BY DEF StageInv
<1>1. CASE u = t
  BY <1>1 DEF StageInv
<1>2. CASE u # t
  BY <1>2 DEF StageInv
<1> QED BY <1>1, <1>2

(* The goroutine and the running table agree.                              *)
LEMMA StageStep == TypeOK /\ StageInv /\ [Next]_vars => StageInv'
<1> SUFFICES ASSUME TypeOK, StageInv, [Next]_vars PROVE StageInv'
  OBVIOUS
<1> USE DEF taskVars, runnerVars, clientVars, Active, Stages
<1>1. ASSUME NEW t \in Tasks, Quiet(t) PROVE StageInv'
  <2>1. CASE SaveRunning(t)
    BY <2>1 DEF SaveRunning, StageInv, TypeOK
  <2>2. CASE Register(t)
    <3>1. stage[t] = "recorded" /\ stage'[t] = "engine" /\ UNCHANGED latest /\ t \in running'
      BY <2>2 DEF Register, TypeOK
    <3>2. \A u \in Tasks \ {t} : stage'[u] = stage[u] /\ (u \in running' <=> u \in running)
      BY <2>2 DEF Register, TypeOK
    <3> QED BY <3>1, <3>2, StageMove
  <2>3. CASE EngineReturn(t) \/ EnginePanic(t) \/ DecideRecord(t) \/ SaveFinal(t)
    <3>1. /\ stage[t] \in {"engine", "returned", "decided"}
          /\ stage'[t] \in {"returned", "decided", "saved", "relayed"}
          /\ UNCHANGED <<latest, running>>
      BY <2>3 DEF EngineReturn, EnginePanic, DecideRecord, SaveFinal, TypeOK
    <3>2. \A u \in Tasks \ {t} : stage'[u] = stage[u]
      BY <2>3 DEF EngineReturn, EnginePanic, DecideRecord, SaveFinal, TypeOK
    <3>3. t \in running
      BY <3>1 DEF StageInv
    <3> QED BY <3>1, <3>2, <3>3, StageMove
  <2>5. CASE Cancel(t) \/ DeleteHistory(t)
    BY <2>5 DEF Cancel, DeleteHistory, StageInv, TypeOK
  <2>6. CASE Relay(t) /\ UNCHANGED <<latest, pub>>
    BY <2>6 DEF Relay, StageInv, TypeOK
  <2> QED BY <1>1, <2>1, <2>2, <2>3, <2>5, <2>6 DEF Quiet
<1>2. ASSUME NEW t \in Tasks, NEW state \in {"running"} \cup Terminal, Publishes(t, state)
      PROVE  StageInv'
  <2>1. /\ latest'[t].state = state /\ latest'[t].seq > 0
        /\ \A u \in Tasks \ {t} : latest'[u] = latest[u] /\ stage'[u] = stage[u]
    BY <1>2 DEF Publishes, BeginPublish, TypeOK, Event
  <2>2. "running" \notin Terminal
    BY DEF Terminal
  <2> QED BY <1>2, <2>1, <2>2 DEF Publishes, BeginPublish, StageInv, TypeOK
<1>3. ASSUME NEW t \in Tasks, Unregister(t) PROVE StageInv'
  BY <1>3 DEF Unregister, StageInv, TypeOK
<1>4. CASE Crash
  BY <1>4 DEF Crash, StageInv, TypeOK
<1>5. ASSUME UNCHANGED <<stage, running, latest>> PROVE StageInv'
  BY <1>5 DEF StageInv
<1> QED
  BY <1>1, <1>2, <1>3, <1>4, <1>5, StepKinds
     DEF Offer, Evict, Retry, EndPublish, Subscribe, SubscribeMiss, Replay, Receive,
         ClientGone, Release, vars

(* A subscriber set holds the connections that have not released yet.      *)
LEMMA SubsStep == TypeOK /\ StageInv /\ SubsInv /\ [Next]_vars => SubsInv'
<1> SUFFICES ASSUME TypeOK, StageInv, SubsInv, [Next]_vars PROVE SubsInv'
  OBVIOUS
<1> USE DEF taskVars, runnerVars, clientVars, Active
<1>1. ASSUME NEW t \in Tasks, Quiet(t) PROVE SubsInv'
  <2>1. StreamsUntouched
    BY <1>1, QuietSteps
  <2>2. running \subseteq running' /\ (\A u \in running' : u \in running \/ stage[u] = "recorded")
        /\ \A u \in Tasks : stage[u] \in Active \cup {"ended"} => stage'[u] \in Active \cup {"ended"}
    BY <1>1 DEF Quiet, SaveRunning, Register, EngineReturn, EnginePanic, DecideRecord,
                SaveFinal, Cancel, DeleteHistory, Relay, TypeOK
  <2> QED BY <2>1, <2>2 DEF SubsInv, StageInv, StreamsUntouched, TypeOK
<1>2. ASSUME NEW t \in Tasks, NEW state \in {"running"} \cup Terminal, Publishes(t, state)
      PROVE  SubsInv'
  BY <1>2 DEF Publishes, SubsInv, StageInv, TypeOK
<1>3. ASSUME NEW t \in Tasks, Unregister(t) PROVE SubsInv'
  BY <1>3 DEF Unregister, SubsInv, TypeOK
<1>4. ASSUME NEW c \in Clients, NEW t \in Tasks, Subscribe(c, t) PROVE SubsInv'
  BY <1>4 DEF Subscribe, SubsInv, StageInv, TypeOK
<1>5. ASSUME NEW c \in Clients, NEW t \in Tasks, SubscribeMiss(c, t) PROVE SubsInv'
  BY <1>5 DEF SubscribeMiss, SubsInv, TypeOK
<1>6. ASSUME NEW c \in Clients, Replay(c) \/ Receive(c) \/ ClientGone(c) PROVE SubsInv'
  <2>1. /\ UNCHANGED <<stage, running, subs, watch>>
        /\ \A d \in Clients \ {c} : phase'[d] = phase[d]
        /\ phase[c] = "fallback" => phase'[c] = "replayed"
        /\ phase[c] # "fallback" => phase[c] = "open" /\ phase'[c] \in {"open", "leaving"}
    BY <1>6 DEF Replay, Receive, ClientGone, TypeOK
  <2>2. ASSUME NEW t \in Tasks, NEW d \in subs[t]
        PROVE  t \in running' /\ watch'[d] = t /\ phase'[d] \in {"open", "leaving"}
    <3>1. t \in running /\ watch[d] = t /\ phase[d] \in {"open", "leaving"} /\ d \in Clients
      BY DEF SubsInv, TypeOK
    <3> QED BY <2>1, <3>1
  <2>3. ASSUME NEW d \in Clients, phase'[d] = "open"
        PROVE  phase[d] = "open"
    BY <2>1, <2>3
  <2> QED BY <2>1, <2>2, <2>3 DEF SubsInv
<1>7. ASSUME NEW c \in Clients, Release(c) PROVE SubsInv'
  BY <1>7 DEF Release, SubsInv, TypeOK
<1>8. CASE Crash
  BY <1>8 DEF Crash, SubsInv, TypeOK
<1>9. ASSUME UNCHANGED <<stage, running, subs, phase, watch>> PROVE SubsInv'
  BY <1>9 DEF SubsInv
<1> QED
  BY <1>1, <1>2, <1>3, <1>4, <1>5, <1>6, <1>7, <1>8, <1>9, StepKinds
     DEF Offer, Evict, Retry, EndPublish, vars

(* The publication in progress: whom it owes, and room after an eviction.  *)
LEMMA PubStep == TypeOK /\ StageInv /\ SubsInv /\ PubInv /\ [Next]_vars => PubInv'
<1> SUFFICES ASSUME TypeOK, StageInv, SubsInv, PubInv, [Next]_vars PROVE PubInv'
  OBVIOUS
<1> USE DEF taskVars, runnerVars, clientVars
<1>1. ASSUME NEW t \in Tasks, Quiet(t) PROVE PubInv'
  <2>1. StreamsUntouched
    BY <1>1, QuietSteps
  <2>2. running \subseteq running'
    BY <1>1 DEF Quiet, SaveRunning, Register, EngineReturn, EnginePanic, DecideRecord,
                SaveFinal, Cancel, DeleteHistory, Relay
  <2> QED BY <2>1, <2>2 DEF PubInv, StreamsUntouched
<1>2. ASSUME NEW t \in Tasks, NEW state \in {"running"} \cup Terminal, Publishes(t, state)
      PROVE  PubInv'
  BY <1>2 DEF Publishes, BeginPublish, PubInv
<1>3. ASSUME pub' = Idle PROVE PubInv'
  BY <1>3 DEF Idle, PubInv
<1>4. ASSUME NEW t \in Tasks, Unregister(t) PROVE PubInv'
  BY <1>3, <1>4, IdleType DEF Unregister
<1>5. ASSUME NEW c \in Clients, Offer(c) PROVE PubInv'
  <2>1. pub \in [step : {"offer", "evict", "retry"}, task : Tasks,
                 todo : SUBSET Clients, cur : Clients \cup {None}]
    BY <1>5, PubType DEF Offer, TypeOK
  <2> QED BY <1>5, <2>1 DEF Offer, PubInv
<1>6. CASE Evict
  <2>1. pub \in [step : {"offer", "evict", "retry"}, task : Tasks,
                 todo : SUBSET Clients, cur : Clients \cup {None}]
    BY <1>6, PubType DEF Evict, TypeOK
  <2>2. /\ pub'.step = "retry" /\ pub'.task = pub.task /\ pub'.todo = pub.todo
        /\ pub'.cur = pub.cur /\ pub.cur \in Clients
    BY <1>6, <2>1 DEF Evict, PubInv
  <2>3. Len(chan'[pub.cur]) < Cap
    <3>1. chan[pub.cur] \in Seq(Event) /\ Len(chan[pub.cur]) <= Cap
      BY <2>2 DEF TypeOK
    <3>2. CASE chan[pub.cur] = <<>>
      BY <1>6, <2>2, <3>2, EmptySeq, CapAssumption DEF Evict, TypeOK
    <3>3. CASE chan[pub.cur] # <<>>
      <4>1. Len(Tail(chan[pub.cur])) = Len(chan[pub.cur]) - 1 /\ Len(chan[pub.cur]) \in Nat
        BY <3>1, <3>3, HeadTailProperties, LenProperties
      <4> QED BY <1>6, <2>2, <3>1, <3>3, <4>1, CapAssumption DEF Evict, TypeOK
    <3> QED BY <3>2, <3>3
  <2> QED BY <1>6, <2>2, <2>3 DEF Evict, PubInv
<1>7. CASE Retry
  <2>1. pub \in [step : {"offer", "evict", "retry"}, task : Tasks,
                 todo : SUBSET Clients, cur : Clients \cup {None}]
    BY <1>7, PubType DEF Retry, TypeOK
  <2> QED BY <1>7, <2>1 DEF Retry, PubInv
<1>8. CASE EndPublish
  BY <1>3, <1>8 DEF EndPublish
<1>9. ASSUME NEW c \in Clients, NEW t \in Tasks, Subscribe(c, t) PROVE PubInv'
  BY <1>3, <1>9, IdleType DEF Subscribe
<1>10. ASSUME NEW c \in Clients, Receive(c) PROVE PubInv'
  <2>1. Len(Tail(chan[c])) = Len(chan[c]) - 1 /\ Len(chan[c]) \in Nat
    BY <1>10, HeadTailProperties, LenProperties DEF Receive, TypeOK
  <2> QED BY <1>10, <2>1, CapAssumption DEF Receive, PubInv, TypeOK
<1>11. ASSUME NEW c \in Clients, Release(c) PROVE PubInv'
  <2>1. CASE MuFree
    BY <1>3, <1>11, <2>1, IdleType DEF Release
  <2>2. CASE phase[c] = "replayed" /\ Publishing
    <3>1. \A t \in Tasks : c \notin subs[t]
      BY <2>2 DEF SubsInv
    <3>2. pub.task \in Tasks /\ c \notin pub.todo
      BY <2>2, <3>1 DEF PubInv, Publishing, TypeOK
    <3> QED BY <1>11, <2>2, <3>1, <3>2 DEF Release, PubInv, TypeOK, Publishing
  <2> QED BY <1>11, <2>1, <2>2 DEF Release, MuFree
<1>12. CASE Crash
  BY <1>3, <1>12 DEF Crash
<1>13. ASSUME UNCHANGED <<running, subs, pub, chan>> PROVE PubInv'
  BY <1>13 DEF PubInv
<1> QED
  BY <1>1, <1>2, <1>4, <1>5, <1>6, <1>7, <1>8, <1>9, <1>10, <1>11, <1>12, <1>13, StepKinds
     DEF SubscribeMiss, Replay, ClientGone, vars
-----------------------------------------------------------------------------
(* The three stream properties, one open stream at a time.                 *)
StreamOK(c) ==
    phase[c] = "open" =>
        /\ told[c].state \notin Terminal
        /\ InOrder(chan[c], told[c])
        /\ c \notin pub.todo => Newest(c) = latest[watch[c]]
        /\ c \in pub.todo => /\ Newest(c).seq < latest[watch[c]].seq
                             /\ Newest(c).state \notin Terminal

LEMMA StreamSplit ==
    (OwedInv /\ NewestNeverDropped /\ OrderedDelivery) <=> \A c \in Clients : StreamOK(c)
  BY DEF OwedInv, NewestNeverDropped, OrderedDelivery, StreamOK

LEMMA StreamTypes ==
    ASSUME TypeOK, NEW c \in Clients
    PROVE  /\ chan[c] \in Seq(Event) /\ told[c] \in Event /\ latest[watch[c]] \in Event
           /\ Newest(c) \in Event /\ Len(chan[c]) \in Nat /\ watch[c] \in Tasks
<1>1. chan[c] \in Seq(Event) /\ told[c] \in Event /\ latest[watch[c]] \in Event
      /\ watch[c] \in Tasks
  BY DEF TypeOK
<1>2. chan[c] # <<>> => chan[c][Len(chan[c])] \in Event
  BY <1>1
<1> QED BY <1>1, <1>2 DEF Newest, NewestOf

(* A stream nothing happened to.                                           *)
LEMMA StreamKept ==
    ASSUME NEW c \in Clients, StreamOK(c),
           chan'[c] = chan[c], phase'[c] = phase[c], told'[c] = told[c], watch'[c] = watch[c],
           latest'[watch[c]] = latest[watch[c]], c \in pub'.todo <=> c \in pub.todo
    PROVE  StreamOK(c)'
  BY DEF StreamOK, Newest

(* The client owed the event gets it.                                      *)
LEMMA StreamFed ==
    ASSUME TypeOK, SubsInv, PubInv, NEW c \in Clients, StreamOK(c), c \in pub.todo,
           pub.step # "idle",
           c \notin pub'.todo, chan'[c] = Append(chan[c], Offered),
           UNCHANGED <<phase, told, watch, latest>>
    PROVE  StreamOK(c)'
<1>1. watch[c] = pub.task /\ pub.task \in Tasks
  BY DEF SubsInv, PubInv, TypeOK
<1>2. Offered = latest[watch[c]] /\ Offered \in Event
  BY <1>1 DEF Offered, TypeOK
<1>3. CASE phase[c] = "open"
  <2>1. /\ InOrder(chan[c], told[c]) /\ NewestOf(chan[c], told[c]).seq < Offered.seq
        /\ NewestOf(chan[c], told[c]).state \notin Terminal
    BY <1>2, <1>3 DEF StreamOK, Newest
  <2>2. /\ InOrder(Append(chan[c], Offered), told[c])
        /\ NewestOf(Append(chan[c], Offered), told[c]) = Offered
    BY <1>2, <2>1, StreamTypes, AppendKeepsOrder
  <2> QED BY <1>2, <1>3, <2>2 DEF StreamOK, Newest
<1> QED BY <1>3 DEF StreamOK

(* A client that is not open owes nothing.                                 *)
LEMMA StreamClosed == ASSUME NEW c \in Clients, phase'[c] # "open" PROVE StreamOK(c)'
  BY DEF StreamOK

LEMMA StreamStep ==
    TypeOK /\ StageInv /\ SubsInv /\ PubInv /\ [Next]_vars
        /\ (\A c \in Clients : StreamOK(c)) => \A c \in Clients : StreamOK(c)'
<1> SUFFICES ASSUME TypeOK, StageInv, SubsInv, PubInv, [Next]_vars,
                    \A d \in Clients : StreamOK(d), NEW c \in Clients
             PROVE  StreamOK(c)'
  OBVIOUS
<1> USE DEF taskVars, runnerVars, clientVars
<1>0. StreamOK(c)
  OBVIOUS
<1>1. ASSUME NEW t \in Tasks, Quiet(t) PROVE StreamOK(c)'
  BY <1>1, <1>0, QuietSteps, StreamKept DEF StreamsUntouched
<1>2. ASSUME NEW t \in Tasks, NEW state \in {"running"} \cup Terminal, Publishes(t, state)
      PROVE  StreamOK(c)'
  <2>1. pub.todo = {} /\ pub'.todo = subs[t] /\ t \in running
        /\ latest' = [latest EXCEPT ![t] = [state |-> state, seq |-> @.seq + 1]]
        /\ UNCHANGED <<chan, phase, told, watch>>
    BY <1>2, IdleType DEF Publishes, BeginPublish
  <2>2. CASE phase[c] # "open"
    BY <2>1, <2>2, StreamClosed
  <2>3. CASE phase[c] = "open" /\ watch[c] # t
    <3>1. c \notin subs[t]
      BY <2>3 DEF SubsInv
    <3> QED BY <1>0, <2>1, <2>3, <3>1, StreamKept DEF TypeOK
  <2>4. CASE phase[c] = "open" /\ watch[c] = t
    <3>1. c \in subs[t]
      BY <2>1, <2>4 DEF SubsInv
    <3>2. Newest(c) = latest[t] /\ latest[t].state \notin Terminal
      BY <1>0, <1>2, <2>1, <2>4 DEF StreamOK, StageInv, Publishes
    <3>3. Newest(c)' = Newest(c) /\ latest'[watch'[c]].seq = latest[t].seq + 1
          /\ latest[t].seq \in Nat
      BY <2>1, <2>4 DEF Newest, TypeOK, Event
    <3> QED BY <1>0, <2>1, <2>4, <3>1, <3>2, <3>3 DEF StreamOK
  <2> QED BY <2>2, <2>3, <2>4
<1>3. ASSUME NEW t \in Tasks, Unregister(t) PROVE StreamOK(c)'
  BY <1>0, <1>3, StreamKept DEF Unregister
<1>4. ASSUME NEW d \in Clients, Offer(d) PROVE StreamOK(c)'
  <2>1. pub \in [step : {"offer", "evict", "retry"}, task : Tasks,
                 todo : SUBSET Clients, cur : Clients \cup {None}]
    BY <1>4, PubType DEF Offer, TypeOK
  <2>2. UNCHANGED <<phase, told, watch, latest>>
    BY <1>4 DEF Offer
  <2>3. CASE Len(chan[d]) < Cap /\ c = d
    <3>1. c \notin pub'.todo /\ c \in pub.todo /\ chan'[c] = Append(chan[c], Offered)
      BY <1>4, <2>1, <2>3 DEF Offer, TypeOK
    <3> QED BY <1>0, <1>4, <2>2, <3>1, StreamFed DEF Offer
  <2>4. CASE ~(Len(chan[d]) < Cap /\ c = d)
    <3>1. chan'[c] = chan[c] /\ (c \in pub'.todo <=> c \in pub.todo)
      <4>1. CASE Len(chan[d]) < Cap
        <5>1. c # d /\ chan' = [chan EXCEPT ![d] = Append(@, Offered)]
              /\ pub' = [pub EXCEPT !.todo = @ \ {d}]
          BY <1>4, <2>4, <4>1 DEF Offer
        <5> QED BY <5>1, <2>1 DEF TypeOK
      <4>2. CASE ~(Len(chan[d]) < Cap)
        <5>1. chan' = chan /\ pub' = [pub EXCEPT !.step = "evict", !.cur = d]
          BY <1>4, <4>2 DEF Offer
        <5> QED BY <5>1, <2>1
      <4> QED BY <4>1, <4>2
    <3> QED BY <1>0, <2>2, <3>1, StreamKept
  <2> QED BY <2>3, <2>4
<1>5. CASE Evict
  <2>1. pub \in [step : {"offer", "evict", "retry"}, task : Tasks,
                 todo : SUBSET Clients, cur : Clients \cup {None}]
    BY <1>5, PubType DEF Evict, TypeOK
  <2>2. pub'.todo = pub.todo /\ pub.cur \in pub.todo /\ UNCHANGED <<phase, told, watch, latest>>
    BY <1>5, <2>1 DEF Evict, PubInv
  <2>3. CASE c # pub.cur \/ chan[c] = <<>>
    <3>1. chan'[c] = chan[c]
      BY <1>5, <2>3 DEF Evict, TypeOK
    <3> QED BY <1>0, <2>2, <3>1, StreamKept
  <2>4. CASE c = pub.cur /\ chan[c] # <<>> /\ phase[c] = "open"
    <3>1. chan'[c] = Tail(chan[c])
      BY <1>5, <2>4 DEF Evict, TypeOK
    <3>2. InOrder(chan[c], told[c]) /\ chan[c] \in Seq(Event) /\ told[c] \in Event
      BY <1>0, <2>4, StreamTypes DEF StreamOK
    <3>3. /\ InOrder(Tail(chan[c]), told[c])
          /\ Tail(chan[c]) # <<>> => NewestOf(Tail(chan[c]), told[c]) = NewestOf(chan[c], told[c])
          /\ Tail(chan[c]) = <<>> => NewestOf(Tail(chan[c]), told[c]) = told[c]
          /\ told[c].seq < NewestOf(chan[c], told[c]).seq
      BY <2>4, <3>2, TailKeepsOrder
    <3>4. told[c].seq \in Nat /\ Newest(c).seq \in Nat /\ latest[watch[c]].seq \in Nat
      BY StreamTypes, EventTypes
    <3>5. Newest(c)'.seq < latest[watch[c]].seq /\ Newest(c)'.state \notin Terminal
      BY <1>0, <2>2, <2>4, <3>1, <3>3, <3>4 DEF StreamOK, Newest
    <3> QED BY <1>0, <2>2, <2>4, <3>1, <3>3, <3>5 DEF StreamOK
  <2>5. CASE phase[c] # "open"
    BY <2>2, <2>5, StreamClosed
  <2> QED BY <2>3, <2>4, <2>5
<1>6. CASE Retry
  <2>1. pub \in [step : {"offer", "evict", "retry"}, task : Tasks,
                 todo : SUBSET Clients, cur : Clients \cup {None}]
    BY <1>6, PubType DEF Retry, TypeOK
  <2>2. /\ pub'.todo = pub.todo \ {pub.cur} /\ pub.cur \in pub.todo
        /\ Len(chan[pub.cur]) < Cap /\ UNCHANGED <<phase, told, watch, latest>>
    BY <1>6, <2>1 DEF Retry, PubInv
  <2>3. CASE c = pub.cur
    <3>1. chan'[c] = Append(chan[c], Offered)
      BY <1>6, <2>2, <2>3 DEF Retry, TypeOK
    <3> QED BY <1>0, <1>6, <2>2, <2>3, <3>1, StreamFed DEF Retry
  <2>4. CASE c # pub.cur
    <3>1. chan'[c] = chan[c]
      BY <1>6, <2>4 DEF Retry, TypeOK
    <3> QED BY <1>0, <2>2, <2>4, <3>1, StreamKept
  <2> QED BY <2>3, <2>4
<1>7. CASE EndPublish
  BY <1>0, <1>7, StreamKept DEF EndPublish, Idle
<1>8. ASSUME NEW d \in Clients, NEW t \in Tasks, Subscribe(d, t) PROVE StreamOK(c)'
  <2>1. CASE c # d
    BY <1>0, <1>8, <2>1, StreamKept DEF Subscribe, TypeOK
  <2>2. CASE c = d
    <3>1. /\ watch'[c] = t /\ told'[c] = NoEvent /\ latest' = latest /\ pub'.todo = {}
          /\ chan'[c] = IF latest[t] = NoEvent THEN <<>> ELSE <<latest[t]>>
          /\ latest[t] \in Event
      BY <1>8, <2>2, IdleType DEF Subscribe, TypeOK
    <3>2. latest[t] = NoEvent \/ latest[t].seq > 0
      BY DEF StageInv
    <3>3. NoEvent.state \notin Terminal /\ NoEvent.seq = 0
      BY DEF NoEvent, Terminal
    <3>4. InOrder(chan'[c], NoEvent) /\ NewestOf(chan'[c], NoEvent) = latest[t]
      BY <3>1, <3>2, <3>3 DEF InOrder, NewestOf
    <3> QED BY <3>1, <3>3, <3>4 DEF StreamOK, Newest
  <2> QED BY <2>1, <2>2
<1>9. ASSUME NEW d \in Clients, NEW t \in Tasks, SubscribeMiss(d, t) PROVE StreamOK(c)'
  <2>1. CASE c # d
    BY <1>0, <1>9, <2>1, StreamKept DEF SubscribeMiss, TypeOK
  <2>2. CASE c = d
    BY <1>9, <2>2, StreamClosed DEF SubscribeMiss, TypeOK
  <2> QED BY <2>1, <2>2
<1>10. ASSUME NEW d \in Clients, Receive(d) PROVE StreamOK(c)'
  <2>1. CASE c # d
    BY <1>0, <1>10, <2>1, StreamKept DEF Receive, TypeOK
  <2>2. CASE c = d /\ Head(chan[c]).state \in Terminal
    BY <1>10, <2>2, StreamClosed DEF Receive, TypeOK
  <2>3. CASE c = d /\ Head(chan[c]).state \notin Terminal
    <3>1. /\ chan'[c] = Tail(chan[c]) /\ told'[c] = Head(chan[c]) /\ phase[c] = "open"
          /\ chan[c] # <<>> /\ UNCHANGED <<pub, latest, watch>>
      BY <1>10, <2>3 DEF Receive, TypeOK
    <3>2. /\ InOrder(Tail(chan[c]), Head(chan[c]))
          /\ NewestOf(Tail(chan[c]), Head(chan[c])) = NewestOf(chan[c], told[c])
      BY <1>0, <3>1, StreamTypes, TailKeepsOrder DEF StreamOK
    <3>3. Newest(c)' = Newest(c)
      BY <3>1, <3>2 DEF Newest
    <3> QED BY <1>0, <2>3, <3>1, <3>2, <3>3 DEF StreamOK
  <2> QED BY <2>1, <2>2, <2>3
<1>11. ASSUME NEW d \in Clients, Replay(d) \/ ClientGone(d) \/ Release(d) PROVE StreamOK(c)'
  <2>1. CASE c # d
    <3>1. /\ chan'[c] = chan[c] /\ phase'[c] = phase[c] /\ told'[c] = told[c]
          /\ watch'[c] = watch[c] /\ latest'[watch[c]] = latest[watch[c]] /\ pub' = pub
      BY <1>11, <2>1 DEF Replay, ClientGone, Release, TypeOK
    <3> QED BY <1>0, <3>1, StreamKept
  <2>2. CASE c = d
    <3>1. phase'[c] # "open"
      BY <1>11, <2>2 DEF Replay, ClientGone, Release, TypeOK
    <3> QED BY <3>1, StreamClosed
  <2> QED BY <2>1, <2>2
<1>12. CASE Crash
  BY <1>12, StreamClosed DEF Crash
<1>13. CASE UNCHANGED vars
  BY <1>0, <1>13, StreamKept DEF vars
<1> QED
  BY <1>1, <1>2, <1>3, <1>4, <1>5, <1>6, <1>7, <1>8, <1>9, <1>10, <1>11, <1>12, <1>13,
     StepKinds

-----------------------------------------------------------------------------
(* The inductive invariant holds in every reachable state.                 *)
LEMMA InvInit == Init => IInv
<1> SUFFICES ASSUME Init PROVE IInv
  OBVIOUS
<1>1. TypeOK
  BY TypeInit
<1>2. \A c \in Clients : StreamOK(c)
  BY DEF Init, StreamOK
<1>3. StageInv
  BY DEF Init, StageInv, Active, NoEvent, Terminal
<1>4. SubsInv
  BY DEF Init, SubsInv
<1>5. PubInv
  BY DEF Init, PubInv, Idle
<1> QED BY <1>1, <1>2, <1>3, <1>4, <1>5, StreamSplit DEF IInv

LEMMA InvStep == IInv /\ [Next]_vars => IInv'
<1> SUFFICES ASSUME IInv, [Next]_vars PROVE IInv'
  OBVIOUS
<1>1. /\ TypeOK /\ StageInv /\ SubsInv /\ PubInv
      /\ \A c \in Clients : StreamOK(c)
  BY StreamSplit DEF IInv
<1>2. TypeOK' /\ StageInv' /\ SubsInv' /\ PubInv'
  BY <1>1, TypeStep, StageStep, SubsStep, PubStep
<1>3. \A c \in Clients : StreamOK(c)'
  BY <1>1, StreamStep
<1>4. (OwedInv /\ NewestNeverDropped /\ OrderedDelivery)'
  BY <1>3 DEF OwedInv, NewestNeverDropped, OrderedDelivery, StreamOK
<1> QED BY <1>2, <1>4 DEF IInv

LEMMA Invariant == Spec => []IInv
  BY InvInit, InvStep, PTL DEF Spec

(* publish() never drops the newest event of a stream, whatever the        *)
(* capacity, the number of clients and the interleaving of their receives. *)
THEOREM NewestEventKept == Spec => []NewestNeverDropped
<1>1. IInv => NewestNeverDropped
  BY DEF IInv
<1> QED BY <1>1, Invariant, PTL

(* Every stream is in order, without repetition, with the final event last. *)
THEOREM StreamsInOrder == Spec => []OrderedDelivery
<1>1. IInv => OrderedDelivery
  BY DEF IInv
<1> QED BY <1>1, Invariant, PTL

(* A stream whose task is gone still holds the final event: nobody waits   *)
(* on a channel that will never be written to again.                       *)
THEOREM EndedStreamsHoldFinal == Spec => []EndedStreamsHoldFinalEvent
<1>1. IInv => EndedStreamsHoldFinalEvent
  <2> SUFFICES ASSUME IInv, NEW c \in Clients, phase[c] = "open", watch[c] \notin running
               PROVE  chan[c] # <<>> /\ Newest(c).state \in Terminal
    BY DEF EndedStreamsHoldFinalEvent
  <2>1. stage[watch[c]] = "ended" /\ latest[watch[c]].state \in Terminal /\ watch[c] \in Tasks
    BY DEF IInv, TypeOK, StageInv, SubsInv
  <2>2. c \notin pub.todo
    <3>1. CASE pub.step = "idle"
      BY <3>1, IdleType DEF IInv, MuFree, Publishing
    <3>2. CASE pub.step # "idle"
      BY <3>2, <2>1 DEF IInv, PubInv, SubsInv, TypeOK
    <3> QED BY <3>1, <3>2
  <2>3. Newest(c) = latest[watch[c]] /\ told[c].state \notin Terminal
    BY <2>2 DEF IInv, NewestNeverDropped, OrderedDelivery
  <2> QED BY <2>1, <2>3 DEF Newest, NewestOf
<1> QED BY <1>1, Invariant, PTL

(* What a client that streams a task can rely on: publish() keeps the      *)
(* newest event, the order is kept, and an ended task leaves its final     *)
(* event in every stream.                                                  *)
THEOREM StreamsHoldTheContract == Spec => []StreamContract
<1>1. NewestNeverDropped /\ OrderedDelivery /\ EndedStreamsHoldFinalEvent => StreamContract
  BY DEF StreamContract
<1> QED
  BY <1>1, NewestEventKept, StreamsInOrder, EndedStreamsHoldFinal, PTL

-----------------------------------------------------------------------------
(* The record of a task and its stream, and the promise of TaskLifecycle.    *)

Before == {"new", "recorded", "engine", "returned", "decided"}

(* Who says "done" says so because the engine succeeded: the record, the   *)
(* verdict on its way to it and the final event are read from one outcome, *)
(* which does not change once it is there.                                 *)
SaysDone(word, t) == word = "done" <=> outcome[t] = "ok"
VerdictInv ==
    \A t \in Tasks :
        /\ stage[t] \in Before => history[t] \notin Terminal
        /\ history[t] \in Terminal => SaysDone(history[t], t)
        /\ stage[t] = "decided" => SaysDone(verdict[t], t)
        /\ latest[t].state \in Terminal => SaysDone(latest[t].state, t)

(* Without failing saves a task that has still to write has its record,    *)
(* which DeleteHistory refuses.                                            *)
RecordKept ==
    \A t \in Tasks : stage[t] \in Before \ {"new"} => history[t] = "running"

(* Without failing saves and panics the record is final before the final   *)
(* event, and a client was told by an event of a task that got that far.   *)
RecordFinal ==
    \A t \in Tasks : stage[t] \in {"saved", "relayed", "final", "ended"}
                        => history[t] # "running"
ToldByFinal ==
    \A c \in Clients : phase[c] \in {"open", "leaving"} /\ told[c].state \in Terminal
                          => stage[watch[c]] \in {"final", "ended"}

-----------------------------------------------------------------------------
RecordVars == <<stage, outcome, verdict, latest, history>>

LEMMA RecordInit == Init => VerdictInv /\ RecordKept /\ RecordFinal /\ ToldByFinal
  BY DEF Init, VerdictInv, RecordKept, RecordFinal, ToldByFinal, NoEvent, Terminal, Before

(* The steps that touch what a record is about.                            *)
LEMMA RecordSteps ==
    ASSUME [Next]_vars
    PROVE  \/ UNCHANGED RecordVars
           \/ Crash
           \/ \E t \in Tasks :
                \/ SaveRunning(t) \/ Register(t) \/ EnginePublish(t) \/ EngineReturn(t)
                \/ EnginePanic(t) \/ DecideRecord(t) \/ SaveFinal(t) \/ Relay(t)
                \/ PublishFinal(t) \/ Unregister(t) \/ DeleteHistory(t)
  BY DEF Next, Goroutine, Publisher, Stream, RecordVars, Cancel, Offer, Evict, Retry, EndPublish,
         Subscribe, SubscribeMiss, Replay, Receive, ClientGone, Release, vars,
         taskVars, runnerVars, clientVars

LEMMA VerdictStep == TypeOK /\ StageInv /\ VerdictInv /\ [Next]_vars => VerdictInv'
<1> SUFFICES ASSUME TypeOK, StageInv, VerdictInv, [Next]_vars PROVE VerdictInv'
  OBVIOUS
<1> USE DEF taskVars, runnerVars, Before, SaysDone
<1>1. CASE UNCHANGED RecordVars
  BY <1>1 DEF RecordVars, VerdictInv
<1>2. CASE Crash
  BY <1>2 DEF Crash, VerdictInv, Active
<1>3. ASSUME NEW t \in Tasks, SaveRunning(t) PROVE VerdictInv'
  BY <1>3 DEF SaveRunning, VerdictInv, TypeOK, Terminal
<1>4. ASSUME NEW t \in Tasks, Register(t) PROVE VerdictInv'
  BY <1>4 DEF Register, VerdictInv, TypeOK
<1>5. ASSUME NEW t \in Tasks, EnginePublish(t) PROVE VerdictInv'
  <2>1. /\ latest'[t].state \notin Terminal
        /\ \A u \in Tasks \ {t} : latest'[u] = latest[u]
        /\ UNCHANGED <<stage, outcome, verdict, history>>
    BY <1>5 DEF EnginePublish, BeginPublish, TypeOK, Terminal
  <2> QED BY <2>1 DEF VerdictInv
<1>6. ASSUME NEW t \in Tasks, EngineReturn(t) \/ EnginePanic(t) PROVE VerdictInv'
  <2>1. /\ stage[t] = "engine" /\ stage'[t] \in {"returned", "relayed"}
        /\ \A u \in Tasks \ {t} : stage'[u] = stage[u] /\ outcome'[u] = outcome[u]
        /\ UNCHANGED <<verdict, latest, history>>
    BY <1>6 DEF EngineReturn, EnginePanic, TypeOK
  <2>2. latest[t].state \notin Terminal /\ history[t] \notin Terminal
    BY <2>1 DEF StageInv, VerdictInv
  <2> QED BY <2>1, <2>2 DEF VerdictInv
<1>7. ASSUME NEW t \in Tasks, DecideRecord(t) PROVE VerdictInv'
  <2>1. Conclude(t) = "done" <=> outcome[t] = "ok"
    BY DEF Conclude
  <2> QED BY <1>7, <2>1 DEF DecideRecord, VerdictInv, TypeOK
<1>8. ASSUME NEW t \in Tasks, SaveFinal(t) PROVE VerdictInv'
  BY <1>8 DEF SaveFinal, VerdictInv, TypeOK
<1>9. ASSUME NEW t \in Tasks, Relay(t) PROVE VerdictInv'
  <2>1. /\ stage[t] = "saved" /\ stage'[t] = "relayed"
        /\ \A u \in Tasks \ {t} : stage'[u] = stage[u] /\ latest'[u] = latest[u]
        /\ latest'[t].state \notin Terminal \/ latest'[t] = latest[t]
        /\ UNCHANGED <<outcome, verdict, history>>
    BY <1>9 DEF Relay, BeginPublish, TypeOK, Terminal
  <2> QED BY <2>1 DEF VerdictInv
<1>10. ASSUME NEW t \in Tasks, PublishFinal(t) PROVE VerdictInv'
  <2>1. Conclude(t) = "done" <=> outcome[t] = "ok"
    BY DEF Conclude
  <2>2. /\ stage[t] = "relayed" /\ stage'[t] = "final"
        /\ \A u \in Tasks \ {t} : stage'[u] = stage[u] /\ latest'[u] = latest[u]
        /\ latest'[t].state = Conclude(t)
        /\ UNCHANGED <<outcome, verdict, history>>
    BY <1>10 DEF PublishFinal, BeginPublish, TypeOK
  <2> QED BY <2>1, <2>2 DEF VerdictInv
<1>11. ASSUME NEW t \in Tasks, Unregister(t) \/ DeleteHistory(t) PROVE VerdictInv'
  BY <1>11 DEF Unregister, DeleteHistory, VerdictInv, TypeOK, Terminal
<1> QED
  BY <1>1, <1>2, <1>3, <1>4, <1>5, <1>6, <1>7, <1>8, <1>9, <1>10, <1>11, RecordSteps

(* A task that has not decided yet keeps its record.                       *)
LEMMA RecordKeptStep ==
    ASSUME "save" \notin Faults, TypeOK, RecordKept, [Next]_vars
    PROVE  RecordKept' /\ \A t \in Tasks : stage[t] # "new" /\ history[t] = "absent"
                                             => history'[t] = "absent"
<1> USE DEF taskVars, runnerVars, Before, RecordKept, TypeOK
<1>1. CASE UNCHANGED RecordVars
  BY <1>1 DEF RecordVars
<1>2. CASE Crash
  BY <1>2 DEF Crash, Active
<1>3. ASSUME NEW t \in Tasks,
             SaveRunning(t) \/ Register(t) \/ EngineReturn(t) \/ EnginePanic(t) \/ DecideRecord(t)
      PROVE  RecordKept' /\ \A u \in Tasks : stage[u] # "new" /\ history[u] = "absent"
                                               => history'[u] = "absent"
  BY <1>3 DEF SaveRunning, Register, EngineReturn, EnginePanic, DecideRecord
<1>4. ASSUME NEW t \in Tasks,
             SaveFinal(t) \/ Relay(t) \/ PublishFinal(t) \/ Unregister(t) \/ EnginePublish(t)
      PROVE  RecordKept' /\ \A u \in Tasks : stage[u] # "new" /\ history[u] = "absent"
                                               => history'[u] = "absent"
  <2>1. CASE SaveFinal(t)
    <3>1. stage[t] = "decided" /\ stage' = [stage EXCEPT ![t] = "saved"]
          /\ history' = [history EXCEPT ![t] = verdict[t]]
      BY <2>1 DEF SaveFinal
    <3>2. history[t] # "absent"
      BY <3>1
    <3> QED BY <3>1, <3>2
  <2>2. CASE Relay(t) \/ PublishFinal(t) \/ Unregister(t)
    <3>1. /\ stage[t] \notin Before /\ history' = history
          /\ \E s \in {"relayed", "final", "ended"} : stage' = [stage EXCEPT ![t] = s]
      BY <2>2 DEF Relay, PublishFinal, Unregister
    <3> QED BY <3>1
  <2>3. CASE EnginePublish(t)
    BY <2>3 DEF EnginePublish
  <2> QED BY <1>4, <2>1, <2>2, <2>3
<1>5. ASSUME NEW t \in Tasks, DeleteHistory(t)
      PROVE  RecordKept' /\ \A u \in Tasks : stage[u] # "new" /\ history[u] = "absent"
                                               => history'[u] = "absent"
  BY <1>5 DEF DeleteHistory
<1> QED
  BY <1>1, <1>2, <1>3, <1>4, <1>5, RecordSteps

LEMMA RecordFinalStep ==
    ASSUME Faults = {}, TypeOK, RecordFinal, [Next]_vars PROVE RecordFinal'
<1> USE DEF taskVars, runnerVars, RecordFinal, TypeOK
<1>1. CASE UNCHANGED RecordVars
  BY <1>1 DEF RecordVars
<1>2. CASE Crash
  BY <1>2 DEF Crash, Active
<1>3. ASSUME NEW t \in Tasks,
             SaveRunning(t) \/ Register(t) \/ EngineReturn(t) \/ EnginePanic(t)
               \/ DecideRecord(t) \/ EnginePublish(t)
      PROVE  RecordFinal'
  BY <1>3 DEF SaveRunning, Register, EngineReturn, EnginePanic, DecideRecord, EnginePublish
<1>4. ASSUME NEW t \in Tasks, SaveFinal(t) PROVE RecordFinal'
  BY <1>4 DEF SaveFinal, Terminal
<1>5. ASSUME NEW t \in Tasks,
             Relay(t) \/ PublishFinal(t) \/ Unregister(t) \/ DeleteHistory(t)
      PROVE  RecordFinal'
  BY <1>5 DEF Relay, PublishFinal, Unregister, DeleteHistory
<1> QED
  BY <1>1, <1>2, <1>3, <1>4, <1>5, RecordSteps

(* Outside a publication the newest event in flight is the latest one; a   *)
(* final event is the newest, and has been published.                      *)
LEMMA FinalIsLatest ==
    ASSUME IInv, NEW c \in Clients, phase[c] = "open", chan[c] # <<>>,
           Head(chan[c]).state \in Terminal
    PROVE  Head(chan[c]) = latest[watch[c]] /\ stage[watch[c]] \in {"final", "ended"}
<1>1. /\ chan[c] \in Seq(Event) /\ InOrder(chan[c], told[c])
  BY StreamTypes DEF IInv, OrderedDelivery
<1>2. Len(chan[c]) \in Nat /\ Len(chan[c]) > 0 /\ Head(chan[c]) = chan[c][1]
  BY <1>1
<1>3. 1 = Len(chan[c])
  <2>1. 1 \in 1 .. Len(chan[c])
    BY <1>2
  <2> QED BY <1>1, <1>2, <2>1 DEF InOrder
<1>4. Newest(c) = Head(chan[c])
  BY <1>2, <1>3 DEF Newest, NewestOf
<1>5. c \notin pub.todo
  BY <1>4 DEF IInv, OwedInv
<1>6. Head(chan[c]) = latest[watch[c]]
  BY <1>4, <1>5 DEF IInv, NewestNeverDropped
<1>7. stage[watch[c]] \in Active \cup {"ended"} /\ watch[c] \in Tasks
  BY DEF IInv, SubsInv, TypeOK
<1>8. stage[watch[c]] \in {"final", "ended"}
  BY <1>6, <1>7 DEF IInv, StageInv, Active
<1> QED BY <1>6, <1>8

LEMMA ToldStep == ASSUME IInv, ToldByFinal, [Next]_vars PROVE ToldByFinal'
<1> USE DEF taskVars, runnerVars, clientVars
<1> TypeOK
  BY DEF IInv
<1>1. ASSUME NEW c \in Clients, Receive(c) PROVE ToldByFinal'
  <2>1. Head(chan[c]).state \in Terminal => stage[watch[c]] \in {"final", "ended"}
    BY <1>1, FinalIsLatest DEF Receive
  <2>2. /\ told'[c] = Head(chan[c]) /\ UNCHANGED <<stage, watch>>
        /\ \A d \in Clients \ {c} : told'[d] = told[d] /\ phase'[d] = phase[d]
    BY <1>1 DEF Receive, TypeOK
  <2> QED BY <2>1, <2>2 DEF ToldByFinal
<1>2. ASSUME NEW c \in Clients, Replay(c) \/ ClientGone(c) \/ Release(c) PROVE ToldByFinal'
  <2>1. /\ UNCHANGED <<stage, watch>>
        /\ \A d \in Clients \ {c} : told'[d] = told[d] /\ phase'[d] = phase[d]
        /\ phase'[c] \in {"replayed", "idle"} \/ (phase[c] = "open" /\ told'[c] = told[c])
    BY <1>2 DEF Replay, ClientGone, Release, TypeOK
  <2> QED BY <2>1 DEF ToldByFinal
<1>3. ASSUME NEW c \in Clients, NEW t \in Tasks, Subscribe(c, t) \/ SubscribeMiss(c, t)
      PROVE  ToldByFinal'
  <2>1. /\ stage' = stage /\ told'[c] = NoEvent
        /\ \A d \in Clients \ {c} : /\ told'[d] = told[d] /\ phase'[d] = phase[d]
                                    /\ watch'[d] = watch[d]
    BY <1>3 DEF Subscribe, SubscribeMiss, TypeOK
  <2> QED BY <2>1 DEF ToldByFinal, NoEvent, Terminal
<1>4. CASE Crash
  BY <1>4 DEF Crash, ToldByFinal
<1>5. ASSUME UNCHANGED clientVars,
             \A t \in Tasks : stage[t] \in {"final", "ended"} => stage'[t] \in {"final", "ended"}
      PROVE  ToldByFinal'
  BY <1>5 DEF ToldByFinal, TypeOK
<1>6. ASSUME NEW t \in Tasks,
             SaveRunning(t) \/ Goroutine(t) \/ EnginePublish(t) \/ Cancel(t) \/ DeleteHistory(t)
      PROVE  ToldByFinal'
  <2>1. /\ UNCHANGED clientVars
        /\ \A u \in Tasks \ {t} : stage'[u] = stage[u]
        /\ stage'[t] = stage[t] \/ stage[t] \notin {"final", "ended"} \/ stage'[t] = "ended"
    BY <1>6 DEF SaveRunning, Goroutine, Register, EngineReturn, EnginePanic, DecideRecord,
                SaveFinal, Relay, PublishFinal, Unregister, EnginePublish, Cancel,
                DeleteHistory, TypeOK
  <2> QED BY <1>5, <2>1
<1>7. CASE Publisher \/ UNCHANGED vars
  BY <1>5, <1>7 DEF Publisher, Offer, Evict, Retry, EndPublish, vars
<1> QED
  BY <1>1, <1>2, <1>3, <1>4, <1>6, <1>7 DEF Next, Stream

-----------------------------------------------------------------------------
(* finishRecord and the runner read ctx twice, so a cancel in between      *)
(* splits "error" from "cancelled"; but on success record and stream agree,*)
(* through failed saves, panics and crashes.                               *)
THEOREM SuccessIsAgreed == Spec => []SuccessAgrees
<1>1. Init => VerdictInv
  BY RecordInit
<1>2. IInv /\ VerdictInv /\ [Next]_vars => VerdictInv'
  BY VerdictStep DEF IInv
<1>3. VerdictInv => SuccessAgrees
  BY DEF VerdictInv, SuccessAgrees, SaysDone
<1> QED
  BY <1>1, <1>2, <1>3, Invariant, PTL DEF Spec

(* A record deleted from the history does not come back, unless the save   *)
(* of the running record failed.                                           *)
THEOREM DeletedRecordsStay ==
    ASSUME "save" \notin Faults
    PROVE  Spec => DeletedStaysDeleted
<1>1. Init => RecordKept
  BY RecordInit
<1>2. IInv /\ RecordKept /\ [Next]_vars => RecordKept'
  BY RecordKeptStep DEF IInv
<1>3. IInv /\ RecordKept /\ [Next]_vars
        => [\A t \in Tasks : stage[t] # "new" /\ history[t] = "absent"
                                => history'[t] = "absent"]_vars
  BY RecordKeptStep DEF IInv
<1> QED
  BY <1>1, <1>2, <1>3, Invariant, PTL DEF Spec, DeletedStaysDeleted

(* Whoever is told live that a task ended finds its final record, or none, *)
(* where no save fails and no engine panics.                               *)
THEOREM PersistedFirst ==
    ASSUME Faults = {}
    PROVE  Spec => []PersistedBeforePushed
<1>1. Init => RecordFinal /\ ToldByFinal
  BY RecordInit
<1>2. IInv /\ RecordFinal /\ ToldByFinal /\ [Next]_vars => RecordFinal' /\ ToldByFinal'
  BY RecordFinalStep, ToldStep DEF IInv
<1>3. IInv /\ RecordFinal /\ ToldByFinal => PersistedBeforePushed
  BY DEF IInv, TypeOK, RecordFinal, ToldByFinal, PersistedBeforePushed
<1> QED
  BY <1>1, <1>2, <1>3, Invariant, PTL DEF Spec

(* The record of a task (finishRecord, DeleteHistory): final before anybody *)
(* is told, in agreement with what they are told, and gone for good.       *)
THEOREM RecordsHoldTheContract ==
    ASSUME Faults = {}
    PROVE  Spec => RecordContract
<1>1. "save" \notin Faults
  OBVIOUS
<1>2. Spec => DeletedStaysDeleted
  BY <1>1, DeletedRecordsStay
<1>3. Spec => []PersistedBeforePushed
  BY PersistedFirst
<1> QED
  BY <1>2, <1>3, SuccessIsAgreed, PTL DEF RecordContract

-----------------------------------------------------------------------------
(* The runner implements TaskLifecycle.  What a step does to the status of *)
(* a task and to what a client was shown:                                  *)
LEMMA SameStatus ==
    ASSUME NEW t \in Tasks, t \in running' <=> t \in running,
           \/ latest'[t].state = latest[t].state
           \/ latest[t].state \notin Terminal /\ latest'[t].state \notin Terminal,
           stage'[t] = stage[t] \/ (stage[t] # "lost" /\ stage'[t] # "lost")
    PROVE  StatusOf(t)' = StatusOf(t)
  BY DEF StatusOf

LEMMA SameShown ==
    ASSUME NEW c \in Clients, phase'[c] = phase[c], told'[c] = told[c]
    PROVE  ShownTo(c)' = ShownTo(c)
  BY DEF ShownTo

SameTasks   == \A t \in Tasks : StatusOf(t)' = StatusOf(t)
SameClients == watch' = watch /\ \A c \in Clients : ShownTo(c)' = ShownTo(c)

LEMMA Stutter ==
    ASSUME SameTasks, SameClients
    PROVE  UNCHANGED Lifecycle!vars
  BY DEF SameTasks, SameClients, Lifecycle!vars

(* The steps of a task: registered, concluded, or no different to a watcher. *)
LEMMA TaskMoves ==
    ASSUME TypeOK, StageInv, NEW t \in Tasks,
           SaveRunning(t) \/ Goroutine(t) \/ EnginePublish(t) \/ Cancel(t) \/ DeleteHistory(t)
    PROVE  /\ SameClients
           /\ \A u \in Tasks \ {t} : StatusOf(u)' = StatusOf(u)
           /\ \/ StatusOf(t)' = StatusOf(t)
              \/ StatusOf(t) = "pending" /\ StatusOf(t)' = "running"
              \/ StatusOf(t) = "running" /\ StatusOf(t)' \in Terminal
<1> USE DEF taskVars, runnerVars, clientVars
<1>1. UNCHANGED clientVars
  BY DEF SaveRunning, Goroutine, Register, EngineReturn, EnginePanic, DecideRecord, SaveFinal,
         Relay, PublishFinal, Unregister, EnginePublish, Cancel, DeleteHistory
<1>2. SameClients
  BY <1>1 DEF SameClients, ShownTo
<1>3. ASSUME NEW u \in Tasks \ {t} PROVE StatusOf(u)' = StatusOf(u)
  <2>1. /\ stage'[u] = stage[u] /\ latest'[u] = latest[u]
        /\ u \in running' <=> u \in running
    BY DEF SaveRunning, Goroutine, Register, EngineReturn, EnginePanic, DecideRecord, SaveFinal,
           Relay, PublishFinal, Unregister, EnginePublish, BeginPublish, Cancel, DeleteHistory,
           TypeOK
  <2> QED BY <2>1, SameStatus
<1>4. CASE Register(t)
  <2>1. /\ stage[t] = "recorded" /\ stage'[t] = "engine" /\ t \in running'
        /\ latest' = latest /\ latest[t].state \notin Terminal /\ t \notin running
    BY <1>4 DEF Register, StageInv, Active, TypeOK
  <2>2. StatusOf(t) = "pending" /\ StatusOf(t)' = "running"
    BY <2>1 DEF StatusOf
  <2> QED BY <1>2, <1>3, <2>2
<1>5. CASE PublishFinal(t)
  <2>1. /\ t \in running /\ stage[t] = "relayed"
        /\ latest'[t].state = Conclude(t) /\ latest[t].state \notin Terminal
    BY <1>5 DEF PublishFinal, BeginPublish, StageInv, TypeOK
  <2>2. Conclude(t) \in Terminal
    BY DEF Conclude, Terminal
  <2>3. StatusOf(t) = "running" /\ StatusOf(t)' \in Terminal
    BY <2>1, <2>2 DEF StatusOf
  <2> QED BY <1>2, <1>3, <2>3
<1>6. CASE Unregister(t)
  <2>1. latest[t].state \in Terminal /\ latest' = latest
    BY <1>6 DEF Unregister, StageInv
  <2>2. StatusOf(t)' = StatusOf(t)
    BY <2>1 DEF StatusOf
  <2> QED BY <1>2, <1>3, <2>2
<1>7. CASE EnginePublish(t) \/ Relay(t)
  <2>1. /\ stage[t] \in {"engine", "saved"} /\ stage'[t] \in {"engine", "relayed"}
        /\ running' = running
        /\ latest'[t] = latest[t] \/ latest'[t].state = "running"
    BY <1>7 DEF EnginePublish, Relay, BeginPublish, TypeOK
  <2>2. latest[t].state \notin Terminal /\ "running" \notin Terminal
    BY <2>1 DEF StageInv, Terminal
  <2>3. StatusOf(t)' = StatusOf(t)
    BY <2>1, <2>2, SameStatus
  <2> QED BY <1>2, <1>3, <2>3
<1>8. CASE \/ SaveRunning(t) \/ EngineReturn(t) \/ EnginePanic(t) \/ DecideRecord(t)
           \/ SaveFinal(t) \/ Cancel(t) \/ DeleteHistory(t)
  <2>1. /\ UNCHANGED <<latest, running>>
        /\ stage'[t] = stage[t] \/ (stage[t] # "lost" /\ stage'[t] # "lost")
    BY <1>8 DEF SaveRunning, EngineReturn, EnginePanic, DecideRecord, SaveFinal, Cancel,
                DeleteHistory, TypeOK
  <2>2. StatusOf(t)' = StatusOf(t)
    BY <2>1, SameStatus
  <2> QED BY <1>2, <1>3, <2>2
<1> QED
  BY <1>4, <1>5, <1>6, <1>7, <1>8 DEF Goroutine

(* The steps of a client: shown the verdict, given another task, or left.  *)
LEMMA ClientMoves ==
    ASSUME IInv, NEW c \in Clients, NEW t \in Tasks,
           Stream(c) \/ ClientGone(c) \/ Subscribe(c, t) \/ SubscribeMiss(c, t)
    PROVE  /\ SameTasks
           /\ \A d \in Clients \ {c} : ShownTo(d)' = ShownTo(d) /\ watch'[d] = watch[d]
           /\ watch' \in [Clients -> Tasks]
           /\ \/ watch' = watch /\ ShownTo(c)' = ShownTo(c)
              \/ watch' = watch /\ ShownTo(c)' = "nothing"
              \/ watch'[c] = t /\ ShownTo(c)' = "nothing"
              \/ /\ watch' = watch /\ ShownTo(c) = "nothing"
                 /\ StatusOf(watch[c]) \in Terminal /\ ShownTo(c)' = StatusOf(watch[c])
<1> USE DEF taskVars, runnerVars, clientVars
<1> TypeOK
  BY DEF IInv
<1>1. SameTasks
  BY DEF Stream, Receive, Replay, Release, ClientGone, Subscribe, SubscribeMiss, SameTasks, StatusOf
<1>2. \A d \in Clients \ {c} : ShownTo(d)' = ShownTo(d) /\ watch'[d] = watch[d]
  BY DEF Stream, Receive, Replay, Release, ClientGone, Subscribe, SubscribeMiss, ShownTo, TypeOK
<1>3. watch' \in [Clients -> Tasks]
  BY DEF Stream, Receive, Replay, Release, ClientGone, Subscribe, SubscribeMiss, TypeOK
<1>4. CASE Receive(c)
  <2>1. /\ phase[c] = "open" /\ chan[c] # <<>> /\ told[c].state \notin Terminal
        /\ told'[c] = Head(chan[c]) /\ UNCHANGED watch
        /\ phase'[c] = IF Head(chan[c]).state \in Terminal THEN "leaving" ELSE "open"
    BY <1>4 DEF Receive, IInv, OrderedDelivery, TypeOK
  <2>2. ShownTo(c) = "nothing"
    BY <2>1 DEF ShownTo
  <2>3. CASE Head(chan[c]).state \in Terminal
    <3>1. Head(chan[c]) = latest[watch[c]]
      BY <2>1, <2>3, FinalIsLatest
    <3>2. /\ StatusOf(watch[c]) = latest[watch[c]].state
          /\ ShownTo(c)' = latest[watch[c]].state
      BY <2>1, <2>3, <3>1 DEF StatusOf, ShownTo
    <3> QED BY <1>1, <1>2, <1>3, <2>1, <2>2, <2>3, <3>1, <3>2
  <2>4. CASE Head(chan[c]).state \notin Terminal
    <3>1. ShownTo(c)' = "nothing"
      BY <2>1, <2>4 DEF ShownTo
    <3> QED BY <1>1, <1>2, <1>3, <2>1, <3>1
  <2> QED BY <2>3, <2>4
<1>5. CASE ClientGone(c)
  <2>1. told[c].state \notin Terminal /\ UNCHANGED <<told, watch>>
    BY <1>5 DEF ClientGone, IInv, OrderedDelivery
  <2>2. ShownTo(c)' = "nothing"
    BY <2>1 DEF ShownTo
  <2> QED BY <1>1, <1>2, <1>3, <2>1, <2>2
<1>6. CASE Replay(c) \/ Release(c)
  <2>1. phase'[c] \in {"replayed", "idle"} /\ watch' = watch
    BY <1>6 DEF Replay, Release, TypeOK
  <2>2. ShownTo(c)' = "nothing"
    BY <2>1 DEF ShownTo
  <2> QED BY <1>1, <1>2, <1>3, <2>1, <2>2
<1>7. CASE Subscribe(c, t) \/ SubscribeMiss(c, t)
  <2>1. told'[c] = NoEvent /\ watch'[c] = t
    BY <1>7 DEF Subscribe, SubscribeMiss, TypeOK
  <2>2. ShownTo(c)' = "nothing"
    BY <2>1 DEF ShownTo, NoEvent, Terminal
  <2> QED BY <1>1, <1>2, <1>3, <2>1, <2>2
<1> QED
  BY <1>4, <1>5, <1>6, <1>7 DEF Stream

(* A crash loses what was running or about to start, and every watcher.    *)
LEMMA CrashMoves ==
    ASSUME TypeOK, StageInv, Crash
    PROVE  /\ watch' = watch
           /\ \A c \in Clients : ShownTo(c)' = "nothing"
           /\ \A t \in Tasks :
                \/ StatusOf(t) \in {"pending", "running"} /\ StatusOf(t)' = "lost"
                \/ StatusOf(t) # "running" /\ StatusOf(t)' = StatusOf(t)
<1>1. watch' = watch /\ latest' = latest
  BY DEF Crash
<1>2. \A c \in Clients : ShownTo(c)' = "nothing"
  BY DEF Crash, ShownTo
<1>3. ASSUME NEW t \in Tasks
      PROVE  \/ StatusOf(t) \in {"pending", "running"} /\ StatusOf(t)' = "lost"
             \/ StatusOf(t) # "running" /\ StatusOf(t)' = StatusOf(t)
  <2>1. /\ t \notin running'
        /\ stage'[t] = IF stage[t] \in Active \cup {"recorded"} THEN "lost" ELSE stage[t]
    BY DEF Crash
  <2>2. t \in running <=> stage[t] \in Active
    BY DEF StageInv
  <2>3. CASE latest[t].state \in Terminal
    <3>1. StatusOf(t) = latest[t].state /\ StatusOf(t)' = latest[t].state
      BY <1>1, <2>3 DEF StatusOf
    <3> QED BY <2>3, <3>1 DEF Terminal
  <2>4. CASE latest[t].state \notin Terminal
    BY <1>1, <2>1, <2>2, <2>4 DEF StatusOf, Active
  <2> QED BY <2>3, <2>4
<1> QED BY <1>1, <1>2, <1>3

LEMMA LifecycleStep ==
    ASSUME IInv, [Next]_vars
    PROVE  [Lifecycle!Next]_(Lifecycle!vars)
<1> DEFINE status == [t \in Tasks |-> StatusOf(t)]
           shown  == [c \in Clients |-> ShownTo(c)]
<1> TypeOK /\ StageInv
  BY DEF IInv
<1>1. ASSUME NEW t \in Tasks,
             SaveRunning(t) \/ Goroutine(t) \/ EnginePublish(t) \/ Cancel(t) \/ DeleteHistory(t)
      PROVE  [Lifecycle!Next]_(Lifecycle!vars)
  <2>1. /\ UNCHANGED <<watch, shown>>
        /\ \A u \in Tasks \ {t} : StatusOf(u)' = StatusOf(u)
    BY <1>1, TaskMoves DEF SameClients
  <2>2. CASE StatusOf(t)' = StatusOf(t)
    <3>1. SameTasks /\ SameClients
      BY <1>1, <2>1, <2>2, TaskMoves DEF SameTasks
    <3> QED BY <3>1, Stutter
  <2>3. CASE StatusOf(t) = "pending" /\ StatusOf(t)' = "running"
    <3>1. status[t] = "pending" /\ status' = [status EXCEPT ![t] = "running"]
      BY <2>1, <2>3
    <3>2. Lifecycle!Start(t)
      BY <2>1, <3>1 DEF Lifecycle!Start
    <3> QED BY <3>2 DEF Lifecycle!Next
  <2>4. CASE StatusOf(t) = "running" /\ StatusOf(t)' \in Terminal
    <3>1. /\ status[t] = "running"
          /\ \E v \in Terminal : status' = [status EXCEPT ![t] = v]
      BY <2>1, <2>4
    <3>2. Lifecycle!Conclude(t)
      BY <2>1, <3>1 DEF Lifecycle!Conclude, Lifecycle!Verdict, Terminal
    <3> QED BY <3>2 DEF Lifecycle!Next
  <2> QED BY <1>1, <2>2, <2>3, <2>4, TaskMoves
<1>2. ASSUME NEW c \in Clients, NEW t \in Tasks,
             Stream(c) \/ ClientGone(c) \/ Subscribe(c, t) \/ SubscribeMiss(c, t)
      PROVE  [Lifecycle!Next]_(Lifecycle!vars)
  <2>1. /\ SameTasks /\ status' = status
        /\ \A d \in Clients \ {c} : ShownTo(d)' = ShownTo(d) /\ watch'[d] = watch[d]
        /\ watch' \in [Clients -> Tasks] /\ watch \in [Clients -> Tasks]
    BY <1>2, ClientMoves DEF SameTasks, TypeOK
  <2>2. CASE watch' = watch /\ ShownTo(c)' = ShownTo(c)
    <3>1. SameClients
      BY <2>1, <2>2 DEF SameClients
    <3> QED BY <2>1, <3>1, Stutter
  <2>3. CASE watch' = watch /\ ShownTo(c)' = "nothing"
    <3>1. shown' = [shown EXCEPT ![c] = "nothing"]
      BY <2>1, <2>3
    <3>2. Lifecycle!Leave(c)
      BY <2>1, <2>3, <3>1 DEF Lifecycle!Leave
    <3> QED BY <3>2 DEF Lifecycle!Next
  <2>4. CASE watch'[c] = t /\ ShownTo(c)' = "nothing"
    <3>1. /\ shown' = [shown EXCEPT ![c] = "nothing"]
          /\ watch' = [watch EXCEPT ![c] = t]
      BY <2>1, <2>4
    <3>2. Lifecycle!Watch(c, t)
      BY <2>1, <3>1 DEF Lifecycle!Watch
    <3> QED BY <3>2 DEF Lifecycle!Next
  <2>5. CASE /\ watch' = watch /\ ShownTo(c) = "nothing"
             /\ StatusOf(watch[c]) \in Terminal /\ ShownTo(c)' = StatusOf(watch[c])
    <3>1. /\ shown[c] = "nothing" /\ status[watch[c]] \in Terminal
          /\ shown' = [shown EXCEPT ![c] = status[watch[c]]]
      BY <2>1, <2>5
    <3>2. Lifecycle!Show(c)
      BY <2>1, <2>5, <3>1 DEF Lifecycle!Show, Lifecycle!Verdict, Terminal
    <3> QED BY <3>2 DEF Lifecycle!Next
  <2> QED BY <1>2, <2>2, <2>3, <2>4, <2>5, ClientMoves
<1>3. CASE Publisher \/ UNCHANGED vars
  <2>1. UNCHANGED <<stage, running, latest, phase, watch, told>>
    BY <1>3 DEF Publisher, Offer, Evict, Retry, EndPublish, vars, taskVars, runnerVars, clientVars
  <2>2. SameTasks /\ SameClients
    BY <2>1 DEF SameTasks, SameClients, StatusOf, ShownTo
  <2> QED BY <2>2, Stutter
<1>4. CASE Crash
  <2> DEFINE lost == {t \in Tasks : StatusOf(t) \in {"pending", "running"} /\ StatusOf(t)' = "lost"}
  <2>1. /\ watch' = watch /\ shown' = [c \in Clients |-> "nothing"]
        /\ \A t \in Tasks : t \in lost \/ (StatusOf(t) # "running" /\ StatusOf(t)' = StatusOf(t))
    BY <1>4, CrashMoves
  <2>2. /\ lost \in SUBSET {t \in Tasks : status[t] \in {"pending", "running"}}
        /\ \A t \in Tasks : status[t] = "running" => t \in lost
        /\ status' = [t \in Tasks |-> IF t \in lost THEN "lost" ELSE status[t]]
    BY <2>1
  <2>3. Lifecycle!LoseAll
    BY <2>1, <2>2 DEF Lifecycle!LoseAll
  <2> QED BY <2>3 DEF Lifecycle!Next
<1>5. \A c \in Clients : watch[c] \in Tasks
  BY DEF TypeOK
<1>6. ASSUME NEW c \in Clients, Stream(c) \/ ClientGone(c)
      PROVE  [Lifecycle!Next]_(Lifecycle!vars)
  BY <1>2, <1>5, <1>6
<1> QED
  BY <1>1, <1>2, <1>3, <1>4, <1>6 DEF Next

(* TaskRunner implements TaskLifecycle: the watchers of a task are shown   *)
(* its one verdict and no other, through full channels, cancels, failed    *)
(* saves, panics and crashes.                                              *)
THEOREM RunnerImplementsLifecycle == Spec => ImplementsLifecycle
<1>1. Init => Lifecycle!Init
  BY DEF Init, Lifecycle!Init, StatusOf, ShownTo, NoEvent, Terminal
<1>2. IInv /\ [Next]_vars => [Lifecycle!Next]_(Lifecycle!vars)
  BY LifecycleStep
<1> QED
  BY <1>1, <1>2, Invariant, PTL DEF Spec, ImplementsLifecycle, Lifecycle!Spec

=============================================================================
