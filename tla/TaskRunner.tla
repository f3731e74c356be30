----------------------------- MODULE TaskRunner -----------------------------
(***************************************************************************)
(* The asynchronous task runner of internal/service and the SSE endpoint   *)
(* that streams its progress (internal/web/sse.go).                        *)
(*                                                                         *)
(* A Start<Kind> entry point saves a "running" history record, registers   *)
(* the task in TaskRunner.running and starts a goroutine.  The goroutine   *)
(* runs the engine, which publishes progress, saves the final record       *)
(* (finishRecord), pushes the final event and removes the entry.           *)
(*                                                                         *)
(* publish() holds r.mu while it offers the event to every subscriber; a   *)
(* subscriber takes events off its channel without the lock, so the three  *)
(* selects of publish() are three steps here.                              *)
(***************************************************************************)
EXTENDS Naturals, Sequences

CONSTANTS
    Tasks,        \* task IDs (xid, never reused)
    Clients,      \* SSE connections
    None,         \* no task, no client
    Cap,          \* capacity of a subscriber channel (16 in the code)
    MaxProgress,  \* bound: progress events the engine publishes per task
    MaxCrashes,   \* bound: process crashes
    Faults        \* which faults this instance meets: "save", "panic"

ASSUME NoneAssumption   == None \notin Tasks \cup Clients
ASSUME CapAssumption    == Cap \in Nat \ {0}
ASSUME BoundAssumption  == MaxProgress \in Nat /\ MaxCrashes \in Nat
ASSUME FaultsAssumption == Faults \subseteq {"save", "panic"}

VARIABLES
    stage,    \* where the goroutine of each task is
    outcome,  \* what the engine returned: "none", "ok", "failed", "panic"
    ctxDone,  \* ctx.Err() # nil
    verdict,  \* record.Status computed by finishRecord, not yet saved
    running,  \* TaskRunner.running: the tasks with an entry
    latest,   \* runningTask.latest (NoEvent while hasLatest is false)
    subs,     \* runningTask.subs, as sets of clients
    pub,      \* the publish() call that holds r.mu, if any
    chan,     \* buffered content of each subscriber channel
    phase,    \* streamProgress of each client
    watch,    \* the task a client asked for
    told,     \* last event written to the client on this connection
    history,  \* status column of the execution history
    crashes

taskVars   == <<stage, outcome, ctxDone, verdict>>
runnerVars == <<running, latest, subs, pub>>
clientVars == <<phase, watch, told>>
vars == <<taskVars, runnerVars, chan, clientVars, history, crashes>>

-----------------------------------------------------------------------------
Terminal == {"done", "error", "cancelled"}        \* isTerminalState
Stages   == {"new", "recorded", "engine", "returned", "decided", "saved",
             "relayed", "final", "ended", "lost"}
(* The goroutine exists, and its task has an entry in running.             *)
Active   == {"engine", "returned", "decided", "saved", "relayed", "final"}

Event    == [state : {"none", "running"} \cup Terminal, seq : Nat]
NoEvent  == [state |-> "none", seq |-> 0]
Idle     == [step |-> "idle", task |-> None, todo |-> {}, cur |-> None]

Publishing == pub.step # "idle"
MuFree     == ~Publishing

(* ctx cancelled always counts as cancelled, whatever the error says.      *)
Conclude(t) == IF outcome[t] = "ok" THEN "done"
               ELSE IF ctxDone[t] THEN "cancelled" ELSE "error"

Init ==
    /\ stage   = [t \in Tasks |-> "new"]
    /\ outcome = [t \in Tasks |-> "none"]
    /\ ctxDone = [t \in Tasks |-> FALSE]
    /\ verdict = [t \in Tasks |-> "none"]
    /\ running = {}
    /\ latest  = [t \in Tasks |-> NoEvent]
    /\ subs    = [t \in Tasks |-> {}]
    /\ pub     = Idle
    /\ chan    = [c \in Clients |-> <<>>]
    /\ phase   = [c \in Clients |-> "idle"]
    /\ watch   \in [Clients -> Tasks]
    /\ told    = [c \in Clients |-> NoEvent]
    /\ history = [t \in Tasks |-> "absent"]
    /\ crashes = 0

-----------------------------------------------------------------------------
(* Start<Kind>: the running record first (a failed save is ignored), then  *)
(* the entry in the running table and the goroutine.                       *)
SaveRunning(t) ==
    /\ stage[t] = "new"
    /\ stage' = [stage EXCEPT ![t] = "recorded"]
    /\ \/ history' = [history EXCEPT ![t] = "running"]
       \/ "save" \in Faults /\ UNCHANGED history
    /\ UNCHANGED <<outcome, ctxDone, verdict, runnerVars, chan, clientVars, crashes>>

Register(t) ==
    /\ stage[t] = "recorded" /\ MuFree
    /\ stage' = [stage EXCEPT ![t] = "engine"]
    /\ running' = running \cup {t}
    /\ UNCHANGED <<outcome, ctxDone, verdict, latest, subs, pub, chan,
                   clientVars, history, crashes>>

-----------------------------------------------------------------------------
(* publish: with r.mu held, latest is replaced and every subscriber is     *)
(* offered the event, which stays latest[pub.task] until the lock is free.  *)
BeginPublish(t, state) ==
    /\ MuFree
    /\ t \in running
    /\ latest' = [latest EXCEPT ![t] = [state |-> state, seq |-> @.seq + 1]]
    /\ pub' = [step |-> "offer", task |-> t, todo |-> subs[t], cur |-> None]

Offered == latest[pub.task]

Offer(c) ==
    /\ pub.step = "offer" /\ c \in pub.todo
    /\ IF Len(chan[c]) < Cap
       THEN /\ chan' = [chan EXCEPT ![c] = Append(@, Offered)]
            /\ pub' = [pub EXCEPT !.todo = @ \ {c}]
       ELSE /\ pub' = [pub EXCEPT !.step = "evict", !.cur = c]
            /\ UNCHANGED chan
    /\ UNCHANGED <<taskVars, running, latest, subs, clientVars, history, crashes>>

Evict ==
    /\ pub.step = "evict"
    /\ chan' = [chan EXCEPT ![pub.cur] = IF @ = <<>> THEN @ ELSE Tail(@)]
    /\ pub' = [pub EXCEPT !.step = "retry"]
    /\ UNCHANGED <<taskVars, running, latest, subs, clientVars, history, crashes>>

Retry ==
    /\ pub.step = "retry"
    /\ chan' = [chan EXCEPT ![pub.cur] =
                    IF Len(@) < Cap THEN Append(@, Offered) ELSE @]
    /\ pub' = [pub EXCEPT !.step = "offer", !.todo = @ \ {pub.cur}, !.cur = None]
    /\ UNCHANGED <<taskVars, running, latest, subs, clientVars, history, crashes>>

EndPublish ==
    /\ pub.step = "offer" /\ pub.todo = {}
    /\ pub' = Idle
    /\ UNCHANGED <<taskVars, running, latest, subs, chan, clientVars, history, crashes>>

(* The goroutine of t goes on only when its own publish() has returned.    *)
Proceeds(t) == Publishing => pub.task # t

-----------------------------------------------------------------------------
(* The goroutine.                                                          *)
EnginePublish(t) ==
    /\ stage[t] = "engine" /\ latest[t].seq < MaxProgress
    /\ BeginPublish(t, "running")
    /\ UNCHANGED <<taskVars, running, subs, chan, clientVars, history, crashes>>

(* Slip: an early return that skips finishRecord when the engine failed.   *)
EngineReturnSkip(t) ==
    /\ stage[t] = "engine" /\ Proceeds(t)
    /\ \E o \in {"ok", "failed"} :
          /\ outcome' = [outcome EXCEPT ![t] = o]
          /\ stage' = [stage EXCEPT ![t] = IF o = "ok" THEN "returned" ELSE "relayed"]
    /\ UNCHANGED <<ctxDone, verdict, runnerVars, chan, clientVars, history, crashes>>

EngineReturn(t) ==
    /\ stage[t] = "engine" /\ Proceeds(t)
    /\ \E o \in {"ok", "failed"} :
          /\ outcome' = [outcome EXCEPT ![t] = o]
          /\ stage' = [stage EXCEPT ![t] = "returned"]
    /\ UNCHANGED <<ctxDone, verdict, runnerVars, chan, clientVars, history, crashes>>

(* recover() turns the panic into an error; finishRecord is skipped.       *)
EnginePanic(t) ==
    /\ "panic" \in Faults
    /\ stage[t] = "engine" /\ Proceeds(t)
    /\ outcome' = [outcome EXCEPT ![t] = "panic"]
    /\ stage' = [stage EXCEPT ![t] = "relayed"]
    /\ UNCHANGED <<ctxDone, verdict, runnerVars, chan, clientVars, history, crashes>>

(* finishRecord reads ctx here ...                                         *)
DecideRecord(t) ==
    /\ stage[t] = "returned"
    /\ verdict' = [verdict EXCEPT ![t] = Conclude(t)]
    /\ stage' = [stage EXCEPT ![t] = "decided"]
    /\ UNCHANGED <<outcome, ctxDone, runnerVars, chan, clientVars, history, crashes>>

(* ... and saves the record after fill() has moved the artifact.           *)
SaveFinal(t) ==
    /\ stage[t] = "decided"
    /\ stage' = [stage EXCEPT ![t] = "saved"]
    /\ \/ history' = [history EXCEPT ![t] = verdict[t]]
       \/ "save" \in Faults /\ UNCHANGED history
    /\ UNCHANGED <<outcome, ctxDone, verdict, runnerVars, chan, clientVars, crashes>>

(* An export or a dictionary publishes its relocated artifact path.        *)
Relay(t) ==
    /\ stage[t] = "saved"
    /\ stage' = [stage EXCEPT ![t] = "relayed"]
    /\ \/ outcome[t] = "ok" /\ BeginPublish(t, "running")
       \/ UNCHANGED <<latest, pub>>
    /\ UNCHANGED <<outcome, ctxDone, verdict, running, subs, chan, clientVars,
                   history, crashes>>

(* Slips: the final event pushed before the record is saved; pushed again. *)
PublishFinalFirst(t) ==
    /\ stage[t] \in {"returned", "relayed"}
    /\ BeginPublish(t, Conclude(t))
    /\ stage' = [stage EXCEPT ![t] = IF @ = "relayed" THEN "final" ELSE @]
    /\ UNCHANGED <<outcome, ctxDone, verdict, running, subs, chan, clientVars,
                   history, crashes>>

PublishFinalTwice(t) ==
    /\ stage[t] \in {"relayed", "final"} /\ latest[t].seq < MaxProgress + 3
    /\ BeginPublish(t, Conclude(t))
    /\ stage' = [stage EXCEPT ![t] = "final"]
    /\ UNCHANGED <<outcome, ctxDone, verdict, running, subs, chan, clientVars,
                   history, crashes>>

(* The runner reads ctx again for the final event.                         *)
PublishFinal(t) ==
    /\ stage[t] = "relayed"
    /\ BeginPublish(t, Conclude(t))
    /\ stage' = [stage EXCEPT ![t] = "final"]
    /\ UNCHANGED <<outcome, ctxDone, verdict, running, subs, chan, clientVars,
                   history, crashes>>

Unregister(t) ==
    /\ stage[t] = "final" /\ MuFree
    /\ stage' = [stage EXCEPT ![t] = "ended"]
    /\ running' = running \ {t}
    /\ subs' = [subs EXCEPT ![t] = {}]
    /\ UNCHANGED <<outcome, ctxDone, verdict, latest, pub, chan, clientVars,
                   history, crashes>>

-----------------------------------------------------------------------------
(* Requests.                                                               *)
Cancel(t) ==
    /\ MuFree /\ t \in running
    /\ ctxDone' = [ctxDone EXCEPT ![t] = TRUE]
    /\ UNCHANGED <<stage, outcome, verdict, runnerVars, chan, clientVars,
                   history, crashes>>

(* Slip: a fresh channel that is not preloaded.                            *)
SubscribeEmpty(c, t) ==
    /\ phase[c] = "idle" /\ MuFree /\ t \in running
    /\ subs' = [subs EXCEPT ![t] = @ \cup {c}]
    /\ chan' = [chan EXCEPT ![c] = <<>>]
    /\ phase' = [phase EXCEPT ![c] = "open"]
    /\ watch' = [watch EXCEPT ![c] = t]
    /\ told' = [told EXCEPT ![c] = NoEvent]
    /\ UNCHANGED <<taskVars, running, latest, pub, history, crashes>>

(* streamProgress: Subscribe hands over a channel preloaded with latest.   *)
Subscribe(c, t) ==
    /\ phase[c] = "idle" /\ MuFree /\ t \in running
    /\ subs' = [subs EXCEPT ![t] = @ \cup {c}]
    /\ chan' = [chan EXCEPT ![c] = IF latest[t] = NoEvent THEN <<>>
                                   ELSE <<latest[t]>>]
    /\ phase' = [phase EXCEPT ![c] = "open"]
    /\ watch' = [watch EXCEPT ![c] = t]
    /\ told' = [told EXCEPT ![c] = NoEvent]
    /\ UNCHANGED <<taskVars, running, latest, pub, history, crashes>>

(* No entry: the answer will come from the execution history ...           *)
SubscribeMiss(c, t) ==
    /\ phase[c] = "idle" /\ MuFree /\ t \notin running
    /\ stage[t] # "new"
    /\ phase' = [phase EXCEPT ![c] = "fallback"]
    /\ watch' = [watch EXCEPT ![c] = t]
    /\ told' = [told EXCEPT ![c] = NoEvent]
    /\ UNCHANGED <<taskVars, runnerVars, chan, history, crashes>>

(* ... read later: "progress" and "done" with the status of the record, or *)
(* an "error" event when there is none.                                    *)
Replay(c) ==
    /\ phase[c] = "fallback"
    /\ phase' = [phase EXCEPT ![c] = "replayed"]
    /\ told' = [told EXCEPT ![c] =
                  [state |-> IF history[watch[c]] = "absent" THEN "none"
                             ELSE history[watch[c]], seq |-> 0]]
    /\ UNCHANGED <<taskVars, runnerVars, chan, watch, history, crashes>>

Receive(c) ==
    /\ phase[c] = "open" /\ chan[c] # <<>>
    /\ told' = [told EXCEPT ![c] = Head(chan[c])]
    /\ chan' = [chan EXCEPT ![c] = Tail(@)]
    /\ phase' = [phase EXCEPT ![c] =
                    IF Head(chan[c]).state \in Terminal THEN "leaving" ELSE "open"]
    /\ UNCHANGED <<taskVars, runnerVars, watch, history, crashes>>

ClientGone(c) ==
    /\ phase[c] = "open"
    /\ phase' = [phase EXCEPT ![c] = "leaving"]
    /\ UNCHANGED <<taskVars, runnerVars, chan, watch, told, history, crashes>>

(* The deferred release() unsubscribes; the connection may be reused for   *)
(* another request.                                                        *)
Release(c) ==
    /\ \/ phase[c] = "leaving" /\ MuFree
       \/ phase[c] = "replayed"
    /\ subs' = [subs EXCEPT ![watch[c]] = @ \ {c}]
    /\ chan' = [chan EXCEPT ![c] = <<>>]
    /\ phase' = [phase EXCEPT ![c] = "idle"]
    /\ UNCHANGED <<taskVars, running, latest, pub, watch, told, history, crashes>>

(* A record that says "running" is refused.                                *)
DeleteHistory(t) ==
    /\ history[t] \notin {"absent", "running"}
    /\ history' = [history EXCEPT ![t] = "absent"]
    /\ UNCHANGED <<taskVars, runnerVars, chan, clientVars, crashes>>

(* Everything but the store is lost; nothing is reconciled at the restart. *)
Crash ==
    /\ crashes < MaxCrashes
    /\ crashes' = crashes + 1
    /\ stage' = [t \in Tasks |-> IF stage[t] \in Active \cup {"recorded"}
                                 THEN "lost" ELSE stage[t]]
    /\ running' = {}
    /\ subs' = [t \in Tasks |-> {}]
    /\ pub' = Idle
    /\ chan' = [c \in Clients |-> <<>>]
    /\ phase' = [c \in Clients |-> "idle"]
    /\ told' = [c \in Clients |-> NoEvent]
    /\ UNCHANGED <<outcome, ctxDone, verdict, latest, watch, history>>

-----------------------------------------------------------------------------
Goroutine(t) ==
    \/ Register(t)     \/ EngineReturn(t)  \/ EnginePanic(t)
    \/ DecideRecord(t) \/ SaveFinal(t)     \/ Relay(t)
    \/ PublishFinal(t) \/ Unregister(t)

Publisher == Evict \/ Retry \/ EndPublish \/ \E c \in Clients : Offer(c)

Stream(c) == Receive(c) \/ Replay(c) \/ Release(c)

Next ==
    \/ \E t \in Tasks : SaveRunning(t) \/ Goroutine(t) \/ EnginePublish(t)
                        \/ Cancel(t) \/ DeleteHistory(t)
    \/ Publisher
    \/ \E c \in Clients : Stream(c) \/ ClientGone(c)
    \/ \E c \in Clients, t \in Tasks : Subscribe(c, t) \/ SubscribeMiss(c, t)
    \/ Crash

Spec == Init /\ [][Next]_vars

(* The runtime schedules every goroutine, the engine returns, and a stream *)
(* handler drains its channel.  Users and crashes owe nothing.             *)
Fairness ==
    /\ WF_vars(Publisher)
    /\ \A t \in Tasks : WF_vars(Goroutine(t))
    /\ \A c \in Clients : WF_vars(Stream(c))

FairSpec == Spec /\ Fairness
=============================================================================
