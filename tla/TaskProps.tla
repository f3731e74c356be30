----------------------------- MODULE TaskProps ------------------------------
(***************************************************************************)
(* What the task runner owes its callers (TaskRunner).                     *)
(***************************************************************************)
EXTENDS TaskRunner

(* Every variable stays in its type; channels never exceed their capacity. *)
TypeOK ==
    /\ stage   \in [Tasks -> Stages]
    /\ outcome \in [Tasks -> {"none", "ok", "failed", "panic"}]
    /\ ctxDone \in [Tasks -> BOOLEAN]
    /\ verdict \in [Tasks -> {"none"} \cup Terminal]
    /\ \A t \in Tasks : stage[t] = "decided" => verdict[t] \in Terminal
    /\ running \subseteq Tasks
    /\ latest  \in [Tasks -> Event]
    /\ subs    \in [Tasks -> SUBSET Clients]
    /\ pub     \in {Idle} \cup [step : {"offer", "evict", "retry"}, task : Tasks,
                                todo : SUBSET Clients, cur : Clients \cup {None}]
    /\ chan    \in [Clients -> Seq(Event)]
    /\ \A c \in Clients : Len(chan[c]) <= Cap
    /\ phase   \in [Clients -> {"idle", "open", "leaving", "fallback", "replayed"}]
    /\ watch   \in [Clients -> Tasks]
    /\ told    \in [Clients -> Event]
    /\ history \in [Tasks -> {"absent", "running"} \cup Terminal]
    /\ crashes \in 0 .. MaxCrashes

-----------------------------------------------------------------------------
(* The newest event of a stream: the last one buffered in s, or, when the  *)
(* channel is empty, the last one told to the client.                      *)
NewestOf(s, last) == IF s = <<>> THEN last ELSE s[Len(s)]
Newest(c) == NewestOf(chan[c], told[c])

(* Buffered events come after what was told, each after those before it,   *)
(* and nothing follows a final event.                                      *)
InOrder(s, last) ==
    \A i \in 1 .. Len(s) :
        /\ last.seq < s[i].seq
        /\ s[i].state \in Terminal => i = Len(s)
        /\ \A j \in 1 .. i - 1 : s[j].seq < s[i].seq

(* publish() drops the oldest event of a slow subscriber, never the newest *)
(* one: outside the offers still to be made, the newest event in flight to *)
(* an open stream is the latest event of its task.                         *)
NewestNeverDropped ==
    \A c \in Clients : phase[c] = "open" /\ c \notin pub.todo
                          => Newest(c) = latest[watch[c]]

(* When the task has left the running table, a stream still open has the   *)
(* final event waiting in its channel: it cannot hang on an empty channel  *)
(* nobody will ever write to again (the channel is never closed).          *)
EndedStreamsHoldFinalEvent ==
    \A c \in Clients : phase[c] = "open" /\ watch[c] \notin running
                          => chan[c] # <<>> /\ Newest(c).state \in Terminal

(* A stream shows events in the order they were published, never one       *)
(* twice, and nothing after the final one.                                 *)
OrderedDelivery ==
    \A c \in Clients : phase[c] = "open" =>
        /\ told[c].state \notin Terminal
        /\ InOrder(chan[c], told[c])

(* ProgressView.tsx:80 relies on "persist the final state, then push": a   *)
(* client told live that a task ended finds a terminal record or none.     *)
PersistedBeforePushed ==
    \A c \in Clients : phase[c] \in {"open", "leaving"} /\ told[c].state \in Terminal
                          => history[watch[c]] # "running"

(* A record that was deleted does not come back: DeleteHistory refuses the *)
(* tasks whose finishRecord has still to write.                            *)
DeletedStaysDeleted ==
    [][\A t \in Tasks : stage[t] # "new" /\ history[t] = "absent"
            => history'[t] = "absent"]_vars

(* The record and the stream agree on success: one says "done" only if the *)
(* other does, however late a cancel arrives.                              *)
SuccessAgrees ==
    \A t \in Tasks :
        /\ history[t] \in Terminal /\ latest[t].state \in Terminal
        => (history[t] = "done" <=> latest[t].state = "done")

(* What the streams promise together (TaskRunner.publish, streamProgress): *)
(* in order, never without the newest event, and ended by the final one.   *)
StreamContract == NewestNeverDropped /\ OrderedDelivery /\ EndedStreamsHoldFinalEvent

(* What the record promises (finishRecord, DeleteHistory): it is final     *)
(* before anybody is told, agrees with what they are told, and stays       *)
(* deleted.                                                                *)
RecordContract == [](PersistedBeforePushed /\ SuccessAgrees) /\ DeletedStaysDeleted

(* The runner implements the promise of TaskLifecycle: what a client reads *)
(* live is the one verdict of its task.                                    *)
StatusOf(t) == IF latest[t].state \in Terminal THEN latest[t].state
               ELSE IF stage[t] = "lost" THEN "lost"
               ELSE IF t \in running THEN "running"
               ELSE "pending"
ShownTo(c)  == IF phase[c] \in {"open", "leaving"} /\ told[c].state \in Terminal
               THEN told[c].state ELSE "nothing"

Lifecycle == INSTANCE TaskLifecycle WITH
    status  <- [t \in Tasks |-> StatusOf(t)],
    watched <- watch,
    shown   <- [c \in Clients |-> ShownTo(c)]

ImplementsLifecycle == Lifecycle!Spec

(* Every stream that stays ends with the final event (or the client goes). *)
StreamsEnd == \A c \in Clients : phase[c] = "open" ~> phase[c] # "open"

(* Without a fault, a task that was recorded gets a terminal record.       *)
RecordsSettle == \A t \in Tasks : history[t] = "running" ~> history[t] # "running"

(* Nothing waits for ever: the streams and the records come to their end.  *)
Settles == StreamsEnd /\ RecordsSettle

-----------------------------------------------------------------------------
(* The inductive invariant behind the stream properties.                   *)

(* The goroutine and the running table agree, and only the last step of    *)
(* the goroutine makes the latest event final.                             *)
StageInv ==
    \A t \in Tasks :
        /\ t \in running <=> stage[t] \in Active
        /\ stage[t] \in {"final", "ended"} => latest[t].state \in Terminal
        /\ stage[t] \notin {"final", "ended", "lost"} => latest[t].state \notin Terminal
        /\ latest[t] = NoEvent \/ latest[t].seq > 0

(* A subscriber set holds the connections that have not released yet.      *)
SubsInv ==
    /\ \A t \in Tasks : \A c \in subs[t] :
          t \in running /\ watch[c] = t /\ phase[c] \in {"open", "leaving"}
    /\ \A c \in Clients : phase[c] = "open" =>
          /\ stage[watch[c]] \in Active \cup {"ended"}
          /\ watch[c] \in running => c \in subs[watch[c]]

(* The publication that holds the lock: whom it still owes the event, and  *)
(* room in the channel it has just taken an event from.                    *)
PubInv ==
    /\ pub.step # "idle" => pub.task \in running /\ pub.todo \subseteq subs[pub.task]
    /\ pub.step \in {"evict", "retry"} => pub.cur \in pub.todo
    /\ pub.step = "retry" => Len(chan[pub.cur]) < Cap

(* A stream still owed the event has only older, not final, ones.          *)
OwedInv ==
    \A c \in Clients : phase[c] = "open" /\ c \in pub.todo
        => /\ Newest(c).seq < latest[watch[c]].seq
           /\ Newest(c).state \notin Terminal

IInv == /\ TypeOK /\ StageInv /\ SubsInv /\ PubInv /\ OwedInv
        /\ NewestNeverDropped /\ OrderedDelivery

=============================================================================
