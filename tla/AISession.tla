----------------------------- MODULE AISession -----------------------------
(* The conversation of the AI assistant of one query tab: the panels          *)
(* (browser windows) that show it, the requests they send, the session object *)
(* the server keeps in memory, and the stored row it is restored from.        *)
(*                                                                            *)
(* A request names a session by its id.  The object behind the id may be      *)
(* replaced while an older request still holds the previous one: after a      *)
(* restart, after the eviction of an idle session, after a deletion.  Every   *)
(* object has a lock that a chat holds from the user's message to the saved   *)
(* answer; the row has none, and is always overwritten with all the messages  *)
(* of the object that saves it.                                               *)
(*                                                                            *)
(* Modelled for one user and one session id: the ownership checks always      *)
(* succeed.  Conversations stay below the 40 messages from which the oldest   *)
(* rounds are trimmed, every request carries a msg_id (the web client), and   *)
(* an answer is shown whole or not at all.                                    *)
EXTENDS Naturals, Sequences, SequencesExt, FiniteSets

CONSTANTS
    MaxReqs,   \* bound: requests (chats and resets) of any scenario
    Scenarios  \* what a behaviour may contain: the windows that show the tab,
               \* the faults of the environment, what users do besides sending

(* A scenario bounds the requests a behaviour contains (reqs) and names the   *)
(* faults.  "model": the model fails or answers nothing usable; "build": the  *)
(* tables cannot be listed when a session is rebuilt; "save": the row cannot  *)
(* be written; "reply": the connection breaks before the answer is delivered; *)
(* "late": a cancelled request finishes all the same; "crash": the server     *)
(* restarts; "evict": the idle session is dropped to make room for another.   *)
ASSUME AISessionAssumption ==
    /\ MaxReqs \in Nat \ {0}
    /\ \A s \in Scenarios :
          /\ IsFiniteSet(s.panels) /\ s.reqs \in 1 .. MaxReqs
          /\ s.faults \subseteq {"model", "build", "save", "reply", "late", "crash", "evict"}
          /\ s.moves \subseteq {"stop", "retry", "reset", "close", "reload"}

VARIABLES
    scenario, \* the scenario of this behaviour, never changed
    heap,     \* session objects ever built since the start: messages and lock
    mem,      \* aiMgr.sessions: the object behind the id, 0 when there is none
    row,      \* the stored messages, or NoRow
    rq,       \* the requests
    panel     \* the panels: what is shown, the last msg_id, what is going on

vars == <<scenario, heap, mem, row, rq, panel>>

Reqs == 1 .. MaxReqs
NoRow == [stored |-> FALSE, messages |-> <<>>]
Row(msgs) == [stored |-> TRUE, messages |-> msgs]

(* A task is the text of a message: the number of the request that first sent *)
(* it.  An answer carries the request that asked the model and the task the   *)
(* model was given.                                                           *)
User(id, task) == [role |-> "user", id |-> id, task |-> task]
Answer(r, task) == [role |-> "assistant", id |-> r, task |-> task]
ErrorBubble == [role |-> "error", id |-> 0, task |-> 0]

Indices(msgs, Test(_)) == {i \in DOMAIN msgs : Test(msgs[i])}
UsersOf(msgs) == Indices(msgs, LAMBDA m : m.role = "user")
AnswersOf(msgs) == {msgs[i] : i \in Indices(msgs, LAMBDA m : m.role = "assistant")}
LastTask(msgs) == msgs[Max(UsersOf(msgs))].task
EndsWithUser(msgs) == msgs # <<>> /\ Last(msgs).role = "user"

(* findMsgIDUser: the position of the user's message with this msg_id. *)
WithMsgID(msgs, id) == Indices(msgs, LAMBDA m : m.role = "user" /\ m.id = id)
Answered(msgs, i) == i < Len(msgs) /\ msgs[i + 1].role = "assistant"

(* The messages at these positions, in their order.                           *)
Keep(msgs, at) ==
    [k \in 1 .. Cardinality(at) |->
        msgs[CHOOSE i \in at : Cardinality({j \in at : j <= i}) = k]]

(* dedupeConsecutiveUser: of neighbouring messages of the user with the same  *)
(* text only the last remains.                                                *)
SameUserText(m, n) == m.role = "user" /\ n.role = "user" /\ m.task = n.task
DedupeConsecutiveUser(msgs) ==
    Keep(msgs, {i \in DOMAIN msgs : i = Len(msgs) \/ ~SameUserText(msgs[i], msgs[i + 1])})

Unused == [pc |-> "unused", panel |-> 0, id |-> 0, task |-> 0, history |-> <<>>,
           from |-> <<>>, restoring |-> FALSE, obj |-> 0, answer |-> ErrorBubble,
           live |-> FALSE]

Init ==
    /\ scenario \in Scenarios
    \* The panel has created the session: an empty object and an empty row.
    /\ heap = <<[messages |-> <<>>, lock |-> 0]>>
    /\ mem = 1
    /\ row = Row(<<>>)
    /\ rq = [r \in Reqs |-> Unused]
    /\ panel = [p \in scenario.panels |-> [state |-> "idle", view |-> <<>>, seq |-> 0,
                                  resend |-> <<>>]]

-----------------------------------------------------------------------------
(* The panel *)

Ended(r) == rq[r].pc \in {"unused", "done", "failed"}
Free(r) ==
    /\ rq[r].pc = "unused" /\ \A q \in 1 .. r - 1 : rq[q].pc # "unused"
    /\ r <= scenario.reqs

(* A panel streams one request at a time (streamingRef). *)
Streaming(p) == panel[p].state = "streaming"

(* The request is cancelled: its panel no longer listens. *)
Cancelled(p) == [r \in Reqs |-> IF rq[r].panel = p /\ ~Ended(r) /\ rq[r].live
                                THEN [rq[r] EXCEPT !.live = FALSE] ELSE rq[r]]

(* The messages shown, without the error bubbles: the history a request       *)
(* carries for a session that is gone.                                        *)
Shown(view) == Keep(view, Indices(view, LAMBDA m : m.role # "error"))

(* doSend *)
Submit(p, r, id, task, view, seq) ==
    /\ Free(r)
    /\ rq' = [rq EXCEPT ![r] = [Unused EXCEPT !.pc = "get", !.panel = p, !.id = id,
                                !.task = task, !.history = Shown(view), !.live = TRUE]]
    /\ panel' = [panel EXCEPT ![p] = [state |-> "streaming", seq |-> seq, resend |-> <<>>,
                                      view |-> Append(view, User(id, task))]]

Send(p, r) ==
    /\ panel[p].state = "idle"
    /\ LET id == panel[p].seq + 1
       IN  Submit(p, r, id, r, panel[p].view, id)
    /\ UNCHANGED <<scenario, heap, mem, row>>

(* The user stops the answer that is being streamed. *)
Stop(p) ==
    /\ "stop" \in scenario.moves
    /\ Streaming(p)
    /\ rq' = Cancelled(p)
    /\ panel' = [panel EXCEPT ![p].state = "idle"]
    /\ UNCHANGED <<scenario, heap, mem, row>>

(* retrySend: forget everything from the message that failed, delete the      *)
(* session, send the message again under its own msg_id.                      *)
Retry(p, i) ==
    /\ "retry" \in scenario.moves
    /\ panel[p].state = "idle"
    /\ i \in DOMAIN panel[p].view
    /\ panel[p].view[i].role = "error"
    /\ LET before == {u \in UsersOf(panel[p].view) : u < i}
       IN  /\ before # {}
           /\ panel' = [panel EXCEPT ![p].state = "deleting",
                                     ![p].view = SubSeq(@, 1, Max(before) - 1),
                                     ![p].resend = <<panel[p].view[Max(before)]>>]
    /\ UNCHANGED <<scenario, heap, mem, row, rq>>

(* AIDeleteSession: a session that is not in memory is "not found", whether   *)
(* its row is stored or not; the panel goes on regardless.                    *)
DeleteEntry(p) ==
    /\ panel[p].state = "deleting"
    /\ panel' = [panel EXCEPT ![p].state = IF mem = 0 THEN "resend" ELSE "deleteRow"]
    /\ mem' = 0
    /\ UNCHANGED <<scenario, heap, row, rq>>

DeleteRow(p) ==
    /\ panel[p].state = "deleteRow"
    /\ row' = NoRow
    /\ panel' = [panel EXCEPT ![p].state = "resend"]
    /\ UNCHANGED <<scenario, heap, mem, rq>>

Resend(p, r) ==
    /\ panel[p].state = "resend"
    /\ LET again == panel[p].resend[1]
       IN  Submit(p, r, again.id, again.task, panel[p].view, panel[p].seq)
    /\ UNCHANGED <<scenario, heap, mem, row>>

(* The reset button: stop the stream, ask the server, then clear the panel. *)
Reset(p, r) ==
    /\ "reset" \in scenario.moves
    /\ panel[p].state \in {"idle", "streaming"}
    /\ Free(r)
    /\ rq' = [Cancelled(p) EXCEPT ![r] = [Unused EXCEPT !.pc = "resetGet", !.panel = p,
                                                       !.live = TRUE]]
    /\ panel' = [panel EXCEPT ![p].state = "resetting"]
    /\ UNCHANGED <<scenario, heap, mem, row>>

(* The tab is closed: AIDeleteSessionByTab removes the rows of the tab, then  *)
(* the entries of memory.                                                     *)
CloseTab(p) ==
    /\ "close" \in scenario.moves
    /\ panel[p].state \in {"idle", "streaming"}
    /\ rq' = Cancelled(p)
    /\ panel' = [panel EXCEPT ![p].state = "closing"]
    /\ UNCHANGED <<scenario, heap, mem, row>>

DeleteRowByTab(p) ==
    /\ panel[p].state = "closing"
    /\ row' = NoRow
    /\ panel' = [panel EXCEPT ![p].state = "closingEntry"]
    /\ UNCHANGED <<scenario, heap, mem, rq>>

DeleteEntryByTab(p) ==
    /\ panel[p].state = "closingEntry"
    /\ mem' = 0
    /\ panel' = [panel EXCEPT ![p].state = "closed"]
    /\ UNCHANGED <<scenario, heap, row, rq>>

(* The page is loaded again, or the user comes back to the tab: the stream is *)
(* cut, the stored conversation is shown, and the msg_ids continue after the  *)
(* largest one in it.  A row without messages is not restored; the panel then *)
(* begins another session.                                                    *)
Reload(p) ==
    /\ "reload" \in scenario.moves
    /\ panel[p].state \in {"idle", "streaming"}
    /\ row.messages # <<>>
    /\ rq' = Cancelled(p)
    /\ LET ids == {row.messages[i].id : i \in UsersOf(row.messages)}
       IN  panel' = [panel EXCEPT ![p].state = "idle",
                                  ![p].view = row.messages,
                                  ![p].seq = IF ids = {} THEN 0 ELSE Max(ids)]
    /\ UNCHANGED <<scenario, heap, mem, row>>

-----------------------------------------------------------------------------
(* What the panel makes of the end of a request it listens to *)

Deliver(r, msg) ==
    IF rq[r].live
    THEN [panel EXCEPT ![rq[r].panel].state = "idle",
                       ![rq[r].panel].view = Append(@, msg)]
    ELSE panel

Finish(r, pc, msg) ==
    /\ rq' = [rq EXCEPT ![r].pc = pc]
    /\ panel' = Deliver(r, msg)

Fail(r) == Finish(r, "failed", ErrorBubble)

(* SaveAISession fails with no more than a warning. *)
Saved(new) == row' = new \/ ("save" \in scenario.faults /\ row' = row)

-----------------------------------------------------------------------------
(* AIChatStreamWithFallback *)

Goto(r, pc) == rq' = [rq EXCEPT ![r].pc = pc]

GetSession(r) ==
    /\ rq[r].pc = "get"
    /\ rq' = [rq EXCEPT ![r].pc = IF mem = 0 THEN "restore" ELSE "lock", ![r].obj = mem]
    /\ UNCHANGED <<scenario, heap, mem, row, panel>>

(* restoreSession takes the stored messages, and without a row the history    *)
(* the request carries.                                                       *)
Restore(r) ==
    /\ rq[r].pc = "restore"
    /\ rq' = [rq EXCEPT ![r].pc = "build", ![r].restoring = row.stored,
                        ![r].from = IF row.stored THEN row.messages ELSE rq[r].history]
    /\ UNCHANGED <<scenario, heap, mem, row, panel>>

(* AINewSession cannot list the tables, or sees the request cancelled: a      *)
(* failed restore is followed by a rebuild from the history of the request.   *)
BuildFails(r) ==
    /\ "build" \in scenario.faults \/ ~rq[r].live
    /\ rq[r].pc = "build"
    /\ rq' = [rq EXCEPT ![r].pc = IF rq[r].restoring THEN "build" ELSE "getAgain",
                        ![r].restoring = FALSE, ![r].from = rq[r].history]
    /\ UNCHANGED <<scenario, heap, mem, row, panel>>

(* AINewSession: the new object takes the place of whatever is there. *)
Build(r) ==
    /\ rq[r].pc = "build"
    /\ heap' = Append(heap, [messages |-> DedupeConsecutiveUser(rq[r].from), lock |-> 0])
    /\ mem' = Len(heap) + 1
    /\ rq' = [rq EXCEPT ![r].pc = "saveNew", ![r].obj = Len(heap) + 1, ![r].from = <<>>]
    /\ UNCHANGED <<scenario, row, panel>>

\* Slip: The rebuilt session is saved without the messages it was rebuilt from.
SaveNewEmpty(r) ==
    /\ rq[r].pc = "saveNew"
    /\ Saved(Row(<<>>))
    /\ Goto(r, "getAgain")
    /\ UNCHANGED <<scenario, heap, mem, panel>>

SaveNew(r) ==
    /\ rq[r].pc = "saveNew"
    /\ Saved(Row(heap[rq[r].obj].messages))
    /\ Goto(r, "getAgain")
    /\ UNCHANGED <<scenario, heap, mem, panel>>

GetAgain(r) ==
    /\ rq[r].pc = "getAgain"
    /\ IF mem = 0
       THEN Fail(r)
       ELSE /\ rq' = [rq EXCEPT ![r].pc = "lock", ![r].obj = mem]
            /\ UNCHANGED panel
    /\ UNCHANGED <<scenario, heap, mem, row>>

-----------------------------------------------------------------------------
(* aiChat, under the lock of the object *)

Object(r) == heap[rq[r].obj]

(* A msg_id that has its answer: the same answer again. *)
Replay(r, i) ==
    /\ Answered(Object(r).messages, i)
    /\ rq' = [rq EXCEPT ![r].pc = "reply", ![r].answer = Object(r).messages[i + 1]]
    /\ UNCHANGED <<scenario, heap>>

Ask(r, msgs) ==
    /\ heap' = [heap EXCEPT ![rq[r].obj] = [messages |-> msgs, lock |-> r]]
    /\ Goto(r, "model")

(* A msg_id without answer is taken up where it stands. *)
TakeUp(r, i) ==
    /\ ~Answered(Object(r).messages, i)
    /\ Ask(r, SubSeq(Object(r).messages, 1, i))

(* A new msg_id: another message left without an answer is replaced. *)
Add(r) ==
    LET msgs == Object(r).messages
        mine == User(rq[r].id, rq[r].task)
    IN  Ask(r, IF EndsWithUser(msgs) THEN Append(Front(msgs), mine) ELSE Append(msgs, mine))

\* Slip: The msg_id is not looked up.
LockAlwaysAdds(r) ==
    /\ rq[r].pc = "lock"
    /\ Object(r).lock = 0
    /\ Add(r)
    /\ UNCHANGED <<scenario, mem, row, panel>>

LockSession(r) ==
    /\ rq[r].pc = "lock"
    /\ Object(r).lock = 0
    /\ LET known == WithMsgID(Object(r).messages, rq[r].id)
       IN  \/ known = {} /\ Add(r)
           \/ known # {} /\ Replay(r, Min(known))
           \/ known # {} /\ TakeUp(r, Min(known))
    /\ UNCHANGED <<scenario, mem, row, panel>>

(* aiAgentChat *)
ModelAnswers(r) ==
    /\ rq[r].pc = "model"
    /\ rq[r].live \/ "late" \in scenario.faults
    /\ LET answer == Answer(r, LastTask(Object(r).messages))
       IN  /\ heap' = [heap EXCEPT ![rq[r].obj].messages = Append(@, answer)]
           /\ rq' = [rq EXCEPT ![r].pc = "save", ![r].answer = answer]
    /\ UNCHANGED <<scenario, mem, row, panel>>

\* Slip: A failed chat leaves the lock behind.
FailLocked(r) ==
    /\ rq[r].pc = "model"
    /\ ~rq[r].live \/ "model" \in scenario.faults
    /\ Fail(r)
    /\ UNCHANGED <<scenario, heap, mem, row>>

(* The message of the user stays without an answer, in memory only. *)
ModelFails(r) ==
    /\ rq[r].pc = "model"
    /\ ~rq[r].live \/ "model" \in scenario.faults
    /\ heap' = [heap EXCEPT ![rq[r].obj].lock = 0]
    /\ Fail(r)
    /\ UNCHANGED <<scenario, mem, row>>

SaveChat(r) ==
    /\ rq[r].pc = "save"
    /\ Saved(Row(Object(r).messages))
    /\ heap' = [heap EXCEPT ![rq[r].obj].lock = 0]
    /\ Goto(r, "reply")
    /\ UNCHANGED <<scenario, mem, panel>>

Reply(r) ==
    /\ rq[r].pc = "reply"
    /\ Finish(r, "done", rq[r].answer)
    /\ UNCHANGED <<scenario, heap, mem, row>>

LoseReply(r) ==
    /\ "reply" \in scenario.faults
    /\ rq[r].pc = "reply"
    /\ Fail(r)
    /\ UNCHANGED <<scenario, heap, mem, row>>

-----------------------------------------------------------------------------
(* AIResetSession *)

ResetGet(r) ==
    /\ rq[r].pc = "resetGet"
    /\ rq' = [rq EXCEPT ![r].pc = IF mem = 0 THEN "resetLoad" ELSE "resetLock",
                        ![r].obj = mem]
    /\ UNCHANGED <<scenario, heap, mem, row, panel>>

ResetLocked(r) ==
    /\ rq[r].pc = "resetLock"
    /\ Object(r).lock = 0
    /\ heap' = [heap EXCEPT ![rq[r].obj].messages = <<>>]
    /\ Goto(r, "resetSave")
    /\ UNCHANGED <<scenario, mem, row, panel>>

ResetEnds(r) ==
    /\ rq' = [rq EXCEPT ![r].pc = "done"]
    /\ panel' = IF rq[r].live
                THEN [panel EXCEPT ![rq[r].panel].state = "idle", ![rq[r].panel].view = <<>>]
                ELSE panel

(* The lock has been released: what is saved is what the object holds now. *)
ResetSave(r) ==
    /\ rq[r].pc = "resetSave"
    /\ Saved(Row(Object(r).messages))
    /\ ResetEnds(r)
    /\ UNCHANGED <<scenario, heap, mem>>

ResetLoad(r) ==
    /\ rq[r].pc = "resetLoad"
    /\ \/ row.stored /\ Goto(r, "resetStore") /\ UNCHANGED panel
       \/ ~row.stored /\ ResetEnds(r)
    /\ UNCHANGED <<scenario, heap, mem, row>>

ResetStore(r) ==
    /\ rq[r].pc = "resetStore"
    /\ Saved(Row(<<>>))
    /\ ResetEnds(r)
    /\ UNCHANGED <<scenario, heap, mem>>

-----------------------------------------------------------------------------
(* The environment *)

(* Another session is built while 32 are kept, and this one has been idle for *)
(* half an hour (LastAt is set when a session is built and when an answer is  *)
(* complete, not when a question arrives).                                    *)
Evict ==
    /\ "evict" \in scenario.faults
    /\ mem # 0
    /\ mem' = 0
    /\ UNCHANGED <<scenario, heap, row, rq, panel>>

(* The server restarts.  Panels see their request fail; a reset clears the    *)
(* panel and a retry goes on whatever the server said.                        *)
Crash ==
    /\ "crash" \in scenario.faults
    /\ mem # 0 \/ \E r \in Reqs : ~Ended(r)
    /\ mem' = 0
    /\ heap' = <<>>
    /\ rq' = [r \in Reqs |-> IF Ended(r) THEN rq[r] ELSE [rq[r] EXCEPT !.pc = "failed"]]
    /\ panel' = [p \in scenario.panels |->
          CASE panel[p].state = "streaming" ->
                   [panel[p] EXCEPT !.state = "idle", !.view = Append(@, ErrorBubble)]
            [] panel[p].state = "resetting" ->
                   [panel[p] EXCEPT !.state = "idle", !.view = <<>>]
            [] panel[p].state = "deleteRow" -> [panel[p] EXCEPT !.state = "resend"]
            [] panel[p].state \in {"closing", "closingEntry"} ->
                   [panel[p] EXCEPT !.state = "closed"]
            [] OTHER -> panel[p]]
    /\ UNCHANGED <<scenario, row>>

-----------------------------------------------------------------------------
ChatStep(r) ==
    \/ GetSession(r) \/ Restore(r) \/ Build(r) \/ BuildFails(r) \/ SaveNew(r) \/ GetAgain(r)
    \/ LockSession(r) \/ ModelAnswers(r) \/ ModelFails(r) \/ SaveChat(r)
    \/ Reply(r) \/ LoseReply(r)
ResetStep(r) ==
    ResetGet(r) \/ ResetLocked(r) \/ ResetSave(r) \/ ResetLoad(r) \/ ResetStore(r)
PanelStep(p) == DeleteEntry(p) \/ DeleteRow(p) \/ DeleteRowByTab(p) \/ DeleteEntryByTab(p)
UserMove(p) ==
    \/ \E r \in Reqs : Send(p, r) \/ Resend(p, r) \/ Reset(p, r)
    \/ \E i \in DOMAIN panel[p].view : Retry(p, i)
    \/ Stop(p) \/ CloseTab(p) \/ Reload(p)

Next ==
    \/ \E r \in Reqs : ChatStep(r) \/ ResetStep(r)
    \/ \E p \in scenario.panels : PanelStep(p) \/ UserMove(p)
    \/ Evict \/ Crash

(* Handlers run to their end; users, faults and restarts are under no         *)
(* obligation.                                                                *)
Spec == Init /\ [][Next]_vars
FairSpec == Spec /\ \A r \in Reqs : WF_vars(ChatStep(r)) /\ WF_vars(ResetStep(r))

-----------------------------------------------------------------------------
Message == [role : {"user"}, id : 1 .. MaxReqs, task : Reqs]
           \cup [role : {"assistant"}, id : Reqs, task : Reqs]
Quiet == /\ \A r \in Reqs : Ended(r)
         /\ \A p \in scenario.panels : panel[p].state \in {"idle", "closed"}

(* The objects of memory, the row and the panels hold messages; the object    *)
(* behind the id and the objects of the requests exist.                       *)
TypeOK ==
    /\ \A o \in DOMAIN heap : /\ heap[o].lock \in Reqs \cup {0}
                              /\ Range(heap[o].messages) \subseteq Message
    /\ mem \in 0 .. Len(heap)
    /\ row.stored \in BOOLEAN /\ Range(row.messages) \subseteq Message
    /\ \A r \in Reqs : ~Ended(r) => rq[r].obj \in 0 .. Len(heap)
    /\ \A p \in scenario.panels : Range(panel[p].view) \subseteq Message \cup {ErrorBubble}

(* "每个发起（msg_id …）在历史中只允许出现一次" (ai.go:565): a msg_id occurs   *)
(* once in the conversation, in memory and in the row, through failures,      *)
(* retries, rebuilds and restarts.                                            *)
MsgOnce ==
    \A id \in 1 .. MaxReqs :
        /\ Cardinality(WithMsgID(row.messages, id)) <= 1
        /\ \A o \in DOMAIN heap : Cardinality(WithMsgID(heap[o].messages, id)) <= 1

(* The answer a panel shows under a message is an answer to that message: a   *)
(* retry, a replay or the repair of an unanswered message never hands out the *)
(* answer to another text.  Windows that share a tab number their messages    *)
(* alike, and a window that is loaded again counts on from the row, which     *)
(* lacks a message that failed: then one may be answered for the other.       *)
OwnNumbers == Cardinality(scenario.panels) = 1 /\ "reload" \notin scenario.moves
AnswersTheQuestion ==
    OwnNumbers => \A p \in scenario.panels : \A j \in DOMAIN panel[p].view :
        panel[p].view[j].role = "assistant" =>
            /\ j > 1
            /\ panel[p].view[j - 1].role = "user"
            /\ panel[p].view[j].task = panel[p].view[j - 1].task

(* "每轮对话完成后落盘 …，保证页面刷新/进程重启后可恢复" (ai.go:666): once     *)
(* nothing is going on, every answer a panel shows is in the row a restart    *)
(* restores the conversation from, unless a row could not be written.         *)
NoRoundLost ==
    Quiet /\ "save" \notin scenario.faults => \A p \in scenario.panels :
        panel[p].state = "idle" => AnswersOf(panel[p].view) \subseteq AnswersOf(row.messages)

(* AIResetSession: after a reset no answer of the old conversation is left;   *)
(* opening the page again does not bring it back (ai.go:879-880).  For one    *)
(* window whose session stays in memory and whose rows can be written.        *)
Undisturbed == Cardinality(scenario.panels) = 1 /\ scenario.faults \cap {"save", "crash", "late", "evict"} = {}
Emptied(p) == panel[p].state = "idle" /\ panel[p].view = <<>>
ResetForgets == Quiet /\ Undisturbed => \A p \in scenario.panels : Emptied(p) => AnswersOf(row.messages) = {}

(* The lock of an object is held by a chat that is at work on it, so a later  *)
(* chat or reset never waits for one that has ended.                          *)
LockHeldByWorker ==
    \A o \in DOMAIN heap : heap[o].lock # 0 =>
        LET r == heap[o].lock IN rq[r].pc \in {"model", "save"} /\ rq[r].obj = o

(* The conversation is sound, in memory, in the row and in the panel.         *)
SessionSound == TypeOK /\ MsgOnce /\ AnswersTheQuestion /\ LockHeldByWorker

(* The row and the panel agree: what is shown is kept, what was reset is not. *)
ConversationKept == NoRoundLost /\ ResetForgets

(* Every chat and every reset comes to its end, through the queue for the     *)
(* lock, the rebuild and the model.                                           *)
RequestsEnd == \A r \in Reqs : rq[r].pc # "unused" ~> Ended(r)

=============================================================================
