----------------------------- MODULE ChatHistory -----------------------------
(***************************************************************************)
(* What the model is sent of a conversation (internal/service/ai.go:        *)
(* aiChat, aiAgentChat, trimMessages, dedupeConsecutiveUser, AINewSession). *)
(*                                                                         *)
(* A session keeps the messages of the conversation, after every change cut *)
(* down to a number of characters and a number of messages: whole rounds   *)
(* go, a question with its answer, those without SQL first, never the       *)
(* current one.  AISession models who talks to a session and when; here it  *)
(* is one caller at a time, the session's mutex held.                       *)
(***************************************************************************)
EXTENDS Naturals, Sequences, FiniteSets, SequencesExt, FiniteSetsExt

CONSTANTS
    MaxChars, MaxMessages,   \* aiMaxHistoryChars, aiMaxMessages
    TextSizes, SystemSizes,  \* lengths of a message and of the system prompt
    MaxAsks                  \* bound on the questions

ASSUME ChatAssumption ==
    /\ MaxChars \in Nat /\ MaxMessages \in Nat /\ MaxAsks \in Nat
    /\ TextSizes \subseteq Nat \ {0} /\ SystemSizes \subseteq Nat \ {0}

VARIABLES
    numbered,  \* whether the caller numbers its questions (the panel does, the command line does not)
    system,    \* length of the system prompt, message 0
    msgs,      \* the other messages: [role, id, size, sql]
    sessionRow,    \* those of the session's row
    asking,    \* "none", or how the question in progress got into msgs
    askedId,   \* the number of the caller's last question
    answered   \* the caller's last question was answered

chatVars == <<numbered, system, msgs, sessionRow, asking, askedId, answered>>

Question(id, size)   == [role |-> "user", id |-> id, size |-> size, sql |-> FALSE]
Reply(id, size, sql) == [role |-> "assistant", id |-> id, size |-> size, sql |-> sql]

-----------------------------------------------------------------------------
historyChars(sys, m) == FoldSet(LAMBDA i, n : n + m[i].size, sys, DOMAIN m)
Questions(m)       == {i \in DOMAIN m : m[i].role = "user"}
EndOfRound(m, i)   == Min({j \in Questions(m) : j > i} \cup {Len(m) + 1})
Round(m, i)        == {m[j] : j \in i..(EndOfRound(m, i) - 1)}
groupHasSQL(m, i)  == \E x \in Round(m, i) : x.sql
DropRound(m, i)   == SubSeq(m, 1, i - 1) \o SubSeq(m, EndOfRound(m, i), Len(m))

(* The rounds that may go: each that another question follows.              *)
OldRounds(m) == {i \in Questions(m) : EndOfRound(m, i) <= Len(m)}

(* Slip: the oldest round goes first, whatever it holds.                    *)
OldestTarget(m) == Min(OldRounds(m))

(* The oldest round without SQL, or, where all have some, the oldest.       *)
trimTarget(m) ==
    LET talk == {i \in OldRounds(m) : ~groupHasSQL(m, i)}
    IN  Min(IF talk = {} THEN OldRounds(m) ELSE talk)

(* trimMessages: first the characters, then the number of messages; the     *)
(* second takes what stands before the first question along.                *)
RECURSIVE FitChars(_, _), FitCount(_)
FitChars(sys, m) ==
    IF historyChars(sys, m) > MaxChars /\ OldRounds(m) # {}
    THEN FitChars(sys, DropRound(m, trimTarget(m))) ELSE m
FitCount(m) ==
    IF Len(m) + 1 > MaxMessages /\ OldRounds(m) # {}
    THEN FitCount(SubSeq(m, EndOfRound(m, Min(OldRounds(m))), Len(m))) ELSE m
trimMessages(sys, m) == FitCount(FitChars(sys, m))

Dangling(m) == m # <<>> /\ m[Len(m)].role = "user"

ChatInit ==
    /\ numbered \in BOOLEAN
    /\ system \in SystemSizes
    /\ msgs = <<>> /\ sessionRow = <<>>
    /\ asking = "none" /\ askedId = 0 /\ answered = FALSE

(* Slip: a question left without an answer stays where it is.                *)
AskNewAppended ==
    /\ asking = "none" /\ askedId < MaxAsks
    /\ askedId' = askedId + 1 /\ answered' = FALSE
    /\ \E size \in TextSizes :
         msgs' = trimMessages(system, Append(msgs, Question(askedId + 1, size)))
    /\ asking' = "appended"
    /\ UNCHANGED <<numbered, system, sessionRow>>

(* A new question: appended, or put in place of one left without an answer. *)
AskNew ==
    /\ asking = "none" /\ askedId < MaxAsks
    /\ askedId' = askedId + 1 /\ answered' = FALSE
    /\ \E size \in TextSizes :
         LET q == Question(askedId + 1, size) IN
         IF Dangling(msgs)
         THEN /\ msgs' = trimMessages(system, [msgs EXCEPT ![Len(msgs)] = q])
              /\ asking' = "replaced"
         ELSE /\ msgs' = trimMessages(system, Append(msgs, q))
              /\ asking' = "appended"
    /\ UNCHANGED <<numbered, system, sessionRow>>

(* The last question once more: its answer is replayed, it is taken up, or   *)
(* it is asked like a new one; without a number only one that was left       *)
(* without an answer is known again.                                        *)
AskAgain ==
    /\ asking = "none" /\ askedId > 0
    /\ LET at == Max({0} \cup {i \in Questions(msgs) : msgs[i].id = askedId}) IN
       \/ /\ numbered /\ at \in 1..(Len(msgs) - 1)
          /\ UNCHANGED <<msgs, asking, answered>>
       \/ /\ at > 0 /\ at = Len(msgs)
          /\ msgs' = trimMessages(system, msgs)
          /\ asking' = "taken up" /\ answered' = FALSE
       \/ /\ at = 0 \/ (~numbered /\ at < Len(msgs))
          /\ \E size \in TextSizes :
               LET q == Question(askedId, size)
               IN  msgs' = trimMessages(system, IF Dangling(msgs) THEN [msgs EXCEPT ![Len(msgs)] = q]
                                                          ELSE Append(msgs, q))
          /\ asking' = IF Dangling(msgs) THEN "replaced" ELSE "appended"
          /\ answered' = FALSE
    /\ UNCHANGED <<numbered, system, sessionRow, askedId>>

ModelAnswers ==
    /\ asking # "none"
    /\ \E size \in TextSizes, sql \in BOOLEAN :
         msgs' = trimMessages(system, Append(msgs, Reply(askedId, size, sql)))
    /\ sessionRow' = msgs'
    /\ asking' = "none" /\ answered' = TRUE
    /\ UNCHANGED <<numbered, system, askedId>>

(* A failure takes a question without a number back if this call appended it. *)
ModelFails ==
    /\ asking # "none"
    /\ IF ~numbered /\ asking = "appended"
       THEN msgs' = Front(msgs) /\ sessionRow' = msgs'
       ELSE UNCHANGED <<msgs, sessionRow>>
    /\ asking' = "none"
    /\ UNCHANGED <<numbered, system, askedId, answered>>

(* The session is made again from its row, with the prompt of the tables     *)
(* there are now.  A row holds no question twice in a row, so that           *)
(* dedupeConsecutiveUser finds nothing to fold.                             *)
Rebuild ==
    /\ asking = "none"
    /\ system' \in SystemSizes
    /\ msgs' = trimMessages(system', sessionRow)
    /\ sessionRow' = msgs'
    /\ UNCHANGED <<numbered, asking, askedId, answered>>

ChatNext == AskNew \/ AskAgain \/ ModelAnswers \/ ModelFails \/ Rebuild
ChatSpec == ChatInit /\ [][ChatNext]_chatVars
-----------------------------------------------------------------------------
(* The variables have their types.                                           *)
ChatTypeOK ==
    /\ asking \in {"none", "appended", "replaced", "taken up"}
    /\ askedId \in 0..MaxAsks /\ answered \in BOOLEAN
    /\ \A m \in {msgs, sessionRow} : \A i \in DOMAIN m :
         m[i].id \in 1..askedId /\ m[i].size \in TextSizes

(* However questions fail, are put again or replaced and rounds are dropped,  *)
(* the model reads a question, its answer, a question, ..; the conversation   *)
(* it is sent begins with a question and, while it is asked, ends with the    *)
(* current one.                                                             *)
ReadsAsConversation ==
    /\ \A i \in DOMAIN msgs : msgs[i].role = IF i % 2 = 1 THEN "user" ELSE "assistant"
    /\ asking # "none" => Dangling(msgs) /\ Last(msgs).id = askedId

(* A question that was answered is still known when it is sent again, however *)
(* long the conversation and large the prompt: its round is the current one,  *)
(* which is never dropped, and the row has it too.                          *)
RetryIsKnown ==
    answered => \A m \in {msgs, sessionRow} :
      \E i \in Questions(m) : m[i].id = askedId /\ EndOfRound(m, i) = i + 2

(* The history is one a model and a retry can work with.                     *)
HistorySound == ReadsAsConversation /\ RetryIsKnown

(* The conversation fits its limits, or the current round is all there is.   *)
(* A round is dropped only where the limits ask for it: with it they would   *)
(* be exceeded; and one with SQL while one without stays only for the        *)
(* number of messages.                                                      *)
Fits(sys, m) == \/ historyChars(sys, m) <= MaxChars /\ Len(m) + 1 <= MaxMessages
                \/ OldRounds(m) = {}
Dropped(i) == \A j \in DOMAIN msgs' : msgs'[j].id # msgs[i].id
DropsByNeed ==
    [][/\ Fits(system', msgs')
       /\ \A i \in Questions(msgs) : Dropped(i) /\ EndOfRound(msgs, i) = i + 2 =>
            \/ historyChars(system', msgs') + msgs[i].size + msgs[i + 1].size > MaxChars
            \/ Len(msgs') + 3 > MaxMessages
       /\ \A i \in OldRounds(msgs) : Dropped(i) /\ groupHasSQL(msgs, i) =>
            \/ \A j \in OldRounds(msgs') : groupHasSQL(msgs', j)
            \/ Len(msgs') + 3 > MaxMessages]_chatVars
=============================================================================
