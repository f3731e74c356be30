------------------------------ MODULE Console ------------------------------
(***************************************************************************)
(* The interactive SQL terminal, `dqex sql` (internal/cli/sqlcmd): one      *)
(* session with its connection, the buffer of the last statement and the    *)
(* assistant's conversation, against a server whose connections break.      *)
(*                                                                         *)
(* The terminal reads one line at a time; a line is an action, and so are    *)
(* the answer to the confirmation and each attempt to run a statement.      *)
(* Statements are values with the attributes the code looks at.             *)
(***************************************************************************)
EXTENDS Naturals, Sequences, FiniteSets

CONSTANTS
    DbNames,     \* names a user may type
    NoDb,        \* a client that was closed and not opened again
    Existing,    \* the databases of the server
    UpperName,   \* upper-cased names, see parseUseDB
    Texts,       \* the statements typed, loaded, edited or generated
    NoText,      \* an empty buffer
    IsWrite(_), IsForbidden(_),   \* what classifySQL and checkDangerous say
    UseOf(_),    \* the name in a USE statement, NoDb for any other statement
    MaxLines,    \* bound on the lines a user enters
    Faulty       \* whether connections break and databases refuse them

ASSUME ConsoleAssumption ==
    /\ Existing \subseteq DbNames /\ NoDb \notin DbNames /\ NoText \notin Texts
    /\ UpperName \in [DbNames -> DbNames]
    /\ \A t \in Texts : IsWrite(t) \in BOOLEAN /\ IsForbidden(t) \in BOOLEAN /\ UseOf(t) \in DbNames \cup {NoDb}
    /\ MaxLines \in Nat /\ Faulty \in BOOLEAN

VARIABLES
    client,      \* database the open client is connected to, or NoDb
    infoDb,      \* connInfo.DBName, what a reconnect asks for
    currentDb,   \* what the prompt shows
    ttyStep,     \* "prompt", "confirm", "run", "retry"
    running,     \* the statement being run and the line it came from
    lastSQL, lastErr,
    aiState,     \* database and messages of the conversation, or {}
    ran,         \* what the server executed: a sequence of statements with their database and line
    told,        \* line -> what the terminal reported
    lines

session == <<client, infoDb, currentDb>>
conVars == <<session, ttyStep, running, lastSQL, lastErr, aiState, ran, told, lines>>

Idle == [sql |-> NoText, line |-> 0, by |-> "typed", asked |-> FALSE]

ConInit ==
    /\ currentDb \in Existing /\ infoDb = currentDb /\ client = currentDb
    /\ ttyStep = "prompt" /\ running = Idle
    /\ lastSQL = NoText /\ lastErr = NoText
    /\ aiState = {} /\ ran = <<>> /\ told = <<>> /\ lines = 0

AtPrompt == ttyStep = "prompt" /\ lines < MaxLines /\ lines' = lines + 1
Reported(r) == told' = Append(told, r)
NoReport == Reported("nothing")
Job(t, by, asked) == running' = [sql |-> t, line |-> lines', by |-> by, asked |-> asked]

-----------------------------------------------------------------------------
(* switchDB: the old client is closed first, the name is kept in connInfo,   *)
(* and only a successful connection reaches the prompt and drops the         *)
(* conversation.                                                            *)
(* Slip: the conversation is kept.                                           *)
SwitchKeepsAi(n) ==
    \/ /\ n \in Existing
       /\ client' = n /\ infoDb' = n /\ currentDb' = n /\ UNCHANGED aiState
    \/ /\ n \notin Existing \/ Faulty
       /\ client' = NoDb /\ infoDb' = n /\ UNCHANGED <<currentDb, aiState>>

Switch(n) ==
    \/ /\ n \in Existing
       /\ client' = n /\ infoDb' = n /\ currentDb' = n /\ aiState' = {}
    \/ /\ n \notin Existing \/ Faulty
       /\ client' = NoDb /\ infoDb' = n /\ UNCHANGED <<currentDb, aiState>>

UseMeta(n) ==
    /\ AtPrompt /\ Switch(n) /\ NoReport
    /\ UNCHANGED <<ttyStep, running, lastSQL, lastErr, ran>>

-----------------------------------------------------------------------------
(* executeSQL: a statement typed with its semicolon goes into the buffer,    *)
(* then it is checked, and a write is confirmed.                            *)
Type(t) ==
    /\ AtPrompt
    /\ lastSQL' = t
    /\ IF IsForbidden(t) THEN UNCHANGED <<ttyStep, running>> /\ NoReport
       ELSE /\ Job(t, "typed", FALSE)
            /\ ttyStep' = IF IsWrite(t) THEN "confirm" ELSE "run"
            /\ Reported("running")
    /\ UNCHANGED <<session, lastErr, aiState, ran>>

Answer(yes) ==
    /\ ttyStep = "confirm"
    /\ ttyStep' = IF yes THEN "run" ELSE "prompt"
    /\ running' = IF yes THEN [running EXCEPT !.asked = TRUE] ELSE Idle
    /\ told' = [told EXCEPT ![lines] = IF yes THEN @ ELSE "nothing"]
    /\ UNCHANGED <<session, lastSQL, lastErr, aiState, ran, lines>>

(* \g, \copy and \w run the buffer, \i a file, without a check or a question. *)
RunBuffer(by) ==
    /\ AtPrompt /\ lastSQL # NoText
    /\ Job(lastSQL, by, FALSE) /\ ttyStep' = "run" /\ Reported("running")
    /\ UNCHANGED <<session, lastSQL, lastErr, aiState, ran>>

RunFile(t) ==
    /\ AtPrompt
    /\ Job(t, "file", FALSE) /\ ttyStep' = "run" /\ Reported("running")
    /\ UNCHANGED <<session, lastSQL, lastErr, aiState, ran>>

(* \e, \template, \r: only the buffer changes.                               *)
Buffer(t) ==
    /\ AtPrompt
    /\ lastSQL' = t /\ NoReport
    /\ UNCHANGED <<session, ttyStep, running, lastErr, aiState, ran>>

-----------------------------------------------------------------------------
(* execute.  An error of a broken connection is tried once more over a new   *)
(* one; the server may or may not have executed the statement before.       *)
(* "database is closed", what a client closed by a failed switch answers,    *)
(* is not such an error.                                                   *)
Done(r) ==
    /\ ttyStep' = "prompt" /\ running' = Idle
    /\ told' = [told EXCEPT ![running.line] = r]
    /\ lastErr' = IF r = "failed" /\ running.by \in {"typed", "again"} THEN running.sql ELSE lastErr

Executed == ran' = Append(ran, [sql |-> running.sql, db |-> client, shown |-> currentDb,
                                line |-> running.line, asked |-> running.asked])

RunUse ==
    /\ ttyStep = "run" /\ UseOf(running.sql) # NoDb
    /\ Switch(UpperName[UseOf(running.sql)])
    /\ Done(IF client' = NoDb THEN "failed" ELSE "switched")
    /\ UNCHANGED <<lastSQL, ran, lines>>

Runnable == ttyStep \in {"run", "retry"} /\ UseOf(running.sql) = NoDb

RunOk ==
    /\ Runnable /\ client # NoDb
    /\ Executed /\ Done("done")
    /\ UNCHANGED <<session, lastSQL, aiState, lines>>

RunFails ==
    /\ Runnable
    /\ UNCHANGED ran \/ (ttyStep = "retry" /\ Executed)
    /\ Done("failed")
    /\ UNCHANGED <<session, lastSQL, aiState, lines>>

(* reconnect: Close, then Connect with connInfo.                             *)
Reconnect ==
    \/ /\ infoDb \in Existing
       /\ client' = infoDb /\ ttyStep' = "retry"
       /\ UNCHANGED <<running, told, lastErr>>
    \/ /\ client' = NoDb
       /\ Done("failed")

(* Slip: the second attempt is retried like the first.                       *)
RunBreaksAgain ==
    /\ Runnable /\ Faulty /\ client # NoDb
    /\ Executed \/ UNCHANGED ran
    /\ Reconnect
    /\ UNCHANGED <<infoDb, currentDb, lastSQL, aiState, lines>>

RunBreaks ==
    /\ ttyStep = "run" /\ UseOf(running.sql) = NoDb /\ Faulty
    /\ client # NoDb
    /\ Executed \/ UNCHANGED ran
    /\ Reconnect
    /\ UNCHANGED <<infoDb, currentDb, lastSQL, aiState, lines>>

-----------------------------------------------------------------------------
(* aiCall: the state is built for the current database when there is none,   *)
(* the system message heads the first call after a reset, the question stays  *)
(* when the model fails.  aiOutput puts what is not forbidden in the buffer.  *)
AiNow == IF aiState = {} THEN [db |-> currentDb, msgs |-> <<>>] ELSE CHOOSE a \in aiState : TRUE
Headed(a) == IF a.msgs = <<>> THEN <<"system">> ELSE a.msgs

AiAsk(t, ok) ==
    /\ AtPrompt
    /\ aiState' = {[db |-> AiNow.db,
                    msgs |-> Headed(AiNow) \o (IF ok THEN <<"user", "answer">> ELSE <<"user">>)]}
    /\ lastSQL' \in {lastSQL} \cup (IF ok /\ ~IsForbidden(t) THEN {t} ELSE {})
    /\ NoReport
    /\ UNCHANGED <<session, ttyStep, running, lastErr, ran>>

AiClear ==
    /\ AtPrompt /\ aiState # {}
    /\ aiState' = {[AiNow EXCEPT !.msgs = <<>>]}
    /\ NoReport
    /\ UNCHANGED <<session, ttyStep, running, lastSQL, lastErr, ran>>

ConNext ==
    \/ \E n \in DbNames : UseMeta(n)
    \/ \E t \in Texts : Type(t) \/ RunFile(t) \/ Buffer(t)
    \/ \E yes \in BOOLEAN : Answer(yes)
    \/ \E by \in {"again", "copy"} : RunBuffer(by)
    \/ Buffer(NoText)
    \/ RunUse \/ RunOk \/ RunFails \/ RunBreaks
    \/ \E t \in Texts, ok \in BOOLEAN : AiAsk(t, ok)
    \/ AiClear

ConSpec == ConInit /\ [][ConNext]_conVars

-----------------------------------------------------------------------------
(* The variables have their types.                                          *)
ConTypeOK ==
    /\ client \in DbNames \cup {NoDb} /\ infoDb \in DbNames /\ currentDb \in DbNames
    /\ ttyStep \in {"prompt", "confirm", "run", "retry"}
    /\ lastSQL \in Texts \cup {NoText} /\ lastErr \in Texts \cup {NoText}
    /\ Len(told) = lines /\ lines \in 0..MaxLines
    /\ Cardinality(aiState) <= 1

(* A statement runs in the database the prompt shows: after failed switches,  *)
(* broken connections and reconnects, an open client is a client of          *)
(* currentDb.                                                               *)
PromptIsConnection ==
    /\ client # NoDb => client = currentDb
    /\ \A n \in DOMAIN ran : ran[n].db = ran[n].shown

(* What the terminal reported is what happened: a line reported as done was   *)
(* executed, one that was refused, or switched the database, was not; a line  *)
(* is executed at most twice, and more than once, or in spite of a reported   *)
(* failure, only if connections break.                                       *)
RunsOf(l) == {n \in DOMAIN ran : ran[n].line = l}
ReportTrue ==
    \A l \in DOMAIN told :
      /\ told[l] \in {"nothing", "switched"} => RunsOf(l) = {}
      /\ told[l] = "done" => RunsOf(l) # {}
      /\ told[l] = "failed" /\ ~Faulty => RunsOf(l) = {}
      /\ Cardinality(RunsOf(l)) <= IF Faulty THEN 2 ELSE 1

(* The assistant answers about the database the prompt shows, and its         *)
(* messages start with one system message.                                  *)
AiMatchesDatabase ==
    \A a \in aiState :
      /\ a.db = currentDb
      /\ a.msgs # <<>> => a.msgs[1] = "system" /\ \A n \in 2..Len(a.msgs) : a.msgs[n] # "system"

(* The prompt tells the truth: it names the database statements run in and    *)
(* the one the assistant answers about.                                     *)
PromptHolds == PromptIsConnection /\ AiMatchesDatabase

(* CLI.md: what the assistant generates is text only; a write runs after a    *)
(* confirmation and a forbidden statement does not run.                      *)
WritesConfirmed ==
    \A n \in DOMAIN ran : (IsWrite(ran[n].sql) => ran[n].asked) /\ ~IsForbidden(ran[n].sql)
=============================================================================
