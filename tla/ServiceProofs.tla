---------------------------- MODULE ServiceProofs ----------------------------
(***************************************************************************)
(* The services around the library: the terminal, the start of the web      *)
(* service and its settings, the export, the snapshots' index, comparison   *)
(* with a snapshot and the data dictionary, for any instances of what they work on.             *)
(***************************************************************************)
EXTENDS Console, WebLaunch, WebSettings, ExportRun, SnapshotDiff, SnapshotIndex,
        DataDictionary, FiniteSetTheorems, FunctionTheorems,
        SequenceTheorems, TLAPS

-----------------------------------------------------------------------------
(* The prompt of the terminal tells the truth, for any databases, names,    *)
(* statements and number of lines, with connections that break at any time. *)

Said == {"system", "user", "answer"}
Dialogues == [db : DbNames, msgs : Seq(Said)]

(* A reconnect asks for infoDb, which a failed switch leaves at the name    *)
(* that was asked for: it is the prompt's database as long as there is a    *)
(* client, and only a statement that had one is tried once more.           *)
Connected ==
    /\ infoDb \in DbNames /\ currentDb \in DbNames
    /\ client # NoDb => client = currentDb /\ infoDb = currentDb
    /\ ttyStep = "retry" => client # NoDb

(* The statements executed so far ran where the prompt said.               *)
RanWhereShown ==
    /\ ran = [n \in 1..Len(ran) |-> ran[n]] /\ Len(ran) \in Nat
    /\ \A n \in 1..Len(ran) : ran[n].db = ran[n].shown

(* There is one conversation at most, about the prompt's database.         *)
OneDialogue ==
    /\ aiState \subseteq Dialogues
    /\ \A a, b \in aiState : a = b
    /\ AiMatchesDatabase

(* What is being run, or waits for its confirmation, is a statement.        *)
RunsAStatement ==
    /\ lastSQL \in Texts \cup {NoText}
    /\ "sql" \in DOMAIN running
    /\ ttyStep \in {"confirm", "run", "retry"} => running.sql \in Texts

PromptInv == Connected /\ RanWhereShown /\ OneDialogue /\ RunsAStatement

-----------------------------------------------------------------------------
LEMMA PromptInit == ConInit => PromptInv
<1> SUFFICES ASSUME ConInit PROVE PromptInv
  OBVIOUS
<1>1. Connected
  BY ConsoleAssumption DEF ConInit, Connected
<1>2. RanWhereShown
  BY DEF ConInit, RanWhereShown
<1>3. OneDialogue
  BY DEF ConInit, OneDialogue, AiMatchesDatabase
<1>4. RunsAStatement
  BY DEF ConInit, RunsAStatement, Idle
<1> QED
  BY <1>1, <1>2, <1>3, <1>4 DEF PromptInv

(* What a switch of the database leaves: the new database without a         *)
(* conversation, or no client under the old prompt.                         *)
LEMMA SwitchHolds ==
  ASSUME NEW n \in DbNames, Connected, OneDialogue, Switch(n), ttyStep' \in {ttyStep, "prompt"},
         ttyStep # "retry"
  PROVE  Connected' /\ OneDialogue'
<1>1. Connected'
  BY DEF Switch, Connected
<1>2. OneDialogue'
  BY DEF Switch, OneDialogue, AiMatchesDatabase
<1> QED
  BY <1>1, <1>2

LEMMA SameRan == ASSUME RanWhereShown, ran' = ran PROVE RanWhereShown'
  BY DEF RanWhereShown

(* A statement is only sent over a client of the prompt's database.        *)
LEMMA ExecutedHolds == ASSUME RanWhereShown, Connected, client # NoDb, Executed
                       PROVE  RanWhereShown'
<1> DEFINE e == [sql |-> running.sql, db |-> client, shown |-> currentDb,
                 line |-> running.line, asked |-> running.asked]
<1>1. e.db = e.shown
  BY DEF Connected
<1>2. /\ Len(ran') = Len(ran) + 1
      /\ ran' = [n \in 1..(Len(ran) + 1) |-> IF n = Len(ran) + 1 THEN e ELSE ran[n]]
  BY DEF Executed, RanWhereShown
<1> HIDE DEF e
<1> QED
  BY <1>1, <1>2 DEF RanWhereShown

LEMMA SameDialogue == ASSUME OneDialogue, aiState' = aiState, currentDb' = currentDb
                      PROVE  OneDialogue'
  BY DEF OneDialogue, AiMatchesDatabase

LEMMA AiNowFacts ==
  ASSUME OneDialogue, currentDb \in DbNames
  PROVE  /\ AiNow \in Dialogues /\ AiNow.db = currentDb
         /\ AiNow.msgs # <<>> => /\ AiNow.msgs[1] = "system"
                                 /\ \A n \in 2..Len(AiNow.msgs) : AiNow.msgs[n] # "system"
<1>1. CASE aiState = {}
  BY <1>1 DEF AiNow, Dialogues
<1>2. CASE aiState # {}
  <2>1. AiNow \in aiState
    BY <1>2 DEF AiNow
  <2> QED
    BY <2>1 DEF OneDialogue, AiMatchesDatabase
<1> QED
  BY <1>1, <1>2

LEMMA AskHolds ==
  ASSUME OneDialogue, Connected, NEW t, NEW ok \in BOOLEAN, AiAsk(t, ok)
  PROVE  OneDialogue'
<1> DEFINE head == Headed(AiNow)
           asked == IF ok THEN <<"user", "answer">> ELSE <<"user">>
           a == [db |-> AiNow.db, msgs |-> head \o asked]
<1>1. AiNow \in Dialogues /\ AiNow.db = currentDb /\ currentDb' = currentDb /\ aiState' = {a}
  BY AiNowFacts DEF AiAsk, Connected, session
<1>2. /\ head \in Seq(Said) /\ Len(head) >= 1 /\ head[1] = "system"
      /\ \A n \in 2..Len(head) : head[n] # "system"
  <2>1. CASE AiNow.msgs = <<>>
    BY <2>1 DEF Headed, Said
  <2>2. CASE AiNow.msgs # <<>>
    BY <2>2, <1>1, AiNowFacts DEF Headed, Connected, Dialogues
  <2> QED
    BY <2>1, <2>2
<1>3. asked \in Seq(Said) /\ \A n \in 1..Len(asked) : asked[n] # "system"
  <2>1. CASE ok
    <3>1. asked = <<"user", "answer">>
      BY <2>1
    <3> HIDE DEF asked
    <3> QED
      BY <3>1 DEF Said
  <2>2. CASE ~ok
    <3>1. asked = <<"user">>
      BY <2>2
    <3> HIDE DEF asked
    <3> QED
      BY <3>1 DEF Said
  <2> QED
    BY <2>1, <2>2
<1> HIDE DEF head, asked
<1>4. /\ head \o asked \in Seq(Said) /\ Len(head \o asked) = Len(head) + Len(asked)
      /\ \A n \in 1..Len(head) : (head \o asked)[n] = head[n]
      /\ \A n \in 1..Len(asked) : (head \o asked)[Len(head) + n] = asked[n]
  BY <1>2, <1>3
<1>5. \A n \in 2..Len(head \o asked) : (head \o asked)[n] # "system"
  <2> SUFFICES ASSUME NEW n \in 2..Len(head \o asked) PROVE (head \o asked)[n] # "system"
    OBVIOUS
  <2>1. CASE n <= Len(head)
    BY <2>1, <1>2, <1>4
  <2>2. CASE n > Len(head)
    <3>1. n - Len(head) \in 1..Len(asked) /\ n = Len(head) + (n - Len(head))
      BY <2>2, <1>2, <1>3, <1>4
    <3> QED
      BY <3>1, <1>3, <1>4
  <2> QED
    BY <2>1, <2>2, <1>2, <1>4
<1>6. a \in Dialogues /\ a.db = currentDb /\ a.msgs[1] = "system"
  BY <1>1, <1>2, <1>4 DEF Dialogues
<1> QED
  BY <1>1, <1>5, <1>6 DEF OneDialogue, AiMatchesDatabase

LEMMA ClearHolds == ASSUME OneDialogue, Connected, AiClear PROVE OneDialogue'
<1>1. AiNow \in Dialogues /\ AiNow.db = currentDb /\ currentDb' = currentDb
      /\ aiState' = {[AiNow EXCEPT !.msgs = <<>>]}
  BY AiNowFacts DEF AiClear, Connected, session
<1>2. [AiNow EXCEPT !.msgs = <<>>] = [db |-> currentDb, msgs |-> <<>>]
  BY <1>1 DEF Dialogues
<1>3. currentDb \in DbNames /\ <<>> \in Seq(Said)
  BY DEF Connected
<1> QED
  BY <1>1, <1>2, <1>3 DEF OneDialogue, AiMatchesDatabase, Dialogues

(* A line that is run holds a statement typed, loaded or kept in the buffer. *)
LEMMA RunsStep == RunsAStatement /\ [ConNext]_conVars => RunsAStatement'
<1> SUFFICES ASSUME RunsAStatement, [ConNext]_conVars PROVE RunsAStatement'
  OBVIOUS
<1> USE DEF RunsAStatement
<1>1. CASE \E t \in Texts : Type(t) \/ RunFile(t) \/ Buffer(t)
  BY <1>1 DEF Type, RunFile, Buffer, Job, session
<1>2. CASE \/ \E by \in {"again", "copy"} : RunBuffer(by)
           \/ Buffer(NoText)
  BY <1>2 DEF RunBuffer, Buffer, Job
<1>3. CASE \E yes \in BOOLEAN : Answer(yes)
  BY <1>3 DEF Answer, Idle
<1>4. CASE RunUse \/ RunOk \/ RunFails
  BY <1>4 DEF RunUse, RunOk, RunFails, Done, Idle
<1>5. CASE RunBreaks
  BY <1>5 DEF RunBreaks, Reconnect, Done, Idle
<1>6. CASE \E n \in DbNames : UseMeta(n)
  BY <1>6 DEF UseMeta
<1>7. CASE \E t \in Texts, ok \in BOOLEAN : AiAsk(t, ok)
  BY <1>7 DEF AiAsk
<1>8. CASE AiClear
  BY <1>8 DEF AiClear
<1>9. CASE UNCHANGED conVars
  BY <1>9 DEF conVars
<1> QED
  BY <1>1, <1>2, <1>3, <1>4, <1>5, <1>6, <1>7, <1>8, <1>9 DEF ConNext

-----------------------------------------------------------------------------
LEMMA PromptStep == PromptInv /\ [ConNext]_conVars => PromptInv'
<1> SUFFICES ASSUME PromptInv, [ConNext]_conVars PROVE PromptInv'
  OBVIOUS
<1> USE DEF PromptInv
<1>0. RunsAStatement'
  BY RunsStep
<1>1. CASE \E n \in DbNames : UseMeta(n)
  BY <1>0, <1>1, SwitchHolds, SameRan DEF UseMeta, AtPrompt
<1>2. CASE \/ \E t \in Texts : Type(t) \/ RunFile(t) \/ Buffer(t)
           \/ \E yes \in BOOLEAN : Answer(yes)
           \/ \E by \in {"again", "copy"} : RunBuffer(by)
           \/ Buffer(NoText)
  <2>1. UNCHANGED <<session, aiState, ran>> /\ ttyStep' # "retry"
    BY <1>2 DEF Type, RunFile, Buffer, Answer, RunBuffer, AtPrompt
  <2>2. Connected'
    BY <2>1 DEF session, Connected
  <2> QED
    BY <1>0, <2>1, <2>2, SameRan, SameDialogue DEF session
<1>3. CASE RunUse
  <2>1. UseOf(running.sql) # NoDb /\ Switch(UpperName[UseOf(running.sql)])
        /\ ttyStep = "run" /\ ttyStep' = "prompt" /\ ran' = ran
    BY <1>3 DEF RunUse, Done
  <2>2. UpperName[UseOf(running.sql)] \in DbNames
    BY <2>1, ConsoleAssumption DEF RunsAStatement
  <2> QED
    BY <1>0, <2>1, <2>2, SwitchHolds, SameRan
<1>4. CASE RunOk
  <2>1. client # NoDb /\ Executed /\ ttyStep' = "prompt" /\ UNCHANGED <<session, aiState>>
    BY <1>4 DEF RunOk, Done
  <2>2. Connected'
    BY <2>1 DEF Connected, session
  <2> QED
    BY <1>0, <2>1, <2>2, ExecutedHolds, SameDialogue DEF session
<1>5. CASE RunFails
  <2>1. /\ ran' = ran \/ (ttyStep = "retry" /\ Executed)
        /\ ttyStep' = "prompt" /\ UNCHANGED <<session, aiState>>
    BY <1>5 DEF RunFails, Done
  <2>2. Connected'
    BY <2>1 DEF Connected, session
  <2>3. RanWhereShown'
    BY <2>1, ExecutedHolds, SameRan DEF Connected
  <2> QED
    BY <1>0, <2>1, <2>2, <2>3, SameDialogue DEF session
<1>6. CASE RunBreaks
  <2>1. /\ client # NoDb /\ (Executed \/ ran' = ran)
        /\ UNCHANGED <<infoDb, currentDb, aiState>>
        /\ \/ infoDb \in Existing /\ client' = infoDb /\ ttyStep' = "retry"
           \/ client' = NoDb /\ ttyStep' = "prompt"
    BY <1>6 DEF RunBreaks, Reconnect, Done
  <2>2. Connected'
    BY <2>1, ConsoleAssumption DEF Connected
  <2>3. RanWhereShown'
    BY <2>1, ExecutedHolds, SameRan
  <2> QED
    BY <1>0, <2>1, <2>2, <2>3, SameDialogue
<1>7. CASE \E t \in Texts, ok \in BOOLEAN : AiAsk(t, ok)
  <2>1. UNCHANGED <<session, ttyStep, ran>>
    BY <1>7 DEF AiAsk
  <2> QED
    BY <1>0, <1>7, <2>1, AskHolds, SameRan DEF session, Connected
<1>8. CASE AiClear
  <2>1. UNCHANGED <<session, ttyStep, ran>>
    BY <1>8 DEF AiClear
  <2> QED
    BY <1>0, <1>8, <2>1, ClearHolds, SameRan DEF session, Connected
<1>9. CASE UNCHANGED conVars
  BY <1>0, <1>9, SameRan, SameDialogue DEF conVars, session, Connected
<1> QED
  BY <1>1, <1>2, <1>3, <1>4, <1>5, <1>6, <1>7, <1>8, <1>9 DEF ConNext

LEMMA PromptInvHolds == ConSpec => []PromptInv
  BY PromptInit, PromptStep, PTL DEF ConSpec

(* switchDB, reconnect, execute and aiCall: whatever was switched, refused  *)
(* or lost, statements run in the database the prompt names, and the        *)
(* assistant's conversation is about it.                                   *)
THEOREM PromptTellsTheTruth == ConSpec => []PromptHolds
<1>1. PromptInv => PromptHolds
  BY DEF PromptInv, PromptHolds, PromptIsConnection, Connected, RanWhereShown, OneDialogue
<1> QED
  BY <1>1, PromptInvHolds, PTL

-----------------------------------------------------------------------------
(* The credentials of a running service survive the starts of others, for  *)
(* any number of processes, addresses, retries and any faults: the port is *)
(* probed before the credentials are written and listened on after, so     *)
(* only a start that had passed its check already can replace them.        *)

(* Past the port check, not listening yet.                                 *)
Checked == {p \in Processes : phase[p] \in {"ready", "saved", "filed"}}

(* The services of others listen from the start and write nothing; only a  *)
(* wildcard address is probed on the loopback interface instead.           *)
LaunchShapes ==
  /\ DOMAIN phase = Processes /\ DOMAIN passed = Processes
  /\ \A p \in Processes : launchCase.role[p] = "foreign" => phase[p] \in {"live", "gone"}
  /\ \A p \in Processes : phase[p] = "probeLoop" => Wild(Addr(p))

(* A service knows every start that may still write the row of its address. *)
RivalsPassed ==
  \A p \in Listening : \A q \in Checked :
    launchCase.role[p] = "dqex" /\ Addr(q) = Addr(p) => q \in passed[p]

(* Who wrote its row finds one at its address ever after.                  *)
RowsKept ==
  \A p \in Processes :
    phase[p] \in {"saved", "filed", "live"} /\ launchCase.role[p] = "dqex" /\ p \notin saveFailed
    => Addr(p) \in DOMAIN accessRows

LaunchInv == LaunchShapes /\ RivalsPassed /\ RowsKept /\ CredentialsKept

-----------------------------------------------------------------------------
LEMMA LaunchInitInv == LaunchInit => LaunchInv
<1> SUFFICES ASSUME LaunchInit PROVE LaunchInv
  OBVIOUS
<1>1. \A p \in Processes : phase[p] = "live" => launchCase.role[p] # "dqex"
  BY DEF LaunchInit
<1>2. \A p \in Processes : phase[p] \in {"live", "idle"}
  BY DEF LaunchInit
<1>3. LaunchShapes /\ Checked = {}
  BY <1>2 DEF LaunchInit, LaunchShapes, Checked
<1> QED
  BY <1>1, <1>2, <1>3 DEF LaunchInv, RivalsPassed, RowsKept, CredentialsKept, Listening

(* A step of one process that neither listens nor writes a row: nobody but  *)
(* it moves, and it moves past the check only with its address free.        *)
Passes(p, next) ==
  /\ To(p, next) /\ p \in Processes
  /\ next \notin {"saved", "filed", "live"} \/ (phase[p] = "saved" /\ next = "filed")
  /\ next = "probeLoop" => Wild(Addr(p))
  /\ next = "ready" => Free(Addr(p)) \/ (Free(Loop(p)) /\ Wild(Addr(p)))
  /\ launchCase.role[p] = "foreign" => next \in {"live", "gone"}
  /\ UNCHANGED <<launchCase, accessRows, passed, saveFailed>>

(* A free address is nobody's.                                             *)
LEMMA FreeIsNobodys ==
  ASSUME NEW p \in Listening, NEW q,
         Free(Addr(q)) \/ (Free(Loop(q)) /\ Wild(Addr(q)))
  PROVE  Addr(q) # Addr(p)
BY DEF Free, Excludes, Loop, Wild

LEMMA PassesHolds == ASSUME LaunchInv, NEW p, NEW next, Passes(p, next) PROVE LaunchInv'
<1> USE DEF LaunchInv
<1>1. /\ launchCase' = launchCase /\ accessRows' = accessRows
      /\ passed' = passed /\ saveFailed' = saveFailed /\ p \in Processes
      /\ phase' = [phase EXCEPT ![p] = next]
  BY DEF Passes, To
<1>2. \A q : Addr(q)' = Addr(q)
  BY <1>1 DEF Addr
<1>3. DOMAIN phase' = Processes /\ phase'[p] = next /\ \A q \in Processes \ {p} : phase'[q] = phase[q]
  BY <1>1 DEF LaunchShapes
<1>4. Listening' \subseteq Listening
  BY <1>3 DEF Passes, Listening
<1>5. LaunchShapes'
  BY <1>1, <1>2, <1>3 DEF LaunchShapes, Passes, Wild
<1>6. RivalsPassed'
  <2> SUFFICES ASSUME NEW r \in Listening', NEW q \in Checked',
                      launchCase.role[r] = "dqex", Addr(q) = Addr(r)
               PROVE  q \in passed[r]
    BY <1>1, <1>2 DEF RivalsPassed
  <2>1. CASE q \in Checked
    BY <2>1, <1>4 DEF RivalsPassed
  <2>2. CASE q \notin Checked
    <3>1. q = p /\ next = "ready"
      BY <2>2, <1>3 DEF Checked, Passes
    <3>2. FALSE
      BY <3>1, <1>4, FreeIsNobodys DEF Passes
    <3> QED
      BY <3>2
  <2> QED
    BY <2>1, <2>2
<1>7. RowsKept'
  BY <1>1, <1>2, <1>3 DEF RowsKept, Passes
<1>8. CredentialsKept'
  BY <1>1, <1>2, <1>4 DEF CredentialsKept
<1> QED
  BY <1>5, <1>6, <1>7, <1>8

(* The row of its address is written: by a start every service of the      *)
(* address knows of.                                                       *)
LEMMA SaveHolds == ASSUME LaunchInv, NEW p \in Processes, SaveAccess(p) PROVE LaunchInv'
<1> USE DEF LaunchInv
<1>1. /\ phase[p] = "ready" /\ phase' = [phase EXCEPT ![p] = "saved"]
      /\ launchCase' = launchCase /\ passed' = passed
      /\ \/ /\ accessRows' = [a \in DOMAIN accessRows \cup {Addr(p)} |->
                                IF a = Addr(p) THEN p ELSE accessRows[a]]
            /\ saveFailed' = saveFailed
         \/ saveFailed' = saveFailed \cup {p} /\ accessRows' = accessRows
  BY DEF SaveAccess, PutAccess, To
<1>2. \A q : Addr(q)' = Addr(q)
  BY <1>1 DEF Addr
<1>3. DOMAIN phase' = Processes /\ phase'[p] = "saved" /\ \A q \in Processes \ {p} : phase'[q] = phase[q]
  BY <1>1 DEF LaunchShapes
<1>4. Listening' = Listening /\ Checked' = Checked
  BY <1>1, <1>3 DEF Listening, Checked
<1>5. LaunchShapes' /\ RivalsPassed'
  BY <1>1, <1>2, <1>3, <1>4 DEF LaunchShapes, Wild, RivalsPassed
<1>6. RowsKept'
  BY <1>1, <1>2, <1>3 DEF RowsKept
<1>7. CredentialsKept'
  <2> SUFFICES ASSUME NEW r \in Listening, launchCase.role[r] = "dqex", r \notin saveFailed'
               PROVE  Addr(r) \in DOMAIN accessRows' /\ accessRows'[Addr(r)] \in {r} \cup passed[r]
    BY <1>1, <1>2, <1>4 DEF CredentialsKept
  <2>1. Addr(r) \in DOMAIN accessRows /\ accessRows[Addr(r)] \in {r} \cup passed[r]
    BY <1>1 DEF CredentialsKept
  <2>2. Addr(p) = Addr(r) => p \in passed[r]
    BY <1>1 DEF RivalsPassed, Checked
  <2> QED
    BY <1>1, <2>1, <2>2
<1> QED
  BY <1>5, <1>6, <1>7

(* A service that begins to listen takes note of the starts past their     *)
(* check, and of the row it finds.                                         *)
LEMMA ListenHolds ==
  ASSUME LaunchInv, NEW p \in Processes, phase[p] = "filed", Free(Addr(p)), To(p, "live"),
         passed' = [passed EXCEPT ![p] = Checked \cup
                      {accessRows[a] : a \in DOMAIN accessRows \cap {Addr(p)}}],
         UNCHANGED <<launchCase, accessRows, saveFailed>>
  PROVE  LaunchInv'
<1> USE DEF LaunchInv
<1>1. \A q : Addr(q)' = Addr(q)
  BY DEF Addr
<1>2. /\ DOMAIN phase' = Processes /\ phase'[p] = "live"
      /\ \A q \in Processes \ {p} : phase'[q] = phase[q] /\ passed'[q] = passed[q]
      /\ DOMAIN passed' = Processes
      /\ passed'[p] = Checked \cup {accessRows[a] : a \in DOMAIN accessRows \cap {Addr(p)}}
  BY DEF To, LaunchShapes
<1>3. Listening' = Listening \cup {p} /\ Checked' = Checked \ {p}
  BY <1>2 DEF Listening, Checked
<1>4. LaunchShapes'
  BY <1>1, <1>2 DEF LaunchShapes, Wild
<1>5. RivalsPassed'
  BY <1>1, <1>2, <1>3 DEF RivalsPassed, Listening
<1>6. RowsKept'
  BY <1>1, <1>2 DEF RowsKept
<1>7. CredentialsKept'
  <2> SUFFICES ASSUME NEW r \in Listening', launchCase.role[r] = "dqex", r \notin saveFailed
               PROVE  Addr(r) \in DOMAIN accessRows /\ accessRows[Addr(r)] \in {r} \cup passed'[r]
    BY <1>1 DEF CredentialsKept
  <2>1. CASE r = p
    BY <2>1, <1>2 DEF RowsKept
  <2>2. CASE r # p
    BY <2>2, <1>2, <1>3 DEF CredentialsKept, Listening
  <2> QED
    BY <2>1, <2>2
<1> QED
  BY <1>4, <1>5, <1>6, <1>7

(* Steps that move nobody.                                                 *)
LEMMA StillHolds ==
  ASSUME LaunchInv, UNCHANGED <<launchCase, phase, accessRows, passed, saveFailed>>
  PROVE  LaunchInv'
BY DEF LaunchInv, LaunchShapes, Wild, RivalsPassed, RowsKept, CredentialsKept, Listening, Checked, Addr

-----------------------------------------------------------------------------
LEMMA LaunchStep == LaunchInv /\ [LaunchNext]_launchVars => LaunchInv'
<1> SUFFICES ASSUME LaunchInv, [LaunchNext]_launchVars PROVE LaunchInv'
  OBVIOUS
<1>1. \A p \in Processes : phase[p] \notin {"live", "gone"} => launchCase.role[p] # "foreign"
  BY DEF LaunchInv, LaunchShapes
<1>2. ASSUME NEW p \in Processes, Launch(p) \/ Probe(p) \/ ProbeLoop(p) PROVE LaunchInv'
  <2>1. CASE Launch(p)
    <3>1. Passes(p, "probe")
      BY <2>1, <1>1 DEF Launch, Passes
    <3> QED
      BY <3>1, PassesHolds
  <2>2. CASE Probe(p)
    <3>1. \E next \in {"ready", "probeLoop", "busy"} : Passes(p, next)
      <4>1. CASE Free(Addr(p)) /\ To(p, "ready")
        <5>1. Passes(p, "ready")
          BY <2>2, <4>1, <1>1 DEF Probe, Passes
        <5> QED
          BY <5>1
      <4>2. CASE To(p, IF Wild(Addr(p)) THEN "probeLoop" ELSE "busy")
        <5>1. CASE Wild(Addr(p))
          BY <2>2, <4>2, <5>1, <1>1 DEF Probe, Passes
        <5>2. CASE ~Wild(Addr(p))
          BY <2>2, <4>2, <5>2, <1>1 DEF Probe, Passes
        <5> QED
          BY <5>1, <5>2
      <4> QED
        BY <2>2, <4>1, <4>2 DEF Probe
    <3> QED
      BY <3>1, PassesHolds
  <2>3. CASE ProbeLoop(p)
    <3>1. \E next \in {"ready", "busy"} : Passes(p, next)
      BY <2>3, <1>1 DEF ProbeLoop, Passes, LaunchInv, LaunchShapes
    <3> QED
      BY <3>1, PassesHolds
  <2> QED
    BY <1>2, <2>1, <2>2, <2>3
<1>3. ASSUME NEW p \in Processes, Identify(p) \/ Cancel(p) \/ OpenExisting(p) \/ Kill(p) PROVE LaunchInv'
  <2>1. \E next \in {"gone", "prompt", "retry"} : Passes(p, next)
    BY <1>3, <1>1 DEF Identify, Cancel, OpenExisting, Kill, Passes
  <2> QED
    BY <2>1, PassesHolds
<1>4. ASSUME NEW p \in Processes, Retry(p) PROVE LaunchInv'
  <2>1. \E next \in {"ready", "gone", "retry"} : Passes(p, next)
    <3>1. CASE Free(Addr(p)) /\ To(p, "ready")
      <4>1. Passes(p, "ready")
        BY <1>4, <3>1, <1>1 DEF Retry, Passes
      <4> QED
        BY <4>1
    <3>2. CASE To(p, IF tries[p] + 1 = MaxRetries THEN "gone" ELSE "retry")
      <4>1. CASE tries[p] + 1 = MaxRetries
        BY <1>4, <3>2, <4>1 DEF Retry, Passes
      <4>2. CASE tries[p] + 1 # MaxRetries
        BY <1>4, <3>2, <4>2, <1>1 DEF Retry, Passes
      <4> QED
        BY <4>1, <4>2
    <3> QED
      BY <1>4, <3>1, <3>2 DEF Retry
  <2> QED
    BY <2>1, PassesHolds
<1>5. ASSUME NEW p \in Processes, SaveAccess(p) PROVE LaunchInv'
  BY <1>5, SaveHolds
<1>6. ASSUME NEW p \in Processes, WriteAccessFile(p) PROVE LaunchInv'
  <2>1. Passes(p, "filed")
    BY <1>6, <1>1 DEF WriteAccessFile, Passes
  <2> QED
    BY <2>1, PassesHolds
<1>7. ASSUME NEW p \in Processes, Listen(p) PROVE LaunchInv'
  <2>1. CASE /\ Free(Addr(p)) /\ To(p, "live")
             /\ passed' = [passed EXCEPT ![p] = Checked \cup
                             {accessRows[a] : a \in DOMAIN accessRows \cap {Addr(p)}}]
    BY <1>7, <2>1, ListenHolds DEF Listen
  <2>2. CASE To(p, "gone") /\ UNCHANGED passed
    <3>1. Passes(p, "gone")
      BY <1>7, <2>2 DEF Listen, Passes
    <3> QED
      BY <3>1, PassesHolds
  <2> QED
    BY <1>7, <2>1, <2>2 DEF Listen, Checked
<1>8. ASSUME NEW p \in Processes, End(p) PROVE LaunchInv'
  <2>1. Passes(p, "gone")
    BY <1>8 DEF End, Passes
  <2> QED
    BY <2>1, PassesHolds
<1>9. CASE Stop \/ UNCHANGED launchVars
  BY <1>9, StillHolds DEF Stop, launchVars
<1> QED
  BY <1>2, <1>3, <1>4, <1>5, <1>6, <1>7, <1>8, <1>9 DEF LaunchNext

LEMMA LaunchInvHolds == LaunchSpec => []LaunchInv
  BY LaunchInitInv, LaunchStep, PTL DEF LaunchSpec

(* RunWeb, ensurePortAvailable and SaveWebAccess: the row of a listening   *)
(* service is its own, or that of a start that was past its port check     *)
(* before the service listened.                                            *)
THEOREM CredentialsSurvive == LaunchSpec => []CredentialsKept
<1>1. LaunchInv => CredentialsKept
  BY DEF LaunchInv
<1> QED
  BY <1>1, LaunchInvHolds, PTL

-----------------------------------------------------------------------------
(* The consistent snapshot of an export, for any databases, tables, number *)
(* of commits and options: the rows of a database whose log says that the  *)
(* snapshot is on were all read at one instant.                            *)

InDatabase == stage \in {"schema", "data", "objects", "close"}

(* All rows of d were read at v.                                           *)
ReadAt(d, v) == TakenAt(d) \subseteq {v}

(* What the variables are, as far as the instants depend on it.            *)
Shapes ==
  /\ DOMAIN live = ExpDbs
  /\ \A d \in ExpDbs : "version" \in DOMAIN live[d] /\ live[d].version \in Nat
  /\ \A d \in DOMAIN files : "rows" \in DOMAIN files[d]
  /\ toPlan \subseteq ExpDbs /\ DOMAIN tablePlan \subseteq ExpDbs
  /\ toExport \subseteq ExpDbs /\ db \in ExpDbs
  /\ reading.at \in Nat

(* A database is opened once, and only then said to be on a snapshot.      *)
Opened ==
  /\ toExport \cap consistent = {}
  /\ stage = "plan" => consistent = {}

(* The transaction of the open database has the instant of all its rows.   *)
OpenReads ==
  InDatabase =>
    /\ db \in DOMAIN files
    /\ db \in consistent => /\ reading.kind = "repeatable"
                            /\ ReadAt(db, reading.at)
                            /\ reading.at = 0 => TakenAt(db) = {}

(* The databases closed before keep theirs.                                *)
EachRead == \A d \in consistent \cap DOMAIN files : \E v \in Nat : ReadAt(d, v)

InstantInv == Shapes /\ Opened /\ OpenReads /\ EachRead

LEMMA InstantInit == ExportInit => InstantInv
<1> SUFFICES ASSUME ExportInit PROVE InstantInv
  OBVIOUS
<1>1. Shapes
  BY ExportAssumption DEF ExportInit, Shapes, NoSnapshot
<1>2. Opened /\ OpenReads /\ EachRead
  BY DEF ExportInit, Opened, OpenReads, InDatabase, EachRead
<1> QED
  BY <1>1, <1>2 DEF InstantInv

(* A step that leaves the files, the transaction and the snapshots alone,  *)
(* or ends a section.                                                      *)
SameRows ==
  DOMAIN files' = DOMAIN files /\ \A d \in DOMAIN files : files'[d].rows = files[d].rows
Quiet ==
  /\ UNCHANGED <<db, consistent>> /\ SameRows
  /\ reading' \in {reading, NoSnapshot}
  /\ InDatabase' => InDatabase /\ UNCHANGED reading
  /\ stage' = "plan" => stage = "plan"

LEMMA QuietStep == ASSUME InstantInv, Quiet, toExport' \subseteq toExport \/ stage = "plan"
                   PROVE  Opened' /\ OpenReads' /\ EachRead'
<1>0. DOMAIN files' = DOMAIN files /\ \A d \in DOMAIN files : TakenAt(d)' = TakenAt(d)
  BY DEF Quiet, SameRows, TakenAt
<1>1. Opened'
  BY DEF InstantInv, Opened, Quiet
<1>2. OpenReads'
  BY <1>0 DEF InstantInv, OpenReads, ReadAt, InDatabase, Quiet
<1>3. EachRead'
  BY <1>0 DEF InstantInv, EachRead, ReadAt, Quiet
<1> QED
  BY <1>1, <1>2, <1>3

(* A description that is not written takes no rows away.                     *)
LEMMA LosesNoRows ==
  ASSUME LoseDescription
  PROVE  /\ SameRows /\ \A d \in DOMAIN files : DOMAIN files'[d] = DOMAIN files[d]
         /\ \A d \in DOMAIN files \ {db} : files'[d] = files[d]
         /\ \A d \in DOMAIN files : files'[d].ddl = files[d].ddl
  BY DEF LoseDescription, SameRows

(* The first read of a transaction settles its instant.                    *)
LEMMA StartedReads ==
  ASSUME Shapes
  PROVE  /\ Seen \in Nat
         /\ Start("repeatable").at = Seen /\ Start("repeatable").kind = "repeatable"
         /\ reading.kind = "repeatable" /\ reading.at # 0 => Seen = reading.at
         /\ reading.kind = "repeatable" /\ reading.at = 0 => Seen # 0
         /\ \A k : Start(k).at \in Nat
<1>1. live[db].version \in Nat /\ reading.at \in Nat
  BY DEF Shapes
<1>2. Seen \in Nat
  BY <1>1 DEF Seen, Started
<1> QED
  BY <1>1, <1>2 DEF Seen, Started, Start

LEMMA InstantStep == InstantInv /\ [ExportNext]_exportVars => InstantInv'
<1> SUFFICES ASSUME InstantInv, [ExportNext]_exportVars PROVE InstantInv'
  OBVIOUS
<1> USE DEF InstantInv
<1>1. CASE \E d \in ExpDbs : Commit(d) \/ AlterSchema(d)
  <2>1. PICK d \in ExpDbs : Commit(d) \/ AlterSchema(d)
    BY <1>1
  <2>2. Quiet /\ toExport' = toExport
    BY <2>1 DEF Commit, AlterSchema, Quiet, SameRows, InDatabase
  <2>3. Shapes'
    <3>1. /\ DOMAIN live' = ExpDbs
          /\ \A e \in ExpDbs : "version" \in DOMAIN live'[e] /\ live'[e].version \in Nat
      <4>1. CASE Commit(d)
        BY <4>1 DEF Commit, Shapes
      <4>2. CASE AlterSchema(d)
        <5>1. \E e : live' \in {[live EXCEPT ![d].tables = e], [live EXCEPT ![d].objects = e]}
          BY <4>2 DEF AlterSchema
        <5> QED
          BY <5>1 DEF Shapes
      <4> QED
        BY <2>1, <4>1, <4>2
    <3> QED
      BY <2>1, <3>1 DEF Commit, AlterSchema, Shapes
  <2> QED
    BY <2>2, <2>3, QuietStep
<1>2. CASE Plan
  <2>1. Quiet /\ toExport' = toExport
    BY <1>2 DEF Plan, Quiet, SameRows, InDatabase
  <2>2. PICK d \in toPlan : toPlan' = toPlan \ {d} /\ (PassOver(d) \/ PlanDatabase(d))
    BY <1>2 DEF Plan
  <2>3. DOMAIN tablePlan' \subseteq ExpDbs
    BY <2>2 DEF PassOver, PlanDatabase, Shapes
  <2>4. Shapes'
    BY <1>2, <2>2, <2>3 DEF Plan, Shapes
  <2> QED
    BY <2>1, <2>4, QuietStep
<1>3. CASE CountTables
  <2>1. Quiet /\ stage = "plan"
    BY <1>3 DEF CountTables, Quiet, SameRows, InDatabase
  <2>2. Shapes'
    BY <1>3 DEF CountTables, Shapes
  <2> QED
    BY <2>1, <2>2, QuietStep
<1>4. CASE countExportObjects \/ EndData \/ runContributors \/ Pack \/ Break \/ BeginData
  <2>1. Quiet /\ toExport' = toExport
    BY <1>4 DEF countExportObjects, EndData, runContributors, Pack, Break,
                BeginData, Quiet, SameRows, InDatabase
  <2>2. Shapes'
    BY <1>4 DEF countExportObjects, EndData, runContributors, Pack, Break,
                BeginData, Shapes, NoSnapshot
  <2> QED
    BY <2>1, <2>2, QuietStep
<1>9. CASE CloseDatabase
  <2>1. SameRows /\ \A d \in DOMAIN files : DOMAIN files'[d] = DOMAIN files[d]
    BY <1>9, LosesNoRows DEF CloseDatabase, SameRows
  <2>2. Quiet /\ toExport' = toExport
    BY <1>9, <2>1 DEF CloseDatabase, Quiet, InDatabase
  <2>3. Shapes'
    BY <1>9, <2>1 DEF CloseDatabase, SameRows, Shapes, NoSnapshot
  <2> QED
    BY <2>2, <2>3, QuietStep
<1>5. CASE OpenDatabase
  <2>1. PICK d \in toExport :
          /\ db' = d /\ toExport' = toExport \ {d}
          /\ files' = [x \in DOMAIN files \cup {d} |->
                         IF x = d THEN [ddl |-> {}, rows |-> {}, objects |-> {}, desc |-> {}]
                         ELSE files[x]]
    BY <1>5 DEF OpenDatabase
  <2>2. d \notin consistent /\ d \in ExpDbs
    BY DEF Opened, Shapes
  <2>3. \/ reading' = [kind |-> "repeatable", at |-> 0] /\ consistent' = consistent \cup {d}
        \/ reading' = NoSnapshot /\ consistent' = consistent
    BY <1>5, <2>1 DEF OpenDatabase, beginSnapshot, OnSnapshot, PlainReads
  <2>4. TakenAt(d)' = {}
    BY <2>1 DEF TakenAt
  <2>5. Shapes'
    BY <1>5, <2>1, <2>2, <2>3 DEF OpenDatabase, Shapes, NoSnapshot
  <2>6. Opened'
    BY <1>5, <2>1, <2>3 DEF OpenDatabase, SectionStage, Opened
  <2>7. OpenReads'
    BY <2>1, <2>2, <2>3, <2>4 DEF OpenReads, ReadAt, NoSnapshot
  <2>8. EachRead'
    <3> SUFFICES ASSUME NEW e \in consistent' \cap DOMAIN files'
                 PROVE  \E v \in Nat : ReadAt(e, v)'
      BY DEF EachRead
    <3>1. CASE e = d
      BY <3>1, <2>4 DEF ReadAt
    <3>2. CASE e # d
      <4>1. e \in consistent \cap DOMAIN files /\ TakenAt(e)' = TakenAt(e)
        BY <3>2, <2>1, <2>3 DEF TakenAt
      <4> QED
        BY <4>1 DEF EachRead, ReadAt
    <3> QED
      BY <3>1, <3>2
  <2> QED
    BY <2>5, <2>6, <2>7, <2>8
<1>6. CASE WriteDdl \/ SkipData \/ exportObjects
  <2>1. /\ InDatabase /\ UNCHANGED <<consistent, db, toExport>>
        /\ reading' \in {reading, Start(reading.kind)}
        /\ stage' # "plan" /\ stage # "plan"
    BY <1>6 DEF WriteDdl, SkipData, exportObjects, InDatabase
  <2>2. /\ DOMAIN files' = DOMAIN files
        /\ \A d \in DOMAIN files : /\ "rows" \in DOMAIN files'[d]
                                   /\ TakenAt(d)' = TakenAt(d)
    <3>1. \E t : files' \in {[files EXCEPT ![db].ddl = @ \cup {t}],
                             [files EXCEPT ![db].desc = @ \cup Described(t, Blank)],
                             [files EXCEPT ![db].objects = t]}
      BY <1>6 DEF WriteDdl, SkipData, exportObjects
    <3>2. /\ DOMAIN files' = DOMAIN files
          /\ \A d \in DOMAIN files : /\ "rows" \in DOMAIN files'[d]
                                     /\ files'[d].rows = files[d].rows
      BY <3>1 DEF Shapes
    <3> QED
      BY <3>2 DEF TakenAt
  <2>3. Shapes'
    BY <1>6, <2>1, <2>2, StartedReads DEF WriteDdl, SkipData, exportObjects, Shapes
  <2>4. Opened'
    BY <2>1 DEF Opened
  <2>5. OpenReads'
    BY <2>1, <2>2, StartedReads DEF OpenReads, ReadAt, InDatabase
  <2>6. EachRead'
    BY <2>1, <2>2 DEF EachRead, ReadAt
  <2> QED
    BY <2>3, <2>4, <2>5, <2>6
<1>7. CASE writeTableData
  <2>1. /\ InDatabase /\ stage' = stage /\ UNCHANGED <<consistent, db, toExport>>
        /\ reading' = Start(reading.kind)
        /\ stage # "plan"
    BY <1>7 DEF writeTableData, InDatabase
  <2>2. PICK t, p : files' = [files EXCEPT
                       ![db].rows = @ \cup {<<t, [part |-> p, at |-> Seen]>>},
                       ![db].desc = @ \cup Described(t, [part |-> p, at |-> Seen])]
    BY <1>7 DEF writeTableData
  <2>3. db \in DOMAIN files
    BY <2>1 DEF OpenReads
  <2>4. /\ DOMAIN files' = DOMAIN files
        /\ \A d \in DOMAIN files : "rows" \in DOMAIN files'[d]
        /\ files'[db].rows = files[db].rows \cup {<<t, [part |-> p, at |-> Seen]>>}
        /\ \A d \in DOMAIN files \ {db} : files'[d] = files[d]
    BY <2>2, <2>3 DEF Shapes
  <2>5. /\ TakenAt(db)' \subseteq TakenAt(db) \cup {Seen}
         /\ \A d \in DOMAIN files \ {db} : TakenAt(d)' = TakenAt(d)
    BY <2>1, <2>4 DEF TakenAt
  <2>6. Shapes'
    BY <1>7, <2>1, <2>4, StartedReads DEF writeTableData, Shapes
  <2>7. Opened'
    BY <2>1 DEF Opened
  <2>8. db \in consistent =>
          /\ reading'.kind = "repeatable" /\ reading'.at = Seen /\ Seen # 0
          /\ TakenAt(db)' \subseteq {reading'.at}
    <3> SUFFICES ASSUME db \in consistent
                 PROVE  /\ reading'.kind = "repeatable" /\ reading'.at = Seen /\ Seen # 0
                        /\ TakenAt(db)' \subseteq {Seen}
      OBVIOUS
    <3>1. reading.kind = "repeatable" /\ TakenAt(db) \subseteq {reading.at}
          /\ (reading.at = 0 => TakenAt(db) = {})
      BY <2>1 DEF OpenReads, ReadAt
    <3>2. TakenAt(db) \subseteq {Seen} /\ Seen # 0
      BY <3>1, StartedReads
    <3> QED
      BY <3>1, <3>2, <2>1, <2>5, StartedReads
  <2>9. OpenReads'
    BY <2>1, <2>3, <2>4, <2>8 DEF OpenReads, ReadAt, InDatabase
  <2>10. EachRead'
    BY <2>1, <2>4, <2>5, <2>8, StartedReads DEF EachRead, ReadAt
  <2> QED
    BY <2>6, <2>7, <2>9, <2>10
<1>8. CASE ExportOver \/ UNCHANGED exportVars
  BY <1>8 DEF ExportOver, exportVars, Shapes, Opened, OpenReads, InDatabase, EachRead, ReadAt,
              TakenAt
<1> QED
  BY <1>1, <1>2, <1>3, <1>4, <1>5, <1>6, <1>7, <1>8, <1>9 DEF ExportNext

LEMMA InstantHolds == ExportSpec => []InstantInv
  BY InstantInit, InstantStep, PTL DEF ExportSpec

(* beginSnapshot and exportDatabase: where the log says the consistent     *)
(* snapshot is on, the file of the database has all its rows as they were  *)
(* at one instant, however many others commit while it is written.         *)
THEOREM SnapshotIsOneInstant == ExportSpec => []OneInstant
<1>1. InstantInv => OneInstant
  <2> SUFFICES ASSUME InstantInv, NEW d \in consistent \cap DOMAIN files
               PROVE  Cardinality(TakenAt(d)) <= 1
    BY DEF OneInstant
  <2>1. PICK v \in Nat : TakenAt(d) \subseteq {v}
    BY DEF InstantInv, EachRead, ReadAt
  <2>2. CASE TakenAt(d) = {}
    BY <2>2, FS_EmptySet
  <2>3. CASE TakenAt(d) = {v}
    BY <2>3, FS_Singleton
  <2> QED
    BY <2>1, <2>2, <2>3
<1> QED
  BY <1>1, InstantHolds, PTL

-----------------------------------------------------------------------------
(* The files of an export and what is told of them, for any databases,       *)
(* tables, objects, options, foreign commits and changes of the schema.      *)

SourceOk ==
  /\ expCase \in ExpCases
  /\ DOMAIN live = ExpDbs
  /\ \A d \in ExpDbs : /\ DOMAIN live[d] = {"tables", "objects", "version"}
                       /\ live[d].tables \subseteq expCase.holds[d] /\ live[d].objects \subseteq ExpObjects

(* A database is still to be planned, was passed over with nothing of it      *)
(* chosen by name, or is planned with all that was chosen of it.             *)
WellPlanned(d) ==
  \/ d \in toPlan
  \/ d \in leftOut.dbs /\ ~ HasSelection(d)
  \/ /\ d \in DOMAIN tablePlan
     /\ \A t \in Remaining(d) : t \in tablePlan[d] \/ <<d, t>> \in leftOut.tables
PlanOk ==
  /\ toPlan \subseteq expCase.dbs /\ DOMAIN tablePlan \subseteq ExpDbs
  /\ stage \notin {"plan", "failed"} => toPlan = {}
  /\ \A d \in DOMAIN tablePlan : tablePlan[d] \subseteq ExpTables
  /\ DOMAIN leftOut = {"dbs", "tables", "descs"}
  /\ \A d \in expCase.dbs : WellPlanned(d)

(* One table is told of once, with what the files have of it.                *)
TableDone(d, t) ==
  /\ Written(d, t)
  /\ LET c == details[<<d, t>>][1]
     IN /\ details[<<d, t>>] = <<c>>
        /\ c # Blank <=> <<t, c>> \in files[d].rows
        /\ HasDescription(d) => <<t, c>> \in files[d].desc
Finished(d) == \A t \in tablePlan[d] : TableDone(d, t)
NotTold(d)  == \A t \in ExpTables : details[<<d, t>>] = <<>>

InSchema ==
  /\ expCase.mode # "data" /\ files[db].rows = {}
  /\ \A t \in tablePlan[db] :
       /\ t \in todo \/ t \in files[db].ddl
       /\ details[<<db, t>>] = IF expCase.mode = "schema" /\ t \notin todo THEN <<Blank>> ELSE <<>>
InData ==
  /\ expCase.mode # "schema"
  /\ \A t \in tablePlan[db] :
       IF t \in todo
       THEN /\ details[<<db, t>>] = <<>> /\ \A r \in files[db].rows : r[1] # t
            /\ expCase.mode # "data" => t \in files[db].ddl
       ELSE TableDone(db, t)

FilesShape ==
  /\ DOMAIN details = Places
  /\ \A d \in DOMAIN files : DOMAIN files[d] = {"ddl", "rows", "objects", "desc"}
  /\ toCount \subseteq toExport /\ toExport \subseteq DOMAIN tablePlan
  /\ toCount # {} => WithObjects
  /\ stage = "plan" => toExport = {} /\ \A d \in ExpDbs : NotTold(d)
  /\ stage \notin {"plan", "count", "failed"} => toCount = {}
  /\ stage \in {"pack", "done"} => toExport = {}
  /\ InDatabase => db \in DOMAIN tablePlan \ toExport /\ db \in DOMAIN files /\ todo \subseteq tablePlan[db]

OpenOrWritten(d) == (d = db /\ InDatabase) \/ (d \in DOMAIN files /\ Finished(d))
ProgressOk ==
  stage \notin {"plan", "failed"} =>
    /\ \A d \in toExport : NotTold(d)
    /\ \A d \in DOMAIN tablePlan \ toExport : OpenOrWritten(d)
    /\ stage = "schema" => InSchema
    /\ stage = "data" => InData
    /\ stage \in {"objects", "close"} => Finished(db)

(* The units still to come: the tables of the databases not opened, those of   *)
(* the open one, the objects that were counted, the contributors.            *)
ListedIn(f, D, S) == {p \in D \X S : p[2] \in f[p[1]]}
TablesOwed == Cardinality(ListedIn(tablePlan, toExport, ExpTables))
OpenOwed ==
  CASE stage = "schema" -> Cardinality(todo) + (IF expCase.mode = "both" THEN Cardinality(tablePlan[db]) ELSE 0)
    [] stage = "data"   -> Cardinality(todo)
    [] OTHER            -> 0
CountedDbs ==
  IF WithObjects THEN (toExport \ toCount) \cup (IF stage \in {"schema", "data", "objects"} THEN {db} ELSE {})
  ELSE {}
ChosenOf == [d \in ExpDbs |-> chosenObjects(d)]
ObjectsOwed == Cardinality(ListedIn(ChosenOf, CountedDbs, ExpObjects))
HelpersOwed == IF stage \in {"pack", "done"} THEN 0 ELSE expCase.helpers
Balanced == units.total = units.done + TablesOwed * Sections + OpenOwed + ObjectsOwed + HelpersOwed
UnitsOk ==
  /\ units = [total |-> units.total, done |-> units.done] /\ units.total \in Nat /\ units.done \in Nat
  /\ stage = "plan" => units.done = 0
  /\ stage \notin {"plan", "failed"} /\ steady => Balanced

ExportInv == SourceOk /\ PlanOk /\ FilesShape /\ ProgressOk /\ UnitsOk

LEMMA CaseAllows == ASSUME SourceOk
                    PROVE  /\ expCase.mode \in {"schema", "data", "both"} /\ expCase.helpers \in Nat
                           /\ expCase.dbs \subseteq ExpDbs
                           /\ \A d \in ExpDbs : expCase.holds[d] \subseteq ExpTables
                           /\ Sections = 1 \/ Sections = 2
  BY ExportAssumption, ExportCasesAssumption DEF SourceOk, Sections

(* Another member of D brings what it lists.                                 *)
LEMMA ListedMore ==
  ASSUME NEW D, IsFiniteSet(D), NEW S, IsFiniteSet(S), NEW f, NEW d \in D, f[d] \subseteq S
  PROVE  /\ Cardinality(f[d]) \in Nat
         /\ Cardinality(ListedIn(f, D \ {d}, S)) \in Nat /\ Cardinality(ListedIn(f, D, S)) \in Nat
         /\ Cardinality(ListedIn(f, D, S)) = Cardinality(ListedIn(f, D \ {d}, S)) + Cardinality(f[d])
<1> DEFINE A == ListedIn(f, D \ {d}, S)
           B == {d} \X f[d]
<1>1. IsFiniteSet(D \X S) /\ IsFiniteSet(f[d]) /\ IsFiniteSet({d}) /\ Cardinality({d}) = 1
  BY FS_Product, FS_Subset, FS_Singleton
<1>2. ListedIn(f, D, S) = A \cup B /\ A \cap B = {} /\ A \subseteq D \X S
  BY DEF ListedIn
<1>3. IsFiniteSet(B) /\ Cardinality(B) = 1 * Cardinality(f[d])
  BY <1>1, FS_Product
<1>4. IsFiniteSet(A)
  BY <1>1, <1>2, FS_Subset
<1> HIDE DEF A, B
<1>5. IsFiniteSet(A \cup B) /\ Cardinality(A \cup B) = Cardinality(A) + Cardinality(B) - Cardinality(A \cap B)
  BY <1>3, <1>4, FS_Union
<1>6. Cardinality(A \cap B) = 0
  BY <1>2, FS_EmptySet
<1>7. Cardinality(A) \in Nat /\ Cardinality(f[d]) \in Nat /\ Cardinality(A \cup B) \in Nat
  BY <1>1, <1>4, <1>5, FS_CardinalityType
<1>8. Cardinality(A \cup B) = Cardinality(A) + Cardinality(f[d])
  BY <1>3, <1>5, <1>6, <1>7
<1> QED
  BY <1>2, <1>7, <1>8 DEF A

LEMMA ListedNone == ASSUME NEW f, NEW S PROVE Cardinality(ListedIn(f, {}, S)) = 0
<1>1. ListedIn(f, {}, S) = {}
  BY DEF ListedIn
<1> QED
  BY <1>1, FS_EmptySet

LEMMA ListedFinite ==
  ASSUME NEW D, IsFiniteSet(D), NEW S, IsFiniteSet(S), NEW f
  PROVE  Cardinality(ListedIn(f, D, S)) \in Nat
<1>1. IsFiniteSet(D \X S) /\ ListedIn(f, D, S) \subseteq D \X S
  BY FS_Product DEF ListedIn
<1> QED
  BY <1>1, FS_Subset, FS_CardinalityType

LEMMA ExportStart == ExportInit => ExportInv
<1> SUFFICES ASSUME ExportInit PROVE ExportInv
  OBVIOUS
<1> USE DEF ExportInit
<1>1. SourceOk
  BY DEF SourceOk
<1>2. PlanOk
  BY ExportAssumption DEF PlanOk, WellPlanned
<1>3. FilesShape
  BY DEF FilesShape, InDatabase, NotTold, Places
<1>4. ProgressOk /\ UnitsOk
  BY DEF ProgressOk, UnitsOk
<1> QED
  BY <1>1, <1>2, <1>3, <1>4 DEF ExportInv

-----------------------------------------------------------------------------
LEMMA SourceStep == ASSUME ExportInv, ExportNext PROVE SourceOk' /\ expCase' = expCase
<1>1. ASSUME NEW d \in ExpDbs, Commit(d) PROVE SourceOk' /\ expCase' = expCase
  BY <1>1 DEF Commit, ExportInv, SourceOk
<1>2. ASSUME NEW d \in ExpDbs, AlterSchema(d) PROVE SourceOk' /\ expCase' = expCase
  <2>1. CASE \E t \in live[d].tables : live' = [live EXCEPT ![d].tables = @ \ {t}]
    BY <1>2, <2>1 DEF AlterSchema, ExportInv, SourceOk
  <2>2. CASE \E o \in live[d].objects : live' = [live EXCEPT ![d].objects = @ \ {o}]
    BY <1>2, <2>2 DEF AlterSchema, ExportInv, SourceOk
  <2> QED
    BY <1>2, <2>1, <2>2 DEF AlterSchema
<1>3. CASE UNCHANGED <<expCase, live>>
  BY <1>3 DEF ExportInv, SourceOk
<1>4. CASE Plan \/ CountTables \/ countExportObjects \/ OpenDatabase \/ WriteDdl \/ BeginData
  BY <1>3, <1>4 DEF Plan, CountTables, countExportObjects, OpenDatabase, WriteDdl, BeginData
<1>5. CASE SkipData \/ writeTableData \/ EndData \/ exportObjects \/ CloseDatabase
  BY <1>3, <1>5 DEF SkipData, writeTableData, EndData, exportObjects, CloseDatabase
<1>6. CASE runContributors \/ Pack \/ Break \/ ExportOver
  BY <1>3, <1>6 DEF runContributors, Pack, Break, ExportOver, exportVars
<1> QED
  BY <1>1, <1>2, <1>4, <1>5, <1>6 DEF ExportNext

(* What a table that was not dropped keeps.                                  *)
LEMMA PlanSame ==
  ASSUME ExportInv, expCase' = expCase, UNCHANGED <<toPlan, tablePlan>>,
         leftOut'.dbs = leftOut.dbs, leftOut'.tables = leftOut.tables, DOMAIN leftOut' = DOMAIN leftOut,
         \A d \in ExpDbs : live'[d].tables \subseteq live[d].tables,
         stage' \notin {"plan", "failed"} => stage # "failed" /\ (stage = "plan" => toPlan = {})
  PROVE  PlanOk'
<1>1. ASSUME NEW d \in expCase.dbs PROVE WellPlanned(d)'
  <2>1. d \in ExpDbs /\ WellPlanned(d)
    BY <1>1, CaseAllows DEF ExportInv, PlanOk
  <2>2. Remaining(d)' \subseteq Remaining(d)
    BY <2>1 DEF Remaining, Chosen
  <2> QED
    BY <2>1, <2>2 DEF WellPlanned, HasSelection
<1> QED
  BY <1>1 DEF ExportInv, PlanOk

LEMMA PlanStep == ASSUME ExportInv, ExportNext PROVE PlanOk'
<1> USE SourceStep
<1>1. ASSUME NEW d \in ExpDbs, Commit(d) PROVE PlanOk'
  <2>1. \A x \in ExpDbs : live'[x].tables \subseteq live[x].tables
    BY <1>1 DEF Commit, ExportInv, SourceOk
  <2> QED
    BY <1>1, <2>1, PlanSame DEF Commit, ExportInv, PlanOk, Active
<1>2. ASSUME NEW d \in ExpDbs, AlterSchema(d) PROVE PlanOk'
  <2>1. \A x \in ExpDbs : live'[x].tables \subseteq live[x].tables
    <3>1. CASE \E t \in live[d].tables : live' = [live EXCEPT ![d].tables = @ \ {t}]
      BY <3>1 DEF ExportInv, SourceOk
    <3>2. CASE \E o \in live[d].objects : live' = [live EXCEPT ![d].objects = @ \ {o}]
      BY <3>2 DEF ExportInv, SourceOk
    <3> QED
      BY <1>2, <3>1, <3>2 DEF AlterSchema
  <2> QED
    BY <1>2, <2>1, PlanSame DEF AlterSchema, ExportInv, PlanOk, Active
<1>3. CASE Plan
  <2>1. PICK d \in toPlan : toPlan' = toPlan \ {d} /\ (PassOver(d) \/ PlanDatabase(d))
    BY <1>3 DEF Plan
  <2>2. d \in ExpDbs /\ toPlan \subseteq expCase.dbs
    BY <2>1, CaseAllows DEF ExportInv, PlanOk
  <2>3. stage' = "plan" /\ UNCHANGED live
    BY <1>3 DEF Plan
  <2>4. CASE PassOver(d)
    <3>1. /\ leftOut'.dbs = leftOut.dbs \cup {d} /\ leftOut'.tables = leftOut.tables
          /\ DOMAIN leftOut' = {"dbs", "tables", "descs"} /\ tablePlan' = tablePlan /\ ~ HasSelection(d)
      BY <2>4 DEF PassOver, ExportInv, PlanOk
    <3>2. ASSUME NEW x \in expCase.dbs PROVE WellPlanned(x)'
      BY <2>1, <2>3, <3>1, <3>2 DEF ExportInv, PlanOk, WellPlanned, HasSelection, Remaining, Chosen
    <3> QED
      BY <2>1, <2>2, <2>3, <3>1, <3>2 DEF ExportInv, PlanOk
  <2>5. CASE PlanDatabase(d)
    <3>1. PICK unseen \in IF expCase.tables[d] = Everything THEN Unlistable(d) ELSE {{}} :
            /\ tablePlan' = [x \in DOMAIN tablePlan \cup {d} |->
                               IF x = d THEN planTables(d, unseen) ELSE tablePlan[x]]
            /\ leftOut' = [leftOut EXCEPT !.tables = @ \cup ({d} \X unseen)]
      BY <2>5 DEF PlanDatabase
    <3>2. /\ leftOut'.tables = leftOut.tables \cup ({d} \X unseen) /\ leftOut'.dbs = leftOut.dbs
          /\ DOMAIN leftOut' = {"dbs", "tables", "descs"}
      BY <3>1 DEF ExportInv, PlanOk
    <3>3. planTables(d, unseen) \subseteq live[d].tables /\ live[d].tables \subseteq ExpTables
      BY <2>2, CaseAllows DEF planTables, ExportInv, SourceOk
    <3>4. \A t \in Remaining(d) : t \in planTables(d, unseen) \/ t \in unseen
      BY DEF Remaining, Chosen, planTables
    <3>5. ASSUME NEW x \in expCase.dbs PROVE WellPlanned(x)'
      <4>1. CASE x = d
        BY <2>3, <3>1, <3>2, <3>4, <4>1 DEF WellPlanned, Remaining, Chosen
      <4>2. CASE x # d
        <5>1. WellPlanned(x)
          BY <3>5 DEF ExportInv, PlanOk
        <5> QED
          BY <2>1, <2>3, <3>1, <3>2, <4>2, <5>1 DEF WellPlanned, HasSelection, Remaining, Chosen
      <4> QED
        BY <4>1, <4>2
    <3>6. \A x \in DOMAIN tablePlan' : tablePlan'[x] \subseteq ExpTables
      BY <3>1, <3>3 DEF ExportInv, PlanOk
    <3> QED
      BY <2>1, <2>2, <2>3, <3>1, <3>2, <3>5, <3>6 DEF ExportInv, PlanOk
  <2> QED
    BY <2>1, <2>4, <2>5
<1>4. CASE CountTables \/ countExportObjects \/ OpenDatabase \/ WriteDdl \/ BeginData
  BY <1>4, PlanSame DEF CountTables, countExportObjects, OpenDatabase, WriteDdl, BeginData, SectionStage
<1>5. CASE SkipData \/ writeTableData \/ EndData \/ exportObjects
  BY <1>5, PlanSame DEF SkipData, writeTableData, EndData, exportObjects
<1>7. CASE CloseDatabase
  <2>1. /\ leftOut'.dbs = leftOut.dbs /\ leftOut'.tables = leftOut.tables
        /\ DOMAIN leftOut' = DOMAIN leftOut
    BY <1>7 DEF CloseDatabase, LoseDescription, ExportInv, PlanOk
  <2> QED
    BY <1>7, <2>1, PlanSame DEF CloseDatabase
<1>6. CASE runContributors \/ Pack \/ Break \/ ExportOver
  BY <1>6, PlanSame DEF runContributors, Pack, Break, ExportOver, exportVars, Active
<1> QED
  BY <1>1, <1>2, <1>3, <1>4, <1>5, <1>6, <1>7 DEF ExportNext

-----------------------------------------------------------------------------
LEMMA ShapeStep == ASSUME ExportInv, ExportNext PROVE FilesShape'
<1> USE SourceStep DEF ExportInv, FilesShape
<1>1. CASE /\ UNCHANGED <<toCount, toExport, tablePlan, db, todo, files, details, stage>>
  BY <1>1 DEF InDatabase, NotTold, WithObjects
<1>2. ASSUME NEW d \in ExpDbs, Commit(d) \/ AlterSchema(d) PROVE FilesShape'
  BY <1>1, <1>2 DEF Commit, AlterSchema
<1>3. CASE Plan
  BY <1>3 DEF Plan, PlanOk, InDatabase, NotTold
<1>4. CASE CountTables
  <2>1. CASE DOMAIN tablePlan = {}
    BY <1>4, <2>1 DEF CountTables, InDatabase
  <2>2. CASE DOMAIN tablePlan # {}
    BY <1>4, <2>2 DEF CountTables, InDatabase, WithObjects
  <2> QED
    BY <2>1, <2>2
<1>5. CASE countExportObjects
  BY <1>5 DEF countExportObjects, InDatabase, WithObjects
<1>6. CASE OpenDatabase
  <2>1. PICK d \in toExport :
          /\ db' = d /\ toExport' = toExport \ {d} /\ todo' = tablePlan[d]
          /\ files' = [x \in DOMAIN files \cup {d} |->
                         IF x = d THEN [ddl |-> {}, rows |-> {}, objects |-> {}, desc |-> {}]
                         ELSE files[x]]
    BY <1>6 DEF OpenDatabase
  <2>2. /\ toCount = {} /\ stage' \in {"schema", "data"}
        /\ UNCHANGED <<toCount, tablePlan, details>>
    BY <1>6 DEF OpenDatabase, SectionStage
  <2>3. \A x \in DOMAIN files' : DOMAIN files'[x] = {"ddl", "rows", "objects", "desc"}
    BY <2>1
  <2> QED
    BY <2>1, <2>2, <2>3
<1>7. CASE WriteDdl
  <2>1. PICK t \in todo \cap live[db].tables :
          /\ todo' = todo \ {t}
          /\ files' = [files EXCEPT ![db].ddl = @ \cup {t}]
          /\ IF expCase.mode = "schema" THEN Detail(t, Blank) ELSE UNCHANGED details
    BY <1>7 DEF WriteDdl
  <2>2. DOMAIN details' = DOMAIN details /\ DOMAIN files' = DOMAIN files
    BY <2>1 DEF Detail
  <2>3. \A x \in DOMAIN files' : DOMAIN files'[x] = {"ddl", "rows", "objects", "desc"}
    BY <2>1
  <2> QED
    BY <1>7, <2>1, <2>2, <2>3 DEF WriteDdl, InDatabase
<1>8. CASE BeginData
  BY <1>8 DEF BeginData, InDatabase
<1>9. CASE SkipData
  <2>1. PICK t \in todo : /\ todo' = todo \ {t} /\ Detail(t, Blank)
                          /\ files' = [files EXCEPT ![db].desc = @ \cup Described(t, Blank)]
    BY <1>9 DEF SkipData
  <2>2. DOMAIN details' = DOMAIN details /\ DOMAIN files' = DOMAIN files
    BY <2>1 DEF Detail
  <2>3. \A x \in DOMAIN files' : DOMAIN files'[x] = {"ddl", "rows", "objects", "desc"}
    BY <2>1
  <2> QED
    BY <1>9, <2>1, <2>2, <2>3 DEF SkipData, InDatabase
<1>10. CASE writeTableData
  <2> DEFINE content(t) == [part |-> expCase.cond[t], at |-> Seen]
  <2>1. PICK t \in todo \cap live[db].tables :
          /\ todo' = todo \ {t} /\ Detail(t, content(t))
          /\ files' = [files EXCEPT ![db].rows = @ \cup {<<t, content(t)>>},
                                    ![db].desc = @ \cup Described(t, content(t))]
    BY <1>10 DEF writeTableData
  <2>2. DOMAIN details' = DOMAIN details /\ DOMAIN files' = DOMAIN files
    BY <2>1 DEF Detail
  <2>3. \A x \in DOMAIN files' : DOMAIN files'[x] = {"ddl", "rows", "objects", "desc"}
    BY <2>1
  <2> QED
    BY <1>10, <2>1, <2>2, <2>3 DEF writeTableData, InDatabase
<1>11. CASE exportObjects
  <2>1. PICK set : files' = [files EXCEPT ![db].objects = set]
    BY <1>11 DEF exportObjects
  <2>2. /\ DOMAIN files' = DOMAIN files
        /\ \A x \in DOMAIN files' : DOMAIN files'[x] = {"ddl", "rows", "objects", "desc"}
    BY <2>1
  <2> QED
    BY <1>11, <2>2 DEF exportObjects, InDatabase
<1>12. CASE EndData \/ runContributors \/ Pack \/ Break
  BY <1>12 DEF EndData, runContributors, Pack, Break, InDatabase, WithObjects, Active
<1>14. CASE CloseDatabase
  <2>1. /\ DOMAIN files' = DOMAIN files
        /\ \A x \in DOMAIN files' : DOMAIN files'[x] = {"ddl", "rows", "objects", "desc"}
    BY <1>14, LosesNoRows DEF CloseDatabase, SameRows
  <2> QED
    BY <1>14, <2>1 DEF CloseDatabase, InDatabase, WithObjects
<1>13. CASE ExportOver
  BY <1>1, <1>13 DEF ExportOver, exportVars
<1> QED
  BY <1>2, <1>3, <1>4, <1>5, <1>6, <1>7, <1>8, <1>9, <1>10, <1>11, <1>12, <1>13, <1>14 DEF ExportNext

-----------------------------------------------------------------------------
(* What was told of a table stays right when others are written.              *)
LEMMA DoneStays ==
  ASSUME NEW d, NEW t, TableDone(d, t), expCase' = expCase, HasDescription(d)' => HasDescription(d),
         details'[<<d, t>>] = details[<<d, t>>],
         files[d].ddl \subseteq files'[d].ddl, files[d].desc \subseteq files'[d].desc,
         files[d].rows \subseteq files'[d].rows,
         \A c : <<t, c>> \in files'[d].rows => <<t, c>> \in files[d].rows
  PROVE  TableDone(d, t)'
<1>1. Written(d, t)'
  BY DEF TableDone, Written, Unread
<1> QED
  BY <1>1 DEF TableDone

(* A step that leaves the files and what was told alone.                      *)
LEMMA QuietDone == ASSUME expCase' = expCase, UNCHANGED <<tablePlan, files, details, leftOut>>, NEW d, Finished(d)
                   PROVE  Finished(d)'
  BY DEF Finished, TableDone, Written, Unread, HasDescription

LEMMA QuietProgress ==
  ASSUME ProgressOk, expCase' = expCase,
         UNCHANGED <<stage, tablePlan, toExport, db, todo, files, details, leftOut>>
  PROVE  ProgressOk'
<1>1. InData => InData'
  BY DEF InData, TableDone, Written, Unread, HasDescription
<1> QED
  BY <1>1, QuietDone DEF ProgressOk, InSchema, OpenOrWritten, NotTold, InDatabase, Finished, TableDone, Written, Unread,
                         HasDescription

(* Writing a table of the open database leaves the other databases alone.     *)
LEMMA OthersDone ==
  ASSUME ProgressOk, FilesShape, PlanOk, InDatabase, InDatabase', expCase' = expCase,
         UNCHANGED <<tablePlan, toExport, db, leftOut>>, DOMAIN files' = DOMAIN files,
         \A x \in DOMAIN files \ {db} : files'[x] = files[x],
         \A p \in Places : p[1] # db => details'[p] = details[p]
  PROVE  /\ \A d \in toExport' : NotTold(d)'
         /\ \A d \in DOMAIN tablePlan' \ toExport' : OpenOrWritten(d)'
<1>1. stage \notin {"plan", "failed"}
  BY DEF InDatabase
<1>2. ASSUME NEW d \in toExport PROVE NotTold(d)'
  <2>1. d # db /\ d \in ExpDbs /\ NotTold(d)
    BY <1>1 DEF ProgressOk, FilesShape, PlanOk
  <2> QED
    BY <2>1 DEF NotTold, Places
<1>3. ASSUME NEW d \in DOMAIN tablePlan \ toExport, d # db PROVE d \in DOMAIN files /\ Finished(d)'
  <2>1. d \in DOMAIN files /\ Finished(d) /\ d \in ExpDbs /\ tablePlan[d] \subseteq ExpTables
    BY <1>1, <1>3 DEF ProgressOk, OpenOrWritten, PlanOk
  <2>2. ASSUME NEW t \in tablePlan[d] PROVE TableDone(d, t)'
    <3>1. details'[<<d, t>>] = details[<<d, t>>] /\ files'[d] = files[d]
      BY <1>3, <2>1 DEF Places
    <3>2. TableDone(d, t)
      BY <2>1 DEF Finished
    <3> QED
      BY <3>1, <3>2, DoneStays DEF HasDescription
  <2> QED
    BY <2>1, <2>2 DEF Finished
<1> QED
  BY <1>2, <1>3 DEF OpenOrWritten

(* What is told of one table is told of that table only.                      *)
LEMMA TellsOne ==
  ASSUME DOMAIN details = Places, db \in ExpDbs, NEW t \in ExpTables, NEW c, Detail(t, c)
  PROVE  /\ details[<<db, t>>] = <<>> => details'[<<db, t>>] = <<c>>
         /\ \A u \in ExpTables \ {t} : details'[<<db, u>>] = details[<<db, u>>]
         /\ \A p \in Places : p[1] # db => details'[p] = details[p]
<1>1. <<db, t>> \in Places
  BY DEF Places
<1>2. details'[<<db, t>>] = Append(details[<<db, t>>], c)
  BY <1>1 DEF Detail
<1>3. \A p \in Places : p # <<db, t>> => details'[p] = details[p]
  BY DEF Detail
<1>4. details[<<db, t>>] = <<>> => details'[<<db, t>>] = <<c>>
  BY <1>2
<1>5. ASSUME NEW u \in ExpTables \ {t} PROVE details'[<<db, u>>] = details[<<db, u>>]
  <2>1. <<db, u>> \in Places /\ <<db, u>> # <<db, t>>
    BY DEF Places
  <2> QED
    BY <1>3, <2>1
<1>6. ASSUME NEW p \in Places, p[1] # db PROVE details'[p] = details[p]
  <2>1. p # <<db, t>>
    BY <1>6
  <2> QED
    BY <1>3, <2>1
<1> QED
  BY <1>4, <1>5, <1>6

LEMMA OpenProgress == ASSUME ExportInv, OpenDatabase, SourceOk', expCase' = expCase PROVE ProgressOk'
<1> USE DEF ExportInv
<1>1. PICK d \in toExport :
        /\ db' = d /\ toExport' = toExport \ {d} /\ todo' = tablePlan[d]
        /\ files' = [x \in DOMAIN files \cup {d} |->
                       IF x = d THEN [ddl |-> {}, rows |-> {}, objects |-> {}, desc |-> {}]
                       ELSE files[x]]
  BY DEF OpenDatabase
<1>2. /\ stage = "count" /\ stage' = SectionStage
      /\ UNCHANGED <<tablePlan, details, leftOut>>
  BY DEF OpenDatabase
<1>3. /\ \A x \in toExport : NotTold(x)
      /\ \A x \in DOMAIN tablePlan \ toExport : x \in DOMAIN files /\ Finished(x)
  BY <1>2 DEF ProgressOk, OpenOrWritten, InDatabase
<1>4. ASSUME NEW x \in DOMAIN tablePlan' \ toExport' PROVE OpenOrWritten(x)'
  <2>1. CASE x = d
    BY <1>1, <1>2, <2>1 DEF OpenOrWritten, InDatabase, SectionStage
  <2>2. CASE x # d
    <3>1. x \in DOMAIN tablePlan \ toExport
      BY <1>1, <1>2, <1>4, <2>2
    <3>2. x \in DOMAIN files /\ Finished(x)
      BY <1>3, <3>1
    <3>3. files'[x] = files[x] /\ x \in DOMAIN files'
      BY <1>1, <2>2, <3>2
    <3>4. ASSUME NEW t \in tablePlan[x] PROVE TableDone(x, t)'
      <4>1. TableDone(x, t)
        BY <3>2 DEF Finished
      <4> QED
        BY <1>2, <3>3, <4>1, DoneStays DEF HasDescription
    <3> QED
      BY <1>2, <3>3, <3>4 DEF OpenOrWritten, Finished
  <2> QED
    BY <2>1, <2>2
<1>5. /\ files'[d].rows = {} /\ tablePlan[d] \subseteq ExpTables
      /\ \A t \in tablePlan[d] : details[<<d, t>>] = <<>>
  BY <1>1, <1>3 DEF NotTold, PlanOk, FilesShape
<1>6. \A x \in toExport' : NotTold(x)'
  BY <1>1, <1>2, <1>3 DEF NotTold
<1>7. CASE expCase.mode = "data"
  <2>1. stage' = "data" /\ InData'
    BY <1>1, <1>2, <1>5, <1>7 DEF InData, SectionStage
  <2> QED
    BY <1>4, <1>6, <2>1 DEF ProgressOk
<1>8. CASE expCase.mode # "data"
  <2>1. stage' = "schema" /\ InSchema'
    BY <1>1, <1>2, <1>5, <1>8 DEF InSchema, SectionStage
  <2> QED
    BY <1>4, <1>6, <2>1 DEF ProgressOk
<1> QED
  BY <1>7, <1>8

LEMMA DdlProgress == ASSUME ExportInv, WriteDdl, expCase' = expCase PROVE ProgressOk'
<1> USE DEF ExportInv
<1>1. PICK t \in todo \cap live[db].tables :
        /\ todo' = todo \ {t}
        /\ files' = [files EXCEPT ![db].ddl = @ \cup {t}]
        /\ IF expCase.mode = "schema" THEN Detail(t, Blank) ELSE UNCHANGED details
  BY DEF WriteDdl
<1>2. /\ stage = "schema" /\ stage' = "schema" /\ InDatabase /\ InDatabase'
      /\ UNCHANGED <<tablePlan, toExport, db, leftOut>>
  BY DEF WriteDdl, InDatabase
<1>3. /\ db \in DOMAIN files /\ db \in DOMAIN tablePlan /\ todo \subseteq tablePlan[db]
      /\ DOMAIN details = Places /\ DOMAIN files[db] = {"ddl", "rows", "objects", "desc"}
      /\ tablePlan[db] \subseteq ExpTables /\ db \in ExpDbs
  BY <1>2 DEF FilesShape, PlanOk
<1>4. /\ files'[db].ddl = files[db].ddl \cup {t} /\ files'[db].rows = files[db].rows
      /\ DOMAIN files' = DOMAIN files /\ \A x \in DOMAIN files \ {db} : files'[x] = files[x]
  BY <1>1, <1>3
<1>5. InSchema
  BY <1>2 DEF ProgressOk
<1>6. /\ \A p \in Places : p[1] # db => details'[p] = details[p]
      /\ \A u \in tablePlan[db] \ {t} : details'[<<db, u>>] = details[<<db, u>>]
      /\ details'[<<db, t>>] = IF expCase.mode = "schema" THEN <<Blank>> ELSE <<>>
  <2>1. details[<<db, t>>] = <<>> /\ t \in ExpTables
    BY <1>1, <1>3, <1>5 DEF InSchema
  <2>2. CASE expCase.mode = "schema"
    <3>1. Detail(t, Blank)
      BY <1>1, <2>2
    <3> QED
      BY <1>3, <2>1, <2>2, <3>1, TellsOne
  <2>3. CASE expCase.mode # "schema"
    BY <1>1, <2>1, <2>3
  <2> QED
    BY <2>2, <2>3
<1>7. InSchema'
  BY <1>1, <1>2, <1>3, <1>4, <1>5, <1>6 DEF InSchema
<1> QED
  BY <1>2, <1>4, <1>6, <1>7, OthersDone DEF ProgressOk

LEMMA SkipProgress == ASSUME ExportInv, SkipData, expCase' = expCase PROVE ProgressOk'
<1> USE DEF ExportInv
<1>1. PICK t \in todo : /\ Unread(t) /\ todo' = todo \ {t} /\ Detail(t, Blank)
                        /\ files' = [files EXCEPT ![db].desc = @ \cup Described(t, Blank)]
  BY DEF SkipData
<1>2. /\ stage = "data" /\ stage' = "data" /\ InDatabase /\ InDatabase'
      /\ UNCHANGED <<tablePlan, toExport, db, leftOut>>
  BY DEF SkipData, InDatabase
<1>3. /\ db \in DOMAIN files /\ db \in DOMAIN tablePlan /\ todo \subseteq tablePlan[db]
      /\ DOMAIN details = Places /\ DOMAIN files[db] = {"ddl", "rows", "objects", "desc"}
      /\ tablePlan[db] \subseteq ExpTables /\ db \in ExpDbs
  BY <1>2 DEF FilesShape, PlanOk
<1>4. /\ files'[db].ddl = files[db].ddl /\ files'[db].rows = files[db].rows
      /\ files'[db].desc = files[db].desc \cup Described(t, Blank)
      /\ DOMAIN files' = DOMAIN files /\ \A x \in DOMAIN files \ {db} : files'[x] = files[x]
  BY <1>1, <1>3
<1>5. InData
  BY <1>2 DEF ProgressOk
<1>6. /\ \A p \in Places : p[1] # db => details'[p] = details[p]
      /\ \A u \in tablePlan[db] \ {t} : details'[<<db, u>>] = details[<<db, u>>]
      /\ details'[<<db, t>>] = <<Blank>>
  BY <1>1, <1>3, <1>5, TellsOne DEF InData
<1>7. ASSUME NEW u \in tablePlan[db], u # t
      PROVE  IF u \in todo
             THEN /\ details'[<<db, u>>] = <<>> /\ \A r \in files'[db].rows : r[1] # u
                  /\ expCase.mode # "data" => u \in files'[db].ddl
             ELSE TableDone(db, u)'
  <2>1. CASE u \in todo
    BY <1>4, <1>5, <1>6, <1>7, <2>1 DEF InData
  <2>2. CASE u \notin todo
    <3>1. TableDone(db, u)
      BY <1>5, <2>2 DEF InData
    <3>2. TableDone(db, u)'
      BY <1>2, <1>4, <1>6, <1>7, <3>1 DEF TableDone, Written, Unread, HasDescription
    <3> QED
      BY <2>2, <3>2
  <2> QED
    BY <2>1, <2>2
<1>8. TableDone(db, t)'
  <2>1. /\ \A r \in files[db].rows : r[1] # t
        /\ expCase.mode # "data" => t \in files[db].ddl
    BY <1>1, <1>3, <1>5 DEF InData
  <2>2. Written(db, t)'
    BY <1>1, <1>2, <1>4, <2>1 DEF Written, Unread
  <2>3. <<t, Blank>> \notin files'[db].rows /\ (HasDescription(db)' => <<t, Blank>> \in files'[db].desc)
    BY <1>2, <1>4, <2>1 DEF HasDescription, Described
  <2> QED
    BY <1>2, <1>6, <2>2, <2>3 DEF TableDone
<1>9. InData'
  BY <1>1, <1>2, <1>5, <1>7, <1>8 DEF InData
<1> QED
  BY <1>2, <1>4, <1>6, <1>9, OthersDone DEF ProgressOk

LEMMA RowsProgress == ASSUME ExportInv, writeTableData, expCase' = expCase PROVE ProgressOk'
<1> USE DEF ExportInv
<1> DEFINE content(u) == [part |-> expCase.cond[u], at |-> Seen]
<1>1. PICK t \in todo \cap live[db].tables :
        /\ ~ Unread(t) /\ todo' = todo \ {t} /\ Detail(t, content(t))
        /\ files' = [files EXCEPT ![db].rows = @ \cup {<<t, content(t)>>},
                                  ![db].desc = @ \cup Described(t, content(t))]
  BY DEF writeTableData
<1>2. /\ stage = "data" /\ stage' = "data" /\ InDatabase /\ InDatabase'
      /\ UNCHANGED <<tablePlan, toExport, db, leftOut>>
  BY DEF writeTableData, InDatabase
<1>3. /\ db \in DOMAIN files /\ db \in DOMAIN tablePlan /\ todo \subseteq tablePlan[db]
      /\ DOMAIN details = Places /\ DOMAIN files[db] = {"ddl", "rows", "objects", "desc"}
      /\ tablePlan[db] \subseteq ExpTables /\ db \in ExpDbs
  BY <1>2 DEF FilesShape, PlanOk
<1>4. PICK c : c = content(t)
  OBVIOUS
<1>5. /\ files'[db].ddl = files[db].ddl /\ files'[db].rows = files[db].rows \cup {<<t, c>>}
      /\ files'[db].desc = files[db].desc \cup Described(t, c)
      /\ DOMAIN files' = DOMAIN files /\ \A x \in DOMAIN files \ {db} : files'[x] = files[x]
  BY <1>1, <1>3, <1>4
<1>6. c # Blank
  BY <1>1, <1>4 DEF Unread, Blank
<1>7. Detail(t, c)
  BY <1>1, <1>4
<1> HIDE DEF content
<1>8. InData
  BY <1>2 DEF ProgressOk
<1>9. /\ \A p \in Places : p[1] # db => details'[p] = details[p]
      /\ \A u \in tablePlan[db] \ {t} : details'[<<db, u>>] = details[<<db, u>>]
      /\ details'[<<db, t>>] = <<c>>
  BY <1>1, <1>3, <1>7, <1>8, TellsOne DEF InData
<1>10. ASSUME NEW u \in tablePlan[db], u # t
      PROVE  IF u \in todo
             THEN /\ details'[<<db, u>>] = <<>> /\ \A r \in files'[db].rows : r[1] # u
                  /\ expCase.mode # "data" => u \in files'[db].ddl
             ELSE TableDone(db, u)'
  <2>1. CASE u \in todo
    BY <1>5, <1>8, <1>9, <1>10, <2>1 DEF InData
  <2>2. CASE u \notin todo
    <3>1. TableDone(db, u)
      BY <1>8, <2>2 DEF InData
    <3>2. \A k : <<u, k>> \in files'[db].rows => <<u, k>> \in files[db].rows
      BY <1>5, <1>10
    <3>3. TableDone(db, u)'
      BY <1>2, <1>5, <1>9, <1>10, <3>1, <3>2 DEF TableDone, Written, Unread, HasDescription
    <3> QED
      BY <2>2, <3>3
  <2> QED
    BY <2>1, <2>2
<1>11. TableDone(db, t)'
  <2>1. expCase.mode # "data" => t \in files[db].ddl
    BY <1>1, <1>3, <1>8 DEF InData
  <2>2. <<t, c>> \in files'[db].rows /\ (HasDescription(db)' => <<t, c>> \in files'[db].desc)
    BY <1>2, <1>5 DEF HasDescription, Described
  <2>3. Written(db, t)'
    BY <1>2, <1>5, <2>1, <2>2 DEF Written
  <2> QED
    BY <1>2, <1>6, <1>9, <2>2, <2>3 DEF TableDone
<1>12. InData'
  BY <1>1, <1>2, <1>8, <1>10, <1>11 DEF InData
<1> QED
  BY <1>2, <1>5, <1>9, <1>12, OthersDone DEF ProgressOk

(* The sections of a database end with each of its tables told of.            *)
LEMMA SectionEnds ==
  ASSUME ExportInv, BeginData \/ EndData, expCase' = expCase PROVE ProgressOk'
<1> USE DEF ExportInv
<1>1. /\ todo = {} /\ stage \in {"schema", "data"} /\ InDatabase /\ InDatabase'
      /\ UNCHANGED <<tablePlan, toExport, db, files, details, leftOut>>
  BY DEF BeginData, EndData, InDatabase
<1>2. /\ \A d \in toExport' : NotTold(d)'
      /\ \A d \in DOMAIN tablePlan' \ toExport' : OpenOrWritten(d)'
  BY <1>1, OthersDone
<1>3. CASE BeginData /\ expCase.mode = "schema"
  <2>1. InSchema /\ stage' = "objects"
    BY <1>3 DEF BeginData, ProgressOk
  <2>2. ASSUME NEW t \in tablePlan[db] PROVE TableDone(db, t)'
    <3>1. /\ t \in files'[db].ddl /\ files'[db].rows = {} /\ details'[<<db, t>>] = <<Blank>>
      BY <1>1, <1>3, <2>1 DEF InSchema
    <3> QED
      BY <1>1, <1>3, <3>1 DEF TableDone, Written, HasDescription
  <2> QED
    BY <1>1, <1>2, <2>1, <2>2 DEF ProgressOk, Finished
<1>4. CASE BeginData /\ expCase.mode # "schema"
  <2>1. InSchema /\ stage' = "data" /\ todo' = tablePlan[db]
    BY <1>4 DEF BeginData, ProgressOk
  <2>2. InData'
    BY <1>1, <1>4, <2>1 DEF InSchema, InData
  <2> QED
    BY <1>2, <2>1, <2>2 DEF ProgressOk
<1>5. CASE EndData
  <2>1. InData /\ stage' = "objects"
    BY <1>5 DEF EndData, ProgressOk
  <2>2. ASSUME NEW t \in tablePlan[db] PROVE TableDone(db, t)'
    <3>1. TableDone(db, t)
      BY <1>1, <2>1 DEF InData
    <3> QED
      BY <1>1, <3>1, DoneStays DEF HasDescription
  <2> QED
    BY <1>1, <1>2, <2>1, <2>2 DEF ProgressOk, Finished
<1> QED
  BY <1>3, <1>4, <1>5

LEMMA ObjectsProgress == ASSUME ExportInv, exportObjects, expCase' = expCase PROVE ProgressOk'
<1> USE DEF ExportInv
<1>1. PICK set : files' = [files EXCEPT ![db].objects = set]
  BY DEF exportObjects
<1>2. /\ stage = "objects" /\ stage' = "close" /\ InDatabase /\ InDatabase'
      /\ UNCHANGED <<tablePlan, toExport, db, details, leftOut>>
  BY DEF exportObjects, InDatabase
<1>3. /\ DOMAIN files' = DOMAIN files /\ \A x \in DOMAIN files \ {db} : files'[x] = files[x]
      /\ \A x \in DOMAIN files : DOMAIN files[x] = {"ddl", "rows", "objects", "desc"}
      /\ db \in DOMAIN files
  BY <1>1, <1>2 DEF FilesShape
<1>4. files'[db].ddl = files[db].ddl /\ files'[db].rows = files[db].rows /\ files'[db].desc = files[db].desc
  BY <1>1, <1>3
<1>5. ASSUME NEW t \in tablePlan[db] PROVE TableDone(db, t)'
  <2>1. TableDone(db, t)
    BY <1>2 DEF ProgressOk, Finished
  <2> QED
    BY <1>2, <1>4, <2>1 DEF TableDone, Written, Unread, HasDescription
<1> QED
  BY <1>2, <1>3, <1>5, OthersDone DEF ProgressOk, Finished

(* The database that is closed stays as it was told of; only its description   *)
(* may be missing, and then the log says so.                                  *)
LEMMA CloseProgress == ASSUME ExportInv, CloseDatabase, expCase' = expCase PROVE ProgressOk'
<1> USE DEF ExportInv
<1>1. /\ InDatabase /\ stage \in {"objects", "close"} /\ stage' = "count" /\ ~ InDatabase'
      /\ UNCHANGED <<tablePlan, toExport, db, details>>
  BY DEF CloseDatabase, InDatabase
<1>2. /\ SameRows /\ \A d \in DOMAIN files : files'[d].ddl = files[d].ddl
      /\ \A d \in DOMAIN files \ {db} : files'[d] = files[d]
      /\ files' = files \/ db \in leftOut'.descs
      /\ leftOut.descs \subseteq leftOut'.descs
  BY LosesNoRows DEF CloseDatabase, LoseDescription, SameRows, PlanOk
<1>3. ASSUME NEW d \in DOMAIN tablePlan \ toExport PROVE OpenOrWritten(d)'
  <2>1. d \in DOMAIN files /\ Finished(d)
    BY <1>1 DEF ProgressOk, OpenOrWritten, FilesShape
  <2>2. HasDescription(d)' => HasDescription(d) /\ files'[d] = files[d]
    BY <1>2, <2>1 DEF HasDescription
  <2>3. ASSUME NEW t \in tablePlan[d] PROVE TableDone(d, t)'
    <3>1. TableDone(d, t) /\ files'[d].rows = files[d].rows /\ files'[d].ddl = files[d].ddl
      BY <1>2, <2>1 DEF Finished, SameRows
    <3> QED
      BY <1>1, <2>2, <3>1 DEF TableDone, Written, Unread
  <2> QED
    BY <1>1, <1>2, <2>1, <2>3 DEF OpenOrWritten, Finished, SameRows
<1> QED
  BY <1>1, <1>3 DEF ProgressOk, NotTold

LEMMA ProgressStep == ASSUME ExportInv, ExportNext PROVE ProgressOk'
<1> USE SourceStep DEF ExportInv
<1>1. ASSUME NEW d \in ExpDbs, Commit(d) \/ AlterSchema(d) PROVE ProgressOk'
  BY <1>1, QuietProgress DEF Commit, AlterSchema
<1>2. CASE Plan \/ Break
  BY <1>2 DEF Plan, Break, ProgressOk
<1>3. CASE CountTables
  BY <1>3 DEF CountTables, ProgressOk, FilesShape, PlanOk, NotTold
<1>4. CASE countExportObjects \/ ExportOver
  BY <1>4, QuietProgress DEF countExportObjects, ExportOver, exportVars
<1>5. CASE runContributors \/ Pack
  <2>1. /\ stage \in {"count", "pack"} /\ ~ InDatabase' /\ stage' # "plan"
        /\ stage' \notin {"schema", "data", "objects", "close"}
        /\ UNCHANGED <<tablePlan, toExport, db, files, details, leftOut>>
    BY <1>5 DEF runContributors, Pack, InDatabase
  <2>2. ASSUME NEW d \in DOMAIN tablePlan \ toExport PROVE OpenOrWritten(d)'
    <3>1. d \in DOMAIN files /\ Finished(d)
      BY <2>1 DEF ProgressOk, OpenOrWritten, InDatabase, FilesShape
    <3> QED
      BY <2>1, <3>1, QuietDone DEF OpenOrWritten
  <2> QED
    BY <2>1, <2>2 DEF ProgressOk, NotTold
<1> QED
  BY <1>1, <1>2, <1>3, <1>4, <1>5, OpenProgress, DdlProgress, SkipProgress, RowsProgress,
     SectionEnds, ObjectsProgress, CloseProgress DEF ExportNext

-----------------------------------------------------------------------------
(* The units: every step does as many as it takes from those to come.         *)
LEMMA OwedNumbers ==
  ASSUME SourceOk, PlanOk, FilesShape
  PROVE  /\ TablesOwed \in Nat /\ ObjectsOwed \in Nat /\ OpenOwed \in Nat /\ HelpersOwed \in Nat
         /\ IsFiniteSet(todo) \/ ~ InDatabase
         /\ IsFiniteSet(toExport)
<1>1. toExport \subseteq ExpDbs
  BY DEF FilesShape, PlanOk
<1>2. IsFiniteSet(toExport) /\ IsFiniteSet(ExpTables) /\ IsFiniteSet(ExpObjects)
  BY <1>1, FS_Subset, ExportCasesAssumption
<1>3. TablesOwed \in Nat
  BY <1>2, ListedFinite DEF TablesOwed
<1>4. ObjectsOwed \in Nat
  <2>1. CountedDbs \subseteq toExport \cup {db}
    BY DEF CountedDbs
  <2>2. IsFiniteSet(CountedDbs)
    BY <1>2, <2>1, FS_AddElement, FS_Subset
  <2> QED
    BY <1>2, <2>2, ListedFinite DEF ObjectsOwed
<1>5. ASSUME InDatabase PROVE /\ IsFiniteSet(todo) /\ Cardinality(todo) \in Nat
                              /\ Cardinality(tablePlan[db]) \in Nat
  <2>1. todo \subseteq ExpTables /\ tablePlan[db] \subseteq ExpTables
    BY <1>5 DEF FilesShape, PlanOk
  <2> QED
    BY <1>2, <2>1, FS_Subset, FS_CardinalityType
<1>6. OpenOwed \in Nat
  BY <1>5 DEF OpenOwed, InDatabase
<1> QED
  BY <1>2, <1>3, <1>4, <1>5, <1>6, CaseAllows DEF HelpersOwed

(* A table of the open section is done.                                       *)
LEMMA TodoLess ==
  ASSUME SourceOk, PlanOk, FilesShape, InDatabase, NEW t \in todo
  PROVE  Cardinality(todo) = Cardinality(todo \ {t}) + 1 /\ Cardinality(todo \ {t}) \in Nat
<1>1. IsFiniteSet(todo)
  BY OwedNumbers
<1>2. IsFiniteSet(todo \ {t}) /\ Cardinality(todo \ {t}) = Cardinality(todo) - 1
  BY <1>1, FS_RemoveElement
<1>3. Cardinality(todo) \in Nat /\ Cardinality(todo \ {t}) \in Nat
  BY <1>1, <1>2, FS_CardinalityType
<1> QED
  BY <1>2, <1>3

LEMMA AdvanceUnits ==
  ASSUME UnitsOk, NEW n \in Nat, Advance(n)
  PROVE  /\ units' = [total |-> units'.total, done |-> units'.done]
         /\ units'.total = units.total /\ units'.done = units.done + n
         /\ units'.total \in Nat /\ units'.done \in Nat
  BY DEF UnitsOk, Advance

(* One database opened: its tables are now those of the open one.             *)
LEMMA OpenUnits == ASSUME ExportInv, OpenDatabase, SourceOk', PlanOk', FilesShape', expCase' = expCase
                   PROVE  UnitsOk'
<1> USE DEF ExportInv
<1>1. PICK d \in toExport :
        db' = d /\ toExport' = toExport \ {d} /\ todo' = tablePlan[d]
  BY DEF OpenDatabase
<1>2. /\ stage = "count" /\ stage' = SectionStage /\ toCount = {} /\ toCount' = {}
      /\ UNCHANGED <<tablePlan, live, units, steady>>
  BY DEF OpenDatabase
<1>3. d \in DOMAIN tablePlan /\ tablePlan[d] \subseteq ExpTables /\ IsFiniteSet(ExpTables)
  BY <1>1, ExportCasesAssumption DEF FilesShape, PlanOk
<1>4. /\ TablesOwed = TablesOwed' + Cardinality(tablePlan[d])
      /\ TablesOwed' \in Nat /\ Cardinality(tablePlan[d]) \in Nat
  BY <1>1, <1>2, <1>3, OwedNumbers, ListedMore DEF TablesOwed
<1>5. OpenOwed = 0 /\ OpenOwed' = Sections * Cardinality(tablePlan[d])
  BY <1>1, <1>2, <1>4, CaseAllows DEF OpenOwed, SectionStage, Sections
<1>6. ObjectsOwed' = ObjectsOwed
  <2>1. CountedDbs' = CountedDbs
    BY <1>1, <1>2 DEF CountedDbs, WithObjects, SectionStage
  <2>2. ChosenOf' = ChosenOf
    BY <1>2 DEF ChosenOf, chosenObjects
  <2> QED
    BY <2>1, <2>2 DEF ObjectsOwed
<1>7. HelpersOwed' = HelpersOwed
  BY <1>2 DEF HelpersOwed, SectionStage
<1>8. ASSUME steady' PROVE Balanced'
  <2>1. Balanced
    BY <1>2, <1>8 DEF UnitsOk
  <2>2. ObjectsOwed \in Nat /\ HelpersOwed \in Nat /\ units.done \in Nat /\ Sections' = Sections
    BY OwedNumbers DEF UnitsOk, Sections
  <2>3. CASE Sections = 1
    BY <1>2, <1>4, <1>5, <1>6, <1>7, <2>1, <2>2, <2>3 DEF Balanced
  <2>4. CASE Sections = 2
    BY <1>2, <1>4, <1>5, <1>6, <1>7, <2>1, <2>2, <2>4 DEF Balanced
  <2> QED
    BY <2>3, <2>4, CaseAllows
<1> QED
  BY <1>2, <1>8 DEF UnitsOk, SectionStage

(* A step inside a database: done and to come add up as before.               *)
LEMMA InsideUnits ==
  ASSUME ExportInv, NEW n \in Nat, Advance(n) \/ (n = 0 /\ units' = units),
         expCase' = expCase, UNCHANGED <<tablePlan, toExport>>,
         stage \notin {"plan", "failed"}, stage' \notin {"plan", "failed"},
         steady' => steady,
         steady' => OpenOwed' \in Nat /\ ObjectsOwed' \in Nat /\ HelpersOwed' \in Nat,
         steady' => OpenOwed + ObjectsOwed + HelpersOwed = n + OpenOwed' + ObjectsOwed' + HelpersOwed'
  PROVE  UnitsOk'
<1> USE DEF ExportInv
<1>1. /\ units' = [total |-> units'.total, done |-> units'.done]
      /\ units'.total = units.total /\ units'.done = units.done + n
      /\ units'.total \in Nat /\ units'.done \in Nat
  BY AdvanceUnits DEF UnitsOk
<1>2. TablesOwed' = TablesOwed /\ Sections' = Sections
  BY DEF TablesOwed, Sections
<1>3. ASSUME steady' PROVE Balanced'
  <2>1. Balanced
    BY <1>3 DEF UnitsOk
  <2>2. PICK m : m = TablesOwed * Sections
    OBVIOUS
  <2>3. m \in Nat /\ OpenOwed \in Nat /\ ObjectsOwed \in Nat /\ HelpersOwed \in Nat /\ units.done \in Nat
    BY <2>2, OwedNumbers, CaseAllows DEF UnitsOk
  <2>4. units.total = units.done + m + OpenOwed + ObjectsOwed + HelpersOwed
    BY <2>1, <2>2 DEF Balanced
  <2>5. units'.total = units'.done + m + OpenOwed' + ObjectsOwed' + HelpersOwed'
    BY <1>1, <1>3, <2>3, <2>4
  <2> QED
    BY <1>2, <2>2, <2>5 DEF Balanced
<1> QED
  BY <1>1, <1>3 DEF UnitsOk

LEMMA SameObjects ==
  ASSUME expCase' = expCase, UNCHANGED <<toExport, toCount, db>>,
         \A d \in ExpDbs : live'[d].objects = live[d].objects,
         stage' \in {"schema", "data", "objects"} <=> stage \in {"schema", "data", "objects"}
  PROVE  ObjectsOwed' = ObjectsOwed
<1>1. CountedDbs' = CountedDbs
  BY DEF CountedDbs, WithObjects
<1>2. ChosenOf' = ChosenOf
  BY DEF ChosenOf, chosenObjects
<1> QED
  BY <1>1, <1>2 DEF ObjectsOwed

LEMMA CountUnits == ASSUME ExportInv, CountTables, expCase' = expCase PROVE UnitsOk'
<1> USE DEF ExportInv
<1>1. CASE DOMAIN tablePlan = {}
  BY <1>1 DEF CountTables, UnitsOk
<1>2. CASE DOMAIN tablePlan # {}
  <2>1. /\ units' = [units EXCEPT !.total = Cardinality(TablesPlanned) * Sections + expCase.helpers]
        /\ toCount' = IF WithObjects THEN DOMAIN tablePlan ELSE {}
        /\ toExport' = DOMAIN tablePlan /\ stage = "plan" /\ stage' = "count"
        /\ UNCHANGED <<tablePlan, live>>
    BY <1>2 DEF CountTables
  <2>2. PICK c : c = Cardinality(TablesPlanned)
    OBVIOUS
  <2>3. TablesOwed' = c
    <3>1. ListedIn(tablePlan, DOMAIN tablePlan, ExpTables) = TablesPlanned
      BY DEF ListedIn, TablesPlanned, Places, PlanOk
    <3> QED
      BY <2>1, <2>2, <3>1 DEF TablesOwed
  <2>4. c \in Nat
    <3>1. IsFiniteSet(DOMAIN tablePlan) /\ IsFiniteSet(ExpTables)
      BY ExportCasesAssumption, FS_Subset DEF PlanOk
    <3>2. ListedIn(tablePlan, DOMAIN tablePlan, ExpTables) = TablesPlanned
      BY DEF ListedIn, TablesPlanned, Places, PlanOk
    <3> QED
      BY <2>2, <3>1, <3>2, ListedFinite
  <2>5. ObjectsOwed' = 0
    <3>1. CountedDbs' = {}
      BY <2>1 DEF CountedDbs, WithObjects
    <3> QED
      BY <3>1, ListedNone DEF ObjectsOwed
  <2>6. OpenOwed' = 0 /\ HelpersOwed' = expCase.helpers /\ Sections' = Sections
    BY <2>1 DEF OpenOwed, HelpersOwed, Sections
  <2>7. PICK m : m = c * Sections
    OBVIOUS
  <2>8. m \in Nat /\ expCase.helpers \in Nat
    BY <2>4, <2>7, CaseAllows
  <2>9. /\ units'.total = m + expCase.helpers /\ units'.done = 0
        /\ units' = [total |-> units'.total, done |-> units'.done]
    BY <2>1, <2>2, <2>7 DEF UnitsOk
  <2>10. Balanced'
    BY <2>3, <2>5, <2>6, <2>7, <2>8, <2>9 DEF Balanced
  <2> QED
    BY <2>1, <2>8, <2>9, <2>10 DEF UnitsOk
<1> QED
  BY <1>1, <1>2

(* Counting the objects of a database announces them.                         *)
LEMMA ObjectUnits == ASSUME ExportInv, countExportObjects, expCase' = expCase PROVE UnitsOk'
<1> USE DEF ExportInv
<1>1. PICK d \in toCount, seen \in UNION {listDBObjects(x) : x \in toCount} :
        /\ toCount' = toCount \ {d} /\ seen \in listDBObjects(d)
        /\ units' = [units EXCEPT !.total = @ + Cardinality(seen)]
        /\ steady' = (steady /\ seen = chosenObjects(d))
  BY DEF countExportObjects
<1>2. /\ stage = "count" /\ stage' = "count" /\ UNCHANGED <<tablePlan, live, toExport, db>>
  BY DEF countExportObjects
<1>3. /\ d \in toExport /\ d \in ExpDbs /\ toCount \subseteq toExport /\ WithObjects
  BY <1>1 DEF FilesShape, PlanOk
<1>4. /\ chosenObjects(d) \subseteq ExpObjects /\ seen \subseteq chosenObjects(d)
      /\ IsFiniteSet(ExpObjects)
  BY <1>1, <1>3, ExportCasesAssumption DEF SourceOk, chosenObjects, listDBObjects
<1>5. Cardinality(seen) \in Nat
  <2>1. seen \subseteq ExpObjects
    BY <1>4
  <2> QED
    BY <1>4, <2>1, FS_Subset, FS_CardinalityType
<1>6. /\ units'.total = units.total + Cardinality(seen) /\ units'.done = units.done
      /\ units' = [total |-> units'.total, done |-> units'.done]
  BY <1>1 DEF UnitsOk
<1>7. ASSUME steady' PROVE Balanced'
  <2>1. Balanced /\ seen = chosenObjects(d)
    BY <1>1, <1>2, <1>7 DEF UnitsOk
  <2>2. /\ CountedDbs = toExport \ toCount /\ CountedDbs' = CountedDbs \cup {d}
        /\ d \notin CountedDbs
    BY <1>1, <1>2, <1>3 DEF CountedDbs, WithObjects
  <2>3. ChosenOf' = ChosenOf /\ ChosenOf[d] = chosenObjects(d)
    BY <1>2, <1>3 DEF ChosenOf, chosenObjects
  <2>4. IsFiniteSet(CountedDbs')
    BY <1>2, <1>1, <2>2, OwedNumbers, FS_AddElement, FS_Subset
  <2>5. CountedDbs' \ {d} = CountedDbs
    BY <2>2
  <2>6. ObjectsOwed' = ObjectsOwed + Cardinality(seen)
    <3>1. PICK D : D = CountedDbs'
      OBVIOUS
    <3>2. PICK f : f = ChosenOf
      OBVIOUS
    <3>3. d \in D /\ IsFiniteSet(D) /\ f[d] = seen /\ seen \subseteq ExpObjects /\ D \ {d} = CountedDbs
      BY <2>1, <2>2, <2>3, <2>4, <2>5, <1>4, <3>1, <3>2
    <3>4. Cardinality(ListedIn(f, D, ExpObjects)) = Cardinality(ListedIn(f, D \ {d}, ExpObjects)) + Cardinality(f[d])
      BY <1>4, <3>3, ListedMore
    <3> QED
      BY <2>3, <3>1, <3>2, <3>3, <3>4 DEF ObjectsOwed
  <2>7. TablesOwed' = TablesOwed /\ OpenOwed' = OpenOwed /\ HelpersOwed' = HelpersOwed /\ Sections' = Sections
    BY <1>2 DEF TablesOwed, OpenOwed, HelpersOwed, Sections
  <2>8. PICK m : m = TablesOwed * Sections
    OBVIOUS
  <2>9. m \in Nat /\ OpenOwed \in Nat /\ ObjectsOwed \in Nat /\ HelpersOwed \in Nat /\ units.done \in Nat
    BY <2>8, OwedNumbers, CaseAllows DEF UnitsOk
  <2>10. units.total = units.done + m + OpenOwed + ObjectsOwed + HelpersOwed
    BY <2>1, <2>8 DEF Balanced
  <2>11. units'.total = units'.done + m + OpenOwed' + ObjectsOwed' + HelpersOwed'
    BY <1>5, <1>6, <2>6, <2>7, <2>9, <2>10
  <2> QED
    BY <2>7, <2>8, <2>11 DEF Balanced
<1> QED
  BY <1>2, <1>5, <1>6, <1>7 DEF UnitsOk

(* One table of the open section: one unit.                                   *)
LEMMA TableUnits == ASSUME ExportInv, WriteDdl \/ SkipData \/ writeTableData, expCase' = expCase PROVE UnitsOk'
<1> USE DEF ExportInv
<1>1. PICK t \in todo : todo' = todo \ {t}
  BY DEF WriteDdl, SkipData, writeTableData
<1>2. /\ stage' = stage /\ stage \in {"schema", "data"} /\ InDatabase /\ Advance(1)
      /\ UNCHANGED <<tablePlan, toExport, toCount, db, live, steady>>
  BY DEF WriteDdl, SkipData, writeTableData, InDatabase
<1>3. Cardinality(todo) = Cardinality(todo \ {t}) + 1 /\ Cardinality(todo \ {t}) \in Nat
  BY <1>2, TodoLess
<1>4. Cardinality(tablePlan[db]) \in Nat
  <2>1. tablePlan[db] \subseteq ExpTables
    BY <1>2 DEF FilesShape, PlanOk
  <2> QED
    BY <2>1, ExportCasesAssumption, FS_Subset, FS_CardinalityType
<1>5. OpenOwed = 1 + OpenOwed' /\ OpenOwed' \in Nat
  BY <1>1, <1>2, <1>3, <1>4 DEF OpenOwed
<1>6. ObjectsOwed' = ObjectsOwed /\ HelpersOwed' = HelpersOwed
  BY <1>2, SameObjects DEF HelpersOwed
<1>7. ObjectsOwed \in Nat /\ HelpersOwed \in Nat
  BY OwedNumbers
<1>8. OpenOwed + ObjectsOwed + HelpersOwed = 1 + OpenOwed' + ObjectsOwed' + HelpersOwed'
  BY <1>5, <1>6, <1>7
<1> QED
  BY <1>2, <1>5, <1>6, <1>7, <1>8, InsideUnits

(* The end of a section, and that of a database without one of objects.       *)
LEMMA SectionUnits ==
  ASSUME ExportInv, BeginData \/ EndData \/ CloseDatabase, expCase' = expCase PROVE UnitsOk'
<1> USE DEF ExportInv
<1>1. /\ units' = units /\ UNCHANGED <<tablePlan, toExport, toCount, db, live, steady>>
      /\ stage \in {"schema", "data", "objects", "close"} /\ stage' \in {"data", "objects", "count"}
  BY DEF BeginData, EndData, CloseDatabase
<1>2. OpenOwed' = OpenOwed
  <2>1. CASE BeginData
    <3>1. /\ Cardinality(todo) = 0 /\ stage = "schema" /\ expCase.mode # "data"
          /\ IF expCase.mode = "schema" THEN stage' = "objects" ELSE stage' = "data" /\ todo' = tablePlan[db]
      BY <2>1, FS_EmptySet DEF BeginData, ProgressOk, InSchema
    <3>2. Cardinality(tablePlan[db]) \in Nat
      <4>1. tablePlan[db] \subseteq ExpTables
        BY <3>1 DEF FilesShape, PlanOk, InDatabase
      <4> QED
        BY <4>1, ExportCasesAssumption, FS_Subset, FS_CardinalityType
    <3> QED
      BY <1>1, <3>1, <3>2, CaseAllows DEF OpenOwed
  <2>2. CASE EndData
    BY <2>2, FS_EmptySet DEF EndData, OpenOwed
  <2>3. CASE CloseDatabase
    BY <2>3 DEF CloseDatabase, OpenOwed
  <2> QED
    BY <2>1, <2>2, <2>3
<1>3. ObjectsOwed' = ObjectsOwed
  <2>1. CASE stage' \in {"schema", "data", "objects"} <=> stage \in {"schema", "data", "objects"}
    BY <1>1, <2>1, SameObjects
  <2>2. CASE stage = "objects" /\ ~ WithObjects /\ stage' = "count"
    <3>1. CountedDbs = {} /\ CountedDbs' = {}
      BY <2>2 DEF CountedDbs, WithObjects
    <3> QED
      BY <3>1, ListedNone DEF ObjectsOwed
  <2> QED
    BY <2>1, <2>2 DEF BeginData, EndData, CloseDatabase
<1>4. HelpersOwed' = HelpersOwed
  BY <1>1 DEF HelpersOwed
<1>5. OpenOwed \in Nat /\ ObjectsOwed \in Nat /\ HelpersOwed \in Nat
  BY OwedNumbers
<1>6. OpenOwed + ObjectsOwed + HelpersOwed = 0 + OpenOwed' + ObjectsOwed' + HelpersOwed'
  BY <1>2, <1>3, <1>4, <1>5
<1> QED
  BY <1>1, <1>2, <1>3, <1>4, <1>5, <1>6, InsideUnits

(* The objects of the open database are as many units as they were counted.   *)
LEMMA WrittenUnits == ASSUME ExportInv, exportObjects, expCase' = expCase PROVE UnitsOk'
<1> USE DEF ExportInv
<1>1. PICK seen \in listDBObjects(db) :
        /\ steady' = (steady /\ seen = chosenObjects(db))
        /\ Advance(Cardinality(seen))
  BY DEF exportObjects
<1>2. /\ stage = "objects" /\ stage' = "close" /\ WithObjects /\ InDatabase
      /\ UNCHANGED <<tablePlan, live, toExport, toCount, db>>
  BY DEF exportObjects, InDatabase
<1>3. db \in ExpDbs /\ db \notin toExport /\ toCount = {}
  BY <1>2 DEF FilesShape, PlanOk
<1>4. /\ chosenObjects(db) \subseteq ExpObjects /\ seen \subseteq chosenObjects(db)
      /\ IsFiniteSet(ExpObjects)
  BY <1>1, <1>3, ExportCasesAssumption DEF SourceOk, chosenObjects, listDBObjects
<1>5. Cardinality(seen) \in Nat
  <2>1. seen \subseteq ExpObjects
    BY <1>4
  <2> QED
    BY <1>4, <2>1, FS_Subset, FS_CardinalityType
<1>6. ASSUME steady' PROVE ObjectsOwed = Cardinality(seen) + ObjectsOwed' /\ ObjectsOwed' \in Nat
  <2>1. CountedDbs = toExport \cup {db} /\ CountedDbs' = toExport /\ seen = chosenObjects(db)
    BY <1>1, <1>2, <1>3, <1>6 DEF CountedDbs, WithObjects
  <2>2. ChosenOf' = ChosenOf /\ ChosenOf[db] = seen
    BY <1>2, <1>3, <2>1 DEF ChosenOf, chosenObjects
  <2>3. IsFiniteSet(CountedDbs)
    BY <2>1, OwedNumbers, FS_AddElement
  <2>4. CountedDbs \ {db} = CountedDbs' /\ db \in CountedDbs
    BY <1>3, <2>1
  <2>5. PICK f : f = ChosenOf
    OBVIOUS
  <2>6. f[db] \subseteq ExpObjects
    BY <1>4, <2>2, <2>5
  <2>7. /\ Cardinality(ListedIn(f, CountedDbs, ExpObjects))
             = Cardinality(ListedIn(f, CountedDbs \ {db}, ExpObjects)) + Cardinality(f[db])
        /\ Cardinality(ListedIn(f, CountedDbs \ {db}, ExpObjects)) \in Nat
    BY <1>4, <2>3, <2>4, <2>6, ListedMore
  <2>8. ChosenOf' = f /\ ChosenOf = f
    BY <2>2, <2>5
  <2>9. /\ ObjectsOwed = Cardinality(ListedIn(f, CountedDbs, ExpObjects))
        /\ ObjectsOwed' = Cardinality(ListedIn(f, CountedDbs \ {db}, ExpObjects))
    BY <2>4, <2>8 DEF ObjectsOwed
  <2>10. f[db] = seen
    BY <2>2, <2>5
  <2> QED
    BY <1>5, <2>7, <2>9, <2>10
<1>7. OpenOwed = 0 /\ OpenOwed' = 0 /\ HelpersOwed' = HelpersOwed /\ HelpersOwed \in Nat
  BY <1>2, OwedNumbers DEF OpenOwed, HelpersOwed
<1>8. ASSUME steady'
      PROVE  OpenOwed + ObjectsOwed + HelpersOwed
               = Cardinality(seen) + OpenOwed' + ObjectsOwed' + HelpersOwed'
  BY <1>5, <1>6, <1>7, <1>8
<1> QED
  BY <1>1, <1>2, <1>5, <1>6, <1>7, <1>8, InsideUnits

LEMMA HelperUnits == ASSUME ExportInv, runContributors, expCase' = expCase PROVE UnitsOk'
<1> USE DEF ExportInv
<1>1. /\ stage = "count" /\ stage' = "pack" /\ Advance(expCase.helpers)
      /\ UNCHANGED <<tablePlan, live, toExport, toCount, db, steady>>
  BY DEF runContributors
<1>2. /\ OpenOwed = 0 /\ OpenOwed' = 0 /\ HelpersOwed = expCase.helpers /\ HelpersOwed' = 0
      /\ ObjectsOwed' = ObjectsOwed /\ ObjectsOwed \in Nat /\ expCase.helpers \in Nat
  BY <1>1, SameObjects, OwedNumbers, CaseAllows DEF OpenOwed, HelpersOwed
<1>3. OpenOwed + ObjectsOwed + HelpersOwed = expCase.helpers + OpenOwed' + ObjectsOwed' + HelpersOwed'
  BY <1>2
<1> QED
  BY <1>1, <1>2, <1>3, InsideUnits

(* What happens to the databases does not touch the progress.                 *)
LEMMA SourceUnits ==
  ASSUME ExportInv, NEW d \in ExpDbs, Commit(d) \/ AlterSchema(d), expCase' = expCase PROVE UnitsOk'
<1> USE DEF ExportInv
<1>1. /\ units' = units /\ stage' = stage /\ UNCHANGED <<tablePlan, toExport, toCount, db, todo>>
      /\ stage \notin {"done", "failed"}
  BY DEF Commit, AlterSchema, Active
<1>2. OpenOwed' = OpenOwed /\ HelpersOwed' = HelpersOwed
  BY <1>1 DEF OpenOwed, HelpersOwed
<1>3. (steady' => steady) /\ (steady' => \A x \in ExpDbs : live'[x].objects = live[x].objects)
  <2>1. CASE Commit(d)
    BY <2>1 DEF Commit, SourceOk
  <2>2. CASE AlterSchema(d)
    <3>1. CASE \E t \in live[d].tables : live' = [live EXCEPT ![d].tables = @ \ {t}] /\ UNCHANGED steady
      BY <3>1 DEF SourceOk
    <3>2. CASE steady' = FALSE
      BY <3>2
    <3> QED
      BY <2>2, <3>1, <3>2 DEF AlterSchema
  <2> QED
    BY <2>1, <2>2
<1>4. steady' => ObjectsOwed' = ObjectsOwed
  BY <1>1, <1>3, SameObjects
<1>5. OpenOwed \in Nat /\ ObjectsOwed \in Nat /\ HelpersOwed \in Nat
  BY OwedNumbers
<1>6. CASE stage = "plan"
  BY <1>1, <1>6 DEF UnitsOk
<1>7. CASE stage # "plan"
  <2>1. ASSUME steady' PROVE OpenOwed + ObjectsOwed + HelpersOwed = 0 + OpenOwed' + ObjectsOwed' + HelpersOwed'
    BY <1>2, <1>4, <1>5, <2>1
  <2> QED
    BY <1>1, <1>2, <1>3, <1>4, <1>5, <1>7, <2>1, InsideUnits
<1> QED
  BY <1>6, <1>7

LEMMA UnitsStep == ASSUME ExportInv, ExportNext PROVE UnitsOk'
<1> USE SourceStep
<1>1. ASSUME NEW d \in ExpDbs, Commit(d) \/ AlterSchema(d) PROVE UnitsOk'
  BY <1>1, SourceUnits
<1>2. CASE Plan \/ Break
  BY <1>2 DEF Plan, Break, ExportInv, UnitsOk
<1>3. CASE OpenDatabase
  BY <1>3, PlanStep, ShapeStep, OpenUnits
<1>4. CASE Pack
  <2>1. /\ UNCHANGED <<units, tablePlan, toExport, toCount, db, todo, live, steady>>
        /\ stage = "pack" /\ stage' = "done"
    BY <1>4 DEF Pack
  <2>2. OpenOwed' = OpenOwed /\ HelpersOwed' = HelpersOwed /\ ObjectsOwed' = ObjectsOwed
    BY <2>1, SameObjects DEF OpenOwed, HelpersOwed
  <2> QED
    BY <2>1, <2>2 DEF ExportInv, UnitsOk, Balanced, TablesOwed, Sections
<1>5. CASE ExportOver
  BY <1>5 DEF ExportOver, exportVars, ExportInv, UnitsOk, Balanced, TablesOwed, OpenOwed, ObjectsOwed,
              HelpersOwed, Sections, CountedDbs, ChosenOf, chosenObjects, WithObjects
<1> QED
  BY <1>1, <1>2, <1>3, <1>4, <1>5, CountUnits, ObjectUnits, TableUnits, SectionUnits, WrittenUnits,
     HelperUnits DEF ExportNext

-----------------------------------------------------------------------------
LEMMA ExportStep == ExportInv /\ [ExportNext]_exportVars => ExportInv'
<1> SUFFICES ASSUME ExportInv, [ExportNext]_exportVars PROVE ExportInv'
  OBVIOUS
<1>1. CASE ExportNext
  BY <1>1, SourceStep, PlanStep, ShapeStep, ProgressStep, UnitsStep DEF ExportInv
<1>2. CASE UNCHANGED exportVars
  <2>1. UNCHANGED <<units, expCase, live, stage, toPlan, tablePlan, toCount, toExport, db, todo,
                    files, details, leftOut, steady>>
    BY <1>2 DEF exportVars
  <2>2. SourceOk' /\ FilesShape'
    BY <2>1 DEF ExportInv, SourceOk, FilesShape, InDatabase, NotTold, WithObjects
  <2>3. PlanOk' /\ ProgressOk'
    BY <2>1, PlanSame, QuietProgress DEF ExportInv, PlanOk
  <2>4. UnitsOk'
    BY <2>1 DEF ExportInv, UnitsOk, Balanced, TablesOwed, OpenOwed, ObjectsOwed,
                HelpersOwed, Sections, CountedDbs, ChosenOf, chosenObjects, WithObjects
  <2> QED
    BY <2>2, <2>3, <2>4 DEF ExportInv
<1> QED
  BY <1>1, <1>2

(* With nothing to come, all that was announced is done.                      *)
LEMMA NothingOwed == ASSUME ExportInv, stage = "done", steady PROVE units.done = units.total
<1> USE DEF ExportInv
<1>1. toExport = {} /\ toCount = {}
  BY DEF FilesShape
<1>2. TablesOwed = 0 /\ OpenOwed = 0 /\ HelpersOwed = 0
  BY <1>1, ListedNone DEF TablesOwed, OpenOwed, HelpersOwed
<1>3. ObjectsOwed = 0
  <2>1. CountedDbs = {}
    BY <1>1 DEF CountedDbs
  <2> QED
    BY <2>1, ListedNone DEF ObjectsOwed
<1> QED
  BY <1>2, <1>3, CaseAllows DEF UnitsOk, Balanced

LEMMA ExportMeans == ExportInv => FilesMatchChoice
<1> SUFFICES ASSUME ExportInv, stage = "done" PROVE ChosenAreWritten /\ CountsAgree
  BY DEF FilesMatchChoice, ChosenAreWritten, CountsAgree
<1> USE DEF ExportInv
<1>1. ASSUME NEW d \in DOMAIN tablePlan PROVE d \in DOMAIN files /\ Finished(d)
  BY <1>1 DEF FilesShape, ProgressOk, OpenOrWritten, InDatabase
<1>2. ChosenAreWritten
  <2>1. ASSUME NEW d \in expCase.dbs, d \in DOMAIN tablePlan, NEW t \in Remaining(d),
               t \in tablePlan[d] \/ <<d, t>> \in leftOut.tables
        PROVE  d \in DOMAIN files /\ (Written(d, t) \/ <<d, t>> \in leftOut.tables)
    BY <1>1, <2>1 DEF Finished, TableDone
  <2>2. toPlan = {} /\ \A d \in expCase.dbs : WellPlanned(d)
    BY DEF PlanOk
  <2> QED
    BY <2>1, <2>2 DEF ChosenAreWritten, WellPlanned
<1>3. CountsAgree
  <2>1. ASSUME NEW d \in DOMAIN tablePlan, NEW t \in tablePlan[d]
        PROVE  /\ Len(details[<<d, t>>]) = 1
               /\ details[<<d, t>>][1] # Blank <=> <<t, details[<<d, t>>][1]>> \in files[d].rows
               /\ HasDescription(d) => <<t, details[<<d, t>>][1]>> \in files[d].desc
    <3>1. TableDone(d, t)
      BY <1>1 DEF Finished
    <3> QED
      BY <3>1 DEF TableDone
  <2> QED
    BY <2>1, NothingOwed DEF CountsAgree
<1> QED
  BY <1>2, <1>3

(* A finished export has, for any databases, tables, objects, options and      *)
(* faults, and whatever is committed or dropped meanwhile, every chosen table *)
(* that was there all along, in the sections asked for; each planned table    *)
(* was told of once, with what the files have of it, and as many units were   *)
(* done as were announced (RunExport, planTables, exportDatabase).            *)
THEOREM FilesAreAsChosen == ExportSpec => []FilesMatchChoice
<1>1. ExportSpec => []ExportInv
  BY ExportStart, ExportStep, PTL DEF ExportSpec
<1> QED
  BY <1>1, ExportMeans, PTL

-----------------------------------------------------------------------------
(* What the terminal reports of a line is what happened to it.  Only the     *)
(* last line is at work, it has run at most once before a second attempt,    *)
(* and a second attempt is made only if connections break.                  *)
Words == {"nothing", "running", "done", "failed", "switched"}

ReportInv ==
    /\ lines \in Nat /\ told \in Seq(Words) /\ Len(told) = lines
    /\ ran = [n \in 1..Len(ran) |-> ran[n]] /\ Len(ran) \in Nat
    /\ \A n \in 1..Len(ran) : ran[n].line \in 1..lines
    /\ "line" \in DOMAIN running
    /\ ttyStep \in {"prompt", "confirm", "run", "retry"}
    /\ ttyStep # "prompt" => running.line = lines /\ lines # 0 /\ told[lines] = "running"
    /\ ttyStep \in {"confirm", "run"} => RunsOf(lines) = {}
    /\ ttyStep = "retry" => Faulty /\ Cardinality(RunsOf(lines)) <= 1
    /\ ReportTrue

LEMMA FiniteUpTo == \A k \in Nat : IsFiniteSet(1..k)
BY FS_Interval

LEMMA RunsAreFinite ==
    ASSUME Len(ran) \in Nat, ran = [n \in 1..Len(ran) |-> ran[n]], NEW l
    PROVE  IsFiniteSet(RunsOf(l)) /\ Cardinality(RunsOf(l)) \in Nat
<1>1. DOMAIN ran = 1..Len(ran)
  OBVIOUS
<1>2. RunsOf(l) \subseteq 1..Len(ran)
  BY <1>1 DEF RunsOf
<1>3. IsFiniteSet(1..Len(ran))
  BY FiniteUpTo
<1> QED
  BY <1>2, <1>3, FS_Subset, FS_CardinalityType

(* A statement sent to the server counts for the line at work alone.         *)
LEMMA RunsAfter ==
    ASSUME ReportInv, ttyStep # "prompt", Executed
    PROVE  /\ Len(ran') = Len(ran) + 1 /\ ran' = [n \in 1..Len(ran') |-> ran'[n]]
           /\ \A n \in 1..Len(ran') : ran'[n].line \in 1..lines
           /\ \A l : IF l = lines
                   THEN RunsOf(l)' # {} /\ Cardinality(RunsOf(l)') = Cardinality(RunsOf(l)) + 1
                   ELSE RunsOf(l)' = RunsOf(l)
<1> DEFINE e == [sql |-> running.sql, db |-> client, shown |-> currentDb,
                 line |-> running.line, asked |-> running.asked]
<1>1. /\ Len(ran) \in Nat /\ Len(ran') = Len(ran) + 1
      /\ ran' = [n \in 1..(Len(ran) + 1) |-> IF n = Len(ran) + 1 THEN e ELSE ran[n]]
  BY DEF Executed, ReportInv
<1>2. e.line = lines /\ lines \in 1..lines
  BY DEF ReportInv
<1> HIDE DEF e
<1>3. \A n \in 1..Len(ran) : ran'[n] = ran[n] /\ n \in 1..Len(ran')
  BY <1>1
<1>4. ran'[Len(ran) + 1] = e /\ DOMAIN ran' = 1..(Len(ran) + 1) /\ DOMAIN ran = 1..Len(ran)
  BY <1>1 DEF ReportInv
<1>5. \A l : l # lines => RunsOf(l)' = RunsOf(l)
  BY <1>1, <1>2, <1>3, <1>4 DEF RunsOf
<1>6. ASSUME NEW l, l = lines
      PROVE  RunsOf(l)' = RunsOf(l) \cup {Len(ran) + 1} /\ Len(ran) + 1 \notin RunsOf(l)
  BY <1>1, <1>2, <1>3, <1>4, <1>6 DEF RunsOf
<1>7. ASSUME NEW l, l = lines
      PROVE  RunsOf(l)' # {} /\ Cardinality(RunsOf(l)') = Cardinality(RunsOf(l)) + 1
  <2>1. IsFiniteSet(RunsOf(l))
    BY RunsAreFinite DEF ReportInv
  <2> QED
    BY <1>6, <1>7, <2>1, FS_AddElement
<1> QED
  BY <1>1, <1>2, <1>3, <1>4, <1>5, <1>7 DEF ReportInv
(* A line is entered: nothing has run for it.                               *)
Entered ==
    /\ ttyStep = "prompt" /\ lines' = lines + 1 /\ ran' = ran
    /\ \E w \in {"nothing", "running"} :
          told' = Append(told, w) /\ (ttyStep' # "prompt" => w = "running")
    /\ ttyStep' \in {"prompt", "confirm", "run"}
    /\ "line" \in DOMAIN running' /\ (ttyStep' # "prompt" => running'.line = lines')

LEMMA LineEntered ==
    ASSUME ReportInv, Entered
    PROVE  ReportInv'
<1>0. PICK w \in Words \ {"done", "failed", "switched"} :
        told' = Append(told, w) /\ (ttyStep' # "prompt" => w = "running")
  BY DEF Entered, Words
<1>a. lines \in Nat /\ told \in Seq(Words) /\ Len(told) = lines /\ lines' = lines + 1 /\ w \in Words
  BY <1>0 DEF Entered, ReportInv
<1> USE DEF Entered
<1>1. /\ lines' \in Nat /\ told' \in Seq(Words) /\ Len(told') = lines' /\ lines' # 0 /\ DOMAIN told' = 1..lines'
      /\ told'[lines'] = w /\ \A l \in 1..lines : told'[l] = told[l] /\ l \in DOMAIN told
      /\ DOMAIN told' = (1..lines) \cup {lines'}
  BY <1>0, <1>a
<1>2. \A l : RunsOf(l)' = RunsOf(l)
  BY DEF RunsOf
<1>3. RunsOf(lines') = {}
  <2>1. DOMAIN ran = 1..Len(ran)
    BY DEF ReportInv
  <2> QED
    BY <2>1 DEF ReportInv, RunsOf
<1>4. ReportTrue'
  <2>1. ASSUME NEW l \in DOMAIN told'
        PROVE  /\ told'[l] \in {"nothing", "switched"} => RunsOf(l)' = {}
               /\ told'[l] = "done" => RunsOf(l)' # {}
               /\ told'[l] = "failed" /\ ~Faulty => RunsOf(l)' = {}
               /\ Cardinality(RunsOf(l)') <= IF Faulty THEN 2 ELSE 1
    <3>1. CASE l = lines'
      <4>1. RunsOf(l)' = {} /\ told'[l] = w
        BY <1>1, <1>2, <1>3, <3>1
      <4>2. Cardinality({}) = 0
        BY FS_EmptySet
      <4> QED
        BY <4>1, <4>2
    <3>2. CASE l \in 1..lines
      BY <1>1, <1>2, <3>2 DEF ReportInv, ReportTrue
    <3> QED
      BY <1>1, <2>1, <3>1, <3>2
  <2> QED
    BY <2>1 DEF ReportTrue
<1>5. \A n \in 1..Len(ran) : ran[n].line \in 1..lines'
  BY DEF ReportInv
<1> HIDE DEF ReportTrue
<1>6. ttyStep' \in {"confirm", "run"} => \A l : l = lines' => RunsOf(l)' = {}
  BY <1>2, <1>3
<1> QED
  BY <1>0, <1>1, <1>4, <1>5, <1>6 DEF ReportInv

(* An attempt ends: with the word the terminal says, or with another attempt. *)
LEMMA AttemptEnds ==
    ASSUME ReportInv, ttyStep \in {"run", "retry"}, lines' = lines, Executed \/ ran' = ran,
           ttyStep' = "prompt", "line" \in DOMAIN running', NEW w \in Words,
           told' = [told EXCEPT ![running.line] = w],
           w = "done" => Executed, w \in {"nothing", "switched"} => ran' = ran /\ ttyStep = "run",
           w = "failed" /\ ~Faulty => ran' = ran, w # "running"
    PROVE  ReportInv'
<1>1. /\ lines \in Nat /\ told \in Seq(Words) /\ Len(told) = lines /\ lines \in 1..lines /\ running.line = lines
      /\ Len(ran) \in Nat /\ ttyStep # "prompt" /\ DOMAIN ran = 1..Len(ran)
  BY DEF ReportInv
<1>2. told' \in Seq(Words) /\ Len(told') = lines /\ told'[lines] = w /\ DOMAIN told' = 1..lines
      /\ \A l \in 1..lines : l # lines => told'[l] = told[l] /\ l \in DOMAIN told
  BY <1>1
<1>3. /\ Cardinality(RunsOf(lines)) \in Nat
      /\ Cardinality(RunsOf(lines)) <= IF Faulty THEN 1 ELSE 0
      /\ ttyStep = "run" \/ ~Faulty => RunsOf(lines) = {}
  <2>1. Cardinality(RunsOf(lines)) \in Nat
    BY RunsAreFinite DEF ReportInv
  <2>2. Cardinality({}) = 0
    BY FS_EmptySet
  <2>3. CASE ttyStep = "run"
    <3>1. RunsOf(lines) = {}
      BY <2>3 DEF ReportInv
    <3>2. Cardinality(RunsOf(lines)) = 0
      BY <2>2, <3>1
    <3>3. 0 <= IF Faulty THEN 1 ELSE 0
      OBVIOUS
    <3> QED
      BY <2>1, <3>1, <3>2, <3>3
  <2>4. CASE ttyStep = "retry"
    BY <2>1, <2>4 DEF ReportInv
  <2> QED
    BY <2>3, <2>4
<1>4. /\ Len(ran') \in Nat /\ ran' = [n \in 1..Len(ran') |-> ran'[n]]
      /\ \A n \in 1..Len(ran') : ran'[n].line \in 1..lines
      /\ \A l : l # lines => RunsOf(l)' = RunsOf(l)
  <2>1. CASE Executed
    BY <1>1, <2>1, RunsAfter
  <2>2. CASE ran' = ran
    BY <1>1, <2>2 DEF ReportInv, RunsOf
  <2> QED
    BY <2>1, <2>2
<1>5. ASSUME NEW l, l = lines
      PROVE  /\ w \in {"nothing", "switched"} => RunsOf(l)' = {}
             /\ w = "done" => RunsOf(l)' # {}
             /\ w = "failed" /\ ~Faulty => RunsOf(l)' = {}
             /\ Cardinality(RunsOf(l)') <= IF Faulty THEN 2 ELSE 1
  <2>1. ran' = ran => RunsOf(l)' = RunsOf(l)
    BY DEF RunsOf
  <2>2. Executed => RunsOf(l)' # {} /\ Cardinality(RunsOf(l)') = Cardinality(RunsOf(l)) + 1
    BY <1>1, <1>5, RunsAfter
  <2> QED
    BY <1>3, <1>5, <2>1, <2>2
<1>6. ReportTrue'
  <2>1. ASSUME NEW l \in DOMAIN told'
        PROVE  /\ told'[l] \in {"nothing", "switched"} => RunsOf(l)' = {}
               /\ told'[l] = "done" => RunsOf(l)' # {}
               /\ told'[l] = "failed" /\ ~Faulty => RunsOf(l)' = {}
               /\ Cardinality(RunsOf(l)') <= IF Faulty THEN 2 ELSE 1
    <3>1. CASE l = lines
      BY <1>2, <1>5, <3>1
    <3>2. CASE l # lines
      BY <1>2, <1>4, <2>1, <3>2 DEF ReportInv, ReportTrue
    <3> QED
      BY <3>1, <3>2
  <2> QED
    BY <2>1 DEF ReportTrue
<1> QED
  BY <1>1, <1>2, <1>4, <1>6 DEF ReportInv

LEMMA ReportStep == ReportInv /\ [ConNext]_conVars => ReportInv'
<1> SUFFICES ASSUME ReportInv, [ConNext]_conVars PROVE ReportInv'
  OBVIOUS
<1>0. "line" \in DOMAIN running /\ ttyStep \in {"prompt", "confirm", "run", "retry"}
  BY DEF ReportInv
<1>1. CASE \E n \in DbNames : UseMeta(n)
  <2>1. Entered
    BY <1>0, <1>1 DEF UseMeta, AtPrompt, NoReport, Reported, Entered
  <2> QED
    BY <2>1, LineEntered
<1>2. CASE \E t \in Texts : Type(t) \/ RunFile(t) \/ Buffer(t)
  <2>1. Entered
    BY <1>0, <1>2 DEF Type, RunFile, Buffer, AtPrompt, NoReport, Reported, Job, Entered
  <2> QED
    BY <2>1, LineEntered
<1>3. CASE (\E by \in {"again", "copy"} : RunBuffer(by)) \/ Buffer(NoText)
  <2>1. Entered
    BY <1>0, <1>3 DEF RunBuffer, Buffer, AtPrompt, NoReport, Reported, Job, Entered
  <2> QED
    BY <2>1, LineEntered
<1>4. CASE (\E t \in Texts, ok \in BOOLEAN : AiAsk(t, ok)) \/ AiClear
  <2>1. Entered
    BY <1>0, <1>4 DEF AiAsk, AiClear, AtPrompt, NoReport, Reported, Entered
  <2> QED
    BY <2>1, LineEntered
<1>5. ASSUME NEW yes \in BOOLEAN, Answer(yes)
      PROVE  ReportInv'
  <2>1. /\ ttyStep = "confirm" /\ UNCHANGED <<ran, lines>>
        /\ ttyStep' = IF yes THEN "run" ELSE "prompt"
        /\ running' = IF yes THEN [running EXCEPT !.asked = TRUE] ELSE Idle
        /\ told' = [told EXCEPT ![lines] = IF yes THEN @ ELSE "nothing"]
    BY <1>5 DEF Answer
  <2>2. CASE yes
    <3>1. "line" \in DOMAIN running' /\ running'.line = running.line
      BY <1>0, <2>1, <2>2
    <3>2. told' = told
      BY <2>1, <2>2 DEF ReportInv
    <3>4. ttyStep' = "run" /\ \A l : RunsOf(l)' = RunsOf(l)
      BY <2>1, <2>2 DEF RunsOf
    <3>3. ReportTrue'
      BY <3>2, <3>4 DEF ReportInv, ReportTrue
    <3> QED
      BY <2>1, <3>1, <3>2, <3>3, <3>4 DEF ReportInv
  <2>3. CASE ~yes
    <3>1. "line" \in DOMAIN running' /\ ttyStep' = "prompt"
      BY <2>1, <2>3 DEF Idle
    <3>2. /\ lines \in 1..lines /\ told' \in Seq(Words) /\ Len(told') = lines /\ told'[lines] = "nothing"
          /\ DOMAIN told' = 1..lines /\ \A l \in 1..lines : l # lines => told'[l] = told[l] /\ l \in DOMAIN told
      BY <2>1, <2>3 DEF ReportInv, Words
    <3>3. \A l : RunsOf(l)' = RunsOf(l)
      BY <2>1 DEF RunsOf
    <3>4. RunsOf(lines) = {} /\ Cardinality({}) = 0
      BY <2>1, FS_EmptySet DEF ReportInv
    <3>5. ReportTrue'
      BY <3>2, <3>3, <3>4 DEF ReportTrue, ReportInv
    <3> QED
      BY <2>1, <3>1, <3>2, <3>5 DEF ReportInv
  <2> QED
    BY <2>2, <2>3
<1>6. CASE RunUse
  <2>1. "line" \in DOMAIN running' /\ {"failed", "switched"} \subseteq Words
    BY <1>6 DEF RunUse, Done, Idle, Words
  <2> QED
    BY <1>6, <2>1, AttemptEnds DEF RunUse, Done
<1>7. CASE RunOk
  <2>1. "line" \in DOMAIN running' /\ "done" \in Words
    BY <1>7 DEF RunOk, Done, Idle, Words
  <2> QED
    BY <1>7, <2>1, AttemptEnds DEF RunOk, Runnable, Done
<1>8. CASE RunFails
  <2>1. "line" \in DOMAIN running' /\ "failed" \in Words /\ (ttyStep = "retry" => Faulty)
    BY <1>8 DEF RunFails, Done, Idle, Words, ReportInv
  <2> QED
    BY <1>8, <2>1, AttemptEnds DEF RunFails, Runnable, Done
<1>9. CASE RunBreaks
  <2>1. ttyStep = "run" /\ Faulty /\ (Executed \/ ran' = ran) /\ lines' = lines /\ Reconnect
    BY <1>9 DEF RunBreaks
  <2>2. CASE ttyStep' = "retry" /\ UNCHANGED <<running, told>>
    <3>1. /\ Len(ran') \in Nat /\ ran' = [n \in 1..Len(ran') |-> ran'[n]]
          /\ \A n \in 1..Len(ran') : ran'[n].line \in 1..lines
          /\ \A l : l # lines => RunsOf(l)' = RunsOf(l)
          /\ \A l : l = lines => Cardinality(RunsOf(l)') \in {0, 1}
      <4>1. RunsOf(lines) = {} /\ Cardinality({}) = 0
        BY <2>1, FS_EmptySet DEF ReportInv
      <4>2. CASE Executed
        <5>1. ttyStep # "prompt"
          BY <2>1
        <5>2. \A l : l = lines => Cardinality(RunsOf(l)) = 0
          BY <4>1
        <5>3. /\ Len(ran') = Len(ran) + 1 /\ ran' = [n \in 1..Len(ran') |-> ran'[n]]
              /\ \A n \in 1..Len(ran') : ran'[n].line \in 1..lines
              /\ \A l : IF l = lines
                      THEN RunsOf(l)' # {} /\ Cardinality(RunsOf(l)') = Cardinality(RunsOf(l)) + 1
                      ELSE RunsOf(l)' = RunsOf(l)
          BY <4>2, <5>1, RunsAfter
        <5> QED
          BY <5>2, <5>3 DEF ReportInv
      <4>3. CASE ran' = ran
        <5>1. \A l : RunsOf(l)' = RunsOf(l)
          BY <4>3 DEF RunsOf
        <5>2. \A l : l = lines => Cardinality(RunsOf(l)') = 0
          BY <4>1, <5>1
        <5> QED
          BY <4>3, <5>1, <5>2 DEF ReportInv
      <4> QED
        BY <2>1, <4>2, <4>3
    <3>2. ASSUME NEW l \in DOMAIN told'
          PROVE  /\ told'[l] \in {"nothing", "switched"} => RunsOf(l)' = {}
                 /\ told'[l] = "done" => RunsOf(l)' # {}
                 /\ told'[l] = "failed" /\ ~Faulty => RunsOf(l)' = {}
                 /\ Cardinality(RunsOf(l)') <= IF Faulty THEN 2 ELSE 1
      <4>1. told' = told /\ told[lines] = "running" /\ l \in DOMAIN told /\ ReportTrue
        BY <2>1, <2>2, <3>2 DEF ReportInv
      <4>2. CASE l = lines
        <5>1. told'[l] = "running" /\ Cardinality(RunsOf(l)') \in {0, 1} /\ Faulty
          BY <2>1, <3>1, <4>1, <4>2
        <5> QED
          BY <5>1
      <4>3. CASE l # lines
        BY <3>1, <4>1, <4>3 DEF ReportTrue
      <4> QED
        BY <4>2, <4>3
    <3>3. ReportTrue'
      BY <3>2 DEF ReportTrue
    <3>4. ttyStep' # "prompt" => running'.line = lines' /\ lines' # 0 /\ told'[lines'] = "running"
      BY <2>1, <2>2 DEF ReportInv
    <3> QED
      BY <2>1, <2>2, <3>1, <3>3, <3>4 DEF ReportInv
  <2>3. CASE Done("failed")
    <3>1. "line" \in DOMAIN running' /\ "failed" \in Words
      BY <2>3 DEF Done, Idle, Words
    <3> QED
      BY <2>1, <2>3, <3>1, AttemptEnds DEF Done
  <2>4. (ttyStep' = "retry" /\ running' = running /\ told' = told) \/ Done("failed")
    BY <2>1 DEF Reconnect
  <2> QED
    BY <2>2, <2>3, <2>4
<1>10. CASE UNCHANGED conVars
  <2>1. UNCHANGED <<ttyStep, running, ran, told, lines>>
    BY <1>10 DEF conVars
  <2>2. /\ \A l : RunsOf(l)' = RunsOf(l)
        /\ \A l : l = lines => RunsOf(l)' = RunsOf(lines)
    BY <2>1 DEF RunsOf
  <2>3. ReportTrue'
    BY <2>1, <2>2 DEF ReportInv, ReportTrue
  <2> QED
    BY <2>1, <2>2, <2>3 DEF ReportInv
<1> QED
  BY <1>1, <1>2, <1>3, <1>4, <1>5, <1>6, <1>7, <1>8, <1>9, <1>10 DEF ConNext

(* execute: a line reported as done was executed, one that was refused or   *)
(* switched the database was not; a line runs at most twice, and again, or   *)
(* in spite of a reported failure, only where connections break.            *)
THEOREM ReportsAreTrue == ConSpec => []ReportTrue
<1>1. ConInit => ReportInv
  BY DEF ConInit, ReportInv, ReportTrue, RunsOf, Idle, Words
<1>2. ReportInv => ReportTrue
  BY DEF ReportInv
<1> QED
  BY <1>1, <1>2, ReportStep, PTL DEF ConSpec
-----------------------------------------------------------------------------
(* The settings pages, for any forms, provider lists and numbers of savers  *)
(* and readers.  calm is only true of a save that no other one overlaps, so *)
(* a single saver carries what has to be in force at its end.               *)

SaverAt == {"idle", "write", "memory", "dirs", "filter"}

(* What a save that nothing disturbed has made of its form so far.          *)
OnTheWay(s) ==
    LET form == saver[s].form
        merged == saver[s].merged
    IN  /\ merged.dirs = form.dirs /\ merged.allow = form.allow
        /\ form.key # Mask => merged.key = form.key
        /\ saver[s].at \in {"write", "memory"} => (form.key = Mask => merged.key = typed)
        /\ saver[s].at = "memory" => file = merged
        /\ saver[s].at \in {"dirs", "filter"} => file = merged /\ memory = merged /\ merged.key = typed
        /\ saver[s].at = "filter" => dirs = merged.dirs

SaveInv ==
    /\ saver = [s \in Savers |-> [form |-> saver[s].form, merged |-> saver[s].merged, at |-> saver[s].at]]
    /\ \A s \in Savers : saver[s].at \in SaverAt
    /\ calm => \A s, t \in Savers : saver[s].at # "idle" /\ saver[t].at # "idle" => s = t
    /\ calm => \A s \in Savers : saver[s].at # "idle" => OnTheWay(s)
    /\ SavedIsInForce

(* One saver moves and the others stay where they are.                      *)
Moves(s, form, merged, pos) ==
    /\ saver' = [t \in Savers |-> IF t = s THEN [form |-> form, merged |-> merged, at |-> pos] ELSE saver[t]]
    /\ saver'[s].form = form /\ saver'[s].merged = merged /\ saver'[s].at = pos

LEMMA SaverMoves ==
    ASSUME SaveInv, NEW s \in Savers, NEW form, NEW merged, NEW pos
    PROVE  /\ saver' = [saver EXCEPT ![s] = [form |-> form, merged |-> merged, at |-> pos]]
                => Moves(s, form, merged, pos)
           /\ Step(s, pos) => Moves(s, saver[s].form, saver[s].merged, pos)
           /\ Leave(s) => Moves(s, {}, {}, "idle")
<1>1. DOMAIN saver = Savers
  BY DEF SaveInv
<1>2. [saver[s] EXCEPT !.at = pos] = [form |-> saver[s].form, merged |-> saver[s].merged, at |-> pos]
  BY DEF SaveInv
<1>3. ASSUME NEW f, NEW m, NEW a, saver' = [saver EXCEPT ![s] = [form |-> f, merged |-> m, at |-> a]]
      PROVE  Moves(s, f, m, a)
  <2> DEFINE new == [form |-> f, merged |-> m, at |-> a]
  <2>1. new.form = f /\ new.merged = m /\ new.at = a
    OBVIOUS
  <2>2. saver' = [saver EXCEPT ![s] = new]
    BY <1>3
  <2> HIDE DEF new
  <2>3. saver' = [t \in Savers |-> IF t = s THEN new ELSE saver[t]] /\ saver'[s] = new
    BY <1>1, <2>2
  <2> QED
    BY <2>1, <2>3 DEF Moves, new
<1>4. Step(s, pos) => Moves(s, saver[s].form, saver[s].merged, pos)
  <2>1. [saver EXCEPT ![s].at = pos] = [saver EXCEPT ![s] = [saver[s] EXCEPT !.at = pos]]
    OBVIOUS
  <2> QED
    BY <1>2, <1>3, <2>1 DEF Step
<1>5. Leave(s) => Moves(s, {}, {}, "idle")
  BY <1>3 DEF Leave, NoSave
<1> QED
  BY <1>3, <1>4, <1>5

(* What is left to show of a move: the new place, and what holds there.     *)
LEMMA MoveKeeps ==
    ASSUME SaveInv, NEW s \in Savers, NEW form, NEW merged, NEW pos \in SaverAt,
           Moves(s, form, merged, pos),
           calm' => /\ \A t \in Savers \ {s} : saver[t].at = "idle"
                    /\ pos # "idle" => OnTheWay(s)'
                    /\ pos = "idle" => /\ file' = memory' /\ dirs' = memory'.dirs /\ filter' = memory'.allow
                                        /\ memory'.key = typed'
    PROVE  SaveInv'
<1>1. /\ saver' = [t \in Savers |-> [form |-> saver'[t].form, merged |-> saver'[t].merged, at |-> saver'[t].at]]
      /\ \A t \in Savers : saver'[t].at \in SaverAt
      /\ \A t \in Savers : t # s => saver'[t] = saver[t]
      /\ saver'[s].at = pos
  BY DEF SaveInv, Moves
<1>2. calm' => \A t, u \in Savers : saver'[t].at # "idle" /\ saver'[u].at # "idle" => t = u
  BY <1>1
<1>3. calm' => \A t \in Savers : saver'[t].at # "idle" => OnTheWay(t)'
  <2> SUFFICES ASSUME calm', NEW t \in Savers, saver'[t].at # "idle" PROVE OnTheWay(t)'
    OBVIOUS
  <2>1. t = s
    BY <1>1
  <2> QED
    BY <1>1, <2>1
<1>4. SavedIsInForce'
  BY <1>1 DEF SavedIsInForce, Saving
<1> QED
  BY <1>1, <1>2, <1>3, <1>4 DEF SaveInv

LEMMA SaveStep == SaveInv /\ [SettingsNext]_settingVars => SaveInv'
<1> SUFFICES ASSUME SaveInv, [SettingsNext]_settingVars PROVE SaveInv'
  OBVIOUS
<1>1. ASSUME UNCHANGED configVars PROVE SaveInv'
  BY <1>1 DEF configVars, SaveInv, SavedIsInForce, Saving, OnTheWay
<1>2. ASSUME NEW s \in Savers, Submit(s) PROVE SaveInv'
  <2>1. PICK form \in Forms : /\ saver' = [saver EXCEPT ![s] = [form |-> form, merged |-> Merged(form), at |-> "write"]]
                              /\ calm' = (Saving = {} /\ (calm \/ typed = memory.key \/ form.key # Mask))
    BY <1>2 DEF Submit
  <2>2. UNCHANGED <<file, memory, dirs, filter, typed>> /\ saver[s].at = "idle" /\ "write" \in SaverAt
    BY <1>2 DEF Submit, SaverAt
  <2>3. Moves(s, form, Merged(form), "write")
    BY <2>1, SaverMoves
  <2>4. /\ Merged(form).dirs = form.dirs /\ Merged(form).allow = form.allow
        /\ form.key # Mask => Merged(form).key = form.key
        /\ form.key = Mask => Merged(form).key = memory.key
    <3>1. DOMAIN form = {"allow", "dirs", "key"}
      BY SettingsAssumption
    <3> QED
      BY <3>1 DEF Merged
  <2>5. calm' => /\ \A t \in Savers \ {s} : saver[t].at = "idle"
                 /\ form.key = Mask => memory.key = typed
    BY <2>1 DEF Saving, SaveInv, SavedIsInForce
  <2>6. calm' => OnTheWay(s)'
    BY <2>2, <2>3, <2>4, <2>5 DEF OnTheWay, Moves
  <2> QED
    BY <2>2, <2>3, <2>5, <2>6, MoveKeeps
<1>3. ASSUME NEW s \in Savers, saver[s].at # "idle", calm PROVE OnTheWay(s) /\ \A t \in Savers \ {s} : saver[t].at = "idle"
  BY <1>3 DEF SaveInv
<1>4. ASSUME NEW s \in Savers, UNCHANGED <<memory, dirs, filter, typed>>, Give(s) PROVE SaveInv'
  <2>1. Moves(s, {}, {}, "idle") /\ ~calm' /\ "idle" \in SaverAt
    BY <1>4, SaverMoves DEF Give, SaverAt
  <2> QED
    BY <2>1, MoveKeeps
<1>5. ASSUME NEW s \in Savers, WriteConfig(s) PROVE SaveInv'
  <2>1. saver[s].at = "write" /\ UNCHANGED <<memory, dirs, filter, typed>> /\ "memory" \in SaverAt
    BY <1>5 DEF WriteConfig, SaverAt
  <2>2. CASE file' = saver[s].merged /\ Step(s, "memory") /\ UNCHANGED calm
    <3>1. Moves(s, saver[s].form, saver[s].merged, "memory")
      BY <2>2, SaverMoves
    <3>2. calm' => OnTheWay(s)' /\ \A t \in Savers \ {s} : saver[t].at = "idle"
      BY <1>3, <2>1, <2>2, <3>1 DEF OnTheWay, Moves
    <3> QED
      BY <2>1, <3>1, <3>2, MoveKeeps
  <2> QED
    BY <1>4, <1>5, <2>1, <2>2 DEF WriteConfig
<1>6. ASSUME NEW s \in Savers, SetMemory(s) PROVE SaveInv'
  <2>1. /\ saver[s].at = "memory" /\ UNCHANGED <<file, dirs, filter, calm>> /\ "dirs" \in SaverAt
        /\ memory' = saver[s].merged /\ Step(s, "dirs")
        /\ typed' = IF saver[s].form.key = Mask THEN typed ELSE saver[s].form.key
    BY <1>6 DEF SetMemory, SaverAt
  <2>2. Moves(s, saver[s].form, saver[s].merged, "dirs")
    BY <2>1, SaverMoves
  <2>3. calm' => OnTheWay(s)' /\ \A t \in Savers \ {s} : saver[t].at = "idle"
    BY <1>3, <2>1, <2>2 DEF OnTheWay, Moves
  <2> QED
    BY <2>1, <2>2, <2>3, MoveKeeps
<1>7. ASSUME NEW s \in Savers, UpdateDirs(s) PROVE SaveInv'
  <2>1. saver[s].at = "dirs" /\ UNCHANGED <<file, memory, filter, typed>> /\ "filter" \in SaverAt
    BY <1>7 DEF UpdateDirs, SaverAt
  <2>2. CASE dirs' = saver[s].merged.dirs /\ Step(s, "filter") /\ UNCHANGED calm
    <3>1. Moves(s, saver[s].form, saver[s].merged, "filter")
      BY <2>2, SaverMoves
    <3>2. calm' => OnTheWay(s)' /\ \A t \in Savers \ {s} : saver[t].at = "idle"
      BY <1>3, <2>1, <2>2, <3>1 DEF OnTheWay, Moves
    <3> QED
      BY <2>1, <3>1, <3>2, MoveKeeps
  <2> QED
    BY <1>4, <1>7, <2>1, <2>2 DEF UpdateDirs
<1>8. ASSUME NEW s \in Savers, SetFilter(s) PROVE SaveInv'
  <2>1. /\ saver[s].at = "filter" /\ UNCHANGED <<file, memory, dirs, calm, typed>> /\ "idle" \in SaverAt
        /\ filter' = saver[s].form.allow /\ Leave(s)
    BY <1>8 DEF SetFilter, SaverAt
  <2>2. Moves(s, {}, {}, "idle")
    BY <2>1, SaverMoves
  <2>3. calm' => /\ \A t \in Savers \ {s} : saver[t].at = "idle"
                 /\ file' = memory' /\ dirs' = memory'.dirs /\ filter' = memory'.allow /\ memory'.key = typed'
    BY <1>3, <2>1 DEF OnTheWay
  <2> QED
    BY <2>1, <2>2, <2>3, MoveKeeps
<1>9. CASE Clock \/ \E c \in AuthCalls : Enter(c) \/ Admit(c) \/ Judge(c)
  BY <1>1, <1>9 DEF Clock, Enter, Admit, Judge, OnlyLimit
<1>10. CASE \/ \E e \in Editors : WriteProviders(e) \/ ResetOnce(e)
            \/ \E r \in Readers : Load(r) \/ Loaded(r)
  BY <1>1, <1>10 DEF WriteProviders, ResetOnce, Load, Loaded, OnlyProviders
<1>11. CASE UNCHANGED settingVars
  BY <1>1, <1>11 DEF settingVars
<1> QED
  BY <1>2, <1>5, <1>6, <1>7, <1>8, <1>9, <1>10, <1>11 DEF SettingsNext

LEMMA SaveStart == SettingsInit => SaveInv
<1> SUFFICES ASSUME SettingsInit PROVE SaveInv
  OBVIOUS
<1>1. saver = [s \in Savers |-> NoSave]
  BY DEF SettingsInit
<1>2. /\ saver = [s \in Savers |-> [form |-> saver[s].form, merged |-> saver[s].merged, at |-> saver[s].at]]
      /\ \A s \in Savers : saver[s].at = "idle"
  BY <1>1 DEF NoSave
<1>3. SavedIsInForce
  BY DEF SettingsInit, SavedIsInForce
<1> QED
  BY <1>2, <1>3 DEF SaveInv, SaverAt

(* The list of providers.  OneInside: nobody is inside an earlier Once.  A   *)
(* reset that meets a load leaves one inside for good, or ends the process, so *)
(* that a state at rest has never been overtaken.                           *)
Inside(r) == reader[r].at = "inside"
OneInside == /\ provLock => \A q, r \in Readers : Inside(q) /\ Inside(r) => q = r
             /\ ~provLock => \A r \in Readers : ~Inside(r)
NoSaver == \A e \in Editors : editor[e].at = "idle"

ProvInv ==
    /\ reader = [r \in Readers |-> reader[r]] /\ editor = [e \in Editors |-> editor[e]]
    /\ \A r \in Readers : reader[r].at \in {"idle", "inside"}
    /\ \A e \in Editors : /\ DOMAIN editor[e] = {"at", "list"} /\ editor[e].at \in {"idle", "reset"}
    /\ provFile \in Lists \cup {<<>>} /\ provDone \in BOOLEAN /\ provLock \in BOOLEAN /\ up \in BOOLEAN
    /\ provLock => \E r \in Readers : Inside(r)
    /\ up /\ OneInside /\ NoSaver =>
         /\ \A r \in Readers : Inside(r) => reader[r].list = MergeProviders(provFile)
         /\ provDone => provCache = MergeProviders(provFile)

LEMMA EditorMoves ==
    ASSUME ProvInv, NEW e \in Editors, NEW pos, Now(e, pos)
    PROVE  /\ editor' = [d \in Editors |-> editor'[d]]
           /\ DOMAIN editor'[e] = {"at", "list"} /\ editor'[e].at = pos
           /\ \A d \in Editors \ {e} : editor'[d] = editor[d]
<1>1. DOMAIN editor = Editors /\ DOMAIN editor[e] = {"at", "list"}
  BY DEF ProvInv
<1>2. [editor EXCEPT ![e].at = pos] = [editor EXCEPT ![e] = [editor[e] EXCEPT !.at = pos]]
  OBVIOUS
<1> DEFINE new == [editor[e] EXCEPT !.at = pos]
<1>3. DOMAIN new = {"at", "list"} /\ new.at = pos
  BY <1>1
<1>4. editor' = [editor EXCEPT ![e] = new]
  BY <1>2 DEF Now
<1> HIDE DEF new
<1> QED
  BY <1>1, <1>3, <1>4

LEMMA ProvStep == ProvInv /\ [SettingsNext]_settingVars => ProvInv'
<1> SUFFICES ASSUME ProvInv, [SettingsNext]_settingVars PROVE ProvInv'
  OBVIOUS
<1>1. ASSUME UNCHANGED provVars PROVE ProvInv'
  BY <1>1 DEF provVars, ProvInv, OneInside, NoSaver, Inside
<1>2. ASSUME NEW e \in Editors, WriteProviders(e) PROVE ProvInv'
  <2>1. /\ Now(e, "reset") /\ provFile' \in Lists
        /\ UNCHANGED <<provCache, provDone, provLock, reader, up>>
    BY <1>2 DEF WriteProviders
  <2>2. /\ editor' = [d \in Editors |-> editor'[d]]
        /\ DOMAIN editor'[e] = {"at", "list"} /\ editor'[e].at = "reset"
        /\ \A d \in Editors \ {e} : editor'[d] = editor[d]
    BY <2>1, EditorMoves
  <2>3. ~NoSaver'
    BY <2>2 DEF NoSaver
  <2> QED
    BY <2>1, <2>2, <2>3 DEF ProvInv, Inside
<1>3. ASSUME NEW e \in Editors, ResetOnce(e) PROVE ProvInv'
  <2>1. /\ Now(e, "idle") /\ provDone' = FALSE /\ provLock' = FALSE
        /\ UNCHANGED <<provFile, provCache, reader, up>>
    BY <1>3 DEF ResetOnce
  <2>2. /\ editor' = [d \in Editors |-> editor'[d]]
        /\ DOMAIN editor'[e] = {"at", "list"} /\ editor'[e].at = "idle"
        /\ \A d \in Editors \ {e} : editor'[d] = editor[d]
    BY <2>1, EditorMoves
  <2>3. OneInside' => \A r \in Readers : ~Inside(r)'
    BY <2>1 DEF OneInside, Inside
  <2> QED
    BY <2>1, <2>2, <2>3 DEF ProvInv, Inside
<1>4. ASSUME NEW r \in Readers, Load(r) PROVE ProvInv'
  <2>1. /\ reader[r].at = "idle" /\ ~provDone /\ ~provLock /\ provLock' = TRUE
        /\ UNCHANGED <<provFile, provCache, provDone, editor, up>>
        /\ reader' = [reader EXCEPT ![r] = [at |-> "inside", list |-> MergeProviders(provFile)]]
    BY <1>4 DEF Load
  <2>2. /\ reader' = [q \in Readers |-> reader'[q]]
        /\ reader'[r].at = "inside" /\ reader'[r].list = MergeProviders(provFile)
        /\ \A q \in Readers \ {r} : reader'[q] = reader[q]
    BY <2>1 DEF ProvInv
  <2>3. OneInside' => \A q \in Readers \ {r} : ~Inside(q)'
    BY <2>1, <2>2 DEF OneInside, Inside
  <2> QED
    BY <2>1, <2>2, <2>3 DEF ProvInv, Inside
<1>5. ASSUME NEW r \in Readers, Loaded(r) PROVE ProvInv'
  <2>1. /\ reader[r].at = "inside" /\ provCache' = reader[r].list /\ provDone' = TRUE
        /\ provLock' = FALSE /\ up' = provLock /\ UNCHANGED <<provFile, editor>>
        /\ reader' = [reader EXCEPT ![r] = NoList] /\ up
    BY <1>5 DEF Loaded, OnlyProviders, Part
  <2>2. /\ reader' = [q \in Readers |-> reader'[q]] /\ reader'[r].at = "idle"
        /\ \A q \in Readers \ {r} : reader'[q] = reader[q]
    BY <2>1 DEF ProvInv, NoList
  <2>3. up' /\ OneInside' => OneInside /\ \A q \in Readers : ~Inside(q)'
    BY <2>1, <2>2 DEF OneInside, Inside
  <2>4. up' /\ OneInside' /\ NoSaver' => reader[r].list = MergeProviders(provFile)
    BY <2>1, <2>3 DEF ProvInv, NoSaver, Inside
  <2> QED
    BY <2>1, <2>2, <2>3, <2>4 DEF ProvInv, Inside, NoSaver
<1>6. CASE Clock \/ \E c \in AuthCalls : Enter(c) \/ Admit(c) \/ Judge(c)
  BY <1>1, <1>6 DEF Clock, Enter, Admit, Judge, OnlyLimit
<1>7. CASE \E s \in Savers : Submit(s) \/ WriteConfig(s) \/ SetMemory(s) \/ UpdateDirs(s) \/ SetFilter(s)
  BY <1>1, <1>7 DEF Submit, WriteConfig, SetMemory, UpdateDirs, SetFilter, OnlyConfig
<1>8. CASE UNCHANGED settingVars
  BY <1>1, <1>8 DEF settingVars
<1> QED
  BY <1>2, <1>3, <1>4, <1>5, <1>6, <1>7, <1>8 DEF SettingsNext

LEMMA ProvStart == SettingsInit => ProvInv
<1> SUFFICES ASSUME SettingsInit PROVE ProvInv
  OBVIOUS
<1>1. reader = [r \in Readers |-> NoList] /\ editor = [e \in Editors |-> NoList]
  BY DEF SettingsInit
<1>2. /\ reader = [r \in Readers |-> reader[r]] /\ editor = [e \in Editors |-> editor[e]]
      /\ \A r \in Readers : reader[r].at = "idle"
      /\ \A e \in Editors : DOMAIN editor[e] = {"at", "list"} /\ editor[e].at = "idle"
  BY <1>1 DEF NoList
<1> QED
  BY <1>2 DEF SettingsInit, ProvInv, Inside

(* A set of numbers with 0 and with every successor is all of them: its      *)
(* complement would have a least number, by the well-foundedness of the       *)
(* intervals from 0.                                                         *)
LEMMA NumberInduction ==
    ASSUME NEW S, 0 \in S, \A n \in Nat : n \in S => n + 1 \in S
    PROVE  Nat \subseteq S
<1> SUFFICES ASSUME NEW bad \in Nat, bad \notin S PROVE FALSE
  OBVIOUS
<1> DEFINE T == {0 .. n : n \in Nat \ S}
<1>1. T \subseteq FiniteSubsetsOf(Nat) /\ T # {}
  <2>1. ASSUME NEW n \in Nat
        PROVE  0 .. n \in FiniteSubsetsOf(Nat)
    BY FS_Interval DEF FiniteSubsetsOf
  <2> QED
    BY <2>1
<1>2. PICK x \in T : \A y \in T : ~(<<y, x>> \in StrictSubsetOrdering(Nat))
  BY <1>1, FS_StrictSubsetOrderingWellFounded, WFMin
<1>3. PICK n \in Nat \ S : x = 0 .. n
  OBVIOUS
<1>4. n # 0 /\ n - 1 \in Nat /\ n - 1 \notin S
  <2>1. n # 0 /\ n - 1 \in Nat /\ (n - 1) + 1 = n
    BY <1>3
  <2> QED
    BY <1>3, <2>1
<1>5. 0 .. (n - 1) \in T /\ 0 .. (n - 1) \in SUBSET Nat /\ 0 .. n \in SUBSET Nat
  BY <1>4
<1>6. 0 .. (n - 1) \subseteq 0 .. n /\ n \in 0 .. n /\ n \notin 0 .. (n - 1)
  BY <1>4
<1>7. <<0 .. (n - 1), 0 .. n>> \in StrictSubsetOrdering(Nat)
  BY <1>5, <1>6 DEF StrictSubsetOrdering
<1> QED
  BY <1>2, <1>3, <1>5, <1>7

(* A loop of L turns, each one taking a value of V to another, has a          *)
(* sequence of values.                                                       *)
Runs(f, V, b, L, h) == f \in [0..L -> V] /\ f[0] = b /\ \A k \in 1..L : f[k] = h[k][f[k - 1]]

LEMMA LoopGoesOn ==
    ASSUME NEW V, NEW b \in V, NEW n \in Nat, NEW h, h[n + 1] \in [V -> V], NEW g, Runs(g, V, b, n, h)
    PROVE  \E f : Runs(f, V, b, n + 1, h)
<1>1. g \in [0..n -> V] /\ g[0] = b /\ \A k \in 1..n : g[k] = h[k][g[k - 1]]
  BY DEF Runs
<1> DEFINE next == h[n + 1][g[n]]
           f == [k \in 0..n + 1 |-> IF k = n + 1 THEN next ELSE g[k]]
<1>2. next \in V
  BY <1>1
<1>3. f \in [0..n + 1 -> V] /\ f[n + 1] = next /\ \A k \in 0..n : f[k] = g[k]
  BY <1>1, <1>2
<1> HIDE DEF f
<1>4. ASSUME NEW k \in 1..n + 1 PROVE f[k] = h[k][f[k - 1]]
  <2>1. CASE k = n + 1
    BY <1>3, <2>1
  <2>2. CASE k # n + 1
    <3>1. k \in 1..n /\ k \in 0..n /\ k - 1 \in 0..n
      BY <2>2
    <3> QED
      BY <1>1, <1>3, <3>1
  <2> QED
    BY <2>1, <2>2
<1>5. f[0] = b
  BY <1>1, <1>3
<1> QED
  BY <1>3, <1>4, <1>5 DEF Runs

LEMMA LoopRuns ==
    ASSUME NEW V, NEW b \in V, NEW L \in Nat, NEW h \in [1..L -> [V -> V]]
    PROVE  \E f : Runs(f, V, b, L, h)
<1> DEFINE S == {n \in Nat : n <= L => \E f : Runs(f, V, b, n, h)}
<1>1. 0 \in S
  <2> DEFINE f == [k \in 0..0 |-> b]
  <2>1. Runs(f, V, b, 0, h)
    BY DEF Runs
  <2> QED
    BY <2>1
<1>2. ASSUME NEW n \in Nat, n \in S PROVE n + 1 \in S
  <2>1. n + 1 \in Nat /\ (n + 1 <= L => n <= L /\ n + 1 \in 1..L)
    OBVIOUS
  <2>2. n + 1 <= L => \E f : Runs(f, V, b, n, h)
    BY <1>2, <2>1
  <2>3. n + 1 <= L => h[n + 1] \in [V -> V]
    BY <2>1
  <2>4. n + 1 <= L => \E f : Runs(f, V, b, n + 1, h)
    BY <2>2, <2>3, LoopGoesOn
  <2> QED
    BY <2>1, <2>4
<1> HIDE DEF S
<1>3. L \in S
  BY <1>1, <1>2, NumberInduction
<1> QED
  BY <1>3 DEF S

(* An element put before the last one of a list.                             *)
IsPutBeforeLast(new, list, id, n, S) ==
    /\ new \in Seq(S) /\ Len(new) = n + 1
    /\ new[n] = id /\ new[n + 1] = list[n]
    /\ \A i \in 1..n - 1 : new[i] = list[i]

LEMMA PutBeforeLast ==
    ASSUME NEW S, NEW list \in Seq(S), NEW id \in S, NEW n \in Nat \ {0}, Len(list) = n
    PROVE  IsPutBeforeLast(InsertAt(list, n, id), list, id, n, S)
<1> DEFINE a == SubSeq(list, 1, n - 1)
           z == SubSeq(list, n, n)
           front == a \o <<id>>
<1>1. InsertAt(list, n, id) = front \o z
  BY DEF InsertAt
<1>2. a \in Seq(S) /\ Len(a) = n - 1 /\ \A i \in 1..n - 1 : a[i] = list[i]
  OBVIOUS
<1>3. z \in Seq(S) /\ Len(z) = 1 /\ z[1] = list[n]
  OBVIOUS
<1> HIDE DEF a, z
<1>4. front \in Seq(S) /\ Len(front) = n /\ front[n] = id /\ \A i \in 1..n - 1 : front[i] = list[i]
  BY <1>2
<1> HIDE DEF front
<1>0. /\ front \o z \in Seq(S) /\ Len(front \o z) = Len(front) + Len(z)
      /\ \A i \in 1..Len(front) + Len(z) :
           (front \o z)[i] = IF i <= Len(front) THEN front[i] ELSE z[i - Len(front)]
  BY <1>3, <1>4, ConcatProperties, Zenon
<1>5. front \o z \in Seq(S) /\ Len(front \o z) = n + 1
  BY <1>0, <1>3, <1>4
<1>6. \A i \in 1..n : (front \o z)[i] = front[i]
  BY <1>3, <1>4
<1>7. (front \o z)[n + 1] = list[n]
  <2>1. n + 1 \in 1..n + 1 /\ ~(n + 1 <= n) /\ (n + 1) - n = 1
    OBVIOUS
  <2> QED
    BY <1>0, <1>3, <1>4, <2>1
<1> QED
  BY <1>1, <1>4, <1>5, <1>6, <1>7 DEF IsPutBeforeLast

(* Lists of different ids that end with "custom".                           *)
Orders(ids) == {list \in Seq(ids) : /\ list # <<>> /\ list[Len(list)] = Custom
                                    /\ \A i, j \in 1..Len(list) : list[i] = list[j] => i = j}

IsPlaced(new, list, id, ids) == new \in Orders(ids) /\ Range(new) = Range(list) \cup ({id} \ {""})

LEMMA PlaceKeepsOrder ==
    ASSUME NEW ids, NEW list \in Orders(ids), NEW id \in ids
    PROVE  IsPlaced(Place(list, id), list, id, ids)
<1>1. CASE id = "" \/ id \in Range(list)
  BY <1>1 DEF Place, IsPlaced
<1>2. CASE id # "" /\ id \notin Range(list)
  <2> DEFINE n == Len(list)
             new == InsertAt(list, n, id)
  <2>1. /\ list \in Seq(ids) /\ n \in Nat \ {0} /\ list[n] = Custom /\ DOMAIN list = 1..n /\ Len(list) = n
        /\ \A i, j \in 1..n : list[i] = list[j] => i = j
    BY DEF Orders
  <2> HIDE DEF n
  <2>2. (CHOOSE i \in DOMAIN list : list[i] = Custom) = n
    BY <2>1
  <2>3. Place(list, id) = new
    BY <1>2, <2>2 DEF Place
  <2>4. /\ new \in Seq(ids) /\ Len(new) = n + 1 /\ new[n] = id /\ new[n + 1] = Custom
        /\ \A i \in 1..n - 1 : new[i] = list[i]
    <3>1. list \in Seq(ids) /\ id \in ids /\ n \in Nat \ {0} /\ Len(list) = n /\ new = InsertAt(list, n, id)
      BY <2>1
    <3> HIDE DEF new
    <3>2. IsPutBeforeLast(new, list, id, n, ids)
      BY <3>1, PutBeforeLast
    <3> QED
      BY <2>1, <3>2 DEF IsPutBeforeLast
  <2> HIDE DEF new
  <2>5. \A i \in 1..n : list[i] # id
    BY <1>2, <2>1 DEF Range
  <2>6. ASSUME NEW i \in 1..n + 1, NEW j \in 1..n + 1, new[i] = new[j] PROVE i = j
    <3>1. /\ i \in 1..n - 1 \/ i = n \/ i = n + 1
          /\ j \in 1..n - 1 \/ j = n \/ j = n + 1
      BY <2>1
    <3>2. ASSUME NEW k \in 1..n - 1 PROVE k \in 1..n /\ k # n /\ list[k] # Custom /\ list[k] # id
      <4>1. k \in 1..n /\ k # n /\ n \in 1..n
        BY <2>1
      <4> QED
        BY <2>1, <2>5, <4>1
    <3>3. id # Custom
      <4>1. n \in 1..n
        BY <2>1
      <4> QED
        BY <2>1, <2>5, <4>1
    <3>4. CASE i \in 1..n - 1 /\ j \in 1..n - 1
      BY <2>1, <2>4, <2>6, <3>2, <3>4
    <3>5. CASE i \in 1..n - 1 /\ j \in {n, n + 1}
      BY <2>4, <2>6, <3>2, <3>5
    <3>6. CASE j \in 1..n - 1 /\ i \in {n, n + 1}
      BY <2>4, <2>6, <3>2, <3>6
    <3>7. CASE i \in {n, n + 1} /\ j \in {n, n + 1}
      BY <2>4, <2>6, <3>3, <3>7
    <3> QED
      BY <3>1, <3>4, <3>5, <3>6, <3>7
  <2>7. Range(new) = Range(list) \cup {id}
    <3>1. DOMAIN new = 1..n + 1
      BY <2>4
    <3>2. ASSUME NEW i \in 1..n PROVE list[i] \in Range(new)
      <4>1. CASE i = n
        <5>1. n + 1 \in DOMAIN new
          BY <2>1, <3>1
        <5> QED
          BY <2>1, <2>4, <4>1, <5>1 DEF Range
      <4>2. CASE i # n
        <5>1. i \in 1..n - 1 /\ i \in 1..n + 1
          BY <2>1, <4>2
        <5> QED
          BY <2>4, <3>1, <5>1 DEF Range
      <4> QED
        BY <4>1, <4>2
    <3>3. id \in Range(new)
      BY <2>1, <2>4, <3>1 DEF Range
    <3>4. ASSUME NEW i \in 1..n + 1 PROVE new[i] \in Range(list) \cup {id}
      <4>1. i \in 1..n - 1 \/ i = n \/ i = n + 1
        BY <2>1
      <4>2. \A k \in 1..n : list[k] \in Range(list)
        BY <2>1 DEF Range
      <4>3. n \in 1..n /\ \A k \in 1..n - 1 : k \in 1..n
        BY <2>1
      <4> QED
        BY <2>1, <2>4, <4>1, <4>2, <4>3
    <3>5. \A x \in Range(list) : \E i \in 1..n : x = list[i]
      BY <2>1 DEF Range
    <3>6. \A x \in Range(new) : \E i \in 1..n + 1 : x = new[i]
      BY <3>1 DEF Range
    <3> QED
      BY <3>2, <3>3, <3>4, <3>5, <3>6
  <2>8. new # <<>> /\ new[Len(new)] = Custom
    BY <2>1, <2>4
  <2> QED
    BY <1>2, <2>3, <2>4, <2>6, <2>7, <2>8 DEF Orders, IsPlaced
<1> QED
  BY <1>1, <1>2

(* MergeProviders is the last of the lists that the loop goes through.       *)
LEMMA MergeRuns ==
    ASSUME NEW ids, NEW given \in Seq(ids), Builtin \in Orders(ids)
    PROVE  \E f : /\ f[0] = Builtin
                  /\ \A n \in 1..Len(given) : f[n] = Place(f[n - 1], given[n])
                  /\ MergeProviders(given) = f[Len(given)]
<1> DEFINE L == Len(given)
           V == Orders(ids)
           h == [k \in 1..L |-> [list \in V |-> Place(list, given[k])]]
<1>1. L \in Nat /\ \A k \in 1..L : given[k] \in ids
  OBVIOUS
<1>2. h \in [1..L -> [V -> V]]
  BY <1>1, PlaceKeepsOrder DEF IsPlaced
<1>3. PICK g : g \in [0..L -> V] /\ g[0] = Builtin /\ \A k \in 1..L : g[k] = h[k][g[k - 1]]
  <2>1. L \in Nat /\ Builtin \in V
    BY <1>1
  <2> HIDE DEF h, V, L
  <2>2. \E g : Runs(g, V, Builtin, L, h)
    BY <1>2, <2>1, LoopRuns
  <2> QED
    BY <2>2 DEF Runs
<1>4. g = [n \in 0..L |-> IF n = 0 THEN Builtin ELSE Place(g[n - 1], given[n])]
  <2>1. ASSUME NEW n \in 0..L, n # 0 PROVE g[n] = Place(g[n - 1], given[n])
    <3>1. n \in 1..L /\ n - 1 \in 0..L
      BY <1>1, <2>1
    <3>2. g[n - 1] \in V
      BY <1>3, <3>1
    <3> QED
      BY <1>3, <3>1, <3>2
  <2> QED
    BY <1>3, <2>1
<1> DEFINE f == CHOOSE f : f = [n \in 0..L |-> IF n = 0 THEN Builtin ELSE Place(f[n - 1], given[n])]
<1>5. f = [n \in 0..L |-> IF n = 0 THEN Builtin ELSE Place(f[n - 1], given[n])]
  <2> HIDE DEF h, V, L
  <2> QED
    BY <1>4
<1>6. MergeProviders(given) = f[L]
  BY DEF MergeProviders
<1> HIDE DEF f
<1>7. f[0] = Builtin /\ \A n \in 1..L : f[n] = Place(f[n - 1], given[n])
  BY <1>1, <1>5
<1> QED
  BY <1>6, <1>7

LEMMA BuiltinOrder == \A ids : Range(Builtin) \subseteq ids => Builtin \in Orders(ids)
<1> SUFFICES ASSUME NEW ids, Range(Builtin) \subseteq ids PROVE Builtin \in Orders(ids)
  OBVIOUS
<1>1. /\ Builtin \in Seq(Range(Builtin)) /\ Builtin # <<>> /\ Custom = Builtin[Len(Builtin)]
      /\ DOMAIN Builtin = 1..Len(Builtin)
      /\ \A i, j \in DOMAIN Builtin : Builtin[i] = Builtin[j] => i = j
  BY SettingsAssumption
<1>2. Builtin \in Seq(ids)
  BY <1>1
<1> QED
  BY <1>1, <1>2 DEF Orders

(* What the loop has after n providers of the stored list.                  *)
Merges(f, n, ids, given) ==
    /\ f[n] \in Orders(ids)
    /\ Range(f[n]) = Range(Builtin) \cup ({given[k] : k \in 1..n} \ {""})

LEMMA MergeGoesOn ==
    ASSUME NEW ids, NEW given \in Seq(ids), NEW f, NEW n \in Nat, n + 1 <= Len(given),
           f[n + 1] = Place(f[n], given[n + 1]), Merges(f, n, ids, given)
    PROVE  Merges(f, n + 1, ids, given)
<1>1. given[n + 1] \in ids
  OBVIOUS
<1>2. {given[k] : k \in 1..n + 1} = {given[k] : k \in 1..n} \cup {given[n + 1]}
  <2>1. 1..n + 1 = 1..n \cup {n + 1}
    OBVIOUS
  <2> QED
    BY <2>1
<1>3. f[n] \in Orders(ids)
  BY DEF Merges
<1>4. f[n + 1] \in Orders(ids) /\ Range(f[n + 1]) = Range(f[n]) \cup ({given[n + 1]} \ {""})
  <2>1. IsPlaced(f[n + 1], f[n], given[n + 1], ids)
    BY <1>1, <1>3, PlaceKeepsOrder
  <2> QED
    BY <2>1 DEF IsPlaced
<1> QED
  BY <1>2, <1>4 DEF Merges

LEMMA MergeKeepsIds ==
    ASSUME NEW given \in Lists \cup {<<>>}
    PROVE  /\ MergeProviders(given) \in Orders(Range(Builtin) \cup Range(given))
           /\ Range(MergeProviders(given)) = Range(Builtin) \cup (Range(given) \ {""})
<1> DEFINE ids == Range(Builtin) \cup Range(given)
<1>1. given \in Seq(ids)
  <2>1. CASE given \in Lists
    <3>1. given \in Seq(Range(given)) /\ Range(given) \subseteq ids
      BY <2>1, SettingsAssumption
    <3> HIDE DEF ids
    <3> QED
      BY <3>1
  <2>2. CASE given = <<>>
    <3> HIDE DEF ids
    <3> QED
      BY <2>2
  <2> QED
    BY <2>1, <2>2
<1>2. Builtin \in Orders(ids)
  BY BuiltinOrder
<1> HIDE DEF ids
<1>3. PICK f : /\ f[0] = Builtin
               /\ \A n \in 1..Len(given) : f[n] = Place(f[n - 1], given[n])
               /\ MergeProviders(given) = f[Len(given)]
  BY <1>1, <1>2, MergeRuns
<1>4. Len(given) \in Nat /\ DOMAIN given = 1..Len(given)
  BY <1>1
<1> DEFINE S == {n \in Nat : n <= Len(given) => Merges(f, n, ids, given)}
<1>5. 0 \in S
  <2>1. {given[k] : k \in 1..0} = {}
    OBVIOUS
  <2>2. Merges(f, 0, ids, given)
    BY <1>2, <1>3, <2>1 DEF Merges
  <2> QED
    BY <2>2
<1>6. ASSUME NEW n \in Nat, n \in S PROVE n + 1 \in S
  <2>1. n + 1 \in Nat /\ (n + 1) - 1 = n
    OBVIOUS
  <2>2. n + 1 <= Len(given) => n <= Len(given) /\ n + 1 \in 1..Len(given)
    BY <1>4
  <2>3. n + 1 <= Len(given) => f[n + 1] = Place(f[n], given[n + 1]) /\ Merges(f, n, ids, given)
    BY <1>3, <1>6, <2>1, <2>2
  <2>4. n + 1 <= Len(given) => Merges(f, n + 1, ids, given)
    BY <1>1, <2>3, MergeGoesOn
  <2> QED
    BY <2>1, <2>4
<1>7. Merges(f, Len(given), ids, given)
  <2> HIDE DEF S
  <2>1. Len(given) \in S
    BY <1>4, <1>5, <1>6, NumberInduction
  <2> QED
    BY <1>4, <2>1 DEF S
<1>8. {given[k] : k \in 1..Len(given)} = Range(given)
  BY <1>4 DEF Range
<1> QED
  BY <1>3, <1>7, <1>8 DEF Merges, ids

(* A list of different ids has as many of them as it is long.               *)
LEMMA OrderCounts ==
    ASSUME NEW ids, NEW list \in Orders(ids)
    PROVE  Cardinality(Range(list)) = Len(list)
<1>1. Len(list) \in Nat /\ DOMAIN list = 1..Len(list) /\ list \in [1..Len(list) -> Range(list)]
  BY DEF Orders, Range
<1>2. list \in Bijection(1..Len(list), Range(list))
  <2>1. \A i, j \in 1..Len(list) : list[i] = list[j] => i = j
    BY DEF Orders
  <2>2. list \in Injection(1..Len(list), Range(list))
    BY <1>1, <2>1 DEF Injection, IsInjective
  <2>3. list \in Surjection(1..Len(list), Range(list))
    BY <1>1 DEF Surjection, Range
  <2> QED
    BY <2>2, <2>3 DEF Bijection
<1>3. ExistsBijection(1..Len(list), Range(list))
  BY <1>2 DEF ExistsBijection
<1>4. IsFiniteSet(1..Len(list)) /\ Cardinality(1..Len(list)) = Len(list)
  BY <1>1, FS_Interval
<1> QED
  BY <1>3, <1>4, FS_Bijection

(* SaveConfig, handleSaveConfig, SaveAIProviders, AIProviders: what was saved *)
(* last, with nothing under way, is what the file, the memory, the            *)
(* directories and the source list hold, with the API key typed in last; and  *)
(* the loaded provider list is the saved one merged into the built-in ones.   *)
THEOREM SavesTakeEffect == SettingsSpec => []SavedTakesEffect
<1>1. ProvInv => ProvidersFresh
  <2> SUFFICES ASSUME ProvInv, up, provDone, \A r \in Readers : reader[r].at = "idle",
                      \A e \in Editors : editor[e].at = "idle"
               PROVE  /\ Range(provCache) = Range(Builtin) \cup (Range(provFile) \ {""})
                      /\ Cardinality(Range(provCache)) = Len(provCache)
                      /\ provCache[Len(provCache)] = Custom
                      /\ provCache = MergeProviders(provFile)
    BY DEF ProvidersFresh
  <2>1. OneInside /\ NoSaver
    BY DEF OneInside, NoSaver, Inside, ProvInv
  <2>2. provCache = MergeProviders(provFile) /\ provFile \in Lists \cup {<<>>}
    BY <2>1 DEF ProvInv
  <2>3. /\ provCache \in Orders(Range(Builtin) \cup Range(provFile))
        /\ Range(provCache) = Range(Builtin) \cup (Range(provFile) \ {""})
    BY <2>2, MergeKeepsIds
  <2> QED
    BY <2>2, <2>3, OrderCounts DEF Orders
<1>2. SaveInv /\ ProvInv => SavedTakesEffect
  BY <1>1 DEF SavedTakesEffect, SaveInv
<1> QED
  BY <1>2, SaveStart, SaveStep, ProvStart, ProvStep, PTL DEF SettingsSpec

-----------------------------------------------------------------------------
(* The limiter of wrong tokens, for any sources, calls and limits.           *)

(* A set with the empty sequence, and with every sequence of its longer by   *)
(* one, has all of them.                                                     *)
LEMMA SequenceInduction ==
    ASSUME NEW T, NEW P, <<>> \in P, \A s \in Seq(T), x \in T : s \in P => Append(s, x) \in P
    PROVE  Seq(T) \subseteq P
<1> DEFINE S == {n \in Nat : \A s \in Seq(T) : Len(s) = n => s \in P}
<1>1. 0 \in S
  BY EmptySeq
<1>2. ASSUME NEW n \in Nat, n \in S PROVE n + 1 \in S
  <2> SUFFICES ASSUME NEW s \in Seq(T), Len(s) = n + 1 PROVE s \in P
    OBVIOUS
  <2> DEFINE front == SubSeq(s, 1, n)
             x == s[n + 1]
  <2>1. front \in Seq(T) /\ Len(front) = n /\ x \in T /\ s = Append(front, x)
    OBVIOUS
  <2> HIDE DEF front, x
  <2>2. front \in P
    BY <1>2, <2>1
  <2> QED
    BY <2>1, <2>2
<1> HIDE DEF S
<1>3. ASSUME NEW s \in Seq(T) PROVE s \in P
  <2>1. Len(s) \in Nat /\ Nat \subseteq S
    BY <1>1, <1>2, NumberInduction
  <2> QED
    BY <2>1 DEF S
<1> QED
  BY <1>3

(* The loop of Since, and what it makes of one time more.                    *)
Filters(f, times, n, end) ==
    /\ f[0] = <<>>
    /\ \A k \in 1..n : f[k] = IF times[k] + FailWindow > end THEN Append(f[k - 1], times[k]) ELSE f[k - 1]

LEMMA SinceFilters ==
    ASSUME NEW times \in Seq(Nat), NEW end \in Nat
    PROVE  \E f : Filters(f, times, Len(times), end) /\ Since(times, end) = f[Len(times)]
<1> DEFINE L == Len(times)
           V == Seq(Nat)
           h == [k \in 1..L |-> [x \in V |-> IF times[k] + FailWindow > end THEN Append(x, times[k]) ELSE x]]
<1>1. L \in Nat /\ <<>> \in V /\ \A k \in 1..L : times[k] \in Nat
  OBVIOUS
<1>2. h \in [1..L -> [V -> V]]
  BY <1>1
<1>3. PICK g : g \in [0..L -> V] /\ g[0] = <<>> /\ \A k \in 1..L : g[k] = h[k][g[k - 1]]
  <2> HIDE DEF h, V, L
  <2>2. \E g : Runs(g, V, <<>>, L, h)
    BY <1>1, <1>2, LoopRuns
  <2> QED
    BY <2>2 DEF Runs
<1>4. ASSUME NEW k \in 1..L PROVE g[k] = IF times[k] + FailWindow > end THEN Append(g[k - 1], times[k]) ELSE g[k - 1]
  <2>1. k - 1 \in 0..L
    BY <1>1
  <2>2. g[k - 1] \in V
    BY <1>3, <2>1
  <2> QED
    BY <1>3, <2>2
<1>5. g = [i \in 0..L |-> IF i = 0 THEN <<>>
             ELSE IF times[i] + FailWindow > end THEN Append(g[i - 1], times[i]) ELSE g[i - 1]]
  <2>1. \A i \in 0..L : i # 0 => i \in 1..L
    BY <1>1
  <2> HIDE DEF h, V, L
  <2> QED
    BY <1>3, <1>4, <2>1
<1> DEFINE f == CHOOSE f : f = [i \in 0..L |-> IF i = 0 THEN <<>>
                ELSE IF times[i] + FailWindow > end THEN Append(f[i - 1], times[i]) ELSE f[i - 1]]
<1>6. f = [i \in 0..L |-> IF i = 0 THEN <<>>
             ELSE IF times[i] + FailWindow > end THEN Append(f[i - 1], times[i]) ELSE f[i - 1]]
  <2> HIDE DEF h, V, L
  <2> QED
    BY <1>5
<1>7. Since(times, end) = f[L]
  BY DEF Since
<1> HIDE DEF f
<1>8. Filters(f, times, L, end)
  <2> HIDE DEF h, V, L
  <2>1. 0 \in 0..L /\ \A k \in 1..L : k \in 0..L /\ k # 0
    BY <1>1
  <2> QED
    BY <1>6, <2>1 DEF Filters
<1> QED
  BY <1>7, <1>8

LEMMA FiltersAgree ==
    ASSUME NEW f, NEW g, NEW s, NEW t, NEW n \in Nat, NEW end,
           Filters(f, s, n, end), Filters(g, t, n, end), \A k \in 1..n : s[k] = t[k]
    PROVE  f[n] = g[n]
<1> DEFINE S == {k \in Nat : k <= n => f[k] = g[k]}
<1>1. 0 \in S
  BY DEF Filters
<1>2. ASSUME NEW k \in Nat, k \in S PROVE k + 1 \in S
  <2>1. k + 1 \in Nat /\ (k + 1) - 1 = k /\ (k + 1 <= n => k <= n /\ k + 1 \in 1..n)
    OBVIOUS
  <2>2. k + 1 <= n => f[k] = g[k] /\ s[k + 1] = t[k + 1]
    BY <1>2, <2>1
  <2>3. k + 1 <= n => /\ f[k + 1] = IF s[k + 1] + FailWindow > end THEN Append(f[k], s[k + 1]) ELSE f[k]
                      /\ g[k + 1] = IF t[k + 1] + FailWindow > end THEN Append(g[k], t[k + 1]) ELSE g[k]
    BY <2>1 DEF Filters
  <2> QED
    BY <2>1, <2>2, <2>3
<1> HIDE DEF S
<1>3. n \in S
  BY <1>1, <1>2, NumberInduction
<1> QED
  BY <1>3 DEF S

SinceAfter(s, x, end) ==
    Since(Append(s, x), end) = IF x + FailWindow > end THEN Append(Since(s, end), x) ELSE Since(s, end)

LEMMA SinceStart == ASSUME NEW end \in Nat PROVE Since(<<>>, end) = <<>>
<1>1. <<>> \in Seq(Nat) /\ Len(<<>>) = 0
  BY EmptySeq
<1>2. PICK f : Filters(f, <<>>, Len(<<>>), end) /\ Since(<<>>, end) = f[Len(<<>>)]
  BY <1>1, SinceFilters
<1> QED
  BY <1>1, <1>2 DEF Filters

LEMMA SinceGrows ==
    ASSUME NEW s \in Seq(Nat), NEW x \in Nat, NEW end \in Nat
    PROVE  SinceAfter(s, x, end)
<1> DEFINE t == Append(s, x)
           n == Len(s)
<1>1. /\ n \in Nat /\ t \in Seq(Nat) /\ Len(t) = n + 1 /\ t[n + 1] = x /\ (n + 1) - 1 = n /\ n + 1 \in 1..n + 1
      /\ \A k \in 1..n : s[k] = t[k]
  OBVIOUS
<1> HIDE DEF t, n
<1>2. PICK f : Filters(f, s, n, end) /\ Since(s, end) = f[n]
  BY SinceFilters DEF n
<1>3. PICK g : Filters(g, t, n + 1, end) /\ Since(t, end) = g[n + 1]
  BY <1>1, SinceFilters
<1>4. Filters(g, t, n, end)
  BY <1>1, <1>3 DEF Filters
<1>5. g[n] = f[n]
  BY <1>1, <1>2, <1>4, FiltersAgree
<1>6. g[n + 1] = IF x + FailWindow > end THEN Append(g[n], x) ELSE g[n]
  BY <1>1, <1>3 DEF Filters
<1> QED
  BY <1>2, <1>3, <1>5, <1>6 DEF SinceAfter, t

(* What is kept is among what there was, and no longer.                      *)
LEMMA SequencesOf ==
    ASSUME NEW T, NEW U, T \subseteq U, NEW s \in Seq(T)
    PROVE  s \in Seq(U)
OBVIOUS

LEMMA SinceShortens ==
    ASSUME NEW T \in SUBSET Nat, NEW end \in Nat
    PROVE  \A s \in Seq(T) : Since(s, end) \in Seq(T) /\ Len(Since(s, end)) <= Len(s)
<1> DEFINE P == {s \in Seq(T) : Since(s, end) \in Seq(T) /\ Len(Since(s, end)) <= Len(s)}
<1>1. <<>> \in P
  <2>1. Since(<<>>, end) = <<>> /\ <<>> \in Seq(T) /\ Len(<<>>) <= Len(<<>>)
    BY SinceStart, EmptySeq
  <2> QED
    BY <2>1
<1>2. ASSUME NEW s \in Seq(T), NEW x \in T, s \in P PROVE Append(s, x) \in P
  <2>1. s \in Seq(Nat) /\ x \in Nat
    BY SequencesOf
  <2>2. SinceAfter(s, x, end)
    BY <2>1, SinceGrows
  <2> DEFINE kept == Since(s, end)
  <2>3. kept \in Seq(T) /\ Len(kept) <= Len(s) /\ Len(kept) \in Nat /\ Len(s) \in Nat
    BY <1>2
  <2>4. Append(s, x) \in Seq(T) /\ Len(Append(s, x)) = Len(s) + 1
    OBVIOUS
  <2>5. Since(Append(s, x), end) = Append(kept, x) \/ Since(Append(s, x), end) = kept
    BY <2>2 DEF SinceAfter
  <2> HIDE DEF kept
  <2>6. Append(kept, x) \in Seq(T) /\ Len(Append(kept, x)) = Len(kept) + 1
    BY <2>3
  <2> QED
    BY <2>3, <2>4, <2>5, <2>6
<1> HIDE DEF P
<1>3. Seq(T) \subseteq P
  BY <1>1, <1>2, SequenceInduction
<1> QED
  BY <1>3 DEF P

(* Keeping what is recent enough for a later end can be done at once.        *)
LEMMA SinceTwice ==
    ASSUME NEW early \in Nat, NEW late \in Nat, early <= late
    PROVE  \A s \in Seq(Nat) : Since(Since(s, early), late) = Since(s, late)
<1> DEFINE P == {s \in Seq(Nat) : Since(Since(s, early), late) = Since(s, late)}
<1>1. <<>> \in P
  BY SinceStart, EmptySeq
<1>2. ASSUME NEW s \in Seq(Nat), NEW x \in Nat, s \in P PROVE Append(s, x) \in P
  <2>1. SinceAfter(s, x, early) /\ SinceAfter(s, x, late)
    BY SinceGrows
  <2>2. Since(s, early) \in Seq(Nat)
    BY SinceShortens
  <2>3. SinceAfter(Since(s, early), x, late)
    BY <2>2, SinceGrows
  <2>4. FailWindow \in Nat /\ (x + FailWindow > late => x + FailWindow > early)
    BY SettingsAssumption
  <2>5. Append(s, x) \in Seq(Nat) /\ Since(Since(s, early), late) = Since(s, late)
    BY <1>2
  <2>6. Since(Since(Append(s, x), early), late) = Since(Append(s, x), late)
    BY <2>1, <2>3, <2>4, <2>5 DEF SinceAfter
  <2> QED
    BY <2>5, <2>6
<1> HIDE DEF P
<1>3. Seq(Nat) \subseteq P
  BY <1>1, <1>2, SequenceInduction
<1> QED
  BY <1>3 DEF P

LEMMA SinceForgets ==
    ASSUME NEW T \in SUBSET Nat, NEW end \in Nat, \A x \in T : ~(x + FailWindow > end)
    PROVE  \A s \in Seq(T) : Since(s, end) = <<>>
<1> DEFINE P == {s \in Seq(T) : Since(s, end) = <<>>}
<1>1. <<>> \in P
  BY SinceStart, EmptySeq
<1>2. ASSUME NEW s \in Seq(T), NEW x \in T, s \in P PROVE Append(s, x) \in P
  <2>0. s \in Seq(Nat) /\ x \in Nat
    BY SequencesOf
  <2>1. s \in Seq(Nat) /\ x \in Nat /\ Append(s, x) \in Seq(T)
    BY <2>0
  <2>2. SinceAfter(s, x, end)
    BY <2>1, SinceGrows
  <2> QED
    BY <1>2, <2>1, <2>2 DEF SinceAfter
<1> HIDE DEF P
<1>3. Seq(T) \subseteq P
  BY <1>1, <1>2, SequenceInduction
<1> QED
  BY <1>3 DEF P

(* The time before which a lock has put the failures behind it; the clock,   *)
(* once the lock is over.                                                   *)
Horizon(s) == IF blocked[s] + FailWindow > clock + BlockTime THEN (blocked[s] + FailWindow) - BlockTime ELSE clock
Judged(s) == {c \in AuthCalls : authCall[c].at = "judge" /\ authCall[c].src = s}

(* The calls that were admitted before a lock can each add a wrong token to  *)
(* those that led to it, and nobody else is admitted while it lasts; what    *)
(* was looked at since the lock is what the limiter counts.                  *)
LimitInv ==
    /\ clock \in Nat \ {0}
    /\ blocked \in [Sources -> Nat] /\ fails \in [Sources -> Seq(Nat)]
    /\ wrong = [s \in Sources |-> wrong[s]] /\ \A s \in Sources : wrong[s] \in Seq(0..clock)
    /\ authCall \in [AuthCalls -> [src : Sources \cup {""}, right : BOOLEAN, at : {"idle", "listed", "judge"}]]
    /\ \A c \in AuthCalls : authCall[c].at # "idle" => authCall[c].src \in Sources
    /\ \A s \in Sources : Len(fails[s]) < FailLimit
    /\ \A s \in Sources : Since(wrong[s], Horizon(s)) = Since(fails[s], Horizon(s))
    /\ \A s \in Sources : clock <= blocked[s] =>
          Len(Since(wrong[s], clock)) + Cardinality(Judged(s)) < FailLimit + Cardinality(AuthCalls)

LEMMA Limits ==
    /\ FailLimit \in Nat \ {0} /\ FailWindow \in Nat \ {0} /\ BlockTime \in Nat /\ FailWindow <= BlockTime
    /\ IsFiniteSet(AuthCalls) /\ Cardinality(AuthCalls) \in Nat
    /\ \A s : IsFiniteSet(Judged(s)) /\ Cardinality(Judged(s)) \in Nat /\ Cardinality(Judged(s)) <= Cardinality(AuthCalls)
<1>1. IsFiniteSet(AuthCalls)
  BY SettingsAssumption
<1>2. \A s : Judged(s) \subseteq AuthCalls
  BY DEF Judged
<1>3. \A s : IsFiniteSet(Judged(s)) /\ Cardinality(Judged(s)) <= Cardinality(AuthCalls)
  BY <1>1, <1>2, FS_Subset
<1> QED
  BY <1>1, <1>3, FS_CardinalityType, SettingsAssumption

LEMMA HorizonType == ASSUME LimitInv, NEW s \in Sources
                     PROVE  /\ Horizon(s) \in Nat /\ clock <= Horizon(s)
                            /\ clock > blocked[s] => Horizon(s) = clock
<1>1. blocked[s] \in Nat /\ clock \in Nat
  BY DEF LimitInv
<1> QED
  BY <1>1, Limits DEF Horizon

LEMMA TimesType ==
    ASSUME LimitInv, NEW s \in Sources
    PROVE  /\ fails[s] \in Seq(Nat) /\ wrong[s] \in Seq(0..clock) /\ wrong[s] \in Seq(Nat)
           /\ Recent(s) \in Seq(Nat) /\ Len(Recent(s)) \in Nat /\ Len(Recent(s)) < FailLimit
           /\ RecentWrong(s) \in Seq(0..clock) /\ RecentWrong(s) \in Seq(Nat) /\ Len(RecentWrong(s)) \in Nat
<1>0. fails \in [Sources -> Seq(Nat)] /\ wrong[s] \in Seq(0..clock) /\ clock \in Nat /\ Len(fails[s]) < FailLimit
  BY DEF LimitInv
<1>1. fails[s] \in Seq(Nat) /\ wrong[s] \in Seq(0..clock) /\ clock \in Nat /\ 0..clock \in SUBSET Nat /\ Len(fails[s]) < FailLimit
  BY <1>0
<1>2. wrong[s] \in Seq(Nat)
  BY <1>1, SequencesOf
<1>3. Recent(s) \in Seq(Nat) /\ Len(Recent(s)) <= Len(fails[s])
  BY <1>1, SinceShortens DEF Recent
<1>4. RecentWrong(s) \in Seq(0..clock)
  BY <1>1, SinceShortens DEF RecentWrong
<1>5. RecentWrong(s) \in Seq(Nat)
  BY <1>1, <1>4, SequencesOf
<1> QED
  BY <1>1, <1>2, <1>3, <1>4, <1>5, Limits

LEMMA LimitBound == LimitInv => AttemptsBounded
<1> SUFFICES ASSUME LimitInv, NEW s \in Sources
             PROVE  Len(RecentWrong(s)) < FailLimit + Cardinality(AuthCalls)
  BY DEF AttemptsBounded
<1>1. CASE clock <= blocked[s]
  <2>1. Len(Since(wrong[s], clock)) + Cardinality(Judged(s)) < FailLimit + Cardinality(AuthCalls)
    BY <1>1 DEF LimitInv
  <2>2. Len(RecentWrong(s)) + Cardinality(Judged(s)) < FailLimit + Cardinality(AuthCalls)
    BY <2>1 DEF RecentWrong
  <2>3. Len(RecentWrong(s)) \in Nat
    BY TimesType
  <2>4. Cardinality(Judged(s)) \in Nat /\ Cardinality(AuthCalls) \in Nat /\ FailLimit \in Nat
    BY Limits
  <2> QED
    BY <2>2, <2>3, <2>4
<1>2. CASE ~(clock <= blocked[s])
  <2>0. clock \in Nat /\ blocked \in [Sources -> Nat]
    BY DEF LimitInv
  <2>3. blocked[s] \in Nat
    BY <2>0
  <2>1. Horizon(s) = clock
    BY <1>2, <2>0, <2>3, HorizonType
  <2>2. RecentWrong(s) = Recent(s)
    BY <2>1 DEF LimitInv, Recent, RecentWrong
  <2> QED
    BY <2>2, Limits, TimesType
<1> QED
  BY <1>1, <1>2

LEMMA CallMoves ==
    ASSUME LimitInv, NEW c \in AuthCalls, NEW pos \in {"idle", "listed", "judge"}, MoveTo(c, pos),
           authCall[c].at # "idle"
    PROVE  /\ authCall' \in [AuthCalls -> [src : Sources \cup {""}, right : BOOLEAN, at : {"idle", "listed", "judge"}]]
           /\ authCall'[c].at = pos
           /\ pos # "idle" => authCall'[c].src = authCall[c].src
           /\ \A d \in AuthCalls \ {c} : authCall'[d] = authCall[d]
<1> DEFINE T == [src : Sources \cup {""}, right : BOOLEAN, at : {"idle", "listed", "judge"}]
           new == IF pos = "idle" THEN NoCall ELSE [authCall[c] EXCEPT !.at = pos]
<1>1. authCall \in [AuthCalls -> T] /\ authCall[c] \in T
  BY DEF LimitInv
<1>2. new \in T /\ new.at = pos /\ (pos # "idle" => new.src = authCall[c].src)
  BY <1>1 DEF NoCall
<1>3. authCall' = [authCall EXCEPT ![c] = new]
  BY DEF MoveTo
<1> HIDE DEF new, T
<1>4. authCall' \in [AuthCalls -> T] /\ authCall'[c] = new /\ \A d \in AuthCalls \ {c} : authCall'[d] = authCall[d]
  BY <1>1, <1>2, <1>3
<1> QED
  BY <1>2, <1>4 DEF T

LEMMA Keeps ==
    ASSUME LimitInv, NEW s \in Sources, clock' = clock, fails'[s] = fails[s], wrong'[s] = wrong[s],
           blocked'[s] = blocked[s], clock <= blocked[s] => Judged(s)' \subseteq Judged(s)
    PROVE  /\ Since(wrong[s], Horizon(s))' = Since(fails[s], Horizon(s))'
           /\ (clock <= blocked[s])' =>
                Len(Since(wrong[s], clock))' + Cardinality(Judged(s))' < FailLimit + Cardinality(AuthCalls)
<1>1. Horizon(s)' = Horizon(s)
  BY DEF Horizon
<1>2. clock <= blocked[s] => Cardinality(Judged(s)') <= Cardinality(Judged(s)) /\ Cardinality(Judged(s)') \in Nat
  BY Limits, FS_Subset, FS_CardinalityType
<1>3. Since(wrong'[s], Horizon(s)') = Since(fails'[s], Horizon(s)')
  BY <1>1 DEF LimitInv
<1>4. Len(Since(wrong[s], clock)) \in Nat
  BY TimesType DEF RecentWrong
<1>5. clock <= blocked[s] => Len(Since(wrong[s], clock)) + Cardinality(Judged(s)') < FailLimit + Cardinality(AuthCalls)
  <2> SUFFICES ASSUME clock <= blocked[s]
               PROVE  Len(Since(wrong[s], clock)) + Cardinality(Judged(s)') < FailLimit + Cardinality(AuthCalls)
    OBVIOUS
  <2>1. Len(Since(wrong[s], clock)) + Cardinality(Judged(s)) < FailLimit + Cardinality(AuthCalls)
    BY DEF LimitInv
  <2>2. Cardinality(Judged(s)) \in Nat /\ Cardinality(AuthCalls) \in Nat /\ FailLimit \in Nat
    BY Limits
  <2> QED
    BY <1>2, <1>4, <2>1, <2>2
<1> QED
  BY <1>3, <1>5

(* What is left to show of the sources: that each of them keeps its count.    *)
SourceInv(s) ==
    /\ wrong[s] \in Seq(0..clock) /\ Len(fails[s]) < FailLimit
    /\ Since(wrong[s], Horizon(s)) = Since(fails[s], Horizon(s))
    /\ clock <= blocked[s] => Len(Since(wrong[s], clock)) + Cardinality(Judged(s)) < FailLimit + Cardinality(AuthCalls)

LimitTyped ==
    /\ clock \in Nat \ {0}
    /\ blocked \in [Sources -> Nat] /\ fails \in [Sources -> Seq(Nat)]
    /\ wrong = [s \in Sources |-> wrong[s]]
    /\ authCall \in [AuthCalls -> [src : Sources \cup {""}, right : BOOLEAN, at : {"idle", "listed", "judge"}]]
    /\ \A c \in AuthCalls : authCall[c].at # "idle" => authCall[c].src \in Sources

LEMMA LimitParts ==
    /\ LimitInv <=> LimitTyped /\ \A s \in Sources : SourceInv(s)
    /\ LimitInv' <=> LimitTyped' /\ \A s \in Sources : SourceInv(s)'
<1>1. LimitInv <=> LimitTyped /\ \A s \in Sources : SourceInv(s)
  BY DEF LimitInv, LimitTyped, SourceInv
<1>2. LimitInv' <=> LimitTyped' /\ \A s \in Sources : SourceInv(s)'
  BY DEF LimitInv, LimitTyped, SourceInv
<1> QED
  BY <1>1, <1>2

LEMMA KeepsSource ==
    ASSUME LimitInv, NEW s \in Sources, clock' = clock, fails'[s] = fails[s], wrong'[s] = wrong[s],
           blocked'[s] = blocked[s], clock <= blocked[s] => Judged(s)' \subseteq Judged(s)
    PROVE  SourceInv(s)'
<1>1. wrong'[s] \in Seq(0..clock') /\ Len(fails'[s]) < FailLimit
  BY DEF LimitInv
<1> QED
  BY <1>1, Keeps DEF SourceInv

LEMMA ClockStep == ASSUME LimitInv, Clock PROVE LimitInv'
<1>1. clock' = clock + 1 /\ UNCHANGED <<fails, blocked, authCall, wrong>>
  BY DEF Clock
<1>2. LimitTyped /\ clock \in Nat \ {0} /\ blocked \in [Sources -> Nat]
  BY LimitParts DEF LimitTyped
<1>3. LimitTyped'
  <2>1. clock' \in Nat \ {0}
    BY <1>1, <1>2
  <2> QED
    BY <1>1, <1>2, <2>1 DEF LimitTyped
<1>4. ASSUME NEW s \in Sources PROVE SourceInv(s)'
  <2>1. SourceInv(s) /\ blocked[s] \in Nat /\ clock \in Nat
    BY <1>2, LimitParts
  <2>2. Horizon(s) \in Nat /\ Horizon(s)' \in Nat /\ Horizon(s) <= Horizon(s)'
    BY <1>1, <2>1, Limits DEF Horizon
  <2>3. wrong[s] \in Seq(Nat) /\ fails[s] \in Seq(Nat) /\ wrong[s] \in Seq(0..clock) /\ 0..clock \subseteq 0..clock + 1
    BY <2>1, TimesType
  <2>4. wrong[s] \in Seq(0..clock + 1)
    BY <2>3, SequencesOf
  <2>5. Since(wrong[s], Horizon(s)') = Since(fails[s], Horizon(s)')
    <3>1. Since(wrong[s], Horizon(s)') = Since(Since(wrong[s], Horizon(s)), Horizon(s)')
      BY <2>2, <2>3, SinceTwice
    <3>2. Since(fails[s], Horizon(s)') = Since(Since(fails[s], Horizon(s)), Horizon(s)')
      BY <2>2, <2>3, SinceTwice
    <3> QED
      BY <2>1, <3>1, <3>2 DEF SourceInv
  <2>6. Len(Since(wrong[s], clock + 1)) <= Len(RecentWrong(s)) /\ Len(Since(wrong[s], clock + 1)) \in Nat
    <3>1. clock + 1 \in Nat /\ clock <= clock + 1
      BY <2>1
    <3>2. Since(wrong[s], clock + 1) = Since(RecentWrong(s), clock + 1)
      BY <2>1, <2>3, <3>1, SinceTwice DEF RecentWrong
    <3>3. RecentWrong(s) \in Seq(Nat) /\ Nat \in SUBSET Nat
      BY TimesType
    <3>4. Since(RecentWrong(s), clock + 1) \in Seq(Nat) /\ Len(Since(RecentWrong(s), clock + 1)) <= Len(RecentWrong(s))
      BY <3>1, <3>3, SinceShortens
    <3> QED
      BY <3>2, <3>4
  <2>7. ASSUME clock + 1 <= blocked[s]
        PROVE  Len(Since(wrong[s], clock + 1)) + Cardinality(Judged(s)) < FailLimit + Cardinality(AuthCalls)
    <3>1. clock <= blocked[s]
      BY <2>1, <2>7
    <3>2. Len(RecentWrong(s)) + Cardinality(Judged(s)) < FailLimit + Cardinality(AuthCalls)
      BY <2>1, <3>1 DEF SourceInv, RecentWrong
    <3>3. Len(RecentWrong(s)) \in Nat
      BY TimesType
    <3>4. Cardinality(Judged(s)) \in Nat /\ Cardinality(AuthCalls) \in Nat /\ FailLimit \in Nat
      BY Limits
    <3> QED
      BY <2>6, <3>2, <3>3, <3>4
  <2>8. Judged(s)' = Judged(s)
    BY <1>1 DEF Judged
  <2> QED
    BY <1>1, <2>1, <2>4, <2>5, <2>7, <2>8 DEF SourceInv
<1> QED
  BY <1>3, <1>4, LimitParts

LEMMA EnterStep == ASSUME LimitInv, NEW c \in AuthCalls, Enter(c) PROVE LimitInv'
<1>1. authCall[c].at = "idle" /\ UNCHANGED <<clock, fails, blocked, wrong>>
  BY DEF Enter
<1> DEFINE T == [src : Sources \cup {""}, right : BOOLEAN, at : {"idle", "listed", "judge"}]
<1>2. PICK new \in T : authCall' = [authCall EXCEPT ![c] = new] /\ new.at # "judge" /\ (new.at # "idle" => new.src \in Sources)
  <2>1. PICK s \in Sources, right \in BOOLEAN :
          authCall' = [authCall EXCEPT ![c] = IF s \in filter THEN [src |-> s, right |-> right, at |-> "listed"] ELSE NoCall]
    BY DEF Enter
  <2>2. [src |-> s, right |-> right, at |-> "listed"] \in T /\ NoCall \in T /\ NoCall.at = "idle"
    BY DEF NoCall
  <2> QED
    BY <2>1, <2>2
<1>3. LimitTyped /\ authCall \in [AuthCalls -> T]
  BY LimitParts DEF LimitTyped
<1>4. authCall' \in [AuthCalls -> T] /\ authCall'[c] = new /\ \A d \in AuthCalls \ {c} : authCall'[d] = authCall[d]
  <2> HIDE DEF T
  <2> QED
    BY <1>2, <1>3
<1>5. LimitTyped'
  BY <1>1, <1>2, <1>3, <1>4 DEF LimitTyped
<1>6. ASSUME NEW s \in Sources PROVE Judged(s)' \subseteq Judged(s)
  BY <1>2, <1>4 DEF Judged
<1>7. ASSUME NEW s \in Sources PROVE SourceInv(s)'
  BY <1>1, <1>6, KeepsSource
<1> QED
  BY <1>5, <1>7, LimitParts

LEMMA AdmitStep == ASSUME LimitInv, NEW c \in AuthCalls, Admit(c) PROVE LimitInv'
<1>1. /\ authCall[c].at = "listed" /\ UNCHANGED <<clock, fails, blocked, wrong>>
      /\ IF clock > blocked[authCall[c].src] /\ clock <= TokenTTL THEN MoveTo(c, "judge") ELSE MoveTo(c, "idle")
  BY DEF Admit
<1>2. PICK pos \in {"idle", "judge"} : MoveTo(c, pos) /\ (pos = "judge" => clock > blocked[authCall[c].src])
  BY <1>1
<1>3. /\ authCall' \in [AuthCalls -> [src : Sources \cup {""}, right : BOOLEAN, at : {"idle", "listed", "judge"}]]
      /\ authCall'[c].at = pos
      /\ pos # "idle" => authCall'[c].src = authCall[c].src
      /\ \A d \in AuthCalls \ {c} : authCall'[d] = authCall[d]
  BY <1>1, <1>2, CallMoves
<1>4. LimitTyped /\ authCall[c].src \in Sources /\ clock \in Nat /\ blocked \in [Sources -> Nat]
  BY <1>1, LimitParts DEF LimitTyped
<1>5. LimitTyped'
  BY <1>1, <1>2, <1>3, <1>4 DEF LimitTyped
<1>6. ASSUME NEW s \in Sources, clock <= blocked[s] PROVE Judged(s)' \subseteq Judged(s)
  <2>1. pos = "judge" => authCall[c].src # s
    BY <1>2, <1>4, <1>6
  <2> QED
    BY <1>2, <1>3, <2>1 DEF Judged
<1>7. ASSUME NEW s \in Sources PROVE SourceInv(s)'
  BY <1>1, <1>6, KeepsSource
<1> QED
  BY <1>5, <1>7, LimitParts

LEMMA JudgeStep == ASSUME LimitInv, NEW c \in AuthCalls, Judge(c) PROVE LimitInv'
<1>0. authCall[c].at = "judge" /\ authCall[c].src \in Sources
  BY LimitParts DEF LimitTyped, Judge
<1> PICK s \in Sources : s = authCall[c].src
  BY <1>0
<1>1. /\ authCall[c].at = "judge" /\ MoveTo(c, "idle") /\ clock' = clock
      /\ \/ Pass(s) /\ wrong' = [wrong EXCEPT ![s] = <<>>]
         \/ Fail(s) /\ wrong' = [wrong EXCEPT ![s] = Append(RecentWrong(s), clock)]
  BY DEF Judge
<1>2. /\ authCall' \in [AuthCalls -> [src : Sources \cup {""}, right : BOOLEAN, at : {"idle", "listed", "judge"}]]
      /\ authCall'[c].at = "idle"
      /\ \A d \in AuthCalls \ {c} : authCall'[d] = authCall[d]
  <2>1. "idle" \in {"idle", "listed", "judge"} /\ authCall[c].at # "idle"
    BY <1>1
  <2> QED
    BY <1>1, <2>1, CallMoves
<1>3. /\ LimitTyped /\ s \in Sources /\ clock \in Nat \ {0} /\ blocked \in [Sources -> Nat] /\ fails \in [Sources -> Seq(Nat)]
      /\ DOMAIN wrong = Sources
  <2>1. LimitTyped
    BY LimitParts
  <2>2. wrong = [t \in Sources |-> wrong[t]]
    BY <2>1 DEF LimitTyped
  <2>3. DOMAIN wrong = Sources
    BY <2>2
  <2> QED
    BY <2>1, <2>3 DEF LimitTyped
<1>10. \A d \in AuthCalls : authCall'[d].at # "idle" => authCall'[d].src \in Sources
  <2>1. \A d \in AuthCalls : authCall[d].at # "idle" => authCall[d].src \in Sources
    BY <1>3 DEF LimitTyped
  <2> TAKE d \in AuthCalls
  <2>2. CASE d = c
    BY <1>2, <2>2
  <2>3. CASE d # c
    BY <1>2, <2>1, <2>3
  <2> QED
    BY <2>2, <2>3
<1>4. c \in Judged(s) /\ \A t \in Sources : Judged(t)' = Judged(t) \ {c}
  <2>1. c \in Judged(s)
    BY <1>1 DEF Judged
  <2>2. ASSUME NEW t \in Sources, NEW d PROVE d \in Judged(t)' <=> d \in Judged(t) /\ d # c
    <3>1. CASE d = c
      BY <1>2, <3>1 DEF Judged
    <3>2. CASE d # c /\ d \in AuthCalls
      <4>1. authCall'[d] = authCall[d]
        BY <1>2, <3>2
      <4> QED
        BY <3>2, <4>1 DEF Judged
    <3>3. CASE d \notin AuthCalls
      BY <3>3 DEF Judged
    <3> QED
      BY <3>1, <3>2, <3>3
  <2> QED
    BY <2>1, <2>2
<1>5. /\ Cardinality(Judged(s) \ {c}) = Cardinality(Judged(s)) - 1 /\ Cardinality(Judged(s) \ {c}) \in Nat
      /\ Cardinality(Judged(s)) \in Nat /\ Cardinality(Judged(s)) <= Cardinality(AuthCalls) /\ Cardinality(AuthCalls) \in Nat
  <2>1. IsFiniteSet(Judged(s)) /\ IsFiniteSet(Judged(s) \ {c})
    BY Limits, FS_RemoveElement
  <2> QED
    BY <1>4, <2>1, Limits, FS_RemoveElement, FS_CardinalityType
<1>6. /\ RecentWrong(s) \in Seq(0..clock) /\ RecentWrong(s) \in Seq(Nat) /\ Len(RecentWrong(s)) \in Nat
      /\ Recent(s) \in Seq(Nat) /\ Len(Recent(s)) \in Nat /\ Len(Recent(s)) < FailLimit /\ clock \in 0..clock
  BY <1>3, TimesType
<1>7. SourceInv(s)
  BY <1>3, LimitParts
<1>8. CASE Pass(s) /\ wrong' = [wrong EXCEPT ![s] = <<>>]
  <2>1. /\ fails' \in [Sources -> Seq(Nat)] /\ blocked' \in [Sources -> Nat]
        /\ fails'[s] = <<>> /\ blocked'[s] = 0 /\ wrong'[s] = <<>> /\ DOMAIN wrong' = Sources
        /\ \A t \in Sources \ {s} : fails'[t] = fails[t] /\ blocked'[t] = blocked[t] /\ wrong'[t] = wrong[t]
    <3>1. <<>> \in Seq(Nat)
      BY EmptySeq
    <3> QED
      BY <1>3, <1>8, <3>1 DEF Pass
  <2>2. wrong' = [t \in Sources |-> wrong'[t]]
    BY <1>8, <2>1
  <2>3. LimitTyped'
    BY <1>1, <1>2, <1>3, <1>10, <2>1, <2>2 DEF LimitTyped
  <2>4. SourceInv(s)'
    <3>1. Horizon(s)' \in Nat
      BY <1>1, <1>3, <2>1, Limits DEF Horizon
    <3>2. wrong'[s] \in Seq(0..clock') /\ Len(fails'[s]) < FailLimit /\ ~(clock' <= blocked'[s])
      BY <1>1, <1>3, <2>1, Limits, EmptySeq
    <3>3. Since(wrong'[s], Horizon(s)') = Since(fails'[s], Horizon(s)')
      BY <2>1
    <3> QED
      BY <3>2, <3>3 DEF SourceInv
  <2>5. ASSUME NEW t \in Sources, t # s PROVE SourceInv(t)'
    BY <1>1, <1>4, <2>1, <2>5, KeepsSource
  <2> QED
    BY <2>3, <2>4, <2>5, LimitParts
<1>9. CASE Fail(s) /\ wrong' = [wrong EXCEPT ![s] = Append(RecentWrong(s), clock)]
  <2> DEFINE looked == Append(RecentWrong(s), clock)
             kept == Append(Recent(s), clock)
  <2>1. /\ looked \in Seq(0..clock) /\ looked \in Seq(Nat) /\ Len(looked) = Len(RecentWrong(s)) + 1
        /\ kept \in Seq(Nat) /\ Len(kept) = Len(Recent(s)) + 1
    BY <1>3, <1>6
  <2>2. /\ wrong'[s] = looked /\ DOMAIN wrong' = Sources /\ wrong' = [t \in Sources |-> wrong'[t]]
        /\ \A t \in Sources \ {s} : wrong'[t] = wrong[t]
    <3> HIDE DEF looked
    <3>1. wrong' = [wrong EXCEPT ![s] = looked]
      BY <1>9 DEF looked
    <3> QED
      BY <1>3, <3>1
  <2>3. FailWindow \in Nat \ {0} /\ BlockTime \in Nat /\ FailWindow <= BlockTime /\ FailLimit \in Nat \ {0}
    BY Limits
  <2>4. Since(looked, clock) = looked
    <3>1. SinceAfter(RecentWrong(s), clock, clock)
      BY <1>3, <1>6, SinceGrows
    <3>2. Since(RecentWrong(s), clock) = RecentWrong(s)
      <4>1. wrong[s] \in Seq(Nat) /\ clock \in Nat /\ clock <= clock
        BY <1>3, TimesType
      <4> QED
        BY <4>1, SinceTwice DEF RecentWrong
    <3>3. clock + FailWindow > clock
      BY <1>3, <2>3
    <3> QED
      BY <3>1, <3>2, <3>3 DEF SinceAfter
  <2>5. Fail(s) /\ (Len(kept) >= FailLimit \/ Len(kept) < FailLimit)
    BY <1>6, <1>9, <2>1, <2>3
  <2>6. CASE Len(kept) >= FailLimit
    <3>1. fails' = [fails EXCEPT ![s] = <<>>] /\ blocked' = [blocked EXCEPT ![s] = clock + BlockTime]
      BY <1>9, <2>6 DEF Fail
    <3>2. /\ fails' \in [Sources -> Seq(Nat)] /\ blocked' \in [Sources -> Nat]
          /\ fails'[s] = <<>> /\ blocked'[s] = clock + BlockTime
          /\ \A t \in Sources \ {s} : fails'[t] = fails[t] /\ blocked'[t] = blocked[t]
      <4>1. <<>> \in Seq(Nat) /\ clock + BlockTime \in Nat
        BY <1>3, <2>3, EmptySeq
      <4> QED
        BY <1>3, <3>1, <4>1
    <3>3. LimitTyped'
      BY <1>1, <1>2, <1>3, <1>10, <2>2, <3>2 DEF LimitTyped
    <3>4. Horizon(s)' = clock + FailWindow /\ clock + FailWindow \in Nat
      <4>1. (clock + BlockTime) + FailWindow > clock + BlockTime /\ ((clock + BlockTime) + FailWindow) - BlockTime = clock + FailWindow
        BY <1>3, <2>3
      <4> QED
        BY <1>1, <1>3, <2>3, <3>2, <4>1 DEF Horizon
    <3>5. Since(looked, clock + FailWindow) = <<>>
      <4>1. 0..clock \in SUBSET Nat /\ \A x \in 0..clock : ~(x + FailWindow > clock + FailWindow)
        BY <1>3, <2>3
      <4> HIDE DEF looked
      <4> QED
        BY <2>1, <3>4, <4>1, SinceForgets
    <3>6. Since(<<>>, clock + FailWindow) = <<>>
      BY <3>4, SinceStart
    <3>7. Len(looked) + (Cardinality(Judged(s)) - 1) < FailLimit + Cardinality(AuthCalls)
      <4>1. CASE clock <= blocked[s]
        <5>1. Len(RecentWrong(s)) + Cardinality(Judged(s)) < FailLimit + Cardinality(AuthCalls)
          BY <1>7, <4>1 DEF SourceInv, RecentWrong
        <5> QED
          BY <1>5, <1>6, <2>1, <2>3, <5>1
      <4>2. CASE ~(clock <= blocked[s])
        <5>1. blocked[s] \in Nat
          BY <1>3
        <5>2. Horizon(s) = clock
          BY <1>3, <4>2, <5>1, HorizonType
        <5>3. RecentWrong(s) = Recent(s)
          BY <1>7, <5>2 DEF SourceInv, Recent, RecentWrong
        <5> QED
          BY <1>5, <1>6, <2>1, <2>3, <5>3
      <4> QED
        BY <4>1, <4>2
    <3>8. SourceInv(s)'
      <4> HIDE DEF looked, kept
      <4>1. wrong'[s] \in Seq(0..clock') /\ Len(fails'[s]) < FailLimit
        BY <1>1, <2>1, <2>2, <2>3, <3>2, EmptySeq
      <4>2. Since(wrong'[s], Horizon(s)') = Since(fails'[s], Horizon(s)')
        BY <2>2, <3>2, <3>4, <3>5, <3>6
      <4>3. Len(Since(wrong'[s], clock')) + Cardinality(Judged(s)') < FailLimit + Cardinality(AuthCalls)
        BY <1>1, <1>3, <1>4, <1>5, <2>2, <2>4, <3>7
      <4> QED
        BY <4>1, <4>2, <4>3 DEF SourceInv
    <3>9. ASSUME NEW t \in Sources, t # s PROVE SourceInv(t)'
      BY <1>1, <1>4, <2>2, <3>2, <3>9, KeepsSource
    <3> QED
      BY <3>3, <3>8, <3>9, LimitParts
  <2>7. CASE Len(kept) < FailLimit
    <3>1. fails' = [fails EXCEPT ![s] = kept] /\ blocked' = blocked
      BY <1>6, <1>9, <2>1, <2>3, <2>7 DEF Fail
    <3>2. /\ fails' \in [Sources -> Seq(Nat)] /\ blocked' \in [Sources -> Nat]
          /\ fails'[s] = kept
          /\ \A t \in Sources \ {s} : fails'[t] = fails[t] /\ blocked'[t] = blocked[t]
      <4> HIDE DEF kept
      <4> QED
        BY <1>3, <2>1, <3>1
    <3>3. LimitTyped'
      BY <1>1, <1>2, <1>3, <1>10, <2>2, <3>2 DEF LimitTyped
    <3>4. Horizon(s)' = Horizon(s) /\ Horizon(s) \in Nat /\ clock <= Horizon(s)
      <4>1. Horizon(s)' = Horizon(s)
        BY <1>1, <3>1 DEF Horizon
      <4> QED
        BY <1>3, <4>1, HorizonType
    <3>5. Since(looked, Horizon(s)) = Since(kept, Horizon(s))
      <4>1. SinceAfter(RecentWrong(s), clock, Horizon(s)) /\ SinceAfter(Recent(s), clock, Horizon(s))
        BY <1>3, <1>6, <3>4, SinceGrows
      <4>2. wrong[s] \in Seq(Nat) /\ fails[s] \in Seq(Nat) /\ clock \in Nat
        BY <1>3, TimesType
      <4>3. Since(RecentWrong(s), Horizon(s)) = Since(wrong[s], Horizon(s))
        BY <3>4, <4>2, SinceTwice DEF RecentWrong
      <4>4. Since(Recent(s), Horizon(s)) = Since(fails[s], Horizon(s))
        BY <3>4, <4>2, SinceTwice DEF Recent
      <4> QED
        BY <1>7, <4>1, <4>3, <4>4 DEF SinceAfter, SourceInv
    <3>6. ASSUME clock <= blocked[s]
          PROVE  Len(looked) + (Cardinality(Judged(s)) - 1) < FailLimit + Cardinality(AuthCalls)
      <4>1. Len(RecentWrong(s)) + Cardinality(Judged(s)) < FailLimit + Cardinality(AuthCalls)
        BY <1>7, <3>6 DEF SourceInv, RecentWrong
      <4> QED
        BY <1>5, <1>6, <2>1, <2>3, <4>1
    <3>7. SourceInv(s)'
      <4> HIDE DEF looked, kept
      <4>1. wrong'[s] \in Seq(0..clock') /\ Len(fails'[s]) < FailLimit
        BY <1>1, <2>1, <2>2, <2>7, <3>2
      <4>2. Since(wrong'[s], Horizon(s)') = Since(fails'[s], Horizon(s)')
        BY <2>2, <3>2, <3>4, <3>5
      <4>3. clock' <= blocked'[s] => Len(Since(wrong'[s], clock')) + Cardinality(Judged(s)') < FailLimit + Cardinality(AuthCalls)
        BY <1>1, <1>3, <1>4, <1>5, <2>2, <2>4, <3>1, <3>6
      <4> QED
        BY <4>1, <4>2, <4>3 DEF SourceInv
    <3>8. ASSUME NEW t \in Sources, t # s PROVE SourceInv(t)'
      BY <1>1, <1>4, <2>2, <3>2, <3>8, KeepsSource
    <3> QED
      BY <3>3, <3>7, <3>8, LimitParts
  <2> QED
    BY <2>5, <2>6, <2>7
<1> QED
  BY <1>1, <1>8, <1>9

LEMMA LimitStep == LimitInv /\ [SettingsNext]_settingVars => LimitInv'
<1> SUFFICES ASSUME LimitInv, [SettingsNext]_settingVars PROVE LimitInv'
  OBVIOUS
<1>1. ASSUME UNCHANGED limitVars PROVE LimitInv'
  <2>1. /\ UNCHANGED <<clock, fails, blocked, authCall, wrong>>
        /\ LimitTyped
    BY <1>1, LimitParts DEF limitVars
  <2>2. LimitTyped'
    BY <2>1 DEF LimitTyped
  <2>3. ASSUME NEW s \in Sources PROVE SourceInv(s)'
    <3>1. Judged(s)' = Judged(s)
      BY <2>1 DEF Judged
    <3> QED
      BY <2>1, <3>1, KeepsSource
  <2> QED
    BY <2>2, <2>3, LimitParts
<1>2. CASE \/ \E s \in Savers : Submit(s) \/ WriteConfig(s) \/ SetMemory(s) \/ UpdateDirs(s) \/ SetFilter(s)
           \/ \E e \in Editors : WriteProviders(e) \/ ResetOnce(e)
           \/ \E r \in Readers : Load(r) \/ Loaded(r)
  BY <1>1, <1>2 DEF Submit, WriteConfig, SetMemory, UpdateDirs, SetFilter, OnlyConfig,
                    WriteProviders, ResetOnce, Load, Loaded, OnlyProviders
<1>3. CASE UNCHANGED settingVars
  BY <1>1, <1>3 DEF settingVars
<1> QED
  BY <1>2, <1>3, ClockStep, EnterStep, AdmitStep, JudgeStep DEF SettingsNext

LEMMA LimitStart == SettingsInit => LimitInv
<1> SUFFICES ASSUME SettingsInit PROVE LimitInv
  OBVIOUS
<1>1. /\ clock = 1 /\ fails = [s \in Sources |-> <<>>] /\ blocked = [s \in Sources |-> 0]
      /\ authCall = [c \in AuthCalls |-> NoCall] /\ wrong = [s \in Sources |-> <<>>]
  BY DEF SettingsInit
<1>2. LimitTyped
  <2>1. <<>> \in Seq(Nat) /\ NoCall \in [src : Sources \cup {""}, right : BOOLEAN, at : {"idle", "listed", "judge"}]
        /\ NoCall.at = "idle"
    BY EmptySeq DEF NoCall
  <2>2. authCall \in [AuthCalls -> [src : Sources \cup {""}, right : BOOLEAN, at : {"idle", "listed", "judge"}]]
        /\ \A c \in AuthCalls : authCall[c].at = "idle"
    BY <1>1, <2>1
  <2>3. wrong = [s \in Sources |-> wrong[s]] /\ fails \in [Sources -> Seq(Nat)] /\ blocked \in [Sources -> Nat]
    BY <1>1, <2>1
  <2>4. clock \in Nat \ {0}
    BY <1>1
  <2>5. \A c \in AuthCalls : authCall[c].at # "idle" => authCall[c].src \in Sources
    BY <2>2
  <2> QED
    BY <2>2, <2>3, <2>4, <2>5, Zenon DEF LimitTyped
<1>3. ASSUME NEW s \in Sources PROVE SourceInv(s)
  <2>1. wrong[s] = <<>> /\ fails[s] = <<>> /\ blocked[s] = 0
    BY <1>1
  <2>2. <<>> \in Seq(0..clock) /\ Len(<<>>) < FailLimit /\ ~(clock <= 0)
    BY <1>1, Limits, EmptySeq
  <2> QED
    BY <2>1, <2>2 DEF SourceInv
<1> QED
  BY <1>2, <1>3, LimitParts

(* accessControl and tokenAuth: however the calls of a source interleave,     *)
(* the wrong tokens looked at within one window since its last right one      *)
(* stay below the limit plus the calls there can be at a time.               *)
THEOREM AttemptsAreBounded == SettingsSpec => []AttemptsBounded
BY LimitStart, LimitStep, LimitBound, PTL DEF SettingsSpec

-----------------------------------------------------------------------------
(* Comparing with a snapshot, for any databases, tables, edits, mappings and  *)
(* reads that fail.                                                         *)

DiffShape ==
    /\ diffCase \in DiffCases
    /\ DOMAIN now = SnapDbs /\ DOMAIN held = SnapDbs
    /\ \A d \in SnapDbs : \A t \in DOMAIN now[d] : t \in SnapTables /\ now[d][t] \in TableStates
    /\ \A d \in SnapDbs : \A t \in DOMAIN held[d] : t \in SnapTables /\ held[d][t] \in TableStates
    /\ DOMAIN shot \subseteq diffCase.dbs /\ toCompare \subseteq DOMAIN shot
    /\ toList \subseteq diffCase.dbs
    /\ \A p \in toRead : /\ p = [db |-> p.db, name |-> p.name, cols |-> p.cols]
                         /\ p.db \in diffCase.dbs /\ p.name \in SnapTables
    /\ step # "create" => toRead = {}

(* The columns of a table half read are those it had; one read in full is in  *)
(* the snapshot with what its two readings found.                             *)
InReading(d, t) == \E p \in toRead : p.db = d /\ p.name = t
HalfHeld ==
    \A p \in toRead : p.cols # NotRead =>
        p.name \in DOMAIN held[p.db] /\ held[p.db][p.name].cols = p.cols
KeptAsHeld(d, t) ==
    /\ t \in DOMAIN Kept(d) <=> t \in DOMAIN held[d]
    /\ t \in DOMAIN held[d] => Kept(d)[t] = held[d][t]
TakenAsHeld ==
    \A d \in diffCase.dbs, t \in SnapTables :
        ~InReading(d, t) /\ <<d, t>> \notin unsure => KeptAsHeld(d, t)

(* What the pairing says of a table, as things stand now.                    *)
Expected(d, t) ==
    IF t \notin DOMAIN held[d] THEN "targetOnly"
    ELSE IF t \in DOMAIN now[diffCase.paired[d]] THEN "both" ELSE "sourceOnly"
PairsAbout(d, t)    == {p \in pairs : p.of = d /\ p.name = t}
VerdictsAbout(d, t) == {v \in verdicts : v.of = d /\ v.name = t}
Paired(d, t, c) == [of |-> d, name |-> t, status |-> Expected(d, t), columns |-> c]
SameColumns(d, t) ==
    Expected(d, t) = "both" /\ held[d][t].cols = now[diffCase.paired[d]][t].cols
Settled(d, t) ==
    \/ PairsAbout(d, t) = {Paired(d, t, "unread")} /\ VerdictsAbout(d, t) = {}
    \/ PairsAbout(d, t) = {Paired(d, t, "same")} /\ SameColumns(d, t) /\ VerdictsAbout(d, t) = {}
    \/ PairsAbout(d, t) = {} /\ \E v : VerdictsAbout(d, t) = {v} /\ SummaryOf(v) = Reference(d, t)

Certain(d, t)  == <<d, t>> \notin unsure /\ <<diffCase.paired[d], t>> \notin touched
Concerned(d, t) == t \in DOMAIN held[d] \cup DOMAIN now[diffCase.paired[d]]

TellInv ==
    /\ step \in {"create", "idle"} => pairs = {} /\ verdicts = {}
    /\ \A d \in toCompare : (\A p \in pairs : p.of # d) /\ (\A v \in verdicts : v.of # d)
    /\ step \in {"compare", "finished"} /\ diffCase.filter = Unfiltered =>
          \A d \in DOMAIN shot \ toCompare : \A t \in SnapTables :
              Certain(d, t) /\ Concerned(d, t) => Settled(d, t)
    /\ step = "finished" => pairs = {} /\ toCompare = {}

DiffInv == DiffShape /\ HalfHeld /\ TakenAsHeld /\ TellInv

-----------------------------------------------------------------------------
LEMMA CaseFacts ==
    ASSUME DiffInv, NEW d \in DOMAIN shot
    PROVE  diffCase.paired[d] \in SnapDbs /\ diffCase.paired[d] = DiffTarget(d) /\ d \in SnapDbs /\ d \in diffCase.dbs
BY DiffAssumption DEF DiffInv, DiffShape, DiffTarget

LEMMA DiffStart == DiffInit => DiffInv
<1> SUFFICES ASSUME DiffInit PROVE DiffInv
  OBVIOUS
<1>1. DOMAIN shot = {} /\ DOMAIN NoTables = {}
  BY DEF DiffInit, NoTables
<1>2. diffCase \in DiffCases /\ now = diffCase.start /\ held = [d \in SnapDbs |-> NoTables] /\ toCompare = {}
      /\ step = "create" /\ pairs = {} /\ verdicts = {} /\ diffCase.dbs \subseteq SnapDbs
  BY DiffAssumption DEF DiffInit
<1>3. toRead = {} /\ toList = diffCase.dbs
  BY DEF DiffInit
<1>4. DiffShape
  BY <1>1, <1>2, <1>3, DiffAssumption DEF DiffShape
<1>5. HalfHeld /\ TakenAsHeld
  BY <1>1, <1>2, <1>3, DiffAssumption DEF HalfHeld, TakenAsHeld, KeptAsHeld, Kept
<1>6. TellInv
  BY <1>2 DEF TellInv
<1> QED
  BY <1>4, <1>5, <1>6 DEF DiffInv

(* What is kept and held, when the snapshot is not being written.            *)
LEMMA KeptSame ==
    ASSUME HalfHeld, TakenAsHeld, UNCHANGED <<diffCase, toRead, shot, held>>, unsure \subseteq unsure'
    PROVE  HalfHeld' /\ TakenAsHeld'
<1>1. HalfHeld'
  BY DEF HalfHeld
<1>2. ASSUME NEW d, NEW t PROVE (InReading(d, t)' <=> InReading(d, t)) /\ (KeptAsHeld(d, t) => KeptAsHeld(d, t)')
  BY DEF InReading, KeptAsHeld, Kept
<1> QED
  BY <1>1, <1>2 DEF TakenAsHeld

(* An edit changes one table of one database.                                *)
LEMMA EditStep == ASSUME DiffInv, NEW d \in SnapDbs, NEW t \in SnapTables, Edit(d, t) PROVE DiffInv'
<1>1. PICK tables : tables \in Changes(d, t) /\ now' = [now EXCEPT ![d] = tables]
  BY DEF Edit
<1>2. /\ touched' = touched \cup {<<d, t>>} /\ step \notin {"finished", "refused"}
      /\ diffCase' = diffCase /\ step' = step /\ toRead' = toRead /\ shot' = shot /\ held' = held
      /\ unsure' = unsure /\ toCompare' = toCompare /\ pairs' = pairs /\ verdicts' = verdicts /\ toList' = toList
  BY DEF Edit
<1>3. /\ \A x \in DOMAIN tables : x \in SnapTables /\ tables[x] \in TableStates
      /\ \A x \in SnapTables \ {t} : (x \in DOMAIN tables <=> x \in DOMAIN now[d]) /\ (x \in DOMAIN now[d] => tables[x] = now[d][x])
  <2>1. \A x \in DOMAIN now[d] : x \in SnapTables /\ now[d][x] \in TableStates
    BY DEF DiffInv, DiffShape
  <2>2. CASE t \in DOMAIN now[d]
    <3>1. now[d][t] \in TableStates
      BY <2>1, <2>2
    <3>2. PICK a, b : a = [now[d][t] EXCEPT !.cols = 1 - @] /\ b = [now[d][t] EXCEPT !.rows = 1 - @]
      OBVIOUS
    <3>3. a \in TableStates /\ b \in TableStates
      BY <3>1, <3>2 DEF TableStates
    <3>4. tables \in {Without(now[d], t), Put(now[d], t, a), Put(now[d], t, b)}
      BY <1>1, <2>2, <3>2 DEF Changes
    <3>5. CASE tables = Without(now[d], t)
      BY <2>1, <3>5 DEF Without
    <3>6. ASSUME NEW v \in TableStates, tables = Put(now[d], t, v)
          PROVE  /\ \A x \in DOMAIN tables : x \in SnapTables /\ tables[x] \in TableStates
                 /\ \A x \in SnapTables \ {t} : (x \in DOMAIN tables <=> x \in DOMAIN now[d]) /\ (x \in DOMAIN now[d] => tables[x] = now[d][x])
      BY <2>1, <3>6 DEF Put
    <3> QED
      BY <3>3, <3>4, <3>5, <3>6
  <2>3. CASE t \notin DOMAIN now[d]
    <3>1. PICK v : v = [cols |-> 0, rows |-> 0]
      OBVIOUS
    <3>2. v \in TableStates /\ tables = Put(now[d], t, v)
      BY <1>1, <2>3, <3>1 DEF Changes, TableStates
    <3> QED
      BY <2>1, <3>2 DEF Put
  <2> QED
    BY <2>2, <2>3
<1>4. DOMAIN now = SnapDbs /\ DOMAIN now' = SnapDbs /\ now'[d] = tables /\ \A e \in SnapDbs \ {d} : now'[e] = now[e]
  BY <1>1 DEF DiffInv, DiffShape
<1>5. DiffShape'
  BY <1>2, <1>3, <1>4 DEF DiffInv, DiffShape
<1>6. HalfHeld' /\ TakenAsHeld'
  BY <1>2, KeptSame DEF DiffInv
<1>7. ASSUME NEW e \in DOMAIN shot \ toCompare, NEW u \in SnapTables, Certain(e, u)', Concerned(e, u)',
             step \in {"compare", "finished"}, diffCase.filter = Unfiltered
      PROVE  Settled(e, u)'
  <2>1. PICK on : on = diffCase.paired[e]
    OBVIOUS
  <2>2. on \in SnapDbs /\ <<on, u>> # <<d, t>> /\ Certain(e, u)
    BY <1>2, <1>7, <2>1, CaseFacts DEF Certain
  <2>3. (u \in DOMAIN now'[on] <=> u \in DOMAIN now[on]) /\ (u \in DOMAIN now[on] => now'[on][u] = now[on][u])
    <3>1. CASE on = d
      BY <1>3, <1>4, <2>2, <3>1
    <3>2. CASE on # d
      BY <1>4, <2>2, <3>2
    <3> QED
      BY <3>1, <3>2
  <2>4. /\ Concerned(e, u) /\ Expected(e, u)' = Expected(e, u) /\ Reference(e, u)' = Reference(e, u)
        /\ SameColumns(e, u) => SameColumns(e, u)'
    BY <1>2, <1>7, <2>1, <2>3 DEF Concerned, Expected, Reference, SameColumns
  <2>5. Settled(e, u)
    BY <1>7, <2>2, <2>4 DEF DiffInv, TellInv
  <2>6. PairsAbout(e, u)' = PairsAbout(e, u) /\ VerdictsAbout(e, u)' = VerdictsAbout(e, u)
    BY <1>2 DEF PairsAbout, VerdictsAbout
  <2> QED
    BY <2>4, <2>5, <2>6 DEF Settled, Paired
<1>8. TellInv'
  BY <1>2, <1>7 DEF DiffInv, TellInv
<1> QED
  BY <1>5, <1>6, <1>8 DEF DiffInv

(* The tables of a database are listed: none of them is read yet.             *)
LEMMA ListStep == ASSUME DiffInv, ListTables PROVE DiffInv'
<1>1. PICK d \in toList :
        /\ toList' = toList \ {d}
        /\ \/ toRead' = {[db |-> d, name |-> t, cols |-> NotRead] : t \in DOMAIN now[d]} /\ step' = step
           \/ step' = "refused" /\ toRead' = toRead
  BY DEF ListTables
<1>2. /\ step = "create" /\ toRead = {} /\ diffCase' = diffCase /\ now' = now /\ shot' = shot /\ held' = held
      /\ unsure' = unsure /\ toCompare' = toCompare /\ pairs' = pairs /\ verdicts' = verdicts /\ touched' = touched
  BY DEF ListTables
<1>3. d \in diffCase.dbs /\ d \in SnapDbs
  BY DiffAssumption DEF DiffInv, DiffShape
<1>4. \A p \in toRead' : /\ p = [db |-> p.db, name |-> p.name, cols |-> p.cols]
                         /\ p.db \in diffCase.dbs /\ p.name \in SnapTables /\ p.cols = NotRead
  BY <1>1, <1>2, <1>3 DEF DiffInv, DiffShape
<1>5. DiffShape'
  BY <1>1, <1>2, <1>4 DEF DiffInv, DiffShape
<1>6. HalfHeld'
  BY <1>4 DEF HalfHeld
<1>7. TakenAsHeld'
  <2>1. ASSUME NEW e \in diffCase.dbs, NEW t \in SnapTables, <<e, t>> \notin unsure PROVE KeptAsHeld(e, t)'
    <3>1. KeptAsHeld(e, t)
      BY <1>2, <2>1 DEF DiffInv, TakenAsHeld, InReading
    <3> QED
      BY <1>2, <3>1 DEF KeptAsHeld, Kept
  <2> QED
    BY <1>2, <2>1 DEF TakenAsHeld
<1>8. TellInv'
  BY <1>1, <1>2 DEF DiffInv, DiffShape, TellInv
<1> QED
  BY <1>5, <1>6, <1>7, <1>8 DEF DiffInv

(* A step that reads one table, and leaves the others as they are.           *)
LEMMA OthersKept ==
    ASSUME DiffInv, NEW p \in toRead, diffCase' = diffCase, unsure \subseteq unsure',
           toRead \ {p} \subseteq toRead',
           \A e : \A u : (e # p.db \/ u # p.name) =>
               /\ u \in DOMAIN Kept(e)' <=> u \in DOMAIN Kept(e)
               /\ u \in DOMAIN Kept(e) => Kept(e)'[u] = Kept(e)[u]
               /\ e \in SnapDbs => /\ u \in DOMAIN held'[e] <=> u \in DOMAIN held[e]
                                   /\ u \in DOMAIN held[e] => held'[e][u] = held[e][u],
           InReading(p.db, p.name)' \/ <<p.db, p.name>> \in unsure' \/ KeptAsHeld(p.db, p.name)'
    PROVE  TakenAsHeld'
<1>1. ASSUME NEW e \in diffCase.dbs, NEW u \in SnapTables, ~InReading(e, u)', <<e, u>> \notin unsure'
      PROVE  KeptAsHeld(e, u)'
  <2>1. e \in SnapDbs
    BY DiffAssumption DEF DiffInv, DiffShape
  <2>2. CASE e # p.db \/ u # p.name
    <3>1. ~InReading(e, u)
      BY <1>1, <2>2 DEF InReading
    <3>2. KeptAsHeld(e, u)
      BY <1>1, <3>1 DEF DiffInv, TakenAsHeld
    <3> QED
      BY <2>1, <2>2, <3>2 DEF KeptAsHeld
  <2>3. CASE e = p.db /\ u = p.name
    BY <1>1, <2>3
  <2> QED
    BY <2>2, <2>3
<1> QED
  BY <1>1 DEF TakenAsHeld

(* The columns of a table are as it has them, or the table is in doubt.       *)
LEMMA ColumnsStep == ASSUME DiffInv, ReadColumns PROVE DiffInv'
<1>1. PICK p \in toRead :
        \/ /\ There(p.db, p.name)
           /\ toRead' = (toRead \ {p}) \cup {[p EXCEPT !.cols = now[p.db][p.name].cols]}
           /\ held' = [held EXCEPT ![p.db] = Put(@, p.name, now[p.db][p.name])]
           /\ shot' = shot /\ unsure' = unsure
        \/ /\ toRead' = toRead \ {p} /\ shot' = Put(shot, p.db, Kept(p.db)) /\ Miss(p.db, p.name)
  BY DEF ReadColumns
<1>2. /\ step = "create" /\ diffCase' = diffCase /\ now' = now /\ step' = step /\ toList' = toList
      /\ toCompare' = toCompare /\ pairs' = pairs /\ verdicts' = verdicts /\ touched' = touched
      /\ \A q \in toRead : q.cols = NotRead
  BY DEF ReadColumns
<1>3. PICK d, t : d = p.db /\ t = p.name
  OBVIOUS
<1>4. /\ d \in diffCase.dbs /\ d \in SnapDbs /\ t \in SnapTables /\ p = [db |-> d, name |-> t, cols |-> p.cols]
      /\ DOMAIN held = SnapDbs
  BY <1>3, DiffAssumption DEF DiffInv, DiffShape
<1>5. TellInv'
  BY <1>2 DEF DiffInv, DiffShape, TellInv
<1>6. CASE /\ There(d, t) /\ shot' = shot /\ unsure' = unsure
           /\ toRead' = (toRead \ {p}) \cup {[p EXCEPT !.cols = now[d][t].cols]}
           /\ held' = [held EXCEPT ![d] = Put(@, t, now[d][t])]
  <2>1. PICK v : v = now[d][t]
    OBVIOUS
  <2>2. v \in TableStates /\ held' = [held EXCEPT ![d] = Put(held[d], t, v)]
    BY <1>4, <1>6, <2>1 DEF DiffInv, DiffShape, There
  <2>3. PICK q : q = [db |-> d, name |-> t, cols |-> v.cols]
    OBVIOUS
  <2>4. toRead' = (toRead \ {p}) \cup {q}
    BY <1>4, <1>6, <2>1, <2>3
  <2>5. /\ DOMAIN held' = SnapDbs /\ (\A e \in SnapDbs \ {d} : held'[e] = held[e])
        /\ DOMAIN held'[d] = DOMAIN held[d] \cup {t} /\ held'[d][t] = v
        /\ \A u \in DOMAIN held[d] \ {t} : held'[d][u] = held[d][u]
    <3>1. PICK h : h = held[d]
      OBVIOUS
    <3>2. PICK w : w = Put(h, t, v)
      OBVIOUS
    <3>3. DOMAIN w = DOMAIN h \cup {t} /\ w[t] = v /\ \A u \in DOMAIN h \ {t} : w[u] = h[u]
      BY <3>2 DEF Put
    <3>4. held' = [held EXCEPT ![d] = w]
      BY <2>2, <3>1, <3>2
    <3>5. held'[d] = w /\ DOMAIN held' = SnapDbs /\ (\A e \in SnapDbs \ {d} : held'[e] = held[e])
      BY <1>4, <3>4
    <3> QED
      BY <3>1, <3>3, <3>5
  <2>6. DiffShape'
    <3>1. \A e \in SnapDbs : \A u \in DOMAIN held'[e] : u \in SnapTables /\ held'[e][u] \in TableStates
      BY <1>4, <2>2, <2>5 DEF DiffInv, DiffShape
    <3>2. \A x \in toRead' : /\ x = [db |-> x.db, name |-> x.name, cols |-> x.cols]
                             /\ x.db \in diffCase.dbs /\ x.name \in SnapTables
      BY <1>4, <2>3, <2>4 DEF DiffInv, DiffShape
    <3> QED
      BY <1>2, <1>6, <2>5, <3>1, <3>2 DEF DiffInv, DiffShape
  <2>7. HalfHeld'
    BY <1>2, <2>3, <2>4, <2>5 DEF HalfHeld
  <2>8. InReading(p.db, p.name)'
    BY <1>3, <2>3, <2>4 DEF InReading
  <2>9. \A e : Kept(e)' = Kept(e)
    BY <1>6 DEF Kept
  <2>10. TakenAsHeld'
    <3>1. diffCase' = diffCase /\ unsure \subseteq unsure' /\ toRead \ {p} \subseteq toRead'
      BY <1>2, <1>6, <2>4
    <3>2. ASSUME NEW e, NEW u, e # p.db \/ u # p.name
          PROVE  /\ u \in DOMAIN Kept(e)' <=> u \in DOMAIN Kept(e)
                 /\ u \in DOMAIN Kept(e) => Kept(e)'[u] = Kept(e)[u]
                 /\ e \in SnapDbs => /\ u \in DOMAIN held'[e] <=> u \in DOMAIN held[e]
                                     /\ u \in DOMAIN held[e] => held'[e][u] = held[e][u]
      <4>1. Kept(e)' = Kept(e)
        BY <2>9
      <4>2. CASE e = d
        BY <1>3, <2>5, <3>2, <4>1, <4>2
      <4>3. CASE e # d
        BY <2>5, <4>1, <4>3
      <4> QED
        BY <4>2, <4>3
    <3> QED
      BY <2>8, <3>1, <3>2, OthersKept
  <2> QED
    BY <1>5, <2>6, <2>7, <2>10 DEF DiffInv
<1>7. CASE toRead' = toRead \ {p} /\ shot' = Put(shot, d, Kept(d)) /\ Miss(d, t)
  <2>1. held' = held /\ unsure' = unsure \cup {<<d, t>>}
    BY <1>7 DEF Miss
  <2>2. DOMAIN shot' = DOMAIN shot \cup {d} /\ \A e : Kept(e)' = Kept(e)
    BY <1>7 DEF Kept, Put
  <2>3. DiffShape' /\ HalfHeld'
    BY <1>2, <1>4, <1>7, <2>1, <2>2 DEF DiffInv, DiffShape, HalfHeld
  <2>4. TakenAsHeld'
    BY <1>2, <1>3, <1>7, <2>1, <2>2, OthersKept
  <2> QED
    BY <1>5, <2>3, <2>4 DEF DiffInv
<1> QED
  BY <1>1, <1>3, <1>6, <1>7

(* The rows of a table are counted as they are, or the table is in doubt.     *)
LEMMA CountStep == ASSUME DiffInv, CountRows PROVE DiffInv'
<1>1. PICK p \in toRead :
        /\ p.cols # NotRead
        /\ \/ /\ There(p.db, p.name) /\ TakeTable(p, now[p.db][p.name].rows)
              /\ held' = [held EXCEPT ![p.db][p.name].rows = now[p.db][p.name].rows] /\ unsure' = unsure
           \/ TakeTable(p, 0) /\ Miss(p.db, p.name)
  BY DEF CountRows
<1>2. /\ step = "create" /\ diffCase' = diffCase /\ now' = now /\ step' = step /\ toList' = toList
      /\ toCompare' = toCompare /\ pairs' = pairs /\ verdicts' = verdicts /\ touched' = touched
  BY DEF CountRows
<1>3. PICK d, t, c : d = p.db /\ t = p.name /\ c = p.cols
  OBVIOUS
<1>4. /\ d \in diffCase.dbs /\ d \in SnapDbs /\ t \in SnapTables /\ DOMAIN held = SnapDbs
      /\ t \in DOMAIN held[d] /\ held[d][t].cols = c /\ held[d][t] \in TableStates
  BY <1>1, <1>3, DiffAssumption DEF DiffInv, DiffShape, HalfHeld
<1>5. PICK n : /\ toRead' = toRead \ {p} /\ shot' = Put(shot, d, Put(Kept(d), t, [cols |-> c, rows |-> n]))
               /\ \/ There(d, t) /\ n = now[d][t].rows /\ held' = [held EXCEPT ![d][t].rows = n] /\ unsure' = unsure
                  \/ held' = held /\ unsure' = unsure \cup {<<d, t>>}
  BY <1>1, <1>3 DEF TakeTable, Miss
<1>6. PICK v : v = [cols |-> c, rows |-> n]
  OBVIOUS
<1>7. /\ DOMAIN shot' = DOMAIN shot \cup {d} /\ Kept(d)' = Put(Kept(d), t, v)
      /\ \A e : e # d => Kept(e)' = Kept(e)
  BY <1>5, <1>6 DEF Put, Kept
<1>8. /\ DOMAIN held' = SnapDbs /\ (\A e \in SnapDbs \ {d} : held'[e] = held[e])
      /\ DOMAIN held'[d] = DOMAIN held[d] /\ (\A u \in DOMAIN held[d] \ {t} : held'[d][u] = held[d][u])
      /\ held'[d][t].cols = c /\ held'[d][t] \in TableStates
      /\ held'[d][t] = v \/ <<d, t>> \in unsure'
  <2>1. CASE There(d, t) /\ n = now[d][t].rows /\ held' = [held EXCEPT ![d][t].rows = n]
    <3>1. n \in {0, 1}
      BY <1>4, <2>1 DEF DiffInv, DiffShape, There, TableStates
    <3>2. held' = [held EXCEPT ![d] = [held[d] EXCEPT ![t] = [held[d][t] EXCEPT !.rows = n]]]
      BY <2>1
    <3>3. PICK w : w = [held[d][t] EXCEPT !.rows = n]
      OBVIOUS
    <3>4. w = v /\ v \in TableStates
      BY <1>4, <1>6, <3>1, <3>3 DEF TableStates
    <3>5. held'[d] = [held[d] EXCEPT ![t] = v] /\ DOMAIN held' = SnapDbs /\ (\A e \in SnapDbs \ {d} : held'[e] = held[e])
      BY <1>4, <3>2, <3>3, <3>4
    <3> QED
      BY <1>4, <1>6, <3>4, <3>5
  <2>2. CASE held' = held /\ unsure' = unsure \cup {<<d, t>>}
    BY <1>4, <2>2
  <2> QED
    BY <1>5, <2>1, <2>2
<1>9. unsure \subseteq unsure'
  BY <1>5
<1>10. DiffShape'
  <2>1. \A e \in SnapDbs : \A u \in DOMAIN held'[e] : u \in SnapTables /\ held'[e][u] \in TableStates
    BY <1>4, <1>8 DEF DiffInv, DiffShape
  <2> QED
    BY <1>2, <1>4, <1>5, <1>7, <1>8, <2>1 DEF DiffInv, DiffShape
<1>11. HalfHeld'
  <2> SUFFICES ASSUME NEW q \in toRead, q.cols # NotRead
               PROVE  q.name \in DOMAIN held'[q.db] /\ held'[q.db][q.name].cols = q.cols
    BY <1>5 DEF HalfHeld
  <2>1. q.name \in DOMAIN held[q.db] /\ held[q.db][q.name].cols = q.cols /\ q.db \in SnapDbs
    BY DiffAssumption DEF DiffInv, DiffShape, HalfHeld
  <2> QED
    BY <1>4, <1>8, <2>1
<1>12. \A u : u # t => (u \in DOMAIN Kept(d)' <=> u \in DOMAIN Kept(d)) /\ (u \in DOMAIN Kept(d) => Kept(d)'[u] = Kept(d)[u])
  BY <1>7 DEF Put
<1>13. <<d, t>> \in unsure' \/ KeptAsHeld(d, t)'
  <2>1. PICK k : k = Kept(d)
    OBVIOUS
  <2>2. t \in DOMAIN Put(k, t, v) /\ Put(k, t, v)[t] = v
    BY DEF Put
  <2>3. t \in DOMAIN Kept(d)' /\ Kept(d)'[t] = v
    BY <1>7, <2>1, <2>2
  <2>4. t \in DOMAIN held'[d]
    BY <1>4, <1>8
  <2> QED
    BY <1>8, <2>3, <2>4 DEF KeptAsHeld
<1>14. TakenAsHeld'
  <2>1. diffCase' = diffCase /\ toRead \ {p} \subseteq toRead'
    BY <1>2, <1>5
  <2>2. ASSUME NEW e, NEW u, e # p.db \/ u # p.name
        PROVE  /\ u \in DOMAIN Kept(e)' <=> u \in DOMAIN Kept(e)
               /\ u \in DOMAIN Kept(e) => Kept(e)'[u] = Kept(e)[u]
               /\ e \in SnapDbs => /\ u \in DOMAIN held'[e] <=> u \in DOMAIN held[e]
                                   /\ u \in DOMAIN held[e] => held'[e][u] = held[e][u]
    <3>1. CASE e = d
      BY <1>3, <1>8, <1>12, <2>2, <3>1
    <3>2. CASE e # d
      BY <1>7, <1>8, <3>2
    <3> QED
      BY <3>1, <3>2
  <2>3. <<p.db, p.name>> \in unsure' \/ KeptAsHeld(p.db, p.name)'
    BY <1>3, <1>13
  <2> QED
    BY <1>9, <2>1, <2>2, <2>3, OthersKept
<1>15. TellInv'
  BY <1>2 DEF DiffInv, DiffShape, TellInv
<1> QED
  BY <1>10, <1>11, <1>14, <1>15 DEF DiffInv

LEMMA TakenStep == ASSUME DiffInv, SaveSnapshot PROVE DiffInv'
<1>1. /\ step = "create" /\ toRead = {} /\ step' \in {"refused", "idle"}
      /\ diffCase' = diffCase /\ now' = now /\ toRead' = toRead /\ toList' = toList /\ shot' = shot /\ held' = held /\ unsure' = unsure
      /\ toCompare' = toCompare /\ pairs' = pairs /\ verdicts' = verdicts /\ touched' = touched
  BY DEF SaveSnapshot
<1>2. DiffShape' /\ HalfHeld' /\ TakenAsHeld'
  BY <1>1, KeptSame DEF DiffInv, DiffShape
<1>3. TellInv'
  BY <1>1 DEF DiffInv, TellInv
<1> QED
  BY <1>2, <1>3 DEF DiffInv

LEMMA BeginStep == ASSUME DiffInv, BeginDiff PROVE DiffInv'
<1>1. /\ step = "idle" /\ step' = "compare" /\ toCompare' = DOMAIN shot
      /\ diffCase' = diffCase /\ now' = now /\ toRead' = toRead /\ toList' = toList /\ shot' = shot /\ held' = held /\ unsure' = unsure
      /\ pairs' = pairs /\ verdicts' = verdicts
  BY DEF BeginDiff
<1>2. DiffShape' /\ HalfHeld' /\ TakenAsHeld'
  BY <1>1, KeptSame DEF DiffInv, DiffShape
<1>3. TellInv'
  BY <1>1 DEF DiffInv, TellInv
<1> QED
  BY <1>2, <1>3 DEF DiffInv

(* A database is paired: each table that is not in doubt gets one pair.      *)
LEMMA PairStep == ASSUME DiffInv, DiffDatabase PROVE DiffInv'
<1>1. PICK d \in toCompare : toCompare' = toCompare \ {d} /\ pairs' = PairsOf(d)
  BY DEF DiffDatabase
<1>2. /\ step = "compare" /\ pairs = {} /\ step' = step
      /\ diffCase' = diffCase /\ now' = now /\ toRead' = toRead /\ toList' = toList /\ shot' = shot /\ held' = held /\ unsure' = unsure
      /\ verdicts' = verdicts /\ touched' = touched
  BY DEF DiffDatabase
<1>3. DiffShape' /\ HalfHeld' /\ TakenAsHeld'
  BY <1>1, <1>2, KeptSame DEF DiffInv, DiffShape
<1>4. \A p \in pairs' : p.of = d
  BY <1>1 DEF PairsOf, Pair
<1>5. ASSUME NEW e \in DOMAIN shot \ toCompare', NEW u \in SnapTables, Certain(e, u), Concerned(e, u),
             diffCase.filter = Unfiltered
      PROVE  Settled(e, u)'
  <2>1. VerdictsAbout(e, u)' = VerdictsAbout(e, u) /\ Reference(e, u)' = Reference(e, u)
        /\ Expected(e, u)' = Expected(e, u)
    BY <1>2 DEF VerdictsAbout, Reference, Expected
  <2>2. CASE e # d
    <3>1. Settled(e, u)
      BY <1>1, <1>2, <1>5, <2>2 DEF DiffInv, TellInv
    <3>2. PairsAbout(e, u) = {} /\ PairsAbout(e, u)' = {}
      BY <1>2, <1>4, <2>2 DEF PairsAbout
    <3> QED
      BY <1>2, <2>1, <3>1, <3>2 DEF Settled, Paired
  <2>3. CASE e = d
    <3>1. VerdictsAbout(d, u) = {}
      BY DEF VerdictsAbout, DiffInv, TellInv
    <3>2. diffCase.paired[d] = DiffTarget(d) /\ d \in diffCase.dbs /\ d \in DOMAIN shot
      BY <1>5, <2>3, CaseFacts
    <3>3. PICK there : there = DOMAIN now[DiffTarget(d)]
      OBVIOUS
    <3>4. /\ DOMAIN shot[d] = DOMAIN Kept(d) /\ (u \in DOMAIN shot[d] <=> u \in DOMAIN held[d])
      BY <1>2, <1>5, <2>3, <3>2 DEF DiffInv, DiffShape, TakenAsHeld, KeptAsHeld, InReading, Kept, Certain
    <3>5. pairs' = {[of |-> d, name |-> t, status |-> IF t \in there THEN "both" ELSE "sourceOnly", columns |-> "unread"] :
                       t \in DOMAIN shot[d]}
                     \cup {[of |-> d, name |-> t, status |-> "targetOnly", columns |-> "unread"] : t \in there \ DOMAIN shot[d]}
      BY <1>1, <1>5, <3>3 DEF PairsOf, Pair, Selected
    <3>6. u \in DOMAIN held[d] \cup there
      BY <1>5, <2>3, <3>2, <3>3 DEF Concerned
    <3>7. PICK s : s = Expected(d, u)
      OBVIOUS
    <3>8. s = IF u \notin DOMAIN held[d] THEN "targetOnly" ELSE IF u \in there THEN "both" ELSE "sourceOnly"
      BY <3>2, <3>3, <3>7 DEF Expected
    <3>9. {p \in pairs' : p.of = d /\ p.name = u} = {[of |-> d, name |-> u, status |-> s, columns |-> "unread"]}
      <4>1. [of |-> d, name |-> u, status |-> s, columns |-> "unread"] \in pairs'
        BY <3>4, <3>5, <3>6, <3>8
      <4>2. ASSUME NEW p \in pairs', p.name = u PROVE p = [of |-> d, name |-> u, status |-> s, columns |-> "unread"]
        BY <3>4, <3>5, <3>6, <3>8, <4>2
      <4> QED
        BY <4>1, <4>2
    <3>10. PairsAbout(d, u)' = {Paired(d, u, "unread")}
      BY <3>7, <3>9 DEF PairsAbout, Paired
    <3> QED
      BY <2>1, <2>3, <3>1, <3>10 DEF Settled, Paired
  <2> QED
    BY <2>2, <2>3
<1>6. TellInv'
  <2>1. \A e \in toCompare' : (\A p \in pairs' : p.of # e) /\ (\A v \in verdicts' : v.of # e)
    BY <1>1, <1>2, <1>4 DEF DiffInv, TellInv
  <2>2. ASSUME NEW e \in DOMAIN shot \ toCompare', NEW u \in SnapTables, Certain(e, u)', Concerned(e, u)',
               diffCase.filter = Unfiltered
        PROVE  Settled(e, u)'
    BY <1>2, <1>5, <2>2 DEF Certain, Concerned
  <2> QED
    BY <1>2, <2>1, <2>2 DEF TellInv
<1> QED
  BY <1>3, <1>6 DEF DiffInv

(* A table about which nothing moves stays settled.                          *)
LEMMA SettledSame ==
    ASSUME UNCHANGED <<diffCase, now, held, pairs, verdicts>>, NEW d, NEW t, Settled(d, t)
    PROVE  Settled(d, t)'
<1>1. /\ PairsAbout(d, t)' = PairsAbout(d, t) /\ VerdictsAbout(d, t)' = VerdictsAbout(d, t)
      /\ Expected(d, t)' = Expected(d, t) /\ Reference(d, t)' = Reference(d, t)
      /\ SameColumns(d, t) => SameColumns(d, t)'
  BY DEF PairsAbout, VerdictsAbout, Expected, Reference, SameColumns
<1> QED
  BY <1>1 DEF Settled, Paired

(* A step of the comparison of one table is enough for all of them.           *)
LEMMA CompareStep ==
    ASSUME DiffInv, step = "compare", NEW p \in pairs, unsure \subseteq unsure',
           UNCHANGED <<diffCase, now, step, toList, toRead, shot, held, toCompare, touched>>,
           \A q \in (pairs' \ pairs) \cup (pairs \ pairs') : q.of = p.of /\ q.name = p.name,
           \A v \in (verdicts' \ verdicts) \cup (verdicts \ verdicts') : v.of = p.of /\ v.name = p.name,
           p.of \in DOMAIN shot \ toCompare /\ p.name \in SnapTables /\ Certain(p.of, p.name)'
             /\ Concerned(p.of, p.name) /\ diffCase.filter = Unfiltered => Settled(p.of, p.name)'
    PROVE  DiffInv'
<1>1. DiffShape' /\ HalfHeld' /\ TakenAsHeld'
  BY KeptSame DEF DiffInv, DiffShape
<1>2. ASSUME NEW e \in DOMAIN shot \ toCompare, NEW u \in SnapTables, Certain(e, u)', Concerned(e, u),
             diffCase.filter = Unfiltered
      PROVE  Settled(e, u)'
  <2>1. Certain(e, u)
    BY <1>2 DEF Certain
  <2>2. CASE e = p.of /\ u = p.name
    BY <1>2, <2>2
  <2>3. CASE ~(e = p.of /\ u = p.name)
    <3>1. Settled(e, u)
      BY <1>2, <2>1 DEF DiffInv, TellInv
    <3>2. PairsAbout(e, u)' = PairsAbout(e, u) /\ VerdictsAbout(e, u)' = VerdictsAbout(e, u)
      BY <2>3 DEF PairsAbout, VerdictsAbout
    <3>3. /\ Reference(e, u)' = Reference(e, u) /\ Expected(e, u)' = Expected(e, u)
          /\ SameColumns(e, u) => SameColumns(e, u)'
      BY DEF Reference, Expected, SameColumns
    <3> QED
      BY <3>1, <3>2, <3>3 DEF Settled, Paired
  <2> QED
    BY <2>2, <2>3
<1>3. TellInv'
  <2>1. \A e \in toCompare' : (\A q \in pairs' : q.of # e) /\ (\A w \in verdicts' : w.of # e)
    BY DEF DiffInv, TellInv
  <2>2. ASSUME NEW e \in DOMAIN shot \ toCompare, NEW u \in SnapTables, Certain(e, u)', Concerned(e, u)',
               diffCase.filter = Unfiltered
        PROVE  Settled(e, u)'
    BY <1>2, <2>2 DEF Concerned
  <2> QED
    BY <2>1, <2>2 DEF TellInv
<1> QED
  BY <1>1, <1>3 DEF DiffInv

(* What is compared of a table that can be read: the snapshot has it as it    *)
(* was held, and the database as it is.                                       *)
LEMMA ComparesRight ==
    ASSUME DiffInv, step = "compare", NEW p \in pairs, p.status = "both",
           p.of \in DOMAIN shot \ toCompare, p.name \in SnapTables, Certain(p.of, p.name),
           Concerned(p.of, p.name), diffCase.filter = Unfiltered
    PROVE  /\ PairsAbout(p.of, p.name) = {p} /\ VerdictsAbout(p.of, p.name) = {}
           /\ Expected(p.of, p.name) = "both"
           /\ p.columns \in {"unread", "same"} /\ p = Paired(p.of, p.name, p.columns)
           /\ p.columns = "same" => SameColumns(p.of, p.name)
           /\ Counterpart(p) = now[diffCase.paired[p.of]][p.name] /\ Counterpart(p) # Absent
           /\ shot[p.of][p.name] = held[p.of][p.name]
<1>1. p \in PairsAbout(p.of, p.name) /\ Settled(p.of, p.name)
  BY DEF PairsAbout, DiffInv, TellInv
<1>2. PICK c \in {"unread", "same"} :
        /\ PairsAbout(p.of, p.name) = {Paired(p.of, p.name, c)} /\ VerdictsAbout(p.of, p.name) = {}
        /\ c = "same" => SameColumns(p.of, p.name)
  BY <1>1 DEF Settled
<1>3. p = Paired(p.of, p.name, c) /\ p.columns = c /\ Expected(p.of, p.name) = "both"
  <2>1. p = Paired(p.of, p.name, c)
    BY <1>1, <1>2
  <2>2. Paired(p.of, p.name, c).columns = c /\ Paired(p.of, p.name, c).status = Expected(p.of, p.name)
    BY DEF Paired
  <2> QED
    BY <2>1, <2>2
<1>4. p.name \in DOMAIN held[p.of] /\ p.name \in DOMAIN now[diffCase.paired[p.of]]
  BY <1>3 DEF Expected
<1>5. /\ diffCase.paired[p.of] = DiffTarget(p.of) /\ diffCase.paired[p.of] \in SnapDbs /\ p.of \in diffCase.dbs
  BY CaseFacts
<1>6. Counterpart(p) = now[diffCase.paired[p.of]][p.name]
  BY <1>4, <1>5 DEF Counterpart, There
<1>7. Counterpart(p) # Absent
  <2>1. now[diffCase.paired[p.of]][p.name] \in TableStates
    BY <1>4, <1>5 DEF DiffInv, DiffShape
  <2> QED
    BY <1>6, <2>1 DEF TableStates, Absent
<1>8. shot[p.of][p.name] = held[p.of][p.name]
  BY <1>4, <1>5 DEF DiffInv, DiffShape, TakenAsHeld, KeptAsHeld, InReading, Kept, Certain
<1> QED
  BY <1>1, <1>2, <1>3, <1>6, <1>7, <1>8

(* What concluding a pair leaves.                                            *)
LEMMA Concludes ==
    ASSUME NEW p \in pairs, NEW columns, NEW content, Conclude(p, columns, content)
    PROVE  /\ \A q \in (pairs' \ pairs) \cup (pairs \ pairs') : q.of = p.of /\ q.name = p.name
           /\ \A v \in (verdicts' \ verdicts) \cup (verdicts \ verdicts') : v.of = p.of /\ v.name = p.name
           /\ PairsAbout(p.of, p.name) = {p} => PairsAbout(p.of, p.name)' = {}
           /\ VerdictsAbout(p.of, p.name) = {} => VerdictsAbout(p.of, p.name)' = {Verdict(p, columns, content)}
<1>1. Verdict(p, columns, content).of = p.of /\ Verdict(p, columns, content).name = p.name
  BY DEF Verdict
<1>2. pairs' = pairs \ {p} /\ verdicts' = verdicts \cup {Verdict(p, columns, content)}
  BY DEF Conclude
<1> QED
  BY <1>1, <1>2 DEF PairsAbout, VerdictsAbout

(* The columns of a table that can be read are compared with those held.      *)
LEMMA DiffColumnsStep == ASSUME DiffInv, DiffColumns PROVE DiffInv'
<1>1. PICK p \in pairs :
        \/ p.status # "both" /\ Conclude(p, "none", "none") /\ unsure' = unsure
        \/ /\ p.status = "both"
           /\ \E columns \in ColumnDiff(p, Counterpart(p)) :
                /\ Doubt(p, columns)
                /\ IF columns = "differ" THEN Conclude(p, "differ", "skipped")
                   ELSE /\ pairs' = (pairs \ {p}) \cup {[p EXCEPT !.columns = columns]}
                        /\ verdicts' = verdicts
  BY DEF DiffColumns
<1>2. /\ step = "compare" /\ \A q \in pairs : q.columns = "unread"
      /\ UNCHANGED <<diffCase, now, step, toList, toRead, shot, held, toCompare, touched>>
  BY DEF DiffColumns
<1>3. PICK e, u : e = p.of /\ u = p.name
  OBVIOUS
<1>4. CASE p.status # "both" /\ Conclude(p, "none", "none") /\ unsure' = unsure
  <2>1. ASSUME e \in DOMAIN shot \ toCompare, u \in SnapTables, Certain(e, u)', Concerned(e, u),
               diffCase.filter = Unfiltered
        PROVE  Settled(e, u)'
    <3>1. Settled(e, u) /\ p \in PairsAbout(e, u)
      BY <1>2, <1>3, <1>4, <2>1 DEF PairsAbout, Certain, DiffInv, TellInv
    <3>2. p = Paired(e, u, "unread") /\ PairsAbout(e, u) = {p} /\ VerdictsAbout(e, u) = {}
      BY <1>4, <3>1 DEF Settled, SameColumns, Paired
    <3>3. p.status = Expected(e, u)
      BY <3>2 DEF Paired
    <3>4. PairsAbout(e, u)' = {} /\ VerdictsAbout(e, u)' = {Verdict(p, "none", "none")}
      BY <1>3, <1>4, <3>2, Concludes
    <3>5. SummaryOf(Verdict(p, "none", "none")) = Expected(e, u)
      BY <1>4, <3>3 DEF SummaryOf, Verdict
    <3>6. Expected(e, u) = Reference(e, u) /\ Reference(e, u)' = Reference(e, u)
      BY <1>2, <1>4, <3>3 DEF Expected, Reference
    <3> QED
      BY <3>4, <3>5, <3>6 DEF Settled
  <2> QED
    BY <1>2, <1>3, <1>4, <2>1, CompareStep, Concludes
<1>5. CASE /\ p.status = "both"
           /\ \E columns \in ColumnDiff(p, Counterpart(p)) :
                /\ Doubt(p, columns)
                /\ IF columns = "differ" THEN Conclude(p, "differ", "skipped")
                   ELSE /\ pairs' = (pairs \ {p}) \cup {[p EXCEPT !.columns = columns]}
                        /\ verdicts' = verdicts
  <2>1. PICK columns \in ColumnDiff(p, Counterpart(p)) :
          /\ Doubt(p, columns)
          /\ IF columns = "differ" THEN Conclude(p, "differ", "skipped")
             ELSE /\ pairs' = (pairs \ {p}) \cup {[p EXCEPT !.columns = columns]}
                  /\ verdicts' = verdicts
    BY <1>5
  <2>2. unsure \subseteq unsure' /\ (columns = "none" => <<e, u>> \in unsure')
    BY <1>3, <2>1 DEF Doubt
  <2>3. ASSUME e \in DOMAIN shot \ toCompare, u \in SnapTables, Certain(e, u)', Concerned(e, u),
               diffCase.filter = Unfiltered
        PROVE  Settled(e, u)'
    <3>1. Certain(e, u) /\ columns # "none"
      BY <1>2, <2>2, <2>3 DEF Certain
    <3>2. /\ PairsAbout(e, u) = {p} /\ VerdictsAbout(e, u) = {} /\ Expected(e, u) = "both"
          /\ p = Paired(e, u, "unread")
          /\ Counterpart(p) = now[diffCase.paired[e]][u] /\ Counterpart(p) # Absent
          /\ shot[e][u] = held[e][u]
      BY <1>2, <1>3, <1>5, <2>3, <3>1, ComparesRight
    <3>3. columns = IF held[e][u].cols = now[diffCase.paired[e]][u].cols THEN "same" ELSE "differ"
      BY <1>3, <2>1, <3>1, <3>2 DEF ColumnDiff, Outcomes
    <3>4. Reference(e, u)' = Reference(e, u) /\ Expected(e, u)' = Expected(e, u)
      BY <1>2 DEF Reference, Expected
    <3>5. CASE columns = "differ"
      <4>1. PairsAbout(e, u)' = {} /\ VerdictsAbout(e, u)' = {Verdict(p, "differ", "skipped")}
        BY <1>3, <2>1, <3>2, <3>5, Concludes
      <4>2. SummaryOf(Verdict(p, "differ", "skipped")) = "structureDiff"
        BY <1>5 DEF SummaryOf, Verdict
      <4>3. Reference(e, u) = "structureDiff"
        BY <3>2, <3>3, <3>5 DEF Expected, Reference
      <4> QED
        BY <3>4, <4>1, <4>2, <4>3 DEF Settled
    <3>6. CASE columns = "same"
      <4>1. pairs' = (pairs \ {p}) \cup {Paired(e, u, "same")} /\ verdicts' = verdicts
        <5>1. [p EXCEPT !.columns = columns] = Paired(e, u, "same")
          BY <3>2, <3>6 DEF Paired
        <5> QED
          BY <2>1, <3>6, <5>1
      <4>2. Paired(e, u, "same").of = e /\ Paired(e, u, "same").name = u
        BY DEF Paired
      <4>3. PairsAbout(e, u)' = {Paired(e, u, "same")} /\ VerdictsAbout(e, u)' = {}
        BY <3>2, <4>1, <4>2 DEF PairsAbout, VerdictsAbout
      <4>4. SameColumns(e, u)'
        BY <1>2, <3>2, <3>3, <3>4, <3>6 DEF SameColumns
      <4> QED
        BY <3>4, <4>3, <4>4 DEF Settled, Paired
    <3> QED
      BY <3>3, <3>5, <3>6
  <2>4. /\ \A q \in (pairs' \ pairs) \cup (pairs \ pairs') : q.of = e /\ q.name = u
        /\ \A v \in (verdicts' \ verdicts) \cup (verdicts \ verdicts') : v.of = e /\ v.name = u
    <3>1. CASE columns = "differ"
      BY <1>3, <2>1, <3>1, Concludes
    <3>2. CASE columns # "differ"
      <4>1. PICK r : r = [p EXCEPT !.columns = columns]
        OBVIOUS
      <4>2. r.of = e /\ r.name = u
        BY <1>3, <4>1
      <4> QED
        BY <1>3, <2>1, <3>2, <4>1, <4>2
    <3> QED
      BY <3>1, <3>2
  <2> QED
    BY <1>2, <1>3, <2>2, <2>3, <2>4, CompareStep
<1> QED
  BY <1>1, <1>4, <1>5

(* Its rows are, when its columns were alike.                                 *)
LEMMA DiffRowsStep == ASSUME DiffInv, DiffRows PROVE DiffInv'
<1>0. PICK p \in {q \in pairs : q.columns # "unread"} :
        \E content \in DataDiff(p, Counterpart(p)) : Conclude(p, p.columns, content) /\ Doubt(p, content)
  BY DEF DiffRows
<1>1. PICK content \in DataDiff(p, Counterpart(p)) :
        /\ p \in pairs /\ p.columns # "unread"
        /\ Conclude(p, p.columns, content) /\ Doubt(p, content)
  BY <1>0
<1>2. /\ step = "compare"
      /\ UNCHANGED <<diffCase, now, step, toList, toRead, shot, held, toCompare, touched>>
  BY DEF DiffRows
<1>3. PICK e, u : e = p.of /\ u = p.name
  OBVIOUS
<1>4. unsure \subseteq unsure' /\ (content = "none" => <<e, u>> \in unsure')
  BY <1>1, <1>3 DEF Doubt
<1>5. ASSUME e \in DOMAIN shot \ toCompare, u \in SnapTables, Certain(e, u)', Concerned(e, u),
             diffCase.filter = Unfiltered
      PROVE  Settled(e, u)'
  <2>1. Certain(e, u) /\ content # "none"
    BY <1>2, <1>4, <1>5 DEF Certain
  <2>2. Settled(e, u) /\ p \in PairsAbout(e, u)
    BY <1>2, <1>3, <1>5, <2>1 DEF PairsAbout, DiffInv, TellInv
  <2>3. p.status = "both"
    <3>1. PairsAbout(e, u) # {Paired(e, u, "unread")} /\ PairsAbout(e, u) # {}
      BY <1>1, <2>2 DEF Paired
    <3>2. p = Paired(e, u, "same") /\ SameColumns(e, u)
      BY <2>2, <3>1 DEF Settled
    <3> QED
      BY <3>2 DEF SameColumns, Paired
  <2>4. /\ PairsAbout(e, u) = {p} /\ VerdictsAbout(e, u) = {} /\ p.columns = "same" /\ SameColumns(e, u)
        /\ Counterpart(p) = now[diffCase.paired[e]][u] /\ Counterpart(p) # Absent
        /\ shot[e][u] = held[e][u]
    BY <1>1, <1>2, <1>3, <1>5, <2>1, <2>3, ComparesRight
  <2>5. content = IF held[e][u].rows = now[diffCase.paired[e]][u].rows THEN "same" ELSE "differ"
    BY <1>1, <1>3, <2>1, <2>4 DEF DataDiff, Outcomes
  <2>6. PairsAbout(e, u)' = {} /\ VerdictsAbout(e, u)' = {Verdict(p, p.columns, content)}
    BY <1>1, <1>3, <2>4, Concludes
  <2>7. SummaryOf(Verdict(p, p.columns, content)) = IF content = "differ" THEN "dataDiff" ELSE "matched"
    BY <2>3, <2>4 DEF SummaryOf, Verdict
  <2>8. Reference(e, u)' = Reference(e, u)
        /\ Reference(e, u) = IF content = "differ" THEN "dataDiff" ELSE "matched"
    BY <1>2, <2>4, <2>5 DEF SameColumns, Expected, Reference
  <2> QED
    BY <2>6, <2>7, <2>8 DEF Settled
<1> QED
  BY <1>1, <1>2, <1>3, <1>4, <1>5, CompareStep, Concludes

LEMMA EndStep == ASSUME DiffInv, EndDiff PROVE DiffInv'
<1>1. /\ step = "compare" /\ step' = "finished" /\ toCompare = {} /\ pairs = {}
      /\ diffCase' = diffCase /\ now' = now /\ toRead' = toRead /\ toList' = toList /\ shot' = shot /\ held' = held /\ unsure' = unsure
      /\ toCompare' = toCompare /\ pairs' = pairs /\ verdicts' = verdicts /\ touched' = touched
  BY DEF EndDiff
<1>2. DiffShape' /\ HalfHeld' /\ TakenAsHeld'
  BY <1>1, KeptSame DEF DiffInv, DiffShape
<1>3. TellInv'
  BY <1>1, SettledSame DEF DiffInv, TellInv, Certain, Concerned
<1> QED
  BY <1>2, <1>3 DEF DiffInv

LEMMA DiffStep == DiffInv /\ [DiffNext]_diffVars => DiffInv'
<1> SUFFICES ASSUME DiffInv, [DiffNext]_diffVars PROVE DiffInv'
  OBVIOUS
<1>1. CASE \E d \in SnapDbs, t \in SnapTables : Edit(d, t)
  BY <1>1, EditStep
<1>2. CASE ListTables \/ ReadColumns \/ CountRows
  BY <1>2, ListStep, ColumnsStep, CountStep
<1>3. CASE SaveSnapshot
  BY <1>3, TakenStep
<1>4. CASE BeginDiff
  BY <1>4, BeginStep
<1>5. CASE DiffDatabase
  BY <1>5, PairStep
<1>6. CASE DiffColumns \/ DiffRows
  BY <1>6, DiffColumnsStep, DiffRowsStep
<1>7. CASE EndDiff
  BY <1>7, EndStep
<1>8. CASE DiffOver \/ UNCHANGED diffVars
  <2>1. /\ step' = step /\ diffCase' = diffCase /\ now' = now /\ toRead' = toRead /\ toList' = toList /\ shot' = shot /\ held' = held
        /\ unsure' = unsure /\ toCompare' = toCompare /\ pairs' = pairs /\ verdicts' = verdicts /\ touched' = touched
    BY <1>8 DEF DiffOver, diffVars
  <2>2. DiffShape' /\ HalfHeld' /\ TakenAsHeld'
    BY <2>1, KeptSame DEF DiffInv, DiffShape
  <2>3. TellInv'
    BY <2>1, SettledSame DEF DiffInv, TellInv, Certain, Concerned
  <2> QED
    BY <2>2, <2>3 DEF DiffInv
<1> QED
  BY <1>1, <1>2, <1>3, <1>4, <1>5, <1>6, <1>7, <1>8 DEF DiffNext

LEMMA DiffMeaning == DiffInv => ChangesAreTold
<1> SUFFICES ASSUME DiffInv, step = "finished", diffCase.filter = Unfiltered,
                    NEW d \in DOMAIN shot, NEW t \in DOMAIN held[d] \cup DOMAIN now[diffCase.paired[d]],
                    <<d, t>> \notin unsure, <<diffCase.paired[d], t>> \notin touched
             PROVE  /\ Cardinality(VerdictsAbout(d, t)) = 1
                    /\ \A v \in VerdictsAbout(d, t) : SummaryOf(v) = Reference(d, t)
  BY DEF ChangesAreTold, VerdictsAbout
<1>1. t \in SnapTables
  BY CaseFacts DEF DiffInv, DiffShape
<1>2. Settled(d, t) /\ PairsAbout(d, t) = {}
  BY <1>1 DEF DiffInv, TellInv, Certain, Concerned, PairsAbout
<1>3. PICK v : VerdictsAbout(d, t) = {v} /\ SummaryOf(v) = Reference(d, t)
  BY <1>2 DEF Settled
<1> QED
  BY <1>3, FS_Singleton

(* RunSnapshotCompare: whatever is edited before, between and during taking    *)
(* a snapshot and comparing it, every table is told once, as its columns and    *)
(* its rows changed since each was read, in the database it belongs to; but for tables that could not be read or were    *)
(* edited while the comparison ran.                                           *)
THEOREM ChangesAreSeen == DiffSpec => []ChangesAreTold
BY DiffStart, DiffStep, DiffMeaning, PTL DEF DiffSpec


-----------------------------------------------------------------------------
(* The index of the snapshots (Spec is that of SnapshotIndex) is right for any *)
(* number of instances, calls and entries of the old index, whatever faults    *)
(* they meet.                                                                  *)
Running == {"ensure", "lock", "act"} \cup Importing

(* The scenario does not change, and calls run on its instances. *)
Placed ==
    /\ scenario \in Scenarios
    /\ \A c \in Calls : ~At(c, "unused") => Inst(c) \in scenario.instances

(* What a call is for. *)
Purpose ==
    \A c \in Calls :
        /\ At(c, "save") => Does(c, "create")
        /\ At(c, "data") => Does(c, "delete")
        /\ Does(c, "create") => call[c].id = c
        /\ Does(c, "delete") => call[c].id \in Ids

(* How far an import has got: what lies behind it is in the index. *)
Present(id) == id \in rows \/ DeletionAsked(id)
Imported ==
    \A c \in Calls :
        /\ call[c].pc \in {"unused", "save", "ensure", "lock", "marker", "legacy"} =>
              call[c].next = 1
        /\ At(c, "import") => \A k \in 1 .. call[c].next - 1 : Present(Legacy[k])
        /\ At(c, "mark") => \A id \in Range(Legacy) : Present(id)

(* A creation has its data from the first step on; nobody can name it, and so *)
(* delete it, before it is done.                                              *)
Creations ==
    \A c \in Calls : Does(c, "create") =>
        /\ call[c].pc \in Running => c \in data
        /\ At(c, "done") /\ ~DeletionAsked(c) => c \in data
        /\ call[c].indexed => At(c, "done") /\ Present(c)

(* Only a finished creation is deleted: no step is left that adds its row or  *)
(* its data again.                                                            *)
Deletions ==
    \A c \in Calls : Does(c, "delete") /\ call[c].id \in Calls =>
        /\ Does(call[c].id, "create") /\ At(call[c].id, "done")
        /\ call[c].pc \in {"data", "done"} => call[c].id \notin rows
        /\ At(c, "done") => call[c].id \notin data

NewListed == rows \cap Calls \subseteq data

(* One instance in which nothing fails imports once: the data of an old entry *)
(* goes after the marker is set, and no import runs from then on.             *)
ImportedOnce ==
    Alone =>
        /\ rows \subseteq data
        /\ ~marker => Range(Legacy) \subseteq data
        /\ \A c \in Calls :
              /\ call[c].pc \in {"act", "data"} => marker
              /\ At(c, "data") => call[c].id \notin rows
              /\ call[c].pc \in {"legacy", "import", "mark"} => ~marker

IndInv == /\ TypeOK /\ MutexHeldByImporter /\ Placed /\ Purpose
          /\ MigrationComplete /\ Imported /\ Creations /\ Deletions /\ NewListed /\ ImportedOnce

-----------------------------------------------------------------------------
(* The old index is a sequence of ids. *)
LEMMA LegacyFacts ==
    /\ Len(Legacy) \in Nat
    /\ \A n \in 1 .. Len(Legacy) : Legacy[n] \in Range(Legacy)
    /\ Range(Legacy) = {Legacy[n] : n \in 1 .. Len(Legacy)}
    /\ Range(Legacy) \cap Calls = {}
<1>1. Legacy \in Seq(Range(Legacy)) /\ Range(Legacy) \cap Calls = {}
  BY SnapshotAssumption DEF Calls
<1>2. Len(Legacy) \in Nat /\ DOMAIN Legacy = 1 .. Len(Legacy)
  BY <1>1
<1>3. QED
  BY <1>1, <1>2 DEF Range

(* A scenario names an instance, and the calls of it that exist. *)
LEMMA ScenarioFacts ==
    ASSUME NEW s \in Scenarios
    PROVE  s.instances # {} /\ s.instances \subseteq Instances
BY SnapshotAssumption DEF Instances

LEMMA InitTyped == Init => TypeOK
<1> SUFFICES ASSUME Init PROVE TypeOK
  OBVIOUS
<1>1. (CHOOSE i \in Instances : TRUE) \in Instances
  BY ScenarioFacts DEF Init
<1>2. Unused \in Call
  BY <1>1, LegacyFacts DEF Unused, Called, Call, PCs
<1>3. QED
  BY <1>2 DEF Init, TypeOK, Ids

LEMMA InitInv == Init => IndInv
<1> SUFFICES ASSUME Init PROVE IndInv
  OBVIOUS
<1>1. TypeOK
  BY InitTyped
<1>2. \A c \in Calls : call[c] = Unused
  BY DEF Init
<1>3. \A c \in Calls : At(c, "unused") /\ ~Does(c, "create") /\ ~Does(c, "delete")
  <2>1. Unused.pc = "unused"
    BY DEF Unused, Called
  <2>2. QED
    BY <1>2, <2>1 DEF At, Does
<1>4. MutexHeldByImporter /\ Placed /\ Imported /\ Purpose
  BY <1>2, <1>3 DEF Init, MutexHeldByImporter, Placed, Purpose, Imported, At, Importing, Unused,
     Called, Calls
<1>5. MigrationComplete /\ Creations /\ Deletions /\ NewListed
  BY <1>3, LegacyFacts DEF Init, MigrationComplete, Creations, Deletions, NewListed
<1>6. ImportedOnce
  BY <1>2 DEF Init, ImportedOnce, Unused, Called
<1>7. QED
  BY <1>1, <1>4, <1>5, <1>6 DEF IndInv

-----------------------------------------------------------------------------
(* What a call does: it begins, on some instance, or takes a step. *)
Action(c) ==
    \/ \E i \in Instances : BeginCreate(c, i) \/ BeginList(c, i) \/ BeginDelete(c, i)
    \/ CallStep(c)

LEMMA NextCases ==
    ASSUME [Next]_vars
    PROVE  \/ \E c \in Calls : Action(c)
           \/ \E i \in Instances : Restart(i)
           \/ UNCHANGED vars
BY DEF Next, Action

(* A step moves the program counter of its call, and perhaps two fields more. *)
LEMMA GotoFacts ==
    ASSUME TypeOK, NEW c \in Calls, NEW pc \in PCs, Goto(c, pc)
    PROVE  /\ call' \in [Calls -> Call]
           /\ call'[c].pc = pc
           /\ \A d \in Calls :
                 /\ call'[d].op = call[d].op /\ call'[d].inst = call[d].inst
                 /\ call'[d].id = call[d].id /\ call'[d].next = call[d].next
                 /\ call'[d].indexed = call[d].indexed
           /\ \A d \in Calls \ {c} : call'[d] = call[d]
BY DEF TypeOK, Goto, Call

LEMMA BeginFacts ==
    ASSUME TypeOK, NEW c \in Calls, NEW i \in Instances, NEW id \in Ids \cup {0},
           NEW op \in {"create", "list", "delete"}, NEW pc \in PCs,
           Begin(c, i, op, id, pc)
    PROVE  /\ call[c].pc = "unused" /\ i \in scenario.instances
           /\ call' = [call EXCEPT ![c] = Called(pc, op, i, id)]
           /\ call' \in [Calls -> Call]
<1>1. Called(pc, op, i, id) \in Call
  BY LegacyFacts DEF Call, Called
<1>2. QED
  BY <1>1 DEF TypeOK, Begin, At

LEMMA TypeStep ==
    ASSUME TypeOK, Purpose, [Next]_vars
    PROVE  TypeOK'
<1>1. CASE UNCHANGED vars
  BY <1>1 DEF vars, stored, local, TypeOK
<1>2. ASSUME NEW c \in Calls, Action(c) PROVE TypeOK'
  <2>1. /\ c \in Ids /\ call[c] \in Call /\ call[c].inst \in Instances
        /\ call[c].id \in Ids \cup {0} /\ call[c].next \in Nat
    BY LegacyFacts DEF Ids, Call, TypeOK
  <2>2. CASE \E i \in Instances : BeginCreate(c, i)
    <3>1. PICK i \in Instances : BeginCreate(c, i)
      BY <2>2
    <3>2. QED
      BY <2>1, <3>1, BeginFacts DEF BeginCreate, PCs, Begin, TypeOK, stored, local
  <2>3. CASE \E i \in Instances : BeginList(c, i)
    <3>1. PICK i \in Instances : BeginList(c, i)
      BY <2>3
    <3>2. QED
      BY <3>1, BeginFacts DEF BeginList, PCs, Begin, TypeOK, stored, local
  <2>4. CASE \E i \in Instances : BeginDelete(c, i)
    <3>1. PICK i \in Instances, id \in Ids : Begin(c, i, "delete", id, "ensure")
      BY <2>4 DEF BeginDelete, Named, Ids
    <3>2. QED
      BY <3>1, BeginFacts DEF PCs, Begin, TypeOK, stored, local
  <2>5. CASE SaveData(c) \/ RemoveData(c)
    <3>1. call[c].id \in Ids
      BY <2>1, <2>5 DEF SaveData, RemoveData, Purpose, At, Does
    <3>2. \E pc \in PCs : Goto(c, pc)
      BY <2>5 DEF SaveData, RemoveData, PCs
    <3>3. QED
      BY <2>5, <3>1, <3>2, GotoFacts DEF SaveData, RemoveData, TypeOK, local
  <2>6. CASE CheckFlag(c) \/ ListRows(c)
    <3>1. \E pc \in PCs : Goto(c, pc)
      BY <2>6 DEF CheckFlag, ListRows, PCs
    <3>2. QED
      BY <2>6, <3>1, GotoFacts DEF CheckFlag, ListRows, TypeOK, stored, local
  <2>7. CASE Lock(c) \/ ReadMarker(c) \/ ReadLegacy(c) \/ Mark(c)
    <3>1. \E pc \in PCs : Goto(c, pc)
      BY <2>7 DEF Lock, ReadMarker, ReadLegacy, Mark, GiveUp, Migrated, PCs
    <3>2. call' \in [Calls -> Call]
      BY <3>1, GotoFacts
    <3>3. /\ migrated' \in [Instances -> BOOLEAN]
          /\ mutex' \in [Instances -> Calls \cup {0}]
      BY <2>1, <2>7 DEF Lock, ReadMarker, ReadLegacy, Mark, GiveUp, Migrated, Unlocked,
         TypeOK, local, Inst
    <3>4. QED
      BY <2>7, <3>2, <3>3 DEF Lock, ReadMarker, ReadLegacy, Mark, TypeOK, stored
  <2>8. CASE Import(c)
    <3>1. call' \in [Calls -> Call]
      <4>1. CASE \E pc \in PCs : Goto(c, pc)
        BY <4>1, GotoFacts
      <4>2. CASE /\ call[c].next <= Len(Legacy)
                 /\ call' = [call EXCEPT ![c].next = call[c].next + 1]
        <5>1. call[c].next + 1 \in 1 .. Len(Legacy) + 1
          BY <2>1, <4>2, LegacyFacts DEF Call
        <5>2. QED
          BY <2>1, <4>2, <5>1 DEF TypeOK, Call
      <4>3. QED
        BY <2>8, <4>1, <4>2 DEF Import, GiveUp, PCs
    <3>2. rows' \subseteq Ids
      BY <2>1, <2>8, LegacyFacts DEF Import, TypeOK, Ids, Call
    <3>3. /\ migrated' \in [Instances -> BOOLEAN]
          /\ mutex' \in [Instances -> Calls \cup {0}]
      BY <2>1, <2>8 DEF Import, GiveUp, Unlocked, TypeOK, local, Inst
    <3>4. QED
      BY <2>8, <3>1, <3>2, <3>3 DEF Import, TypeOK
  <2>9. CASE AddRow(c)
    <3>1. call[c].id \in Ids
      BY <2>1, <2>9 DEF AddRow, Purpose
    <3>2. call' \in [Calls -> Call]
      <4>1. CASE Goto(c, "done")
        BY <4>1, GotoFacts DEF PCs
      <4>2. CASE call' = [call EXCEPT ![c].pc = "done", ![c].indexed = TRUE]
        BY <2>1, <4>2 DEF TypeOK, Call, PCs
      <4>3. QED
        BY <2>9, <4>1, <4>2 DEF AddRow
    <3>3. QED
      BY <2>9, <3>1, <3>2 DEF AddRow, TypeOK, local
  <2>10. CASE DeleteRow(c)
    BY <2>10, GotoFacts DEF DeleteRow, TypeOK, local, PCs
  <2>11. QED
    BY <1>2, <2>2, <2>3, <2>4, <2>5, <2>6, <2>7, <2>8, <2>9, <2>10 DEF Action, CallStep
<1>3. ASSUME NEW i \in Instances, Restart(i) PROVE TypeOK'
  <2>1. \A c \in Calls : [call[c] EXCEPT !.pc = "failed"] \in Call
    BY DEF TypeOK, Call, PCs
  <2>2. call' \in [Calls -> Call]
    BY <1>3, <2>1 DEF Restart, TypeOK
  <2>3. QED
    BY <1>3, <2>2 DEF Restart, TypeOK, stored
<1>4. QED
  BY <1>1, <1>2, <1>3, NextCases

-----------------------------------------------------------------------------
(* What a step leaves alone *)

LEMMA CallStepFacts ==
    ASSUME TypeOK, NEW c \in Calls, CallStep(c)
    PROVE  /\ scenario' = scenario
           /\ call[c].pc \notin {"unused", "done", "failed"}
           /\ call'[c].pc # "unused"
           /\ call'[c].op = call[c].op /\ call'[c].inst = call[c].inst
           /\ call'[c].id = call[c].id
           /\ \A d \in Calls \ {c} : call'[d] = call[d]
<1>1. CASE \E pc \in PCs \ {"unused"} : Goto(c, pc)
  <2>1. /\ call'[c].pc # "unused"
        /\ call'[c].op = call[c].op /\ call'[c].inst = call[c].inst
        /\ call'[c].id = call[c].id
        /\ \A d \in Calls \ {c} : call'[d] = call[d]
    BY <1>1, GotoFacts
  <2>2. scenario' = scenario /\ call[c].pc \notin {"unused", "done", "failed"}
    BY DEF CallStep, SaveData, CheckFlag, Lock, ReadMarker, ReadLegacy, Import, Mark,
       AddRow, ListRows, DeleteRow, RemoveData, At
  <2>3. QED
    BY <2>1, <2>2
<1>2. CASE Import(c) /\ call' = [call EXCEPT ![c].next = call[c].next + 1]
  BY <1>2 DEF Import, At, TypeOK, Call
<1>3. CASE AddRow(c) /\ call' = [call EXCEPT ![c].pc = "done", ![c].indexed = TRUE]
  BY <1>3 DEF AddRow, At, TypeOK, Call
<1>4. QED
  BY <1>1, <1>2, <1>3 DEF CallStep, SaveData, CheckFlag, Lock, ReadMarker, ReadLegacy,
     Import, Mark, AddRow, ListRows, DeleteRow, RemoveData, GiveUp, Migrated, PCs

(* Starting a call touches nothing but the record of the call. *)
LEMMA StartFacts ==
    ASSUME TypeOK, NEW c \in Calls, NEW i \in Instances,
           BeginCreate(c, i) \/ BeginList(c, i) \/ BeginDelete(c, i)
    PROVE  /\ UNCHANGED <<scenario, rows, data, marker, migrated, mutex>>
           /\ call[c].pc = "unused" /\ i \in scenario.instances
           /\ \A d \in Calls \ {c} : call'[d] = call[d]
           /\ call'[c].inst = i /\ call'[c].next = 1 /\ call'[c].indexed = FALSE
           /\ \/ call'[c].op = "create" /\ call'[c].id = c /\ call'[c].pc = "save"
              \/ call'[c].op = "list" /\ call'[c].pc = "ensure"
              \/ /\ call'[c].op = "delete" /\ call'[c].pc = "ensure"
                 /\ call'[c].id \in Named
<1> USE DEF Called, TypeOK, stored, local
<1>1. CASE BeginCreate(c, i)
  <2>1. c \in Ids
    BY DEF Ids
  <2>2. QED
    BY <1>1, <2>1, BeginFacts DEF BeginCreate, Begin, PCs
<1>2. CASE BeginList(c, i)
  BY <1>2, BeginFacts DEF BeginList, Begin, PCs
<1>3. CASE BeginDelete(c, i)
  <2>1. PICK id \in Named : Begin(c, i, "delete", id, "ensure")
    BY <1>3 DEF BeginDelete
  <2>2. id \in Ids
    BY DEF Named, Ids
  <2>3. QED
    BY <2>1, <2>2, BeginFacts DEF Begin, PCs
<1>4. QED
  BY <1>1, <1>2, <1>3

LEMMA RestartFacts ==
    ASSUME TypeOK, NEW i \in Instances, Restart(i)
    PROVE  /\ UNCHANGED <<scenario, rows, data, marker>>
           /\ \A c \in Calls :
                 /\ call'[c].op = call[c].op /\ call'[c].inst = call[c].inst
                 /\ call'[c].id = call[c].id /\ call'[c].next = call[c].next
                 /\ call'[c].indexed = call[c].indexed
                 /\ IF call[c].inst = i /\ call[c].pc \notin {"unused", "done", "failed"}
                    THEN call'[c].pc = "failed" ELSE call'[c].pc = call[c].pc
BY DEF Restart, TypeOK, stored, Call, Inst, Ended

(* A call that has begun stays the call it is, one that is done stays done,   *)
(* and a deletion stays asked for.                                            *)
LEMMA StepFrame ==
    ASSUME TypeOK, [Next]_vars
    PROVE  /\ scenario' = scenario
           /\ \A d \in Calls : call[d].pc # "unused" =>
                 /\ call'[d].pc # "unused" /\ call'[d].op = call[d].op
                 /\ call'[d].id = call[d].id /\ call'[d].inst = call[d].inst
           /\ \A d \in Calls : call[d].pc = "done" => call'[d].pc = "done"
           /\ \A id : DeletionAsked(id) => DeletionAsked(id)'
<1>1. /\ scenario' = scenario
      /\ \A d \in Calls : call[d].pc # "unused" =>
            /\ call'[d].pc # "unused" /\ call'[d].op = call[d].op
            /\ call'[d].id = call[d].id /\ call'[d].inst = call[d].inst
      /\ \A d \in Calls : call[d].pc = "done" => call'[d].pc = "done"
  BY NextCases, CallStepFacts, StartFacts, RestartFacts DEF Action, vars
<1>2. QED
  BY <1>1 DEF DeletionAsked, Does

(* Where a step of a call leads, and the fields it sets on the way. *)
LEMMA Targets ==
    ASSUME TypeOK, NEW c \in Calls, CallStep(c)
    PROVE  /\ \/ SaveData(c) /\ call'[c].pc \in {"ensure", "failed"}
              \/ CheckFlag(c) /\ call'[c].pc = IF migrated[Inst(c)] THEN "act" ELSE "lock"
              \/ Lock(c) /\ call'[c].pc = IF migrated[Inst(c)] THEN "act" ELSE "marker"
              \/ ReadMarker(c) /\ call'[c].pc = "legacy" /\ ~marker /\ UNCHANGED local
              \/ ReadMarker(c) /\ call'[c].pc = "act" /\ marker /\ Migrated(c)
              \/ ReadMarker(c) /\ call'[c].pc = "act" /\ Fails("store") /\ GiveUp(c)
              \/ ReadLegacy(c) /\ call'[c].pc = "import" /\ UNCHANGED local
              \/ ReadLegacy(c) /\ call'[c].pc = "act" /\ Fails("data") /\ GiveUp(c)
              \/ Import(c) /\ call'[c].pc \in {"import", "mark"} /\ UNCHANGED local
              \/ Import(c) /\ call'[c].pc = "act" /\ Fails("store") /\ GiveUp(c)
              \/ Mark(c) /\ call'[c].pc = "act" /\ marker' /\ Migrated(c)
              \/ Mark(c) /\ call'[c].pc = "act" /\ Fails("store") /\ GiveUp(c)
              \/ AddRow(c) /\ call'[c].pc = "done"
              \/ ListRows(c) /\ call'[c].pc = "done"
              \/ DeleteRow(c) /\ call'[c].pc \in {"data", "failed"}
              \/ RemoveData(c) /\ call'[c].pc \in {"done", "failed"}
           /\ \/ call'[c].next = call[c].next /\ call'[c].pc # "import"
              \/ ReadLegacy(c) /\ call'[c].next = call[c].next
              \/ /\ Import(c) /\ call[c].next <= Len(Legacy)
                 /\ call'[c].next = call[c].next + 1 /\ call'[c].pc = "import"
                 /\ rows' = rows \cup {Legacy[call[c].next]}
           /\ \/ call'[c].indexed = call[c].indexed
              \/ AddRow(c) /\ rows' = rows \cup {call[c].id}
           /\ call'[c].pc = "mark" => call[c].next > Len(Legacy)
<1>1. ASSUME NEW pc \in PCs, Goto(c, pc)
      PROVE  call'[c].pc = pc /\ call'[c].next = call[c].next
             /\ call'[c].indexed = call[c].indexed
  BY <1>1, GotoFacts
<1>2. CASE SaveData(c) \/ CheckFlag(c) \/ Lock(c)
  <2>1. /\ SaveData(c) => Goto(c, "ensure") \/ Goto(c, "failed")
        /\ CheckFlag(c) => Goto(c, IF migrated[Inst(c)] THEN "act" ELSE "lock")
        /\ Lock(c) => Goto(c, IF migrated[Inst(c)] THEN "act" ELSE "marker")
    BY DEF SaveData, CheckFlag, Lock
  <2>2. QED
    BY <1>1, <1>2, <2>1 DEF PCs
<1>3. CASE ReadMarker(c) \/ ReadLegacy(c) \/ Mark(c)
  <2>1. /\ GiveUp(c) \/ Migrated(c) => Goto(c, "act")
        /\ ReadMarker(c) => \/ ~marker /\ Goto(c, "legacy") /\ UNCHANGED local
                            \/ marker /\ Migrated(c)
                            \/ Fails("store") /\ GiveUp(c)
        /\ ReadLegacy(c) => \/ Goto(c, "import") /\ UNCHANGED local
                            \/ Fails("data") /\ GiveUp(c)
        /\ Mark(c) => \/ marker' /\ Migrated(c)
                      \/ Fails("store") /\ GiveUp(c)
    BY DEF ReadMarker, ReadLegacy, Mark, GiveUp, Migrated
  <2>2. CASE ReadMarker(c)
    BY <1>1, <2>1, <2>2 DEF PCs
  <2>3. CASE ReadLegacy(c)
    BY <1>1, <2>1, <2>3 DEF PCs
  <2>4. CASE Mark(c)
    BY <1>1, <2>1, <2>4 DEF PCs
  <2>5. QED
    BY <1>3, <2>2, <2>3, <2>4
<1>4. CASE Import(c)
  <2>1. /\ GiveUp(c) => Goto(c, "act")
        /\ \/ call[c].next > Len(Legacy) /\ Goto(c, "mark") /\ UNCHANGED local
           \/ /\ call[c].next <= Len(Legacy) /\ UNCHANGED local
              /\ rows' = rows \cup {Legacy[call[c].next]}
              /\ call' = [call EXCEPT ![c].next = call[c].next + 1]
           \/ Fails("store") /\ GiveUp(c)
    BY <1>4 DEF Import, GiveUp
  <2>2. CASE \/ call[c].next > Len(Legacy) /\ Goto(c, "mark") /\ UNCHANGED local
             \/ Fails("store") /\ GiveUp(c)
    BY <1>1, <1>4, <2>1, <2>2 DEF PCs
  <2>3. CASE call' = [call EXCEPT ![c].next = call[c].next + 1]
    <3>1. /\ call'[c].pc = call[c].pc /\ call'[c].indexed = call[c].indexed
          /\ call'[c].next = call[c].next + 1
      BY <2>3 DEF TypeOK, Call
    <3>2. call[c].pc = "import"
      BY <1>4 DEF Import, At
    <3>3. call'[c].next # call[c].next
      BY <3>1, LegacyFacts DEF TypeOK, Call
    <3>4. ~Goto(c, "mark") /\ ~Goto(c, "act")
      BY <1>1, <3>3 DEF PCs
    <3>5. QED
      BY <1>4, <2>1, <3>1, <3>2, <3>4
  <2>4. QED
    BY <2>1, <2>2, <2>3
<1>5. CASE AddRow(c)
  <2>1. \/ Goto(c, "done")
        \/ /\ rows' = rows \cup {call[c].id}
           /\ call' = [call EXCEPT ![c].pc = "done", ![c].indexed = TRUE]
    BY <1>5 DEF AddRow
  <2>2. CASE call' = [call EXCEPT ![c].pc = "done", ![c].indexed = TRUE]
    <3>1. call'[c].pc = "done" /\ call'[c].next = call[c].next
      BY <2>2 DEF TypeOK, Call
    <3>2. rows' = rows \cup {call[c].id} \/ call'[c].indexed = call[c].indexed
      BY <1>1, <2>1 DEF PCs
    <3>3. QED
      BY <1>5, <3>1, <3>2
  <2>3. QED
    BY <1>1, <1>5, <2>1, <2>2 DEF PCs
<1>6. CASE ListRows(c) \/ DeleteRow(c) \/ RemoveData(c)
  <2>1. /\ ListRows(c) => Goto(c, "done")
        /\ DeleteRow(c) => Goto(c, "data") \/ Goto(c, "failed")
        /\ RemoveData(c) => Goto(c, "done") \/ Goto(c, "failed")
    BY DEF ListRows, DeleteRow, RemoveData
  <2>2. QED
    BY <1>1, <1>6, <2>1 DEF PCs
<1>7. QED
  BY <1>2, <1>3, <1>4, <1>5, <1>6 DEF CallStep

(* A call stays as it is, takes its own step, or fails with its instance. *)
LEMMA Moved ==
    ASSUME TypeOK, [Next]_vars, NEW d \in Calls
    PROVE  \/ call'[d] = call[d]
           \/ /\ call'[d].pc = call[d].pc /\ call'[d].op = call[d].op
              /\ call'[d].inst = call[d].inst /\ call'[d].id = call[d].id
              /\ call'[d].next = call[d].next /\ call'[d].indexed = call[d].indexed
           \/ /\ call'[d].pc = "failed" /\ call[d].pc \notin {"unused", "done", "failed"}
              /\ call'[d].op = call[d].op /\ call'[d].id = call[d].id
              /\ call'[d].indexed = call[d].indexed
           \/ \E i \in Instances : BeginCreate(d, i) \/ BeginList(d, i) \/ BeginDelete(d, i)
           \/ CallStep(d)
BY NextCases, CallStepFacts, StartFacts, RestartFacts DEF Action, vars

(* Who writes and who removes rows, data and the marker. *)
LEMMA Effects ==
    ASSUME TypeOK, Purpose, [Next]_vars
    PROVE  /\ \A id \in rows' \ rows :
                 \/ id \in Range(Legacy) /\ \E c \in Calls : At(c, "import")
                 \/ id \in Calls /\ Does(id, "create") /\ At(id, "act")
           /\ \A id \in rows \ rows' : DeletionAsked(id)
           /\ \A id \in data' \ data : id \in Calls /\ At(id, "save")
           /\ \A id \in data \ data' :
                 \E c \in Calls : Does(c, "delete") /\ At(c, "data") /\ call[c].id = id
           /\ marker => marker'
           /\ marker' => marker \/ \E c \in Calls : Mark(c)
<1>1. ASSUME NEW c \in Calls, CallStep(c)
      PROVE  /\ \A id \in rows' \ rows :
                 \/ id \in Range(Legacy) /\ At(c, "import")
                 \/ id = c /\ Does(c, "create") /\ At(c, "act")
             /\ \A id \in rows \ rows' : Does(c, "delete") /\ call[c].id = id
             /\ \A id \in data' \ data : id = c /\ At(c, "save")
             /\ \A id \in data \ data' : At(c, "data") /\ call[c].id = id
             /\ marker => marker'
             /\ marker' => marker \/ Mark(c)
  <2>1. CASE SaveData(c) \/ AddRow(c) \/ DeleteRow(c) \/ RemoveData(c)
    BY <2>1 DEF SaveData, AddRow, DeleteRow, RemoveData, Purpose
  <2>2. CASE CheckFlag(c) \/ Lock(c) \/ ReadMarker(c) \/ ReadLegacy(c) \/ ListRows(c)
    BY <2>2 DEF CheckFlag, Lock, ReadMarker, ReadLegacy, ListRows, stored
  <2>3. CASE Import(c)
    <3>1. call[c].next \in Nat /\ call[c].next >= 1
      BY LegacyFacts DEF TypeOK, Call
    <3>2. QED
      BY <2>3, <3>1, LegacyFacts DEF Import
  <2>4. CASE Mark(c)
    BY <2>4 DEF Mark
  <2>5. QED
    BY <1>1, <2>1, <2>2, <2>3, <2>4 DEF CallStep
<1>2. CASE \E c \in Calls : CallStep(c)
  BY <1>1, <1>2 DEF DeletionAsked, Purpose
<1>3. CASE UNCHANGED <<rows, data, marker>>
  BY <1>3
<1>4. QED
  BY <1>2, <1>3, NextCases, StartFacts, RestartFacts DEF Action, vars, stored

LEMMA PresentKept ==
    ASSUME TypeOK, Purpose, [Next]_vars, NEW id, Present(id)
    PROVE  Present(id)'
BY Effects, StepFrame DEF Present

-----------------------------------------------------------------------------
(* The parts of the invariant are kept *)

LEMMA PlacedStep ==
    ASSUME TypeOK, Placed, [Next]_vars
    PROVE  Placed'
<1> SUFFICES ASSUME NEW d \in Calls, call'[d].pc # "unused"
             PROVE  call'[d].inst \in scenario.instances
  BY StepFrame DEF Placed, At, Inst
<1>1. CASE call[d].pc # "unused"
  BY <1>1, StepFrame DEF Placed, At, Inst
<1>2. CASE call[d].pc = "unused"
  BY <1>2, Moved, StartFacts, CallStepFacts
<1>3. QED
  BY <1>1, <1>2

LEMMA PurposeStep ==
    ASSUME TypeOK, Purpose, [Next]_vars
    PROVE  Purpose'
<1> SUFFICES ASSUME NEW d \in Calls
             PROVE  /\ call'[d].pc = "save" => call'[d].op = "create"
                    /\ call'[d].pc = "data" => call'[d].op = "delete"
                    /\ call'[d].op = "create" /\ call'[d].pc # "unused" => call'[d].id = d
                    /\ call'[d].op = "delete" /\ call'[d].pc # "unused" => call'[d].id \in Ids
  BY DEF Purpose, At, Does
<1>1. CASE \E i \in Instances : BeginCreate(d, i) \/ BeginList(d, i) \/ BeginDelete(d, i)
  BY <1>1, StartFacts DEF Named, Ids
<1>2. CASE CallStep(d)
  BY <1>2, CallStepFacts, Targets DEF DeleteRow, Does, Purpose
<1>3. QED
  BY <1>1, <1>2, Moved DEF Purpose, At, Does

LEMMA MutexStep ==
    ASSUME TypeOK, Purpose, MutexHeldByImporter, [Next]_vars
    PROVE  MutexHeldByImporter'
<1> SUFFICES ASSUME NEW i \in Instances, NEW d \in Calls
             PROVE  mutex'[i] = d <=> call'[d].inst = i /\ call'[d].pc \in Importing
  BY DEF MutexHeldByImporter, Inst
<1>1. mutex[i] = d <=> call[d].inst = i /\ call[d].pc \in Importing
  BY DEF MutexHeldByImporter, Inst
<1>2. CASE UNCHANGED vars
  BY <1>1, <1>2 DEF vars, local
<1>3. ASSUME NEW j \in Instances, Restart(j) PROVE mutex'[i] = d <=> call'[d].inst = i /\ call'[d].pc \in Importing
  <2>1. d # 0 /\ mutex' = [mutex EXCEPT ![j] = 0]
    BY <1>3 DEF Restart, Calls
  <2>2. QED
    BY <1>1, <1>3, <2>1, RestartFacts DEF TypeOK, Importing
<1>4. ASSUME NEW c \in Calls, NEW j \in Instances,
             BeginCreate(c, j) \/ BeginList(c, j) \/ BeginDelete(c, j)
      PROVE  mutex'[i] = d <=> call'[d].inst = i /\ call'[d].pc \in Importing
  BY <1>1, <1>4, StartFacts DEF Importing
<1>5. ASSUME NEW c \in Calls, CallStep(c)
      PROVE  mutex'[i] = d <=> call'[d].inst = i /\ call'[d].pc \in Importing
  <2>1. c # 0 /\ d # 0 /\ call[c].inst \in Instances
    BY DEF Calls, TypeOK, Call
  <2>2. mutex[call[c].inst] = c <=> call[c].pc \in Importing
    BY <2>1 DEF MutexHeldByImporter, Inst
  <2>3. \/ mutex' = mutex /\ (call'[c].pc \in Importing <=> call[c].pc \in Importing)
        \/ /\ mutex' = [mutex EXCEPT ![call[c].inst] = 0]
           /\ call[c].pc \in Importing /\ call'[c].pc \notin Importing
        \/ /\ mutex' = [mutex EXCEPT ![call[c].inst] = c] /\ mutex[call[c].inst] = 0
           /\ call[c].pc \notin Importing /\ call'[c].pc \in Importing
    BY <1>5, Targets DEF SaveData, CheckFlag, Lock, ReadMarker, ReadLegacy, Import, Mark,
       AddRow, ListRows, DeleteRow, RemoveData, GiveUp, Migrated, Unlocked, local, At, Inst,
       Importing
  <2>4. QED
    BY <1>1, <1>5, <2>1, <2>2, <2>3, CallStepFacts DEF TypeOK
<1>6. QED
  BY <1>2, <1>3, <1>4, <1>5, NextCases DEF Action

LEMMA ImportedStep ==
    ASSUME TypeOK, Purpose, Imported, [Next]_vars
    PROVE  Imported'
<1> SUFFICES ASSUME NEW d \in Calls
             PROVE  /\ call'[d].pc \in {"unused", "save", "ensure", "lock", "marker", "legacy"}
                          => call'[d].next = 1
                    /\ call'[d].pc = "import" =>
                          \A k \in 1 .. call'[d].next - 1 : Present(Legacy[k])'
                    /\ call'[d].pc = "mark" => \A id \in Range(Legacy) : Present(id)'
  BY DEF Imported, At
<1>1. CASE CallStep(d)
  <2>1. call[d].next \in 1 .. Len(Legacy) + 1
    BY DEF TypeOK, Call
  <2>2. CASE call'[d].pc \in {"ensure", "lock", "marker", "legacy"}
    BY <1>1, <2>2, Targets DEF Imported, SaveData, CheckFlag, Lock, ReadMarker, At
  <2>3. CASE call'[d].pc = "import"
    <3>1. CASE ReadLegacy(d) /\ call'[d].next = call[d].next
      <4>1. call'[d].next = 1
        BY <3>1 DEF ReadLegacy, Imported, At
      <4>2. QED
        BY <2>3, <4>1
    <3>2. CASE /\ Import(d) /\ call[d].next <= Len(Legacy)
               /\ call'[d].next = call[d].next + 1
               /\ rows' = rows \cup {Legacy[call[d].next]}
      <4>1. \A k \in 1 .. call[d].next - 1 : Present(Legacy[k])'
        BY <3>2, PresentKept DEF Import, Imported
      <4>2. \A k : k = call[d].next => Present(Legacy[k])'
        BY <3>2 DEF Present
      <4>3. \A k \in 1 .. call'[d].next - 1 : k \in 1 .. call[d].next - 1 \/ k = call[d].next
        BY <2>1, <3>2
      <4>4. QED
        BY <2>3, <4>1, <4>2, <4>3
    <3>3. QED
      BY <1>1, <2>3, <3>1, <3>2, Targets
  <2>4. CASE call'[d].pc = "mark"
    <3>1. call[d].pc = "import" /\ call[d].next > Len(Legacy)
      BY <1>1, <2>4, Targets DEF Import, At
    <3>2. \A k \in 1 .. Len(Legacy) : Present(Legacy[k])
      BY <2>1, <3>1, LegacyFacts DEF Imported, At
    <3>3. QED
      BY <2>4, <3>2, LegacyFacts, PresentKept
  <2>5. QED
    BY <1>1, <2>2, <2>3, <2>4, Targets
<1>2. CASE \E i \in Instances : BeginCreate(d, i) \/ BeginList(d, i) \/ BeginDelete(d, i)
  BY <1>2, StartFacts
<1>3. CASE ~CallStep(d) /\ call'[d].pc = call[d].pc /\ call'[d].next = call[d].next
  BY <1>3, PresentKept DEF Imported, At
<1>4. QED
  BY <1>1, <1>2, <1>3, Moved

LEMMA MigrationStep ==
    ASSUME TypeOK, Purpose, Imported, MigrationComplete, [Next]_vars
    PROVE  MigrationComplete'
<1>1. \A i \in Instances : migrated'[i] => marker'
  <2> SUFFICES ASSUME NEW i \in Instances, migrated'[i] PROVE marker'
    OBVIOUS
  <2>1. CASE migrated[i]
    BY <2>1, Effects DEF MigrationComplete
  <2>2. CASE ~migrated[i]
    <3>1. PICK c \in Calls : CallStep(c)
      BY <2>2, NextCases, StartFacts DEF Action, Restart, vars, local, TypeOK
    <3>2. \/ ReadMarker(c) /\ marker
          \/ Mark(c) /\ marker'
      BY <2>2, <3>1 DEF CallStep, SaveData, CheckFlag, Lock, ReadMarker, ReadLegacy, Import,
         Mark, AddRow, ListRows, DeleteRow, RemoveData, GiveUp, local
    <3>3. QED
      BY <3>2, Effects
  <2>3. QED
    BY <2>1, <2>2
<1>2. ASSUME marker', NEW id \in Range(Legacy) PROVE Present(id)'
  <2>1. CASE marker
    BY <2>1, PresentKept DEF MigrationComplete, Present
  <2>2. CASE ~marker
    <3>1. PICK c \in Calls : Mark(c)
      BY <1>2, <2>2, Effects
    <3>2. Present(id)
      BY <3>1 DEF Mark, Imported
    <3>3. QED
      BY <3>2, PresentKept
  <2>3. QED
    BY <2>1, <2>2
<1>3. QED
  BY <1>1, <1>2 DEF MigrationComplete, Present

LEMMA CreationsStep ==
    ASSUME TypeOK, Purpose, Creations, Deletions, [Next]_vars
    PROVE  Creations'
<1> SUFFICES ASSUME NEW d \in Calls, call'[d].pc # "unused", call'[d].op = "create"
             PROVE  /\ call'[d].pc \in Running => d \in data'
                    /\ call'[d].pc = "done" /\ ~DeletionAsked(d)' => d \in data'
                    /\ call'[d].indexed => call'[d].pc = "done" /\ Present(d)'
  BY DEF Creations, At, Does
<1>1. CASE call[d].pc = "unused"
  <2>1. call'[d].pc = "save" /\ ~call'[d].indexed
    BY <1>1, Moved, StartFacts, CallStepFacts
  <2>2. QED
    BY <2>1 DEF Running, Importing
<1>2. CASE call[d].pc # "unused"
  <2>1. Does(d, "create") /\ call[d].id = d
    BY <1>2, StepFrame DEF Does, Purpose
  <2>2. d \in data /\ d \notin data' => call[d].pc = "done" /\ DeletionAsked(d)
    BY Effects DEF Deletions, DeletionAsked, At
  <2>3. ~DeletionAsked(d)' => ~DeletionAsked(d)
    BY StepFrame
  <2>4. CASE CallStep(d)
    <3>1. CASE SaveData(d) /\ call'[d].pc \in {"ensure", "failed"}
      <4>1. call'[d].pc = "ensure" => d \in data'
        <5>1. Goto(d, "failed") => call'[d].pc = "failed"
          BY GotoFacts DEF PCs
        <5>2. QED
          BY <2>1, <3>1, <5>1 DEF SaveData
      <4>2. ~call[d].indexed /\ call'[d].indexed = call[d].indexed
        BY <2>1, <2>4, <3>1, Targets DEF Creations, SaveData, AddRow, At
      <4>3. QED
        BY <3>1, <4>1, <4>2 DEF Running, Importing
    <3>2. CASE call[d].pc \in Running
      <4>1. d \in data /\ d \in data'
        BY <2>1, <2>2, <3>2 DEF Creations, Running, Importing
      <4>2. call'[d].indexed => call[d].indexed \/ (AddRow(d) /\ rows' = rows \cup {d})
        BY <2>1, <2>4, Targets
      <4>3. ~call[d].indexed
        BY <2>1, <3>2 DEF Creations, At, Running, Importing
      <4>4. AddRow(d) => call'[d].pc = "done"
        BY <2>4, Targets DEF SaveData, CheckFlag, Lock, ReadMarker, ReadLegacy, Import, Mark,
           AddRow, ListRows, DeleteRow, RemoveData, At, Does
      <4>5. QED
        BY <4>1, <4>2, <4>3, <4>4 DEF Present
    <3>3. QED
      BY <2>1, <2>4, <3>1, <3>2, Targets DEF CheckFlag, Lock, ReadMarker, ReadLegacy, Import,
         Mark, AddRow, ListRows, DeleteRow, RemoveData, At, Does, Purpose, Running, Importing
  <2>5. CASE call'[d].pc = call[d].pc /\ call'[d].indexed = call[d].indexed
    <3>1. call[d].indexed => Present(d)'
      BY <2>1, PresentKept DEF Creations
    <3>2. call[d].pc \in Running => d \in data'
      BY <2>1, <2>2 DEF Creations, Running, Importing
    <3>3. QED
      BY <2>1, <2>2, <2>3, <2>5, <3>1, <3>2 DEF Creations, At
  <2>6. CASE /\ call'[d].pc = "failed" /\ call[d].pc # "done"
             /\ call'[d].indexed = call[d].indexed
    BY <2>1, <2>6 DEF Creations, At, Running, Importing
  <2>7. QED
    BY <1>2, <2>4, <2>5, <2>6, Moved, StartFacts
<1>3. QED
  BY <1>1, <1>2

LEMMA DeletionsStep ==
    ASSUME TypeOK, Purpose, Deletions, [Next]_vars
    PROVE  Deletions'
<1> SUFFICES ASSUME NEW d \in Calls, NEW t \in Calls, call'[d].pc # "unused",
                    call'[d].op = "delete", call'[d].id = t
             PROVE  /\ call'[t].pc = "done" /\ call'[t].op = "create"
                    /\ call'[d].pc \in {"data", "done"} => t \notin rows'
                    /\ call'[d].pc = "done" => t \notin data'
  BY DEF Deletions, At, Does
<1>1. CASE call[d].pc = "unused"
  <2>1. call'[d].pc = "ensure" /\ t \in Named
    BY <1>1, Moved, StartFacts, CallStepFacts
  <2>2. call[t].pc = "done" /\ call[t].op = "create"
    BY <2>1, LegacyFacts DEF Named, At, Does
  <2>3. QED
    BY <2>1, <2>2, StepFrame
<1>2. CASE call[d].pc # "unused"
  <2>1. call[d].op = "delete" /\ call[d].id = t
    BY <1>2, StepFrame
  <2>2. call[t].pc = "done" /\ call[t].op = "create"
    BY <1>2, <2>1 DEF Deletions, At, Does
  <2>3. call'[t].pc = "done" /\ call'[t].op = "create"
    BY <2>2, StepFrame
  <2>4. t \notin rows => t \notin rows'
    BY <2>2, Effects, LegacyFacts DEF At
  <2>5. t \notin data => t \notin data'
    BY <2>2, Effects DEF At
  <2>6. call'[d].pc = "data" => call[d].pc = "data" \/ t \notin rows'
    <3>1. call'[d].pc = "data" => call[d].pc = "data" \/ DeleteRow(d)
      BY <1>2, Moved, StartFacts, Targets
    <3>2. DeleteRow(d) => t \notin rows' \/ Goto(d, "failed")
      BY <2>1 DEF DeleteRow
    <3>3. QED
      BY <3>1, <3>2, GotoFacts DEF PCs
  <2>7. call'[d].pc = "done" =>
            call[d].pc = "done" \/ (call[d].pc = "data" /\ t \notin data')
    <3>1. call'[d].pc = "done" => call[d].pc = "done" \/ RemoveData(d)
      BY <1>2, <2>1, Moved, StartFacts, Targets DEF AddRow, ListRows, Does
    <3>2. RemoveData(d) => call[d].pc = "data" /\ (t \notin data' \/ Goto(d, "failed"))
      BY <2>1 DEF RemoveData, At
    <3>3. QED
      BY <3>1, <3>2, GotoFacts DEF PCs
  <2>8. /\ call[d].pc \in {"data", "done"} => t \notin rows
        /\ call[d].pc = "done" => t \notin data
    BY <1>2, <2>1 DEF Deletions, At, Does
  <2>9. QED
    BY <2>3, <2>4, <2>5, <2>6, <2>7, <2>8
<1>3. QED
  BY <1>1, <1>2

LEMMA NewListedStep ==
    ASSUME TypeOK, Purpose, Creations, Deletions, NewListed, [Next]_vars
    PROVE  NewListed'
<1> SUFFICES ASSUME NEW id \in Calls, id \in rows' PROVE id \in data'
  BY DEF NewListed
<1>1. CASE id \in rows
  <2>1. id \in data
    BY <1>1 DEF NewListed
  <2>2. ~\E c \in Calls : Does(c, "delete") /\ At(c, "data") /\ call[c].id = id
    BY <1>1 DEF Deletions, At
  <2>3. QED
    BY <2>1, <2>2, Effects
<1>2. CASE id \notin rows
  <2>1. Does(id, "create") /\ At(id, "act")
    BY <1>2, Effects, LegacyFacts
  <2>2. id \in data
    BY <2>1 DEF Creations, At, Running
  <2>3. ~\E c \in Calls : Does(c, "delete") /\ call[c].id = id
    BY <2>1 DEF Deletions, At
  <2>4. QED
    BY <2>2, <2>3, Effects
<1>3. QED
  BY <1>1, <1>2

LEMMA ImportedOnceStep ==
    ASSUME TypeOK, MutexHeldByImporter, Placed, Purpose, MigrationComplete, Deletions,
           NewListed, ImportedOnce, [Next]_vars, NewListed'
    PROVE  ImportedOnce'
<1> SUFFICES ASSUME Alone
             PROVE  /\ rows' \subseteq data'
                    /\ ~marker' => Range(Legacy) \subseteq data'
                    /\ \A d \in Calls :
                          /\ call'[d].pc \in {"act", "data"} => marker'
                          /\ call'[d].pc = "data" => call'[d].id \notin rows'
                          /\ call'[d].pc \in {"legacy", "import", "mark"} => ~marker'
  BY StepFrame DEF ImportedOnce, Alone, Fails, At
<1>1. /\ rows \subseteq data
      /\ ~marker => Range(Legacy) \subseteq data
      /\ \A d \in Calls :
            /\ call[d].pc \in {"act", "data"} => marker
            /\ call[d].pc = "data" => call[d].id \notin rows
            /\ call[d].pc \in {"legacy", "import", "mark"} => ~marker
  BY DEF ImportedOnce, At
<1>2. ~marker' => Range(Legacy) \subseteq data'
  BY <1>1, Effects DEF At
<1>3. rows' \subseteq data'
  <2> SUFFICES ASSUME NEW id \in rows' PROVE id \in data'
    OBVIOUS
  <2>1. CASE id \in rows
    BY <1>1, <2>1, Effects DEF At
  <2>2. CASE id \notin rows /\ id \in Calls
    BY <2>2 DEF NewListed
  <2>3. CASE id \notin rows /\ id \notin Calls
    <3>1. id \in Range(Legacy) /\ ~marker
      BY <1>1, <2>3, Effects DEF At
    <3>2. QED
      BY <1>1, <3>1, Effects DEF At
  <2>4. QED
    BY <2>1, <2>2, <2>3
<1>4. ASSUME NEW d \in Calls, call'[d].pc = "data" PROVE call'[d].id \notin rows' /\ marker'
  <2>1. CASE call[d].pc = "data"
    <3>1. call'[d].id = call[d].id /\ call[d].id \notin rows /\ marker
      BY <1>1, <2>1, StepFrame
    <3>2. Does(d, "delete")
      BY <2>1 DEF Purpose, At
    <3>3. call[d].id \in Calls => ~At(call[d].id, "act")
      BY <3>2 DEF Deletions, At
    <3>4. ~\E c \in Calls : At(c, "import")
      BY <1>1, <3>1 DEF At
    <3>5. QED
      BY <3>1, <3>3, <3>4, Effects
  <2>2. CASE call[d].pc # "data"
    <3>1. DeleteRow(d) /\ CallStep(d)
      BY <1>4, <2>2, Moved, StartFacts, Targets
    <3>2. call'[d].id = call[d].id /\ marker
      BY <1>1, <3>1, CallStepFacts DEF DeleteRow, At
    <3>3. rows' = rows \ {call[d].id} \/ Goto(d, "failed")
      BY <3>1 DEF DeleteRow
    <3>4. QED
      BY <1>4, <3>2, <3>3, GotoFacts, Effects DEF PCs
  <2>3. QED
    BY <2>1, <2>2
<1>5. ASSUME NEW d \in Calls, call'[d].pc = "act" PROVE marker'
  <2>1. CASE call[d].pc = "act"
    BY <1>1, <2>1, Effects
  <2>2. CASE call[d].pc # "act"
    <3>1. CallStep(d)
      BY <1>5, <2>2, Moved, StartFacts
    <3>2. call[d].inst \in Instances
      BY DEF TypeOK, Call
    <3>3. \/ (CheckFlag(d) \/ Lock(d)) /\ migrated[call[d].inst]
          \/ marker \/ marker'
      BY <1>5, <3>1, Targets DEF Alone, Inst, SaveData, DeleteRow
    <3>4. QED
      BY <3>2, <3>3, Effects DEF MigrationComplete
  <2>3. QED
    BY <2>1, <2>2
<1>6. ASSUME NEW d \in Calls, call'[d].pc \in {"legacy", "import", "mark"} PROVE ~marker'
  <2>1. ~marker /\ (call[d].pc \in Importing) /\ call'[d].pc \in Importing
    BY <1>1, <1>6, Moved, StartFacts, Targets DEF ReadLegacy, Import, ReadMarker, At, Importing
  <2>2. ASSUME NEW c \in Calls, Mark(c) PROVE FALSE
    <3>1. call[c].inst = call[d].inst /\ call[d].inst \in Instances
      BY <2>1, <2>2 DEF Mark, Alone, Placed, At, Inst, Importing, TypeOK, Call
    <3>2. c = d
      BY <2>1, <2>2, <3>1 DEF MutexHeldByImporter, Mark, At, Inst, Importing
    <3>3. CallStep(c)
      BY <2>2 DEF CallStep
    <3>4. call'[c].pc \notin Importing
      BY <2>2, <3>3, Targets, GotoFacts DEF Mark, Migrated, GiveUp, PCs, Importing
    <3>5. QED
      BY <2>1, <3>2, <3>4
  <2>3. QED
    BY <2>1, <2>2, Effects
<1>7. QED
  BY <1>2, <1>3, <1>4, <1>5, <1>6

-----------------------------------------------------------------------------
LEMMA IndStep == IndInv /\ [Next]_vars => IndInv'
<1> SUFFICES ASSUME IndInv, [Next]_vars PROVE IndInv'
  OBVIOUS
<1> USE DEF IndInv
<1>1. TypeOK' /\ Purpose' /\ MutexHeldByImporter' /\ Placed'
  BY TypeStep, PurposeStep, MutexStep, PlacedStep
<1>2. Imported' /\ MigrationComplete'
  BY ImportedStep, MigrationStep
<1>3. Creations' /\ Deletions' /\ NewListed'
  BY CreationsStep, DeletionsStep, NewListedStep
<1>4. ImportedOnce'
  BY <1>3, ImportedOnceStep
<1>5. QED
  BY <1>1, <1>2, <1>3, <1>4

LEMMA Inductive == Spec => []IndInv
BY InitInv, IndStep, PTL DEF Spec

(* The values of the variables. *)
THEOREM TypeCorrect == Spec => []TypeOK
<1>1. IndInv => TypeOK
  BY DEF IndInv
<1>2. QED
  BY <1>1, Inductive, PTL

(* snapIdxMu is held by the one call of the instance that imports. *)
THEOREM MutexCorrect == Spec => []MutexHeldByImporter
<1>1. IndInv => MutexHeldByImporter
  BY DEF IndInv
<1>2. QED
  BY <1>1, Inductive, PTL

(* ensureSnapshotIndexMigrated: an import that counts as done is complete,    *)
(* however many instances, failures and restarts it took.                     *)
THEOREM MigratedIsComplete == Spec => []MigrationComplete
<1>1. IndInv => MigrationComplete
  BY DEF IndInv
<1>2. QED
  BY <1>1, Inductive, PTL

(* CreateSnapshot: no import takes a new snapshot away. *)
THEOREM CreatedSnapshotKept == Spec => []CreatedIsKept
<1>1. IndInv => CreatedIsKept
  BY DEF IndInv, Creations, CreatedIsKept, Present, Does, At
<1>2. QED
  BY <1>1, Inductive, PTL

(* DeleteSnapshot: nothing brings a deleted new snapshot back. *)
THEOREM DeletedSnapshotGone == Spec => []DeletedIsGone
<1>1. IndInv => DeletedIsGone
  BY DEF IndInv, Deletions, DeletedIsGone, At
<1>2. QED
  BY <1>1, Inductive, PTL

(* ListSnapshots: what is listed can be opened, except for entries of the old *)
(* index that an interrupted or a second import has brought back.             *)
THEOREM ListedCanBeOpened == Spec => []ListedHasData
<1>1. IndInv => ListedHasData
  BY LegacyFacts DEF IndInv, TypeOK, Ids, NewListed, ImportedOnce, ListedHasData
<1>2. QED
  BY <1>1, Inductive, PTL

(* The whole promise of the index: the mutex, the completed import, and what  *)
(* creating, deleting and listing say, in every instance and after failures.  *)
THEOREM IndexIsSound == Spec => []IndexSound
<1>1. /\ Spec => []MutexHeldByImporter /\ []MigrationComplete
      /\ Spec => []CreatedIsKept /\ []DeletedIsGone /\ []ListedHasData
  BY MutexCorrect, MigratedIsComplete, CreatedSnapshotKept, DeletedSnapshotGone,
     ListedCanBeOpened
<1>2. /\ MutexHeldByImporter /\ MigrationComplete
      /\ CreatedIsKept /\ DeletedIsGone /\ ListedHasData
      => IndexSound
  BY DEF IndexSound
<1>3. QED
  BY <1>1, <1>2, PTL
=============================================================================
