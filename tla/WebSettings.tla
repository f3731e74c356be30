--------------------------- MODULE WebSettings ---------------------------
(***************************************************************************)
(* A running web service between its requests and its settings page: the   *)
(* source list and the token check of internal/web/access.go and server.go, *)
(* handleSaveConfig with Service.SaveConfig, and the list of AI providers  *)
(* behind a sync.Once (internal/service/ai_providers.go).                  *)
(*                                                                         *)
(* Every request runs in a goroutine of its own; what a handler does under *)
(* one lock, or in one file operation, is one step.                        *)
(***************************************************************************)
EXTENDS Naturals, Sequences, FiniteSets, SequencesExt

CONSTANTS
    Sources, AuthCalls,           \* remote addresses; concurrent API calls of one of them
    FailLimit, FailWindow, BlockTime, TokenTTL,   \* authFailLimit .., in ticks
    MaxNow,                   \* bound on the clock
    Forms, Savers,            \* what the settings page can send; concurrent saves
    Mask,                     \* the masked API key the page shows
    Builtin, Custom,          \* the built-in provider ids, in order; the last of them
    Lists, Readers, Editors,  \* provider lists to save; concurrent readers and savers of them
    SettingParts              \* which of the three parts a behaviour exercises

ASSUME SettingsAssumption ==
    /\ FailLimit \in Nat \ {0} /\ FailWindow \in Nat \ {0} /\ BlockTime \in Nat
    /\ FailWindow <= BlockTime /\ IsFiniteSet(AuthCalls)
    /\ Builtin \in Seq(Range(Builtin)) /\ Builtin # <<>> /\ Custom = Builtin[Len(Builtin)]
    /\ \A i, j \in DOMAIN Builtin : Builtin[i] = Builtin[j] => i = j
    /\ \A list \in Lists : list \in Seq(Range(list))
    /\ \A form \in Forms : DOMAIN form = {"allow", "dirs", "key"}

VARIABLES
    settingPart,
    clock, fails, blocked,      \* the limiter: source -> times of failures, end of the lock
    authCall,                     \* authCall -> [src, right, at]: where it is
    wrong,                    \* source -> times of the wrong tokens looked at since a right one
    file, memory, dirs, filter,   \* config.yaml, Service.cfg, the managed directories, the source list
    saver,                    \* saver -> [form, merged, at]
    calm,                     \* no save failed or overlapped another since the last clean one
    typed,                    \* the last API key a user typed in that was taken over
    provFile, provCache, provDone, provLock,   \* ai_providers.yaml, providersCache, providersOnce
    reader, editor,           \* readers inside Do and savers of the list, with what they hold
    up                        \* the process has not been ended by the runtime

limitVars == <<clock, fails, blocked, authCall, wrong>>
configVars == <<file, memory, dirs, filter, saver, calm, typed>>
provVars == <<provFile, provCache, provDone, provLock, reader, editor, up>>
settingVars == <<settingPart, limitVars, configVars, provVars>>

NoCall == [src |-> "", right |-> FALSE, at |-> "idle"]
NoSave == [form |-> {}, merged |-> {}, at |-> "idle"]
NoList == [at |-> "idle", list |-> <<>>]

SettingsInit ==
    /\ settingPart \in SettingParts
    /\ clock = 1 /\ fails = [s \in Sources |-> <<>>] /\ blocked = [s \in Sources |-> 0]
    /\ authCall = [c \in AuthCalls |-> NoCall] /\ wrong = [s \in Sources |-> <<>>]
    /\ file \in {f \in Forms : f.key # Mask} /\ memory = file /\ dirs = file.dirs /\ filter \in {f.allow : f \in Forms}
    /\ saver = [s \in Savers |-> NoSave]
    /\ calm = (filter = file.allow) /\ typed = file.key
    /\ provFile = <<>> /\ provCache = <<>> /\ provDone = FALSE /\ provLock = FALSE
    /\ reader = [r \in Readers |-> NoList]
    /\ editor = [e \in Editors |-> NoList]
    /\ up = TRUE

-----------------------------------------------------------------------------
(* accessControl and tokenAuth                                             *)

Part(p) == settingPart = p /\ up /\ UNCHANGED settingPart
OnlyLimit == Part("limit") /\ UNCHANGED <<configVars, provVars>>
MoveTo(c, step) == authCall' = [authCall EXCEPT ![c] = IF step = "idle" THEN NoCall ELSE [@ EXCEPT !.at = step]]

Clock == OnlyLimit /\ clock < MaxNow /\ clock' = clock + 1 /\ UNCHANGED <<fails, blocked, authCall, wrong>>

(* The source list, --allow or else the configured one at first, is read   *)
(* under its lock; loopback sources never get here.                        *)
Enter(c) ==
    /\ OnlyLimit /\ authCall[c].at = "idle"
    /\ \E s \in Sources, right \in BOOLEAN :
         authCall' = [authCall EXCEPT ![c] = IF s \in filter THEN [src |-> s, right |-> right, at |-> "listed"]
                                                     ELSE NoCall]
    /\ UNCHANGED <<clock, fails, blocked, wrong>>

(* allow, then the age of the token.                                       *)
Admit(c) ==
    /\ OnlyLimit /\ authCall[c].at = "listed"
    /\ IF clock > blocked[authCall[c].src] /\ clock <= TokenTTL THEN MoveTo(c, "judge") ELSE MoveTo(c, "idle")
    /\ UNCHANGED <<clock, fails, blocked, wrong>>

(* The times that are within the window before end.                        *)
Since(times, end) ==
    LET kept[i \in 0 .. Len(times)] ==
          IF i = 0 THEN <<>>
          ELSE IF times[i] + FailWindow > end THEN Append(kept[i - 1], times[i]) ELSE kept[i - 1]
    IN  kept[Len(times)]

Recent(s) == Since(fails[s], clock)
RecentWrong(s) == Since(wrong[s], clock)

(* Slip: the failures are forgotten, but the source is not locked.         *)
FailWithoutLock(s) ==
    /\ fails' = [fails EXCEPT ![s] = IF Len(Recent(s)) + 1 >= FailLimit THEN <<>> ELSE Append(Recent(s), clock)]
    /\ UNCHANGED blocked

Fail(s) ==
    LET kept == Append(Recent(s), clock) IN
    IF Len(kept) >= FailLimit
    THEN fails' = [fails EXCEPT ![s] = <<>>] /\ blocked' = [blocked EXCEPT ![s] = clock + BlockTime]
    ELSE fails' = [fails EXCEPT ![s] = kept] /\ UNCHANGED blocked

Pass(s) == fails' = [fails EXCEPT ![s] = <<>>] /\ blocked' = [blocked EXCEPT ![s] = 0]

Judge(c) ==
    LET s == authCall[c].src IN
    /\ OnlyLimit /\ authCall[c].at = "judge" /\ MoveTo(c, "idle")
    /\ \/ authCall[c].right /\ Pass(s) /\ wrong' = [wrong EXCEPT ![s] = <<>>]
       \/ ~ authCall[c].right /\ Fail(s) /\ wrong' = [wrong EXCEPT ![s] = Append(RecentWrong(s), clock)]
    /\ UNCHANGED clock

-----------------------------------------------------------------------------
(* handleSaveConfig and SaveConfig                                         *)

OnlyConfig == Part("config") /\ UNCHANGED <<limitVars, provVars>>
Saving == {s \in Savers : saver[s].at # "idle"}
Step(s, next) == saver' = [saver EXCEPT ![s].at = next]
Leave(s) == saver' = [saver EXCEPT ![s] = NoSave]
Give(s) == Leave(s) /\ calm' = FALSE

(* Slip: an untouched form overwrites the key with its mask.               *)
MergedAsSent(form) == form

(* A blank or masked key keeps the one in memory.                          *)
Merged(form) == IF form.key = Mask THEN [form EXCEPT !.key = memory.key] ELSE form

Submit(s) ==
    /\ OnlyConfig /\ saver[s].at = "idle"
    /\ \E form \in Forms :
         /\ saver' = [saver EXCEPT ![s] = [form |-> form, merged |-> Merged(form), at |-> "write"]]
         /\ calm' = (Saving = {} /\ (calm \/ typed = memory.key \/ form.key # Mask))
    /\ UNCHANGED <<file, memory, dirs, filter, typed>>

WriteConfig(s) ==
    /\ OnlyConfig /\ saver[s].at = "write"
    /\ \/ file' = saver[s].merged /\ Step(s, "memory") /\ UNCHANGED calm
       \/ UNCHANGED file /\ Give(s)
    /\ UNCHANGED <<memory, dirs, filter, typed>>

SetMemory(s) ==
    /\ OnlyConfig /\ saver[s].at = "memory"
    /\ memory' = saver[s].merged /\ Step(s, "dirs")
    /\ typed' = IF saver[s].form.key = Mask THEN typed ELSE saver[s].form.key
    /\ UNCHANGED <<file, dirs, filter, calm>>

(* Slip: the error of the directories is logged and the save goes on.      *)
UpdateDirsLenient(s) ==
    /\ OnlyConfig /\ saver[s].at = "dirs"
    /\ dirs' \in {dirs, saver[s].merged.dirs} /\ Step(s, "filter")
    /\ UNCHANGED <<file, memory, filter, calm, typed>>

(* A failure here leaves file and memory at the new settings, and the      *)
(* source list, which the handler refreshes after a success, at the old.   *)
UpdateDirs(s) ==
    /\ OnlyConfig /\ saver[s].at = "dirs"
    /\ \/ dirs' = saver[s].merged.dirs /\ Step(s, "filter") /\ UNCHANGED calm
       \/ UNCHANGED dirs /\ Give(s)
    /\ UNCHANGED <<file, memory, filter, typed>>

(* Set is given the list of the request.                                   *)
SetFilter(s) ==
    /\ OnlyConfig /\ saver[s].at = "filter"
    /\ filter' = saver[s].form.allow /\ Leave(s)
    /\ UNCHANGED <<file, memory, dirs, calm, typed>>

-----------------------------------------------------------------------------
(* SaveAIProviders, AIProviders and loadAndMergeProviders                  *)

OnlyProviders == Part("providers") /\ UNCHANGED <<limitVars, configVars>>

(* A stored provider replaces the one of its id or is put before "custom". *)
Place(list, id) ==
    IF id = "" \/ id \in Range(list) THEN list
    ELSE InsertAt(list, CHOOSE i \in DOMAIN list : list[i] = Custom, id)

MergeProviders(stored) ==
    LET result[n \in 0 .. Len(stored)] ==
          IF n = 0 THEN Builtin ELSE Place(result[n - 1], stored[n])
    IN  result[Len(stored)]

Now(e, step) == editor' = [editor EXCEPT ![e].at = step]

WriteProviders(e) ==
    /\ OnlyProviders /\ editor[e].at = "idle"
    /\ \E list \in Lists : provFile' = list
    /\ Now(e, "reset")
    /\ UNCHANGED <<provCache, provDone, provLock, reader, up>>

(* Slip: a load that is under way is left to finish with what it read.     *)
ResetLoaded(e) ==
    /\ OnlyProviders /\ editor[e].at = "reset"
    /\ provDone' = (provDone /\ provLock) /\ UNCHANGED provLock /\ Now(e, "idle")
    /\ UNCHANGED <<provFile, provCache, reader, up>>

(* providersOnce = sync.Once{}: an unused Once with an unlocked mutex,     *)
(* whoever is inside the old one.                                          *)
ResetOnce(e) ==
    /\ OnlyProviders /\ editor[e].at = "reset"
    /\ provDone' = FALSE /\ provLock' = FALSE /\ Now(e, "idle")
    /\ UNCHANGED <<provFile, provCache, reader, up>>

Load(r) ==
    /\ OnlyProviders /\ reader[r].at = "idle" /\ ~ provDone /\ ~ provLock
    /\ reader' = [reader EXCEPT ![r] = [at |-> "inside", list |-> MergeProviders(provFile)]]
    /\ provLock' = TRUE
    /\ UNCHANGED <<provFile, provCache, provDone, editor, up>>

(* done is set before the mutex is unlocked, and unlocking an unlocked     *)
(* mutex ends the process.                                                 *)
Loaded(r) ==
    /\ OnlyProviders /\ reader[r].at = "inside"
    /\ provCache' = reader[r].list /\ provDone' = TRUE
    /\ provLock' = FALSE /\ up' = provLock
    /\ reader' = [reader EXCEPT ![r] = NoList]
    /\ UNCHANGED <<provFile, editor>>

SettingsNext ==
    \/ Clock
    \/ \E c \in AuthCalls : Enter(c) \/ Admit(c) \/ Judge(c)
    \/ \E s \in Savers : Submit(s) \/ WriteConfig(s) \/ SetMemory(s) \/ UpdateDirs(s) \/ SetFilter(s)
    \/ \E e \in Editors : WriteProviders(e) \/ ResetOnce(e)
    \/ \E r \in Readers : Load(r) \/ Loaded(r)

SettingsSpec == SettingsInit /\ [][SettingsNext]_settingVars
-----------------------------------------------------------------------------
(* Properties                                                              *)

(* Every variable holds what the code can put there; times are not ahead   *)
(* of the clock.                                                           *)
SettingsTypeOK ==
    /\ clock \in 1 .. MaxNow
    /\ \A s \in Sources : Len(fails[s]) < FailLimit /\ Range(fails[s]) \subseteq 1 .. clock
    /\ \A s \in Sources : blocked[s] <= clock + BlockTime
    /\ \A c \in AuthCalls : authCall[c].at \in {"idle", "listed", "judge"}
    /\ Mask \notin {file.key, memory.key, typed}
    /\ \A s \in Savers : saver[s].at \in {"idle", "write", "memory", "dirs", "filter"}
    /\ \A r \in Readers : reader[r].at \in {"idle", "inside"}
    /\ provFile \in Lists \cup {<<>>} /\ provDone \in BOOLEAN /\ provLock \in BOOLEAN

(* However the calls of a source interleave, the wrong tokens looked at    *)
(* within one window since its last right one stay below the limit plus    *)
(* the calls admitted before the lock (allow, fail and pass of access.go,  *)
(* each under the mutex, with the comparison between them outside it).     *)
AttemptsBounded ==
    \A s \in Sources : Len(RecentWrong(s)) < FailLimit + Cardinality(AuthCalls)

(* After a save that succeeded and that no other one overlapped, the file, *)
(* the memory, the directories and the source list all hold what was sent, *)
(* with the API key that was last typed in: never its mask, and never an   *)
(* older one (SaveConfig and handleSaveConfig).                            *)
SavedIsInForce ==
    Saving = {} /\ calm =>
        /\ file = memory /\ dirs = memory.dirs /\ filter = memory.allow
        /\ memory.key = typed

(* With no load and no save under way, a loaded provider list is the saved *)
(* one merged into the built-in ones: every id once, the saved and the     *)
(* built-in ones among them, "custom" at the end (SaveAIProviders,         *)
(* AIProviders).  A reset that meets a load ends the process (up).         *)
ProvidersFresh ==
    (/\ up /\ provDone
     /\ \A r \in Readers : reader[r].at = "idle"
     /\ \A e \in Editors : editor[e].at = "idle") =>
        /\ Range(provCache) = Range(Builtin) \cup (Range(provFile) \ {""})
        /\ Cardinality(Range(provCache)) = Len(provCache)
        /\ provCache[Len(provCache)] = Custom
        /\ provCache = MergeProviders(provFile)

(* What the settings pages saved is what the service works with.            *)
SavedTakesEffect == SavedIsInForce /\ ProvidersFresh
=============================================================================
