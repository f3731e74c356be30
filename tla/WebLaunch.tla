---------------------------- MODULE WebLaunch ----------------------------
(***************************************************************************)
(* Starting and stopping the web service: the port check of                *)
(* internal/web/portutil.go, RunWeb of internal/web/server.go, the commands *)
(* `dqex url` and `dqex stop`, and the credentials they leave behind: one   *)
(* row per listen address in the store and one web-access.json.            *)
(*                                                                         *)
(* Several processes of one machine and one data directory are started     *)
(* side by side.  Listening is probed (listen, then close) long before the *)
(* service listens, and the credentials are written in between.            *)
(***************************************************************************)
EXTENDS Naturals, FiniteSets

CONSTANTS Processes,      \* the processes
          MaxRetries,     \* attempts after the occupant was told to end (10 in the code)
          LaunchCases     \* the situations explored: see LaunchInit

Nobody == "nobody"

VARIABLES launchCase,     \* [addr, auth, user, role]: the flags and the user of each process
          phase,          \* process -> where its start is
          tries,          \* process -> listen attempts made after killing
          found,          \* process -> the occupants it showed to its user
          dying,          \* processes that were sent a signal and have not ended
          accessRows,           \* listen address -> the process whose token the store's row holds
          accessFile,     \* the process whose token web-access.json holds
          passed,         \* process -> those past their own port check when it began to listen
          saveFailed,     \* processes whose row was not written
          opened          \* what the last "open the existing service" used: <<port, token>>

launchVars == <<launchCase, phase, tries, found, dying, accessRows, accessFile, passed,
                saveFailed, opened>>

Addr(p) == launchCase.addr[p]
Wild(a) == a.host = "any"

(* Two listeners of one port exclude each other when they name the same    *)
(* interface or one of them takes all of them.                             *)
Excludes(a, b) == a.port = b.port /\ (a.host = b.host \/ Wild(a) \/ Wild(b))

Listening == {p \in Processes : phase[p] = "live"}
Probing == {p \in Processes : phase[p] \in {"probe", "probeLoop", "retry"}}

Free(a) == \A p \in Listening : ~ Excludes(Addr(p), a)

(* A probe of another process holds the address for a moment.              *)
MayFail(p, a) == ~ Free(a) \/ \E q \in Probing \ {p} : Excludes(Addr(q), a)

To(p, next) == phase' = [phase EXCEPT ![p] = next]

LaunchInit ==
  /\ launchCase \in LaunchCases
  /\ phase = [p \in Processes |-> IF launchCase.role[p] = "foreign" THEN "live" ELSE "idle"]
  /\ tries = [p \in Processes |-> 0]
  /\ found = [p \in Processes |-> {}]
  /\ dying = {}
  /\ accessRows = [a \in {} |-> Nobody]
  /\ accessFile = Nobody
  /\ passed = [p \in Processes |-> {}]
  /\ saveFailed = {}
  /\ opened = <<0, Nobody>>

-----------------------------------------------------------------------------
(* The port check                                                          *)

Launch(p) ==
  /\ phase[p] = "idle"
  /\ To(p, "probe")
  /\ UNCHANGED <<launchCase, tries, found, dying, accessRows, accessFile, passed, saveFailed, opened>>

Probe(p) ==
  /\ phase[p] = "probe"
  /\ \/ Free(Addr(p)) /\ To(p, "ready")
     \/ MayFail(p, Addr(p)) /\ To(p, IF Wild(Addr(p)) THEN "probeLoop" ELSE "busy")
  /\ UNCHANGED <<launchCase, tries, found, dying, accessRows, accessFile, passed, saveFailed, opened>>

(* A wildcard address is taken to be free when the loopback address is.    *)
Loop(p) == [host |-> "loop", port |-> Addr(p).port]

ProbeLoop(p) ==
  /\ phase[p] = "probeLoop"
  /\ \/ Free(Loop(p)) /\ To(p, "ready")
     \/ MayFail(p, Loop(p)) /\ To(p, "busy")
  /\ UNCHANGED <<launchCase, tries, found, dying, accessRows, accessFile, passed, saveFailed, opened>>

(* The system's tools name all occupants, none, or (lsof, whose parser     *)
(* keeps the last process only) a single one.                              *)
NamedHolder(p) == LET on == {q \in Listening : Addr(q).port = Addr(p).port}
            IN {{}, on} \cup {{q} : q \in on}

Identify(p) ==
  /\ phase[p] = "busy"
  /\ \E who \in NamedHolder(p) :
       /\ found' = [found EXCEPT ![p] = who]
       /\ To(p, IF who = {} \/ launchCase.user[p] = "script" THEN "gone" ELSE "prompt")
  /\ UNCHANGED <<launchCase, tries, dying, accessRows, accessFile, passed, saveFailed, opened>>

Cancel(p) ==
  /\ phase[p] = "prompt"
  /\ To(p, "gone")
  /\ UNCHANGED <<launchCase, tries, found, dying, accessRows, accessFile, passed, saveFailed, opened>>

(* The token comes from web-access.json whatever address it was issued for. *)
OpenExisting(p) ==
  /\ phase[p] = "prompt"
  /\ opened' = <<Addr(p).port, accessFile>>
  /\ To(p, "gone")
  /\ UNCHANGED <<launchCase, tries, found, dying, accessRows, accessFile, passed, saveFailed>>

(* Signals go out one process after the other; the start gives up when one *)
(* of them fails, with the others already told to end.                     *)
Kill(p) ==
  /\ phase[p] = "prompt"
  /\ IF launchCase.user[p] = "root"
     THEN LET there == {q \in found[p] : phase[q] # "gone"}
          IN /\ dying' = dying \cup there
             /\ tries' = [tries EXCEPT ![p] = 0]
             /\ To(p, IF there = found[p] THEN "retry" ELSE "gone")
     ELSE UNCHANGED <<dying, tries>> /\ To(p, "gone")
  /\ UNCHANGED <<launchCase, found, accessRows, accessFile, passed, saveFailed, opened>>

Retry(p) ==
  /\ phase[p] = "retry"
  /\ \/ Free(Addr(p)) /\ To(p, "ready") /\ UNCHANGED tries
     \/ /\ MayFail(p, Addr(p))
        /\ tries' = [tries EXCEPT ![p] = @ + 1]
        /\ To(p, IF tries[p] + 1 = MaxRetries THEN "gone" ELSE "retry")
  /\ UNCHANGED <<launchCase, found, dying, accessRows, accessFile, passed, saveFailed, opened>>

-----------------------------------------------------------------------------
(* RunWeb after the check: credentials first, then the listener            *)

(* Slip: the table is really kept at one row.                               *)
PutAccessOnly(p) == [a \in {Addr(p)} |-> p]

PutAccess(p) == [a \in DOMAIN accessRows \cup {Addr(p)} |-> IF a = Addr(p) THEN p ELSE accessRows[a]]

SaveAccess(p) ==
  /\ phase[p] = "ready"
  /\ \/ accessRows' = PutAccess(p) /\ UNCHANGED saveFailed
     \/ launchCase.faults /\ saveFailed' = saveFailed \cup {p} /\ UNCHANGED accessRows
  /\ To(p, "saved")
  /\ UNCHANGED <<launchCase, tries, found, dying, accessFile, passed, opened>>

WriteAccessFile(p) ==
  /\ phase[p] = "saved"
  /\ \/ accessFile' = p
     \/ launchCase.faults /\ UNCHANGED accessFile
  /\ To(p, "filed")
  /\ UNCHANGED <<launchCase, tries, found, dying, accessRows, passed, saveFailed, opened>>

(* The error of the listener is dropped: the process just ends.            *)
Listen(p) ==
  /\ phase[p] = "filed"
  /\ \/ /\ Free(Addr(p))
        /\ To(p, "live")
        /\ passed' = [passed EXCEPT ![p] =
                        {q \in Processes : phase[q] \in {"ready", "saved", "filed"}}
                          \cup {accessRows[a] : a \in DOMAIN accessRows \cap {Addr(p)}}]
     \/ MayFail(p, Addr(p)) /\ To(p, "gone") /\ UNCHANGED passed
  /\ UNCHANGED <<launchCase, tries, found, dying, accessRows, accessFile, saveFailed, opened>>

-----------------------------------------------------------------------------
(* Ending a process, `dqex stop` and `dqex url`                            *)

End(p) ==
  /\ phase[p] \notin {"idle", "gone"}
  /\ p \in dying \/ phase[p] = "live"
  /\ To(p, "gone")
  /\ dying' = dying \ {p}
  /\ UNCHANGED <<launchCase, tries, found, accessRows, accessFile, passed, saveFailed, opened>>

(* SIGTERM, and SIGKILL to those that stay: every process of that name.    *)
Stop ==
  /\ LET ours == {p \in Processes : launchCase.role[p] = "dqex" /\ phase[p] \notin {"idle", "gone"}}
     IN ours \ dying # {} /\ dying' = dying \cup ours
  /\ UNCHANGED <<launchCase, phase, tries, found, accessRows, accessFile, passed, saveFailed, opened>>

(* What `dqex url` may print: accessRows[0] of an unordered list.                *)
UrlAnswers == {accessRows[a] : a \in DOMAIN accessRows}

LaunchNext ==
  \/ \E p \in Processes :
       \/ Launch(p) \/ Probe(p) \/ ProbeLoop(p) \/ Identify(p)
       \/ Cancel(p) \/ OpenExisting(p) \/ Kill(p) \/ Retry(p)
       \/ SaveAccess(p) \/ WriteAccessFile(p) \/ Listen(p) \/ End(p)
  \/ Stop

LaunchSpec == LaunchInit /\ [][LaunchNext]_launchVars

-----------------------------------------------------------------------------
(* Properties                                                              *)

(* Every variable holds what the code can put there; nobody waits for the  *)
(* end of a process that has ended.                                        *)
LaunchTypeOK ==
  /\ phase \in [Processes -> {"idle", "probe", "probeLoop", "busy", "prompt", "retry",
                             "ready", "saved", "filed", "live", "gone"}]
  /\ tries \in [Processes -> 0 .. MaxRetries]
  /\ found \in [Processes -> SUBSET Processes]
  /\ dying \subseteq Processes
  /\ DOMAIN accessRows \subseteq {Addr(p) : p \in Processes}
  /\ \A a \in DOMAIN accessRows : Addr(accessRows[a]) = a
  /\ accessFile \in Processes \cup {Nobody}
  /\ passed \in [Processes -> SUBSET Processes]
  /\ saveFailed \subseteq Processes
  /\ opened[2] \in Processes \cup {Nobody}

(* The row of a listening service is its own: starts on other addresses    *)
(* leave it alone, and a start on the same address can only replace it if  *)
(* it was past its port check before this service listened (RunWeb,        *)
(* ensurePortAvailable, SaveWebAccess).                                    *)
CredentialsKept ==
  \A p \in Listening : launchCase.role[p] = "dqex" /\ p \notin saveFailed =>
    /\ Addr(p) \in DOMAIN accessRows
    /\ accessRows[Addr(p)] \in {p} \cup passed[p]

(* server.go:383: "dqex url can fetch the current access link at any time": *)
(* with one service listening and its credentials written, that is the one *)
(* whose token the store hands out.                                        *)
UrlIsCurrent ==
  \A p \in Processes :
    (/\ Listening = {p} /\ launchCase.role[p] = "dqex"
     /\ \A q \in Processes \ {p} : phase[q] \in {"idle", "gone"}
     /\ p \notin saveFailed)
    => UrlAnswers = {p}
=============================================================================
