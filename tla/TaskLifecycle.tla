--------------------------- MODULE TaskLifecycle ----------------------------
(***************************************************************************)
(* What the task runner promises to those who watch a task: a task that    *)
(* was started is concluded at most once, the conclusion never changes,    *)
(* and a watcher is shown no other conclusion than that one, once.         *)
(***************************************************************************)
CONSTANTS Tasks, Clients

VARIABLES
    status,   \* "pending", "running", a verdict, or "lost" in a crash
    watched,  \* the task a client watches
    shown     \* the verdict a client was shown, "nothing" before

vars == <<status, watched, shown>>

Verdict == {"done", "error", "cancelled"}

Init ==
    /\ status = [t \in Tasks |-> "pending"]
    /\ watched \in [Clients -> Tasks]
    /\ shown = [c \in Clients |-> "nothing"]

Start(t) ==
    /\ status[t] = "pending"
    /\ status' = [status EXCEPT ![t] = "running"]
    /\ UNCHANGED <<watched, shown>>

Conclude(t) ==
    /\ status[t] = "running"
    /\ \E v \in Verdict : status' = [status EXCEPT ![t] = v]
    /\ UNCHANGED <<watched, shown>>

Watch(c, t) ==
    /\ watched' = [watched EXCEPT ![c] = t]
    /\ shown' = [shown EXCEPT ![c] = "nothing"]
    /\ UNCHANGED status

Show(c) ==
    /\ shown[c] = "nothing"
    /\ status[watched[c]] \in Verdict
    /\ shown' = [shown EXCEPT ![c] = status[watched[c]]]
    /\ UNCHANGED <<status, watched>>

Leave(c) ==
    /\ shown' = [shown EXCEPT ![c] = "nothing"]
    /\ UNCHANGED <<status, watched>>

(* A crash loses every running task, and those about to start; it cuts     *)
(* every watcher off.                                                      *)
LoseAll ==
    /\ \E lost \in SUBSET {t \in Tasks : status[t] \in {"pending", "running"}} :
          /\ \A t \in Tasks : status[t] = "running" => t \in lost
          /\ status' = [t \in Tasks |-> IF t \in lost THEN "lost" ELSE status[t]]
    /\ shown' = [c \in Clients |-> "nothing"]
    /\ UNCHANGED watched

Next ==
    \/ \E t \in Tasks : Start(t) \/ Conclude(t)
    \/ \E c \in Clients : Show(c) \/ Leave(c)
    \/ \E c \in Clients, t \in Tasks : Watch(c, t)
    \/ LoseAll

Spec == Init /\ [][Next]_vars
=============================================================================
