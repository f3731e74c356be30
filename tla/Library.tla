------------------------------- MODULE Library -------------------------------
(***************************************************************************)
(* What the library's database keeps: artifacts and their records, the     *)
(* connections with all that hangs on them, the SQL console's tables, the   *)
(* saved tasks.  These share no state: a behaviour is of one of them, the   *)
(* others stay as one initial state of theirs.                             *)
(***************************************************************************)
EXTENDS ArtifactStore, ConnLibrary, SqlConsole, TaskCommands

VARIABLE part

Components == {"artifacts", "connections", "sql", "tasks"}

LibraryInit ==
    /\ part \in Components
    /\ part # "artifacts"   => caseOf  = CHOOSE c \in ArtCases : TRUE
    /\ part # "connections" => libCase = CHOOSE c \in LibCases : TRUE
    /\ part # "sql"         => sqlCase = CHOOSE c \in SqlCases : TRUE
    /\ part # "tasks"       => cmdCase = CHOOSE c \in CmdCases : TRUE
    /\ ArtInit /\ LibInit /\ SqlInit /\ TaskInit

LibraryNext ==
    \/ part = "artifacts"   /\ ArtNext  /\ UNCHANGED <<part, libVars, sqlVars, taskVars>>
    \/ part = "connections" /\ LibNext  /\ UNCHANGED <<part, artVars, sqlVars, taskVars>>
    \/ part = "sql"         /\ SqlNext  /\ UNCHANGED <<part, artVars, libVars, taskVars>>
    \/ part = "tasks"       /\ TaskNext /\ UNCHANGED <<part, artVars, libVars, sqlVars>>

LibrarySpec == LibraryInit /\ [][LibraryNext]_<<part, artVars, libVars, sqlVars, taskVars>>

(* The variables of the component at work have their types.                  *)
LibraryTypeOK ==
    /\ part = "artifacts"   => ArtTypeOK
    /\ part = "connections" => LibTypeOK
    /\ part = "sql"         => SqlTypeOK
    /\ part = "tasks"       => TaskTypeOK

(* Where old entries are dropped, the newest stay: the history of tasks and   *)
(* that of the SQL scripts (trimHistory, trimSQLHistory).                    *)
TrimsKeepNewest == NewestKept /\ NewestScriptsKept
=============================================================================
