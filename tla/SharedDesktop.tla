--------------------------- MODULE SharedDesktop ---------------------------
(***************************************************************************)
(* The desktop and a command line run on one database file, as separate      *)
(* processes.  The desktop need not run.                                    *)
(***************************************************************************)
EXTENDS DesktopRefresh, CommandSettings

CONSTANTS
  Invocations,      \* what the command line may be given
  Databases         \* the rows that may have been stored before

ASSUME InvocationAssumption ==
  \A i \in Invocations :
    /\ i.args \in Seq(Words)
    /\ i.environment \in Words \cup {None} /\ i.dotEnv \in Seq(Words) /\ i.yaml \in Seq(Lines)
    /\ i.packets \subseteq Macs \X Times
ASSUME DatabaseAssumption == Databases \subseteq Tables

VARIABLE desktopRuns

vars == <<database, desktop, cliState, desktopRuns>>

Init ==
  /\ stored \in Databases
  /\ connections = {}
  /\ wal = FALSE
  /\ newer = TRUE
  /\ invocation \in Invocations
  /\ desktopRuns \in BOOLEAN
  /\ DesktopInit
  /\ CliInit

Next ==
  \/ desktopRuns /\ DesktopNext /\ UNCHANGED <<cliState, desktopRuns>>
  \/ CliNext /\ UNCHANGED <<desktop, desktopRuns>>

Spec == Init /\ [][Next]_vars
=============================================================================
