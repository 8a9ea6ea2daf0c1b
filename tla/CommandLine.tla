---------------------------- MODULE CommandLine ----------------------------
(***************************************************************************)
(* One run of asset-discovery (src/main.cpp): the settings, the database,    *)
(* the capture file, the assets of its packets and the exit code.  Parsing   *)
(* and rendering have no effect on either.                                  *)
(***************************************************************************)
EXTENDS SharedDatabase, CliConfiguration

ASSUME NoneAssumption == None \notin {0, 2, 3, 4}

VARIABLES
  invocation,   \* what it is given: arguments, environment, .env and YAML
                \* file, and the packets of the capture file: MACs and times
  cli,          \* control point
  exitCode,     \* None while it runs, or when it was killed
  appConfig,
  found,        \* the assets of the packets so far
  wrote         \* history: the MACs it committed

cliState == <<invocation, cli, exitCode, appConfig, found, wrote>>

CliInit ==
  /\ cli = "starting"
  /\ exitCode = None
  /\ appConfig = None
  /\ found = NoAssets
  /\ wrote = {}

Exit(code) == cli' = "gone" /\ exitCode' = code

\* A failure after the database was opened: the writer is destroyed.
Fails(at, code) ==
  /\ cli = at
  /\ Exit(code)
  /\ Close("cli")
  /\ UNCHANGED <<stored, invocation, appConfig, found, wrote>>

-----------------------------------------------------------------------------

\* The settings.
Configure ==
  /\ cli = "starting"
  /\ LET o == ParseArguments(invocation.args)
         environment == ResolveSqlitePath(LoadDotEnvFile(invocation.environment, invocation.dotEnv))
     IN  IF o.ends \in {"help", "version"} THEN Exit(0) /\ UNCHANGED appConfig
         ELSE IF o.ends = "error" THEN Exit(2) /\ UNCHANGED appConfig
         ELSE /\ appConfig' = BuildAppConfig(o, environment, invocation.yaml)
              /\ IF appConfig'.error THEN Exit(2) ELSE cli' = "opening" /\ UNCHANGED exitCode
  /\ UNCHANGED <<database, invocation, found, wrote>>

OpenDatabase ==
  /\ cli = "opening"
  /\ \/ cli' = "reading" /\ Open("cli") /\ UNCHANGED exitCode
     \/ Exit(4) /\ UNCHANGED connections
  /\ UNCHANGED <<stored, wal, newer, invocation, appConfig, found, wrote>>

\* readPcapFile, as a whole.
ReadPcapFile ==
  /\ cli = "reading"
  /\ cli' = "processing"
  /\ UNCHANGED <<database, invocation, exitCode, appConfig, found, wrote>>

Commit(assets) ==
  /\ stored' = MergeAll(stored, assets)
  /\ wal' = TRUE
  /\ wrote' = wrote \cup DOMAIN assets
  /\ UNCHANGED <<connections, newer>>

\* An observation of a packet; a new asset is written at once.
ProcessPacket(m, t) ==
  /\ cli = "processing"
  /\ found' = Observe(found, m, t)
  /\ IF m \in DOMAIN found THEN UNCHANGED <<database, wrote>>
     ELSE Commit([x \in {m} |-> found'[m]])
  /\ UNCHANGED <<invocation, cli, exitCode, appConfig>>

\* That the last write failed is not looked at, as in the desktop's worker.
WriteAssetsUnchecked ==
  /\ cli = "processing"
  /\ cli' = "rendering"
  /\ Commit(found) \/ UNCHANGED <<database, wrote>>
  /\ UNCHANGED <<invocation, exitCode, appConfig, found>>

WriteAssets ==
  /\ cli = "processing"
  /\ cli' = "rendering"
  /\ Commit(found)
  /\ UNCHANGED <<invocation, exitCode, appConfig, found>>

Render ==
  /\ cli = "rendering"
  /\ Exit(0)
  /\ Close("cli")
  /\ UNCHANGED <<stored, invocation, appConfig, found, wrote>>

PcapError == Fails("reading", 3)

\* writeAssets, for a new asset or for all of them.
DatabaseError == Fails("processing", 4)

\* Any step may throw, be killed or be out of memory.  A process that is killed
\* leaves the log of its commits to the next that opens the database.
Killed ==
  /\ cli # "gone"
  /\ cli' = "gone"
  /\ connections' = connections \ {"cli"}
  /\ UNCHANGED <<stored, wal, newer, invocation, exitCode, appConfig, found, wrote>>

CliNext ==
  \/ Configure \/ OpenDatabase \/ ReadPcapFile \/ WriteAssets \/ Render
  \/ PcapError \/ DatabaseError \/ Killed
  \/ \E packet \in invocation.packets : ProcessPacket(packet[1], packet[2])

-----------------------------------------------------------------------------
(* Properties.                                                             *)

\* The exit code tells what is in the database, whatever the desktop writes
\* meanwhile: after 0, every asset of the packets it has processed (nothing after
\* a help text), with all that these say of it; after 2 and 3 nothing was written;
\* otherwise at most the assets of the packets so far, and what was written is
\* still there.  That the packets processed before the last write are all of the
\* file is the loop at src/main.cpp:166, which the model lets end anywhere.
ExitTellsWhatIsStored ==
  cli = "gone" =>
    /\ exitCode = 0 => \A m \in DOMAIN found : Covers(stored, m, found[m])
    /\ exitCode \in {2, 3} => wrote = {}
    /\ wrote \subseteq DOMAIN found /\ wrote \subseteq DOMAIN stored
=============================================================================
