-------------------------- MODULE CliConfiguration --------------------------
(***************************************************************************)
(* The settings of a command line run: parseArguments (src/cli/Arguments.cpp), *)
(* the .env file (src/main.cpp), the YAML file and their precedence          *)
(* (src/config/AppConfig.cpp).                                              *)
(*                                                                         *)
(* An argument is a word.  Lines of the .env file are their values of       *)
(* SQLITE_DATABASE_PATH, other lines left out; lines of the YAML file are    *)
(* records, blank ones and comments left out.                               *)
(***************************************************************************)
EXTENDS Naturals, SequencesExt

CONSTANTS
  None,      \* an optional without a value
  Words      \* an argument, or a word of a file

Formats == {"table", "json", "csv"}

ValueOptions == {"--pcap", "--filter", "--sqlite", "--output"}

\* An optional may hold any word, the empty one too.
ASSUME WordAssumption ==
  /\ None \notin Words
  /\ Formats \cup ValueOptions \cup {"", "broad", "default", "output"} \subseteq Words

-----------------------------------------------------------------------------
(* parseArguments.  `ends` says how the program goes on, `awaiting` is the    *)
(* option whose value comes next.                                           *)

Options(ends) ==
  [pcapPath |-> None, packetFilter |-> None, sqlitePath |-> None, outputFormat |-> None,
   broadIpv4Enrichment |-> FALSE, ends |-> ends, awaiting |-> None]

TakeValue(o, value) ==
  CASE o.awaiting = "--pcap"   -> [o EXCEPT !.pcapPath = value]
    [] o.awaiting = "--sqlite" -> [o EXCEPT !.sqlitePath = value]
    [] o.awaiting = "--filter" /\ value # "" -> [o EXCEPT !.packetFilter = value]
    [] o.awaiting = "--output" /\ value \in Formats -> [o EXCEPT !.outputFormat = value]
    [] OTHER -> [o EXCEPT !.ends = "error"]

\* Anything else is unknown or was removed.
ReadOption(o, arg) ==
  CASE arg \in {"--help", "-h"} -> [o EXCEPT !.ends = "help"]
    [] arg = "--version" -> [o EXCEPT !.ends = "version"]
    [] arg \in ValueOptions -> [o EXCEPT !.awaiting = arg]
    [] arg = "--broad-ipv4-enrichment" -> [o EXCEPT !.broadIpv4Enrichment = TRUE]
    [] OTHER -> [o EXCEPT !.ends = "error"]

ReadArgument(o, arg) ==
  IF o.ends # "run" THEN o
  ELSE IF o.awaiting = None THEN ReadOption(o, arg)
  ELSE [TakeValue(o, arg) EXCEPT !.awaiting = None]

ParseArguments(args) ==
  LET o == FoldLeft(ReadArgument, Options("run"), args)
  IN  IF o.awaiting # None THEN [o EXCEPT !.ends = "error"] ELSE o

-----------------------------------------------------------------------------
(* The environment.                                                        *)

\* setenv without overwriting: what the process was given wins, then the first line.
LoadDotEnvFile(given, lines) ==
  IF given # None \/ lines = <<>> THEN given ELSE Head(lines)

ResolveSqlitePath(value) == IF value = "" THEN None ELSE value

-----------------------------------------------------------------------------
(* The YAML file.                                                          *)

Line(indent, key, colon, value) == [indent |-> indent, key |-> key, colon |-> colon, value |-> value]

Lines == [indent : Nat, key : Words, colon : BOOLEAN, value : Words]

IsSection(line) == line.indent = 0 /\ line.key = "output" /\ line.colon /\ line.value = ""

\* Indented by four, a list item or a tab: no such line is accepted any more.
IsOutputFormat(section, line) ==
  /\ section = "output"
  /\ line.indent = 2
  /\ line.key = "format" /\ line.colon
  /\ line.value \in Formats

ReadLine(patch, line) ==
  IF patch.error THEN patch
  ELSE IF IsSection(line) THEN [patch EXCEPT !.section = "output"]
  ELSE IF IsOutputFormat(patch.section, line) THEN [patch EXCEPT !.outputFormat = line.value]
  ELSE [patch EXCEPT !.error = TRUE]

LoadConfigFile(lines) ==
  FoldLeft(ReadLine, [section |-> None, outputFormat |-> None, error |-> FALSE], lines)

-----------------------------------------------------------------------------
(* buildAppConfig.                                                         *)

Or(value, default) == IF value = None THEN default ELSE value

FilterOfOptions(o) ==
  IF o.broadIpv4Enrichment THEN Or(o.packetFilter, "broad") ELSE o.packetFilter

\* The environment is applied after the command line.
BuildAppConfigEnvironmentLast(o, environment, yaml) ==
  [pcapPath |-> o.pcapPath,
   packetFilter |-> Or(FilterOfOptions(o), "default"),
   outputFormat |-> Or(o.outputFormat, Or(LoadConfigFile(yaml).outputFormat, "json")),
   sqlitePath |-> Or(environment, o.sqlitePath),
   error |-> \/ LoadConfigFile(yaml).error
             \/ o.pcapPath = None
             \/ environment = None /\ o.sqlitePath = None]

\* Defaults, then the YAML file, the environment and the command line; a
\* capture file and a database are needed.
BuildAppConfig(o, environment, yaml) ==
  [pcapPath |-> o.pcapPath,
   packetFilter |-> Or(FilterOfOptions(o), "default"),
   outputFormat |-> Or(o.outputFormat, Or(LoadConfigFile(yaml).outputFormat, "json")),
   sqlitePath |-> Or(o.sqlitePath, environment),
   error |-> \/ LoadConfigFile(yaml).error
             \/ o.pcapPath = None
             \/ environment = None /\ o.sqlitePath = None]
=============================================================================
