-------------------------- MODULE CommandSettings --------------------------
(***************************************************************************)
(* What the settings of a command line run should be, by their sources: the  *)
(* command line is read as a whole, instead of argument by argument.         *)
(***************************************************************************)
EXTENDS CommandLine

\* The arguments that are no value of the one before.
OptionPlaces(args) ==
  CHOOSE places \in SUBSET DOMAIN args :
    \A i \in DOMAIN args : i \in places <=> ~(i - 1 \in places /\ args[i - 1] \in ValueOptions)

\* Those where the run ends before anything is opened.
Stops(args, places) ==
  {i \in places :
     \/ args[i] \notin ValueOptions \cup {"--broad-ipv4-enrichment"}
     \/ args[i] \in ValueOptions /\ i = Len(args)
     \/ args[i] = "--filter" /\ i < Len(args) /\ args[i + 1] = ""
     \/ args[i] = "--output" /\ i < Len(args) /\ args[i + 1] \notin Formats}

Given(args, places, option) ==
  LET with == {i \in places : args[i] = option}
  IN  IF with = {} THEN None ELSE args[Max(with) + 1]

Broad(args, places) ==
  IF \E i \in places : args[i] = "--broad-ipv4-enrichment" THEN "broad" ELSE None

\* The first of the sources that says something.
Strongest(sources) ==
  LET some == {i \in DOMAIN sources : sources[i] # None}
  IN  IF some = {} THEN None ELSE sources[Min(some)]

\* An empty path in the environment hides the .env file, and an empty one in
\* the first line of that file hides the others.
EnvironmentPath ==
  LET path == Strongest(<<invocation.environment,
                          IF invocation.dotEnv = <<>> THEN None ELSE invocation.dotEnv[1]>>)
  IN  IF path = "" THEN None ELSE path

SectionLines(lines) == {i \in DOMAIN lines : lines[i] = Line(0, "output", TRUE, "")}

FormatLines(lines) ==
  {i \in DOMAIN lines : /\ lines[i] \in {Line(2, "format", TRUE, format) : format \in Formats}
                        /\ \E section \in SectionLines(lines) : section < i}

YamlFormat(lines) ==
  IF FormatLines(lines) = {} THEN None ELSE lines[Max(FormatLines(lines))].value

Settings(args, places) ==
  [pcapPath |-> Given(args, places, "--pcap"),
   packetFilter |-> Strongest(<<Given(args, places, "--filter"), Broad(args, places), "default">>),
   outputFormat |-> Strongest(<<Given(args, places, "--output"), YamlFormat(invocation.yaml), "json">>),
   sqlitePath |-> Strongest(<<Given(args, places, "--sqlite"), EnvironmentPath>>),
   error |-> FALSE]

\* Nothing to read, nowhere to write, or a file with any other line.
Unusable(args, places) ==
  LET lines == invocation.yaml
  IN  \/ Settings(args, places).pcapPath = None
      \/ Settings(args, places).sqlitePath = None
      \/ DOMAIN lines # SectionLines(lines) \cup FormatLines(lines)

\* Of the sources of a setting the strongest wins wherever it stands: the last
\* option of its kind on the command line, then the environment, then the first
\* line of .env that the environment leaves room for, then the YAML file, then
\* the default; an option that ends the run does so before anything is opened.
SettingsPrecedence ==
  cli # "starting" =>
    LET args == invocation.args
        places == OptionPlaces(args)
        stops == Stops(args, places)
    IN  IF stops # {}
        THEN LET code == IF args[Min(stops)] \in {"--help", "-h", "--version"} THEN 0 ELSE 2
             IN  cli = "gone" /\ exitCode \in {None, code}
        ELSE IF Unusable(args, places) THEN cli = "gone" /\ exitCode \in {None, 2}
        ELSE exitCode # 2 /\ appConfig \in {None, Settings(args, places)}
=============================================================================
