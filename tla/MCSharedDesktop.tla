-------------------------- MODULE MCSharedDesktop --------------------------
(***************************************************************************)
(* Two assets, two times, one capture of the desktop and any command line of  *)
(* up to three options; beside the desktop the command line is always the     *)
(* same.                                                                    *)
(***************************************************************************)
EXTENDS SharedDesktop

MCMacs == {1, 2}
MCTimes == {1, 2}
MCCaptured == {<<1, 2>>, <<2, 2>>}
MCClickable == {"lastSeen"}
MCDatabases == {[m \in {1} |-> [first |-> 1, last |-> 1]]}

\* Options and what follows them; the last two are refused or end the run.
Items == {<<"--pcap", "file">>, <<"--pcap", "--help">>, <<"--sqlite", "db">>, <<"--sqlite", "">>,
          <<"--filter", "bpf">>, <<"--output", "csv">>, <<"--broad-ipv4-enrichment">>}
Refused == {<<"--filter", "">>, <<"--output", "xml">>, <<"--live">>}
Final == {<<"-h">>, <<"--version">>}
AnyItem == Items \cup Refused \cup Final
Upto(n, S) == UNION {[1 .. k -> S] : k \in 0 .. n}

Yaml == {<<>>, <<Line(0, "output", TRUE, ""), Line(2, "format", TRUE, "table")>>,
         <<Line(2, "format", TRUE, "table")>>, <<Line(0, "capture", TRUE, "")>>,
         <<Line(0, "output", TRUE, ""), Line(2, "format", TRUE, "xml")>>,
         <<Line(0, "output", TRUE, ""), Line(4, "format", TRUE, "csv")>>,
         <<Line(0, "output", TRUE, "")>>,
         <<Line(0, "output", TRUE, ""), Line(2, "format", TRUE, "csv"), Line(0, "output", TRUE, ""),
           Line(2, "format", TRUE, "json")>>}

Invoke(items, cut, environment, dotEnv, yaml) ==
  [environment |-> environment, dotEnv |-> dotEnv, yaml |-> yaml, packets |-> {<<1, 2>>, <<2, 1>>, <<2, 2>>},
   args |-> IF cut THEN Front(FlattenSeq(items)) ELSE FlattenSeq(items)]

Plain == [Invoke(<<<<"--pcap", "file">>, <<"--sqlite", "db">>>>, FALSE, None, <<>>, <<>>)
            EXCEPT !.packets = {<<2, 1>>}]

MCWords ==
  UNION {Range(item) : item \in AnyItem} \cup Formats \cup ValueOptions
    \cup {"", "broad", "default", "env", "dot", "more", "output", "format", "capture"}

MCInvocations ==
  {Plain}
  \cup {Invoke(items, FALSE, None, <<>>, <<>>) : items \in Upto(3, AnyItem)}
  \cup {Invoke(<<i, j>>, TRUE, "env", <<>>, <<>>) : i \in Items, j \in {k \in AnyItem : Len(k) = 2}}
  \cup {Invoke(items, FALSE, environment, dotEnv, <<>>) :
          items \in Upto(2, Items), environment \in {None, "", "env"},
          dotEnv \in {<<>>, <<"dot">>, <<"", "dot">>, <<"dot", "more">>}}
  \cup {Invoke(items, FALSE, "env", <<>>, yaml) : items \in Upto(2, Items), yaml \in Yaml}

MCInit == Init /\ (desktopRuns => invocation = Plain)
MCSpec == MCInit /\ [][Next]_vars
=============================================================================
