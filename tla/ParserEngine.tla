---------------------------- MODULE ParserEngine ----------------------------
(***************************************************************************)
(* One packet through buildPacketContext and ParserEngine::parse: every    *)
(* plugin of the registry that matches the context is asked, in the order  *)
(* of registration, and what they return is collected.                     *)
(***************************************************************************)
EXTENDS NetbiosPlugin, DhcpPlugin, SsdpPlugin

DefaultRegistry == <<"arp", "ip", "dhcp", "dns", "tcp", "ssdp", "netbios">>
CoreRegistry == <<"arp", "dhcp">>

Match(plugin) ==
  CASE plugin = "arp"     -> MatchArp
    [] plugin = "ip"      -> MatchIpv4Endpoint
    [] plugin = "dhcp"    -> MatchDhcp
    [] plugin = "dns"     -> MatchDns
    [] plugin = "tcp"     -> MatchTcp
    [] plugin = "ssdp"    -> MatchSsdp
    [] plugin = "netbios" -> MatchNetbios

Init ==
  /\ frame \in Frames
  /\ todo \in {DefaultRegistry, CoreRegistry}
  /\ pc = "ethernet"
  /\ context = EmptyContext
  /\ observations = <<>>
  /\ reads = {}
  /\ obs = Observation(NoMac, None, "none")
  /\ offset = 0 /\ cursor = 0 /\ jumps = 0
  /\ name = <<>> /\ role = "query"
  /\ questions = 0 /\ records = 0
  /\ record = [type |-> 0, at |-> 0, length |-> 0]

AskPlugin ==
  /\ pc = "engine"
  /\ todo # <<>>
  /\ todo' = Tail(todo)
  /\ pc' = IF Match(Head(todo)) THEN Head(todo) ELSE "engine"
  /\ reads' = {}
  /\ UNCHANGED <<frame, context, observations, obs, registers>>

Finish ==
  /\ pc = "engine"
  /\ todo = <<>>
  /\ pc' = "done"
  /\ reads' = {}
  /\ UNCHANGED <<frame, context, todo, observations, obs, registers>>

Next ==
  \/ BuildPacketContext
  \/ AskPlugin
  \/ ParseArp
  \/ ParseIpv4Endpoint
  \/ ParseTcp
  \/ ParseDhcp
  \/ ParseDns
  \/ ParseSsdp
  \/ ParseNetbios
  \/ Finish

Spec == Init /\ [][Next]_vars /\ WF_vars(Next)

-----------------------------------------------------------------------------

\* No byte outside the packet, or outside the part of it a decoder was given,
\* is ever read: lengths, counts and pointers come from the packet itself
\* and each must be checked against what was captured before it is used
\* ("parsers must not read past the buffer", docs/bao-cao.md 3.4.1).
ReadsInside ==
  \A r \in reads : r[2] <= r[1].size /\ r[1].at + r[1].size <= Len(frame)

\* A packet is always done with, however its names point at one another.
ParsingEnds == <>(pc = "done")

-----------------------------------------------------------------------------
(* The work that is left, as numbers of falling weight: plugins, questions    *)
(* and records, stages of one of them, pointers, and bytes.                 *)

Rest(from, to) == IF from < to THEN to - from ELSE 0

PluginsLeft ==
  3 * Len(todo) + CASE pc = "ethernet"  -> 6
                    [] pc = "ipv4"      -> 5
                    [] pc = "transport" -> 4
                    [] pc \in {"arp", "ip", "dhcp", "dns", "tcp", "ssdp", "netbios"} -> 3
                    [] pc = "engine"    -> 1
                    [] pc = "done"      -> 0
                    [] OTHER            -> 2

\* Whether the name being read is an item's own, or one inside a record.
OwnName == role \in {"query", "record"}

StagesLeft ==
  CASE pc = "dns.record"                     -> 6
    [] pc = "dns.txt"                        -> 5
    [] pc = "dns.name" /\ ~OwnName           -> 5
    [] pc = "dns.named" /\ ~OwnName          -> 4
    [] pc \in {"dns.next", "netbios.next"}   -> 3
    [] pc = "dns.name" /\ OwnName            -> 2
    [] pc = "netbios.name"                   -> 2
    [] pc = "netbios.scope"                  -> 1
    [] OTHER                                 -> 0

PointersLeft ==
  CASE pc = "dns.name"     -> Rest(jumps, MaxJumps)
    [] pc = "netbios.name" -> Rest(jumps, MaxDepth + 1)
    [] OTHER               -> 0

BytesLeft ==
  LET size == context.payload.size
  IN  CASE pc \in {"dns.name", "netbios.name", "netbios.scope"} -> Rest(cursor, size)
        [] pc = "dns.txt"      -> Rest(cursor, record.at + record.length)
        [] pc = "dhcp.options" -> Rest(offset, size)
        [] pc = "ssdp.lines"   -> 2 * Rest(cursor, size + 1)
        [] pc = "ssdp.line"    -> 2 * Rest(cursor, size + 1) + 1
        [] OTHER               -> 0

WorkLeft == <<PluginsLeft, questions + records, StagesLeft, PointersLeft, BytesLeft>>

\* The first number in which they differ is smaller.
Less(a, b) == \E i \in 1 .. 5 : a[i] < b[i] /\ \A j \in 1 .. (i - 1) : a[j] = b[j]

\* Every step leaves less to do, wherever a pointer leads and whatever the
\* counts and lengths in the packet say: no loop of the parsers goes round
\* without using something up.
WorkShrinks == [][Less(WorkLeft', WorkLeft)]_vars

=============================================================================
