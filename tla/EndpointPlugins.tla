-------------------------- MODULE EndpointPlugins --------------------------
(***************************************************************************)
(* The plugins that read fixed fields only: ARP, the IPv4 endpoint and the *)
(* TCP SYN-ACK.                                                            *)
(***************************************************************************)
EXTENDS PacketContext

DhcpPorts == {67, 68}
DnsFamilyPorts == {53, 5353, 5355}
SsdpPort == 1900
NetbiosNameServicePort == 137

SpecializedPorts ==
  DhcpPorts \cup DnsFamilyPorts \cup {SsdpPort, NetbiosNameServicePort}

Ports == {context.sourcePort, context.destinationPort}

MatchArp == Present("ethernet") /\ context.etherType = 2054

MatchIpv4Endpoint ==
  /\ Present("ethernet") /\ Present("ipv4")
  /\ ~(Present("udp") /\ Ports \cap SpecializedPorts # {})

MatchTcp ==
  Present("tcp") /\ {"syn", "ack"} \subseteq context.flags /\ "rst" \notin context.flags

\* decodeArpPacket: Ethernet hardware of 6 bytes, IPv4 of 4.
ArpSound(v) ==
  /\ UInt16(v, 0) = 1 /\ UInt16(v, 2) = 2048
  /\ At(v, 4) = 6 /\ At(v, 5) = 4

ArpObservation(v) ==
  LET senderMac == Slice(v, 8, 6)   senderIp == Slice(v, 14, 4)
      targetIp == Slice(v, 24, 4)
      gratuitous == senderIp = targetIp /\ senderIp # NoAddress
      marks == {m \in {<<"gratuitous", gratuitous>>,
                       <<"probe", senderIp = NoAddress /\ targetIp # NoAddress>>,
                       <<"announcement", gratuitous /\ UInt16(v, 6) = 1>>,
                       <<"mac_mismatch", context.sourceMac # senderMac>>} : m[2]}
  IN  [Observation(senderMac, senderIp, "arp") EXCEPT
         !.metadata = {<<"arp", m[1]>> : m \in marks}]

ParseArp ==
  LET v == context.body
  IN  /\ pc = "arp"
      /\ IF v.size < 28 THEN ReturnNothing /\ reads' = {}
         ELSE /\ reads' = ReadTo(v, 28)
              /\ IF ArpSound(v) THEN Return(<<ArpObservation(v)>>) ELSE ReturnNothing
      /\ UNCHANGED <<frame, context, todo, obs, registers>>

TtlOsHint(ttl) ==
  CASE ttl = 0      -> None
    [] ttl \in 1..64   -> "linux/unix"
    [] ttl \in 65..128 -> "windows"
    [] OTHER        -> "network-device"

ParseIpv4Endpoint ==
  LET ip == IF context.sourceIp = NoAddress THEN None ELSE context.sourceIp
  IN  /\ pc = "ip"
      /\ Return(<<[Observation(context.sourceMac, ip, "ip")
                     EXCEPT !.osHint = TtlOsHint(context.ttl)]>>)
      /\ reads' = {}
      /\ UNCHANGED <<frame, context, todo, obs, registers>>

ParseTcp ==
  /\ pc = "tcp"
  /\ IF Present("ethernet") /\ Present("ipv4")
     THEN Return(<<[Observation(context.sourceMac, context.sourceIp, "tcp")
                      EXCEPT !.metadata = {<<"tcp.syn_ack_ports", context.sourcePort>>}]>>)
     ELSE ReturnNothing
  /\ reads' = {}
  /\ UNCHANGED <<frame, context, todo, obs, registers>>

=============================================================================
