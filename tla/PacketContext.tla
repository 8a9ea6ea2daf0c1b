--------------------------- MODULE PacketContext ---------------------------
(***************************************************************************)
(* buildPacketContext: the Ethernet, IPv4 and UDP or TCP headers are       *)
(* decoded in turn, each only when the one before it is sound.             *)
(***************************************************************************)
EXTENDS ParserState

EmptyContext ==
  [layers |-> {}, sourceMac |-> NoMac, etherType |-> 0, body |-> View(0, 0),
   sourceIp |-> NoAddress, ttl |-> 0, protocol |-> 0, fragmented |-> FALSE,
   segment |-> View(0, 0), sourcePort |-> 0, destinationPort |-> 0,
   payload |-> View(0, 0), flags |-> {}]

Whole == View(0, Len(frame))

DecodeEthernetFrame ==
  /\ pc = "ethernet"
  /\ IF Len(frame) < 14
     THEN /\ pc' = "engine" /\ reads' = {} /\ UNCHANGED context
     ELSE /\ context' = [context EXCEPT !.layers = {"ethernet"},
                           !.sourceMac = Slice(Whole, 6, 6),
                           !.etherType = UInt16(Whole, 12),
                           !.body = SubviewFrom(Whole, 14)]
          /\ pc' = IF UInt16(Whole, 12) = 2048 THEN "ipv4" ELSE "engine"
          /\ reads' = ReadTo(Whole, 14)
  /\ UNCHANGED <<frame, todo, observations, obs, registers>>

DecodeIpv4Packet ==
  LET v == context.body
      headerLength == (At(v, 0) % 16) * 4
      totalLength == UInt16(v, 2)
      sound == /\ At(v, 0) \div 16 = 4
               /\ headerLength >= 20 /\ v.size >= headerLength
               /\ totalLength >= headerLength /\ v.size >= totalLength
  IN  /\ pc = "ipv4"
      /\ IF v.size < 20
         THEN pc' = "engine" /\ reads' = {} /\ UNCHANGED context
         ELSE /\ reads' = ReadTo(v, 20)
              /\ IF sound
                 THEN /\ context' = [context EXCEPT !.layers = @ \cup {"ipv4"},
                                       !.sourceIp = Slice(v, 12, 4),
                                       !.ttl = At(v, 8),
                                       !.protocol = At(v, 9),
                                       !.fragmented = UInt16(v, 6) % 16384 # 0,
                                       !.segment = Subview(v, headerLength, totalLength - headerLength)]
                      /\ pc' = "transport"
                 ELSE pc' = "engine" /\ UNCHANGED context
      /\ UNCHANGED <<frame, todo, observations, obs, registers>>

DecodeUdpDatagram ==
  LET v == context.segment
      length == UInt16(v, 4)
  IN  /\ pc = "transport"
      /\ context.protocol = 17 /\ ~context.fragmented /\ v.size >= 8
      /\ reads' = ReadTo(v, 6)
      /\ IF length >= 8 /\ length <= v.size
         THEN context' = [context EXCEPT !.layers = @ \cup {"udp"},
                            !.sourcePort = UInt16(v, 0),
                            !.destinationPort = UInt16(v, 2),
                            !.payload = Subview(v, 8, length - 8)]
         ELSE UNCHANGED context
      /\ pc' = "engine"
      /\ UNCHANGED <<frame, todo, observations, obs, registers>>

TcpFlags == {<<1, "fin">>, <<2, "syn">>, <<4, "rst">>, <<16, "ack">>}

DecodeTcpSegment ==
  LET v == context.segment
      headerLength == (At(v, 12) \div 16) * 4
  IN  /\ pc = "transport"
      /\ context.protocol = 6 /\ ~context.fragmented /\ v.size >= 20
      /\ reads' = ReadTo(v, 14)
      /\ IF headerLength >= 20 /\ v.size >= headerLength
         THEN context' = [context EXCEPT !.layers = @ \cup {"tcp"},
                            !.sourcePort = UInt16(v, 0),
                            !.destinationPort = UInt16(v, 2),
                            !.flags = {f[2] : f \in {g \in TcpFlags :
                                          (At(v, 13) \div g[1]) % 2 = 1}}]
         ELSE UNCHANGED context
      /\ pc' = "engine"
      /\ UNCHANGED <<frame, todo, observations, obs, registers>>

NoTransport ==
  /\ pc = "transport"
  /\ \/ context.protocol \notin {6, 17}
     \/ context.fragmented
     \/ context.segment.size < IF context.protocol = 17 THEN 8 ELSE 20
  /\ pc' = "engine"
  /\ reads' = {}
  /\ UNCHANGED <<frame, context, todo, observations, obs, registers>>

BuildPacketContext ==
  \/ DecodeEthernetFrame
  \/ DecodeIpv4Packet
  \/ DecodeUdpDatagram
  \/ DecodeTcpSegment
  \/ NoTransport

=============================================================================
