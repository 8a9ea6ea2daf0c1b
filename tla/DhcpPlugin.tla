----------------------------- MODULE DhcpPlugin -----------------------------
(***************************************************************************)
(* DHCP messages: a fixed part of 236 bytes and the magic cookie, then the *)
(* options, one per iteration of the loop.  A message whose options do not *)
(* fit gives no observation, whatever was read before.                     *)
(***************************************************************************)
EXTENDS EndpointPlugins

DhcpFixedHeaderLength == 236
MagicCookie == <<99, 130, 83, 99>>

\* Both ports, where Ipv4EndpointPlugin steps aside for either.
MatchDhcp == Present("udp") /\ Ports \subseteq DhcpPorts

VendorHints ==
  << <<{"msft", "microsoft"}, "windows">>,
     <<{"android"}, "android">>,
     <<{"apple", "darwin"}, "macos/ios">>,
     <<{"udhcp", "busybox"}, "embedded-linux">> >>

Fingerprints ==
  << <<<<1, 3, 6, 15, 31, 33, 43, 44, 46, 47, 119, 121, 249, 252>>, "windows">>,
     <<<<1, 121, 33, 3, 6, 15, 26, 28, 51, 58, 59, 119>>, "linux">>,
     <<<<1, 3, 6, 15, 119, 252>>, "macos">>,
     <<<<1, 3, 6, 15, 26, 28, 51, 58, 59>>, "android">> >>

\* The list of option codes is searched as text, "1,3,6" inside "121,3,6,15":
\* the first code need only end with the fingerprint's, which is 1.
ListContains(list, codes) ==
  \E i \in 0..Len(list) - Len(codes) :
    /\ list[i + 1] % 10 = codes[1]
    /\ \A k \in 2..Len(codes) : list[i + k] = codes[k]

FingerprintHint(list) ==
  LET hits == {i \in DOMAIN Fingerprints : ListContains(list, Fingerprints[i][1])}
  IN  IF hits = {} THEN None
      ELSE Fingerprints[CHOOSE i \in hits : \A j \in hits : i <= j][2]

\* `old` unless it is missing.
Earliest(old, new) == IF Has(old) THEN old ELSE new

ApplyDhcpOption(o, code, value) ==
  CASE code = 12 -> [WithMetadata(o, "dhcp.option.hostname", value)
                       EXCEPT !.hostname = value, !.displayName = value]
    [] code = 50 /\ Len(value) = 4 ->
                    [WithMetadata(o, "dhcp.requested_ip", value) EXCEPT !.ip = Earliest(@, value)]
    [] code = 60 ->
         LET hint == FirstHint(VendorHints, value)
         IN  [o EXCEPT !.osHint = IF Has(hint) THEN hint ELSE @]
    [] code = 55 -> [o EXCEPT !.osHint = Earliest(@, FingerprintHint(value))]
    [] OTHER -> o

-----------------------------------------------------------------------------

StartDhcp ==
  LET v == context.payload
      yiaddr == Slice(v, 16, 4)
      ciaddr == Slice(v, 12, 4)
      ip == IF yiaddr # NoAddress THEN yiaddr
            ELSE IF ciaddr # NoAddress THEN ciaddr ELSE None
  IN  /\ pc = "dhcp"
      /\ IF v.size < DhcpFixedHeaderLength + 4
         THEN ReturnNothing /\ reads' = {} /\ UNCHANGED <<obs, offset>>
         ELSE /\ reads' = ReadTo(v, DhcpFixedHeaderLength + 4)
              /\ IF Slice(v, DhcpFixedHeaderLength, 4) # MagicCookie
                 THEN ReturnNothing /\ UNCHANGED <<obs, offset>>
                 ELSE /\ obs' = Observation(Slice(v, 28, 6), ip, "dhcp")
                      /\ offset' = DhcpFixedHeaderLength + 4
                      /\ pc' = "dhcp.options"
                      /\ UNCHANGED observations
      /\ UNCHANGED <<frame, context, todo, cursor, jumps, name, role, questions, records, record>>

\* The end option or the end of the payload.
FinishDhcp ==
  IF obs.mac = NoMac THEN ReturnNothing ELSE Return(<<obs>>)

\* Where the next option begins, if its code and its length are not counted.
OptionEndByLength(length) == offset + length

OptionEnd(length) == offset + 2 + length

DhcpOptionValue(v, code) ==
  LET length == At(v, offset + 1)
      end == OptionEnd(length)
  IN  IF offset + 1 >= v.size THEN ReturnNothing /\ reads' = ReadTo(v, offset + 1) /\ UNCHANGED <<obs, offset>>
      ELSE IF end > v.size THEN ReturnNothing /\ reads' = ReadTo(v, offset + 2) /\ UNCHANGED <<obs, offset>>
      ELSE /\ obs' = ApplyDhcpOption(obs, code, Slice(v, offset + 2, length))
           /\ offset' = end
           /\ reads' = ReadTo(v, end)
           /\ UNCHANGED <<pc, observations>>

DhcpOption ==
  LET v == context.payload
      code == At(v, offset)
  IN  /\ pc = "dhcp.options"
      /\ IF offset >= v.size THEN FinishDhcp /\ reads' = {} /\ UNCHANGED <<obs, offset>>
         ELSE IF code = 255
         THEN FinishDhcp /\ reads' = ReadTo(v, offset + 1) /\ UNCHANGED <<obs, offset>>
         ELSE IF code = 0
         THEN offset' = offset + 1 /\ reads' = ReadTo(v, offset + 1) /\ UNCHANGED <<pc, observations, obs>>
         ELSE DhcpOptionValue(v, code)
      /\ UNCHANGED <<frame, context, todo, cursor, jumps, name, role, questions, records, record>>

ParseDhcp == StartDhcp \/ DhcpOption

=============================================================================
