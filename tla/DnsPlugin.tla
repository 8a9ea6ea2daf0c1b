----------------------------- MODULE DnsPlugin -----------------------------
(***************************************************************************)
(* DNS, mDNS and LLMNR messages: questions, then resource records, each    *)
(* with a name that may continue elsewhere in the message through          *)
(* compression pointers.  readDnsName is a loop of its own (pc "dns.name"),*)
(* called for the name of a question or record, and for the names inside   *)
(* PTR and SRV records, whose `offset` is a copy the caller drops.         *)
(***************************************************************************)
EXTENDS EndpointPlugins

CONSTANT MaxJumps   \* pointers one name may follow (16 in the code)

ASSUME MaxJumpsAssumption == MaxJumps \in Nat

DnsHeaderLength == 12

MatchDns ==
  Present("udp") /\ Ports \cap DnsFamilyPorts # {} /\ context.payload.size >= DnsHeaderLength

SourceIdForPort ==
  CASE 53 \in Ports                       -> "dns"
    [] 53 \notin Ports /\ 5353 \in Ports  -> "mdns"
    [] OTHER                              -> "llmnr"

-----------------------------------------------------------------------------
(* What is concluded from names and texts.  The root is named ".".         *)

Root == <<46>>

ContainsServiceName(text) == Mentions(text, "._tcp.local") \/ Mentions(text, "._udp.local")

ServiceTypes ==
  << <<{"_ipp._tcp.local", "_printer._tcp.local", "_pdl-datastream._tcp.local"}, "printer">>,
     <<{"_airplay._tcp.local", "_raop._tcp.local"}, "apple-media">>,
     <<{"_googlecast._tcp.local"}, "cast-device">>,
     <<{"_hap._tcp.local"}, "smart-home">>,
     <<{"_ssh._tcp.local", "_smb._tcp.local"}, "computer">> >>

\* The part of a service instance's name before its service, or of a host
\* name before ".local".
MdnsDisplayName(text) ==
  LET markers == {i \in 1..Len(text) - 1 : text[i] = 46 /\ text[i + 1] = 95}
      marker == CHOOSE i \in markers : \A j \in markers : i <= j
      host == Len(text) - Len(Spelling[".local"])
  IN  IF markers # {} /\ 1 \notin markers THEN SubSeq(text, 1, marker - 1)
      ELSE IF /\ host > 0
              /\ SubSeq(Lower(text), host + 1, Len(text)) = Spelling[".local"]
              /\ ~ContainsServiceName(text)
           THEN SubSeq(text, 1, host)
           ELSE None

\* `new` if there is one, else what was known.
Latest(new, old) == IF Has(new) THEN new ELSE old

ApplyMdnsNameSummary(o, text) ==
  [o EXCEPT !.displayName = Latest(MdnsDisplayName(text), @),
            !.deviceType = Latest(FirstHint(ServiceTypes, text), @)]

AddProtocolSpecificName(o, text) ==
  CASE o.source = "mdns" /\ ContainsServiceName(text) ->
         ApplyMdnsNameSummary(WithMetadata(o, "mdns.services", text), text)
    [] o.source = "mdns" /\ ~ContainsServiceName(text) /\ text # Root ->
         ApplyMdnsNameSummary(o, text)
    [] o.source = "llmnr" /\ text # Root -> WithMetadata(o, "llmnr.names", text)
    [] OTHER -> o

ModelKeys == {"model", "md", "ty", "product", "rp"}
VendorKeys == {"manufacturer", "mfg"}

ApplyMdnsTxtSummary(o, text) ==
  LET equals == {i \in DOMAIN text : text[i] = 61}
      separator == CHOOSE i \in equals : \A j \in equals : i <= j
      value == SubSeq(text, separator + 1, Len(text))
      KeyIn(keys) == \E k \in keys : Lower(SubSeq(text, 1, separator - 1)) = Spelling[k]
  IN  IF o.source # "mdns" \/ equals = {} THEN o
      ELSE IF separator = 1 \/ value = <<>> THEN o
      ELSE [o EXCEPT !.modelHint = IF KeyIn(ModelKeys) THEN value ELSE @,
                     !.vendor = IF KeyIn(VendorKeys) THEN value ELSE @]

-----------------------------------------------------------------------------
(* readDnsName.                                                             *)

BeginName(what, at) ==
  /\ pc' = "dns.name"
  /\ role' = what
  /\ cursor' = at
  /\ jumps' = 0
  /\ name' = <<>>

\* A defect: the offset follows the cursor even to where a pointer leads.
FollowPointers(to) ==
  offset' = IF role \in {"query", "record"} THEN to ELSE offset

\* Until the first pointer the caller's offset follows the cursor.
Follow(to) ==
  offset' = IF jumps = 0 /\ role \in {"query", "record"} THEN to ELSE offset

\* Without its own name a question or a record cannot be read and the message
\* is given up; a name inside a record is only skipped.
NameMissing ==
  /\ IF role \in {"query", "record"} THEN ReturnNothing
     ELSE pc' = "dns.next" /\ UNCHANGED observations
  /\ UNCHANGED <<offset, cursor, jumps, name>>

EndOfPayload == NameMissing /\ reads' = {}

EndOfName(v) ==
  /\ pc' = "dns.named"
  /\ name' = IF name = <<>> THEN Root ELSE name
  /\ cursor' = cursor + 1
  /\ Follow(cursor + 1)
  /\ reads' = ReadTo(v, cursor + 1)
  /\ UNCHANGED <<observations, jumps>>

\* A defect: only whether there was a pointer is remembered.
NotePointer == jumps' = 1

CountPointer == jumps' = jumps + 1

JumpInName(v) ==
  LET pointer == UInt16(v, cursor) % 16384
  IN  IF cursor + 1 >= v.size
      THEN NameMissing /\ reads' = ReadTo(v, cursor + 1)
      ELSE /\ reads' = ReadTo(v, cursor + 2)
           /\ IF pointer >= v.size \/ jumps >= MaxJumps
              THEN NameMissing
              ELSE /\ Follow(cursor + 2)
                   /\ CountPointer
                   /\ cursor' = pointer
                   /\ UNCHANGED <<pc, observations, name>>

\* A defect: the length byte itself is forgotten.
LabelFitsOffByOne(v, length) == length < 64 /\ cursor + length <= v.size

\* 64 to 191 are no lengths of labels.
LabelFits(v, length) == length < 64 /\ cursor + 1 + length <= v.size

LabelOfName(v, length) ==
  IF ~LabelFits(v, length)
  THEN NameMissing /\ reads' = ReadTo(v, cursor + 1)
  ELSE /\ name' = (IF name = <<>> THEN name ELSE Append(name, 46)) \o Slice(v, cursor + 1, length)
       /\ cursor' = cursor + 1 + length
       /\ Follow(cursor + 1 + length)
       /\ reads' = ReadTo(v, cursor + 1 + length)
       /\ UNCHANGED <<pc, observations, jumps>>

ReadDnsName ==
  LET v == context.payload
      length == At(v, cursor)
  IN  /\ pc = "dns.name"
      /\ IF cursor >= v.size THEN EndOfPayload
         ELSE IF length = 0 THEN EndOfName(v)
         ELSE IF length >= 192 THEN JumpInName(v)
         ELSE LabelOfName(v, length)
      /\ UNCHANGED <<frame, context, todo, obs, role, questions, records, record>>

-----------------------------------------------------------------------------
(* parseDnsPayload.                                                         *)

StartDns ==
  LET v == context.payload
  IN  /\ pc = "dns"
      /\ obs' = Observation(context.sourceMac, context.sourceIp, SourceIdForPort)
      /\ questions' = UInt16(v, 4)
      /\ records' = UInt16(v, 6) + UInt16(v, 8) + UInt16(v, 10)
      /\ offset' = DnsHeaderLength
      /\ pc' = "dns.next"
      /\ reads' = ReadTo(v, DnsHeaderLength)
      /\ UNCHANGED <<frame, context, todo, observations, cursor, jumps, name, role, record>>

NextDnsItem ==
  /\ pc = "dns.next"
  /\ CASE questions > 0 -> BeginName("query", offset) /\ UNCHANGED observations
       [] questions = 0 /\ records > 0 -> BeginName("record", offset) /\ UNCHANGED observations
       [] OTHER -> Return(<<obs>>) /\ UNCHANGED <<role, cursor, jumps, name>>
  /\ reads' = {}
  /\ UNCHANGED <<frame, context, todo, obs, offset, questions, records, record>>

QuestionRead ==
  LET v == context.payload
  IN  /\ pc = "dns.named" /\ role = "query"
      /\ IF offset + 4 > v.size
         THEN ReturnNothing /\ reads' = {} /\ UNCHANGED <<obs, offset, questions>>
         ELSE /\ obs' = AddProtocolSpecificName(WithMetadata(obs, "dns.queries", name), name)
              /\ offset' = offset + 4
              /\ questions' = questions - 1
              /\ reads' = ReadTo(v, offset + 2)
              /\ pc' = "dns.next"
              /\ UNCHANGED observations
      /\ UNCHANGED <<frame, context, todo, cursor, jumps, name, role, records, record>>

\* readResourceRecord after the name, and the two metadata of the name.
RecordRead ==
  LET v == context.payload
      length == UInt16(v, offset + 8)
  IN  /\ pc = "dns.named" /\ role = "record"
      /\ IF offset + 10 > v.size
         THEN ReturnNothing /\ reads' = {} /\ UNCHANGED <<obs, offset, records, record>>
         ELSE IF offset + 10 + length > v.size
         THEN /\ ReturnNothing
              /\ reads' = ReadTo(v, offset + 10)
              /\ UNCHANGED <<obs, offset, records, record>>
         ELSE /\ record' = [type |-> UInt16(v, offset), at |-> offset + 10, length |-> length]
              /\ obs' = AddProtocolSpecificName(WithMetadata(obs, "dns.answer_names", name), name)
              /\ offset' = offset + 10 + length
              /\ records' = records - 1
              /\ reads' = ReadTo(v, offset + 10)
              /\ pc' = "dns.record"
              /\ UNCHANGED observations
      /\ UNCHANGED <<frame, context, todo, cursor, jumps, name, role, questions>>

IsAddress == <<record.type, record.length>> \in {<<1, 4>>, <<28, 16>>}

RecordData ==
  LET v == context.payload
  IN  /\ pc = "dns.record"
      /\ IF IsAddress
         THEN /\ obs' = WithMetadata(obs, "dns.answer_ips", Slice(v, record.at, record.length))
              /\ reads' = ReadTo(v, record.at + record.length)
         ELSE reads' = {} /\ UNCHANGED obs
      /\ CASE record.type = 12 -> BeginName("ptr", record.at)
           [] record.type = 33 /\ record.length >= 7 -> BeginName("srv", record.at + 6)
           [] record.type = 16 ->
                pc' = "dns.txt" /\ cursor' = record.at /\ UNCHANGED <<role, jumps, name>>
           [] OTHER -> pc' = "dns.next" /\ UNCHANGED <<role, cursor, jumps, name>>
      /\ UNCHANGED <<frame, context, todo, observations, offset, questions, records, record>>

InnerNameRead ==
  LET key == IF role = "ptr" THEN "dns.ptr_names" ELSE "dns.srv_targets"
  IN  /\ pc = "dns.named" /\ role \in {"ptr", "srv"}
      /\ obs' = AddProtocolSpecificName(WithMetadata(obs, key, name), name)
      /\ pc' = "dns.next"
      /\ reads' = {}
      /\ UNCHANGED <<frame, context, todo, observations, registers>>

TextRecord ==
  LET v == context.payload
      end == record.at + record.length
      length == At(v, cursor)
      text == Slice(v, cursor + 1, length)
  IN  /\ pc = "dns.txt"
      /\ IF cursor >= end
         THEN pc' = "dns.next" /\ reads' = {} /\ UNCHANGED <<obs, cursor>>
         ELSE IF cursor + 1 + length > end
         THEN pc' = "dns.next" /\ reads' = ReadTo(v, cursor + 1) /\ UNCHANGED <<obs, cursor>>
         ELSE /\ obs' = ApplyMdnsTxtSummary(WithMetadata(obs, "dns.txt", text), text)
              /\ cursor' = cursor + 1 + length
              /\ reads' = ReadTo(v, cursor + 1 + length)
              /\ UNCHANGED pc
      /\ UNCHANGED <<frame, context, todo, observations, offset, jumps, name, role,
                     questions, records, record>>

ParseDns ==
  \/ StartDns
  \/ NextDnsItem
  \/ ReadDnsName
  \/ QuestionRead
  \/ RecordRead
  \/ RecordData
  \/ InnerNameRead
  \/ TextRecord

=============================================================================
