--------------------------- MODULE MCParserEngine ---------------------------
(***************************************************************************)
(* Packets for the parser, each written from what it is meant to say.      *)
(* A case is [bytes, facts]: the frame and the observations that the       *)
(* default registry must make of it, or Unstated when only the safety of   *)
(* the reads and termination are asked.  Messages are built from tokens,   *)
(* not decoded a second time.                                              *)
(***************************************************************************)
EXTENDS ParserEngine, SequencesExt

CONSTANTS Unstated, DhcpDepth, RawLength

VARIABLES case, core   \* the case at hand, and whether the core registry runs

U16(n) == <<n \div 256, n % 256>>
Sender == <<2, 0, 0, 0, 0, 7>>
Address == <<10, 0, 0, 7>>
Other == <<10, 0, 0, 9>>

Ethernet(type, body) == <<2, 0, 0, 0, 0, 1>> \o Sender \o U16(type) \o body
Ipv4(protocol, flags, ttl, source, segment) ==
  <<69, 0>> \o U16(20 + Len(segment)) \o <<0, 0>> \o flags \o <<ttl, protocol, 0, 0>>
    \o source \o Other \o segment
Udp(from, to, payload) == U16(from) \o U16(to) \o U16(8 + Len(payload)) \o <<0, 0>> \o payload
Datagram(from, to, payload) ==
  Ethernet(2048, Ipv4(17, <<0, 0>>, 64, Address, Udp(from, to, payload)))

Case(bytes, facts) == [bytes |-> bytes, facts |-> facts]

FirstOr(s, default) == IF s = <<>> THEN default ELSE Head(s)
LastOr(s, default) == IF s = <<>> THEN default ELSE Last(s)

-----------------------------------------------------------------------------
(* Keywords.  Short stand-ins with the structure of the real ones: "._tcp" *)
(* and "._udp" differ from a device's service, ".local" ends a host name.  *)

Words == [w \in {"msft", "microsoft", "android", "apple", "darwin", "udhcp", "busybox",
    "windows", "linux", "unix", "mediarenderer", "media renderer", "printer",
    "internetgatewaydevice", "router", "dial", "roku", "chromecast", "camera",
    "manufacturer", "friendlyname", "friendly-name", "modelname", "model-name", "server", "usn",
    "model", "md", "ty", "product", "rp", "mfg"} |->
  CASE w = "msft" -> <<109, 115>>         [] w = "android" -> <<97, 110>>
    [] w = "windows" -> <<119, 105>>      [] w = "printer" -> <<112, 114>>
    [] w = "camera" -> <<99, 97>>         [] w = "manufacturer" -> <<109, 102>>
    [] w = "friendlyname" -> <<102, 110>> [] w = "modelname" -> <<109, 110>>
    [] w = "server" -> <<115, 118>>       [] w = "usn" -> <<117, 115>>
    [] w = "md" -> <<109, 100>>           [] w = "mfg" -> <<109, 103>>
    [] OTHER -> <<122, 122, 122>>]

Local == <<108, 111>>
Tcp == <<95, 116>>
Service(s) == <<95, s>>
Dotted(parts) == FoldLeft(LAMBDA text, part : IF text = <<>> THEN part ELSE Append(text, 46) \o part,
                          <<>>, parts)

ServiceNames == [w \in {"._tcp.local", "._udp.local", ".local", "_ipp._tcp.local",
    "_printer._tcp.local", "_pdl-datastream._tcp.local", "_airplay._tcp.local",
    "_raop._tcp.local", "_googlecast._tcp.local", "_hap._tcp.local", "_ssh._tcp.local",
    "_smb._tcp.local"} |->
  CASE w = "._tcp.local" -> <<46>> \o Dotted(<<Tcp, Local>>)
    [] w = "._udp.local" -> <<46>> \o Dotted(<<<<95, 117>>, Local>>)
    [] w = ".local" -> <<46>> \o Local
    [] w = "_ipp._tcp.local" -> Dotted(<<Service(105), Tcp, Local>>)
    [] w = "_ssh._tcp.local" -> Dotted(<<Service(115), Tcp, Local>>)
    [] OTHER -> <<122, 122, 122>>]

MCSpelling == [w \in DOMAIN Words \cup DOMAIN ServiceNames |->
                 IF w \in DOMAIN Words THEN Words[w] ELSE ServiceNames[w]]

-----------------------------------------------------------------------------
(* DHCP.                                                                    *)

Option(code, value, hint) == [code |-> code, value |-> value, hint |-> hint]
Pad == Option(0, <<>>, None)
End == Option(255, <<>>, None)

Options == {Pad, End,
  Option(12, <<65>>, None), Option(12, <<66, 66>>, None),
  Option(50, Other, None), Option(50, <<1, 2, 3>>, None),
  Option(60, <<77, 83, 70>>, "windows"), Option(60, <<120, 97, 110>>, "android"),
  Option(60, <<120>>, None), Option(60, <<>>, None),
  Option(55, <<121, 3, 6, 15, 119, 252>>, "macos"),
  Option(55, <<1, 3, 6>>, None)}

EncodeOption(o) == IF o.code \in {0, 255} THEN <<o.code>> ELSE <<o.code, Len(o.value)>> \o o.value
EncodeOptions(options) == FlattenSeq([i \in DOMAIN options |-> EncodeOption(options[i])])

BeforeEnd(options) ==
  LET ends == {i \in DOMAIN options : options[i] = End}
  IN  IF ends = {} THEN options
      ELSE SubSeq(options, 1, (CHOOSE i \in ends : \A j \in ends : i <= j) - 1)

DhcpFacts(mac, yiaddr, ciaddr, all) ==
  LET options == BeforeEnd(all)
      Values(code) == [i \in DOMAIN SelectSeq(options, LAMBDA o : o.code = code) |->
                         SelectSeq(options, LAMBDA o : o.code = code)[i].value]
      requested == SelectSeq(Values(50), LAMBDA v : Len(v) = 4)
      Hints(code) == SelectSeq(options, LAMBDA o : o.code = code /\ o.hint # None)
      hostname == LastOr(Values(12), None)
      ip == IF yiaddr # NoAddress THEN yiaddr ELSE IF ciaddr # NoAddress THEN ciaddr
            ELSE FirstOr(requested, None)
  IN  IF mac = NoMac THEN <<>>
      ELSE <<[Observation(mac, ip, "dhcp") EXCEPT
               !.hostname = hostname, !.displayName = hostname,
               !.osHint = LastOr(Hints(60), FirstOr(Hints(55), [hint |-> None])).hint,
               !.metadata = {<<"dhcp.option.hostname", Values(12)[i]>> : i \in DOMAIN Values(12)}
                        \cup {<<"dhcp.requested_ip", requested[i]>> : i \in DOMAIN requested}]>>

Bootp(mac, yiaddr, ciaddr) ==
  [i \in 1..12 |-> 0] \o ciaddr \o yiaddr \o [i \in 1..8 |-> 0] \o mac
    \o [i \in 1..202 |-> 0] \o MagicCookie

\* The last `cut` bytes are missing: whole options survive, a part of one
\* spoils the message.
DhcpCase(mac, yiaddr, ciaddr, options, cut) ==
  LET all == EncodeOptions(options)
      kept == IF cut > Len(all) THEN 0 ELSE Len(all) - cut
      whole == {k \in 0..Len(options) : Len(EncodeOptions(SubSeq(options, 1, k))) <= kept}
      k == CHOOSE i \in whole : \A j \in whole : j <= i
      survivors == SubSeq(options, 1, k)
      exact == Len(EncodeOptions(survivors)) = kept \/ BeforeEnd(survivors) # survivors
      payload == Bootp(mac, yiaddr, ciaddr) \o SubSeq(all, 1, kept)
  IN  Case(Datagram(68, 67, payload),
           IF exact THEN DhcpFacts(mac, yiaddr, ciaddr, survivors) ELSE <<>>)

DhcpCases ==
  {DhcpCase(Sender, NoAddress, NoAddress, options, cut) :
     options \in UNION {[1..n -> Options] : n \in 0..DhcpDepth}, cut \in 0..2}
  \cup {DhcpCase(mac, yiaddr, ciaddr, <<Option(50, Other, None), End>>, 0) :
          mac \in {Sender, NoMac}, yiaddr \in {NoAddress, Address}, ciaddr \in {NoAddress, Other}}
  \cup {Case(Datagram(67, 68, SubSeq(Bootp(Sender, Address, Address), 1, n)), <<>>) : n \in {0, 30, 239}}

-----------------------------------------------------------------------------
(* DNS, mDNS and LLMNR.  A name token has labels and what comes after      *)
(* them; "prev" and "first" are pointers to other names of the message,    *)
(* "header" one to the message's first byte, which is 0 and so the root.   *)

Name(parts, tail) == [labels |-> parts, tail |-> tail]
Host == <<104>>
Names == {Name(<<Host, Local>>, "end"), Name(<<Host, Service(105), Tcp, Local>>, "end"),
          Name(<<>>, "end"), Name(<<>>, "prev"), Name(<<<<120>>>>, "first"),
          Name(<<>>, "self"), Name(<<<<121>>>>, "far"), Name(<<<<120>>>>, "header"),
          Name(<<>>, "reserved")}

\* What the message says up to here; `prev` and `first` describe names by
\* where they are, what they say and how many jumps reading them takes.
NoName == [at |-> 12, text |-> <<>>, jumps |-> MaxJumps]

Target(message, nm, at) ==
  CASE nm.tail = "end"    -> [at |-> at, text |-> <<>>, jumps |-> -1]
    [] nm.tail = "prev"   -> message.prev
    [] nm.tail = "first"  -> message.first
    [] nm.tail = "header" -> [at |-> 0, text |-> <<>>, jumps |-> 0]
    [] OTHER                -> [at |-> at, text |-> <<>>, jumps |-> MaxJumps]

EncodeName(message, nm, at) ==
  FlattenSeq([i \in DOMAIN nm.labels |-> <<Len(nm.labels[i])>> \o nm.labels[i]])
  \o CASE nm.tail = "end"      -> <<0>>
       [] nm.tail = "far"      -> <<255, 255>>
       [] nm.tail = "reserved" -> <<64>>
       [] nm.tail = "none"     -> <<>>
       [] OTHER -> <<192, Target(message, nm, at).at>>

\* A name as it reads, with jumps > MaxJumps when it cannot be read.
Reading(message, nm, at) ==
  LET target == Target(message, nm, at)
  IN  [at |-> at, jumps |-> target.jumps + 1,
       text |-> Dotted(nm.labels \o IF target.text = <<>> THEN <<>> ELSE <<target.text>>)]

Readable(reading) == reading.jumps <= MaxJumps
TextOf(reading) == IF reading.text = <<>> THEN Root ELSE reading.text

Note(o, key, reading) ==
  AddProtocolSpecificName(WithMetadata(o, key, TextOf(reading)), TextOf(reading))

WithName(message, reading) ==
  [message EXCEPT !.prev = reading,
                  !.first = IF message.first = NoName THEN reading ELSE @]

AddQuestion(message, question) ==
  LET at == Len(message.bytes)
      reading == Reading(message, question.name, at)
  IN  [WithName(message, reading) EXCEPT
         !.bytes = @ \o EncodeName(message, question.name, at) \o <<0, 1, 0, 1>>,
         !.sound = @ /\ Readable(reading),
         !.says = IF Readable(reading) THEN Note(@, "dns.queries", reading) ELSE @]

\* What a record's data says: an address, a name, a service's name or texts.
Told(item, data, inner, said) ==
  CASE item.type \in {12, 33} /\ Readable(inner) ->
         Note(said, IF item.type = 12 THEN "dns.ptr_names" ELSE "dns.srv_targets", inner)
    [] item.type = 1 /\ Len(data) = 4 -> WithMetadata(said, "dns.answer_ips", data)
    [] item.type = 16 ->
         FoldLeft(LAMBDA o, t : ApplyMdnsTxtSummary(WithMetadata(o, "dns.txt", t), t), said, item.texts)
    [] OTHER -> said

WithData(message, head, item, data, inner, reading) ==
  [message EXCEPT
     !.bytes = head \o U16(Len(data)) \o data,
     !.sound = @ /\ Readable(reading),
     !.says = IF Readable(reading) THEN Told(item, data, inner, Note(@, "dns.answer_names", reading)) ELSE @]

AddRecord(message, item) ==
  LET at == Len(message.bytes)
      reading == Reading(message, item.name, at)
      named == WithName(message, reading)
      head == message.bytes \o EncodeName(message, item.name, at) \o U16(item.type) \o [i \in 1..6 |-> 0]
      inner == Reading(named, item.inner, Len(head) + 2 + Len(item.data))
  IN  WithData(named, head, item,
               item.data \o IF item.type \in {12, 33} THEN EncodeName(named, item.inner, inner.at) ELSE <<>>,
               inner, reading)

Record(nm, type, data, inner, texts) ==
  [name |-> nm, type |-> type, data |-> data, inner |-> inner, texts |-> texts]
Text(key, value) == key \o <<61>> \o value
Texts == << Text(<<77, 68>>, <<57>>), Text(<<109, 103>>, <<56>>) >>
SomeName == Name(<<Host, Local>>, "end")
Records ==
  {Record(n, 1, Other, SomeName, <<>>) : n \in Names} \cup
  {Record(Name(<<>>, "prev"), 12, <<>>, n, <<>>) : n \in Names} \cup
  {Record(SomeName, 33, <<0, 0, 0, 0, 0, 9>>, n, <<>>) : n \in {SomeName, Name(<<>>, "first"), Name(<<>>, "self")}} \cup
  {Record(SomeName, 16, FlattenSeq([i \in 1..2 |-> <<Len(Texts[i])>> \o Texts[i]]), SomeName, Texts),
   Record(SomeName, 16, <<Len(Texts[1])>> \o Texts[1] \o <<9, 1>>, SomeName, <<Texts[1]>>),
   Record(SomeName, 33, <<0, 0, 0, 0, 0, 9>>, Name(<<>>, "none"), <<>>),
   Record(SomeName, 1, <<1, 2, 3>>, SomeName, <<>>)}

DnsMessage(port, queries, answers) ==
  LET blank == [bytes |-> <<0, 0, 0, 0>> \o U16(Len(queries)) \o U16(Len(answers)) \o <<0, 0, 0, 0>>,
                prev |-> NoName, first |-> NoName, sound |-> TRUE,
                says |-> Observation(Sender, Address,
                           CASE port = 53 -> "dns" [] port = 5353 -> "mdns" [] port = 5355 -> "llmnr")]
      asked == FoldLeft(AddQuestion, blank, [i \in DOMAIN queries |-> [name |-> queries[i]]])
  IN  FoldLeft(AddRecord, asked, answers)

DnsDatagram(port, message, cut) ==
  Case(Datagram(port, 40000, SubSeq(message.bytes, 1, Len(message.bytes) - cut)),
       IF message.sound /\ cut = 0 THEN <<message.says>> ELSE <<>>)
DnsCase(port, queries, answers, cut) == DnsDatagram(port, DnsMessage(port, queries, answers), cut)

Back == Record(Name(<<>>, "prev"), 1, Other, SomeName, <<>>)
Followers == {Record(n, 1, Other, SomeName, <<>>) : n \in {Name(<<>>, "prev"), Name(<<<<120>>>>, "first")}}
Pairs == {<<a, b>> : a \in Records, b \in Followers}
DnsCases ==
  {DnsCase(5353, <<SomeName>>, answers, 0) : answers \in Pairs}
  \cup {DnsCase(5355, <<SomeName>>, [i \in 1..n |-> Back], 0) : n \in 1..MaxJumps + 1}
  \cup {DnsCase(port, <<n, m>>, <<>>, cut) : port \in {53, 5355}, n \in Names, m \in Names, cut \in 0..1}
  \cup {DnsCase(5353, <<>>, <<r>>, cut) : r \in Records, cut \in 0..5}

\* Names of any bytes at all, in a question, a record and a PTR record.
RawBytes == {0, 1, 3, 12, 63, 64, 192, 255}
RawCases ==
  {Case(Datagram(137, port, <<0, 0, 0, 0, 0, 1, 0, 1, 0, 0, 0, 0>> \o raw), Unstated) :
     port \in {53, 40000}, raw \in UNION {[1..n -> RawBytes] : n \in 0..RawLength}}
  \cup {Case(Datagram(5353, 5353, <<0, 0, 0, 0, 0, 0, 0, 1, 0, 0, 0, 0, 0, 0, 12, 0, 0, 0, 0, 0, 0, 0, 2>> \o raw),
             Unstated) : raw \in [1..RawLength -> RawBytes]}

-----------------------------------------------------------------------------
(* NetBIOS.                                                                 *)

Encoded(text) ==
  LET padded == text \o [i \in 1..16 - Len(text) |-> 32]
  IN  FlattenSeq([i \in 1..16 |-> <<65 + (padded[i] \div 16), 65 + (padded[i] % 16)>>])

\* Tokens: the bytes, whether they are sound, how many pointers reading them
\* follows, and the texts they say.  A pointer to byte 0 is the root's name.
\* The plugin keeps these texts as metadata, which nothing reads, and reports no
\* host name, although docs/bao-cao.md:408 names NetBIOS as a source of it.
Netbios(bytes, sound, depth, says) ==
  [bytes |-> bytes, sound |-> sound, depth |-> depth, says |-> says]
NetbiosNames == {
  Netbios(<<32>> \o Encoded(<<80, 67>>) \o <<0>>, TRUE, 0, {<<80, 67>>}),
  Netbios(<<32>> \o Encoded(<<81>>) \o <<2, 1, 1, 0>>, TRUE, 0, {<<81>>}),
  Netbios(<<32>> \o Encoded(<<>>) \o <<0>>, TRUE, 0, {}),
  Netbios(<<0>>, TRUE, 0, {}),
  Netbios(<<192, 0>>, TRUE, 1, {}),
  Netbios(<<32, 90>> \o Encoded(<<80>>) \o <<0>>, FALSE, 0, {}),
  Netbios(<<32>> \o Encoded(<<80>>) \o <<90>>, FALSE, 0, {}),
  Netbios(<<32>> \o Encoded(<<80>>) \o <<2, 1, 1, 200, 0>>, FALSE, 0, {}),
  Netbios(<<255, 255>>, FALSE, 1, {}), Netbios(<<31>>, FALSE, 0, {})}

\* A question and an answer, and a second answer that points at the one or
\* the other.
NetbiosCase(question, answer, toFirst, cut) ==
  LET start == <<0, 0, 0, 0, 0, 1, 0, 1, 0, 0, 0, 1>> \o question.bytes \o <<0, 32, 0, 1>>
      data == [i \in 1..8 |-> 0] \o <<0, 2, 7, 7>>
      payload == start \o answer.bytes \o data
                   \o <<192, IF toFirst THEN 12 ELSE Len(start)>> \o data
      sound == /\ cut = 0
               /\ \A n \in {question, answer} : n.sound /\ n.depth <= MaxDepth
               /\ (IF toFirst THEN question ELSE answer).depth < MaxDepth
  IN  Case(Datagram(137, 137, SubSeq(payload, 1, Len(payload) - cut)),
           IF sound THEN <<[Observation(Sender, Address, "netbios") EXCEPT
                              !.metadata = {<<"netbios.names", t>> : t \in question.says \cup answer.says}]>>
           ELSE <<>>)

NetbiosCases ==
  {NetbiosCase(q, a, toFirst, cut) :
     q \in NetbiosNames, a \in NetbiosNames, toFirst \in BOOLEAN, cut \in {0, 1, 13, 27, 28}}

-----------------------------------------------------------------------------
(* SSDP.  A line and what it may tell.                                      *)

Line(header, value, os, device) ==
  [header |-> header, value |-> value, os |-> os, device |-> device]
Lines == {
  Line("manufacturer", <<97>>, None, None), Line("manufacturer", <<>>, None, None),
  Line("modelname", <<98>>, None, None), Line("server", <<87, 73>>, "windows", None),
  Line("usn", <<99, 97, 58, 97, 110>>, "android", "camera"),
  Line("friendlyname", <<112, 114>>, None, "printer"), Line("", <<>>, None, None)}

EncodeLine(l) ==
  IF l.header = "" THEN <<32, 13, 10>>
  ELSE <<32>> \o MCSpelling[l.header] \o <<32, 58, 32>> \o l.value \o <<13, 10>>

SsdpFacts(lines) ==
  LET told == SelectSeq(lines, LAMBDA l : l.header # "")
      rest == IF told = <<>> THEN <<>> ELSE Tail(told)
      Last1(test(_)) == LastOr(SelectSeq(rest, test), Line("", None, None, None))
      models == SelectSeq(rest, LAMBDA l : l.header \in {"server", "usn"})
      model == Last1(LAMBDA l : l.header = "modelname").value
  IN  <<[Observation(Sender, Address, "ssdp") EXCEPT
          !.vendor = Last1(LAMBDA l : l.header = "manufacturer" /\ l.value # <<>>).value,
          !.displayName = Last1(LAMBDA l : l.header = "friendlyname").value,
          !.modelHint = IF model # None THEN model ELSE FirstOr(models, Line("", None, None, None)).value,
          !.osHint = Last1(LAMBDA l : l.os # None).os,
          !.deviceType = Last1(LAMBDA l : l.device # None).device]>>

SsdpCases ==
  {Case(Datagram(1900, 1900, FlattenSeq([i \in DOMAIN lines |-> EncodeLine(lines[i])])),
        SsdpFacts(lines)) : lines \in UNION {[1..n -> Lines] : n \in 1..3}}

-----------------------------------------------------------------------------
(* The other headers: what is seen of an endpoint, and by which plugin.     *)

Endpoint(source) == Observation(Sender, Address, source)
Seen(os) == [Endpoint("ip") EXCEPT !.osHint = os]

ArpBody(hardware, operation, sender, target) ==
  U16(hardware) \o <<8, 0, 6, 4>> \o U16(operation) \o Sender \o sender \o NoMac \o target
ArpFacts(operation, sender, target) ==
  LET gratuitous == sender = target /\ sender # NoAddress
  IN  {m \in {"gratuitous", "announcement", "probe"} :
         \/ m = "gratuitous" /\ gratuitous
         \/ m = "announcement" /\ gratuitous /\ operation = 1
         \/ m = "probe" /\ sender = NoAddress /\ target # NoAddress}
ArpCases ==
  {Case(Ethernet(2054, ArpBody(1, op, s, t)),
        <<[Observation(Sender, s, "arp") EXCEPT
             !.metadata = {<<"arp", m>> : m \in ArpFacts(op, s, t)}]>>) :
     op \in 1..2, s \in {NoAddress, Address}, t \in {NoAddress, Address, Other}}
  \cup {Case(SubSeq(Ethernet(2054, ArpBody(h, 1, Address, Other)), 1, n), <<>>) :
          h \in {1, 2}, n \in {13, 14, 41}}
  \cup {Case(Ethernet(2054, ArpBody(6, 1, Address, Other)), <<>>)}

TcpSegment(offset4, flags) ==
  U16(443) \o U16(40000) \o [i \in 1..8 |-> 0] \o <<16 * offset4, flags>> \o [i \in 1..6 |-> 0]
TcpFacts(offset4, flags) ==
  <<Seen("linux/unix")>> \o
  IF offset4 = 5 /\ flags \in {18, 19}
  THEN <<[Endpoint("tcp") EXCEPT !.metadata = {<<"tcp.syn_ack_ports", 443>>}]>> ELSE <<>>
TcpCases ==
  {Case(Ethernet(2048, Ipv4(6, <<0, 0>>, 64, Address, TcpSegment(o, f))), TcpFacts(o, f)) :
     o \in {4, 5, 6}, f \in {2, 16, 18, 19, 22}}

\* Both ports special, one, or none; DHCP needs both and the endpoint neither.
PortCases ==
  {Case(Datagram(from, to, <<1>>),
        IF {from, to} \cap SpecializedPorts = {} THEN <<Seen("linux/unix")>>
        ELSE IF 1900 \in {from, to} THEN <<Endpoint("ssdp")>> ELSE <<>>) :
     from \in {40000, 67, 53, 1900, 137}, to \in {40001, 68, 5355}}

LayerCases ==
  {Case(SubSeq(Datagram(40000, 40001, <<>>), 1, n), <<>>) : n \in {0, 13, 14, 33, 41}}
  \cup {Case(Ethernet(2048, Ipv4(17, flags, 200, NoAddress, SubSeq(Udp(53, 53, <<1>>), 1, n))),
             <<[Observation(Sender, None, "ip") EXCEPT !.osHint = "network-device"]>>) :
          flags \in {<<0, 1>>, <<32, 0>>}, n \in {0, 9}}
  \cup {Case(Ethernet(2048, Ipv4(17, <<0, 0>>, 100, Address, U16(53) \o U16(53) \o <<0, n, 0, 0>>)),
             <<Seen("windows")>>) : n \in {7, 9}}
  \cup {Case(Ethernet(2048, Ipv4(p, <<64, 0>>, 100, Address, SubSeq(Udp(53, 53, <<1>>), 1, n))),
             <<Seen("windows")>>) : p \in {1, 6, 17}, n \in {0, 7, 8}}
  \cup {Case(Ethernet(2048, <<v, 0, 0, t>> \o [i \in 1..20 |-> 0]), <<>>) :
          <<v, t>> \in {<<69, 19>>, <<69, 25>>, <<68, 24>>, <<101, 24>>, <<71, 24>>}}

-----------------------------------------------------------------------------

Cases == DhcpCases \cup DnsCases \cup RawCases \cup NetbiosCases \cup SsdpCases
         \cup ArpCases \cup TcpCases \cup PortCases \cup LayerCases

MCFrames == {c.bytes : c \in Cases}

MCInit ==
  /\ case \in Cases
  /\ frame = case.bytes
  /\ Init
  /\ core = (todo = CoreRegistry)

MCNext == Next /\ UNCHANGED <<case, core>>
MCSpec == MCInit /\ [][MCNext]_<<vars, case, core>> /\ WF_<<vars, case, core>>(MCNext)

\* What is concluded from a packet is what the packet says: of several
\* options, headers or names that answer the same question the right one wins,
\* names end and resume at the right byte through every chain of pointers, and
\* a message that is malformed anywhere gives nothing at all.  It states what
\* the code does, also where docs/bao-cao.md says otherwise (NetbiosNames).
FactsOfThePacket ==
  pc = "done" /\ case.facts # Unstated =>
    observations = IF core THEN SelectSeq(case.facts, LAMBDA o : o.source \in {"arp", "dhcp"})
                   ELSE case.facts

=============================================================================
