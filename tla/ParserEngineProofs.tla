------------------------- MODULE ParserEngineProofs -------------------------
(********************************************************************************)
(* ParserEngine, for every packet of bytes, every limit on pointers and every   *)
(* spelling of the keywords: it never reads outside the packet, and its work    *)
(* runs out.  The invariant that carries the reads keeps every view inside the  *)
(* packet and the data of the record being read inside its view; every other    *)
(* bound is tested by the step that needs it.  The work is five numbers, the    *)
(* heavier first, and every step makes the first of those it changes smaller.   *)
(********************************************************************************)
EXTENDS ParserEngine, WellFoundedInduction, TLAPS

ViewType == [at : Nat, size : Nat]
Layers == {"ethernet", "ipv4", "udp", "tcp"}
Plugins == {"arp", "ip", "dhcp", "dns", "tcp", "ssdp", "netbios"}

ContextType ==
  [layers : SUBSET Layers, sourceMac : Seq(Byte), etherType : Nat, body : ViewType,
   sourceIp : Seq(Byte), ttl : Nat, protocol : Nat, fragmented : BOOLEAN,
   segment : ViewType, sourcePort : Nat, destinationPort : Nat,
   payload : ViewType, flags : SUBSET {"fin", "syn", "rst", "ack"}]

Inside(v) == v.at + v.size <= Len(frame)

\* The shape of what the reads depend on.
ReadState ==
  /\ frame \in Seq(Byte)
  /\ context \in ContextType
  /\ todo \in Seq(Plugins)
  /\ offset \in Nat /\ cursor \in Nat
  /\ record \in [type : Nat, at : Nat, length : Nat]

ViewsInside == Inside(context.body) /\ Inside(context.segment) /\ Inside(context.payload)

RecordInside ==
  /\ record.at + record.length <= context.payload.size
  /\ pc \in {"ethernet", "ipv4", "transport"} => record.at = 0 /\ record.length = 0

HeaderThere == pc \in {"dns", "netbios"} => context.payload.size >= 12

IInv == ReadState /\ ViewsInside /\ RecordInside /\ HeaderThere /\ ReadsInside

-----------------------------------------------------------------------------

\* A byte read anywhere is a byte.
LEMMA AtType ==
  ASSUME frame \in Seq(Byte), NEW v \in ViewType, NEW i \in Nat
  PROVE  At(v, i) \in Byte
<1>1. v.at + i \in Nat
  BY DEF ViewType
<1>2. ASSUME v.at + i < Len(frame) PROVE frame[v.at + i + 1] \in Byte
  BY <1>1, <1>2
<1> QED
  BY <1>1, <1>2, GarbageAssumption DEF At

LEMMA UInt16Type ==
  ASSUME frame \in Seq(Byte), NEW v \in ViewType, NEW i \in Nat
  PROVE  UInt16(v, i) \in Nat
<1>1. At(v, i) \in Byte /\ At(v, i + 1) \in Byte
  BY AtType
<1>2. \A a, b \in Byte : 256 * a + b \in Nat
  BY DEF Byte
<1> QED
  BY <1>1, <1>2 DEF UInt16

LEMMA SliceType ==
  ASSUME frame \in Seq(Byte), NEW v \in ViewType, NEW i \in Nat, NEW n \in Nat
  PROVE  Slice(v, i, n) \in Seq(Byte)
<1>1. \A k \in 1..n : i + k - 1 \in Nat
  OBVIOUS
<1>2. \A k \in 1..n : At(v, i + k - 1) \in Byte
  BY <1>1, AtType
<1> QED
  BY <1>2 DEF Slice

\* A view into a view inside the packet is inside the packet.
LEMMA SubviewInside ==
  ASSUME frame \in Seq(Byte), NEW v \in ViewType, Inside(v), NEW from \in Nat, NEW length \in Nat
  PROVE  /\ SubviewFrom(v, from) \in ViewType /\ Inside(SubviewFrom(v, from))
         /\ Subview(v, from, length) \in ViewType /\ Inside(Subview(v, from, length))
  BY DEF SubviewFrom, Subview, View, ViewType, Inside

LEMMA ReadToInside ==
  ASSUME NEW v \in ViewType, Inside(v), NEW end \in Nat, end <= v.size
  PROVE  \A r \in ReadTo(v, end) : r[2] <= r[1].size /\ r[1].at + r[1].size <= Len(frame)
  BY DEF ReadTo, Inside

LEMMA InitIInv == Init => IInv
<1> SUFFICES ASSUME Init PROVE IInv
  OBVIOUS
<1>1. frame \in Seq(Byte)
  BY FramesAssumption DEF Init
<1>2. NoMac \in Seq(Byte) /\ NoAddress \in Seq(Byte)
  BY DEF NoMac, NoAddress, Byte
<1>3. context \in ContextType
  BY <1>2 DEF Init, EmptyContext, ContextType, ViewType, View, Layers
<1>4. todo \in Seq(Plugins)
  <2>1. DefaultRegistry \in Seq(Plugins) /\ CoreRegistry \in Seq(Plugins)
    BY DEF DefaultRegistry, CoreRegistry, Plugins
  <2> QED
    BY <2>1 DEF Init
<1>5. ReadState
  BY <1>1, <1>3, <1>4 DEF Init, ReadState
<1>6. ViewsInside /\ RecordInside
  BY <1>1 DEF Init, EmptyContext, View, ViewsInside, Inside, RecordInside
<1> QED
  BY <1>5, <1>6 DEF Init, IInv, HeaderThere, ReadsInside

-----------------------------------------------------------------------------
(* Steps of the plugins change neither the packet nor its context.          *)

LEMMA ReadOK ==
  ASSUME frame' = frame, NEW v \in ViewType, Inside(v), NEW end \in Nat, end <= v.size,
         reads' = ReadTo(v, end)
  PROVE  ReadsInside'
  BY ReadToInside DEF ReadsInside

LEMMA NoRead ==
  ASSUME reads' = {}
  PROVE  ReadsInside'
  BY DEF ReadsInside

LEMMA PayloadView ==
  ASSUME IInv
  PROVE  /\ context.payload \in ViewType /\ Inside(context.payload)
         /\ context.body \in ViewType /\ Inside(context.body)
         /\ context.segment \in ViewType /\ Inside(context.segment)
  BY DEF IInv, ReadState, ViewsInside, ContextType

Decoding == {"ethernet", "ipv4", "transport"}

LEMMA PluginStep ==
  ASSUME IInv, UNCHANGED <<frame, context, todo, record>>,
         offset' \in Nat, cursor' \in Nat,
         pc' \notin Decoding, pc' \notin {"dns", "netbios"}, ReadsInside'
  PROVE  IInv'
  BY DEF IInv, ReadState, ViewsInside, Inside, RecordInside, HeaderThere, Decoding

\* The same for a step that reads a record.
LEMMA RecordStep ==
  ASSUME IInv, UNCHANGED <<frame, context, todo>>,
         offset' \in Nat, cursor' = cursor,
         record' \in [type : Nat, at : Nat, length : Nat],
         record'.at + record'.length <= context.payload.size,
         pc' \notin Decoding, pc' \notin {"dns", "netbios"}, ReadsInside'
  PROVE  IInv'
<1>1. ReadState'
  BY DEF IInv, ReadState
<1>2. ViewsInside' /\ RecordInside' /\ HeaderThere'
  BY DEF IInv, ViewsInside, Inside, RecordInside, HeaderThere, Decoding
<1> QED
  BY <1>1, <1>2 DEF IInv

\* What every step of the DNS and NetBIOS loops starts from.
LEMMA StepFacts ==
  ASSUME IInv
  PROVE  /\ context.payload \in ViewType /\ Inside(context.payload)
         /\ context.payload.size \in Nat
         /\ frame \in Seq(Byte)
         /\ offset \in Nat /\ cursor \in Nat
         /\ record.at \in Nat /\ record.length \in Nat
         /\ record.at + record.length <= context.payload.size
         /\ \A i \in Nat : At(context.payload, i) \in Nat /\ UInt16(context.payload, i) \in Nat
<1>1. context.payload \in ViewType /\ Inside(context.payload)
  BY PayloadView
<1>2. \A i \in Nat : At(context.payload, i) \in Nat /\ UInt16(context.payload, i) \in Nat
  <2>1. frame \in Seq(Byte)
    BY DEF IInv, ReadState
  <2>2. TAKE i \in Nat
  <2>3. At(context.payload, i) \in Byte
    BY <1>1, <2>1, AtType
  <2>4. UInt16(context.payload, i) \in Nat
    BY <1>1, <2>1, UInt16Type
  <2> QED
    BY <2>3, <2>4 DEF Byte
<1> QED
  BY <1>1, <1>2 DEF IInv, ReadState, RecordInside, ViewType

LEMMA NameStep ==
  ASSUME IInv, ReadDnsName
  PROVE  IInv'
<1> DEFINE v == context.payload
           length == At(v, cursor)
<1>0. /\ v \in ViewType /\ Inside(v) /\ v.size \in Nat
      /\ offset \in Nat /\ cursor \in Nat /\ length \in Nat
      /\ UInt16(v, cursor) \in Nat
  BY StepFacts
<1>1. UNCHANGED <<frame, context, todo, record>> /\ pc = "dns.name"
  BY DEF ReadDnsName
<1>2. ASSUME NameMissing PROVE offset' \in Nat /\ cursor' \in Nat /\ pc' \in {"engine", "dns.next"}
  BY <1>0, <1>2 DEF NameMissing, ReturnNothing, Return
<1>3. CASE cursor >= v.size /\ EndOfPayload
  <2>1. offset' \in Nat /\ cursor' \in Nat /\ pc' \in {"engine", "dns.next"} /\ reads' = {}
    BY <1>2, <1>3 DEF EndOfPayload
  <2> QED
    BY <2>1, <1>1, NoRead, PluginStep DEF Decoding
<1>4. CASE cursor < v.size /\ EndOfName(v)
  <2>1. offset' \in Nat /\ cursor' \in Nat /\ pc' = "dns.named" /\ reads' = ReadTo(v, cursor + 1)
    BY <1>0, <1>4 DEF EndOfName, Follow
  <2>2. ReadsInside'
    BY <2>1, <1>0, <1>1, <1>4, ReadOK
  <2> QED
    BY <2>1, <2>2, <1>1, PluginStep DEF Decoding
<1>5. CASE cursor < v.size /\ JumpInName(v)
  <2>1. CASE cursor + 1 >= v.size
    <3>1. NameMissing /\ reads' = ReadTo(v, cursor + 1)
      BY <1>5, <2>1 DEF JumpInName
    <3>2. ReadsInside'
      BY <3>1, <1>0, <1>1, <1>5, ReadOK
    <3> QED
      BY <3>1, <3>2, <1>1, <1>2, PluginStep DEF Decoding
  <2>2. CASE ~(cursor + 1 >= v.size)
    <3>1. reads' = ReadTo(v, cursor + 2)
      BY <1>5, <2>2 DEF JumpInName
    <3>2. ReadsInside'
      BY <3>1, <1>0, <1>1, <2>2, ReadOK
    <3>3. UInt16(v, cursor) % 16384 \in Nat
      BY <1>0
    <3>4. offset' \in Nat /\ cursor' \in Nat /\ pc' \in {"engine", "dns.next", "dns.name"}
      <4>1. CASE NameMissing
        BY <4>1, <1>2
      <4>2. CASE ~NameMissing
        BY <4>2, <1>0, <1>1, <1>5, <2>2, <3>3 DEF JumpInName, Follow
      <4> QED
        BY <4>1, <4>2
    <3> QED
      BY <3>2, <3>4, <1>1, PluginStep DEF Decoding
  <2> QED
    BY <2>1, <2>2
<1>6. CASE cursor < v.size /\ LabelOfName(v, length)
  <2>1. CASE ~LabelFits(v, length)
    <3>1. NameMissing /\ reads' = ReadTo(v, cursor + 1)
      BY <1>6, <2>1 DEF LabelOfName
    <3>2. ReadsInside'
      BY <3>1, <1>0, <1>1, <1>6, ReadOK
    <3> QED
      BY <3>1, <3>2, <1>1, <1>2, PluginStep DEF Decoding
  <2>2. CASE LabelFits(v, length)
    <3>1. /\ reads' = ReadTo(v, cursor + 1 + length)
          /\ offset' \in Nat /\ cursor' \in Nat /\ pc' = "dns.name"
      BY <1>0, <1>1, <1>6, <2>2 DEF LabelOfName, Follow
    <3>2. cursor + 1 + length <= v.size /\ cursor + 1 + length \in Nat
      BY <1>0, <2>2 DEF LabelFits
    <3>3. ReadsInside'
      BY <3>1, <3>2, <1>0, <1>1, ReadOK
    <3> QED
      BY <3>1, <3>3, <1>1, PluginStep DEF Decoding
  <2> QED
    BY <2>1, <2>2
<1> QED
  BY <1>0, <1>3, <1>4, <1>5, <1>6 DEF ReadDnsName

LEMMA DnsStep ==
  ASSUME IInv, ParseDns
  PROVE  IInv'
<1> DEFINE v == context.payload
<1>0. /\ v \in ViewType /\ Inside(v) /\ v.size \in Nat
      /\ offset \in Nat /\ cursor \in Nat
      /\ record.at \in Nat /\ record.length \in Nat
      /\ record.at + record.length <= v.size
      /\ \A i \in Nat : At(v, i) \in Nat /\ UInt16(v, i) \in Nat
  BY StepFacts
<1>1. CASE StartDns
  <2>1. /\ UNCHANGED <<frame, context, todo, record, cursor>> /\ pc' = "dns.next"
        /\ offset' = 12 /\ reads' = ReadTo(v, 12)
    BY <1>1 DEF StartDns, DnsHeaderLength
  <2>2. 12 <= v.size
    BY <1>0, <1>1 DEF StartDns, IInv, HeaderThere
  <2>3. ReadsInside'
    BY <1>0, <2>1, <2>2, ReadOK
  <2> QED
    BY <1>0, <2>1, <2>3, PluginStep DEF Decoding
<1>2. CASE NextDnsItem
  <2>1. /\ UNCHANGED <<frame, context, todo, record, offset>>
        /\ pc' \in {"dns.name", "engine"} /\ cursor' \in Nat /\ reads' = {}
    BY <1>0, <1>2 DEF NextDnsItem, BeginName, Return
  <2> QED
    BY <1>0, <2>1, NoRead, PluginStep DEF Decoding
<1>3. CASE ReadDnsName
  BY <1>3, NameStep
<1>4. CASE QuestionRead
  <2>1. UNCHANGED <<frame, context, todo, record, cursor>> /\ offset' \in Nat /\ pc' \in {"engine", "dns.next"}
    BY <1>0, <1>4 DEF QuestionRead, ReturnNothing, Return
  <2>2. ReadsInside'
    <3>1. CASE offset + 4 > v.size
      BY <3>1, <1>4, NoRead DEF QuestionRead
    <3>2. CASE ~(offset + 4 > v.size)
      <4>1. reads' = ReadTo(v, offset + 2)
        BY <3>2, <1>4 DEF QuestionRead
      <4> QED
        BY <4>1, <3>2, <1>0, <2>1, ReadOK
    <3> QED
      BY <3>1, <3>2
  <2> QED
    BY <1>0, <2>1, <2>2, PluginStep DEF Decoding
<1>5. CASE RecordRead
  <2> DEFINE length == UInt16(v, offset + 8)
  <2>0. length \in Nat /\ UInt16(v, offset) \in Nat
    BY <1>0
  <2>1. UNCHANGED <<frame, context, todo, cursor>>
    BY <1>5 DEF RecordRead
  <2>2. CASE offset + 10 > v.size
    <3>1. UNCHANGED <<offset, record>> /\ pc' = "engine" /\ reads' = {}
      BY <1>5, <2>2 DEF RecordRead, ReturnNothing, Return
    <3> QED
      BY <1>0, <2>1, <3>1, NoRead, PluginStep DEF Decoding
  <2>3. CASE ~(offset + 10 > v.size) /\ offset + 10 + length > v.size
    <3>1. UNCHANGED <<offset, record>> /\ pc' = "engine" /\ reads' = ReadTo(v, offset + 10)
      BY <1>5, <2>3 DEF RecordRead, ReturnNothing, Return
    <3>2. ReadsInside'
      BY <1>0, <2>1, <2>3, <3>1, ReadOK
    <3> QED
      BY <1>0, <2>1, <3>1, <3>2, PluginStep DEF Decoding
  <2>4. CASE ~(offset + 10 > v.size) /\ ~(offset + 10 + length > v.size)
    <3>1. /\ record' = [type |-> UInt16(v, offset), at |-> offset + 10, length |-> length]
          /\ offset' = offset + 10 + length /\ pc' = "dns.record" /\ reads' = ReadTo(v, offset + 10)
      BY <1>5, <2>4 DEF RecordRead
    <3>2. ReadsInside'
      BY <1>0, <2>1, <2>4, <3>1, ReadOK
    <3>3. /\ record' \in [type : Nat, at : Nat, length : Nat] /\ offset' \in Nat
          /\ record'.at = offset + 10 /\ record'.length = length
      BY <1>0, <2>0, <3>1
    <3>4. record'.at + record'.length <= v.size
      BY <1>0, <2>0, <2>4, <3>3
    <3> QED
      BY <2>1, <3>1, <3>2, <3>3, <3>4, RecordStep DEF Decoding
  <2> QED
    BY <2>2, <2>3, <2>4
<1>6. CASE RecordData
  <2>1. /\ UNCHANGED <<frame, context, todo, record, offset>>
        /\ cursor' \in Nat /\ pc' \in {"dns.name", "dns.txt", "dns.next"}
    BY <1>0, <1>6 DEF RecordData, BeginName
  <2>2. ReadsInside'
    <3>1. CASE IsAddress
      <4>1. reads' = ReadTo(v, record.at + record.length)
        BY <3>1, <1>6 DEF RecordData
      <4> QED
        BY <4>1, <1>0, <2>1, ReadOK
    <3>2. CASE ~IsAddress
      BY <3>2, <1>6, NoRead DEF RecordData
    <3> QED
      BY <3>1, <3>2
  <2> QED
    BY <1>0, <2>1, <2>2, PluginStep DEF Decoding
<1>7. CASE InnerNameRead
  <2>1. UNCHANGED <<frame, context, todo, record, offset, cursor>> /\ pc' = "dns.next" /\ reads' = {}
    BY <1>7 DEF InnerNameRead, registers
  <2> QED
    BY <1>0, <2>1, NoRead, PluginStep DEF Decoding
<1>8. CASE TextRecord
  <2> DEFINE end == record.at + record.length
             length == At(v, cursor)
  <2>0. length \in Nat
    BY <1>0
  <2>1. UNCHANGED <<frame, context, todo, record, offset>> /\ cursor' \in Nat /\ pc' \in {"dns.next", "dns.txt"}
    BY <1>0, <1>8, <2>0 DEF TextRecord
  <2>2. ReadsInside'
    <3>1. CASE cursor >= end
      BY <3>1, <1>8, NoRead DEF TextRecord
    <3>2. CASE ~(cursor >= end) /\ cursor + 1 + length > end
      <4>1. reads' = ReadTo(v, cursor + 1) /\ cursor + 1 <= v.size
        BY <1>0, <3>2, <1>8 DEF TextRecord
      <4> QED
        BY <4>1, <1>0, <2>1, ReadOK
    <3>3. CASE ~(cursor >= end) /\ ~(cursor + 1 + length > end)
      <4>1. reads' = ReadTo(v, cursor + 1 + length)
        BY <3>3, <1>8 DEF TextRecord
      <4>2. cursor + 1 + length <= v.size /\ cursor + 1 + length \in Nat
        BY <3>3, <1>0, <2>0
      <4> QED
        BY <4>1, <4>2, <1>0, <2>1, ReadOK
    <3> QED
      BY <3>1, <3>2, <3>3
  <2> QED
    BY <1>0, <2>1, <2>2, PluginStep DEF Decoding
<1> QED
  BY <1>1, <1>2, <1>3, <1>4, <1>5, <1>6, <1>7, <1>8 DEF ParseDns

LEMMA NetbiosNameStep ==
  ASSUME IInv, ReadNetbiosName
  PROVE  IInv'
<1> DEFINE v == context.payload
           length == At(v, cursor)
<1>0. /\ v \in ViewType /\ Inside(v) /\ v.size \in Nat
      /\ offset \in Nat /\ cursor \in Nat /\ length \in Nat
      /\ UInt16(v, cursor) \in Nat
  BY StepFacts
<1>1. UNCHANGED <<frame, context, todo, record>> /\ pc = "netbios.name"
  BY DEF ReadNetbiosName
<1>2. ASSUME GiveUp PROVE offset' \in Nat /\ cursor' \in Nat /\ pc' = "engine"
  BY <1>0, <1>2 DEF GiveUp, ReturnNothing, Return
<1>3. CASE GiveUp /\ reads' = {}
  BY <1>1, <1>2, <1>3, NoRead, PluginStep DEF Decoding
<1>4. CASE cursor < v.size /\ GiveUp /\ reads' = ReadTo(v, cursor + 1)
  <2>1. ReadsInside'
    BY <1>0, <1>1, <1>4, ReadOK
  <2> QED
    BY <2>1, <1>1, <1>2, <1>4, PluginStep DEF Decoding
<1>5. CASE cursor < v.size /\ RootName(v)
  <2>1. offset' \in Nat /\ cursor' \in Nat /\ pc' = "netbios.named" /\ reads' = ReadTo(v, cursor + 1)
    BY <1>0, <1>5 DEF RootName, Advance
  <2>2. ReadsInside'
    BY <1>0, <1>1, <1>5, <2>1, ReadOK
  <2> QED
    BY <2>1, <2>2, <1>1, PluginStep DEF Decoding
<1>6. CASE cursor + 1 < v.size /\ PointedName(v)
  <2>1. reads' = ReadTo(v, cursor + 2)
    BY <1>0, <1>6 DEF PointedName
  <2>2. ReadsInside'
    BY <1>0, <1>1, <1>6, <2>1, ReadOK
  <2>3. UInt16(v, cursor) % 16384 \in Nat
    BY <1>0
  <2>4. offset' \in Nat /\ cursor' \in Nat /\ pc' \in {"engine", "netbios.name"}
    <3>1. CASE GiveUp
      BY <3>1, <1>2
    <3>2. CASE ~GiveUp
      BY <3>2, <1>0, <1>1, <1>6, <2>3 DEF PointedName, Advance
    <3> QED
      BY <3>1, <3>2
  <2> QED
    BY <2>2, <2>4, <1>1, PluginStep DEF Decoding
<1>7. CASE cursor + 33 <= v.size /\ ~GiveUp /\ EncodedName(v)
  <2>1. reads' = ReadTo(v, cursor + 33) /\ offset' \in Nat /\ cursor' \in Nat /\ pc' = "netbios.scope"
    BY <1>0, <1>7 DEF EncodedName
  <2>2. ReadsInside'
    BY <1>0, <1>1, <1>7, <2>1, ReadOK
  <2> QED
    BY <2>1, <2>2, <1>1, PluginStep DEF Decoding
<1>8. ASSUME cursor < v.size, PointedName(v), ~(cursor + 1 < v.size)
      PROVE  GiveUp /\ reads' = ReadTo(v, cursor + 1)
  BY <1>0, <1>8 DEF PointedName
<1>9. ASSUME cursor < v.size, EncodedName(v), ~(cursor + 33 <= v.size /\ ~GiveUp)
      PROVE  GiveUp /\ reads' = ReadTo(v, cursor + 1)
  BY <1>0, <1>9 DEF EncodedName, GiveUp, ReturnNothing, Return
<1> QED
  BY <1>0, <1>3, <1>4, <1>5, <1>6, <1>7, <1>8, <1>9 DEF ReadNetbiosName

LEMMA NetbiosStep ==
  ASSUME IInv, ParseNetbios
  PROVE  IInv'
<1> DEFINE v == context.payload
<1>0. /\ v \in ViewType /\ Inside(v) /\ v.size \in Nat
      /\ offset \in Nat /\ cursor \in Nat
      /\ \A i \in Nat : At(v, i) \in Nat /\ UInt16(v, i) \in Nat
  BY StepFacts
<1>1. CASE StartNetbios
  <2>1. /\ UNCHANGED <<frame, context, todo, record, cursor>> /\ pc' = "netbios.next"
        /\ offset' = 12 /\ reads' = ReadTo(v, 12)
    BY <1>1 DEF StartNetbios, NbnsHeaderLength
  <2>2. 12 <= v.size
    BY <1>0, <1>1 DEF StartNetbios, IInv, HeaderThere
  <2>3. ReadsInside'
    BY <1>0, <2>1, <2>2, ReadOK
  <2> QED
    BY <1>0, <2>1, <2>3, PluginStep DEF Decoding
<1>2. CASE NextNetbiosItem
  <2>1. /\ UNCHANGED <<frame, context, todo, record, offset>>
        /\ pc' \in {"netbios.name", "engine"} /\ cursor' \in Nat /\ reads' = {}
    BY <1>0, <1>2 DEF NextNetbiosItem, Return
  <2> QED
    BY <1>0, <2>1, NoRead, PluginStep DEF Decoding
<1>3. CASE ReadNetbiosName
  BY <1>3, NetbiosNameStep
<1>4. CASE ReadNetbiosScope
  <2> DEFINE length == At(v, cursor)
  <2>0. length \in Nat
    BY <1>0
  <2>1. UNCHANGED <<frame, context, todo, record>> /\ pc = "netbios.scope"
    BY <1>4 DEF ReadNetbiosScope
  <2>2. ASSUME ScopeWalked PROVE pc' \in {"netbios.named", "engine"}
    BY <2>2 DEF ScopeWalked, ReturnNothing, Return
  <2>3. CASE cursor >= v.size
    <3>1. offset' \in Nat /\ cursor' \in Nat /\ ScopeWalked /\ reads' = {}
      BY <1>0, <1>4, <2>3 DEF ReadNetbiosScope, Advance
    <3> QED
      BY <3>1, <2>1, <2>2, NoRead, PluginStep DEF Decoding
  <2>4. CASE ~(cursor >= v.size)
    <3>1. reads' = ReadTo(v, cursor + 1)
      BY <1>4, <2>4 DEF ReadNetbiosScope
    <3>2. ReadsInside'
      BY <1>0, <2>1, <2>4, <3>1, ReadOK
    <3>3. offset' \in Nat /\ cursor' \in Nat /\ pc' \in {"netbios.named", "netbios.scope", "engine"}
      BY <1>0, <1>4, <2>0, <2>1, <2>2, <2>4 DEF ReadNetbiosScope, Advance, ReturnNothing, Return
    <3> QED
      BY <2>1, <3>2, <3>3, PluginStep DEF Decoding
  <2> QED
    BY <2>3, <2>4
<1>5. CASE QuestionDone
  <2>1. /\ UNCHANGED <<frame, context, todo, record, cursor>> /\ reads' = {}
        /\ offset' \in Nat /\ pc' \in {"netbios.next", "engine"}
    BY <1>0, <1>5 DEF QuestionDone, ReturnNothing, Return
  <2> QED
    BY <1>0, <2>1, NoRead, PluginStep DEF Decoding
<1>6. CASE RecordDone
  <2>0. UInt16(v, offset + 8) \in Nat
    BY <1>0
  <2>1. UNCHANGED <<frame, context, todo, record, cursor>>
        /\ offset' \in Nat /\ pc' \in {"netbios.next", "engine"}
    BY <1>0, <2>0, <1>6 DEF RecordDone, ReturnNothing, Return
  <2>2. ReadsInside'
    <3>1. CASE offset + 10 > v.size
      BY <3>1, <1>6, NoRead DEF RecordDone
    <3>2. CASE ~(offset + 10 > v.size)
      <4>1. reads' = ReadTo(v, offset + 10)
        BY <3>2, <1>6 DEF RecordDone
      <4> QED
        BY <4>1, <3>2, <1>0, <2>1, ReadOK
    <3> QED
      BY <3>1, <3>2
  <2> QED
    BY <1>0, <2>1, <2>2, PluginStep DEF Decoding
<1> QED
  BY <1>1, <1>2, <1>3, <1>4, <1>5, <1>6 DEF ParseNetbios

-----------------------------------------------------------------------------

LEMMA DhcpStep ==
  ASSUME IInv, ParseDhcp
  PROVE  IInv'
<1> DEFINE v == context.payload
           length == At(v, offset + 1)
<1>0. /\ v \in ViewType /\ Inside(v) /\ v.size \in Nat
      /\ offset \in Nat /\ cursor \in Nat /\ length \in Nat
  <2>1. offset \in Nat
    BY StepFacts
  <2>2. offset + 1 \in Nat
    BY <2>1
  <2> QED
    BY <2>2, StepFacts
<1>1. UNCHANGED <<frame, context, todo, record, cursor>>
  BY DEF ParseDhcp, StartDhcp, DhcpOption
<1>2. ASSUME ReturnNothing PROVE pc' = "engine"
  BY <1>2 DEF ReturnNothing, Return
<1>3. CASE StartDhcp
  <2>1. offset' \in Nat /\ pc' \in {"engine", "dhcp.options"}
    BY <1>0, <1>2, <1>3 DEF StartDhcp, DhcpFixedHeaderLength
  <2>2. ReadsInside'
    <3>1. CASE v.size < 240
      BY <3>1, <1>3, NoRead DEF StartDhcp, DhcpFixedHeaderLength
    <3>2. CASE ~(v.size < 240)
      <4>1. reads' = ReadTo(v, 240)
        BY <3>2, <1>3 DEF StartDhcp, DhcpFixedHeaderLength
      <4> QED
        BY <4>1, <3>2, <1>0, <1>1, ReadOK
    <3> QED
      BY <3>1, <3>2
  <2> QED
    BY <1>0, <1>1, <2>1, <2>2, PluginStep DEF Decoding
<1>4. CASE DhcpOption
  <2>1. pc = "dhcp.options"
    BY <1>4 DEF DhcpOption
  <2>2. ASSUME FinishDhcp PROVE pc' = "engine"
    BY <2>2 DEF FinishDhcp, ReturnNothing, Return
  <2>3. offset' \in Nat /\ pc' \in {"engine", "dhcp.options"}
    BY <1>0, <1>2, <1>4, <2>1, <2>2 DEF DhcpOption, DhcpOptionValue, OptionEnd
  <2>4. CASE offset >= v.size
    BY <1>0, <1>1, <1>4, <2>3, <2>4, NoRead, PluginStep DEF DhcpOption, Decoding
  <2>5. CASE ~(offset >= v.size)
    <3>1. \/ reads' = ReadTo(v, offset + 1)
          \/ offset + 1 < v.size /\ reads' = ReadTo(v, offset + 2)
          \/ offset + 2 + length <= v.size /\ reads' = ReadTo(v, offset + 2 + length)
      BY <1>0, <1>4, <2>5 DEF DhcpOption, DhcpOptionValue, OptionEnd
    <3>2. ReadsInside'
      <4>1. CASE reads' = ReadTo(v, offset + 1)
        BY <4>1, <1>0, <1>1, <2>5, ReadOK
      <4>2. CASE offset + 1 < v.size /\ reads' = ReadTo(v, offset + 2)
        BY <4>2, <1>0, <1>1, ReadOK
      <4>3. CASE offset + 2 + length <= v.size /\ reads' = ReadTo(v, offset + 2 + length)
        BY <4>3, <1>0, <1>1, ReadOK
      <4> QED
        BY <3>1, <4>1, <4>2, <4>3
    <3> QED
      BY <1>0, <1>1, <2>3, <3>2, PluginStep DEF Decoding
  <2> QED
    BY <2>4, <2>5
<1> QED
  BY <1>3, <1>4 DEF ParseDhcp

LEMMA SsdpStep ==
  ASSUME IInv, ParseSsdp
  PROVE  IInv'
<1> DEFINE v == context.payload
<1>0. /\ v \in ViewType /\ Inside(v) /\ v.size \in Nat
      /\ offset \in Nat /\ cursor \in Nat
  BY StepFacts
<1>1. UNCHANGED <<frame, context, todo, record, offset>>
  BY DEF ParseSsdp, StartSsdp, SsdpLine, SsdpHeader
<1>2. CASE StartSsdp
  <2>1. cursor' = 0 /\ pc' = "ssdp.lines" /\ reads' = ReadTo(v, v.size)
    BY <1>2 DEF StartSsdp
  <2>2. ReadsInside'
    BY <1>0, <1>1, <2>1, ReadOK
  <2> QED
    BY <1>0, <1>1, <2>1, <2>2, PluginStep DEF Decoding
<1>3. CASE SsdpLine
  <2>1. cursor' \in Nat /\ pc' \in {"ssdp.line", "engine"} /\ reads' = {}
    BY <1>0, <1>3 DEF SsdpLine, Return
  <2> QED
    BY <1>0, <1>1, <2>1, NoRead, PluginStep DEF Decoding
<1>4. CASE SsdpHeader
  <2>1. cursor' = cursor /\ pc' = "ssdp.lines" /\ reads' = {}
    BY <1>4 DEF SsdpHeader
  <2> QED
    BY <1>0, <1>1, <2>1, NoRead, PluginStep DEF Decoding
<1> QED
  BY <1>2, <1>3, <1>4 DEF ParseSsdp

LEMMA EndpointStep ==
  ASSUME IInv, ParseArp \/ ParseIpv4Endpoint \/ ParseTcp
  PROVE  IInv'
<1> DEFINE v == context.body
<1>0. v \in ViewType /\ Inside(v) /\ v.size \in Nat /\ offset \in Nat /\ cursor \in Nat
  BY PayloadView, StepFacts DEF ViewType
<1>1. UNCHANGED <<frame, context, todo, record, offset, cursor>> /\ pc' = "engine"
  BY DEF ParseArp, ParseIpv4Endpoint, ParseTcp, registers, ReturnNothing, Return
<1>2. ReadsInside'
  <2>1. CASE v.size < 28 /\ ParseArp
    BY <2>1, NoRead DEF ParseArp
  <2>2. CASE ~(v.size < 28) /\ ParseArp
    <3>1. reads' = ReadTo(v, 28)
      BY <2>2 DEF ParseArp
    <3> QED
      BY <3>1, <2>2, <1>0, <1>1, ReadOK
  <2>3. CASE ParseIpv4Endpoint \/ ParseTcp
    BY <2>3, NoRead DEF ParseIpv4Endpoint, ParseTcp
  <2> QED
    BY <2>1, <2>2, <2>3
<1> QED
  BY <1>0, <1>1, <1>2, PluginStep DEF Decoding

-----------------------------------------------------------------------------
(* The decoders give each layer a view inside the one around it.           *)

\* A decoder leaves the plugins' registers alone and fills the context with
\* views inside the packet.
LEMMA DecoderStep ==
  ASSUME IInv, pc \in Decoding, UNCHANGED <<frame, todo, registers>>,
         context' \in ContextType, ViewsInside',
         pc' \notin {"dns", "netbios"}, ReadsInside'
  PROVE  IInv'
<1>1. UNCHANGED <<offset, cursor, record>>
  BY DEF registers
<1>2. ReadState'
  BY <1>1 DEF IInv, ReadState
<1>3. context'.payload.size \in Nat
  BY DEF ContextType, ViewType
<1>4. RecordInside'
  BY <1>1, <1>3 DEF IInv, RecordInside, Decoding
<1> QED
  BY <1>2, <1>4 DEF IInv, HeaderThere

LEMMA ContextFacts ==
  ASSUME IInv
  PROVE  /\ frame \in Seq(Byte) /\ context \in ContextType
         /\ \A w \in {context.body, context.segment} :
              /\ w \in ViewType /\ Inside(w) /\ w.size \in Nat
              /\ \A i \in Nat : At(w, i) \in Byte /\ UInt16(w, i) \in Nat
<1>1. frame \in Seq(Byte) /\ context \in ContextType
  BY DEF IInv, ReadState
<1>2. ASSUME NEW w \in {context.body, context.segment}
      PROVE  /\ w \in ViewType /\ Inside(w) /\ w.size \in Nat
             /\ \A i \in Nat : At(w, i) \in Byte /\ UInt16(w, i) \in Nat
  <2>1. w \in ViewType /\ Inside(w)
    BY PayloadView
  <2>2. \A i \in Nat : At(w, i) \in Byte /\ UInt16(w, i) \in Nat
    BY <1>1, <2>1, AtType, UInt16Type
  <2> QED
    BY <2>1, <2>2 DEF ViewType
<1> QED
  BY <1>1, <1>2

LEMMA EthernetStep ==
  ASSUME IInv, DecodeEthernetFrame
  PROVE  IInv'
<1>0. pc \in Decoding /\ UNCHANGED <<frame, todo, registers>> /\ pc' \in {"engine", "ipv4"}
  BY DEF DecodeEthernetFrame, Decoding
<1>1. frame \in Seq(Byte) /\ context \in ContextType /\ Len(frame) \in Nat
  BY ContextFacts
<1>2. CASE Len(frame) < 14
  <2>1. context' = context /\ reads' = {}
    BY <1>2 DEF DecodeEthernetFrame
  <2>2. ViewsInside'
    BY <1>0, <2>1 DEF IInv, ViewsInside, Inside
  <2> QED
    BY <1>0, <1>1, <2>1, <2>2, NoRead, DecoderStep
<1>3. CASE ~(Len(frame) < 14)
  <2> DEFINE mac == Slice(Whole, 6, 6)
             type == UInt16(Whole, 12)
             body == SubviewFrom(Whole, 14)
  <2>1. Whole \in ViewType /\ Inside(Whole) /\ Whole.size = Len(frame)
    BY <1>1 DEF Whole, View, ViewType, Inside
  <2>2. mac \in Seq(Byte) /\ type \in Nat
    BY <1>1, <2>1, SliceType, UInt16Type
  <2>3. body \in ViewType /\ Inside(body)
    BY <1>1, <2>1, SubviewInside
  <2> HIDE DEF mac, type, body
  <2>4. /\ context' = [context EXCEPT !.layers = {"ethernet"}, !.sourceMac = mac,
                          !.etherType = type, !.body = body]
        /\ reads' = ReadTo(Whole, 14)
    BY <1>3 DEF DecodeEthernetFrame, mac, type, body
  <2>5. context' \in ContextType
    BY <1>1, <2>2, <2>3, <2>4 DEF ContextType, Layers
  <2>6. ViewsInside'
    <3>1. /\ context'.body = body /\ context'.segment = context.segment
          /\ context'.payload = context.payload
      BY <1>1, <2>4 DEF ContextType
    <3> QED
      BY <1>0, <2>3, <3>1 DEF IInv, ViewsInside, Inside
  <2>7. ReadsInside'
    BY <1>0, <1>1, <1>3, <2>1, <2>4, ReadOK
  <2> QED
    BY <1>0, <2>5, <2>6, <2>7, DecoderStep
<1> QED
  BY <1>2, <1>3

LEMMA Ipv4Step ==
  ASSUME IInv, DecodeIpv4Packet
  PROVE  IInv'
<1> DEFINE v == context.body
           headerLength == (At(v, 0) % 16) * 4
           totalLength == UInt16(v, 2)
           address == Slice(v, 12, 4)
           ttl == At(v, 8)
           protocol == At(v, 9)
           fragmented == UInt16(v, 6) % 16384 # 0
           segment == Subview(v, headerLength, totalLength - headerLength)
<1>0. pc \in Decoding /\ UNCHANGED <<frame, todo, registers>> /\ pc' \in {"engine", "transport"}
  BY DEF DecodeIpv4Packet, Decoding
<1>1. /\ frame \in Seq(Byte) /\ context \in ContextType
      /\ v \in ViewType /\ Inside(v) /\ v.size \in Nat
      /\ \A i \in Nat : At(v, i) \in Byte /\ UInt16(v, i) \in Nat
  BY ContextFacts
<1>2. ReadsInside'
  <2>1. CASE v.size < 20
    BY <2>1, NoRead DEF DecodeIpv4Packet
  <2>2. CASE ~(v.size < 20)
    <3>1. reads' = ReadTo(v, 20)
      BY <2>2 DEF DecodeIpv4Packet
    <3>2. frame' = frame /\ v \in ViewType /\ Inside(v)
      BY <1>0, <1>1
    <3>3. v.size \in Nat /\ ~(v.size < 20)
      BY <1>1, <2>2
    <3> HIDE DEF v
    <3>4. 20 <= v.size
      BY <3>3
    <3> QED
      BY <3>1, <3>2, <3>4, ReadOK
  <2> QED
    BY <2>1, <2>2
<1>3. CASE context' = context
  <2>1. ViewsInside'
    BY <1>0, <1>3 DEF IInv, ViewsInside, Inside
  <2> QED
    BY <1>0, <1>1, <1>2, <1>3, <2>1, DecoderStep
<1>4. CASE context' # context
  <2>1. headerLength \in Nat /\ totalLength \in Nat /\ ttl \in Nat /\ protocol \in Nat
    <3>1. At(v, 0) \in Byte /\ ttl \in Byte /\ protocol \in Byte /\ totalLength \in Nat
      BY <1>1
    <3>2. \A b \in Byte : b \in Nat /\ (b % 16) * 4 \in Nat
      BY DEF Byte
    <3> QED
      BY <3>1, <3>2
  <2>2. totalLength >= headerLength
    BY <1>4 DEF DecodeIpv4Packet
  <2>3. totalLength - headerLength \in Nat
    BY <2>1, <2>2
  <2>4. segment \in ViewType /\ Inside(segment)
    BY <1>1, <2>1, <2>3, SubviewInside
  <2>5. address \in Seq(Byte)
    BY <1>1, SliceType
  <2>6. fragmented \in BOOLEAN
    OBVIOUS
  <2> HIDE DEF headerLength, totalLength, address, ttl, protocol, fragmented, segment
  <2>7. context' = [context EXCEPT !.layers = @ \cup {"ipv4"}, !.sourceIp = address, !.ttl = ttl,
                      !.protocol = protocol, !.fragmented = fragmented, !.segment = segment]
    BY <1>4 DEF DecodeIpv4Packet, headerLength, totalLength, address, ttl, protocol, fragmented, segment
  <2>8. context' \in ContextType
    BY <1>1, <2>1, <2>4, <2>5, <2>6, <2>7 DEF ContextType, Layers
  <2>9. ViewsInside'
    <3>1. /\ context'.body = v /\ context'.segment = segment
          /\ context'.payload = context.payload
      BY <1>1, <2>7 DEF ContextType
    <3> QED
      BY <1>0, <2>4, <3>1 DEF IInv, ViewsInside, Inside
  <2> QED
    BY <1>0, <1>2, <2>8, <2>9, DecoderStep
<1> QED
  BY <1>3, <1>4

LEMMA TransportStep ==
  ASSUME IInv, DecodeUdpDatagram \/ DecodeTcpSegment \/ NoTransport
  PROVE  IInv'
<1> DEFINE v == context.segment
<1>0. pc \in Decoding /\ UNCHANGED <<frame, todo, registers>> /\ pc' = "engine"
  BY DEF DecodeUdpDatagram, DecodeTcpSegment, NoTransport, Decoding
<1>1. /\ frame \in Seq(Byte) /\ context \in ContextType
      /\ v \in ViewType /\ Inside(v) /\ v.size \in Nat
      /\ \A i \in Nat : At(v, i) \in Byte /\ UInt16(v, i) \in Nat
  BY ContextFacts
<1>2. ReadsInside'
  <2>1. CASE DecodeUdpDatagram
    <3>1. reads' = ReadTo(v, 6) /\ 6 <= v.size
      BY <1>1, <2>1 DEF DecodeUdpDatagram
    <3> QED
      BY <3>1, <1>0, <1>1, ReadOK
  <2>2. CASE DecodeTcpSegment
    <3>1. reads' = ReadTo(v, 14) /\ 14 <= v.size
      BY <1>1, <2>2 DEF DecodeTcpSegment
    <3> QED
      BY <3>1, <1>0, <1>1, ReadOK
  <2>3. CASE NoTransport
    BY <2>3, NoRead DEF NoTransport
  <2> QED
    BY <2>1, <2>2, <2>3
<1>3. CASE context' = context
  <2>1. ViewsInside'
    BY <1>0, <1>3 DEF IInv, ViewsInside, Inside
  <2> QED
    BY <1>0, <1>1, <1>2, <1>3, <2>1, DecoderStep
<1> DEFINE source == UInt16(v, 0)
           destination == UInt16(v, 2)
<1>4. source \in Nat /\ destination \in Nat
  BY <1>1
<1>5. CASE context' # context /\ DecodeUdpDatagram
  <2> DEFINE length == UInt16(v, 4)
             payload == Subview(v, 8, length - 8)
  <2>1. length \in Nat /\ length >= 8
    BY <1>1, <1>5 DEF DecodeUdpDatagram
  <2>2. payload \in ViewType /\ Inside(payload)
    <3>1. length - 8 \in Nat
      BY <2>1
    <3> QED
      BY <1>1, <3>1, SubviewInside
  <2> HIDE DEF source, destination, length, payload
  <2>3. context' = [context EXCEPT !.layers = @ \cup {"udp"}, !.sourcePort = source,
                      !.destinationPort = destination, !.payload = payload]
    BY <1>5 DEF DecodeUdpDatagram, source, destination, length, payload
  <2>4. context' \in ContextType
    BY <1>1, <1>4, <2>2, <2>3 DEF ContextType, Layers
  <2>5. ViewsInside'
    <3>1. /\ context'.body = context.body /\ context'.segment = context.segment
          /\ context'.payload = payload
      BY <1>1, <2>3 DEF ContextType
    <3> QED
      BY <1>0, <2>2, <3>1 DEF IInv, ViewsInside, Inside
  <2> QED
    BY <1>0, <1>2, <2>4, <2>5, DecoderStep
<1>6. CASE context' # context /\ DecodeTcpSegment
  <2> DEFINE flags == {f[2] : f \in {g \in TcpFlags : (At(v, 13) \div g[1]) % 2 = 1}}
  <2>1. flags \in SUBSET {"fin", "syn", "rst", "ack"}
    BY DEF TcpFlags
  <2> HIDE DEF source, destination, flags
  <2>2. context' = [context EXCEPT !.layers = @ \cup {"tcp"}, !.sourcePort = source,
                      !.destinationPort = destination, !.flags = flags]
    BY <1>6 DEF DecodeTcpSegment, source, destination, flags
  <2>3. context' \in ContextType
    BY <1>1, <1>4, <2>1, <2>2 DEF ContextType, Layers
  <2>4. ViewsInside'
    <3>1. /\ context'.body = context.body /\ context'.segment = context.segment
          /\ context'.payload = context.payload
      BY <1>1, <2>2 DEF ContextType
    <3> QED
      BY <1>0, <3>1 DEF IInv, ViewsInside, Inside
  <2> QED
    BY <1>0, <1>2, <2>3, <2>4, DecoderStep
<1> QED
  BY <1>3, <1>5, <1>6 DEF NoTransport

LEMMA EngineStep ==
  ASSUME IInv, AskPlugin \/ Finish
  PROVE  IInv'
<1>0. UNCHANGED <<frame, context, offset, cursor, record>> /\ reads' = {}
  BY DEF AskPlugin, Finish, registers
<1>1. context.payload.size \in Nat /\ todo \in Seq(Plugins)
  BY StepFacts DEF IInv, ReadState
<1>2. CASE AskPlugin
  <2>1. todo # <<>> /\ todo' = Tail(todo) /\ pc' \in {Head(todo), "engine"}
        /\ (pc' = Head(todo) \/ pc' = "engine")
    BY <1>2 DEF AskPlugin
  <2>2. Head(todo) \in Plugins /\ todo' \in Seq(Plugins)
    BY <1>1, <2>1
  <2>3. pc' \notin Decoding
    BY <2>1, <2>2 DEF Plugins, Decoding
  <2>4. HeaderThere'
    <3>1. CASE pc' = "dns"
      <4>1. MatchDns
        BY <1>2, <2>2, <3>1 DEF AskPlugin, Match, Plugins
      <4> QED
        BY <4>1, <1>0 DEF MatchDns, DnsHeaderLength, HeaderThere
    <3>2. CASE pc' = "netbios"
      <4>1. MatchNetbios
        BY <1>2, <2>2, <3>2 DEF AskPlugin, Match, Plugins
      <4> QED
        BY <4>1, <1>0 DEF MatchNetbios, NbnsHeaderLength, HeaderThere
    <3> QED
      BY <3>1, <3>2 DEF HeaderThere
  <2>5. ReadState'
    BY <1>0, <2>2 DEF IInv, ReadState
  <2>6. ViewsInside' /\ RecordInside'
    BY <1>0, <2>3 DEF IInv, ViewsInside, Inside, RecordInside, Decoding
  <2> QED
    BY <1>0, <2>4, <2>5, <2>6, NoRead DEF IInv
<1>3. CASE Finish
  <2>1. UNCHANGED todo /\ pc' = "done" /\ offset \in Nat /\ cursor \in Nat
    BY <1>3, StepFacts DEF Finish
  <2> QED
    BY <1>0, <2>1, NoRead, PluginStep DEF Decoding
<1> QED
  BY <1>2, <1>3

-----------------------------------------------------------------------------

LEMMA NextIInv == IInv /\ [Next]_vars => IInv'
<1> SUFFICES ASSUME IInv, [Next]_vars PROVE IInv'
  OBVIOUS
<1>1. CASE BuildPacketContext
  BY <1>1, EthernetStep, Ipv4Step, TransportStep DEF BuildPacketContext
<1>2. CASE AskPlugin \/ Finish
  BY <1>2, EngineStep
<1>3. CASE ParseArp \/ ParseIpv4Endpoint \/ ParseTcp
  BY <1>3, EndpointStep
<1>4. CASE ParseDhcp
  BY <1>4, DhcpStep
<1>5. CASE ParseDns
  BY <1>5, DnsStep
<1>6. CASE ParseSsdp
  BY <1>6, SsdpStep
<1>7. CASE ParseNetbios
  BY <1>7, NetbiosStep
<1>8. CASE UNCHANGED vars
  BY <1>8 DEF vars, registers, IInv, ReadState, ViewsInside, Inside, RecordInside,
              HeaderThere, ReadsInside
<1> QED
  BY <1>1, <1>2, <1>3, <1>4, <1>5, <1>6, <1>7, <1>8 DEF Next

\* No packet, whatever its bytes, makes a decoder or a plugin read outside
\* the captured bytes or outside the part it was given (ByteView's unchecked
\* operator[], in every loop of src/src/packet).
THEOREM ParserReadsInside == Spec => []ReadsInside
<1>1. IInv => ReadsInside
  BY DEF IInv
<1> QED
  BY <1>1, InitIInv, NextIInv, PTL DEF Spec

-----------------------------------------------------------------------------
(* Every step leaves less to do.                                           *)

Loops == {"dns.next", "dns.name", "dns.named", "dns.record", "dns.txt", "netbios.next", "netbios.name",
          "netbios.scope", "netbios.named", "dhcp.options", "ssdp.lines", "ssdp.line"}

Naming == {"dns.name", "dns.named", "netbios.name", "netbios.scope", "netbios.named"}

\* While a name is read there is still an item that it belongs to.
Counting ==
  /\ questions \in Nat /\ records \in Nat /\ jumps \in Nat
  /\ pc \in Naming => /\ role = "query" => questions > 0
                      /\ role = "record" => records > 0

Shrinks == Less(WorkLeft', WorkLeft)

\* Which of the numbers falls.
LEMMA PluginsFall ==
  ASSUME PluginsLeft' < PluginsLeft
  PROVE  Shrinks
<1>1. WorkLeft'[1] < WorkLeft[1]
  BY DEF WorkLeft
<1>2. \A j \in 1 .. (1 - 1) : WorkLeft'[j] = WorkLeft[j]
  OBVIOUS
<1>3. 1 \in 1 .. 5
  OBVIOUS
<1> HIDE DEF WorkLeft
<1> QED
  BY <1>1, <1>2, <1>3 DEF Shrinks, Less

LEMMA ItemsFall ==
  ASSUME PluginsLeft' = PluginsLeft, questions' + records' < questions + records
  PROVE  Shrinks
<1>1. WorkLeft'[2] < WorkLeft[2] /\ WorkLeft'[1] = WorkLeft[1]
  BY DEF WorkLeft
<1>2. \A j \in 1 .. (2 - 1) : j = 1
  OBVIOUS
<1>3. 2 \in 1 .. 5
  OBVIOUS
<1> QED
  BY <1>1, <1>2, <1>3 DEF Shrinks, Less

LEMMA StagesFall ==
  ASSUME PluginsLeft' = PluginsLeft, questions' + records' = questions + records, StagesLeft' < StagesLeft
  PROVE  Shrinks
<1>1. WorkLeft'[3] < WorkLeft[3] /\ WorkLeft'[1] = WorkLeft[1] /\ WorkLeft'[2] = WorkLeft[2]
  BY DEF WorkLeft
<1>2. \A j \in 1 .. (3 - 1) : j = 1 \/ j = 2
  OBVIOUS
<1>3. 3 \in 1 .. 5
  OBVIOUS
<1> QED
  BY <1>1, <1>2, <1>3 DEF Shrinks, Less

LEMMA PointersFall ==
  ASSUME PluginsLeft' = PluginsLeft, questions' + records' = questions + records, StagesLeft' = StagesLeft,
         PointersLeft' < PointersLeft
  PROVE  Shrinks
<1>1. /\ WorkLeft'[4] < WorkLeft[4] /\ WorkLeft'[1] = WorkLeft[1] /\ WorkLeft'[2] = WorkLeft[2]
      /\ WorkLeft'[3] = WorkLeft[3]
  BY DEF WorkLeft
<1>2. \A j \in 1 .. (4 - 1) : j = 1 \/ j = 2 \/ j = 3
  OBVIOUS
<1>3. 4 \in 1 .. 5
  OBVIOUS
<1> QED
  BY <1>1, <1>2, <1>3 DEF Shrinks, Less

LEMMA BytesFall ==
  ASSUME PluginsLeft' = PluginsLeft, questions' + records' = questions + records, StagesLeft' = StagesLeft,
         PointersLeft' = PointersLeft, BytesLeft' < BytesLeft
  PROVE  Shrinks
<1>1. /\ WorkLeft'[5] < WorkLeft[5] /\ WorkLeft'[1] = WorkLeft[1] /\ WorkLeft'[2] = WorkLeft[2]
      /\ WorkLeft'[3] = WorkLeft[3] /\ WorkLeft'[4] = WorkLeft[4]
  BY DEF WorkLeft
<1>2. \A j \in 1 .. (5 - 1) : j = 1 \/ j = 2 \/ j = 3 \/ j = 4
  OBVIOUS
<1>3. 5 \in 1 .. 5
  OBVIOUS
<1> QED
  BY <1>1, <1>2, <1>3 DEF Shrinks, Less

\* The stages of a packet and of a plugin.
LEMMA PluginStages ==
  ASSUME IInv, todo' = todo
  PROVE  /\ pc \in Plugins /\ pc' \in Loops => PluginsLeft' < PluginsLeft
         /\ pc \in Plugins \cup Loops /\ pc' = "engine" => PluginsLeft' < PluginsLeft
         /\ pc \in Loops /\ pc' \in Loops => PluginsLeft' = PluginsLeft
         /\ pc = "engine" /\ pc' = "done" => PluginsLeft' < PluginsLeft
         /\ pc = "ethernet" /\ pc' \in {"ipv4", "engine"} => PluginsLeft' < PluginsLeft
         /\ pc = "ipv4" /\ pc' \in {"transport", "engine"} => PluginsLeft' < PluginsLeft
         /\ pc = "transport" /\ pc' = "engine" => PluginsLeft' < PluginsLeft
<1>1. Len(todo) \in Nat
  BY DEF IInv, ReadState
<1> QED
  BY <1>1 DEF PluginsLeft, Plugins, Loops

\* A step of a plugin that ends it.
LEMMA PluginEnds ==
  ASSUME IInv, Counting, todo' = todo, pc \in Plugins \cup Loops, pc' = "engine",
         UNCHANGED <<questions, records>>, jumps' \in Nat
  PROVE  Counting' /\ Shrinks
<1>1. PluginsLeft' < PluginsLeft
  BY PluginStages
<1>2. Counting'
  BY DEF Counting, Naming
<1> QED
  BY <1>1, <1>2, PluginsFall

\* The first step of a plugin.
LEMMA PluginStarts ==
  ASSUME IInv, todo' = todo, pc \in Plugins, pc' \in Loops \ Naming,
         questions' \in Nat, records' \in Nat, jumps' \in Nat
  PROVE  Counting' /\ Shrinks
<1>1. PluginsLeft' < PluginsLeft
  BY PluginStages
<1>2. Counting'
  BY DEF Counting
<1> QED
  BY <1>1, <1>2, PluginsFall

\* A step between the stages of an item.
LEMMA StageEnds ==
  ASSUME IInv, Counting, todo' = todo, pc \in Loops, pc' \in Loops, StagesLeft' < StagesLeft,
         UNCHANGED <<questions, records>>, jumps' \in Nat,
         pc' \in Naming => \/ pc \in Naming /\ role' = role
                           \/ /\ role' = "query" => questions > 0
                              /\ role' = "record" => records > 0
  PROVE  Counting' /\ Shrinks
<1>1. PluginsLeft' = PluginsLeft
  BY PluginStages
<1>2. Counting'
  BY DEF Counting
<1>3. questions' + records' = questions + records
  OBVIOUS
<1> QED
  BY <1>1, <1>2, <1>3, StagesFall

LEMMA NameShrinks ==
  ASSUME IInv, Counting, ReadDnsName
  PROVE  Counting' /\ Shrinks
<1> DEFINE v == context.payload
           length == At(v, cursor)
<1>0. /\ v.size \in Nat /\ cursor \in Nat /\ length \in Nat /\ jumps \in Nat /\ MaxJumps \in Nat
  BY StepFacts, MaxJumpsAssumption DEF Counting
<1>1. UNCHANGED <<context, todo, questions, records, role>> /\ pc = "dns.name" /\ pc \in Loops /\ pc \in Naming
  BY DEF ReadDnsName, Loops, Naming
<1>2. ASSUME NameMissing PROVE Counting' /\ Shrinks
  <2>1. jumps' \in Nat
    BY <1>0, <1>2 DEF NameMissing
  <2>2. CASE role \in {"query", "record"}
    <3>1. pc' = "engine"
      BY <1>2, <2>2 DEF NameMissing, ReturnNothing, Return
    <3> QED
      BY <1>1, <2>1, <3>1, PluginEnds
  <2>3. CASE role \notin {"query", "record"}
    <3>1. pc' = "dns.next" /\ pc' \in Loops /\ pc' \notin Naming
      BY <1>2, <2>3 DEF NameMissing, Loops, Naming
    <3>2. StagesLeft' < StagesLeft
      BY <1>1, <2>3, <3>1 DEF StagesLeft, OwnName
    <3> QED
      BY <1>1, <2>1, <3>1, <3>2, StageEnds
  <2> QED
    BY <2>2, <2>3
<1>3. CASE cursor >= v.size /\ EndOfPayload
  BY <1>2, <1>3 DEF EndOfPayload
<1>4. CASE cursor < v.size /\ EndOfName(v)
  <2>1. pc' = "dns.named" /\ jumps' = jumps /\ pc' \in Loops
    BY <1>4 DEF EndOfName, Loops
  <2>2. StagesLeft' < StagesLeft
    BY <1>1, <2>1 DEF StagesLeft, OwnName
  <2> QED
    BY <1>0, <1>1, <2>1, <2>2, StageEnds
<1>5. ASSUME pc' = "dns.name", jumps' \in Nat
      PROVE  /\ Counting' /\ PluginsLeft' = PluginsLeft /\ questions' + records' = questions + records
             /\ StagesLeft' = StagesLeft
  <2>1. PluginsLeft' = PluginsLeft
    BY <1>1, <1>5, PluginStages DEF Loops
  <2>2. Counting'
    BY <1>1, <1>5 DEF Counting
  <2>3. StagesLeft' = StagesLeft
    BY <1>1, <1>5 DEF StagesLeft, OwnName
  <2> QED
    BY <1>1, <2>1, <2>2, <2>3
<1>6. CASE cursor < v.size /\ JumpInName(v) /\ ~NameMissing
  <2>1. jumps < MaxJumps /\ jumps' = jumps + 1 /\ pc' = pc
    BY <1>0, <1>6 DEF JumpInName, CountPointer
  <2>2. PointersLeft' < PointersLeft
    BY <1>0, <1>1, <2>1 DEF PointersLeft, Rest
  <2> QED
    BY <1>0, <1>1, <1>5, <2>1, <2>2, PointersFall
<1>7. CASE cursor < v.size /\ LabelOfName(v, length) /\ ~NameMissing
  <2>1. cursor' = cursor + 1 + length /\ jumps' = jumps /\ pc' = pc
    BY <1>7 DEF LabelOfName
  <2>2. PointersLeft' = PointersLeft
    BY <1>1, <2>1 DEF PointersLeft
  <2>3. BytesLeft' < BytesLeft
    BY <1>0, <1>1, <1>7, <2>1 DEF BytesLeft, Rest
  <2> QED
    BY <1>0, <1>1, <1>5, <2>1, <2>2, <2>3, BytesFall
<1> QED
  BY <1>0, <1>2, <1>3, <1>4, <1>6, <1>7 DEF ReadDnsName

LEMMA DnsShrinks ==
  ASSUME IInv, Counting, ParseDns
  PROVE  Counting' /\ Shrinks
<1> DEFINE v == context.payload
<1>0. /\ v.size \in Nat /\ offset \in Nat /\ cursor \in Nat /\ record.at \in Nat /\ record.length \in Nat
      /\ \A i \in Nat : At(v, i) \in Nat /\ UInt16(v, i) \in Nat
      /\ questions \in Nat /\ records \in Nat /\ jumps \in Nat
  BY StepFacts DEF Counting
<1>1. CASE StartDns
  <2>1. pc = "dns" /\ pc' = "dns.next" /\ UNCHANGED <<todo, jumps>>
    BY <1>1 DEF StartDns
  <2>2. questions' \in Nat /\ records' \in Nat
    <3>1. questions' = UInt16(v, 4) /\ records' = UInt16(v, 6) + UInt16(v, 8) + UInt16(v, 10)
      BY <1>1 DEF StartDns
    <3> QED
      BY <1>0, <3>1
  <2>3. pc \in Plugins /\ pc' \in Loops \ Naming
    BY <2>1 DEF Plugins, Loops, Naming
  <2> QED
    BY <1>0, <2>1, <2>2, <2>3, PluginStarts
<1>2. CASE NextDnsItem
  <2>1. UNCHANGED <<todo, questions, records>> /\ pc = "dns.next" /\ pc \in Loops
    BY <1>2 DEF NextDnsItem, Loops
  <2>2. CASE questions > 0 \/ records > 0
    <3>1. /\ pc' = "dns.name" /\ jumps' = 0
          /\ \/ role' = "query" /\ questions > 0
             \/ role' = "record" /\ records > 0
      BY <1>0, <1>2, <2>2 DEF NextDnsItem, BeginName
    <3>2. StagesLeft' < StagesLeft
      BY <2>1, <3>1 DEF StagesLeft, OwnName
    <3> QED
      BY <2>1, <3>1, <3>2, StageEnds DEF Loops
  <2>3. CASE ~(questions > 0 \/ records > 0)
    <3>1. pc' = "engine" /\ jumps' = jumps
      BY <1>0, <1>2, <2>3 DEF NextDnsItem, Return
    <3> QED
      BY <1>0, <2>1, <3>1, PluginEnds
  <2> QED
    BY <2>2, <2>3
<1>3. CASE ReadDnsName
  BY <1>3, NameShrinks
<1>4. CASE QuestionRead
  <2>1. UNCHANGED <<todo, jumps, role, records>> /\ pc = "dns.named" /\ pc \in Loops /\ questions > 0
    BY <1>4 DEF QuestionRead, Loops, Counting, Naming
  <2>2. CASE pc' = "engine" /\ questions' = questions
    BY <1>0, <2>1, <2>2, PluginEnds
  <2>3. CASE pc' = "dns.next" /\ questions' = questions - 1
    <3>1. Counting'
      BY <1>0, <2>1, <2>3 DEF Counting, Naming
    <3>2. PluginsLeft' = PluginsLeft
      BY <2>1, <2>3, PluginStages DEF Loops
    <3>3. questions' + records' < questions + records
      BY <1>0, <2>1, <2>3
    <3> QED
      BY <3>1, <3>2, <3>3, ItemsFall
  <2> QED
    BY <1>4, <2>2, <2>3 DEF QuestionRead, ReturnNothing, Return
<1>5. CASE RecordRead
  <2>1. UNCHANGED <<todo, jumps, role, questions>> /\ pc = "dns.named" /\ pc \in Loops /\ records > 0
    BY <1>5 DEF RecordRead, Loops, Counting, Naming
  <2>2. CASE pc' = "engine" /\ records' = records
    BY <1>0, <2>1, <2>2, PluginEnds
  <2>3. CASE pc' = "dns.record" /\ records' = records - 1
    <3>1. Counting'
      BY <1>0, <2>1, <2>3 DEF Counting, Naming
    <3>2. PluginsLeft' = PluginsLeft
      BY <2>1, <2>3, PluginStages DEF Loops
    <3>3. questions' + records' < questions + records
      BY <1>0, <2>1, <2>3
    <3> QED
      BY <3>1, <3>2, <3>3, ItemsFall
  <2> QED
    BY <1>5, <2>2, <2>3 DEF RecordRead, ReturnNothing, Return
<1>6. CASE RecordData
  <2>1. UNCHANGED <<todo, questions, records>> /\ pc = "dns.record" /\ pc \in Loops
    BY <1>6 DEF RecordData, Loops
  <2>2. \/ pc' = "dns.name" /\ role' \in {"ptr", "srv"} /\ jumps' = 0
        \/ pc' = "dns.txt" /\ jumps' = jumps
        \/ pc' = "dns.next" /\ jumps' = jumps
    BY <1>6 DEF RecordData, BeginName
  <2>3. StagesLeft' < StagesLeft
    BY <2>1, <2>2 DEF StagesLeft, OwnName
  <2> QED
    BY <1>0, <2>1, <2>2, <2>3, StageEnds DEF Loops, Naming
<1>7. CASE InnerNameRead
  <2>1. /\ UNCHANGED <<todo, questions, records, jumps, role>> /\ pc = "dns.named" /\ pc \in Loops
        /\ role \in {"ptr", "srv"} /\ pc' = "dns.next"
    BY <1>7 DEF InnerNameRead, registers, Loops
  <2>2. StagesLeft' < StagesLeft
    BY <2>1 DEF StagesLeft, OwnName
  <2> QED
    BY <1>0, <2>1, <2>2, StageEnds DEF Loops, Naming
<1>8. CASE TextRecord
  <2> DEFINE length == At(v, cursor)
             end == record.at + record.length
  <2>1. UNCHANGED <<context, todo, questions, records, record, jumps, role>> /\ pc = "dns.txt" /\ pc \in Loops
    BY <1>8 DEF TextRecord, Loops
  <2>2. \/ pc' = "dns.next"
        \/ pc' = pc /\ cursor < end /\ cursor' = cursor + 1 + length
    BY <1>0, <1>8 DEF TextRecord
  <2>3. CASE pc' = "dns.next"
    <3>1. StagesLeft' < StagesLeft
      BY <2>1, <2>3 DEF StagesLeft, OwnName
    <3> QED
      BY <1>0, <2>1, <2>3, <3>1, StageEnds DEF Loops, Naming
  <2>4. CASE pc' = pc /\ cursor < end /\ cursor' = cursor + 1 + length
    <3>1. Counting' /\ questions' + records' = questions + records
      BY <2>1, <2>4 DEF Counting
    <3>2. PluginsLeft' = PluginsLeft
      BY <2>1, <2>4, PluginStages
    <3>3. StagesLeft' = StagesLeft /\ PointersLeft' = PointersLeft
      BY <2>1, <2>4 DEF StagesLeft, OwnName, PointersLeft
    <3>4. length \in Nat /\ end \in Nat
      BY <1>0
    <3>5. BytesLeft = Rest(cursor, end) /\ BytesLeft' = Rest(cursor', end)
      BY <2>1, <2>4 DEF BytesLeft
    <3>6. BytesLeft' < BytesLeft
      BY <1>0, <2>4, <3>4, <3>5 DEF Rest
    <3> QED
      BY <3>1, <3>2, <3>3, <3>6, BytesFall
  <2> QED
    BY <2>2, <2>3, <2>4
<1> QED
  BY <1>1, <1>2, <1>3, <1>4, <1>5, <1>6, <1>7, <1>8 DEF ParseDns

LEMMA NetbiosShrinks ==
  ASSUME IInv, Counting, ParseNetbios
  PROVE  Counting' /\ Shrinks
<1> DEFINE v == context.payload
           length == At(v, cursor)
<1>0. /\ v.size \in Nat /\ offset \in Nat /\ cursor \in Nat /\ length \in Nat
      /\ \A i \in Nat : At(v, i) \in Nat /\ UInt16(v, i) \in Nat
      /\ questions \in Nat /\ records \in Nat /\ jumps \in Nat /\ MaxDepth \in Nat
  BY StepFacts, MaxDepthAssumption DEF Counting
<1>1. CASE StartNetbios
  <2>1. pc = "netbios" /\ pc' = "netbios.next" /\ UNCHANGED <<todo, jumps>>
    BY <1>1 DEF StartNetbios
  <2>2. questions' \in Nat /\ records' \in Nat
    <3>1. questions' = UInt16(v, 4) /\ records' = UInt16(v, 6) + UInt16(v, 8) + UInt16(v, 10)
      BY <1>1 DEF StartNetbios
    <3> QED
      BY <1>0, <3>1
  <2>3. pc \in Plugins /\ pc' \in Loops \ Naming
    BY <2>1 DEF Plugins, Loops, Naming
  <2> QED
    BY <1>0, <2>1, <2>2, <2>3, PluginStarts
<1>2. CASE NextNetbiosItem
  <2>1. UNCHANGED <<todo, questions, records>> /\ pc = "netbios.next" /\ pc \in Loops
    BY <1>2 DEF NextNetbiosItem, Loops
  <2>2. CASE questions + records # 0
    <3>0. /\ pc' = "netbios.name" /\ jumps' = 0
          /\ role' = IF questions > 0 THEN "query" ELSE "record"
      BY <1>2, <2>2 DEF NextNetbiosItem
    <3>1. /\ pc' = "netbios.name" /\ jumps' = 0
          /\ \/ role' = "query" /\ questions > 0
             \/ role' = "record" /\ records > 0
      BY <1>0, <2>2, <3>0
    <3>2. StagesLeft' < StagesLeft
      BY <2>1, <3>1 DEF StagesLeft
    <3> QED
      BY <2>1, <3>1, <3>2, StageEnds DEF Loops
  <2>3. CASE questions + records = 0
    <3>1. pc' = "engine" /\ jumps' = jumps
      BY <1>2, <2>3 DEF NextNetbiosItem, Return
    <3> QED
      BY <1>0, <2>1, <3>1, PluginEnds
  <2> QED
    BY <2>2, <2>3
<1>3. CASE ReadNetbiosName
  <2>1. /\ UNCHANGED <<context, todo, questions, records, role>>
        /\ pc = "netbios.name" /\ pc \in Loops /\ pc \in Naming
    BY <1>3 DEF ReadNetbiosName, Loops, Naming
  <2>2. \/ pc' = "engine" /\ jumps' = jumps
        \/ pc' = "netbios.named" /\ jumps' = jumps
        \/ pc' = "netbios.scope" /\ jumps' = jumps
        \/ pc' = pc /\ jumps <= MaxDepth /\ jumps' = jumps + 1
    BY <1>0, <1>3, <2>1 DEF ReadNetbiosName, GiveUp, ReturnNothing, Return, RootName, PointedName, EncodedName
  <2>3. CASE pc' = "engine" /\ jumps' = jumps
    BY <1>0, <2>1, <2>3, PluginEnds
  <2>4. CASE pc' \in {"netbios.named", "netbios.scope"} /\ jumps' = jumps
    <3>1. StagesLeft' < StagesLeft
      BY <2>1, <2>4 DEF StagesLeft
    <3> QED
      BY <1>0, <2>1, <2>4, <3>1, StageEnds DEF Loops
  <2>5. CASE pc' = pc /\ jumps <= MaxDepth /\ jumps' = jumps + 1
    <3>1. Counting' /\ questions' + records' = questions + records
      BY <1>0, <2>1, <2>5 DEF Counting
    <3>2. PluginsLeft' = PluginsLeft
      BY <2>1, <2>5, PluginStages
    <3>3. StagesLeft' = StagesLeft
      BY <2>1, <2>5 DEF StagesLeft
    <3>4. PointersLeft' < PointersLeft
      BY <1>0, <2>1, <2>5 DEF PointersLeft, Rest
    <3> QED
      BY <3>1, <3>2, <3>3, <3>4, PointersFall
  <2> QED
    BY <2>2, <2>3, <2>4, <2>5
<1>4. CASE ReadNetbiosScope
  <2>1. /\ UNCHANGED <<context, todo, questions, records, role, jumps>>
        /\ pc = "netbios.scope" /\ pc \in Loops /\ pc \in Naming
    BY <1>4 DEF ReadNetbiosScope, Loops, Naming
  <2>2. \/ pc' = "engine"
        \/ pc' = "netbios.named"
        \/ pc' = pc /\ cursor < v.size /\ cursor' = cursor + 1 + length
    BY <1>0, <1>4, <2>1 DEF ReadNetbiosScope, ScopeWalked, ReturnNothing, Return
  <2>3. CASE pc' = "engine"
    BY <1>0, <2>1, <2>3, PluginEnds
  <2>4. CASE pc' = "netbios.named"
    <3>1. StagesLeft' < StagesLeft
      BY <2>1, <2>4 DEF StagesLeft
    <3> QED
      BY <1>0, <2>1, <2>4, <3>1, StageEnds DEF Loops
  <2>5. CASE pc' = pc /\ cursor < v.size /\ cursor' = cursor + 1 + length
    <3>1. Counting' /\ questions' + records' = questions + records
      BY <2>1, <2>5 DEF Counting
    <3>2. PluginsLeft' = PluginsLeft
      BY <2>1, <2>5, PluginStages
    <3>3. StagesLeft' = StagesLeft /\ PointersLeft' = PointersLeft
      BY <2>1, <2>5 DEF StagesLeft, PointersLeft
    <3>4. BytesLeft' < BytesLeft
      BY <1>0, <2>1, <2>5 DEF BytesLeft, Rest
    <3> QED
      BY <3>1, <3>2, <3>3, <3>4, BytesFall
  <2> QED
    BY <2>2, <2>3, <2>4, <2>5
<1>5. CASE QuestionDone
  <2>1. UNCHANGED <<todo, jumps, role, records>> /\ pc = "netbios.named" /\ pc \in Loops /\ questions > 0
    BY <1>5 DEF QuestionDone, Loops, Counting, Naming
  <2>2. CASE pc' = "engine" /\ questions' = questions
    BY <1>0, <2>1, <2>2, PluginEnds
  <2>3. CASE pc' = "netbios.next" /\ questions' = questions - 1
    <3>1. Counting'
      BY <1>0, <2>1, <2>3 DEF Counting, Naming
    <3>2. PluginsLeft' = PluginsLeft
      BY <2>1, <2>3, PluginStages DEF Loops
    <3>3. questions' + records' < questions + records
      BY <1>0, <2>1, <2>3
    <3> QED
      BY <3>1, <3>2, <3>3, ItemsFall
  <2> QED
    BY <1>5, <2>2, <2>3 DEF QuestionDone, ReturnNothing, Return
<1>6. CASE RecordDone
  <2>1. UNCHANGED <<todo, jumps, role, questions>> /\ pc = "netbios.named" /\ pc \in Loops /\ records > 0
    BY <1>6 DEF RecordDone, Loops, Counting, Naming
  <2>2. CASE pc' = "engine" /\ records' = records
    BY <1>0, <2>1, <2>2, PluginEnds
  <2>3. CASE pc' = "netbios.next" /\ records' = records - 1
    <3>1. Counting'
      BY <1>0, <2>1, <2>3 DEF Counting, Naming
    <3>2. PluginsLeft' = PluginsLeft
      BY <2>1, <2>3, PluginStages DEF Loops
    <3>3. questions' + records' < questions + records
      BY <1>0, <2>1, <2>3
    <3> QED
      BY <3>1, <3>2, <3>3, ItemsFall
  <2> QED
    BY <1>6, <2>2, <2>3 DEF RecordDone, ReturnNothing, Return
<1> QED
  BY <1>1, <1>2, <1>3, <1>4, <1>5, <1>6 DEF ParseNetbios

\* A step of a loop that reads bytes.
LEMMA LoopGoesOn ==
  ASSUME IInv, Counting, UNCHANGED <<todo, questions, records, jumps>>,
         pc \in {"dhcp.options", "ssdp.lines", "ssdp.line"}, pc' \in {"dhcp.options", "ssdp.lines", "ssdp.line"},
         BytesLeft' < BytesLeft
  PROVE  Counting' /\ Shrinks
<1>1. Counting' /\ questions' + records' = questions + records
  BY DEF Counting, Naming
<1>2. PluginsLeft' = PluginsLeft
  BY PluginStages DEF Loops
<1>3. StagesLeft' = StagesLeft /\ PointersLeft' = PointersLeft
  BY DEF StagesLeft, PointersLeft
<1> QED
  BY <1>1, <1>2, <1>3, BytesFall

LEMMA DhcpShrinks ==
  ASSUME IInv, Counting, ParseDhcp
  PROVE  Counting' /\ Shrinks
<1> DEFINE v == context.payload
<1>0. /\ v.size \in Nat /\ offset \in Nat /\ \A i \in Nat : At(v, i) \in Nat
      /\ questions \in Nat /\ records \in Nat /\ jumps \in Nat
  BY StepFacts DEF Counting
<1>1. CASE StartDhcp
  <2>1. UNCHANGED <<todo, questions, records, jumps>> /\ pc = "dhcp" /\ pc' \in {"engine", "dhcp.options"}
    BY <1>1 DEF StartDhcp, ReturnNothing, Return
  <2>2. pc \in Plugins /\ (pc' = "dhcp.options" => pc' \in Loops \ Naming)
    BY <2>1 DEF Plugins, Loops, Naming
  <2> QED
    BY <1>0, <2>1, <2>2, PluginEnds, PluginStarts
<1>2. CASE DhcpOption
  <2>1. UNCHANGED <<context, todo, questions, records, jumps>> /\ pc = "dhcp.options" /\ pc \in Loops
    BY <1>2 DEF DhcpOption, Loops
  <2>2. At(v, offset + 1) \in Nat
    BY <1>0
  <2>3. \/ pc' = "engine"
        \/ pc' = pc /\ offset < v.size /\ offset' = offset + 1
        \/ pc' = pc /\ offset < v.size /\ offset' = offset + 2 + At(v, offset + 1)
    <3>1. FinishDhcp \/ ReturnNothing => pc' = "engine"
      BY DEF FinishDhcp, ReturnNothing, Return
    <3>2. ASSUME DhcpOptionValue(v, At(v, offset))
          PROVE  \/ pc' = "engine"
                 \/ pc' = pc /\ offset' = offset + 2 + At(v, offset + 1)
      BY <3>1, <3>2 DEF DhcpOptionValue, OptionEnd
    <3>3. \/ FinishDhcp
          \/ offset < v.size /\ offset' = offset + 1 /\ pc' = pc
          \/ offset < v.size /\ DhcpOptionValue(v, At(v, offset))
      BY <1>0, <1>2 DEF DhcpOption
    <3> QED
      BY <3>1, <3>2, <3>3
  <2>4. CASE pc' = "engine"
    BY <1>0, <2>1, <2>4, PluginEnds
  <2>5. CASE pc' = pc /\ offset < v.size /\ offset' \in Nat /\ offset' > offset
    <3>1. BytesLeft' < BytesLeft
      BY <1>0, <2>1, <2>5 DEF BytesLeft, Rest
    <3> QED
      BY <2>1, <2>5, <3>1, LoopGoesOn
  <2> QED
    BY <1>0, <2>2, <2>3, <2>4, <2>5
<1> QED
  BY <1>1, <1>2 DEF ParseDhcp

LEMMA SsdpShrinks ==
  ASSUME IInv, Counting, ParseSsdp
  PROVE  Counting' /\ Shrinks
<1> DEFINE v == context.payload
<1>0. /\ v.size \in Nat /\ cursor \in Nat
      /\ questions \in Nat /\ records \in Nat /\ jumps \in Nat
  BY StepFacts DEF Counting
<1>1. CASE StartSsdp
  <2>1. UNCHANGED <<todo, questions, records, jumps>> /\ pc = "ssdp" /\ pc' = "ssdp.lines"
    BY <1>1 DEF StartSsdp
  <2>2. pc \in Plugins /\ pc' \in Loops \ Naming
    BY <2>1 DEF Plugins, Loops, Naming
  <2> QED
    BY <1>0, <2>1, <2>2, PluginStarts
<1>2. CASE SsdpLine
  <2>1. UNCHANGED <<context, todo, questions, records, jumps>> /\ pc = "ssdp.lines" /\ pc \in Loops
    BY <1>2 DEF SsdpLine, Loops
  <2>2. CASE cursor >= v.size
    <3>1. pc' = "engine"
      BY <1>2, <2>2 DEF SsdpLine, Return
    <3> QED
      BY <1>0, <2>1, <3>1, PluginEnds
  <2>3. CASE ~(cursor >= v.size)
    <3>1. pc' = "ssdp.line" /\ \E end \in cursor .. v.size : cursor' = end + 1
      BY <1>2, <2>3 DEF SsdpLine
    <3>2. PICK end \in cursor .. v.size : cursor' = end + 1
      BY <3>1
    <3>3. end \in Nat /\ cursor <= end /\ end <= v.size
      BY <1>0, <3>2
    <3>4. BytesLeft' = 2 * Rest(end + 1, v.size + 1) + 1 /\ BytesLeft = 2 * Rest(cursor, v.size + 1)
      BY <2>1, <3>1, <3>2 DEF BytesLeft
    <3>5. BytesLeft' < BytesLeft
      BY <1>0, <2>3, <3>3, <3>4 DEF Rest
    <3> QED
      BY <2>1, <3>1, <3>5, LoopGoesOn
  <2> QED
    BY <2>2, <2>3
<1>3. CASE SsdpHeader
  <2>1. /\ UNCHANGED <<context, todo, questions, records, jumps, cursor>>
        /\ pc = "ssdp.line" /\ pc' = "ssdp.lines"
    BY <1>3 DEF SsdpHeader
  <2>2. BytesLeft' < BytesLeft
    BY <1>0, <2>1 DEF BytesLeft, Rest
  <2> QED
    BY <2>1, <2>2, LoopGoesOn
<1> QED
  BY <1>1, <1>2, <1>3 DEF ParseSsdp

LEMMA EndpointShrinks ==
  ASSUME IInv, Counting, ParseArp \/ ParseIpv4Endpoint \/ ParseTcp
  PROVE  Counting' /\ Shrinks
<1>1. pc \in Plugins /\ pc' = "engine" /\ UNCHANGED <<todo, questions, records, jumps>>
  BY DEF ParseArp, ParseIpv4Endpoint, ParseTcp, ReturnNothing, Return, registers, Plugins
<1>2. jumps \in Nat
  BY DEF Counting
<1> QED
  BY <1>1, <1>2, PluginEnds

LEMMA DecoderShrinks ==
  ASSUME IInv, Counting, BuildPacketContext
  PROVE  Counting' /\ Shrinks
<1>1. /\ UNCHANGED <<todo, questions, records, jumps>>
      /\ \/ pc = "ethernet" /\ pc' \in {"ipv4", "engine"}
         \/ pc = "ipv4" /\ pc' \in {"transport", "engine"}
         \/ pc = "transport" /\ pc' = "engine"
  <2>1. CASE DecodeEthernetFrame
    BY <2>1 DEF DecodeEthernetFrame, registers
  <2>2. CASE DecodeIpv4Packet
    BY <2>2 DEF DecodeIpv4Packet, registers
  <2>3. CASE DecodeUdpDatagram
    BY <2>3 DEF DecodeUdpDatagram, registers
  <2>4. CASE DecodeTcpSegment
    BY <2>4 DEF DecodeTcpSegment, registers
  <2>5. CASE NoTransport
    BY <2>5 DEF NoTransport, registers
  <2> QED
    BY <2>1, <2>2, <2>3, <2>4, <2>5 DEF BuildPacketContext
<1>2. PluginsLeft' < PluginsLeft
  BY <1>1, PluginStages
<1>3. Counting'
  BY <1>1 DEF Counting, Naming
<1> QED
  BY <1>2, <1>3, PluginsFall

LEMMA EngineShrinks ==
  ASSUME IInv, Counting, AskPlugin \/ Finish
  PROVE  Counting' /\ Shrinks
<1>1. CASE AskPlugin
  <2>1. /\ todo \in Seq(Plugins) /\ todo # <<>> /\ todo' = Tail(todo) /\ pc = "engine"
        /\ pc' \in {Head(todo), "engine"} /\ UNCHANGED <<questions, records, jumps>>
    BY <1>1 DEF AskPlugin, registers, IInv, ReadState
  <2>2. Len(todo) \in Nat /\ Len(todo') = Len(todo) - 1 /\ Head(todo) \in Plugins
    BY <2>1
  <2>3. pc' \in Plugins \/ pc' = "engine"
    BY <2>1, <2>2
  <2>4. PluginsLeft = 3 * Len(todo) + 1
    BY <2>1 DEF PluginsLeft
  <2>5. PluginsLeft' = 3 * Len(todo') + 3 \/ PluginsLeft' = 3 * Len(todo') + 1
    BY <2>3 DEF PluginsLeft, Plugins
  <2>6. PluginsLeft' < PluginsLeft
    BY <2>2, <2>4, <2>5
  <2>7. Counting'
    BY <2>1, <2>3 DEF Counting, Naming, Plugins
  <2> QED
    BY <2>6, <2>7, PluginsFall
<1>2. CASE Finish
  <2>1. pc = "engine" /\ pc' = "done" /\ UNCHANGED <<todo, questions, records, jumps>>
    BY <1>2 DEF Finish, registers
  <2>2. PluginsLeft' < PluginsLeft
    BY <2>1, PluginStages
  <2>3. Counting'
    BY <2>1 DEF Counting, Naming
  <2> QED
    BY <2>2, <2>3, PluginsFall
<1> QED
  BY <1>1, <1>2

LEMMA StepShrinks == IInv /\ Counting /\ Next => Counting' /\ Shrinks
  BY DecoderShrinks, EngineShrinks, EndpointShrinks, DhcpShrinks, DnsShrinks, SsdpShrinks, NetbiosShrinks
     DEF Next

LEMMA CountingKept == IInv /\ Counting /\ [Next]_vars => Counting'
<1> SUFFICES ASSUME IInv, Counting, [Next]_vars PROVE Counting'
  OBVIOUS
<1>1. CASE UNCHANGED vars
  BY <1>1 DEF vars, registers, Counting
<1> QED
  BY <1>1, StepShrinks

LEMMA InitCounting == Init => Counting
  BY DEF Init, Counting, Naming

\* Whatever the packet holds, no step goes round a loop of a decoder or a
\* plugin without using up a byte, a pointer, a stage, an item or a plugin
\* (WorkShrinks; readDnsName, readNetbiosName and every loop of src/src/packet).
THEOREM EveryStepShrinksTheWork == Spec => WorkShrinks
<1>1. IInv /\ Counting /\ [Next]_vars => [Less(WorkLeft', WorkLeft)]_vars
  BY StepShrinks DEF Shrinks
<1> QED
  BY <1>1, InitIInv, NextIInv, InitCounting, CountingKept, PTL DEF Spec, WorkShrinks

\* What is left is a tuple of five numbers.
LEMMA WorkCounted == IInv /\ Counting => WorkLeft \in [1 .. 5 -> Nat]
<1> SUFFICES ASSUME IInv, Counting PROVE WorkLeft \in [1 .. 5 -> Nat]
  OBVIOUS
<1>1. \A a, b \in Nat : Rest(a, b) \in Nat
  BY DEF Rest
<1>2. PluginsLeft \in Nat
  <2>1. Len(todo) \in Nat
    BY DEF IInv, ReadState
  <2> QED
    BY <2>1 DEF PluginsLeft
<1>3. questions + records \in Nat
  BY DEF Counting
<1>4. StagesLeft \in Nat
  BY DEF StagesLeft
<1>5. PointersLeft \in Nat
  <2>1. jumps \in Nat /\ MaxJumps \in Nat /\ MaxDepth + 1 \in Nat
    BY MaxJumpsAssumption, MaxDepthAssumption DEF Counting
  <2> QED
    BY <1>1, <2>1 DEF PointersLeft
<1>6. BytesLeft \in Nat
  <2>0. /\ context.payload.size \in Nat /\ offset \in Nat /\ cursor \in Nat
        /\ record.at \in Nat /\ record.length \in Nat
    BY StepFacts
  <2>1. /\ context.payload.size \in Nat /\ context.payload.size + 1 \in Nat /\ offset \in Nat /\ cursor \in Nat
        /\ record.at + record.length \in Nat
    BY <2>0
  <2>2. /\ Rest(cursor, context.payload.size) \in Nat /\ Rest(offset, context.payload.size) \in Nat
        /\ Rest(cursor, context.payload.size + 1) \in Nat /\ Rest(cursor, record.at + record.length) \in Nat
    BY <1>1, <2>1
  <2> HIDE DEF Rest
  <2> QED
    BY <2>2 DEF BytesLeft
<1> QED
  BY <1>2, <1>3, <1>4, <1>5, <1>6 DEF WorkLeft

\* Five numbers cannot shrink for ever: with EveryStepShrinksTheWork, a packet
\* is parsed in finitely many steps (ParsingEnds, but for the fairness).
THEOREM WorkRunsOut ==
  /\ Spec => [](WorkLeft \in [1 .. 5 -> Nat])
  /\ \A f \in [Nat -> [1 .. 5 -> Nat]] : \E n \in Nat : ~Less(f[n + 1], f[n])
<1>1. Spec => [](WorkLeft \in [1 .. 5 -> Nat])
  <2>1. IInv /\ Counting => WorkLeft \in [1 .. 5 -> Nat]
    BY WorkCounted
  <2> QED
    BY <2>1, InitIInv, NextIInv, InitCounting, CountingKept, PTL DEF Spec
<1>2. ASSUME NEW f \in [Nat -> [1 .. 5 -> Nat]], \A n \in Nat : Less(f[n + 1], f[n])
      PROVE  FALSE
  <2> DEFINE R == OpToRel(<, Nat)
             S == [1 .. 5 -> Nat]
             L == LexProductOrdering(R, Nat, 5)
  <2>1. IsWellFoundedOn(R, Nat)
    BY NatLessThanWellFounded
  <2>2. \A x, y \in Nat : <<x, y>> \in R <=> x < y
    BY DEF OpToRel
  <2> HIDE DEF R
  <2>3. IsWellFoundedOn(L, S)
    BY <2>1, WFLexProductOrdering
  <2>4. ASSUME NEW n \in Nat PROVE <<f[n + 1], f[n]>> \in L
    <3>1. f[n + 1] \in S /\ f[n] \in S
      OBVIOUS
    <3>2. PICK i \in 1 .. 5 : f[n + 1][i] < f[n][i] /\ \A j \in 1 .. (i - 1) : f[n + 1][j] = f[n][j]
      BY <1>2 DEF Less
    <3>3. <<f[n + 1][i], f[n][i]>> \in R
      BY <2>2, <3>1, <3>2
    <3> QED
      BY <3>1, <3>2, <3>3 DEF LexProductOrdering
  <2> HIDE DEF L
  <2> QED
    BY <2>3, <2>4 DEF IsWellFoundedOn
<1> QED
  BY <1>1, <1>2

=============================================================================
