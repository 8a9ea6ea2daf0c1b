--------------------------- MODULE NetbiosPlugin ---------------------------
(***************************************************************************)
(* NetBIOS name service messages.  readNetbiosName follows a pointer by    *)
(* calling itself with a deeper `depth` (kept in `jumps`) and a copy of    *)
(* the offset; the name it finds is 32 letters that encode 16 characters,  *)
(* followed by scope labels.                                               *)
(***************************************************************************)
EXTENDS DnsPlugin

CONSTANT MaxDepth   \* pointers one name may follow (8 in the code)

ASSUME MaxDepthAssumption == MaxDepth \in Nat

NbnsHeaderLength == 12

MatchNetbios ==
  /\ Present("udp") /\ NetbiosNameServicePort \in Ports
  /\ context.payload.size >= NbnsHeaderLength

EncodedLetters == 65..80   \* 'A' to 'P', four bits each

\* decodeEncodedNetbiosName: the sixteenth character is the kind of name and
\* is dropped, and so are the spaces and zeros at the end.
DecodeNetbiosName(v, at) ==
  LET letters == Slice(v, at, 32)
      decoded == [i \in 1..15 |-> 16 * (letters[2 * i - 1] - 65) + (letters[2 * i] - 65)]
      kept == {i \in 1..15 : decoded[i] \notin {0, 32}}
  IN  IF \E i \in 1..32 : letters[i] \notin EncodedLetters THEN None
      ELSE SubSeq(decoded, 1, IF kept = {} THEN 0 ELSE CHOOSE i \in kept : \A j \in kept : j <= i)

-----------------------------------------------------------------------------

StartNetbios ==
  LET v == context.payload
  IN  /\ pc = "netbios"
      /\ obs' = Observation(context.sourceMac, context.sourceIp, "netbios")
      /\ questions' = UInt16(v, 4)
      /\ records' = UInt16(v, 6) + UInt16(v, 8) + UInt16(v, 10)
      /\ offset' = NbnsHeaderLength
      /\ pc' = "netbios.next"
      /\ reads' = ReadTo(v, NbnsHeaderLength)
      /\ UNCHANGED <<frame, context, todo, observations, cursor, jumps, name, role, record>>

NextNetbiosItem ==
  /\ pc = "netbios.next"
  /\ IF questions + records = 0
     THEN Return(<<obs>>) /\ UNCHANGED <<role, cursor, jumps, name>>
     ELSE /\ pc' = "netbios.name"
          /\ role' = IF questions > 0 THEN "query" ELSE "record"
          /\ cursor' = offset
          /\ jumps' = 0
          /\ name' = <<>>
          /\ UNCHANGED observations
  /\ reads' = {}
  /\ UNCHANGED <<frame, context, todo, obs, offset, questions, records, record>>

\* The outermost call's offset; a nested call moves only its own copy.
Advance(to) == offset' = IF jumps = 0 THEN to ELSE offset

GiveUp == ReturnNothing /\ UNCHANGED <<offset, cursor, jumps, name>>

RootName(v) ==
  /\ name' = Root
  /\ Advance(cursor + 1)
  /\ pc' = "netbios.named"
  /\ reads' = ReadTo(v, cursor + 1)
  /\ UNCHANGED <<observations, cursor, jumps>>

PointedName(v) ==
  LET pointer == UInt16(v, cursor) % 16384
  IN  IF cursor + 1 >= v.size THEN GiveUp /\ reads' = ReadTo(v, cursor + 1)
      ELSE /\ reads' = ReadTo(v, cursor + 2)
           /\ IF pointer >= v.size THEN GiveUp
              ELSE /\ Advance(cursor + 2)
                   /\ cursor' = pointer
                   /\ jumps' = jumps + 1
                   /\ UNCHANGED <<pc, observations, name>>

EncodedName(v) ==
  IF At(v, cursor) # 32 \/ cursor + 33 > v.size
  THEN GiveUp /\ reads' = ReadTo(v, cursor + 1)
  ELSE /\ name' = DecodeNetbiosName(v, cursor + 1)
       /\ cursor' = cursor + 33
       /\ pc' = "netbios.scope"
       /\ reads' = ReadTo(v, cursor + 33)
       /\ UNCHANGED <<observations, offset, jumps>>

ReadNetbiosName ==
  LET v == context.payload
      length == At(v, cursor)
  IN  /\ pc = "netbios.name"
      /\ IF cursor >= v.size \/ jumps > MaxDepth THEN GiveUp /\ reads' = {}
         ELSE IF length = 0 THEN RootName(v)
         ELSE IF length >= 192 THEN PointedName(v)
         ELSE EncodedName(v)
      /\ UNCHANGED <<frame, context, todo, obs, role, questions, records, record>>

\* The scope labels after an encoded name; the code finds the name unreadable
\* only after it walked them.
ScopeWalked ==
  IF Has(name) THEN pc' = "netbios.named" /\ UNCHANGED observations ELSE ReturnNothing

ReadNetbiosScope ==
  LET v == context.payload
      length == At(v, cursor)
  IN  /\ pc = "netbios.scope"
      /\ IF cursor >= v.size
         THEN Advance(cursor) /\ ScopeWalked /\ reads' = {} /\ UNCHANGED cursor
         ELSE /\ reads' = ReadTo(v, cursor + 1)
              /\ IF length = 0 THEN Advance(cursor + 1) /\ ScopeWalked /\ UNCHANGED cursor
                 ELSE IF cursor + 1 + length > v.size THEN ReturnNothing /\ UNCHANGED <<cursor, offset>>
                 ELSE cursor' = cursor + 1 + length /\ UNCHANGED <<pc, observations, offset>>
      /\ UNCHANGED <<frame, context, todo, obs, jumps, name, role, questions, records, record>>

\* What follows the name: 4 bytes in a question, 10 and the data in a record.
QuestionDone ==
  LET v == context.payload
  IN  /\ pc = "netbios.named" /\ role = "query"
      /\ IF offset + 4 > v.size THEN ReturnNothing /\ UNCHANGED <<obs, offset, questions>>
         ELSE /\ obs' = IF name = Root THEN obs ELSE WithMetadata(obs, "netbios.names", name)
              /\ offset' = offset + 4
              /\ questions' = questions - 1
              /\ pc' = "netbios.next"
              /\ UNCHANGED observations
      /\ reads' = {}
      /\ UNCHANGED <<frame, context, todo, cursor, jumps, name, role, records, record>>

RecordDone ==
  LET v == context.payload
      end == offset + 10 + UInt16(v, offset + 8)
  IN  /\ pc = "netbios.named" /\ role = "record"
      /\ IF offset + 10 > v.size THEN ReturnNothing /\ reads' = {} /\ UNCHANGED <<obs, offset, records>>
         ELSE /\ reads' = ReadTo(v, offset + 10)
              /\ IF end > v.size THEN ReturnNothing /\ UNCHANGED <<obs, offset, records>>
                 ELSE /\ obs' = IF name = Root THEN obs ELSE WithMetadata(obs, "netbios.names", name)
                      /\ offset' = end
                      /\ records' = records - 1
                      /\ pc' = "netbios.next"
                      /\ UNCHANGED observations
      /\ UNCHANGED <<frame, context, todo, cursor, jumps, name, role, questions, record>>

ParseNetbios ==
  \/ StartNetbios
  \/ NextNetbiosItem
  \/ ReadNetbiosName
  \/ ReadNetbiosScope
  \/ QuestionDone
  \/ RecordDone

=============================================================================
