---------------------------- MODULE ParserState ----------------------------
(***************************************************************************)
(* What every step of packet parsing works on: the captured bytes, the     *)
(* views into them (ByteView.hpp), the context the decoders fill, the      *)
(* observation a plugin is building and the registers of its loops.        *)
(*                                                                         *)
(* One packet is parsed by one thread, a loop iteration per step.  Bytes   *)
(* are numbered from 0 as in the code.  An address is the tuple of its     *)
(* bytes: the code's rendering of it as text loses nothing.  A text is the *)
(* sequence of its characters.                                             *)
(***************************************************************************)
EXTENDS Integers, Sequences

CONSTANTS
  Frames,    \* the packets that can be captured, each a sequence of bytes
  Garbage,   \* what a read outside the captured bytes returns
  None,      \* a value that is absent (std::nullopt)
  Spelling   \* the characters of each keyword the parsers look for

Byte == 0..255

ASSUME FramesAssumption == Frames \subseteq Seq(Byte)
ASSUME GarbageAssumption == Garbage \in Byte

VARIABLES
  frame,         \* the captured bytes
  pc,            \* where the parser is
  context,       \* PacketContext
  todo,          \* the plugins of the registry not asked yet
  observations,  \* what the plugins returned so far
  reads,         \* the reads of the last step: <<view, end of the read>>
  obs,           \* the observation being built
  offset,        \* the `offset` of the plugin that runs
  cursor,        \* the `cursor` of its inner loop
  jumps,         \* compression pointers followed in the name being read
  name,          \* the text of that name so far
  role,          \* what that name is: "query", "record", "ptr" or "srv"
  questions,     \* questions and records still to read
  records,
  record         \* the resource record being read

registers == <<offset, cursor, jumps, name, role, questions, records, record>>
vars == <<frame, pc, context, todo, observations, reads, obs, registers>>

-----------------------------------------------------------------------------
(* ByteView.                                                                *)

View(at, size) == [at |-> at, size |-> size]

SubviewFrom(v, from) ==
  IF from >= v.size THEN View(0, 0) ELSE View(v.at + from, v.size - from)

Subview(v, from, length) ==
  IF from >= v.size THEN View(0, 0)
  ELSE View(v.at + from, IF length < v.size - from THEN length ELSE v.size - from)

At(v, i) == IF v.at + i < Len(frame) THEN frame[v.at + i + 1] ELSE Garbage

UInt16(v, i) == 256 * At(v, i) + At(v, i + 1)

Slice(v, i, length) == [k \in 1..length |-> At(v, i + k - 1)]

\* A read of view v that ends before byte `end`.
ReadTo(v, end) == {<<v, end>>}

-----------------------------------------------------------------------------
(* Texts.                                                                   *)

HasPart(text, part) ==
  \E i \in 0..Len(text) - Len(part) : SubSeq(text, i + 1, i + Len(part)) = part

Lower(text) ==
  [i \in DOMAIN text |-> IF text[i] \in 65..90 THEN text[i] + 32 ELSE text[i]]

Mentions(text, keyword) == HasPart(text, Spelling[keyword])

\* rules is a sequence of <<keywords, answer>>: the answer of the first rule
\* one of whose keywords the lower-cased text contains.
FirstHint(rules, text) ==
  LET hits == {i \in DOMAIN rules : \E word \in rules[i][1] : Mentions(Lower(text), word)}
  IN  IF hits = {} THEN None
      ELSE rules[CHOOSE i \in hits : \A j \in hits : i <= j][2]

Has(value) == value # None
Present(layer) == layer \in context.layers

-----------------------------------------------------------------------------
(* Observations.  The event type, the confidence and the timestamp are     *)
(* fixed by the source and are left out, as is the metadata that only       *)
(* repeats ports and counters.                                              *)

NoAddress == <<0, 0, 0, 0>>
NoMac == <<0, 0, 0, 0, 0, 0>>

Observation(mac, ip, source) ==
  [mac |-> mac, ip |-> ip, source |-> source, hostname |-> None,
   displayName |-> None, vendor |-> None, modelHint |-> None, osHint |-> None,
   deviceType |-> None, metadata |-> {}]

\* addObservedMetadata keeps every distinct value of a key, and no empty one.
WithMetadata(o, key, value) ==
  IF value = <<>> THEN o ELSE [o EXCEPT !.metadata = @ \cup {<<key, value>>}]

\* A plugin returns one observation, or none.
Return(found) ==
  /\ observations' = observations \o found
  /\ pc' = "engine"

ReturnNothing == Return(<<>>)

=============================================================================
