------------------------ MODULE CapturePacketStream ------------------------
(***************************************************************************)
(* The packet stream of a capture child (src/capture/CapturePacketStream.cpp) *)
(* and CoreSession::processPacketStreamBatch, which tails it: the file grows   *)
(* while it is read, and its end may be anywhere in a frame.                  *)
(*                                                                         *)
(* The file is a sequence of symbols.  "H" is a frame's prefix with all its   *)
(* fields but the last, the number of bytes, which is written in base 2; the  *)
(* bytes of a packet are symbols too, and may look like a header.             *)
(***************************************************************************)
EXTENDS Naturals, SequencesExt

CONSTANTS
  Symbols,      \* what a file is made of
  Bytes,        \* the packets a child may write, as sequences of symbols
  MaxFrames,    \* the argument maxFrames of readPacketStreamFrames
  MaxWritten,   \* bound: frames the child writes
  Prefaces      \* what the file may begin with: blank lines, or other text

ASSUME SymbolAssumption == {"H", "0", "1", "\n"} \subseteq Symbols
ASSUME BytesAssumption == Bytes \subseteq Seq(Symbols)

\* A file that begins with other text does not begin with a frame.
ASSUME PrefaceAssumption ==
  /\ Prefaces \subseteq Seq(Symbols)
  /\ \A text \in Prefaces : \A i \in DOMAIN text :
       (\A j \in 1 .. (i - 1) : text[j] = "\n") => text[i] # "H"

VARIABLES
  preface,      \* what it begins with
  sent,         \* the packets the child has written, in order
  buffer,       \* what is written and not in the file yet
  file,
  position,     \* of the reader in the file
  eof,          \* the reader's stream has seen the end and reads nothing
  reader,       \* its control point
  packet,       \* the frame it is in: the bytes it expects, those it has
  packets,      \* the frames of this batch
  delivered,    \* what was processed, batch by batch
  error         \* why the last batch failed

writerVars == <<preface, sent, buffer>>
stream == <<file, position, eof>>
readerVars == <<reader, packet, packets, delivered, error>>
streamVars == <<writerVars, stream, readerVars>>

EndOfLine == "\n"
NoPacket == [size |-> 0, bytes |-> <<>>]

Digit == <<"0", "1">>
Digits[n \in Nat] == IF n < 2 THEN <<Digit[n + 1]>> ELSE Append(Digits[n \div 2], Digit[(n % 2) + 1])

Number(digits) == FoldLeft(LAMBDA n, d : 2 * n + (IF d = "1" THEN 1 ELSE 0), 0, digits)

FrameOf(bytes) == <<"H">> \o Digits[Len(bytes)] \o <<EndOfLine>> \o bytes \o <<EndOfLine>>

StreamInit ==
  /\ sent = <<>> /\ buffer = <<>>
  /\ preface \in Prefaces
  /\ file = preface /\ position = 0
  /\ eof = FALSE
  /\ reader = "idle"
  /\ packet = NoPacket
  /\ packets = <<>>
  /\ delivered = <<>>
  /\ error = "none"

-----------------------------------------------------------------------------
(* The child.                                                              *)

\* writePacketStreamFrame.
WriteFrame(bytes) ==
  /\ Len(sent) < MaxWritten
  /\ sent' = Append(sent, bytes)
  /\ buffer' = buffer \o FrameOf(bytes)
  /\ UNCHANGED <<preface, stream, readerVars>>

\* The output stream is flushed when it pleases.
Flush(n) ==
  /\ n \in 1 .. Len(buffer)
  /\ file' = file \o SubSeq(buffer, 1, n)
  /\ buffer' = SubSeq(buffer, n + 1, Len(buffer))
  /\ UNCHANGED <<preface, sent, position, eof, readerVars>>

-----------------------------------------------------------------------------
(* The reader.                                                             *)

Left == SubSeq(file, position + 1, Len(file))

Continue(next) == reader' = next

EndWith(reason) == Continue("ended") /\ error' = reason

\* processPacketStreamBatch is called, again while all goes well, on a stream
\* that is made good again.
BeginBatch ==
  /\ reader = "idle"
  /\ Continue("between")
  /\ packets' = <<>>
  /\ eof' = FALSE
  /\ UNCHANGED <<writerVars, file, position, packet, delivered, error>>

\* The batch is full.
BatchFull ==
  /\ reader = "between"
  /\ Len(packets) = MaxFrames
  /\ EndWith("none")
  /\ UNCHANGED <<writerVars, stream, packet, packets, delivered>>

\* What std::getline takes of the rest of the file.
LineOf(text) ==
  LET ends == {i \in DOMAIN text : text[i] = EndOfLine}
  IN  IF ends = {} THEN text ELSE SubSeq(text, 1, (CHOOSE i \in ends : \A j \in ends : i <= j) - 1)

IsHeader(line) == /\ Len(line) > 1 /\ line[1] = "H"
                  /\ \A i \in 2 .. Len(line) : line[i] \in {"0", "1"}

\* A line that the end of the file cuts is taken for a header as well.
ReadHeader ==
  /\ reader = "between"
  /\ Len(packets) < MaxFrames
  /\ LET line == LineOf(Left)
         cut == Len(line) = Len(Left)
     IN  /\ position' = position + Len(line) + (IF cut THEN 0 ELSE 1)
         /\ eof' = cut
         /\ IF Left = <<>> THEN EndWith("none") /\ UNCHANGED packet
            ELSE IF line = <<>> THEN UNCHANGED <<reader, packet, error>>
            ELSE IF line[1] # "H" THEN EndWith("invalid packet stream frame prefix") /\ UNCHANGED packet
            ELSE IF ~IsHeader(line) THEN EndWith("invalid packet stream frame header") /\ UNCHANGED packet
            ELSE /\ Continue("bytes")
                 /\ packet' = [size |-> Number(Tail(line)), bytes |-> <<>>]
                 /\ UNCHANGED error
  /\ UNCHANGED <<writerVars, file, packets, delivered>>

\* Bytes are read a line at a time.
ReadBytesByLine ==
  /\ reader = "bytes"
  /\ LET n == IF eof THEN 0 ELSE Len(LineOf(Left))
         enough == n >= packet.size
     IN  /\ position' = position + n
         /\ UNCHANGED eof
         /\ packet' = [packet EXCEPT !.bytes = SubSeq(Left, 1, n)]
         /\ IF enough THEN Continue("newline") /\ UNCHANGED error ELSE EndWith("packet stream ended mid-frame")
  /\ UNCHANGED <<writerVars, file, packets, delivered>>

\* Its end may have been seen in the header.
ReadBytes ==
  /\ reader = "bytes"
  /\ LET there == IF eof THEN 0 ELSE Len(Left)
         enough == there >= packet.size
         n == IF enough THEN packet.size ELSE there
     IN  /\ position' = position + n
         /\ eof' = (eof \/ ~enough)
         /\ packet' = [packet EXCEPT !.bytes = SubSeq(Left, 1, n)]
         /\ IF enough THEN Continue("newline") /\ UNCHANGED error ELSE EndWith("packet stream ended mid-frame")
  /\ UNCHANGED <<writerVars, file, packets, delivered>>

ReadNewLine ==
  /\ reader = "newline"
  /\ LET none == eof \/ Left = <<>>
     IN  /\ position' = position + (IF none THEN 0 ELSE 1)
         /\ eof' = none
         /\ IF none \/ Left[1] # EndOfLine
            THEN EndWith("packet stream frame missing trailing newline") /\ UNCHANGED packets
            ELSE Continue("between") /\ packets' = Append(packets, packet.bytes) /\ UNCHANGED error
  /\ UNCHANGED <<writerVars, file, packet, delivered>>

\* A batch with an error is given up as a whole, with what was read before it.
EndBatch ==
  /\ reader = "ended"
  /\ IF error = "none" THEN Continue("idle") /\ delivered' = delivered \o packets
     ELSE Continue("failed") /\ UNCHANGED delivered
  /\ UNCHANGED <<writerVars, stream, packet, packets, error>>

StreamNext ==
  \/ \E bytes \in Bytes : WriteFrame(bytes)
  \/ \E n \in 1 .. Len(buffer) : Flush(n)
  \/ BeginBatch \/ BatchFull \/ ReadHeader \/ ReadBytes \/ ReadNewLine \/ EndBatch

StreamSpec == StreamInit /\ [][StreamNext]_streamVars

-----------------------------------------------------------------------------
(* Properties.                                                             *)

\* However the file grows under the reader and whatever the packets look like:
\* what is processed is what was sent, in order and complete up to where the
\* reader stands; only the end of the file makes a batch fail, in the frame it
\* cuts, or text that is no frame, and then nothing but that batch is missing.
FramesAsWritten ==
  LET got == IF reader = "idle" THEN delivered ELSE delivered \o packets
      blank == \A i \in DOMAIN preface : preface[i] = EndOfLine
  IN  /\ IsPrefix(got, sent)
      /\ reader = "idle" /\ got # <<>> =>
           position = Len(preface) + Len(FlattenSeq([i \in DOMAIN got |-> FrameOf(got[i])]))
      /\ error # "none" => eof \/ ~blank
      /\ ~blank => got = <<>>
=============================================================================
