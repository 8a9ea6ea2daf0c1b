------------------------ MODULE CaptureChildProtocol ------------------------
(***************************************************************************)
(* The messages of a capture child (src/capture/CaptureChildProtocol.cpp): a *)
(* line of fields that are separated by tabs, `key=value`.                   *)
(*                                                                         *)
(* Text is a sequence of symbols: a character that the format gives a        *)
(* meaning, one that an escape may stand for, or a whole word.  An unsigned  *)
(* number is one symbol of Numbers, the name of a type one of MessageTypes.  *)
(***************************************************************************)
EXTENDS Naturals, SequencesExt

CONSTANTS
  Numbers, MessageTypes,
  Characters,     \* what a text is made of
  Keys,           \* of the further fields of a message
  Messages        \* what a child says

VARIABLES
  said,           \* the message of a child, in a sequence of one
  heard           \* what is understood of it

Backslash == "\\"
NewLine == "\n"
Tab == "\t"
CarriageReturn == "\r"

-----------------------------------------------------------------------------
(* Text.                                                                   *)

\* The escape character is left as it is.
EscapedButBackslash(character) ==
  CASE character = NewLine -> <<Backslash, "n">>
    [] character = Tab -> <<Backslash, "t">>
    [] OTHER -> <<character>>

Escaped(character) ==
  CASE character = Backslash -> <<Backslash, Backslash>>
    [] character = NewLine -> <<Backslash, "n">>
    [] character = Tab -> <<Backslash, "t">>
    [] OTHER -> <<character>>

EscapeField(value) == FlattenSeq([i \in DOMAIN value |-> Escaped(value[i])])

Meant(character) ==
  CASE character = "n" -> NewLine [] character = "t" -> Tab [] OTHER -> character

\* A backslash takes the character after it, whatever that is; the last one
\* may stand alone.
Unescape(r, character) ==
  IF r.escaped THEN [text |-> Append(r.text, Meant(character)), escaped |-> FALSE]
  ELSE IF character = Backslash THEN [r EXCEPT !.escaped = TRUE]
  ELSE [r EXCEPT !.text = Append(r.text, character)]

UnescapeField(value) ==
  LET end == FoldLeft(Unescape, [text |-> <<>>, escaped |-> FALSE], value)
  IN  IF end.escaped THEN Append(end.text, Backslash) ELSE end.text

\* std::getline up to each tab.
ReadCharacter(tokens, character) ==
  IF character = Tab THEN Append(tokens, <<>>)
  ELSE Append(Front(tokens), Append(Last(tokens), character))

Tokens(line) == FoldLeft(ReadCharacter, <<<<>>>>, line)

Without(token, character) ==
  IF token # <<>> /\ Last(token) = character THEN Front(token) ELSE token

-----------------------------------------------------------------------------
(* Messages.                                                               *)

\* capturePath and message are optional, `fields` is a function of some keys.
Message(type, packetCount, droppedCount, capturePath, message, fields) ==
  [type |-> type, packets |-> packetCount, dropped |-> droppedCount,
   capturePath |-> capturePath, message |-> message, fields |-> fields]

Field(key, value) == <<key, "=">> \o EscapeField(value)

SerializeFields(fields) ==
  LET keys == SetToSeq(DOMAIN fields)
  IN  FlattenSeq([i \in DOMAIN keys |-> <<Tab>> \o Field(keys[i], fields[keys[i]])])

SerializeMessage(m) ==
  Field("event", <<m.type>>)
    \o <<Tab>> \o Field("packets", <<m.packets>>)
    \o <<Tab>> \o Field("dropped", <<m.dropped>>)
    \o (IF m.capturePath = <<>> THEN <<>> ELSE <<Tab>> \o Field("capture_path", m.capturePath))
    \o (IF m.message = <<>> THEN <<>> ELSE <<Tab>> \o Field("message", m.message))
    \o SerializeFields(m.fields)
    \o <<NewLine>>

NoType == "none"
Rejected == "rejected"

\* A type or a number is a word that is no character with a meaning.  A key is
\* written as it is: it must be none of those that have a meaning, nor hold a
\* character that ends it.
ASSUME WordAssumption ==
  /\ (MessageTypes \cup Numbers) \cap {Backslash, NewLine, Tab, CarriageReturn} = {}
  /\ Rejected \notin MessageTypes
  /\ Keys \cap {"event", "packets", "dropped", "capture_path", "message", "=", Tab} = {}

ASSUME MessageAssumption ==
  \A m \in Messages :
    /\ m = Message(m.type, m.packets, m.dropped, m.capturePath, m.message, m.fields)
    /\ m.type \in MessageTypes /\ m.packets \in Numbers /\ m.dropped \in Numbers
    /\ m.capturePath \in Seq(Characters) /\ m.message \in Seq(Characters)
    /\ m.fields \in [DOMAIN m.fields -> Seq(Characters)]
    /\ DOMAIN m.fields \subseteq Keys /\ IsFiniteSet(DOMAIN m.fields)

Unread == Message(NoType, "0", "0", <<>>, <<>>, [key \in {} |-> <<>>])

\* A field with a type or a number that cannot be read rejects the message;
\* any other key is kept with the fields.  Of equal keys the last counts.
TakeField(m, key, value) ==
  CASE key = "event" ->
         IF Len(value) = 1 /\ value[1] \in MessageTypes THEN [m EXCEPT !.type = value[1]]
         ELSE [m EXCEPT !.type = Rejected]
    [] key \in {"packets", "dropped"} ->
         IF Len(value) = 1 /\ value[1] \in Numbers THEN [m EXCEPT ![key] = value[1]]
         ELSE [m EXCEPT !.type = Rejected]
    [] key = "capture_path" -> [m EXCEPT !.capturePath = value]
    [] key = "message" -> [m EXCEPT !.message = value]
    [] OTHER -> [m EXCEPT !.fields = [k \in DOMAIN m.fields \cup {key} |-> IF k = key THEN value ELSE m.fields[k]]]

\* The line's end is taken off the end of each token.
ReadToken(m, token) ==
  LET text == Without(Without(token, NewLine), CarriageReturn)
      separator == {i \in DOMAIN text : text[i] = "="}
      first == CHOOSE i \in separator : \A j \in separator : i <= j
  IN  IF m.type = Rejected \/ separator = {} THEN m
      ELSE TakeField(m, text[first - 1], UnescapeField(SubSeq(text, first + 1, Len(text))))

ParseMessage(line) == FoldLeft(ReadToken, Unread, Tokens(line))

-----------------------------------------------------------------------------
(* An exchange.                                                            *)

SayMessage ==
  /\ said \in {<<m>> : m \in Messages}
  /\ heard = <<>>

\* A child writes a message, and the line is read.
Exchange ==
  /\ heard = <<>>
  /\ heard' = <<ParseMessage(SerializeMessage(said[1]))>>
  /\ UNCHANGED said

MessageSpec == SayMessage /\ [][Exchange]_<<said, heard>>

\* What a message means once a carriage return at the end of a text is lost.
Kept(m) ==
  [m EXCEPT !.capturePath = Without(m.capturePath, CarriageReturn),
            !.message = Without(m.message, CarriageReturn),
            !.fields = [key \in DOMAIN m.fields |-> Without(m.fields[key], CarriageReturn)]]

\* What a child says is what is understood, whatever the texts contain, except
\* that a text loses a carriage return at its end.
MessagesAsSent == heard # <<>> => heard[1] = Kept(said[1])
=============================================================================
