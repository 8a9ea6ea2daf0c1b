--------------------------- MODULE MCCaptureChild ---------------------------
(***************************************************************************)
(* A supervisor that starts children up to twice, a stream of three packets *)
(* that is tailed in batches of two, and all messages with texts of up to    *)
(* two characters.  The three share nothing, so a behaviour is about one.    *)
(***************************************************************************)
EXTENDS CaptureChild, CaptureChildProtocol, CapturePacketStream

VARIABLE about     \* what the behaviour is about: "child", "stream" or "message"

MCArguments == {<<>>, <<"--backend-status">>, <<"--self-test-protocol">>, <<"--interface">>}

Upto(n, S) == UNION {[1 .. k -> S] : k \in 0 .. n}

MCSymbols == {"H", "0", "1", "\n", "x"}

\* Packets may contain what a header is made of.
MCBytes == {<<>>, <<"\n">>, <<"H">>, <<"H", "1">>, <<"\n", "H">>, <<"1", "\n">>}

MCPrefaces == {<<>>, <<"\n", "\n">>, <<"x", "\n">>}

-----------------------------------------------------------------------------
(* Messages.                                                               *)

MCCharacters == {Backslash, NewLine, Tab, CarriageReturn, "=", "n", "t", "a"}

Texts == Upto(2, MCCharacters)

Fields == {[key \in {} |-> <<>>]} \cup {[key \in {"backend"} |-> text] : text \in Texts}

MCMessages ==
  {Message("started", "0", "7", <<>>, text, fields) : text \in Texts, fields \in Fields}
  \cup {Message("started", "7", "0", path, text, [key \in {} |-> <<>>]) : path \in Texts, text \in Upto(1, {Tab, "a"})}
  \cup {Message(type, count, "0", <<>>, <<>>, [key \in {} |-> <<>>]) : type \in MessageTypes, count \in Numbers}

-----------------------------------------------------------------------------

MCInit ==
  /\ ChildInit
  /\ StreamInit
  /\ \/ about \in {"child", "stream"} /\ said = <<>> /\ heard = <<>>
     \/ about = "message" /\ SayMessage

MCNext ==
  /\ \/ about = "child" /\ ChildNext /\ UNCHANGED <<streamVars, said, heard>>
     \/ about = "stream" /\ StreamNext /\ UNCHANGED <<childVars, said, heard>>
     \/ about = "message" /\ Exchange /\ UNCHANGED <<childVars, streamVars>>
  /\ UNCHANGED about

MCSpec == MCInit /\ [][MCNext]_<<childVars, streamVars, about, said, heard>>
=============================================================================
