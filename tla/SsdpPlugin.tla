----------------------------- MODULE SsdpPlugin -----------------------------
(***************************************************************************)
(* SSDP messages: lines of text, the first one that is not blank being the *)
(* start line and the others "header: value".  `role` tells whether the     *)
(* start line is still to come.  The metadata that repeats the headers is  *)
(* left out.                                                               *)
(***************************************************************************)
EXTENDS EndpointPlugins

MatchSsdp == Present("udp") /\ SsdpPort \in Ports /\ context.payload.size > 0

Space == {9, 10, 11, 12, 13, 32}
NewLine == 10
Colon == 58

Trim(text) ==
  LET ink == {i \in DOMAIN text : text[i] \notin Space}
  IN  IF ink = {} THEN <<>>
      ELSE SubSeq(text, CHOOSE i \in ink : \A j \in ink : i <= j,
                        CHOOSE i \in ink : \A j \in ink : j <= i)

SsdpOsHints ==
  << <<{"windows", "microsoft"}, "windows">>,
     <<{"linux", "unix"}, "linux">>,
     <<{"android"}, "android">> >>

SsdpDeviceTypes ==
  << <<{"mediarenderer", "media renderer"}, "media-renderer">>,
     <<{"printer"}, "printer">>,
     <<{"internetgatewaydevice", "router"}, "router">>,
     <<{"dial", "roku", "chromecast"}, "tv">>,
     <<{"camera"}, "camera">> >>

IsHeader(header, names) == \E n \in names : header = Spelling[n]

\* The last hint that was found.
Newest(new, old) == IF Has(new) THEN new ELSE old

ApplySsdpSummary(o, header, value) ==
  LET Names(names) == IsHeader(header, names) /\ value # <<>>
  IN  [o EXCEPT
        !.vendor = IF Names({"manufacturer"}) THEN value ELSE @,
        !.displayName = IF Names({"friendlyname", "friendly-name"}) THEN value ELSE @,
        !.modelHint = IF Names({"modelname", "model-name"}) THEN value
                      ELSE IF Names({"server", "usn"}) /\ ~Has(@) THEN value ELSE @,
        !.osHint = Newest(FirstHint(SsdpOsHints, value), @),
        !.deviceType = Newest(FirstHint(SsdpDeviceTypes, value), @)]

-----------------------------------------------------------------------------

StartSsdp ==
  /\ pc = "ssdp"
  /\ obs' = Observation(context.sourceMac, context.sourceIp, "ssdp")
  /\ cursor' = 0
  /\ role' = "start line"
  /\ pc' = "ssdp.lines"
  /\ reads' = ReadTo(context.payload, context.payload.size)
  /\ UNCHANGED <<frame, context, todo, observations, offset, jumps, name, questions, records, record>>

\* The next line, trimmed, is kept in `name`.
SsdpLine ==
  LET v == context.payload
      Ends(end) == /\ end < v.size => At(v, end) = NewLine
                   /\ \A i \in cursor..end - 1 : At(v, i) # NewLine
  IN  /\ pc = "ssdp.lines"
      /\ IF cursor >= v.size
         THEN Return(<<obs>>) /\ UNCHANGED <<cursor, name>>
         ELSE \E end \in cursor..v.size :
                /\ Ends(end)
                /\ cursor' = end + 1
                /\ name' = Trim(Slice(v, cursor, end - cursor))
                /\ pc' = "ssdp.line"
                /\ UNCHANGED observations
      /\ reads' = {}
      /\ UNCHANGED <<frame, context, todo, obs, offset, jumps, role, questions, records, record>>

\* 0 when the line has none.
ColonIn(line) ==
  LET colons == {i \in DOMAIN line : line[i] = Colon}
  IN  IF colons = {} THEN 0 ELSE CHOOSE i \in colons : \A j \in colons : i <= j

SsdpHeader ==
  /\ pc = "ssdp.line"
  /\ role' = IF name = <<>> THEN role ELSE "headers"
  /\ \E header \in {Lower(Trim(SubSeq(name, 1, ColonIn(name) - 1)))},
        value \in {Trim(SubSeq(name, ColonIn(name) + 1, Len(name)))} :
       obs' = IF role = "start line" \/ ColonIn(name) = 0 THEN obs
              ELSE ApplySsdpSummary(obs, header, value)
  /\ pc' = "ssdp.lines"
  /\ reads' = {}
  /\ UNCHANGED <<frame, context, todo, observations, offset, cursor, jumps, name,
                 questions, records, record>>

ParseSsdp == StartSsdp \/ SsdpLine \/ SsdpHeader

=============================================================================
