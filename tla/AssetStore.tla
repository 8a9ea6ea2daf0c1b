----------------------------- MODULE AssetStore -----------------------------
(***************************************************************************)
(* AssetStore::applyObservation (src/discovery/domain/AssetStore.cpp) with  *)
(* the metadata it merges (AssetObservation.cpp), as operators: the stored  *)
(* assets are a function from normalised MAC addresses to assets, and       *)
(* ApplyObservation(assets, o) is that function after o.                    *)
(*                                                                         *)
(* An optional string that is absent or empty is None.  A timestamp is a    *)
(* number.  o.metadata[k] is the sequence of values a parser reported under *)
(* k; of a value that is searched for a needle only the needle it contains  *)
(* is kept.  The parsers set a MAC address, a source and observed metadata  *)
(* on every observation, and never reference metadata or derived hints.     *)
(***************************************************************************)
EXTENDS Integers, SequencesExt

CONSTANTS
  Observations,  \* what the parsers may report
  ToLower,       \* normalizeMacAddress, on the spellings of MAC addresses
  Registrant,    \* curatedOuiRegistrant of a normalised MAC address, or None
  Keys,          \* metadata keys
  Values,        \* metadata values
  Texts          \* the other strings: names, addresses, sources, hints

None == "none"

Macs == DOMAIN Registrant

ReferenceKeys == {"mac.oui", "mac.oui.registrant"}

ASSUME TextAssumption == {None, "mac-address", "curated-oui"} \subseteq Texts

\* No parser reports a key that is reserved for reference metadata.
ASSUME KeyAssumption == Keys \intersect ReferenceKeys = {}

ASSUME MacAssumption ==
  /\ Registrant \in [Macs -> Texts]
  /\ \A m \in Macs : m \in DOMAIN ToLower /\ ToLower[m] = m

ASSUME ObservationAssumption ==
  \A o \in Observations :
    /\ o.macAddress \in DOMAIN ToLower /\ ToLower[o.macAddress] \in Macs
    /\ o.sourceId \in Texts
    /\ {o.ipAddress, o.hostname, o.displayName, o.vendor, o.osHint, o.deviceType, o.modelHint} \subseteq Texts
    /\ o.timestamp \in Int
    /\ DOMAIN o.metadata \subseteq Keys
    /\ \A k \in DOMAIN o.metadata : o.metadata[k] \in Seq(Values) \ {<<>>}

\* DHCP alone reports a host name, as the name to display too, and its operating
\* systems are not among those that SSDP replaces (DhcpPlugin.cpp).
ASSUME DhcpAssumption ==
  \A o \in Observations :
    IF o.sourceId = "dhcp"
    THEN o.displayName = o.hostname /\ o.osHint \notin {"linux/unix", "network-device"}
    ELSE o.hostname = None

Earlier(t, u) == IF u < t THEN u ELSE t
Later(t, u) == IF t < u THEN u ELSE t

-----------------------------------------------------------------------------
(* Metadata records.                                                       *)

Record(values, source, t) == [values |-> values, source |-> source, first |-> t, last |-> t]

\* A record that keeps the values it was made with.
MergeRecordKeepingFirst(target, record) ==
  [target EXCEPT !.first = Earlier(@, record.first), !.last = Later(@, record.last)]

\* mergeMetadataRecord, for a key that is there; its source stays the first.
MergeRecord(target, record) ==
  [target EXCEPT !.values = @ \union record.values,
                 !.first = Earlier(@, record.first),
                 !.last = Later(@, record.last)]

MergeRecords(target, records) ==
  [k \in DOMAIN target \union DOMAIN records |->
     IF k \notin DOMAIN records THEN target[k]
     ELSE IF k \notin DOMAIN target THEN records[k]
     ELSE MergeRecord(target[k], records[k])]

\* What addObservedMetadata has put into an observation.
ObservedRecords(o) ==
  [k \in DOMAIN o.metadata |-> Record(Range(o.metadata[k]), o.sourceId, o.timestamp)]

MetadataValues(asset, key) ==
  IF key \in DOMAIN asset.observed THEN asset.observed[key].values
  ELSE IF key \in DOMAIN asset.reference THEN asset.reference[key].values
  ELSE {}

-----------------------------------------------------------------------------
(* The asset's own fields.                                                 *)

\* Assign a candidate that has a value, if it wins or nothing is there yet.
Candidate(current, candidate, wins) ==
  IF candidate # None /\ (wins \/ current = None) THEN candidate ELSE current

\* Any name DHCP reports wins.
DhcpNameWins(asset, o) == o.sourceId \in {"mdns", "dhcp"}

\* asset.hostname has already been replaced by this observation's.
NameWins(asset, o) ==
  o.sourceId = "mdns" \/ (o.sourceId = "dhcp" /\ asset.displayName = asset.hostname)

\* SSDP replaces whatever there is.
SsdpOsWins(asset, o) == o.sourceId \in {"dhcp", "ssdp"}

OsWins(asset, o) ==
  o.sourceId = "dhcp" \/ (o.sourceId = "ssdp" /\ asset.osHint \in {"linux/unix", "network-device"})

ApplyHostname(asset, o) ==
  [asset EXCEPT !.hostname = Candidate(@, o.hostname, TRUE),
                !.displayName = Candidate(@, o.hostname, FALSE)]

ApplySummaryCandidates(asset, o) ==
  [asset EXCEPT !.displayName = Candidate(@, o.displayName, NameWins(asset, o)),
                !.vendor = Candidate(@, o.vendor, TRUE),
                !.deviceType = Candidate(@, o.deviceType, o.sourceId = "mdns"),
                !.modelHint = Candidate(@, o.modelHint, o.sourceId = "mdns"),
                !.osHint = Candidate(@, o.osHint, OsWins(asset, o))]

\* The other reference records are made as mac.oui is.
AddMacReferenceMetadata(asset) ==
  LET mac == asset.macAddress
      records == [k \in IF Registrant[mac] = None THEN {"mac.oui"} ELSE ReferenceKeys |->
                    IF k = "mac.oui" THEN Record({mac}, "mac-address", asset.firstSeen)
                    ELSE Record({Registrant[mac]}, "curated-oui", asset.firstSeen)]
  IN  [asset EXCEPT !.vendor = Candidate(@, Registrant[mac], FALSE),
                    !.reference = MergeRecords(@, records)]

Hint(category, value) == [category |-> category, value |-> value]

\* regenerateDerivedHints clears the hints and derives all of them again.
DerivedHints(asset) ==
  {Hint("device_type", "printer") :
     v \in MetadataValues(asset, "mdns.services") \intersect {"_ipp._tcp.local", "_printer._tcp.local"}}
  \union {Hint("os", "windows") :
     v \in MetadataValues(asset, "dhcp.vendor_class_identifier") \intersect {"MSFT", "Microsoft"}}
  \union {Hint("role", "server_candidate") : v \in MetadataValues(asset, "tcp.syn_ack_ports")}
  \union {Hint("vendor", v) : v \in MetadataValues(asset, "mac.oui.registrant")}

RegenerateDerivedHints(asset) == [asset EXCEPT !.derivedHints = DerivedHints(asset)]

EnrichMetadata(asset) == RegenerateDerivedHints(AddMacReferenceMetadata(asset))

-----------------------------------------------------------------------------
(* applyObservation.                                                       *)

IsRecords(records, keys, values) ==
  /\ DOMAIN records \subseteq keys
  /\ records \in [DOMAIN records -> [values : SUBSET values, source : Texts, first : Int, last : Int]]

Fields ==
  {"macAddress", "ipAddresses", "hostname", "displayName", "vendor", "osHint", "deviceType", "modelHint",
   "firstSeen", "lastSeen", "sources", "metadata", "observed", "reference", "derivedHints"}

\* struct Asset.
IsAsset(asset) ==
  /\ DOMAIN asset = Fields
  /\ asset.macAddress \in Macs
  /\ asset.ipAddresses \subseteq Texts /\ asset.sources \subseteq Texts
  /\ {asset.hostname, asset.displayName, asset.vendor, asset.osHint, asset.deviceType,
      asset.modelHint} \subseteq Texts
  /\ asset.firstSeen \in Int /\ asset.lastSeen \in Int
  /\ asset.metadata \in [DOMAIN asset.metadata -> Values] /\ DOMAIN asset.metadata \subseteq Keys
  /\ IsRecords(asset.observed, Keys, Values)
  /\ IsRecords(asset.reference, ReferenceKeys, Macs \union Texts)

Empty == [x \in {} |-> None]

NewAsset(mac, t) ==
  [macAddress |-> mac, ipAddresses |-> {}, hostname |-> None, displayName |-> None,
   vendor |-> None, osHint |-> None, deviceType |-> None, modelHint |-> None,
   firstSeen |-> t, lastSeen |-> t, sources |-> {}, metadata |-> Empty,
   observed |-> Empty, reference |-> Empty, derivedHints |-> {}]

SeenAgain(asset, t) ==
  [asset EXCEPT !.firstSeen = Earlier(@, t), !.lastSeen = Later(@, t)]

MergeObserved(asset, o) ==
  [asset EXCEPT !.ipAddresses = @ \union ({o.ipAddress} \ {None}),
                !.sources = @ \union {o.sourceId},
                !.metadata = [k \in DOMAIN @ \union DOMAIN o.metadata |->
                                IF k \in DOMAIN o.metadata THEN Last(o.metadata[k]) ELSE @[k]],
                !.observed = MergeRecords(@, ObservedRecords(o))]

\* The code's two branches, for a new and a known asset, differ in nothing else.
Merged(asset, o) ==
  EnrichMetadata(MergeObserved(ApplySummaryCandidates(ApplyHostname(asset, o), o), o))

ApplyObservation(assets, o) ==
  LET mac == ToLower[o.macAddress]
      asset == IF mac \in DOMAIN assets THEN SeenAgain(assets[mac], o.timestamp)
               ELSE NewAsset(mac, o.timestamp)
  IN  [m \in DOMAIN assets \union {mac} |-> IF m = mac THEN Merged(asset, o) ELSE assets[m]]
=============================================================================
