------------------------- MODULE AssetMonitorProofs -------------------------
(* Theorems about AssetMonitor, for any observations in any number.         *)
EXTENDS AssetMonitor, FiniteSetTheorems, TLAPS

-----------------------------------------------------------------------------
(* What each part of applyObservation does to an asset.                    *)

\* b differs from a in the fields of changed at most.
Keeps(a, b, changed) == \A f \in Fields \ changed : b[f] = a[f]

\* The candidates of the summary are strings.
LEMMA CandidateType ==
  ASSUME NEW current \in Texts, NEW candidate \in Texts, NEW wins
  PROVE  Candidate(current, candidate, wins) \in Texts
  BY DEF Candidate

\* The hostname, and a display name where there was none.
LEMMA HostnameKeeps ==
  ASSUME NEW a, IsAsset(a), NEW o \in Observations
  PROVE  /\ IsAsset(ApplyHostname(a, o))
         /\ Keeps(a, ApplyHostname(a, o), {"hostname", "displayName"})
<1> DEFINE b == ApplyHostname(a, o)
<1>1. o.hostname \in Texts
  BY ObservationAssumption
<1>2. /\ Candidate(a.hostname, o.hostname, TRUE) \in Texts
      /\ Candidate(a.displayName, o.hostname, FALSE) \in Texts
  BY <1>1, CandidateType DEF IsAsset
<1>3. Keeps(a, b, {"hostname", "displayName"}) /\ DOMAIN b = Fields
  BY DEF ApplyHostname, Keeps, IsAsset, Fields
<1>4. b.hostname \in Texts /\ b.displayName \in Texts
  BY <1>2 DEF ApplyHostname, IsAsset, Fields
<1>5. QED
  BY <1>3, <1>4 DEF Keeps, IsAsset, Fields

\* The summary fields.
LEMMA SummaryKeeps ==
  ASSUME NEW a, IsAsset(a), NEW o \in Observations
  PROVE  /\ IsAsset(ApplySummaryCandidates(a, o))
         /\ Keeps(a, ApplySummaryCandidates(a, o),
                  {"displayName", "vendor", "deviceType", "modelHint", "osHint"})
<1> DEFINE b == ApplySummaryCandidates(a, o)
<1>1. {o.displayName, o.vendor, o.osHint, o.deviceType, o.modelHint} \subseteq Texts
  BY ObservationAssumption
<1>2. /\ Candidate(a.displayName, o.displayName, NameWins(a, o)) \in Texts
      /\ Candidate(a.vendor, o.vendor, TRUE) \in Texts
      /\ Candidate(a.deviceType, o.deviceType, o.sourceId = "mdns") \in Texts
      /\ Candidate(a.modelHint, o.modelHint, o.sourceId = "mdns") \in Texts
      /\ Candidate(a.osHint, o.osHint, OsWins(a, o)) \in Texts
  BY <1>1, CandidateType DEF IsAsset
<1>3. Keeps(a, b, {"displayName", "vendor", "deviceType", "modelHint", "osHint"}) /\ DOMAIN b = Fields
  BY DEF ApplySummaryCandidates, Keeps, IsAsset, Fields
<1>4. {b.displayName, b.vendor, b.osHint, b.deviceType, b.modelHint} \subseteq Texts
  BY <1>2 DEF ApplySummaryCandidates, IsAsset, Fields
<1>5. QED
  BY <1>3, <1>4 DEF Keeps, IsAsset, Fields

\* Merging well-formed records gives well-formed records.
LEMMA MergeRecordsType ==
  ASSUME NEW K, NEW V, NEW r, NEW s, IsRecords(r, K, V), IsRecords(s, K, V)
  PROVE  IsRecords(MergeRecords(r, s), K, V)
<1> DEFINE Rec == [values : SUBSET V, source : Texts, first : Int, last : Int]
<1>1. \A x, y \in Rec : MergeRecord(x, y) \in Rec
  BY DEF MergeRecord, Earlier, Later
<1>2. DOMAIN MergeRecords(r, s) = DOMAIN r \union DOMAIN s
  BY DEF MergeRecords
<1>3. \A k \in DOMAIN r \union DOMAIN s : MergeRecords(r, s)[k] \in Rec
  BY <1>1 DEF MergeRecords, IsRecords
<1>4. MergeRecords(r, s) \in [DOMAIN r \union DOMAIN s -> Rec]
  BY <1>3 DEF MergeRecords
<1>5. QED
  BY <1>2, <1>4 DEF IsRecords

\* The records of one observation.
LEMMA ObservedRecordsType ==
  ASSUME NEW o \in Observations
  PROVE  IsRecords(ObservedRecords(o), Keys, Values)
<1>1. /\ o.sourceId \in Texts /\ o.timestamp \in Int /\ DOMAIN o.metadata \subseteq Keys
      /\ \A k \in DOMAIN o.metadata : Range(o.metadata[k]) \subseteq Values
  BY ObservationAssumption DEF Range
<1>2. QED
  BY <1>1 DEF IsRecords, ObservedRecords, Record

\* Addresses, sources and metadata.
LEMMA ObservedKeeps ==
  ASSUME NEW a, IsAsset(a), NEW o \in Observations
  PROVE  /\ IsAsset(MergeObserved(a, o))
         /\ Keeps(a, MergeObserved(a, o), {"ipAddresses", "sources", "metadata", "observed"})
         /\ MergeObserved(a, o).ipAddresses = a.ipAddresses \union ({o.ipAddress} \ {None})
         /\ MergeObserved(a, o).sources = a.sources \union {o.sourceId}
         /\ MergeObserved(a, o).observed = MergeRecords(a.observed, ObservedRecords(o))
<1> DEFINE b == MergeObserved(a, o)
<1>1. /\ o.sourceId \in Texts /\ o.ipAddress \in Texts /\ DOMAIN o.metadata \subseteq Keys
      /\ \A k \in DOMAIN o.metadata : Last(o.metadata[k]) \in Values
  BY ObservationAssumption DEF Last
<1>2. IsRecords(MergeRecords(a.observed, ObservedRecords(o)), Keys, Values)
  BY MergeRecordsType, ObservedRecordsType DEF IsAsset
<1>3. /\ Keeps(a, b, {"ipAddresses", "sources", "metadata", "observed"}) /\ DOMAIN b = Fields
      /\ b.ipAddresses = a.ipAddresses \union ({o.ipAddress} \ {None})
      /\ b.sources = a.sources \union {o.sourceId}
      /\ b.observed = MergeRecords(a.observed, ObservedRecords(o))
      /\ b.metadata = [k \in DOMAIN a.metadata \union DOMAIN o.metadata |->
                         IF k \in DOMAIN o.metadata THEN Last(o.metadata[k]) ELSE a.metadata[k]]
  BY DEF MergeObserved, Keeps, IsAsset, Fields
<1>4. b.metadata \in [DOMAIN b.metadata -> Values] /\ DOMAIN b.metadata \subseteq Keys
  BY <1>1, <1>3 DEF IsAsset
<1>5. QED
  BY <1>1, <1>2, <1>3, <1>4 DEF Keeps, IsAsset, Fields

\* The registrant an asset has been given, if it has one, is that of its address.
Known(a) ==
  "mac.oui.registrant" \in DOMAIN a.reference =>
    /\ Registrant[a.macAddress] # None
    /\ a.reference["mac.oui.registrant"].values = {Registrant[a.macAddress]}

Registered(a) ==
  Known(a) /\ (Registrant[a.macAddress] # None => "mac.oui.registrant" \in DOMAIN a.reference)

\* The vendor and the reference metadata; the registrant is recorded once.
LEMMA ReferenceKeeps ==
  ASSUME NEW a, IsAsset(a), Known(a)
  PROVE  /\ IsAsset(AddMacReferenceMetadata(a))
         /\ Keeps(a, AddMacReferenceMetadata(a), {"vendor", "reference"})
         /\ Registered(AddMacReferenceMetadata(a))
<1> DEFINE mac == a.macAddress
           R == [k \in IF Registrant[mac] = None THEN {"mac.oui"} ELSE ReferenceKeys |->
                   IF k = "mac.oui" THEN Record({mac}, "mac-address", a.firstSeen)
                   ELSE Record({Registrant[mac]}, "curated-oui", a.firstSeen)]
           b == AddMacReferenceMetadata(a)
<1>1. mac \in Macs /\ Registrant[mac] \in Texts
  BY MacAssumption DEF IsAsset
<1>2. IsRecords(R, ReferenceKeys, Macs \union Texts)
  <2>1. a.firstSeen \in Int
    BY DEF IsAsset
  <2>2. DOMAIN R \subseteq ReferenceKeys
    BY DEF ReferenceKeys
  <2>3. ASSUME NEW k \in DOMAIN R
        PROVE  R[k] \in [values : SUBSET (Macs \union Texts), source : Texts, first : Int, last : Int]
    <3>1. \/ R[k] = Record({mac}, "mac-address", a.firstSeen)
          \/ R[k] = Record({Registrant[mac]}, "curated-oui", a.firstSeen)
      OBVIOUS
    <3>2. "mac-address" \in Texts /\ "curated-oui" \in Texts
      BY TextAssumption
    <3>3. {mac} \subseteq Macs \union Texts /\ {Registrant[mac]} \subseteq Macs \union Texts
      BY <1>1
    <3>4. QED
      BY <2>1, <3>1, <3>2, <3>3 DEF Record
  <2>4. QED
    BY <2>2, <2>3 DEF IsRecords
<1>3. IsRecords(MergeRecords(a.reference, R), ReferenceKeys, Macs \union Texts)
  BY <1>2, MergeRecordsType DEF IsAsset
<1>4. /\ Keeps(a, b, {"vendor", "reference"}) /\ DOMAIN b = Fields
      /\ b.reference = MergeRecords(a.reference, R)
      /\ b.vendor = Candidate(a.vendor, Registrant[mac], FALSE)
  BY DEF AddMacReferenceMetadata, Keeps, IsAsset, Fields
<1>5. b.vendor \in Texts
  BY <1>1, <1>4, CandidateType DEF IsAsset
<1>6. IsAsset(b)
  BY <1>3, <1>4, <1>5 DEF Keeps, IsAsset, Fields
<1>7. b.macAddress = mac
  BY <1>4 DEF Keeps, Fields
<1> DEFINE key == "mac.oui.registrant"
<1>8. CASE Registrant[mac] = None
  <2>1. key \notin DOMAIN a.reference /\ key \notin DOMAIN R
    BY <1>8 DEF Known
  <2>2. key \notin DOMAIN b.reference
    BY <2>1, <1>4 DEF MergeRecords
  <2>3. QED
    BY <2>2, <1>4, <1>6, <1>7, <1>8 DEF Registered, Known
<1>9. CASE Registrant[mac] # None
  <2>1. key \in DOMAIN R /\ R[key].values = {Registrant[mac]}
    BY <1>9 DEF Record, ReferenceKeys
  <2>2. key \in DOMAIN b.reference
    BY <2>1, <1>4 DEF MergeRecords
  <2>3. ASSUME key \in DOMAIN a.reference
        PROVE  b.reference[key].values = {Registrant[mac]}
    <3>1. a.reference[key].values = {Registrant[mac]}
      BY <2>3 DEF Known
    <3>2. a.reference[key] \in [values : SUBSET (Macs \union Texts), source : Texts, first : Int, last : Int]
      BY <2>3 DEF IsAsset, IsRecords
    <3>3. b.reference[key] = MergeRecord(a.reference[key], R[key])
      BY <2>1, <2>3, <1>4 DEF MergeRecords
    <3>4. b.reference[key].values = a.reference[key].values \union R[key].values
      BY <3>2, <3>3 DEF MergeRecord
    <3>5. QED
      BY <3>1, <3>4, <2>1
  <2>4. ASSUME key \notin DOMAIN a.reference
        PROVE  b.reference[key].values = {Registrant[mac]}
    BY <2>1, <2>4, <1>4 DEF MergeRecords
  <2>5. b.reference[key].values = {Registrant[mac]}
    BY <2>3, <2>4
  <2>6. QED
    BY <2>2, <2>5, <1>4, <1>6, <1>7, <1>9 DEF Registered, Known
<1>10. QED
  BY <1>8, <1>9

\* What a whole merge does to the facts of an asset.
LEMMA MergedFacts ==
  ASSUME NEW a, IsAsset(a), Known(a), NEW o \in Observations
  PROVE  LET b == Merged(a, o)
         IN  /\ IsAsset(b) /\ Registered(b)
             /\ b.macAddress = a.macAddress
             /\ b.firstSeen = a.firstSeen /\ b.lastSeen = a.lastSeen
             /\ b.ipAddresses = a.ipAddresses \union ({o.ipAddress} \ {None})
             /\ b.sources = a.sources \union {o.sourceId}
             /\ b.observed = MergeRecords(a.observed, ObservedRecords(o))
             /\ b.derivedHints = DerivedHints(b)
<1> DEFINE h == ApplyHostname(a, o)
           s == ApplySummaryCandidates(h, o)
           v == MergeObserved(s, o)
           r == AddMacReferenceMetadata(v)
           b == RegenerateDerivedHints(r)
<1>1. IsAsset(h) /\ Keeps(a, h, {"hostname", "displayName"})
  BY HostnameKeeps
<1>2. IsAsset(s) /\ Keeps(h, s, {"displayName", "vendor", "deviceType", "modelHint", "osHint"})
  BY <1>1, SummaryKeeps
<1>3. /\ s.macAddress = a.macAddress /\ s.firstSeen = a.firstSeen /\ s.lastSeen = a.lastSeen
      /\ s.ipAddresses = a.ipAddresses /\ s.sources = a.sources /\ s.observed = a.observed
      /\ s.reference = a.reference
  BY <1>1, <1>2 DEF Keeps, Fields
<1>4. /\ IsAsset(v) /\ Keeps(s, v, {"ipAddresses", "sources", "metadata", "observed"})
      /\ v.ipAddresses = s.ipAddresses \union ({o.ipAddress} \ {None})
      /\ v.sources = s.sources \union {o.sourceId}
      /\ v.observed = MergeRecords(s.observed, ObservedRecords(o))
  BY <1>2, ObservedKeeps
<1>5. /\ v.macAddress = a.macAddress /\ v.firstSeen = a.firstSeen /\ v.lastSeen = a.lastSeen
      /\ v.reference = a.reference
  BY <1>3, <1>4 DEF Keeps, Fields
<1>6. Known(v)
  BY <1>5 DEF Known
<1>7. IsAsset(r) /\ Keeps(v, r, {"vendor", "reference"}) /\ Registered(r)
  BY <1>4, <1>6, ReferenceKeeps
<1>8. /\ r.macAddress = v.macAddress /\ r.firstSeen = v.firstSeen /\ r.lastSeen = v.lastSeen
      /\ r.ipAddresses = v.ipAddresses /\ r.sources = v.sources /\ r.observed = v.observed
  BY <1>7 DEF Keeps, Fields
<1>9. Keeps(r, b, {"derivedHints"}) /\ DOMAIN b = Fields /\ b.derivedHints = DerivedHints(r)
  BY <1>7 DEF RegenerateDerivedHints, Keeps, IsAsset, Fields
<1>10. /\ b.macAddress = r.macAddress /\ b.firstSeen = r.firstSeen /\ b.lastSeen = r.lastSeen
       /\ b.ipAddresses = r.ipAddresses /\ b.sources = r.sources /\ b.observed = r.observed
       /\ b.reference = r.reference
  BY <1>9 DEF Keeps, Fields
<1>11. IsAsset(b)
  BY <1>7, <1>9 DEF Keeps, IsAsset, Fields
<1>12. Registered(b)
  BY <1>7, <1>10 DEF Registered, Known
<1>13. DerivedHints(b) = DerivedHints(r)
  BY <1>10 DEF DerivedHints, MetadataValues
<1>14. b = Merged(a, o)
  BY DEF Merged, EnrichMetadata
<1> HIDE DEF h, s, v, r, b
<1>15. /\ b.macAddress = a.macAddress /\ b.firstSeen = a.firstSeen /\ b.lastSeen = a.lastSeen
       /\ b.ipAddresses = a.ipAddresses \union ({o.ipAddress} \ {None})
       /\ b.sources = a.sources \union {o.sourceId}
       /\ b.observed = MergeRecords(a.observed, ObservedRecords(o))
       /\ b.derivedHints = DerivedHints(b)
  BY <1>3, <1>4, <1>5, <1>8, <1>9, <1>10, <1>13
<1>16. QED
  BY <1>11, <1>12, <1>14, <1>15

-----------------------------------------------------------------------------
(* The facts about one asset, as a predicate of the set S of its observations. *)

\* The facts of FactsOfObservations that do not follow from the others.
Facts(a, S) ==
  /\ IsAsset(a) /\ Registered(a)
  /\ Earliest(a.firstSeen, S)
  /\ Latest(a.lastSeen, S)
  /\ a.ipAddresses = {o.ipAddress : o \in S} \ {None}
  /\ a.sources = {o.sourceId : o \in S}
  /\ \A k \in Keys : ObservedUnder(a, k, S)
  /\ a.derivedHints = DerivedHints(a)

\* One key: the record of the old observations merged with that of the new one.
LEMMA ObservedUnderGrows ==
  ASSUME NEW a, IsAsset(a), NEW S \in SUBSET Observations, NEW o \in Observations, NEW k \in Keys,
         ObservedUnder(a, k, S),
         NEW b, b.observed = MergeRecords(a.observed, ObservedRecords(o))
  PROVE  ObservedUnder(b, k, S \union {o})
<1> DEFINE C == {p \in S : k \in DOMAIN p.metadata}
           D == {p \in S \union {o} : k \in DOMAIN p.metadata}
           R == ObservedRecords(o)
<1>1. /\ DOMAIN b.observed = DOMAIN a.observed \union DOMAIN o.metadata
      /\ DOMAIN R = DOMAIN o.metadata
  BY DEF MergeRecords, ObservedRecords
<1>2. CASE k \notin DOMAIN o.metadata
  <2>1. C = D
    BY <1>2
  <2>2. k \in DOMAIN a.observed => b.observed[k] = a.observed[k]
    BY <1>1, <1>2 DEF MergeRecords
  <2>3. QED
    BY <1>1, <1>2, <2>1, <2>2 DEF ObservedUnder
<1>3. CASE k \in DOMAIN o.metadata
  <2>1. D = C \union {o} /\ D # {} /\ k \in DOMAIN b.observed
    BY <1>1, <1>3
  <2>2. R[k] = Record(Range(o.metadata[k]), o.sourceId, o.timestamp)
    BY <1>3 DEF ObservedRecords
  <2>3. R[k].values = Range(o.metadata[k]) /\ R[k].first = o.timestamp /\ R[k].last = o.timestamp
    BY <2>2 DEF Record
  <2>4. \A p \in S \union {o} : p.timestamp \in Int
    BY ObservationAssumption
  <2>5. CASE C = {}
    <3>1. k \notin DOMAIN a.observed
      BY <2>5 DEF ObservedUnder
    <3>2. b.observed[k] = R[k]
      BY <3>1, <1>1, <1>3 DEF MergeRecords
    <3>3. D = {o}
      BY <2>1, <2>5
    <3>4. Earliest(o.timestamp, D) /\ Latest(o.timestamp, D)
      BY <3>3, <2>4 DEF Earliest, Latest
    <3>5. UNION {Range(p.metadata[k]) : p \in D} = Range(o.metadata[k])
      BY <3>3
    <3>6. QED
      BY <2>1, <2>3, <3>2, <3>4, <3>5 DEF ObservedUnder
  <2>6. CASE C # {}
    <3>1. /\ k \in DOMAIN a.observed
          /\ a.observed[k].values = UNION {Range(p.metadata[k]) : p \in C}
          /\ Earliest(a.observed[k].first, C)
          /\ Latest(a.observed[k].last, C)
      BY <2>6 DEF ObservedUnder
    <3>2. a.observed[k] \in [values : SUBSET Values, source : Texts, first : Int, last : Int]
      BY <3>1 DEF IsAsset, IsRecords
    <3>3. b.observed[k] = MergeRecord(a.observed[k], R[k])
      BY <3>1, <1>1, <1>3 DEF MergeRecords
    <3>4. /\ b.observed[k].values = a.observed[k].values \union Range(o.metadata[k])
          /\ b.observed[k].first = Earlier(a.observed[k].first, o.timestamp)
          /\ b.observed[k].last = Later(a.observed[k].last, o.timestamp)
      BY <3>2, <3>3, <2>3 DEF MergeRecord
    <3>5. UNION {Range(p.metadata[k]) : p \in D}
            = (UNION {Range(p.metadata[k]) : p \in C}) \union Range(o.metadata[k])
      BY <2>1
    <3>6. Earliest(b.observed[k].first, D)
      BY <2>1, <2>4, <3>1, <3>2, <3>4 DEF Earliest, Earlier
    <3>7. Latest(b.observed[k].last, D)
      BY <2>1, <2>4, <3>1, <3>2, <3>4 DEF Latest, Later
    <3>8. QED
      BY <2>1, <3>1, <3>4, <3>5, <3>6, <3>7 DEF ObservedUnder
  <2>7. QED
    BY <2>5, <2>6
<1>4. QED
  BY <1>2, <1>3

\* An observation of a known asset extends the facts.
LEMMA FactsGrow ==
  ASSUME NEW S \in SUBSET Observations, NEW a, Facts(a, S), NEW o \in Observations
  PROVE  LET b == Merged(SeenAgain(a, o.timestamp), o)
         IN  Facts(b, S \union {o}) /\ b.macAddress = a.macAddress
<1> DEFINE c == SeenAgain(a, o.timestamp)
           b == Merged(c, o)
<1>1. o.timestamp \in Int /\ \A p \in S : p.timestamp \in Int
  BY ObservationAssumption
<1>2. /\ Keeps(a, c, {"firstSeen", "lastSeen"}) /\ DOMAIN c = Fields
      /\ c.firstSeen = Earlier(a.firstSeen, o.timestamp)
      /\ c.lastSeen = Later(a.lastSeen, o.timestamp)
  BY DEF SeenAgain, Keeps, Facts, IsAsset, Fields
<1>3. a.firstSeen \in Int /\ a.lastSeen \in Int
  BY DEF Facts, IsAsset
<1>4. c.firstSeen \in Int /\ c.lastSeen \in Int
  BY <1>1, <1>2, <1>3 DEF Earlier, Later
<1>5. /\ c.macAddress = a.macAddress /\ c.ipAddresses = a.ipAddresses /\ c.sources = a.sources
      /\ c.observed = a.observed /\ c.reference = a.reference
  BY <1>2 DEF Keeps, Fields
<1>6. IsAsset(c)
  BY <1>2, <1>4 DEF Facts, Keeps, IsAsset, Fields
<1>7. Known(c)
  BY <1>5 DEF Facts, Registered, Known
<1> HIDE DEF c
<1>8. /\ IsAsset(b) /\ Registered(b)
      /\ b.macAddress = c.macAddress
      /\ b.firstSeen = c.firstSeen /\ b.lastSeen = c.lastSeen
      /\ b.ipAddresses = c.ipAddresses \union ({o.ipAddress} \ {None})
      /\ b.sources = c.sources \union {o.sourceId}
      /\ b.observed = MergeRecords(c.observed, ObservedRecords(o))
      /\ b.derivedHints = DerivedHints(b)
  BY <1>6, <1>7, MergedFacts
<1> HIDE DEF b
<1>9. Earliest(b.firstSeen, S \union {o})
  BY <1>1, <1>2, <1>3, <1>8 DEF Facts, Earliest, Earlier
<1>10. Latest(b.lastSeen, S \union {o})
  BY <1>1, <1>2, <1>3, <1>8 DEF Facts, Latest, Later
<1>11. /\ b.ipAddresses = {p.ipAddress : p \in S \union {o}} \ {None}
       /\ b.sources = {p.sourceId : p \in S \union {o}}
  BY <1>5, <1>8 DEF Facts
<1>12. ASSUME NEW k \in Keys
       PROVE  ObservedUnder(b, k, S \union {o})
  <2>1. ObservedUnder(c, k, S)
    BY <1>5 DEF Facts, ObservedUnder
  <2>2. QED
    BY <2>1, <1>6, <1>8, ObservedUnderGrows
<1>13. b.macAddress = a.macAddress
  BY <1>5, <1>8
<1>14. Facts(b, S \union {o})
  BY <1>8, <1>9, <1>10, <1>11, <1>12 DEF Facts
<1>15. QED
  BY <1>13, <1>14 DEF b, c

\* An asset nothing has been merged into yet.
LEMMA NewAssetIsKnown ==
  ASSUME NEW mac \in Macs, NEW o \in Observations
  PROVE  LET c == NewAsset(mac, o.timestamp) IN IsAsset(c) /\ Known(c)
<1> DEFINE c == NewAsset(mac, o.timestamp)
<1>1. o.timestamp \in Int
  BY ObservationAssumption
<1>2. /\ DOMAIN c = Fields /\ c.macAddress = mac
      /\ c.firstSeen = o.timestamp /\ c.lastSeen = o.timestamp
      /\ c.ipAddresses = {} /\ c.sources = {}
      /\ c.metadata = Empty /\ c.observed = Empty /\ c.reference = Empty
      /\ {c.hostname, c.displayName, c.vendor, c.osHint, c.deviceType, c.modelHint} = {None}
  BY DEF NewAsset, Fields
<1>3. DOMAIN Empty = {} /\ Empty \in [{} -> {}]
  BY DEF Empty
<1> HIDE DEF c
<1>4. IsRecords(Empty, Keys, Values) /\ IsRecords(Empty, ReferenceKeys, Macs \union Texts)
  BY <1>3 DEF IsRecords
<1>5. Empty \in [DOMAIN Empty -> Values] /\ DOMAIN Empty \subseteq Keys
  BY <1>3
<1>6. IsAsset(c)
  BY <1>1, <1>2, <1>4, <1>5, TextAssumption DEF IsAsset
<1>7. Known(c)
  BY <1>2, <1>3 DEF Known
<1> QED
  BY <1>6, <1>7 DEF c

\* The first observation of an asset establishes them.
LEMMA FactsBegin ==
  ASSUME NEW mac \in Macs, NEW o \in Observations
  PROVE  LET b == Merged(NewAsset(mac, o.timestamp), o)
         IN  Facts(b, {o}) /\ b.macAddress = mac
<1> DEFINE c == NewAsset(mac, o.timestamp)
           b == Merged(c, o)
<1>1. o.timestamp \in Int
  BY ObservationAssumption
<1>2. /\ DOMAIN c = Fields /\ c.macAddress = mac
      /\ c.firstSeen = o.timestamp /\ c.lastSeen = o.timestamp
      /\ c.ipAddresses = {} /\ c.sources = {}
      /\ c.metadata = Empty /\ c.observed = Empty /\ c.reference = Empty
      /\ {c.hostname, c.displayName, c.vendor, c.osHint, c.deviceType, c.modelHint} = {None}
  BY DEF NewAsset, Fields
<1>3. DOMAIN Empty = {} /\ Empty \in [{} -> {}]
  BY DEF Empty
<1>4. IsAsset(c) /\ Known(c)
  BY NewAssetIsKnown
<1> HIDE DEF c
<1>5. /\ IsAsset(b) /\ Registered(b)
      /\ b.macAddress = c.macAddress
      /\ b.firstSeen = c.firstSeen /\ b.lastSeen = c.lastSeen
      /\ b.ipAddresses = c.ipAddresses \union ({o.ipAddress} \ {None})
      /\ b.sources = c.sources \union {o.sourceId}
      /\ b.observed = MergeRecords(c.observed, ObservedRecords(o))
      /\ b.derivedHints = DerivedHints(b)
  BY <1>4, MergedFacts
<1> HIDE DEF b
<1>9. Earliest(b.firstSeen, {o}) /\ Latest(b.lastSeen, {o})
  BY <1>1, <1>2, <1>5 DEF Earliest, Latest
<1>10. /\ b.ipAddresses = {p.ipAddress : p \in {o}} \ {None}
       /\ b.sources = {p.sourceId : p \in {o}}
  BY <1>2, <1>5
<1>11. ASSUME NEW k \in Keys
       PROVE  ObservedUnder(b, k, {o})
  <2>1. ObservedUnder(c, k, {})
    BY <1>2, <1>3 DEF ObservedUnder
  <2>2. ObservedUnder(b, k, {} \union {o})
    BY <2>1, <1>4, <1>5, ObservedUnderGrows
  <2>3. {} \union {o} = {o}
    OBVIOUS
  <2>4. QED
    BY <2>2, <2>3
<1>12. Facts(b, {o})
  BY <1>5, <1>9, <1>10, <1>11 DEF Facts
<1>13. b.macAddress = mac
  BY <1>2, <1>5
<1>14. QED
  BY <1>12, <1>13 DEF b, c

\* An observable key's values are those that were reported, and only those.
LEMMA ValuesReported ==
  ASSUME NEW S \in SUBSET Observations, NEW a, Facts(a, S), NEW key, key \notin ReferenceKeys, NEW v
  PROVE  v \in MetadataValues(a, key) <=> Reported(S, key, {v})
<1>1. key \notin DOMAIN a.reference
  BY DEF Facts, IsAsset, IsRecords
<1>2. CASE key \in Keys
  <2>1. ObservedUnder(a, key, S)
    BY <1>2 DEF Facts
  <2>2. CASE {o \in S : key \in DOMAIN o.metadata} = {}
    BY <1>1, <2>1, <2>2 DEF ObservedUnder, MetadataValues, Reported
  <2>3. CASE {o \in S : key \in DOMAIN o.metadata} # {}
    <3>1. MetadataValues(a, key)
            = UNION {Range(o.metadata[key]) : o \in {p \in S : key \in DOMAIN p.metadata}}
      BY <2>1, <2>3 DEF ObservedUnder, MetadataValues
    <3>2. QED
      BY <3>1 DEF Reported
  <2>4. QED
    BY <2>2, <2>3
<1>3. CASE key \notin Keys
  <2>1. key \notin DOMAIN a.observed
    BY <1>3 DEF Facts, IsAsset, IsRecords
  <2>2. \A o \in S : key \notin DOMAIN o.metadata
    BY <1>3, ObservationAssumption
  <2>3. QED
    BY <1>1, <2>1, <2>2 DEF MetadataValues, Reported
<1>4. QED
  BY <1>2, <1>3

\* The hints an asset has are those its observations imply.
LEMMA HintsImplied ==
  ASSUME NEW S \in SUBSET Observations, NEW a, Facts(a, S)
  PROVE  a.derivedHints = HintsOf(a.macAddress, S)
<1> DEFINE services == MetadataValues(a, "mdns.services")
           class == MetadataValues(a, "dhcp.vendor_class_identifier")
           ports == MetadataValues(a, "tcp.syn_ack_ports")
           registrant == MetadataValues(a, "mac.oui.registrant")
           printers == {"_ipp._tcp.local", "_printer._tcp.local"}
           microsoft == {"MSFT", "Microsoft"}
<1>1. Reported(S, "mdns.services", printers) <=> services \intersect printers # {}
  <2>1. "mdns.services" \notin ReferenceKeys
    BY DEF ReferenceKeys
  <2>2. \A v : v \in services <=> Reported(S, "mdns.services", {v})
    BY <2>1, ValuesReported
  <2>3. QED
    BY <2>2 DEF Reported
<1>2. Reported(S, "dhcp.vendor_class_identifier", microsoft) <=> class \intersect microsoft # {}
  <2>1. "dhcp.vendor_class_identifier" \notin ReferenceKeys
    BY DEF ReferenceKeys
  <2>2. \A v : v \in class <=> Reported(S, "dhcp.vendor_class_identifier", {v})
    BY <2>1, ValuesReported
  <2>3. QED
    BY <2>2 DEF Reported
<1>3. Reported(S, "tcp.syn_ack_ports", Values) <=> ports # {}
  <2>1. "tcp.syn_ack_ports" \notin ReferenceKeys
    BY DEF ReferenceKeys
  <2>2. \A v : v \in ports <=> Reported(S, "tcp.syn_ack_ports", {v})
    BY <2>1, ValuesReported
  <2>3. \A o \in S : \A k \in DOMAIN o.metadata : Range(o.metadata[k]) \subseteq Values
    BY ObservationAssumption DEF Range
  <2>4. QED
    BY <2>2, <2>3 DEF Reported
<1>4. registrant = IF Registrant[a.macAddress] = None THEN {} ELSE {Registrant[a.macAddress]}
  <2>1. "mac.oui.registrant" \notin DOMAIN a.observed
    BY KeyAssumption DEF Facts, IsAsset, IsRecords, ReferenceKeys
  <2>2. QED
    BY <2>1 DEF Facts, Registered, Known, MetadataValues
<1>5. a.derivedHints =
        {Hint("device_type", "printer") : v \in services \intersect printers}
        \union {Hint("os", "windows") : v \in class \intersect microsoft}
        \union {Hint("role", "server_candidate") : v \in ports}
        \union {Hint("vendor", v) : v \in registrant}
  BY DEF Facts, DerivedHints
<1> DEFINE R == Registrant[a.macAddress]
<1>6. HintsOf(a.macAddress, S) =
        {h \in {Hint("device_type", "printer"), Hint("os", "windows"), Hint("role", "server_candidate"),
                Hint("vendor", R)} :
           \/ h.category = "device_type" /\ services \intersect printers # {}
           \/ h.category = "os" /\ class \intersect microsoft # {}
           \/ h.category = "role" /\ ports # {}
           \/ h.category = "vendor" /\ R # None}
  BY <1>1, <1>2, <1>3 DEF HintsOf
<1>7. /\ Hint("device_type", "printer").category = "device_type"
      /\ Hint("os", "windows").category = "os"
      /\ Hint("role", "server_candidate").category = "role"
      /\ Hint("vendor", R).category = "vendor"
  BY DEF Hint
<1> HIDE DEF services, class, ports, registrant, printers, microsoft, R
<1>8. ASSUME NEW h
      PROVE  h \in HintsOf(a.macAddress, S) <=>
               \/ h = Hint("device_type", "printer") /\ services \intersect printers # {}
               \/ h = Hint("os", "windows") /\ class \intersect microsoft # {}
               \/ h = Hint("role", "server_candidate") /\ ports # {}
               \/ h = Hint("vendor", R) /\ R # None
  BY <1>6, <1>7
<1>9. ASSUME NEW h
      PROVE  h \in a.derivedHints <=>
               \/ h = Hint("device_type", "printer") /\ services \intersect printers # {}
               \/ h = Hint("os", "windows") /\ class \intersect microsoft # {}
               \/ h = Hint("role", "server_candidate") /\ ports # {}
               \/ h = Hint("vendor", R) /\ R # None
  BY <1>4, <1>5 DEF R
<1>10. QED
  BY <1>8, <1>9, <1>5, <1>6

-----------------------------------------------------------------------------
(* Every step.                                                             *)

\* The inductive invariant.
IInv ==
  /\ applied \subseteq Observations
  /\ Stored = {ToLower[o.macAddress] : o \in applied}
  /\ assetsByMac = [m \in Stored |-> assetsByMac[m]]
  /\ \A m \in Stored : Facts(assetsByMac[m], Of(m)) /\ assetsByMac[m].macAddress = m
  /\ events \in Seq([macAddress : Macs, timestamp : Int, ipAddress : Texts, hostname : Texts,
                     protocol : Texts])
  /\ stopped \in BOOLEAN

\* The asset of the observation, and no other, gains that observation.
LEMMA StoreKeepsFacts ==
  ASSUME IInv, NEW o \in Observations, Store(o)
  PROVE  /\ applied' \subseteq Observations
         /\ Stored' = {ToLower[p.macAddress] : p \in applied'}
         /\ assetsByMac' = [m \in Stored' |-> assetsByMac'[m]]
         /\ \A m \in Stored' : Facts(assetsByMac'[m], Of(m)') /\ assetsByMac'[m].macAddress = m
<1> DEFINE mac == ToLower[o.macAddress]
<1>1. mac \in Macs
  BY ObservationAssumption
<1>2. applied' = applied \union {o} /\ assetsByMac' = ApplyObservation(assetsByMac, o)
  BY DEF Store
<1>3. Stored' = Stored \union {mac} /\ assetsByMac' = [m \in Stored' |-> assetsByMac'[m]]
  BY <1>2 DEF ApplyObservation, Stored
<1>4. Stored' = {ToLower[p.macAddress] : p \in applied'}
  BY <1>2, <1>3 DEF IInv
<1>5. \A m \in Stored' \ {mac} : m \in Stored /\ assetsByMac'[m] = assetsByMac[m] /\ Of(m)' = Of(m)
  BY <1>2, <1>3 DEF ApplyObservation, Stored, Of
<1>6. Of(mac)' = Of(mac) \union {o} /\ Of(mac) \subseteq Observations
  BY <1>2 DEF Of, IInv
<1>7. Facts(assetsByMac'[mac], Of(mac)') /\ assetsByMac'[mac].macAddress = mac
  <2>1. CASE mac \in Stored
    <3>1. assetsByMac'[mac] = Merged(SeenAgain(assetsByMac[mac], o.timestamp), o)
      BY <1>2, <2>1 DEF ApplyObservation, Stored
    <3>2. Facts(assetsByMac[mac], Of(mac)) /\ assetsByMac[mac].macAddress = mac
      BY <2>1 DEF IInv
    <3>3. QED
      BY <1>6, <3>1, <3>2, FactsGrow
  <2>2. CASE mac \notin Stored
    <3>1. assetsByMac'[mac] = Merged(NewAsset(mac, o.timestamp), o)
      BY <1>2, <2>2 DEF ApplyObservation, Stored
    <3>2. Of(mac) = {}
      BY <2>2 DEF IInv, Of
    <3>3. Of(mac)' = {o}
      BY <1>6, <3>2
    <3>4. QED
      BY <1>1, <3>1, <3>3, FactsBegin
  <2>3. QED
    BY <2>1, <2>2
<1>8. applied' \subseteq Observations
  BY <1>2 DEF IInv
<1>9. \A m \in Stored' : Facts(assetsByMac'[m], Of(m)') /\ assetsByMac'[m].macAddress = m
  BY <1>5, <1>7 DEF IInv
<1>10. QED
  BY <1>3, <1>4, <1>8, <1>9

\* An announcement takes its fields from the new asset.
LEMMA AnnounceType ==
  ASSUME IInv, NEW o \in Observations, Store(o), Announce(o)
  PROVE  events' \in Seq([macAddress : Macs, timestamp : Int, ipAddress : Texts, hostname : Texts,
                          protocol : Texts])
<1> DEFINE Event == [macAddress : Macs, timestamp : Int, ipAddress : Texts, hostname : Texts,
                     protocol : Texts]
           mac == ToLower[o.macAddress]
           asset == ApplyObservation(assetsByMac, o)[mac]
<1>1. events \in Seq(Event)
  BY DEF IInv
<1>2. IsAsset(asset)
  <2>1. mac \in Stored' /\ asset = assetsByMac'[mac]
    BY DEF Store, ApplyObservation, Stored
  <2>2. QED
    BY <2>1, StoreKeepsFacts DEF Facts
<1>3. \A S \in SUBSET Texts : AnyOf(S) \in Texts
  BY TextAssumption DEF AnyOf
<1>4. NewAssetEvent(asset) \in Event
  BY <1>2, <1>3 DEF NewAssetEvent, IsAsset
<1>5. events' = events \/ events' = Append(events, NewAssetEvent(asset))
  BY DEF Announce
<1> HIDE DEF Event, asset
<1>6. events' \in Seq(Event)
  BY <1>1, <1>4, <1>5
<1>7. QED
  BY <1>6 DEF Event

\* It holds initially and is kept.
LEMMA Inductive ==
  /\ Init => IInv
  /\ IInv /\ [Next]_vars => IInv'
<1>1. Init => IInv
  <2> SUFFICES ASSUME Init PROVE IInv
    OBVIOUS
  <2>1. assetsByMac = Empty /\ applied = {} /\ Stored = {}
    BY DEF Init, Empty, Stored
  <2>2. assetsByMac = [m \in Stored |-> assetsByMac[m]]
    BY <2>1 DEF Empty
  <2>3. Stored = {ToLower[o.macAddress] : o \in applied}
    BY <2>1
  <2>4. \A m \in Stored : Facts(assetsByMac[m], Of(m)) /\ assetsByMac[m].macAddress = m
    BY <2>1
  <2>5. /\ events \in Seq([macAddress : Macs, timestamp : Int, ipAddress : Texts, hostname : Texts,
                           protocol : Texts])
        /\ stopped \in BOOLEAN /\ applied \subseteq Observations
    <3>1. events = <<>> /\ stopped = FALSE /\ applied = {}
      BY DEF Init
    <3>2. \A T : <<>> \in Seq(T)
      OBVIOUS
    <3>3. QED
      BY <3>1, <3>2
  <2>6. QED
    BY <2>2, <2>3, <2>4, <2>5 DEF IInv
<1>2. ASSUME IInv, [Next]_vars
      PROVE  IInv'
  <2>1. ASSUME NEW o \in Observations, Observe(o)
        PROVE  IInv'
    <3>1. Store(o) /\ Announce(o) /\ stopped' \in BOOLEAN
      BY <2>1 DEF Observe
    <3>2. QED
      BY <3>1, StoreKeepsFacts, AnnounceType, <1>2 DEF IInv
  <2>2. ASSUME NEW o \in Observations, AssetCallbackThrows(o)
        PROVE  IInv'
    <3>1. Store(o) /\ events' = events /\ stopped' \in BOOLEAN
      BY <2>2 DEF AssetCallbackThrows
    <3>2. QED
      BY <3>1, StoreKeepsFacts, <1>2 DEF IInv
  <2>3. ASSUME NEW o \in Observations, EventCallbackThrows(o)
        PROVE  IInv'
    <3>1. Store(o) /\ Announce(o) /\ stopped' \in BOOLEAN
      BY <2>3 DEF EventCallbackThrows
    <3>2. QED
      BY <3>1, StoreKeepsFacts, AnnounceType, <1>2 DEF IInv
  <2>4. CASE UNCHANGED vars
    BY <1>2, <2>4 DEF IInv, vars, Stored, Of
  <2>5. QED
    BY <1>2, <2>1, <2>2, <2>3, <2>4 DEF Next
<1>3. QED
  BY <1>1, <1>2

\* Types, and no asset was last seen before it was first seen: whatever
\* observations AssetMonitor::applyObservation is given, and in whatever order.
THEOREM TypeCorrect == Spec => []TypeOK
<1>1. IInv => TypeOK
  <2> SUFFICES ASSUME IInv PROVE TypeOK
    OBVIOUS
  <2>1. Stored \subseteq Macs
    BY ObservationAssumption DEF IInv
  <2>2. ASSUME NEW m \in Stored
        PROVE  IsAsset(assetsByMac[m]) /\ assetsByMac[m].firstSeen <= assetsByMac[m].lastSeen
    <3>1. Facts(assetsByMac[m], Of(m)) /\ Of(m) \subseteq Observations
      BY DEF IInv, Of
    <3>2. QED
      BY <3>1, ObservationAssumption DEF Facts, Earliest, Latest, IsAsset
  <2>3. QED
    BY <2>1, <2>2 DEF TypeOK, IInv
<1>2. QED
  BY <1>1, Inductive, PTL DEF Spec

\* The facts about every asset depend on the set of its observations alone, for
\* any observations: reordering by several parser workers and repetition of a
\* packet change neither the times, addresses and sources nor the observed
\* values and derived hints that AssetStore::applyObservation accumulates.
THEOREM OrderIsIrrelevant == Spec => []FactsOfObservations
<1>1. IInv => FactsOfObservations
  <2> SUFFICES ASSUME IInv PROVE FactsOfObservations
    OBVIOUS
  <2>1. ASSUME NEW m \in Stored
        PROVE  assetsByMac[m].derivedHints = HintsOf(m, Of(m))
    <3>1. Facts(assetsByMac[m], Of(m)) /\ assetsByMac[m].macAddress = m /\ Of(m) \in SUBSET Observations
      BY DEF IInv, Of
    <3>2. QED
      BY <3>1, HintsImplied
  <2>2. QED
    BY <2>1 DEF FactsOfObservations, IInv, Facts
<1>2. QED
  BY <1>1, Inductive, PTL DEF Spec

-----------------------------------------------------------------------------
(* The summary of one asset, as a predicate of its observations.           *)

\* Among the observations of S the value is one that was told, and one told by the
\* source that outranks the others if it told any.
Ranked(value, S, field, source) ==
  /\ value = None \/ \E o \in S : value = o[field]
  /\ value = None => \A o \in S : o[field] = None
  /\ OneOf(value, Told(S, {source}, field))

Vendor(value, mac, S) ==
  \/ value # None /\ \E o \in S : value = o.vendor
  \/ value = Registrant[mac] /\ \A o \in S : o.vendor = None

Summary(a, S) ==
  /\ \A field \in {"displayName", "deviceType", "modelHint"} : Ranked(a[field], S, field, "mdns")
  /\ Ranked(a.osHint, S, "osHint", "dhcp")
  /\ Vendor(a.vendor, a.macAddress, S)

\* A candidate that wins whenever it comes from the outranking source, and
\* otherwise only where that source has told nothing.
LEMMA CandidateRanked ==
  ASSUME NEW S, NEW o, NEW field, NEW source, NEW current, Ranked(current, S, field, source),
         NEW wins \in BOOLEAN, o.sourceId = source => wins,
         wins /\ o.sourceId # source => Told(S, {source}, field) = {}
  PROVE  Ranked(Candidate(current, o[field], wins), S \union {o}, field, source)
<1> DEFINE value == Candidate(current, o[field], wins)
           T == S \union {o}
<1>1. value = None \/ \E p \in T : value = p[field]
  BY DEF Candidate, Ranked
<1>2. value = None => \A p \in T : p[field] = None
  BY DEF Candidate, Ranked
<1>3. Told(T, {source}, field) =
        Told(S, {source}, field) \union (IF o.sourceId = source THEN {o[field]} \ {None} ELSE {})
  BY DEF Told
<1>4. OneOf(value, Told(T, {source}, field))
  <2>1. CASE o.sourceId = source /\ o[field] # None
    <3>1. value = o[field]
      BY <2>1 DEF Candidate
    <3> QED
      BY <1>3, <2>1, <3>1 DEF OneOf
  <2>2. CASE ~(o.sourceId = source /\ o[field] # None)
    <3>1. Told(T, {source}, field) = Told(S, {source}, field)
      BY <1>3, <2>2
    <3> SUFFICES ASSUME Told(S, {source}, field) # {}
                 PROVE  value \in Told(S, {source}, field)
      BY <3>1 DEF OneOf
    <3>2. current \in Told(S, {source}, field)
      BY DEF Ranked, OneOf
    <3>3. current # None
      BY <3>2 DEF Told
    <3>4. value = current
      BY <2>2, <3>3 DEF Candidate
    <3> QED
      BY <3>2, <3>4
  <2> QED
    BY <2>1, <2>2
<1> QED
  BY <1>1, <1>2, <1>4 DEF Ranked

\* What a whole merge does to the summary of an asset.  The host name of a DHCP
\* observation is its name to display, so mDNS alone replaces a name.
LEMMA MergedSummary ==
  ASSUME NEW a, IsAsset(a), Known(a), NEW o \in Observations
  PROVE  LET b == Merged(a, o)
             mdns == o.sourceId = "mdns"
         IN  /\ b.displayName = Candidate(a.displayName, o.displayName, mdns)
             /\ b.deviceType = Candidate(a.deviceType, o.deviceType, mdns)
             /\ b.modelHint = Candidate(a.modelHint, o.modelHint, mdns)
             /\ b.osHint = Candidate(a.osHint, o.osHint, OsWins(a, o))
             /\ b.vendor = Candidate(Candidate(a.vendor, o.vendor, TRUE),
                                     Registrant[a.macAddress], FALSE)
<1> DEFINE h == ApplyHostname(a, o)
           s == ApplySummaryCandidates(h, o)
           v == MergeObserved(s, o)
           r == AddMacReferenceMetadata(v)
           b == RegenerateDerivedHints(r)
<1>1. IsAsset(h) /\ Keeps(a, h, {"hostname", "displayName"})
  BY HostnameKeeps
<1>2. /\ h.deviceType = a.deviceType /\ h.modelHint = a.modelHint /\ h.osHint = a.osHint
      /\ h.vendor = a.vendor /\ h.macAddress = a.macAddress /\ h.reference = a.reference
  BY <1>1 DEF Keeps, Fields
<1>3. /\ h.hostname = Candidate(a.hostname, o.hostname, TRUE)
      /\ h.displayName = Candidate(a.displayName, o.hostname, FALSE)
  BY DEF ApplyHostname, IsAsset, Fields
<1>4. IsAsset(s) /\ Keeps(h, s, {"displayName", "vendor", "deviceType", "modelHint", "osHint"})
  BY <1>1, SummaryKeeps
<1>5. /\ s.displayName = Candidate(h.displayName, o.displayName, NameWins(h, o))
      /\ s.vendor = Candidate(h.vendor, o.vendor, TRUE)
      /\ s.deviceType = Candidate(h.deviceType, o.deviceType, o.sourceId = "mdns")
      /\ s.modelHint = Candidate(h.modelHint, o.modelHint, o.sourceId = "mdns")
      /\ s.osHint = Candidate(h.osHint, o.osHint, OsWins(h, o))
  BY <1>1 DEF ApplySummaryCandidates, IsAsset, Fields
<1>6. s.macAddress = a.macAddress /\ s.reference = a.reference
  BY <1>2, <1>4 DEF Keeps, Fields
<1>7. IsAsset(v) /\ Keeps(s, v, {"ipAddresses", "sources", "metadata", "observed"})
  BY <1>4, ObservedKeeps
<1>8. /\ v.displayName = s.displayName /\ v.vendor = s.vendor /\ v.deviceType = s.deviceType
      /\ v.modelHint = s.modelHint /\ v.osHint = s.osHint
      /\ v.macAddress = a.macAddress /\ v.reference = a.reference
  BY <1>6, <1>7 DEF Keeps, Fields
<1>9. Known(v)
  BY <1>8 DEF Known
<1>10. IsAsset(r) /\ Keeps(v, r, {"vendor", "reference"})
  BY <1>7, <1>9, ReferenceKeeps
<1>11. r.vendor = Candidate(v.vendor, Registrant[v.macAddress], FALSE)
  BY <1>7 DEF AddMacReferenceMetadata, IsAsset, Fields
<1>12. Keeps(r, b, {"derivedHints"})
  BY <1>10 DEF RegenerateDerivedHints, Keeps, IsAsset, Fields
<1>13. /\ b.displayName = s.displayName /\ b.deviceType = s.deviceType
       /\ b.modelHint = s.modelHint /\ b.osHint = s.osHint
       /\ b.vendor = Candidate(s.vendor, Registrant[a.macAddress], FALSE)
  BY <1>8, <1>10, <1>11, <1>12 DEF Keeps, Fields
<1>14. b = Merged(a, o)
  BY DEF Merged, EnrichMetadata
<1> HIDE DEF h, s, v, r, b
<1>15. s.displayName = Candidate(a.displayName, o.displayName, o.sourceId = "mdns")
  <2>1. CASE o.sourceId = "dhcp"
    <3>1. o.displayName = o.hostname /\ o.sourceId # "mdns"
      BY <2>1, DhcpAssumption
    <3>2. NameWins(h, o) <=> h.displayName = h.hostname
      BY <2>1 DEF NameWins
    <3> QED
      BY <1>3, <1>5, <3>1, <3>2 DEF Candidate
  <2>2. CASE o.sourceId # "dhcp"
    <3>1. o.hostname = None
      BY <2>2, DhcpAssumption
    <3>2. NameWins(h, o) <=> o.sourceId = "mdns"
      BY <2>2 DEF NameWins
    <3>3. h.displayName = a.displayName
      BY <1>3, <3>1 DEF Candidate
    <3> QED
      BY <1>5, <3>2, <3>3 DEF Candidate
  <2> QED
    BY <2>1, <2>2
<1>16. OsWins(h, o) = OsWins(a, o)
  BY <1>2 DEF OsWins
<1> QED
  BY <1>2, <1>5, <1>13, <1>14, <1>15, <1>16

\* An observation more leaves the summary what it should be.
LEMMA SummaryGrows ==
  ASSUME NEW S \in SUBSET Observations, NEW a, IsAsset(a), Known(a),
         NEW o \in Observations, NEW c, IsAsset(c), Known(c), c.macAddress = a.macAddress,
         \A field \in {"displayName", "deviceType", "modelHint", "osHint"} : c[field] = a[field],
         c.vendor = a.vendor,
         Summary(a, S)
  PROVE  Summary(Merged(c, o), S \union {o})
<1> DEFINE b == Merged(c, o)
           mdns == o.sourceId = "mdns"
<1>1. /\ b.displayName = Candidate(c.displayName, o.displayName, mdns)
      /\ b.deviceType = Candidate(c.deviceType, o.deviceType, mdns)
      /\ b.modelHint = Candidate(c.modelHint, o.modelHint, mdns)
      /\ b.osHint = Candidate(c.osHint, o.osHint, OsWins(c, o))
      /\ b.vendor = Candidate(Candidate(c.vendor, o.vendor, TRUE), Registrant[c.macAddress], FALSE)
  BY MergedSummary
<1>2. b.macAddress = c.macAddress
  BY MergedFacts
<1> HIDE DEF b
<1>3. ASSUME NEW field \in {"displayName", "deviceType", "modelHint"}
      PROVE  Ranked(b[field], S \union {o}, field, "mdns")
  <2>1. b[field] = Candidate(c[field], o[field], mdns) /\ c[field] = a[field]
    BY <1>1
  <2>2. Ranked(a[field], S, field, "mdns")
    BY DEF Summary
  <2>3. PICK wins \in BOOLEAN : wins <=> mdns
    OBVIOUS
  <2>4. Ranked(Candidate(a[field], o[field], wins), S \union {o}, field, "mdns")
    BY <2>2, <2>3, CandidateRanked
  <2>5. Candidate(a[field], o[field], wins) = Candidate(a[field], o[field], mdns)
    BY <2>3 DEF Candidate
  <2> QED
    BY <2>1, <2>4, <2>5
<1>4. Ranked(b.osHint, S \union {o}, "osHint", "dhcp")
  <2>1. OsWins(c, o) \in BOOLEAN /\ (o.sourceId = "dhcp" => OsWins(c, o))
    BY DEF OsWins
  <2>2. ASSUME OsWins(c, o), o.sourceId # "dhcp"
        PROVE  Told(S, {"dhcp"}, "osHint") = {}
    <3>1. a.osHint \in {"linux/unix", "network-device"}
      BY <2>2 DEF OsWins
    <3>2. \A p \in Told(S, {"dhcp"}, "osHint") : p \notin {"linux/unix", "network-device"}
      BY DhcpAssumption DEF Told
    <3>3. OneOf(a.osHint, Told(S, {"dhcp"}, "osHint"))
      BY DEF Summary, Ranked
    <3> QED
      BY <3>1, <3>2, <3>3 DEF OneOf
  <2>3. Ranked(a.osHint, S, "osHint", "dhcp") /\ c.osHint = a.osHint
    BY DEF Summary
  <2>4. PICK wins \in BOOLEAN : wins <=> OsWins(c, o)
    OBVIOUS
  <2>5. Ranked(Candidate(a.osHint, o["osHint"], wins), S \union {o}, "osHint", "dhcp")
    BY <2>1, <2>2, <2>3, <2>4, CandidateRanked
  <2>6. Candidate(a.osHint, o.osHint, wins) = Candidate(a.osHint, o.osHint, OsWins(c, o))
    BY <2>4 DEF Candidate
  <2> QED
    BY <1>1, <2>3, <2>5, <2>6
<1>5. Vendor(b.vendor, b.macAddress, S \union {o})
  BY <1>1, <1>2 DEF Summary, Vendor, Candidate
<1> QED
  BY <1>3, <1>4, <1>5 DEF Summary, b

\* The first observation of an asset is all that its summary says.
LEMMA SummaryBegins ==
  ASSUME NEW mac \in Macs, NEW o \in Observations
  PROVE  Summary(Merged(NewAsset(mac, o.timestamp), o), {o})
<1> DEFINE c == NewAsset(mac, o.timestamp)
           b == Merged(c, o)
           mdns == o.sourceId = "mdns"
<1>1. /\ DOMAIN c = Fields /\ c.macAddress = mac
      /\ c.firstSeen = o.timestamp /\ c.lastSeen = o.timestamp
      /\ c.ipAddresses = {} /\ c.sources = {}
      /\ c.metadata = Empty /\ c.observed = Empty /\ c.reference = Empty
      /\ {c.hostname, c.displayName, c.vendor, c.osHint, c.deviceType, c.modelHint} = {None}
  BY DEF NewAsset, Fields
<1>2. IsAsset(c) /\ Known(c)
  BY <1>1, NewAssetIsKnown
<1> HIDE DEF c
<1>3. /\ b.displayName = Candidate(c.displayName, o.displayName, mdns)
      /\ b.deviceType = Candidate(c.deviceType, o.deviceType, mdns)
      /\ b.modelHint = Candidate(c.modelHint, o.modelHint, mdns)
      /\ b.osHint = Candidate(c.osHint, o.osHint, OsWins(c, o))
      /\ b.vendor = Candidate(Candidate(c.vendor, o.vendor, TRUE), Registrant[c.macAddress], FALSE)
  BY <1>2, MergedSummary
<1>4. b.macAddress = mac
  BY <1>1, <1>2, MergedFacts
<1> HIDE DEF b
<1>5. ASSUME NEW field, NEW source
      PROVE  Ranked(None, {}, field, source) /\ Told({}, {source}, field) = {}
  BY DEF Ranked, OneOf, Told
<1>6. {} \union {o} = {o}
  OBVIOUS
<1>7. ASSUME NEW field \in {"displayName", "deviceType", "modelHint"}
      PROVE  Ranked(b[field], {o}, field, "mdns")
  <2>1. b[field] = Candidate(None, o[field], mdns)
    BY <1>1, <1>3
  <2>2. PICK wins \in BOOLEAN : wins <=> mdns
    OBVIOUS
  <2>3. Ranked(Candidate(None, o[field], wins), {} \union {o}, field, "mdns")
    BY <1>5, <2>2, CandidateRanked
  <2>4. Candidate(None, o[field], wins) = Candidate(None, o[field], mdns)
    BY <2>2 DEF Candidate
  <2> QED
    BY <1>6, <2>1, <2>3, <2>4
<1>8. Ranked(b.osHint, {o}, "osHint", "dhcp")
  <2>1. c.osHint = None /\ (o.sourceId = "dhcp" => OsWins(c, o))
    BY <1>1 DEF OsWins
  <2>2. PICK wins \in BOOLEAN : wins <=> OsWins(c, o)
    OBVIOUS
  <2>3. Ranked(Candidate(None, o["osHint"], wins), {} \union {o}, "osHint", "dhcp")
    BY <1>5, <2>1, <2>2, CandidateRanked
  <2>4. Candidate(None, o.osHint, wins) = Candidate(None, o.osHint, OsWins(c, o))
    BY <2>2 DEF Candidate
  <2> QED
    BY <1>3, <1>6, <2>1, <2>3, <2>4
<1>9. Vendor(b.vendor, b.macAddress, {o})
  <2>1. b.vendor = Candidate(Candidate(None, o.vendor, TRUE), Registrant[mac], FALSE)
    BY <1>1, <1>3
  <2> QED
    BY <1>4, <2>1 DEF Vendor, Candidate
<1> QED
  BY <1>7, <1>8, <1>9 DEF Summary, b, c

\* The summaries of all assets.
Summaries == \A m \in Stored : Summary(assetsByMac[m], Of(m))

\* What a step does to an asset that is there: nothing, or it merges an observation of it.
LEMMA StoreMerges ==
  ASSUME IInv, NEW o \in Observations, Store(o), NEW m \in Stored
  PROVE  /\ m \in Stored'
         /\ m # ToLower[o.macAddress] => assetsByMac'[m] = assetsByMac[m] /\ Of(m)' = Of(m)
         /\ m = ToLower[o.macAddress] =>
              /\ assetsByMac'[m] = Merged(SeenAgain(assetsByMac[m], o.timestamp), o)
              /\ Of(m)' = Of(m) \union {o}
  BY DEF Store, ApplyObservation, Stored, Of

\* Seeing an asset again changes only its times.
LEMMA SeenAgainKeeps ==
  ASSUME NEW a, IsAsset(a), Known(a), NEW o \in Observations
  PROVE  LET c == SeenAgain(a, o.timestamp)
         IN  /\ IsAsset(c) /\ Known(c)
             /\ Keeps(a, c, {"firstSeen", "lastSeen"})
<1> DEFINE c == SeenAgain(a, o.timestamp)
<1>1. a.firstSeen \in Int /\ a.lastSeen \in Int /\ o.timestamp \in Int
  BY ObservationAssumption DEF IsAsset
<1>2. /\ DOMAIN c = Fields
      /\ c.firstSeen = Earlier(a.firstSeen, o.timestamp)
      /\ c.lastSeen = Later(a.lastSeen, o.timestamp)
      /\ Keeps(a, c, {"firstSeen", "lastSeen"})
  BY DEF SeenAgain, Keeps, IsAsset, Fields
<1>3. c.firstSeen \in Int /\ c.lastSeen \in Int
  BY <1>1, <1>2 DEF Earlier, Later
<1> HIDE DEF c
<1>4. IsAsset(c)
  BY <1>2, <1>3 DEF Keeps, IsAsset, Fields
<1>5. Known(c)
  BY <1>2 DEF Keeps, Known, Fields
<1> QED
  BY <1>2, <1>4, <1>5 DEF c

LEMMA StoreKeepsSummaries ==
  ASSUME IInv, Summaries, NEW o \in Observations, Store(o)
  PROVE  Summaries'
<1> DEFINE mac == ToLower[o.macAddress]
<1>1. Stored' = Stored \union {mac}
  BY DEF Store, ApplyObservation, Stored
<1>2. ASSUME NEW m \in Stored, m # mac
      PROVE  Summary(assetsByMac'[m], Of(m)')
  BY <1>2, StoreMerges DEF Summaries
<1>3. ASSUME mac \in Stored
      PROVE  Summary(assetsByMac'[mac], Of(mac)')
  <2> DEFINE a == assetsByMac[mac]
             c == SeenAgain(a, o.timestamp)
  <2>1. IsAsset(a) /\ Known(a)
    BY <1>3 DEF IInv, Facts, Registered
  <2>2. IsAsset(c) /\ Known(c) /\ Keeps(a, c, {"firstSeen", "lastSeen"})
    BY <2>1, SeenAgainKeeps
  <2>3. /\ c.macAddress = a.macAddress /\ c.vendor = a.vendor
        /\ \A field \in {"displayName", "deviceType", "modelHint", "osHint"} : c[field] = a[field]
    BY <2>2 DEF Keeps, Fields
  <2>4. Summary(a, Of(mac)) /\ Of(mac) \in SUBSET Observations
    BY <1>3 DEF Summaries, Of, IInv
  <2>5. assetsByMac'[mac] = Merged(c, o) /\ Of(mac)' = Of(mac) \union {o}
    BY <1>3, StoreMerges
  <2> HIDE DEF a, c
  <2>6. Summary(Merged(c, o), Of(mac) \union {o})
    BY <2>1, <2>2, <2>3, <2>4, SummaryGrows
  <2> QED
    BY <2>5, <2>6
<1>4. ASSUME mac \notin Stored
      PROVE  Summary(assetsByMac'[mac], Of(mac)')
  <2>1. assetsByMac'[mac] = Merged(NewAsset(mac, o.timestamp), o)
    BY <1>4 DEF Store, ApplyObservation, Stored
  <2>2. Of(mac)' = {o}
    BY <1>4 DEF Store, Of, IInv
  <2>3. mac \in Macs
    BY ObservationAssumption
  <2> QED
    BY <2>1, <2>2, <2>3, SummaryBegins
<1> QED
  BY <1>1, <1>2, <1>3, <1>4 DEF Summaries

\* The precedence of the sources, for any observations in any order: a name, a
\* device type or a model that mDNS told is shown rather than any other, an
\* operating system that DHCP told likewise, and AssetStore::applyObservation
\* forgets none that was told.
THEOREM SourcesAreRanked == Spec => []SummaryPrecedence
<1>1. Init => Summaries
  BY DEF Init, Summaries, Stored, Empty
<1>2. ASSUME IInv, Summaries, [Next]_vars
      PROVE  Summaries'
  <2>1. CASE UNCHANGED vars
    BY <1>2, <2>1 DEF Summaries, vars, Stored, Of
  <2>2. CASE Next
    <3>1. PICK o \in Observations : Store(o)
      BY <2>2 DEF Next, Observe, AssetCallbackThrows, EventCallbackThrows
    <3> QED
      BY <1>2, <3>1, StoreKeepsSummaries
  <2> QED
    BY <1>2, <2>1, <2>2
<1>3. ASSUME IInv, Summaries
      PROVE  SummaryPrecedence
  <2> SUFFICES ASSUME NEW m \in Stored
               PROVE  LET asset == assetsByMac[m]
                          any == {o.sourceId : o \in Of(m)}
                      IN  /\ \A field \in {"displayName", "deviceType", "modelHint"} :
                               /\ OneOf(asset[field], Told(Of(m), {"mdns"}, field))
                               /\ OneOf(asset[field], Told(Of(m), any, field))
                          /\ OneOf(asset.osHint, Told(Of(m), {"dhcp"}, "osHint"))
                          /\ OneOf(asset.osHint, Told(Of(m), any, "osHint"))
                          /\ IF Told(Of(m), any, "vendor") # {}
                             THEN asset.vendor \in Told(Of(m), any, "vendor")
                             ELSE asset.vendor = Registrant[m]
    BY DEF SummaryPrecedence
  <2> DEFINE a == assetsByMac[m]
             S == Of(m)
             any == {o.sourceId : o \in S}
  <2>1. Summary(a, S) /\ a.macAddress = m
    BY <1>3 DEF Summaries, IInv
  <2>2. ASSUME NEW field
        PROVE  Told(S, any, field) = {o[field] : o \in S} \ {None}
    BY DEF Told
  <2> HIDE DEF a, S, any
  <2>3. ASSUME NEW field, NEW source, NEW value, Ranked(value, S, field, source)
        PROVE  OneOf(value, Told(S, {source}, field)) /\ OneOf(value, Told(S, any, field))
    BY <2>2, <2>3 DEF Ranked, OneOf
  <2>4. IF Told(S, any, "vendor") # {} THEN a.vendor \in Told(S, any, "vendor")
        ELSE a.vendor = Registrant[m]
    <3>1. Told(S, any, "vendor") = {o.vendor : o \in S} \ {None}
      BY <2>2
    <3>2. Vendor(a.vendor, m, S)
      BY <2>1 DEF Summary
    <3> QED
      BY <3>1, <3>2 DEF Vendor
  <2>5. /\ \A field \in {"displayName", "deviceType", "modelHint"} : Ranked(a[field], S, field, "mdns")
        /\ Ranked(a.osHint, S, "osHint", "dhcp")
    BY <2>1 DEF Summary
  <2> QED
    BY <2>3, <2>4, <2>5 DEF a, S, any
<1> QED
  BY <1>1, <1>2, <1>3, Inductive, PTL DEF Spec

\* Only mDNS replaces a name to display, whatever is observed: the clause of
\* AssetStore::applySummaryCandidates for DHCP never applies to another name,
\* since the host name has been replaced before it compares the two.
THEOREM DhcpNeverRenames == Spec => OnlyMdnsRenames
<1>1. ASSUME IInv, [Next]_vars
      PROVE  [\A m \in Stored :
                (assetsByMac[m].displayName # None /\ assetsByMac'[m].displayName # assetsByMac[m].displayName)
                  => \E o \in Observations : /\ ToLower[o.macAddress] = m
                                             /\ o.sourceId = "mdns"
                                             /\ assetsByMac'[m].displayName = o.displayName]_vars
  <2>1. CASE UNCHANGED vars
    BY <2>1
  <2>2. CASE Next
    <3>1. PICK o \in Observations : Store(o)
      BY <2>2 DEF Next, Observe, AssetCallbackThrows, EventCallbackThrows
    <3>2. ASSUME NEW m \in Stored, assetsByMac[m].displayName # None,
                 assetsByMac'[m].displayName # assetsByMac[m].displayName
          PROVE  /\ ToLower[o.macAddress] = m
                 /\ o.sourceId = "mdns"
                 /\ assetsByMac'[m].displayName = o.displayName
      <4> DEFINE a == assetsByMac[m]
                 c == SeenAgain(a, o.timestamp)
      <4>1. ToLower[o.macAddress] = m /\ assetsByMac'[m] = Merged(c, o)
        BY <1>1, <3>1, <3>2, StoreMerges
      <4>2. IsAsset(a) /\ Known(a)
        BY <1>1 DEF IInv, Facts, Registered
      <4>3. IsAsset(c) /\ Known(c) /\ Keeps(a, c, {"firstSeen", "lastSeen"})
        BY <4>2, SeenAgainKeeps
      <4> HIDE DEF c
      <4>4. Merged(c, o).displayName = Candidate(c.displayName, o.displayName, o.sourceId = "mdns")
        BY <4>3, MergedSummary
      <4>5. c.displayName = assetsByMac[m].displayName
        BY <4>3 DEF Keeps, Fields
      <4> QED
        BY <3>2, <4>1, <4>4, <4>5 DEF Candidate
    <3> QED
      BY <3>2
  <2> QED
    BY <1>1, <2>1, <2>2
<1> QED
  BY <1>1, Inductive, PTL DEF Spec, OnlyMdnsRenames

-----------------------------------------------------------------------------
(* The announcements.                                                      *)

\* Merging an observation never makes an asset first seen later.
LEMMA FirstSeenFalls ==
  ASSUME IInv, NEW o \in Observations, Store(o), NEW m \in Stored
  PROVE  /\ m \in Stored'
         /\ assetsByMac[m].firstSeen \in Int /\ assetsByMac'[m].firstSeen \in Int
         /\ assetsByMac'[m].firstSeen <= assetsByMac[m].firstSeen
<1>1. m \in Stored' /\ Of(m) \subseteq Of(m)'
  BY StoreMerges
<1>2. Earliest(assetsByMac[m].firstSeen, Of(m)) /\ assetsByMac[m].firstSeen \in Int
  BY DEF IInv, Facts, IsAsset
<1>3. Earliest(assetsByMac'[m].firstSeen, Of(m)') /\ assetsByMac'[m].firstSeen \in Int
  BY <1>1, StoreKeepsFacts DEF Facts, IsAsset
<1> QED
  BY <1>1, <1>2, <1>3 DEF Earliest

\* What was announced has a time.
LEMMA EventTimes ==
  ASSUME IInv, NEW i \in DOMAIN events
  PROVE  events[i].timestamp \in Int
<1> DEFINE Event == [macAddress : Macs, timestamp : Int, ipAddress : Texts, hostname : Texts,
                     protocol : Texts]
<1>1. events \in Seq(Event)
  BY DEF IInv
<1>2. \A e \in Event : e.timestamp \in Int
  OBVIOUS
<1> HIDE DEF Event
<1>3. events[i] \in Event
  BY <1>1
<1> QED
  BY <1>2, <1>3

\* The announcements are of different stored assets, as many as there are; a
\* callback that threw may have left one out.
Announced == NewAssetOnce /\ IsFiniteSet(Stored)

\* An observation of an asset that is stored announces nothing.
LEMMA KnownIsNotAnnounced ==
  ASSUME IInv, Announced, NEW o \in Observations, Store(o), ~IsNew(o),
         events' = events, stopped' \in BOOLEAN
  PROVE  Announced'
<1>1. Stored' = Stored
  BY DEF Store, ApplyObservation, Stored, IsNew
<1>2. stopped = FALSE
  BY DEF Store, IInv
<1>3. Cardinality(Stored) - Len(events) = 0
  BY <1>2 DEF Announced, NewAssetOnce
<1>4. Cardinality(Stored') - Len(events') \in (IF stopped' THEN {0, 1} ELSE {0})
  BY <1>1, <1>3
<1>5. ASSUME NEW i \in DOMAIN events
      PROVE  assetsByMac'[events[i].macAddress].firstSeen <= events[i].timestamp
  <2> DEFINE m == events[i].macAddress
             t == events[i].timestamp
  <2>1. m \in Stored /\ assetsByMac[m].firstSeen <= t
    BY DEF Announced, NewAssetOnce
  <2>2. t \in Int
    BY EventTimes
  <2> HIDE DEF m, t
  <2>3. /\ assetsByMac[m].firstSeen \in Int /\ assetsByMac'[m].firstSeen \in Int
        /\ assetsByMac'[m].firstSeen <= assetsByMac[m].firstSeen
    BY <2>1, FirstSeenFalls
  <2>4. assetsByMac'[m].firstSeen <= t
    BY <2>1, <2>2, <2>3
  <2> QED
    BY <2>4 DEF m, t
<1> QED
  BY <1>1, <1>4, <1>5 DEF Announced, NewAssetOnce

\* A new asset, announced or not.
LEMMA NewIsAnnounced ==
  ASSUME IInv, Announced, NEW o \in Observations, Store(o), IsNew(o),
         \/ Announce(o) /\ stopped' \in BOOLEAN
         \/ events' = events /\ stopped' = TRUE
  PROVE  Announced'
<1> DEFINE mac == ToLower[o.macAddress]
           E == NewAssetEvent(assetsByMac'[mac])
           Event == [macAddress : Macs, timestamp : Int, ipAddress : Texts, hostname : Texts,
                     protocol : Texts]
<1>1. Stored' = Stored \union {mac} /\ mac \notin Stored
  BY DEF Store, ApplyObservation, Stored, IsNew
<1>2. IsFiniteSet(Stored') /\ Cardinality(Stored') = Cardinality(Stored) + 1
  BY <1>1, FS_AddElement DEF Announced
<1>3. Cardinality(Stored) = Len(events)
  <2>1. Cardinality(Stored) - Len(events) = 0
    BY DEF Announced, NewAssetOnce, Store, IInv
  <2>2. Cardinality(Stored) \in Nat /\ Len(events) \in Nat
    BY FS_CardinalityType DEF Announced, IInv
  <2> QED
    BY <2>1, <2>2
<1>4. E.macAddress = mac /\ E.timestamp = assetsByMac'[mac].firstSeen /\ E.timestamp \in Int
  BY <1>1, StoreKeepsFacts DEF NewAssetEvent, Facts, IsAsset
<1>5. ASSUME NEW i \in DOMAIN events
      PROVE  /\ events[i].macAddress \in Stored
             /\ assetsByMac'[events[i].macAddress].firstSeen <= events[i].timestamp
  <2> DEFINE m == events[i].macAddress
             t == events[i].timestamp
  <2>1. m \in Stored /\ assetsByMac[m].firstSeen <= t
    BY DEF Announced, NewAssetOnce
  <2>2. t \in Int
    BY EventTimes
  <2> HIDE DEF m, t
  <2>3. /\ assetsByMac[m].firstSeen \in Int /\ assetsByMac'[m].firstSeen \in Int
        /\ assetsByMac'[m].firstSeen <= assetsByMac[m].firstSeen
    BY <2>1, FirstSeenFalls
  <2>4. assetsByMac'[m].firstSeen <= t
    BY <2>1, <2>2, <2>3
  <2> QED
    BY <2>1, <2>4 DEF m, t
<1>6. events \in Seq(Event) /\ Len(events) \in Nat
  BY DEF IInv
<1>7. CASE events' = events /\ stopped' = TRUE
  <2>1. Cardinality(Stored') - Len(events') \in {0, 1}
    BY <1>2, <1>3, <1>6, <1>7
  <2> QED
    BY <1>1, <1>2, <1>5, <1>7, <2>1 DEF Announced, NewAssetOnce
<1>8. CASE Announce(o) /\ stopped' \in BOOLEAN
  <2>1. events' = Append(events, E)
    BY <1>8 DEF Announce, Store
  <2>2. /\ Len(events') = Len(events) + 1
        /\ DOMAIN events' = 1..(Len(events) + 1) /\ DOMAIN events = 1..Len(events)
        /\ \A i \in DOMAIN events : events'[i] = events[i]
        /\ events'[Len(events) + 1] = E
    BY <1>6, <2>1
  <2> HIDE DEF E, mac
  <2>3. \A i \in DOMAIN events' : i \in DOMAIN events \/ i = Len(events) + 1
    BY <1>6, <2>2
  <2>4. Cardinality(Stored') - Len(events') = 0
    BY <1>2, <1>3, <1>6, <2>2
  <2>5. \A i, j \in DOMAIN events' : events'[i].macAddress = events'[j].macAddress => i = j
    <3>1. \A i, j \in DOMAIN events : events[i].macAddress = events[j].macAddress => i = j
      BY DEF Announced, NewAssetOnce
    <3> QED
      BY <1>1, <1>4, <1>5, <2>2, <2>3, <3>1
  <2>6. \A i \in DOMAIN events' : /\ events'[i].macAddress \in Stored'
                                  /\ assetsByMac'[events'[i].macAddress].firstSeen <= events'[i].timestamp
    BY <1>1, <1>4, <1>5, <2>2, <2>3
  <2> QED
    BY <1>2, <1>8, <2>4, <2>5, <2>6 DEF Announced, NewAssetOnce
<1> QED
  BY <1>7, <1>8

\* Every asset is announced once, however many observations of it there are and
\* in whatever order: AssetMonitor's comparison of the store's sizes before and
\* after announces no asset twice and misses none unless a callback threw.
THEOREM AnnouncedOnce == Spec => []NewAssetOnce
<1>1. ASSUME Init
      PROVE  Announced
  <2>1. Stored = {} /\ events = <<>>
    BY <1>1 DEF Init, Stored, Empty
  <2>2. IsFiniteSet(Stored) /\ Cardinality(Stored) = 0
    BY <2>1, FS_EmptySet
  <2>3. DOMAIN events = {} /\ Len(events) = 0
    BY <2>1
  <2> QED
    BY <2>2, <2>3 DEF Announced, NewAssetOnce
<1>2. ASSUME IInv, Announced, [Next]_vars
      PROVE  Announced'
  <2>1. CASE UNCHANGED vars
    BY <1>2, <2>1 DEF Announced, NewAssetOnce, vars, Stored
  <2>2. ASSUME NEW o \in Observations, Store(o), stopped' \in BOOLEAN,
               \/ Announce(o)
               \/ events' = events /\ stopped' = TRUE
        PROVE  Announced'
    <3>1. CASE IsNew(o)
      BY <1>2, <2>2, <3>1, NewIsAnnounced
    <3>2. CASE ~IsNew(o)
      <4>1. events' = events
        BY <2>2, <3>2 DEF Announce
      <4> QED
        BY <1>2, <2>2, <3>2, <4>1, KnownIsNotAnnounced
    <3> QED
      BY <3>1, <3>2
  <2>3. CASE Next
    BY <2>2, <2>3 DEF Next, Observe, AssetCallbackThrows, EventCallbackThrows
  <2> QED
    BY <1>2, <2>1, <2>3
<1>3. Announced => NewAssetOnce
  BY DEF Announced
<1> QED
  BY <1>1, <1>2, <1>3, Inductive, PTL DEF Spec
=============================================================================
