---------------------------- MODULE AssetMonitor ----------------------------
(***************************************************************************)
(* AssetMonitor (src/discovery/monitor/AssetMonitor.cpp): observations are  *)
(* applied to the AssetStore one at a time, in whatever order the parser    *)
(* workers of a live run deliver them, and the two callbacks are told.      *)
(* An exception of a callback ends the run.                                 *)
(***************************************************************************)
EXTENDS AssetStore, FiniteSets

VARIABLES
  assetsByMac,   \* store_.assetsByMac_
  events,        \* the events passed to eventCallback_
  stopped,       \* a callback has thrown
  applied        \* history: the observations applied

vars == <<assetsByMac, events, stopped, applied>>

Init ==
  /\ assetsByMac = Empty
  /\ events = <<>>
  /\ stopped = FALSE
  /\ applied = {}

\* The MAC address is looked up as it was reported.
IsNewAsReported(o) == o.macAddress \notin DOMAIN assetsByMac

\* store_.size() has grown.
IsNew(o) == ToLower[o.macAddress] \notin DOMAIN assetsByMac

AnyOf(S) == IF S = {} THEN None ELSE CHOOSE x \in S : TRUE

NewAssetEvent(asset) ==
  [macAddress |-> asset.macAddress, timestamp |-> asset.firstSeen,
   ipAddress |-> AnyOf(asset.ipAddresses), hostname |-> asset.hostname,
   protocol |-> AnyOf(asset.sources)]

Store(o) ==
  /\ ~stopped
  /\ assetsByMac' = ApplyObservation(assetsByMac, o)
  /\ applied' = applied \union {o}

Announce(o) ==
  events' = IF IsNew(o)
            THEN Append(events, NewAssetEvent(ApplyObservation(assetsByMac, o)[ToLower[o.macAddress]]))
            ELSE events

Observe(o) ==
  /\ Store(o)
  /\ Announce(o)
  /\ stopped' = FALSE

\* assetCallback_ comes first.
AssetCallbackThrows(o) ==
  /\ Store(o)
  /\ stopped' = TRUE
  /\ UNCHANGED events

EventCallbackThrows(o) ==
  /\ IsNew(o)
  /\ Store(o)
  /\ Announce(o)
  /\ stopped' = TRUE

Next == \E o \in Observations : Observe(o) \/ AssetCallbackThrows(o) \/ EventCallbackThrows(o)

Spec == Init /\ [][Next]_vars

-----------------------------------------------------------------------------
(* Properties.                                                             *)

Stored == DOMAIN assetsByMac

\* The applied observations of one asset.
Of(m) == {o \in applied : ToLower[o.macAddress] = m}

\* Types.  No asset was last seen before it was first seen.
TypeOK ==
  /\ Stored \subseteq Macs
  /\ assetsByMac = [m \in Stored |-> assetsByMac[m]]
  /\ \A m \in Stored : /\ IsAsset(assetsByMac[m])
                        /\ assetsByMac[m].macAddress = m
                        /\ assetsByMac[m].firstSeen <= assetsByMac[m].lastSeen
  /\ events \in Seq([macAddress : Macs, timestamp : Int, ipAddress : Texts, hostname : Texts,
                     protocol : Texts])
  /\ stopped \in BOOLEAN
  /\ applied \subseteq Observations

Earliest(t, S) == (\E o \in S : o.timestamp = t) /\ \A o \in S : t <= o.timestamp
Latest(t, S) == (\E o \in S : o.timestamp = t) /\ \A o \in S : o.timestamp <= t

\* What was observed under key k of an asset, over all its observations S.
ObservedUnder(asset, k, S) ==
  LET carriers == {o \in S : k \in DOMAIN o.metadata}
  IN  IF carriers = {} THEN k \notin DOMAIN asset.observed
      ELSE /\ k \in DOMAIN asset.observed
           /\ asset.observed[k].values = UNION {Range(o.metadata[k]) : o \in carriers}
           /\ Earliest(asset.observed[k].first, carriers)
           /\ Latest(asset.observed[k].last, carriers)

Reported(S, k, values) == \E o \in S : k \in DOMAIN o.metadata /\ Range(o.metadata[k]) \intersect values # {}

HintsOf(m, S) ==
  {h \in {Hint("device_type", "printer"), Hint("os", "windows"), Hint("role", "server_candidate"),
          Hint("vendor", Registrant[m])} :
     \/ /\ h.category = "device_type"
        /\ Reported(S, "mdns.services", {"_ipp._tcp.local", "_printer._tcp.local"})
     \/ h.category = "os" /\ Reported(S, "dhcp.vendor_class_identifier", {"MSFT", "Microsoft"})
     \/ h.category = "role" /\ Reported(S, "tcp.syn_ack_ports", Values)
     \/ h.category = "vendor" /\ Registrant[m] # None}

\* The facts about an asset (when it was seen, its addresses, sources, observed
\* values and derived hints) are those of the set of its observations: in
\* whatever order two parser workers deliver them, and however often.
FactsOfObservations ==
  /\ Stored = {ToLower[o.macAddress] : o \in applied}
  /\ \A m \in Stored :
       /\ Earliest(assetsByMac[m].firstSeen, Of(m))
       /\ Latest(assetsByMac[m].lastSeen, Of(m))
       /\ assetsByMac[m].ipAddresses = {o.ipAddress : o \in Of(m)} \ {None}
       /\ assetsByMac[m].sources = {o.sourceId : o \in Of(m)}
       /\ \A k \in Keys : ObservedUnder(assetsByMac[m], k, Of(m))
       /\ assetsByMac[m].derivedHints = HintsOf(m, Of(m))

\* The values for one field among observations of some sources.
Told(S, sources, field) == {o[field] : o \in {p \in S : p.sourceId \in sources}} \ {None}

\* If S is not empty, the value is one of S.
OneOf(value, S) == S # {} => value \in S

\* mDNS outranks every other source for names, device types and models, DHCP for
\* the operating system, a vendor that was reported outranks the registrant of
\* the address, and nothing reported is forgotten, in any order of arrival
\* (appliesSummaryPrecedence in tests/discovery/domain/AssetStoreTests.cpp tries one).
SummaryPrecedence ==
  \A m \in Stored :
    LET asset == assetsByMac[m]
        any == {o.sourceId : o \in Of(m)}
    IN  /\ \A field \in {"displayName", "deviceType", "modelHint"} :
             /\ OneOf(asset[field], Told(Of(m), {"mdns"}, field))
             /\ OneOf(asset[field], Told(Of(m), any, field))
        /\ OneOf(asset.osHint, Told(Of(m), {"dhcp"}, "osHint"))
        /\ OneOf(asset.osHint, Told(Of(m), any, "osHint"))
        /\ IF Told(Of(m), any, "vendor") # {}
           THEN asset.vendor \in Told(Of(m), any, "vendor")
           ELSE asset.vendor = Registrant[m]

\* Every asset is announced once, in the order of discovery and with the
\* earliest time and the name known then; only one whose asset callback threw
\* is not announced.
NewAssetOnce ==
  /\ \A i, j \in DOMAIN events : events[i].macAddress = events[j].macAddress => i = j
  /\ {events[i].macAddress : i \in DOMAIN events} \subseteq Stored
  /\ Cardinality(Stored) - Len(events) \in (IF stopped THEN {0, 1} ELSE {0})
  /\ \A i \in DOMAIN events : assetsByMac[events[i].macAddress].firstSeen <= events[i].timestamp

\* Once an asset has a name to display, only mDNS changes it.  In particular a
\* host that DHCP renames keeps the old one: applyObservation replaces the
\* hostname before it compares the two, so that clause never changes a name.
OnlyMdnsRenames ==
  [][\A m \in Stored :
       (assetsByMac[m].displayName # None /\ assetsByMac'[m].displayName # assetsByMac[m].displayName)
         => \E o \in Observations : /\ ToLower[o.macAddress] = m
                                    /\ o.sourceId = "mdns"
                                    /\ assetsByMac'[m].displayName = o.displayName]_vars
=============================================================================
