--------------------------- MODULE MCAssetMonitor ---------------------------
(* AssetMonitor for TLC: one observation of every parser that names, types   *)
(* or hints, for a device of a known registrant, and two for another device.*)
EXTENDS AssetMonitor

CONSTANTS
  upper1, lower1, lower2   \* spellings of two MAC addresses

MCToLower == [s \in {upper1, lower1, lower2} |-> IF s = upper1 THEN lower1 ELSE s]

MCRegistrant == [m \in {lower1, lower2} |-> IF m = lower1 THEN "Google" ELSE None]

MCKeys == {"arp.sender_ip", "ipv4.ttl", "dhcp.vendor_class_identifier", "mdns.services",
           "tcp.syn_ack_ports"}

MCValues == {"a", "b", "64", "MSFT", "other", "_ipp._tcp.local", "_http._tcp.local", "22"}

MCTexts == {None, "mac-address", "curated-oui", "Google", "a", "b", "old", "new", "Acme", "SSDP TV",
            "tv", "Living Room TV", "printer", "iPhone", "linux/unix", "windows", "linux",
            "arp", "ip", "dhcp", "ssdp", "mdns", "tcp"}

\* An observation with no more than its source, as the parsers start one.
Bare(mac, source, t) ==
  [macAddress |-> mac, ipAddress |-> None, hostname |-> None, displayName |-> None,
   vendor |-> None, osHint |-> None, deviceType |-> None, modelHint |-> None,
   sourceId |-> source, metadata |-> Empty, timestamp |-> t]

Arp(mac, ip, t) ==
  [Bare(mac, "arp", t) EXCEPT !.ipAddress = ip, !.metadata = "arp.sender_ip" :> <<ip>>]

Ttl(mac, t) ==
  [Bare(mac, "ip", t) EXCEPT !.ipAddress = "a", !.osHint = "linux/unix", !.metadata = "ipv4.ttl" :> <<"64">>]

Dhcp(mac, name, os, class, t) ==
  [Bare(mac, "dhcp", t) EXCEPT !.hostname = name, !.displayName = name, !.osHint = os,
                               !.metadata = "dhcp.vendor_class_identifier" :> <<class>>]

Ssdp(mac, t) ==
  [Bare(mac, "ssdp", t) EXCEPT !.ipAddress = "a", !.displayName = "SSDP TV", !.vendor = "Acme",
                               !.deviceType = "tv", !.modelHint = "Living Room TV", !.osHint = "linux"]

Mdns(mac, name, t) ==
  [Bare(mac, "mdns", t) EXCEPT !.ipAddress = "b", !.displayName = name, !.deviceType = "printer",
                               !.modelHint = "iPhone",
                               !.metadata = "mdns.services" :> <<"_ipp._tcp.local", "_http._tcp.local">>]

SynAck(mac, t) ==
  [Bare(mac, "tcp", t) EXCEPT !.ipAddress = "b", !.metadata = "tcp.syn_ack_ports" :> <<"22">>]

MCObservations ==
  {Arp(lower1, "a", 2), Arp(upper1, "b", 1), Ttl(lower1, 3), Dhcp(lower1, "old", "windows", "MSFT", 2),
   Dhcp(lower1, "new", None, "other", 4), Ssdp(lower1, 3), Mdns(lower1, "old", 1), SynAck(lower1, 5),
   Arp(lower2, "b", 2), Ssdp(lower2, 1)}
=============================================================================
