--------------------------- MODULE AssetInventory ---------------------------
(***************************************************************************)
(* What the storage promises of the assets, without connections, locks or   *)
(* statements: all that a run found is added at once to what is stored then, *)
(* nothing is added but by a run, and nothing is forgotten but by clearing   *)
(* the data, or, of the later columns, by a migration, first or repeated,    *)
(* that rebuilds them.                                                      *)
(***************************************************************************)
CONSTANTS
  Macs,
  Asset,     \* what a run may find: records with a mac and the fields of Row
  Row,       \* what is stored of an asset: [vendor, first, last]
  Batches    \* the sequences of Macs that a run may find

VARIABLE rows

\* What the assets found and the row there was, if any, say of m.
Said(old, found, m) ==
  {asset \in found : asset.mac = m} \union (IF m \in DOMAIN old THEN {old[m]} ELSE {})

\* A vendor is known if any of them names one, and each time is one of theirs.
Merges(old, found, new) ==
  /\ new \in [DOMAIN old \union {asset.mac : asset \in found} -> Row]
  /\ \A m \in DOMAIN new :
       /\ new[m].vendor = "null" <=> \A said \in Said(old, found, m) : said.vendor = "null"
       /\ \E said \in Said(old, found, m) : new[m].first = said.first
       /\ \E said \in Said(old, found, m) : new[m].last = said.last

\* The assets of a whole run.
Runs ==
  {{assets[i] : i \in DOMAIN assets} : assets \in
     UNION {{f \in [DOMAIN batch -> Asset] : \A i \in DOMAIN batch : f[i].mac = batch[i]} : batch \in Batches}}

Init == rows \in UNION {[stored -> Row] : stored \in SUBSET Macs}

Store == \E found \in Runs : Merges(rows, found, rows')

ForgetVendors == rows' = [m \in DOMAIN rows |-> [rows[m] EXCEPT !.vendor = "null"]]

Clear == rows' = [m \in {} |-> {}]

Next == Store \/ ForgetVendors \/ Clear

Spec == Init /\ [][Next]_rows
=============================================================================
