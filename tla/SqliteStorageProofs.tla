------------------------- MODULE SqliteStorageProofs -------------------------
(***************************************************************************)
(* Theorems about SqliteStorage, for any connections, assets, batches and   *)
(* timestamps, and a file of any version.                                   *)
(***************************************************************************)
EXTENDS SqliteStorage, TLAPS

-----------------------------------------------------------------------------
(* The inductive invariant.                                                *)

Places == {"closed", "creating", "stamping", "ready", "writing", "stuck"}

\* The connections that use the tables.
Using == {"ready", "writing", "stuck"}

\* Types.  The write lock is kept between steps by a transaction of writeAssets alone.
TypeOK ==
  /\ userVersion \in 0 .. Latest
  /\ at \in [Connections -> Places]
  /\ version \in [Connections -> 0 .. Latest]
  /\ todo \in [Connections -> Seq(Asset)]
  /\ DOMAIN work = Connections /\ \A c \in Connections : DOMAIN work[c] \subseteq Macs
  /\ DOMAIN rows \subseteq Macs /\ rows \in [DOMAIN rows -> Row]
  /\ lock \in Connections \union {NoOne}
  /\ \A c \in Connections : lock = c => at[c] \in {"writing", "stuck"}
  /\ overlapped \in BOOLEAN /\ misread \in BOOLEAN

\* The tables of a version are there before the file or a connection claims it.
Schema ==
  /\ tables \subseteq TablesOf(Latest)
  /\ TablesOf(userVersion) \subseteq tables
  /\ \A c \in Connections :
       /\ at[c] = "creating" => version[c] < Latest /\ TablesOf(version[c]) \subseteq tables
       /\ at[c] = "stamping" => version[c] < Latest - 1 /\ TablesOf(version[c] + 1) \subseteq tables
       /\ at[c] \in Using => TablesOf(Latest) \subseteq tables

AssetsOf(assets) == {assets[i] : i \in DOMAIN assets}

\* What a writing connection has inserted (done) and has yet to insert is a run,
\* and its work is what it has inserted, added to the rows as they still are.
Underway(c, found, done) ==
  /\ found = done \union AssetsOf(todo[c])
  /\ IF lock = c THEN Inventory!Merges(rows, done, work[c]) ELSE done = {}

OneRun ==
  \A c \in Connections : at[c] = "writing" =>
    \E found \in Inventory!Runs, done \in SUBSET Asset : Underway(c, found, done)

\* The assets of which a table knows a vendor.
Vendors(table) == {m \in DOMAIN table : table[m].vendor # "null"}

\* With one migration at a time, of a file whose version was read, a connection
\* that migrates knows the version of the file, and nobody has stored anything
\* in its new columns before its end.
Knowledge ==
  ~overlapped /\ ~misread =>
    /\ \A c \in Connections : at[c] \in Migrating => version[c] = userVersion
    /\ \A c, d \in Connections : at[c] \in Migrating /\ at[d] \in Migrating => c = d
    /\ userVersion # Latest => known = {} /\ \A c \in Connections : at[c] \notin Using
    /\ known \subseteq Vendors(rows)
    /\ \A c \in Connections : at[c] = "writing" /\ lock = c => known \subseteq Vendors(work[c])

IInv == TypeOK /\ Schema /\ OneRun /\ Knowledge

-----------------------------------------------------------------------------
(* The operators.                                                          *)

\* A later version of the schema has the tables of the earlier ones; the last
\* migration makes none.
LEMMA TablesGrow ==
  /\ \A v, w \in 0 .. Latest : v <= w => TablesOf(v) \subseteq TablesOf(w)
  /\ TablesOf(Latest - 1) = TablesOf(Latest)
  BY DEF TablesOf, Latest

\* ON CONFLICT DO UPDATE adds a row at most, and forgets no vendor.
LEMMA UpsertGrows ==
  ASSUME NEW table, NEW asset
  PROVE  /\ DOMAIN Upsert(table, asset) = DOMAIN table \union {asset.mac}
         /\ Vendors(table) \subseteq Vendors(Upsert(table, asset))
<1>1. DOMAIN Upsert(table, asset) = DOMAIN table \union {asset.mac}
  BY DEF Upsert
<1>2. ASSUME NEW m \in DOMAIN table, table[m].vendor # "null"
      PROVE  Upsert(table, asset)[m].vendor # "null"
  <2>1. Upsert(table, asset)[m] = IF m # asset.mac THEN table[m] ELSE Merged(table[m], asset)
    BY <1>2 DEF Upsert
  <2>2. Merged(table[m], asset).vendor = IF asset.vendor # "null" THEN asset.vendor ELSE table[m].vendor
    BY DEF Merged
  <2> QED
    BY <1>2, <2>1, <2>2
<1> QED
  BY <1>1, <1>2 DEF Vendors

\* The assets to do are the next one and the others.
LEMMA NextToDo ==
  ASSUME NEW s \in Seq(Asset), s # <<>>
  PROVE  /\ Head(s) \in Asset /\ Head(s).mac \in Macs /\ Tail(s) \in Seq(Asset)
         /\ AssetsOf(s) = {Head(s)} \union AssetsOf(Tail(s))
<1>1. /\ Len(s) \in Nat /\ Len(s) > 0 /\ DOMAIN s = 1 .. Len(s)
      /\ Head(s) = s[1] /\ Head(s) \in Asset
      /\ Tail(s) \in Seq(Asset) /\ DOMAIN Tail(s) = 1 .. (Len(s) - 1)
      /\ \A i \in 1 .. (Len(s) - 1) : Tail(s)[i] = s[i + 1]
  OBVIOUS
<1>2. Head(s).mac \in Macs
  BY <1>1 DEF Asset
<1>3. ASSUME NEW i \in DOMAIN s
      PROVE  s[i] \in {Head(s)} \union AssetsOf(Tail(s))
  <2>1. i = 1 \/ (i - 1 \in DOMAIN Tail(s) /\ Tail(s)[i - 1] = s[i])
    BY <1>1, <1>3
  <2> QED
    BY <1>1, <2>1 DEF AssetsOf
<1>4. ASSUME NEW i \in DOMAIN Tail(s)
      PROVE  Tail(s)[i] \in AssetsOf(s)
  <2>1. i + 1 \in DOMAIN s /\ Tail(s)[i] = s[i + 1]
    BY <1>1, <1>4
  <2> QED
    BY <2>1 DEF AssetsOf
<1>5. Head(s) \in AssetsOf(s)
  BY <1>1 DEF AssetsOf
<1> QED
  BY <1>1, <1>2, <1>3, <1>4, <1>5 DEF AssetsOf

\* What writeAssets is called with is what a run may find.
LEMMA RunToDo ==
  ASSUME NEW batch \in Batches, NEW assets \in [DOMAIN batch -> Asset],
         \A i \in DOMAIN batch : assets[i].mac = batch[i]
  PROVE  assets \in Seq(Asset) /\ AssetsOf(assets) \in Inventory!Runs
<1>1. DOMAIN batch = 1 .. Len(batch) /\ Len(batch) \in Nat
  BY BatchAssumption
<1>2. assets \in Seq(Asset)
  BY <1>1
<1>3. AssetsOf(assets) \in Inventory!Runs
  BY DEF AssetsOf, Inventory!Runs
<1> QED
  BY <1>2, <1>3

\* What an insertion puts in a row is of the row's type.
LEMMA MergedType ==
  ASSUME NEW asset \in Asset
  PROVE  RowOf(asset) \in Row /\ \A row \in Row : Merged(row, asset) \in Row
<1>1. /\ asset.vendor \in Vendor /\ asset.first \in Timestamps /\ asset.last \in Timestamps
  BY DEF Asset
<1>2. ASSUME NEW row \in Row
      PROVE  Merged(row, asset) \in Row
  <2>1. row.vendor \in Vendor /\ row.first \in Timestamps /\ row.last \in Timestamps
    BY DEF Row
  <2> QED
    BY <1>1, <2>1 DEF Merged, Row
<1> QED
  BY <1>1, <1>2 DEF RowOf, Row

\* With nothing found, nothing changes.
LEMMA NothingFound ==
  ASSUME NEW table, table \in [DOMAIN table -> Row]
  PROVE  Inventory!Merges(table, {}, table)
<1>1. \A m \in DOMAIN table : Inventory!Said(table, {}, m) = {table[m]}
  BY DEF Inventory!Said
<1>2. table \in [DOMAIN table \union {asset.mac : asset \in {}} -> Row]
  OBVIOUS
<1> QED
  BY <1>1, <1>2 DEF Inventory!Merges

\* An insertion adds to what was merged so far the next asset.
LEMMA UpsertMerges ==
  ASSUME NEW old, NEW found \in SUBSET Asset, NEW new, NEW asset \in Asset,
         Inventory!Merges(old, found, new)
  PROVE  Inventory!Merges(old, found \union {asset}, Upsert(new, asset))
<1> DEFINE more == found \union {asset}
           next == Upsert(new, asset)
<1>1. /\ new \in [DOMAIN old \union {a.mac : a \in found} -> Row]
      /\ \A m \in DOMAIN new :
           /\ new[m].vendor = "null" <=> \A said \in Inventory!Said(old, found, m) : said.vendor = "null"
           /\ \E said \in Inventory!Said(old, found, m) : new[m].first = said.first
           /\ \E said \in Inventory!Said(old, found, m) : new[m].last = said.last
  BY DEF Inventory!Merges
<1>2. DOMAIN next = DOMAIN new \union {asset.mac}
  BY UpsertGrows
<1>3. DOMAIN next = DOMAIN old \union {a.mac : a \in more}
  BY <1>1, <1>2
<1>4. ASSUME NEW m \in DOMAIN next
      PROVE  /\ next[m] \in Row
             /\ next[m].vendor = "null" <=> \A said \in Inventory!Said(old, more, m) : said.vendor = "null"
             /\ \E said \in Inventory!Said(old, more, m) : next[m].first = said.first
             /\ \E said \in Inventory!Said(old, more, m) : next[m].last = said.last
  <2>1. next[m] = IF m # asset.mac THEN new[m]
                  ELSE IF m \in DOMAIN new THEN Merged(new[m], asset) ELSE RowOf(asset)
    BY <1>2 DEF Upsert
  <2>2. CASE m # asset.mac
    <3>1. Inventory!Said(old, more, m) = Inventory!Said(old, found, m)
      BY <2>2 DEF Inventory!Said
    <3>2. m \in DOMAIN new /\ next[m] = new[m] /\ new[m] \in Row
      BY <1>1, <1>2, <2>1, <2>2
    <3> QED
      BY <1>1, <3>1, <3>2
  <2>3. CASE m = asset.mac /\ m \in DOMAIN new
    <3> DEFINE before == Inventory!Said(old, found, m)
    <3>1. Inventory!Said(old, more, m) = before \union {asset}
      BY <2>3 DEF Inventory!Said
    <3>2. /\ new[m].vendor = "null" <=> \A said \in before : said.vendor = "null"
          /\ \E said \in before : new[m].first = said.first
          /\ \E said \in before : new[m].last = said.last
      BY <1>1, <2>3
    <3>3. next[m] = Merged(new[m], asset) /\ new[m] \in Row
      BY <1>1, <2>1, <2>3
    <3> HIDE DEF before
    <3>4. /\ next[m].vendor = IF asset.vendor # "null" THEN asset.vendor ELSE new[m].vendor
          /\ next[m].first \in {asset.first, new[m].first}
          /\ next[m].last \in {asset.last, new[m].last}
          /\ next[m] \in Row
      BY <3>3, MergedType DEF Merged
    <3> QED
      BY <3>1, <3>2, <3>4
  <2>4. CASE m = asset.mac /\ m \notin DOMAIN new
    <3>1. Inventory!Said(old, more, m) = {asset}
      BY <1>1, <2>4 DEF Inventory!Said
    <3>2. next[m] = RowOf(asset) /\ RowOf(asset) \in Row
      BY <2>1, <2>4, MergedType
    <3> QED
      BY <3>1, <3>2 DEF RowOf
  <2> QED
    BY <2>2, <2>3, <2>4
<1>5. next = [m \in DOMAIN next |-> next[m]]
  BY DEF Upsert
<1> HIDE DEF next, more
<1>6. next \in [DOMAIN old \union {a.mac : a \in more} -> Row]
  BY <1>3, <1>4, <1>5
<1>7. Inventory!Merges(old, more, next)
  BY <1>4, <1>6 DEF Inventory!Merges
<1> QED
  BY <1>7 DEF more, next

-----------------------------------------------------------------------------
(* Every step keeps the invariant.                                         *)

\* The steps of connection c.
Step(c) ==
  \/ Open(c) \/ CreateTable(c) \/ StampVersion(c) \/ RebuildAssets(c) \/ Close(c)
  \/ BeginWrite(c) \/ Insert(c) \/ WriteFails(c) \/ Commit(c) \/ CommitFails(c)
  \/ ClearApplicationData(c) \/ ClearWhileStuck(c)

\* It holds initially, of a file of any version.
LEMMA Initially == Init => IInv
<1> SUFFICES ASSUME Init PROVE IInv
  OBVIOUS
<1>1. \A T : <<>> \in Seq(T)
  OBVIOUS
<1>2. userVersion \in 0 .. Latest
  BY VersionAssumption DEF Init
<1>3. rows = NoRows \/ DOMAIN rows = Macs
  BY DEF Init, OldRows
<1>4. DOMAIN NoRows = {}
  BY DEF NoRows
<1>5. TypeOK
  <2>1. 0 \in 0 .. Latest
    BY DEF Latest
  <2>2. version \in [Connections -> 0 .. Latest] /\ todo \in [Connections -> Seq(Asset)]
    BY <1>1, <2>1 DEF Init
  <2>3. DOMAIN work = Connections /\ \A c \in Connections : DOMAIN work[c] \subseteq Macs
    BY <1>4 DEF Init
  <2>4. DOMAIN rows \subseteq Macs /\ rows \in [DOMAIN rows -> Row]
    <3>1. CASE rows = NoRows
      BY <1>4, <3>1 DEF NoRows
    <3>2. CASE rows # NoRows
      <4>1. PICK t \in Timestamps : rows = [m \in Macs |-> [vendor |-> "null", first |-> t, last |-> t]]
        BY <3>2 DEF Init, OldRows
      <4>2. [vendor |-> "null", first |-> t, last |-> t] \in Row
        BY DEF Row, Vendor
      <4> QED
        BY <4>1, <4>2
    <3> QED
      BY <3>1, <3>2
  <2>5. at \in [Connections -> Places] /\ lock = NoOne /\ overlapped = FALSE /\ misread = FALSE
    BY DEF Init, Places
  <2> QED
    BY <1>2, <2>2, <2>3, <2>4, <2>5, ConnectionAssumption DEF TypeOK
<1>6. Schema
  BY <1>2, TablesGrow DEF Init, Schema, Using, Latest
<1>7. OneRun
  BY DEF Init, OneRun
<1>8. Knowledge
  BY DEF Init, Knowledge, Using, Migrating
<1> QED
  BY <1>5, <1>6, <1>7, <1>8 DEF IInv

\* Types.
LEMMA TypeKept ==
  ASSUME TypeOK, OneRun, Schema, NEW c \in Connections, Step(c)
  PROVE  TypeOK'
<1>0. ASSUME BeginWrite(c)
      PROVE  todo' \in [Connections -> Seq(Asset)]
  <2>1. PICK batch \in Batches : \E assets \in [DOMAIN batch -> Asset] :
          /\ \A i \in DOMAIN batch : assets[i].mac = batch[i]
          /\ todo' = [todo EXCEPT ![c] = assets]
    BY <1>0 DEF BeginWrite
  <2>2. PICK assets \in [DOMAIN batch -> Asset] :
          /\ \A i \in DOMAIN batch : assets[i].mac = batch[i]
          /\ todo' = [todo EXCEPT ![c] = assets]
    BY <2>1
  <2>3. assets \in Seq(Asset)
    BY <2>2, RunToDo
  <2> QED
    BY <2>2, <2>3 DEF TypeOK
<1> USE DEF TypeOK, Places, Goes, file, connection, history
<1>1. CASE Open(c)
  <2>1. 0 \in 0 .. Latest
    BY DEF Latest
  <2> QED
    BY <1>1, <2>1 DEF Open
<1>2. CASE CreateTable(c)
  BY <1>2 DEF CreateTable
<1>3. CASE StampVersion(c)
  <2>1. version[c] \in 0 .. Latest /\ version[c] < Latest - 1
    BY <1>3 DEF StampVersion, Schema
  <2>2. version[c] + 1 \in 0 .. Latest
    BY <2>1 DEF Latest
  <2> QED
    BY <1>3, <2>2 DEF StampVersion
<1>4. CASE RebuildAssets(c)
  <2>1. Latest \in 0 .. Latest
    BY DEF Latest
  <2>2. rows' = [m \in DOMAIN rows |-> [rows[m] EXCEPT !.vendor = "null"]]
    BY <1>4 DEF RebuildAssets
  <2>3. DOMAIN rows' = DOMAIN rows /\ rows' \in [DOMAIN rows -> Row]
    BY <2>2 DEF Row, Vendor
  <2> QED
    BY <1>4, <2>1, <2>3 DEF RebuildAssets
<1>5. CASE Close(c)
  <2>1. 0 \in 0 .. Latest /\ <<>> \in Seq(Asset) /\ DOMAIN NoRows = {}
    BY DEF Latest, NoRows
  <2> QED
    BY <1>5, <2>1, ConnectionAssumption DEF Close
<1>6. CASE BeginWrite(c)
  BY <1>0, <1>6 DEF BeginWrite
<1>7. CASE Insert(c)
  <2> DEFINE table == IF lock = c THEN work[c] ELSE rows
  <2>1. work' = [work EXCEPT ![c] = Upsert(table, Head(todo[c]))] /\ todo[c] # <<>>
    BY <1>7 DEF Insert
  <2>2. Head(todo[c]).mac \in Macs /\ Tail(todo[c]) \in Seq(Asset)
    BY <2>1, NextToDo
  <2>3. DOMAIN table \subseteq Macs
    OBVIOUS
  <2> HIDE DEF table
  <2>4. DOMAIN Upsert(table, Head(todo[c])) \subseteq Macs
    <3>1. DOMAIN Upsert(table, Head(todo[c])) = DOMAIN table \union {Head(todo[c]).mac}
      BY UpsertGrows
    <3> QED
      BY <2>2, <2>3, <3>1
  <2>5. DOMAIN work' = Connections /\ \A d \in Connections : DOMAIN work'[d] \subseteq Macs
    BY <2>1, <2>4
  <2>6. todo' \in [Connections -> Seq(Asset)]
    BY <1>7, <2>2 DEF Insert
  <2> QED
    BY <1>7, <2>5, <2>6 DEF Insert, MayWrite
<1>8. CASE WriteFails(c)
  <2>1. <<>> \in Seq(Asset) /\ DOMAIN NoRows = {}
    BY DEF NoRows
  <2> QED
    BY <1>8, <2>1, ConnectionAssumption DEF WriteFails, Release
<1>9. CASE Commit(c)
  <2>1. DOMAIN NoRows = {}
    BY DEF NoRows
  <2>2. rows' = work[c] /\ rows' \in [DOMAIN rows' -> Row]
    <3>1. rows' = work[c] /\ at[c] = "writing" /\ lock = c
      BY <1>9 DEF Commit, Committing
    <3>2. PICK found \in Inventory!Runs, done \in SUBSET Asset : Inventory!Merges(rows, done, work[c])
      BY <3>1 DEF OneRun, Underway
    <3> QED
      BY <3>1, <3>2 DEF Inventory!Merges
  <2> QED
    BY <1>9, <2>1, <2>2, ConnectionAssumption DEF Commit, Committing
<1>10. CASE CommitFails(c)
  BY <1>10 DEF CommitFails, Committing
<1>11. CASE ClearApplicationData(c)
  <2>1. DOMAIN NoRows = {} /\ NoRows \in [{} -> Row]
    BY DEF NoRows
  <2> QED
    BY <1>11, <2>1 DEF ClearApplicationData
<1>12. CASE ClearWhileStuck(c)
  <2>1. DOMAIN NoRows = {}
    BY DEF NoRows
  <2> QED
    BY <1>12, <2>1, ConnectionAssumption DEF ClearWhileStuck, Release
<1> QED
  BY <1>1, <1>2, <1>3, <1>4, <1>5, <1>6, <1>7, <1>8, <1>9, <1>10, <1>11, <1>12 DEF Step

\* The schema: tables are only added, each before the version that has it.
LEMMA SchemaKept ==
  ASSUME TypeOK, Schema, NEW c \in Connections, Step(c)
  PROVE  Schema'
<1> USE DEF Goes, file, connection, history
<1>1. at \in [Connections -> Places] /\ version \in [Connections -> 0 .. Latest] /\ userVersion \in 0 .. Latest
  BY DEF TypeOK
<1>2. \A d \in Connections \ {c} : at'[d] = at[d] /\ version'[d] = version[d]
  BY <1>1 DEF Step, Open, CreateTable, StampVersion, RebuildAssets, Close, BeginWrite, Insert,
              WriteFails, Commit, CommitFails, ClearApplicationData, ClearWhileStuck
<1>3. CASE Open(c)
  <2>1. PICK read \in {userVersion, 0} :
          /\ version'[c] = read
          /\ at'[c] = IF read < Latest THEN "creating" ELSE "ready"
    BY <1>1, <1>3 DEF Open
  <2>2. tables' = tables /\ userVersion' = userVersion
    BY <1>3 DEF Open
  <2>3. read < Latest \/ (read = Latest /\ read = userVersion)
    BY <1>1 DEF Latest
  <2>4. Schema => TablesOf(read) \subseteq tables
    BY <2>1 DEF Schema, TablesOf
  <2> QED
    BY <1>2, <2>1, <2>2, <2>3, <2>4 DEF Schema, Using
<1>4. CASE CreateTable(c)
  <2>1. /\ tables' = tables \union TablesOf(version[c] + 1) /\ userVersion' = userVersion
        /\ version'[c] = version[c] /\ at'[c] = "stamping" /\ version[c] < Latest - 1
    BY <1>1, <1>4 DEF CreateTable
  <2>2. version[c] + 1 \in 0 .. Latest /\ version[c] + 1 <= Latest /\ Latest \in 0 .. Latest
    BY <1>1, <2>1 DEF Latest
  <2>3. TablesOf(version[c] + 1) \subseteq TablesOf(Latest)
    BY <2>2, TablesGrow
  <2> QED
    BY <1>2, <2>1, <2>3 DEF Schema, Using
<1>5. CASE StampVersion(c)
  <2>1. /\ tables' = tables /\ userVersion' = version[c] + 1 /\ version'[c] = version[c] + 1
        /\ at'[c] = "creating" /\ at[c] = "stamping"
    BY <1>1, <1>5 DEF StampVersion
  <2>2. version[c] < Latest - 1 /\ TablesOf(version[c] + 1) \subseteq tables
    BY <2>1 DEF Schema
  <2>3. version[c] + 1 < Latest
    BY <1>1, <2>2 DEF Latest
  <2> QED
    BY <1>2, <2>1, <2>2, <2>3 DEF Schema, Using
<1>6. CASE RebuildAssets(c)
  <2>1. /\ tables' = tables /\ userVersion' = Latest /\ at'[c] = "ready"
        /\ at[c] = "creating" /\ version[c] = Latest - 1
    BY <1>1, <1>6 DEF RebuildAssets
  <2>2. TablesOf(Latest) \subseteq tables
    BY <2>1, TablesGrow DEF Schema
  <2> QED
    BY <1>2, <2>1, <2>2 DEF Schema, Using
<1>7. CASE Close(c)
  <2>1. tables' = tables /\ userVersion' = userVersion /\ at'[c] = "closed"
    BY <1>1, <1>7 DEF Close
  <2> QED
    BY <1>2, <2>1 DEF Schema, Using
<1>8. CASE \/ BeginWrite(c) \/ Insert(c) \/ WriteFails(c) \/ Commit(c) \/ CommitFails(c)
           \/ ClearApplicationData(c) \/ ClearWhileStuck(c)
  <2>1. /\ tables' = tables /\ userVersion' = userVersion
        /\ at[c] \in Using /\ at'[c] \in Using
    <3>1. CASE BeginWrite(c)
      BY <1>1, <3>1 DEF BeginWrite, Using
    <3>2. CASE Insert(c)
      BY <1>1, <3>2 DEF Insert, Using
    <3>3. CASE WriteFails(c)
      BY <1>1, <3>3 DEF WriteFails, Using
    <3>4. CASE Commit(c)
      BY <1>1, <3>4 DEF Commit, Committing, Using
    <3>5. CASE CommitFails(c)
      BY <1>1, <3>5 DEF CommitFails, Committing, Using
    <3>6. CASE ClearApplicationData(c)
      BY <1>1, <3>6 DEF ClearApplicationData, Using
    <3>7. CASE ClearWhileStuck(c)
      BY <1>1, <3>7 DEF ClearWhileStuck, Using
    <3> QED
      BY <1>8, <3>1, <3>2, <3>3, <3>4, <3>5, <3>6, <3>7
  <2> QED
    BY <1>2, <2>1 DEF Schema, Using
<1> QED
  BY <1>3, <1>4, <1>5, <1>6, <1>7, <1>8 DEF Step

\* What a step of one connection leaves alone of the others.
LEMMA OthersKept ==
  ASSUME TypeOK, NEW c \in Connections, Step(c), NEW d \in Connections, d # c
  PROVE  /\ at'[d] = at[d] /\ version'[d] = version[d] /\ todo'[d] = todo[d] /\ work'[d] = work[d]
         /\ lock' = d <=> lock = d
         /\ lock = d => rows' = rows
<1> USE DEF Goes, file, connection, history
<1>1. /\ at \in [Connections -> Places] /\ version \in [Connections -> 0 .. Latest]
      /\ todo \in [Connections -> Seq(Asset)] /\ DOMAIN work = Connections
      /\ lock \in Connections \union {NoOne} /\ NoOne \notin Connections
      /\ lock = c => at[c] \in {"writing", "stuck"}
  BY ConnectionAssumption DEF TypeOK
<1>2. CASE Open(c) \/ CreateTable(c) \/ StampVersion(c) \/ BeginWrite(c) \/ CommitFails(c)
  <2>1. /\ work' = work /\ rows' = rows /\ lock' = lock
        /\ todo'[d] = todo[d] /\ version'[d] = version[d] /\ at'[d] = at[d]
    BY <1>1, <1>2 DEF Open, CreateTable, StampVersion, BeginWrite, CommitFails
  <2> QED
    BY <2>1
<1>3. CASE RebuildAssets(c)
  BY <1>1, <1>3 DEF RebuildAssets, MayWrite
<1>4. CASE Close(c) \/ WriteFails(c) \/ ClearWhileStuck(c)
  BY <1>1, <1>4 DEF Close, WriteFails, ClearWhileStuck, Release
<1>5. CASE Insert(c)
  BY <1>1, <1>5 DEF Insert, MayWrite
<1>6. CASE Commit(c)
  BY <1>1, <1>6 DEF Commit, Committing
<1>7. CASE ClearApplicationData(c)
  BY <1>1, <1>7 DEF ClearApplicationData
<1> QED
  BY <1>2, <1>3, <1>4, <1>5, <1>6, <1>7 DEF Step

\* The runs: a transaction's work is based on the rows as they are.
LEMMA RunsKept ==
  ASSUME TypeOK, OneRun, NEW c \in Connections, Step(c)
  PROVE  OneRun'
<1> USE DEF Goes, file, connection, history
<1>1. /\ at \in [Connections -> Places] /\ todo \in [Connections -> Seq(Asset)]
      /\ DOMAIN work = Connections
      /\ lock \in Connections \union {NoOne} /\ NoOne \notin Connections
      /\ lock = c => at[c] \in {"writing", "stuck"}
      /\ rows \in [DOMAIN rows -> Row]
  BY ConnectionAssumption DEF TypeOK
<1>2. ASSUME at'[c] = "writing" =>
               \E found \in Inventory!Runs, done \in SUBSET Asset : Underway(c, found, done)'
      PROVE  OneRun'
  <2> SUFFICES ASSUME NEW d \in Connections, at'[d] = "writing", d # c
               PROVE  \E found \in Inventory!Runs, done \in SUBSET Asset : Underway(d, found, done)'
    BY <1>2 DEF OneRun
  <2>1. /\ at'[d] = at[d] /\ todo'[d] = todo[d] /\ work'[d] = work[d]
        /\ lock' = d <=> lock = d
        /\ lock = d => rows' = rows
    BY OthersKept
  <2>2. PICK found \in Inventory!Runs, done \in SUBSET Asset : Underway(d, found, done)
    BY <2>1 DEF OneRun
  <2>3. Underway(d, found, done)'
    BY <2>1, <2>2 DEF Underway, AssetsOf
  <2> QED
    BY <2>3
<1>3. CASE \/ Open(c) \/ CreateTable(c) \/ StampVersion(c) \/ RebuildAssets(c) \/ Close(c)
           \/ WriteFails(c) \/ Commit(c) \/ CommitFails(c) \/ ClearApplicationData(c) \/ ClearWhileStuck(c)
  <2>1. at'[c] # "writing"
    <3>1. CASE \/ Open(c) \/ CreateTable(c) \/ StampVersion(c) \/ RebuildAssets(c) \/ Close(c)
      BY <1>1, <3>1 DEF Open, CreateTable, StampVersion, RebuildAssets, Close
    <3>2. CASE \/ WriteFails(c) \/ Commit(c) \/ CommitFails(c) \/ ClearApplicationData(c) \/ ClearWhileStuck(c)
      BY <1>1, <3>2 DEF WriteFails, Commit, CommitFails, ClearApplicationData, ClearWhileStuck
    <3> QED
      BY <1>3, <3>1, <3>2
  <2> QED
    BY <1>2, <2>1
<1>4. CASE BeginWrite(c)
  <2>1. lock' = lock /\ lock # c
    BY <1>1, <1>4 DEF BeginWrite
  <2>2. PICK batch \in Batches : \E assets \in [DOMAIN batch -> Asset] :
          /\ \A i \in DOMAIN batch : assets[i].mac = batch[i]
          /\ todo' = [todo EXCEPT ![c] = assets]
    BY <1>4 DEF BeginWrite
  <2>3. PICK assets \in [DOMAIN batch -> Asset] :
          /\ \A i \in DOMAIN batch : assets[i].mac = batch[i]
          /\ todo' = [todo EXCEPT ![c] = assets]
    BY <2>2
  <2>4. AssetsOf(assets) \in Inventory!Runs /\ todo'[c] = assets
    BY <1>1, <2>3, RunToDo
  <2>5. Underway(c, AssetsOf(assets), {})'
    BY <2>1, <2>4 DEF Underway, AssetsOf
  <2> QED
    BY <1>2, <2>4, <2>5
<1>5. CASE Insert(c)
  <2> DEFINE table == IF lock = c THEN work[c] ELSE rows
             s == todo[c]
  <2>1. /\ at[c] = "writing" /\ s # <<>> /\ s \in Seq(Asset) /\ lock' = c /\ rows' = rows
        /\ work'[c] = Upsert(table, Head(s)) /\ todo'[c] = Tail(s)
    BY <1>1, <1>5 DEF Insert
  <2>2. PICK found \in Inventory!Runs, done \in SUBSET Asset : Underway(c, found, done)
    BY <2>1 DEF OneRun
  <2>3. found = done \union AssetsOf(s) /\ Inventory!Merges(rows, done, table)
    BY <1>1, <2>2, NothingFound DEF Underway
  <2>4. Head(s) \in Asset /\ AssetsOf(s) = {Head(s)} \union AssetsOf(Tail(s))
    BY <2>1, NextToDo
  <2> HIDE DEF table, s
  <2>5. PICK now \in SUBSET Asset : now = done \union {Head(s)}
    BY <2>4
  <2>6. Inventory!Merges(rows, now, Upsert(table, Head(s))) /\ found = now \union AssetsOf(Tail(s))
    BY <2>3, <2>4, <2>5, UpsertMerges
  <2>7. Underway(c, found, now)'
    BY <2>1, <2>6 DEF Underway, AssetsOf
  <2> QED
    BY <1>2, <2>7
<1> QED
  BY <1>3, <1>4, <1>5 DEF Step

\* The refinement: what a step does to the rows the inventory does at once.
LEMMA StepOfInventory ==
  ASSUME TypeOK, OneRun, NEW c \in Connections, Step(c)
  PROVE  Inventory!Next \/ rows' = rows
<1> USE DEF Goes, file, connection, history
<1>1. CASE \/ Open(c) \/ CreateTable(c) \/ StampVersion(c) \/ Close(c) \/ BeginWrite(c) \/ Insert(c)
           \/ WriteFails(c) \/ CommitFails(c) \/ ClearWhileStuck(c)
  BY <1>1 DEF Open, CreateTable, StampVersion, Close, BeginWrite, Insert, WriteFails, CommitFails, ClearWhileStuck
<1>2. CASE RebuildAssets(c)
  <2>1. Inventory!ForgetVendors
    BY <1>2 DEF RebuildAssets, Inventory!ForgetVendors
  <2> QED
    BY <2>1 DEF Inventory!Next
<1>3. CASE Commit(c)
  <2>1. at[c] = "writing" /\ lock = c /\ todo[c] = <<>> /\ rows' = work[c]
    BY <1>3 DEF Commit, Committing
  <2>2. PICK found \in Inventory!Runs, done \in SUBSET Asset : Underway(c, found, done)
    BY <2>1 DEF OneRun
  <2>3. AssetsOf(todo[c]) = {}
    BY <2>1 DEF AssetsOf
  <2>4. Inventory!Merges(rows, found, rows')
    BY <2>1, <2>2, <2>3 DEF Underway
  <2> QED
    BY <2>4 DEF Inventory!Next, Inventory!Store
<1>4. CASE ClearApplicationData(c)
  <2>1. rows' = NoRows
    BY <1>4 DEF ClearApplicationData
  <2>2. NoRows = [m \in {} |-> {}]
    BY DEF NoRows
  <2> QED
    BY <2>1, <2>2 DEF Inventory!Next, Inventory!Clear
<1> QED
  BY <1>1, <1>2, <1>3, <1>4 DEF Step

\* What is known: nobody stores while the one migration is under way.
LEMMA KnowledgeStaysKnown ==
  ASSUME TypeOK, Schema, Knowledge, NEW c \in Connections, Step(c)
  PROVE  Knowledge'
<1> USE DEF Goes, file, connection, history
<1> SUFFICES ASSUME ~overlapped', ~misread'
             PROVE  Knowledge'
  BY DEF Knowledge
<1>1. /\ at \in [Connections -> Places] /\ version \in [Connections -> 0 .. Latest]
      /\ DOMAIN work = Connections /\ userVersion \in 0 .. Latest
      /\ lock \in Connections \union {NoOne} /\ NoOne \notin Connections
      /\ lock = c => at[c] \in {"writing", "stuck"}
  BY ConnectionAssumption DEF TypeOK
<1>2. ~overlapped /\ ~misread
  <2>1. CASE Open(c)
    BY <2>1 DEF Open
  <2>2. CASE ~Open(c)
    BY <2>2 DEF Step, CreateTable, StampVersion, RebuildAssets, Close, BeginWrite, Insert,
           WriteFails, Commit, CommitFails, ClearApplicationData, ClearWhileStuck
  <2> QED
    BY <2>1, <2>2
<1>3. /\ \A d \in Connections : at[d] \in Migrating => version[d] = userVersion
      /\ \A d, e \in Connections : at[d] \in Migrating /\ at[e] \in Migrating => d = e
      /\ userVersion # Latest => known = {} /\ \A d \in Connections : at[d] \notin Using
      /\ known \subseteq Vendors(rows)
      /\ \A d \in Connections : at[d] = "writing" /\ lock = d => known \subseteq Vendors(work[d])
  BY <1>2 DEF Knowledge
<1>4. \A d \in Connections \ {c} :
        /\ at'[d] = at[d] /\ version'[d] = version[d] /\ work'[d] = work[d]
        /\ lock' = d <=> lock = d
  BY OthersKept
<1>5. CASE Open(c)
  <2>1. /\ userVersion' = userVersion /\ rows' = rows /\ known' = known
        /\ version'[c] = userVersion
        /\ at'[c] = IF userVersion < Latest THEN "creating" ELSE "ready"
        /\ userVersion < Latest => \A d \in Connections : at[d] \notin Migrating
    BY <1>1, <1>5 DEF Open
  <2>2. userVersion < Latest \/ userVersion = Latest
    BY <1>1 DEF Latest
  <2> QED
    BY <1>3, <1>4, <2>1, <2>2 DEF Knowledge, Migrating, Using
<1>6. CASE CreateTable(c)
  <2>1. /\ userVersion' = userVersion /\ rows' = rows /\ known' = known /\ version'[c] = version[c]
        /\ at[c] = "creating" /\ at'[c] = "stamping"
    BY <1>1, <1>6 DEF CreateTable
  <2> QED
    BY <1>3, <1>4, <2>1 DEF Knowledge, Migrating, Using
<1>7. CASE StampVersion(c)
  <2>1. /\ userVersion' = version[c] + 1 /\ rows' = rows /\ known' = known
        /\ version'[c] = version[c] + 1 /\ at[c] = "stamping" /\ at'[c] = "creating"
    BY <1>1, <1>7 DEF StampVersion
  <2>2. version[c] = userVersion /\ \A d \in Connections : at[d] \in Migrating => d = c
    BY <1>3, <2>1 DEF Migrating
  <2>3. userVersion # Latest
    BY <1>1, <2>1, <2>2 DEF Schema, Latest
  <2> QED
    BY <1>3, <1>4, <2>1, <2>2, <2>3 DEF Knowledge, Migrating, Using
<1>8. CASE RebuildAssets(c)
  <2>1. /\ userVersion' = Latest /\ known' = known
        /\ at[c] = "creating" /\ at'[c] = "ready" /\ version[c] = Latest - 1
    BY <1>1, <1>8 DEF RebuildAssets
  <2>2. version[c] = userVersion /\ \A d \in Connections : at[d] \in Migrating => d = c
    BY <1>3, <2>1 DEF Migrating
  <2>3. userVersion # Latest
    BY <2>1, <2>2 DEF Latest
  <2> QED
    BY <1>3, <1>4, <2>1, <2>2, <2>3 DEF Knowledge, Migrating, Using
<1>9. CASE Close(c)
  <2>1. userVersion' = userVersion /\ rows' = rows /\ known' = known /\ at'[c] = "closed"
    BY <1>1, <1>9 DEF Close
  <2> QED
    BY <1>3, <1>4, <2>1 DEF Knowledge, Migrating, Using
<1>10. CASE BeginWrite(c)
  <2>1. /\ userVersion' = userVersion /\ rows' = rows /\ known' = known /\ lock' = lock
        /\ at[c] = "ready" /\ at'[c] = "writing"
    BY <1>1, <1>10 DEF BeginWrite
  <2>2. lock' # c
    BY <1>1, <2>1
  <2> QED
    BY <1>3, <1>4, <2>1, <2>2 DEF Knowledge, Migrating, Using
<1>11. CASE Insert(c)
  <2> DEFINE table == IF lock = c THEN work[c] ELSE rows
  <2>1. /\ userVersion' = userVersion /\ rows' = rows /\ known' = known /\ at' = at /\ version' = version
        /\ at[c] = "writing" /\ work'[c] = Upsert(table, Head(todo[c]))
    BY <1>1, <1>11 DEF Insert
  <2>2. known \subseteq Vendors(table)
    BY <1>3, <2>1
  <2>3. Vendors(table) \subseteq Vendors(Upsert(table, Head(todo[c])))
    BY UpsertGrows
  <2> HIDE DEF table
  <2>4. known' \subseteq Vendors(work[c])'
    BY <2>1, <2>2, <2>3 DEF Vendors
  <2> QED
    BY <1>3, <1>4, <2>1, <2>4 DEF Knowledge, Vendors
<1>12. CASE WriteFails(c) \/ CommitFails(c) \/ ClearWhileStuck(c)
  <2>1. /\ userVersion' = userVersion /\ rows' = rows /\ known' = known
        /\ at[c] \in Using /\ at'[c] \in {"ready", "stuck"}
    BY <1>1, <1>12 DEF WriteFails, CommitFails, Committing, ClearWhileStuck, Using
  <2> QED
    BY <1>3, <1>4, <2>1 DEF Knowledge, Migrating, Using
<1>13. CASE Commit(c)
  <2>1. /\ userVersion' = userVersion /\ at[c] = "writing" /\ lock = c /\ rows' = work[c]
        /\ known' = known \union {m \in DOMAIN work[c] : work[c][m].vendor # "null"}
        /\ at'[c] = "ready" /\ lock' = NoOne
    BY <1>1, <1>13 DEF Commit, Committing
  <2>2. known' \subseteq Vendors(rows)'
    BY <1>3, <2>1 DEF Vendors
  <2>3. userVersion = Latest
    BY <1>3, <2>1 DEF Using
  <2> QED
    BY <1>1, <1>3, <1>4, <2>1, <2>2, <2>3 DEF Knowledge, Migrating, Using
<1>14. CASE ClearApplicationData(c)
  <2>1. userVersion' = userVersion /\ known' = {} /\ at' = at /\ version' = version
    BY <1>14 DEF ClearApplicationData
  <2> QED
    BY <1>3, <2>1 DEF Knowledge
<1> QED
  BY <1>5, <1>6, <1>7, <1>8, <1>9, <1>10, <1>11, <1>12, <1>13, <1>14 DEF Step

\* The invariant.
LEMMA Invariant == Spec => []IInv
<1>1. ASSUME IInv, [Next]_vars
      PROVE  IInv'
  <2>1. CASE Next
    <3>1. PICK c \in Connections : Step(c)
      BY <2>1 DEF Next, Step
    <3>2. TypeOK' /\ Schema'
      BY <1>1, <3>1, TypeKept, SchemaKept DEF IInv
    <3>3. OneRun'
      BY <1>1, <3>1, RunsKept DEF IInv
    <3>4. Knowledge'
      BY <1>1, <3>1, KnowledgeStaysKnown DEF IInv
    <3> QED
      BY <3>2, <3>3, <3>4 DEF IInv
  <2>2. CASE UNCHANGED vars
    <3>1. TypeOK' /\ Schema'
      BY <1>1, <2>2 DEF IInv, vars, file, connection, history, TypeOK, Schema
    <3>3. /\ at' = at /\ todo' = todo /\ work' = work /\ lock' = lock /\ rows' = rows
      BY <2>2 DEF vars, file, connection
    <3>4. OneRun'
      BY <1>1, <3>3 DEF IInv, OneRun, Underway, AssetsOf
    <3>5. Knowledge'
      BY <1>1, <2>2 DEF IInv, vars, file, connection, history, Knowledge, Vendors
    <3> QED
      BY <3>1, <3>4, <3>5 DEF IInv
  <2> QED
    BY <1>1, <2>1, <2>2
<1> QED
  BY <1>1, Initially, PTL DEF Spec

-----------------------------------------------------------------------------
(* Theorems.                                                               *)

\* Types; and the write lock is in the hands of a transaction of writeAssets
\* that is open.
THEOREM TypeCorrect == Spec => []TypeOK
<1>1. IInv => TypeOK
  BY DEF IInv
<1> QED
  BY <1>1, Invariant, PTL

\* A connection whose constructor has returned finds every table of the latest
\* version, whatever other connections have migrated, and died, meanwhile.
THEOREM OpenedMeansMigrated == Spec => []ReadyMeansSchema
<1>1. IInv => ReadyMeansSchema
  BY DEF IInv, Schema, Using, ReadyMeansSchema
<1> QED
  BY <1>1, Invariant, PTL

\* For any connections, batches, assets and files: whoever interleaves, fails,
\* gets stuck or dies, the stored assets change as the inventory says, by all
\* that a run found, added to what is stored at its commit.
THEOREM StorageImplementsInventory == Spec => ImplementsInventory
<1>1. Init => Inventory!Init
  <2> SUFFICES ASSUME Init PROVE Inventory!Init
    OBVIOUS
  <2>1. DOMAIN rows \in SUBSET Macs /\ rows \in [DOMAIN rows -> Row]
    BY Initially DEF IInv, TypeOK
  <2> QED
    BY <2>1 DEF Inventory!Init
<1>2. IInv /\ [Next]_vars => [Inventory!Next]_rows
  <2> SUFFICES ASSUME IInv, [Next]_vars PROVE Inventory!Next \/ rows' = rows
    OBVIOUS
  <2>1. CASE Next
    <3>1. PICK c \in Connections : Step(c)
      BY <2>1 DEF Next, Step
    <3> QED
      BY <3>1, StepOfInventory DEF IInv
  <2>2. CASE UNCHANGED vars
    BY <2>2 DEF vars, file
  <2> QED
    BY <2>1, <2>2
<1> QED
  BY <1>1, <1>2, Invariant, PTL DEF Spec, ImplementsInventory, Inventory!Spec

\* A vendor once committed stays, through failing and dying writers and later
\* openers, in every behaviour in which no two connections have migrated the file
\* at the same time and each opener could read its version: then the rebuild of
\* version 5, which clears the column, runs before anyone could fill it.  The code
\* rules out neither of the two, and loses vendors in both.
THEOREM KnowledgeIsKept == Spec => []KnowledgeKept
<1>1. IInv => KnowledgeKept
  BY DEF IInv, Knowledge, Vendors, KnowledgeKept
<1> QED
  BY <1>1, Invariant, PTL
=============================================================================
