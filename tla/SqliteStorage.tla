--------------------------- MODULE SqliteStorage ---------------------------
(***************************************************************************)
(* SQLiteWriter (src/storage/SQLiteWriter.cpp): one database file, opened,  *)
(* migrated and written by several connections of the GUI and the CLI.      *)
(*                                                                         *)
(* In WAL mode one connection at a time holds the write lock, from the first*)
(* statement of its transaction that writes until the transaction ends; the *)
(* others are refused at once, for the code sets no busy timeout.  A        *)
(* statement outside a transaction is atomic.                               *)
(*                                                                         *)
(* Of an asset's row the model keeps the vendor, which stands for every     *)
(* column that version 5 of the schema added, and the two timestamps.       *)
(***************************************************************************)
EXTENDS Integers, Sequences, FiniteSets

CONSTANTS
  Connections,
  Macs,
  Timestamps,       \* records [seconds, microseconds]
  Batches,          \* what writeAssets is called with: sequences of Macs
  InitialVersions   \* versions of the database file before the first opener

Latest == 5

ASSUME VersionAssumption == InitialVersions \subseteq 0 .. Latest
ASSUME BatchAssumption == Batches \subseteq Seq(Macs)
ASSUME TimestampAssumption == Timestamps \subseteq [seconds : Nat, microseconds : Nat]

VARIABLES
  userVersion,   \* PRAGMA user_version
  tables,        \* the tables of the file
  rows,          \* the committed rows of assets: a function of the MACs stored
  lock,          \* the connection that holds the write lock, or NoOne
  at,            \* what each connection is doing
  version,       \* initializeDatabase's own copy of the version
  todo,          \* the assets writeAssets has yet to insert
  work,          \* the rows as the open transaction of a connection sees them
  overlapped,    \* history: two connections have migrated at the same time
  misread,       \* history: a connection has taken the file for one without a version
  known,         \* history: MACs that were committed with a vendor
  seen           \* history: the timestamps committed for each MAC

file == <<userVersion, tables, rows>>
connection == <<at, version, todo, work>>
history == <<overlapped, misread, known, seen>>
vars == <<file, lock, connection, history>>

NoOne == "none"

ASSUME ConnectionAssumption == NoOne \notin Connections

NoRows == [m \in {} |-> 0]

Vendor == {"null", "vendor"}

\* An asset passed to writeAssets.
Asset == [mac : Macs, vendor : Vendor, first : Timestamps, last : Timestamps]

\* A row of assets.
Row == [vendor : Vendor, first : Timestamps, last : Timestamps]

\* The tables that the migrations up to version v have made.
TablesOf(v) ==
  (IF v >= 1 THEN {"assets"} ELSE {}) \union (IF v >= 2 THEN {"app_settings"} ELSE {})
    \union (IF v >= 3 THEN {"analysis_sessions"} ELSE {})

\* An older release may have stored assets, without the later columns.
OldRows == {NoRows} \union {[m \in Macs |-> [vendor |-> "null", first |-> t, last |-> t]] : t \in Timestamps}

Init ==
  /\ userVersion \in InitialVersions
  /\ tables = TablesOf(userVersion)
  /\ rows \in IF userVersion = 0 THEN {NoRows} ELSE OldRows
  /\ lock = NoOne
  /\ at = [c \in Connections |-> "closed"]
  /\ version = [c \in Connections |-> 0]
  /\ todo = [c \in Connections |-> <<>>]
  /\ work = [c \in Connections |-> NoRows]
  /\ overlapped = FALSE
  /\ misread = FALSE
  /\ known = {}
  /\ seen = [m \in Macs |-> IF m \in DOMAIN rows THEN {rows[m].first} ELSE {}]

Goes(c, to) == at' = [at EXCEPT ![c] = to]

Migrating == {"creating", "stamping"}

MayWrite(c) == lock \in {NoOne, c}

-----------------------------------------------------------------------------
(* The constructor: initializeDatabase.                                    *)

\* user_version is read outside any transaction.  If that query fails (the file
\* is busy, or a read goes wrong) the constructor goes on with version 0.
Open(c) ==
  /\ at[c] = "closed"
  /\ \E read \in {userVersion, 0} :
       /\ version' = [version EXCEPT ![c] = read]
       /\ Goes(c, IF read < Latest THEN "creating" ELSE "ready")
       /\ overlapped' = (overlapped \/ (read < Latest /\ \E d \in Connections : at[d] \in Migrating))
       /\ misread' = (misread \/ read # userVersion)
  /\ UNCHANGED <<file, lock, todo, work, known, seen>>

\* Versions 1, 2 and 3 create their table unless it exists, when nothing is
\* written; version 4 drops one that the model leaves out.
CreateTable(c) ==
  /\ at[c] = "creating"
  /\ version[c] < Latest - 1
  /\ MayWrite(c) \/ TablesOf(version[c] + 1) \subseteq tables
  /\ tables' = tables \union TablesOf(version[c] + 1)
  /\ Goes(c, "stamping")
  /\ UNCHANGED <<userVersion, rows, lock, version, todo, work, history>>

\* PRAGMA user_version is another statement.
StampVersion(c) ==
  /\ at[c] = "stamping"
  /\ MayWrite(c)
  /\ userVersion' = version[c] + 1
  /\ version' = [version EXCEPT ![c] = @ + 1]
  /\ Goes(c, "creating")
  /\ UNCHANGED <<tables, rows, lock, todo, work, history>>

\* The rebuild without its transaction: the table may be dropped and not renamed.
RebuildWithoutTransaction(c) ==
  /\ version[c] = Latest - 1
  /\ MayWrite(c)
  /\ \/ /\ at[c] = "creating"
        /\ "assets" \in tables
        /\ tables' = tables \ {"assets"}
        /\ Goes(c, "renaming")
        /\ UNCHANGED <<userVersion, rows, version>>
     \/ /\ at[c] = "renaming"
        /\ tables' = tables \union {"assets"}
        /\ rows' = [m \in DOMAIN rows |-> [rows[m] EXCEPT !.vendor = "null"]]
        /\ userVersion' = Latest
        /\ version' = [version EXCEPT ![c] = Latest]
        /\ Goes(c, "ready")
  /\ UNCHANGED <<lock, todo, work, history>>

\* Version 5, one transaction: the table is rebuilt with its new columns empty,
\* also when it had them already.
RebuildAssets(c) ==
  /\ at[c] = "creating"
  /\ version[c] = Latest - 1
  /\ MayWrite(c)
  /\ "assets" \in tables
  /\ rows' = [m \in DOMAIN rows |-> [rows[m] EXCEPT !.vendor = "null"]]
  /\ userVersion' = Latest
  /\ version' = [version EXCEPT ![c] = Latest]
  /\ Goes(c, "ready")
  /\ UNCHANGED <<tables, lock, todo, work, history>>

\* The connection is closed: by the destructor, by a constructor that fails
\* (a statement was refused or went wrong), or because its process died.  An
\* open transaction is rolled back.
Close(c) ==
  /\ at[c] # "closed"
  /\ Goes(c, "closed")
  /\ lock' = IF lock = c THEN NoOne ELSE lock
  /\ version' = [version EXCEPT ![c] = 0]
  /\ todo' = [todo EXCEPT ![c] = <<>>]
  /\ work' = [work EXCEPT ![c] = NoRows]
  /\ UNCHANGED <<file, history>>

-----------------------------------------------------------------------------
(* Timestamps are stored as text and compared as text.                     *)

TimestampLess(t, u) ==
  \/ t.seconds < u.seconds
  \/ t.seconds = u.seconds /\ t.microseconds < u.microseconds

Digits[n \in Nat] == IF n < 10 THEN <<n>> ELSE Append(Digits[n \div 10], n % 10)

\* A dot sorts before every digit.
Dot == -1

\* formatTimestamp does not pad the microseconds.
FormatTimestamp(t) == Digits[t.seconds] \o <<Dot>> \o Digits[t.microseconds]

TextLess(a, b) ==
  \E i \in DOMAIN b : /\ \A j \in 1 .. (i - 1) : j \in DOMAIN a /\ a[j] = b[j]
                      /\ i \in DOMAIN a => a[i] < b[i]

Earlier(t, u) == TextLess(FormatTimestamp(t), FormatTimestamp(u))

-----------------------------------------------------------------------------
(* writeAssets.                                                            *)

\* A run's assets are written, each with or without a vendor.
BeginWrite(c) ==
  /\ at[c] = "ready"
  /\ \E batch \in Batches :
       \E assets \in [DOMAIN batch -> Asset] :
         /\ \A i \in DOMAIN batch : /\ assets[i].mac = batch[i]
                                    /\ ~TimestampLess(assets[i].last, assets[i].first)
         /\ todo' = [todo EXCEPT ![c] = assets]
  /\ Goes(c, "writing")
  /\ UNCHANGED <<file, lock, version, work, history>>

RowOf(asset) == [vendor |-> asset.vendor, first |-> asset.first, last |-> asset.last]

\* The vendor is taken from the new asset even if that has none.
MergedOverwriting(row, asset) ==
  [vendor |-> asset.vendor,
   first |-> IF Earlier(asset.first, row.first) THEN asset.first ELSE row.first,
   last |-> IF Earlier(row.last, asset.last) THEN asset.last ELSE row.last]

\* ON CONFLICT DO UPDATE.
Merged(row, asset) ==
  [vendor |-> IF asset.vendor # "null" THEN asset.vendor ELSE row.vendor,
   first |-> IF Earlier(asset.first, row.first) THEN asset.first ELSE row.first,
   last |-> IF Earlier(row.last, asset.last) THEN asset.last ELSE row.last]

Upsert(table, asset) ==
  [m \in DOMAIN table \union {asset.mac} |->
     IF m # asset.mac THEN table[m]
     ELSE IF m \in DOMAIN table THEN Merged(table[m], asset) ELSE RowOf(asset)]

\* The first insertion takes the lock and sees the rows as they are now.
Insert(c) ==
  /\ at[c] = "writing"
  /\ todo[c] # <<>>
  /\ MayWrite(c)
  /\ lock' = c
  /\ LET table == IF lock = c THEN work[c] ELSE rows
     IN  work' = [work EXCEPT ![c] = Upsert(table, Head(todo[c]))]
  /\ todo' = [todo EXCEPT ![c] = Tail(@)]
  /\ UNCHANGED <<file, at, version, history>>

Release(c) == lock' = IF lock = c THEN NoOne ELSE lock

\* The transaction is not rolled back.
WriteFailsWithoutRollback(c) ==
  /\ at[c] = "writing"
  /\ Goes(c, "ready")
  /\ todo' = [todo EXCEPT ![c] = <<>>]
  /\ UNCHANGED <<file, lock, version, work, history>>

\* Refused for lack of the lock, or failed and rolled back: by the code, or by
\* SQLite when it is the COMMIT that failed.
WriteFails(c) ==
  /\ at[c] = "writing"
  /\ Goes(c, "ready")
  /\ Release(c)
  /\ todo' = [todo EXCEPT ![c] = <<>>]
  /\ work' = [work EXCEPT ![c] = NoRows]
  /\ UNCHANGED <<file, version, history>>

Committing(c) == at[c] = "writing" /\ lock = c /\ todo[c] = <<>>

Commit(c) ==
  /\ Committing(c)
  /\ rows' = work[c]
  /\ known' = known \union {m \in DOMAIN work[c] : work[c][m].vendor # "null"}
  /\ seen' = [m \in Macs |-> IF m \in DOMAIN work[c]
                             THEN seen[m] \union {work[c][m].first, work[c][m].last}
                             ELSE seen[m]]
  /\ Goes(c, "ready")
  /\ lock' = NoOne
  /\ work' = [work EXCEPT ![c] = NoRows]
  /\ UNCHANGED <<userVersion, tables, version, todo, overlapped, misread>>

\* The code does not roll back a COMMIT that fails: unless SQLite does so itself,
\* the connection stays in its transaction, with the lock, until it is closed,
\* or cleared.
CommitFails(c) ==
  /\ Committing(c)
  /\ Goes(c, "stuck")
  /\ UNCHANGED <<file, lock, version, todo, work, history>>

\* clearApplicationData, one transaction.
ClearApplicationData(c) ==
  /\ at[c] = "ready"
  /\ lock = NoOne
  /\ rows' = NoRows
  /\ known' = {}
  /\ seen' = [m \in Macs |-> {}]
  /\ UNCHANGED <<userVersion, tables, lock, connection, overlapped, misread>>

\* In an open transaction its BEGIN fails, and its ROLLBACK ends that transaction.
ClearWhileStuck(c) ==
  /\ at[c] = "stuck"
  /\ Goes(c, "ready")
  /\ Release(c)
  /\ work' = [work EXCEPT ![c] = NoRows]
  /\ UNCHANGED <<file, version, todo, history>>

-----------------------------------------------------------------------------

Next ==
  \E c \in Connections :
    \/ Open(c) \/ CreateTable(c) \/ StampVersion(c) \/ RebuildAssets(c) \/ Close(c)
    \/ BeginWrite(c) \/ Insert(c) \/ WriteFails(c) \/ Commit(c) \/ CommitFails(c)
    \/ ClearApplicationData(c) \/ ClearWhileStuck(c)

Spec == Init /\ [][Next]_vars

-----------------------------------------------------------------------------
(* Properties.                                                             *)

\* What was once learned about an asset is not lost, whatever connections
\* open, write, fail, get stuck or die in between, unless two of them have
\* migrated the file at the same time or one could not read its version.  In both
\* cases the code loses vendors, the second with a single connection, although
\* "SQLite không mất dữ liệu ngoài ý muốn" (docs/bao-cao.md:302).
KnowledgeKept ==
  ~overlapped /\ ~misread => \A m \in known : m \in DOMAIN rows /\ rows[m].vendor # "null"

\* However statements, failures and deaths of several connections interleave,
\* the stored assets only change by a run's assets, all of them and added to
\* what is stored at that moment, by a migration, or by being cleared: no part
\* of a run is stored, and no run undoes another.
Inventory == INSTANCE AssetInventory

ImplementsInventory == Inventory!Spec

\* A connection that was opened finds the tables it uses, also when several
\* migrate at the same time and some die on the way.
ReadyMeansSchema ==
  \A c \in Connections : at[c] \in {"ready", "writing"} => tables = TablesOf(Latest)

\* "giữ first_seen sớm nhất và last_seen mới nhất" (docs/bao-cao.md:460): the
\* stored first_seen is the earliest, last_seen the latest of those written.
FirstAndLastSeenKept ==
  \A m \in DOMAIN rows : \A t \in seen[m] :
    ~TimestampLess(t, rows[m].first) /\ ~TimestampLess(rows[m].last, t)
=============================================================================
