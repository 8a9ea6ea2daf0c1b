--------------------------- MODULE SharedDatabase ---------------------------
(***************************************************************************)
(* The SQLite file as the processes that share it see it: the rows that are *)
(* committed, and whether the main file looks newer than the desktop has    *)
(* seen it.  In WAL mode a commit goes to another file; the main file       *)
(* changes when the last connection is closed and checkpoints.  SqliteStorage.tla *)
(* has the transactions; here a write happens or fails as a whole.          *)
(*                                                                         *)
(* Two checkpoints are assumed to leave different modification times.       *)
(* Times are whole seconds, whose text sorts as they do (of fractions see    *)
(* SqliteStorage.tla).                                                      *)
(***************************************************************************)
EXTENDS Naturals, FiniteSets

CONSTANTS Macs, Times

\* MACs are numbers of 48 bits.
ASSUME MacAssumption == Macs \subseteq Nat /\ IsFiniteSet(Macs)
ASSUME TimeAssumption == Times \subseteq Nat

VARIABLES
  stored,        \* the rows of assets: a function of the MACs stored
  connections,   \* who has the file open for writing
  wal,           \* commits that are not in the main file yet
  newer          \* lastModified of the main file is later than lastDbModified_

database == <<stored, connections, wal, newer>>

Spans == [first : Times, last : Times]
NoAssets == [m \in {} |-> 0]
Tables == UNION {[S -> Spans] : S \in SUBSET Macs}

Merge(a, b) == [first |-> IF a.first <= b.first THEN a.first ELSE b.first,
                last |-> IF a.last >= b.last THEN a.last ELSE b.last]

\* The rows after writeAssets: the upsert keeps what was known.
MergeAll(table, assets) ==
  [m \in DOMAIN table \cup DOMAIN assets |->
     IF m \notin DOMAIN table THEN assets[m]
     ELSE IF m \notin DOMAIN assets THEN table[m]
     ELSE Merge(table[m], assets[m])]

\* AssetStore: an asset is seen at a time, again or for the first time.
Observe(table, m, t) == MergeAll(table, [x \in {m} |-> [first |-> t, last |-> t]])

Covers(table, m, span) ==
  m \in DOMAIN table /\ table[m].first <= span.first /\ table[m].last >= span.last

Open(who) == connections' = connections \cup {who}

\* The last connection to be closed checkpoints.
Close(who) ==
  /\ connections' = connections \ {who}
  /\ wal' = (wal /\ connections' # {})
  /\ newer' = (newer \/ (wal /\ connections' = {}))

\* A writer that is opened, used and closed in one step.
WriteAtOnce ==
  /\ wal' = (connections # {})
  /\ newer' = (newer \/ connections = {})
  /\ UNCHANGED connections
=============================================================================
