-------------------------- MODULE MCSqliteStorage --------------------------
(* SqliteStorage for TLC: two connections, two batches that share an asset. *)
EXTENDS SqliteStorage

CONSTANTS m1, m2, m3

TwoBatches == {<<m1, m2>>, <<m2, m3>>}
BatchOfOne == {<<m1>>}

\* One instant: the run is about who writes, not about the order of sightings.
OneInstant == {[seconds |-> 1, microseconds |-> 5]}

\* Five and ten microseconds after the same second.
SameSecond == {[seconds |-> 1, microseconds |-> u] : u \in {5, 10}}
=============================================================================
