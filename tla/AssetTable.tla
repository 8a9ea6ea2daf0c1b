----------------------------- MODULE AssetTable -----------------------------
(***************************************************************************)
(* The rows of AssetModel (src/gui/AssetModel.cpp) and their order.  Of an  *)
(* asset the model keeps its MAC, which is written in lower case everywhere *)
(* and ordered as a number, and the two times that columns are sorted by.   *)
(* Times are whole seconds: parseTimestampSortValue reads the fraction that  *)
(* formatTimestamp writes without its leading zeros as another one, so rows   *)
(* of the same second are sorted otherwise than by their times.              *)
(***************************************************************************)
EXTENDS Naturals, SequencesExt

\* An asset's row; what is known of it besides its MAC is the span of its times.
Row(m, span) == [mac |-> m, first |-> span.first, last |-> span.last]

Columns == {"none", "mac", "firstSeen", "lastSeen"}

Key(row, column) == IF column = "firstSeen" THEN row.first ELSE row.last

Precedes(a, b, column, ascending) ==
  \/ column = "mac" /\ a.mac < b.mac
  \/ /\ column \in {"firstSeen", "lastSeen"}
     /\ \/ Key(a, column) = Key(b, column) /\ a.mac < b.mac
        \/ Key(a, column) < Key(b, column) /\ ascending
        \/ Key(a, column) > Key(b, column) /\ ~ascending

\* Where std::stable_sort puts the row at i: behind those that precede it, and
\* behind earlier ones that are as good.
Place(rows, i, column, ascending) ==
  Cardinality({j \in DOMAIN rows : \/ Precedes(rows[j], rows[i], column, ascending)
                                   \/ j <= i /\ ~Precedes(rows[i], rows[j], column, ascending)})

SortAssets(rows, column, ascending) ==
  IF column = "none" THEN rows
  ELSE [n \in DOMAIN rows |-> rows[CHOOSE i \in DOMAIN rows : Place(rows, i, column, ascending) = n]]

\* A column that is chosen again is turned round, except that of the MACs.
SortAscending(chosen, column, ascending) == chosen = "mac" \/ (chosen = column /\ ~ascending)

\* The rows of a database, a function of the MACs stored: selected in the
\* order of the MACs, then sorted as the user asked.
LoadTable(stored, column, ascending) ==
  SortAssets(SortAssets(SetToSeq({Row(m, stored[m]) : m \in DOMAIN stored}), "mac", TRUE), column, ascending)

\* An updated asset is left where it was.
ApplyAssetUnsorted(rows, row, column, ascending) ==
  LET same == {i \in DOMAIN rows : rows[i].mac = row.mac}
  IN  IF same = {} THEN SortAssets(Append(rows, row), column, ascending)
      ELSE [i \in DOMAIN rows |-> IF i \in same THEN row ELSE rows[i]]

\* applyAssetDto: the row replaces that of the same MAC or is appended.
ApplyAsset(rows, row, column, ascending) ==
  LET same == {i \in DOMAIN rows : rows[i].mac = row.mac}
  IN  SortAssets(IF same = {} THEN Append(rows, row)
                 ELSE [rows EXCEPT ![CHOOSE i \in same : \A j \in same : i <= j] = row],
                 column, ascending)

MacsOf(rows) == {rows[i].mac : i \in DOMAIN rows}

\* One row for each MAC, none before one that it should follow.
InOrder(rows, column, ascending) ==
  \A i, j \in DOMAIN rows : i < j =>
    rows[i].mac # rows[j].mac /\ ~Precedes(rows[j], rows[i], column, ascending)
=============================================================================
