------------------------ MODULE SharedDesktopProofs ------------------------
(***************************************************************************)
(* Three things, for all sets of assets, times, invocations and captures and  *)
(* however the processes interleave: the exit code of a command line run tells *)
(* what is stored, the desktop's table shows what is stored, in order, and   *)
(* the settings of a run are those of their strongest sources, for command    *)
(* lines and files of any length.                                           *)
(*                                                                         *)
(* The argument for the first: both processes change the rows only by an     *)
(* upsert, which covers what was stored and what it is given, so what the    *)
(* run wrote is never undone; and the run commits nothing before the file    *)
(* was read.  For the second: a sort keeps the rows and orders them; whatever *)
(* makes the file look old reads it first; and main.qml's reload is queued    *)
(* behind the last asset of a run.  For the third: arguments are read one by *)
(* one, and what has been read of the first k of them is what the command     *)
(* line up to there says when it is read as a whole; the same goes for the    *)
(* lines of the YAML file.                                                  *)
(***************************************************************************)
EXTENDS SharedDesktop, SequenceFolds, FiniteSetTheorems, TLAPS

\* A table is a function of some MACs that gives each a span of times.
LEMMA TableFacts ==
  \A f : f \in Tables <=> /\ f = [m \in DOMAIN f |-> f[m]]
                          /\ DOMAIN f \subseteq Macs
                          /\ \A m \in DOMAIN f : f[m] \in Spans
<1>1. ASSUME NEW f, f \in Tables
      PROVE  f = [m \in DOMAIN f |-> f[m]] /\ DOMAIN f \subseteq Macs /\ \A m \in DOMAIN f : f[m] \in Spans
  BY <1>1 DEF Tables
<1>2. ASSUME NEW f, f = [m \in DOMAIN f |-> f[m]], DOMAIN f \subseteq Macs, \A m \in DOMAIN f : f[m] \in Spans
      PROVE  f \in Tables
  <2>1. f \in [DOMAIN f -> Spans]
    BY <1>2
  <2> QED BY <2>1, <1>2 DEF Tables
<1> QED BY <1>1, <1>2

LEMMA EmptyTable == NoAssets \in Tables /\ DOMAIN NoAssets = {}
BY TableFacts DEF NoAssets

\* A table of one asset, as writeAssets gets it from the callbacks.
LEMMA OneAsset ==
  ASSUME NEW m \in Macs, NEW span \in Spans
  PROVE  [x \in {m} |-> span] \in Tables
<1> DEFINE f == [x \in {m} |-> span]
<1>1. DOMAIN f = {m} /\ \A x \in {m} : f[x] = span
  OBVIOUS
<1>2. f = [x \in DOMAIN f |-> f[x]]
  BY <1>1
<1> QED BY <1>1, <1>2, TableFacts

\* Merged times cover both; times are numbers.
LEMMA MergeSpans ==
  ASSUME NEW a \in Spans, NEW b \in Spans
  PROVE  /\ Merge(a, b) \in Spans
         /\ Merge(a, b).first <= a.first /\ Merge(a, b).first <= b.first
         /\ Merge(a, b).last >= a.last /\ Merge(a, b).last >= b.last
<1>1. a.first \in Times /\ a.last \in Times /\ b.first \in Times /\ b.last \in Times
  BY DEF Spans
<1>2. a.first \in Nat /\ a.last \in Nat /\ b.first \in Nat /\ b.last \in Nat
  BY <1>1, TimeAssumption
<1>3. Merge(a, b).first = IF a.first <= b.first THEN a.first ELSE b.first
  BY DEF Merge
<1>4. Merge(a, b).last = IF a.last >= b.last THEN a.last ELSE b.last
  BY DEF Merge
<1>5. Merge(a, b) \in Spans
  BY <1>1 DEF Merge, Spans
<1> QED BY <1>2, <1>3, <1>4, <1>5

\* The upsert keeps the assets stored and all that is known of them, and adds
\* what it is given.
LEMMA UpsertCovers ==
  ASSUME NEW table \in Tables, NEW assets \in Tables
  PROVE  /\ MergeAll(table, assets) \in Tables
         /\ DOMAIN MergeAll(table, assets) = DOMAIN table \cup DOMAIN assets
         /\ \A m \in DOMAIN assets : Covers(MergeAll(table, assets), m, assets[m])
         /\ \A m, span : span \in Spans /\ Covers(table, m, span) => Covers(MergeAll(table, assets), m, span)
<1> DEFINE all == MergeAll(table, assets)
<1>1. DOMAIN all = DOMAIN table \cup DOMAIN assets
  BY DEF MergeAll
<1>2. \A m \in DOMAIN all :
        all[m] = IF m \notin DOMAIN table THEN assets[m]
                 ELSE IF m \notin DOMAIN assets THEN table[m]
                 ELSE Merge(table[m], assets[m])
  BY DEF MergeAll
<1>3. all = [m \in DOMAIN all |-> all[m]]
  BY DEF MergeAll
<1>4. /\ DOMAIN table \subseteq Macs /\ DOMAIN assets \subseteq Macs
      /\ \A m \in DOMAIN table : table[m] \in Spans
      /\ \A m \in DOMAIN assets : assets[m] \in Spans
  BY TableFacts
<1> HIDE DEF all
<1>5. \A m \in DOMAIN all : all[m] \in Spans
  BY <1>1, <1>2, <1>4, MergeSpans
<1>6. all \in Tables
  BY <1>1, <1>3, <1>4, <1>5, TableFacts
<1>7. \A s \in Spans : s.first \in Nat /\ s.last \in Nat
  BY TimeAssumption DEF Spans
<1>8. ASSUME NEW m \in DOMAIN assets
      PROVE  Covers(all, m, assets[m])
  <2>1. m \in DOMAIN all
    BY <1>1
  <2>2. CASE m \in DOMAIN table
    <3>1. all[m] = Merge(table[m], assets[m])
      BY <2>1, <2>2, <1>2
    <3> QED BY <3>1, <2>1, <2>2, <1>4, MergeSpans DEF Covers
  <2>3. CASE m \notin DOMAIN table
    <3>1. all[m] = assets[m]
      BY <2>1, <2>3, <1>2
    <3> QED BY <3>1, <2>1, <1>4, <1>7 DEF Covers
  <2> QED BY <2>2, <2>3
<1>9. ASSUME NEW m, NEW span \in Spans, Covers(table, m, span)
      PROVE  Covers(all, m, span)
  <2>1. m \in DOMAIN table /\ m \in DOMAIN all /\ table[m].first <= span.first /\ table[m].last >= span.last
    BY <1>9, <1>1 DEF Covers
  <2>2. CASE m \in DOMAIN assets
    <3>1. all[m] = Merge(table[m], assets[m])
      BY <2>1, <2>2, <1>2
    <3>2. all[m].first <= table[m].first /\ all[m].last >= table[m].last
      BY <3>1, <2>1, <2>2, <1>4, MergeSpans
    <3> QED BY <3>2, <2>1, <1>4, <1>5, <1>7 DEF Covers
  <2>3. CASE m \notin DOMAIN assets
    BY <2>1, <2>3, <1>2 DEF Covers
  <2> QED BY <2>2, <2>3
<1> QED BY <1>1, <1>6, <1>8, <1>9 DEF all

\* What AssetStore knows after an observation is a table too.
LEMMA ObserveTable ==
  ASSUME NEW table \in Tables, NEW m \in Macs, NEW t \in Times
  PROVE  /\ Observe(table, m, t) \in Tables
         /\ DOMAIN Observe(table, m, t) = DOMAIN table \cup {m}
<1> DEFINE span == [first |-> t, last |-> t]
<1>1. span \in Spans
  BY DEF Spans
<1>2. [x \in {m} |-> span] \in Tables
  BY <1>1, OneAsset
<1> QED BY <1>2, UpsertCovers DEF Observe

-----------------------------------------------------------------------------
(* The order of the rows.                                                  *)

Rows == [mac : Macs, first : Times, last : Times]

Distinct(list) == \A i, j \in DOMAIN list : i # j => list[i].mac # list[j].mac

\* The two lists have the same rows.
SameRows(list, other) ==
  /\ DOMAIN list = DOMAIN other
  /\ \A i \in DOMAIN list : \E j \in DOMAIN other : list[i] = other[j]
  /\ \A j \in DOMAIN other : \E i \in DOMAIN list : list[i] = other[j]

\* Of a finite set in which the predecessors of any two elements, themselves
\* included, are nested, every element has a place of its own, the number of
\* its predecessors.
LEMMA Places ==
  ASSUME NEW S, IsFiniteSet(S), NEW Upto \in [S -> SUBSET S],
         \A x \in S : x \in Upto[x],
         \A x, y \in S : x # y => \/ Upto[x] \subseteq Upto[y] /\ y \notin Upto[x]
                                  \/ Upto[y] \subseteq Upto[x] /\ x \notin Upto[y]
  PROVE  /\ Cardinality(S) \in Nat
         /\ \A x \in S : Cardinality(Upto[x]) \in 1 .. Cardinality(S)
         /\ \A x, y \in S : x # y /\ x \in Upto[y] => Cardinality(Upto[x]) < Cardinality(Upto[y])
         /\ \A n \in 1 .. Cardinality(S) : \E x \in S : Cardinality(Upto[x]) = n
<1> DEFINE N == Cardinality(S)
           place == [x \in S |-> Cardinality(Upto[x])]
<1>1. N \in Nat
  BY FS_CardinalityType
<1>2. ASSUME NEW x \in S
      PROVE  IsFiniteSet(Upto[x]) /\ Cardinality(Upto[x]) \in 1 .. N
  <2>1. Upto[x] \in SUBSET S /\ Upto[x] # {}
    OBVIOUS
  <2>2. IsFiniteSet(Upto[x]) /\ Cardinality(Upto[x]) <= N
    BY <2>1, FS_Subset
  <2>3. Cardinality(Upto[x]) \in Nat /\ Cardinality(Upto[x]) # 0
    BY <2>1, <2>2, FS_CardinalityType, FS_EmptySet
  <2> QED
    BY <1>1, <2>2, <2>3
<1>3. ASSUME NEW x \in S, NEW y \in S, Upto[x] \subseteq Upto[y], y \notin Upto[x]
      PROVE  Cardinality(Upto[x]) < Cardinality(Upto[y])
  <2>1. Upto[x] \in SUBSET Upto[y] /\ Upto[x] # Upto[y]
    BY <1>3
  <2>2. Cardinality(Upto[x]) <= Cardinality(Upto[y]) /\ Cardinality(Upto[x]) # Cardinality(Upto[y])
    BY <1>2, <2>1, FS_Subset
  <2>3. Cardinality(Upto[x]) \in Nat /\ Cardinality(Upto[y]) \in Nat
    BY <1>2, FS_CardinalityType
  <2> QED
    BY <2>2, <2>3
<1>4. \A x, y \in S : x # y /\ x \in Upto[y] => Cardinality(Upto[x]) < Cardinality(Upto[y])
  BY <1>3
<1>5. \A x, y \in S : x # y => Cardinality(Upto[x]) # Cardinality(Upto[y])
  <2> SUFFICES ASSUME NEW x \in S, NEW y \in S, x # y
               PROVE  Cardinality(Upto[x]) # Cardinality(Upto[y])
    OBVIOUS
  <2>1. Cardinality(Upto[x]) < Cardinality(Upto[y]) \/ Cardinality(Upto[y]) < Cardinality(Upto[x])
    BY <1>3
  <2>2. Cardinality(Upto[x]) \in Nat /\ Cardinality(Upto[y]) \in Nat
    BY <1>2, FS_CardinalityType
  <2> QED
    BY <2>1, <2>2
<1>6. place \in Injection(S, 1 .. N)
  <2>1. place \in [S -> 1 .. N]
    BY <1>2
  <2>2. IsInjective(place)
    BY <1>5 DEF IsInjective
  <2> QED
    BY <2>1, <2>2 DEF Injection
<1>7. IsFiniteSet(1 .. N) /\ Cardinality(1 .. N) = N
  BY <1>1, FS_Interval
<1>8. place \in Surjection(S, 1 .. N)
  BY <1>6, <1>7, FS_Injection
<1>9. \A n \in 1 .. N : \E x \in S : Cardinality(Upto[x]) = n
  BY <1>8 DEF Surjection
<1> QED
  BY <1>1, <1>2, <1>4, <1>9

\* Rows of different MACs are ordered totally by the column the user chose.
LEMMA RowOrder ==
  ASSUME NEW column \in Columns \ {"none"}, NEW ascending \in BOOLEAN
  PROVE  /\ \A a \in Rows : ~Precedes(a, a, column, ascending)
         /\ \A a, b \in Rows : ~(Precedes(a, b, column, ascending) /\ Precedes(b, a, column, ascending))
         /\ \A a, b \in Rows : a.mac # b.mac => Precedes(a, b, column, ascending) \/ Precedes(b, a, column, ascending)
         /\ \A a, b, c \in Rows : Precedes(a, b, column, ascending) /\ Precedes(b, c, column, ascending)
                                    => Precedes(a, c, column, ascending)
<1>1. \A a \in Rows : a.mac \in Nat /\ a.first \in Nat /\ a.last \in Nat
  BY MacAssumption, TimeAssumption DEF Rows
<1>2. CASE column = "mac"
  BY <1>1, <1>2 DEF Precedes
<1>3. CASE column = "firstSeen" /\ ascending
  BY <1>1, <1>3 DEF Precedes, Key
<1>4. CASE column = "firstSeen" /\ ~ascending
  BY <1>1, <1>4 DEF Precedes, Key
<1>5. CASE column = "lastSeen" /\ ascending
  BY <1>1, <1>5 DEF Precedes, Key
<1>6. CASE column = "lastSeen" /\ ~ascending
  BY <1>1, <1>6 DEF Precedes, Key
<1> QED
  BY <1>2, <1>3, <1>4, <1>5, <1>6 DEF Columns

\* stable_sort gives the same rows, in order.
LEMMA SortedRows ==
  ASSUME NEW list \in Seq(Rows), Distinct(list), NEW column \in Columns, NEW ascending \in BOOLEAN
  PROVE  LET sorted == SortAssets(list, column, ascending)
         IN  /\ sorted \in Seq(Rows)
             /\ SameRows(sorted, list)
             /\ InOrder(sorted, column, ascending)
<1> DEFINE sorted == SortAssets(list, column, ascending)
           S == DOMAIN list
<1>1. S = 1 .. Len(list) /\ Len(list) \in Nat /\ \A i \in S : list[i] \in Rows
  OBVIOUS
<1>2. CASE column = "none"
  <2>1. sorted = list
    BY <1>2 DEF SortAssets
  <2>2. \A a, b : ~Precedes(a, b, column, ascending)
    BY <1>2 DEF Precedes
  <2>3. InOrder(list, column, ascending)
    BY <1>1, <2>2 DEF InOrder, Distinct
  <2>4. SameRows(list, list)
    BY DEF SameRows
  <2> QED
    BY <2>1, <2>3, <2>4
<1>3. CASE column # "none"
  <2> DEFINE Before(i, j) == Precedes(list[i], list[j], column, ascending)
             Upto == [i \in S |-> {j \in S : Before(j, i) \/ (j <= i /\ ~Before(i, j))}]
  <2>1. \A i \in S : ~Before(i, i)
    BY <1>1, <1>3, RowOrder
  <2>2. \A i, j \in S : ~(Before(i, j) /\ Before(j, i))
    BY <1>1, <1>3, RowOrder
  <2>3. \A i, j \in S : i # j => Before(i, j) \/ Before(j, i)
    BY <1>1, <1>3, RowOrder DEF Distinct
  <2>4. \A i, j, k \in S : Before(i, j) /\ Before(j, k) => Before(i, k)
    BY <1>1, <1>3, RowOrder
  <2> HIDE DEF Before
  <2>5. \A i, j \in S : j \in Upto[i] <=> j = i \/ Before(j, i)
    BY <1>1, <2>1, <2>2, <2>3
  <2>6. Upto \in [S -> SUBSET S]
    OBVIOUS
  <2>7. IsFiniteSet(S) /\ Cardinality(S) = Len(list)
    BY <1>1, FS_Interval
  <2>8. \A i \in S : Place(list, i, column, ascending) = Cardinality(Upto[i])
    BY DEF Place, Before
  <2> HIDE DEF Upto
  <2>9. \A x, y \in S : x # y => \/ Upto[x] \subseteq Upto[y] /\ y \notin Upto[x]
                                 \/ Upto[y] \subseteq Upto[x] /\ x \notin Upto[y]
    <3> SUFFICES ASSUME NEW x \in S, NEW y \in S, Before(x, y), x # y
                 PROVE  Upto[x] \subseteq Upto[y] /\ y \notin Upto[x]
      BY <2>3
    <3>1. y \notin Upto[x]
      BY <2>2, <2>5
    <3>2. \A z \in Upto[x] : z \in Upto[y]
      BY <2>4, <2>5, <2>6
    <3> QED
      BY <3>1, <3>2
  <2>10. \A x \in S : x \in Upto[x]
    BY <2>5
  <2> HIDE DEF S
  <2>11. /\ \A x \in S : Cardinality(Upto[x]) \in 1 .. Len(list)
         /\ \A x, y \in S : x # y /\ x \in Upto[y] => Cardinality(Upto[x]) < Cardinality(Upto[y])
         /\ \A n \in 1 .. Len(list) : \E x \in S : Cardinality(Upto[x]) = n
    BY <2>6, <2>7, <2>9, <2>10, Places
  <2> DEFINE from == [n \in S |-> CHOOSE i \in S : Place(list, i, column, ascending) = n]
  <2>12. \A n \in S : from[n] \in S /\ Cardinality(Upto[from[n]]) = n
    <3> SUFFICES ASSUME NEW n \in S
                 PROVE  from[n] \in S /\ Place(list, from[n], column, ascending) = n
      BY <2>8
    <3>1. \E i \in S : Place(list, i, column, ascending) = n
      BY <1>1, <2>8, <2>11
    <3>2. from[n] = CHOOSE i \in S : Place(list, i, column, ascending) = n
      OBVIOUS
    <3> HIDE DEF from
    <3> QED
      BY <3>1, <3>2
  <2>13. sorted = [n \in S |-> list[from[n]]]
    BY <1>3 DEF SortAssets, S
  <2> HIDE DEF from
  <2>14. \A i, j \in S : Cardinality(Upto[i]) = Cardinality(Upto[j]) => i = j
    <3> SUFFICES ASSUME NEW i \in S, NEW j \in S, i # j
                 PROVE  Cardinality(Upto[i]) # Cardinality(Upto[j])
      OBVIOUS
    <3>1. i \in Upto[j] \/ j \in Upto[i]
      BY <2>3, <2>5
    <3>2. Cardinality(Upto[i]) < Cardinality(Upto[j]) \/ Cardinality(Upto[j]) < Cardinality(Upto[i])
      BY <2>11, <3>1
    <3>3. Cardinality(Upto[i]) \in 1 .. Len(list) /\ Cardinality(Upto[j]) \in 1 .. Len(list)
      BY <2>11
    <3> QED
      BY <3>2, <3>3
  <2>15. \A i \in S : \E n \in S : from[n] = i
    <3> SUFFICES ASSUME NEW i \in S
                 PROVE  \E n \in S : from[n] = i
      OBVIOUS
    <3>1. Cardinality(Upto[i]) \in S
      BY <1>1, <2>11
    <3>2. from[Cardinality(Upto[i])] = i
      BY <2>12, <2>14, <3>1
    <3> QED
      BY <3>1, <3>2
  <2>16. sorted \in Seq(Rows) /\ DOMAIN sorted = S
    <3>1. sorted \in [1 .. Len(list) -> Rows]
      BY <1>1, <2>12, <2>13
    <3> QED
      BY <1>1, <2>13, <3>1
  <2> HIDE DEF sorted
  <2>17. SameRows(sorted, list)
    <3>1. \A n \in S : \E j \in S : sorted[n] = list[j]
      BY <2>12, <2>13
    <3>2. \A j \in S : \E n \in S : sorted[n] = list[j]
      BY <2>13, <2>15
    <3> QED
      BY <2>16, <3>1, <3>2 DEF SameRows, S
  <2>18. InOrder(sorted, column, ascending)
    <3> SUFFICES ASSUME NEW i \in S, NEW j \in S, i < j
                 PROVE  sorted[i].mac # sorted[j].mac /\ ~Precedes(sorted[j], sorted[i], column, ascending)
      BY <2>16 DEF InOrder
    <3>1. from[i] \in S /\ from[j] \in S /\ from[i] # from[j]
      BY <1>1, <2>12
    <3>2. list[from[i]].mac # list[from[j]].mac
      BY <3>1 DEF Distinct, S
    <3>3. ~Before(from[j], from[i])
      <4> SUFFICES ASSUME Before(from[j], from[i])
                   PROVE  FALSE
        OBVIOUS
      <4>1. from[j] \in Upto[from[i]]
        BY <2>5, <3>1
      <4>2. Cardinality(Upto[from[j]]) < Cardinality(Upto[from[i]])
        BY <2>11, <3>1, <4>1
      <4>3. j < i
        BY <2>12, <4>2
      <4> QED
        BY <1>1, <4>3
    <3> QED
      BY <2>13, <3>2, <3>3 DEF Before
  <2> QED
    BY <2>16, <2>17, <2>18 DEF sorted
<1> QED
  BY <1>2, <1>3

LEMMA SameMacs ==
  ASSUME NEW list, NEW other, SameRows(list, other)
  PROVE  MacsOf(list) = MacsOf(other)
<1>1. ASSUME NEW m \in MacsOf(list)
      PROVE  m \in MacsOf(other)
  <2>1. PICK i \in DOMAIN list : list[i].mac = m
    BY DEF MacsOf
  <2>2. PICK j \in DOMAIN other : list[i] = other[j]
    BY DEF SameRows
  <2> QED
    BY <2>1, <2>2 DEF MacsOf
<1>2. ASSUME NEW m \in MacsOf(other)
      PROVE  m \in MacsOf(list)
  <2>1. PICK j \in DOMAIN other : other[j].mac = m
    BY DEF MacsOf
  <2>2. PICK i \in DOMAIN list : list[i] = other[j]
    BY DEF SameRows
  <2> QED
    BY <2>1, <2>2 DEF MacsOf
<1> QED
  BY <1>1, <1>2

LEMMA OrderedDistinct ==
  ASSUME NEW list \in Seq(Rows), NEW column, NEW ascending, InOrder(list, column, ascending)
  PROVE  Distinct(list)
<1> SUFFICES ASSUME NEW i \in DOMAIN list, NEW j \in DOMAIN list, i # j
             PROVE  list[i].mac # list[j].mac
  BY DEF Distinct
<1>1. i < j \/ j < i
  OBVIOUS
<1> QED
  BY <1>1 DEF InOrder

\* The list shows the assets of the table, each with what the table knows of it.
Shows(list, table) ==
  /\ MacsOf(list) = DOMAIN table
  /\ \A i \in DOMAIN list : list[i] = Row(list[i].mac, table[list[i].mac])

\* Some list holds the rows of a table.
LEMMA ListedRows ==
  ASSUME NEW table \in Tables
  PROVE  LET list == SetToSeq({Row(m, table[m]) : m \in DOMAIN table})
         IN  list \in Seq(Rows) /\ Distinct(list) /\ Shows(list, table)
<1> DEFINE D == DOMAIN table
           R == {Row(m, table[m]) : m \in D}
           list == SetToSeq(R)
           n == Cardinality(R)
<1>1. D \subseteq Macs /\ \A m \in D : table[m] \in Spans
  BY TableFacts
<1>2. \A m \in D : Row(m, table[m]) \in Rows /\ Row(m, table[m]).mac = m
  BY <1>1 DEF Row, Rows, Spans
<1>3. IsFiniteSet(D)
  BY <1>1, MacAssumption, FS_Subset
<1>4. IsFiniteSet(R)
  <2> DEFINE f == [m \in D |-> Row(m, table[m])]
  <2>1. f \in Surjection(D, R)
    BY DEF Surjection
  <2> QED
    BY <1>3, <2>1, FS_Surjection
<1>5. n \in Nat /\ ExistsBijection(1 .. n, R)
  BY <1>4, FS_CardinalityType
<1>6. list \in [1 .. n -> R] /\ IsInjective(list)
  <2>1. \E f \in [1 .. n -> R] : IsInjective(f)
    BY <1>5 DEF ExistsBijection, Bijection, Injection
  <2> QED
    BY <2>1 DEF SetToSeq
<1> HIDE DEF list, R
<1>7. list \in Surjection(1 .. n, R)
  <2>1. list \in Injection(1 .. n, R)
    BY <1>6 DEF Injection
  <2>2. IsFiniteSet(1 .. n) /\ Cardinality(1 .. n) = n
    BY <1>5, FS_Interval
  <2> QED
    BY <1>4, <2>1, <2>2, FS_Injection
<1>8. \A r \in R : r \in Rows /\ r.mac \in D /\ r = Row(r.mac, table[r.mac])
  BY <1>2 DEF R
<1>9. list \in Seq(Rows) /\ DOMAIN list = 1 .. n
  <2>1. list \in [1 .. n -> Rows]
    BY <1>6, <1>8
  <2> QED
    BY <1>5, <1>6, <2>1
<1>10. Distinct(list)
  <2> SUFFICES ASSUME NEW i \in 1 .. n, NEW j \in 1 .. n, list[i].mac = list[j].mac
               PROVE  i = j
    BY <1>9 DEF Distinct
  <2>1. list[i] \in R /\ list[j] \in R
    BY <1>6
  <2>2. list[i] = list[j]
    BY <1>8, <2>1
  <2> QED
    BY <1>6, <1>9, <2>2 DEF IsInjective
<1>11. MacsOf(list) = D
  <2>1. \A m \in MacsOf(list) : m \in D
    BY <1>6, <1>8, <1>9 DEF MacsOf
  <2>2. ASSUME NEW m \in D
        PROVE  m \in MacsOf(list)
    <3>1. Row(m, table[m]) \in R
      BY DEF R
    <3>2. PICK i \in 1 .. n : list[i] = Row(m, table[m])
      BY <1>7, <3>1 DEF Surjection
    <3>3. list[i].mac = m
      BY <1>2, <3>2
    <3> QED
      BY <1>9, <3>3 DEF MacsOf
  <2> QED
    BY <2>1, <2>2
<1>12. \A i \in DOMAIN list : list[i] = Row(list[i].mac, table[list[i].mac])
  BY <1>6, <1>8, <1>9
<1> QED
  BY <1>9, <1>10, <1>11, <1>12 DEF Shows, list, R

LEMMA SortingShows ==
  ASSUME NEW list, NEW other, NEW table, SameRows(list, other), Shows(other, table)
  PROVE  Shows(list, table)
<1>1. MacsOf(list) = DOMAIN table
  BY SameMacs DEF Shows
<1>2. \A i \in DOMAIN list : list[i] = Row(list[i].mac, table[list[i].mac])
  <2> TAKE i \in DOMAIN list
  <2>1. PICK j \in DOMAIN other : list[i] = other[j]
    BY DEF SameRows
  <2>2. other[j] = Row(other[j].mac, table[other[j].mac])
    BY DEF Shows
  <2> QED
    BY <2>1, <2>2
<1> QED
  BY <1>1, <1>2 DEF Shows

\* reloadFromDatabase shows what is stored, in order.
LEMMA LoadedRows ==
  ASSUME NEW table \in Tables, NEW column \in Columns, NEW ascending \in BOOLEAN
  PROVE  LET loaded == LoadTable(table, column, ascending)
         IN  loaded \in Seq(Rows) /\ InOrder(loaded, column, ascending) /\ Shows(loaded, table)
<1> DEFINE list == SetToSeq({Row(m, table[m]) : m \in DOMAIN table})
           byMac == SortAssets(list, "mac", TRUE)
           loaded == SortAssets(byMac, column, ascending)
<1>1. LoadTable(table, column, ascending) = loaded
  BY DEF LoadTable
<1>2. list \in Seq(Rows) /\ Distinct(list) /\ Shows(list, table)
  BY ListedRows
<1> HIDE DEF list
<1>3. byMac \in Seq(Rows) /\ SameRows(byMac, list) /\ InOrder(byMac, "mac", TRUE)
  BY <1>2, SortedRows DEF Columns
<1> HIDE DEF byMac
<1>4. Distinct(byMac) /\ Shows(byMac, table)
  BY <1>2, <1>3, OrderedDistinct, SortingShows
<1>5. loaded \in Seq(Rows) /\ SameRows(loaded, byMac) /\ InOrder(loaded, column, ascending)
  BY <1>3, <1>4, SortedRows
<1> HIDE DEF loaded
<1>6. Shows(loaded, table)
  BY <1>4, <1>5, SortingShows
<1> QED
  BY <1>1, <1>5, <1>6

\* applyAssetDto adds at most one row, and keeps the order.
LEMMA AppliedRows ==
  ASSUME NEW list \in Seq(Rows), Distinct(list), NEW row \in Rows, NEW column \in Columns, NEW ascending \in BOOLEAN
  PROVE  LET applied == ApplyAsset(list, row, column, ascending)
         IN  /\ applied \in Seq(Rows)
             /\ InOrder(applied, column, ascending)
             /\ MacsOf(list) \subseteq MacsOf(applied)
<1> DEFINE same == {i \in DOMAIN list : list[i].mac = row.mac}
           first == CHOOSE i \in same : \A j \in same : i <= j
           put == IF same = {} THEN Append(list, row) ELSE [list EXCEPT ![first] = row]
<1>1. ApplyAsset(list, row, column, ascending) = SortAssets(put, column, ascending)
  BY DEF ApplyAsset
<1>2. /\ put \in Seq(Rows)
      /\ Distinct(put)
      /\ MacsOf(list) \subseteq MacsOf(put)
  <2>1. CASE same = {}
    <3>1. put = Append(list, row)
      BY <2>1
    <3>2. put \in Seq(Rows) /\ DOMAIN put = 1 .. Len(list) + 1 /\ put[Len(list) + 1] = row
      BY <3>1
    <3>3. \A i \in DOMAIN list : i \in DOMAIN put /\ put[i] = list[i] /\ list[i].mac # row.mac
      BY <2>1, <3>1
    <3>4. \A i \in DOMAIN put : i = Len(list) + 1 \/ i \in DOMAIN list
      BY <3>2
    <3> HIDE DEF put, same
    <3>5. Distinct(put)
      BY <3>2, <3>3, <3>4 DEF Distinct
    <3>6. MacsOf(list) \subseteq MacsOf(put)
      BY <3>3 DEF MacsOf
    <3> QED
      BY <3>2, <3>5, <3>6
  <2>2. CASE same # {}
    <3>1. first \in same
      <4>1. PICK i \in same : TRUE
        BY <2>2
      <4>2. \A j \in same : j = i
        BY <4>1 DEF Distinct
      <4>3. i \in Nat
        OBVIOUS
      <4>4. \E k \in same : \A j \in same : k <= j
        BY <4>2, <4>3
      <4> QED
        BY <4>4
    <3> HIDE DEF first
    <3>2. first \in DOMAIN list /\ list[first].mac = row.mac
      BY <3>1
    <3>3. put = [list EXCEPT ![first] = row]
      BY <2>2
    <3>4. put \in Seq(Rows) /\ DOMAIN put = DOMAIN list
      BY <3>2, <3>3
    <3>5. \A i \in DOMAIN list : put[i].mac = list[i].mac
      BY <3>2, <3>3
    <3> HIDE DEF put, same
    <3>6. Distinct(put)
      BY <3>4, <3>5 DEF Distinct
    <3>7. MacsOf(list) \subseteq MacsOf(put)
      BY <3>4, <3>5 DEF MacsOf
    <3> QED
      BY <3>4, <3>6, <3>7
  <2> QED
    BY <2>1, <2>2
<1> HIDE DEF put
<1>3. /\ SortAssets(put, column, ascending) \in Seq(Rows)
      /\ SameRows(SortAssets(put, column, ascending), put)
      /\ InOrder(SortAssets(put, column, ascending), column, ascending)
  BY <1>2, SortedRows
<1> QED
  BY <1>1, <1>2, <1>3, SameMacs

-----------------------------------------------------------------------------
(* The desktop's steps.                                                    *)

Upserted(old, new) == new = old \/ \E assets \in Tables : new = MergeAll(old, assets)

\* The worker and the GUI change the rows of the database by upserts only.
LEMMA DesktopUpserts ==
  ASSUME stored \in Tables, monitor \in Tables, DesktopNext
  PROVE  monitor' \in Tables /\ Upserted(stored, stored')
<1> USE DEF Upserted
<1>1. CASE GuiThread
  BY <1>1 DEF GuiThread, HandleAsset, HandleTimeoutOrFinish, HandleRunningChanged, HandleFinishInQml,
       ReadDatabase, Timeout, SortByColumn, StartCapture, database, capture
<1>2. CASE AnnounceStart \/ EmitLiveAsset \/ RunEnds \/ RunFails \/ CloseWriter \/ FinishSession
  BY <1>2 DEF AnnounceStart, EmitLiveAsset, RunEnds, RunFails, CloseWriter, FinishSession, database
<1>3. CASE SaveAssets
  BY <1>3 DEF SaveAssets, Written
<1>4. CASE AnnounceEnd
  BY <1>4, EmptyTable DEF AnnounceEnd, database
<1>5. ASSUME NEW m \in Macs, NEW t \in Times, WriteLiveAsset(m, t)
      PROVE  monitor' \in Tables /\ Upserted(stored, stored')
  <2> DEFINE known == Observe(monitor, m, t)
  <2>a. known \in Tables /\ DOMAIN known = DOMAIN monitor \cup {m}
    BY ObserveTable
  <2>b. monitor' = known
    BY <1>5 DEF WriteLiveAsset
  <2> HIDE DEF known
  <2>1. monitor' \in Tables /\ m \in DOMAIN monitor'
    BY <2>a, <2>b
  <2>2. [x \in {m} |-> monitor'[m]] \in Tables
    BY <2>1, TableFacts, OneAsset
  <2> QED BY <2>1, <2>2, <1>5 DEF WriteLiveAsset, Written
<1>6. ASSUME NEW m \in Macs, NEW t \in Times, EmitFileAsset(m, t)
      PROVE  monitor' \in Tables /\ Upserted(stored, stored')
  BY <1>6, ObserveTable DEF EmitFileAsset, database
<1> QED BY <1>1, <1>2, <1>3, <1>4, <1>5, <1>6, CaptureAssumption DEF DesktopNext, WorkerThread

-----------------------------------------------------------------------------
(* The invariant.                                                          *)

TablesSound ==
  /\ stored \in Tables
  /\ monitor \in Tables
  /\ found \in Tables
  /\ invocation \in Invocations

\* Nothing is found or written before the file was read.
NothingYet ==
  cli \in {"starting", "opening", "reading"} => DOMAIN found = {} /\ wrote = {}

WrittenIsThere == wrote \subseteq DOMAIN found /\ wrote \subseteq DOMAIN stored

AllIsThere ==
  cli = "rendering" \/ exitCode = 0 => \A m \in DOMAIN found : Covers(stored, m, found[m])

ExitSound ==
  /\ cli # "gone" => exitCode = None
  /\ exitCode \in {2, 3} => wrote = {}

IInv == TablesSound /\ NothingYet /\ WrittenIsThere /\ AllIsThere /\ ExitSound

LEMMA InitInvariant == Init => IInv
<1> SUFFICES ASSUME Init PROVE IInv
  OBVIOUS
<1> USE DEF Init, DesktopInit, CliInit
<1>1. TablesSound
  BY EmptyTable, DatabaseAssumption DEF TablesSound
<1>2. NothingYet /\ WrittenIsThere /\ AllIsThere
  BY EmptyTable DEF NothingYet, WrittenIsThere, AllIsThere
<1>3. ExitSound
  BY NoneAssumption DEF ExitSound
<1> QED BY <1>1, <1>2, <1>3 DEF IInv

\* An upsert by the other process disturbs none of it.
LEMMA UpsertKeepsInvariant ==
  ASSUME IInv, Upserted(stored, stored'), monitor' \in Tables, UNCHANGED cliState
  PROVE  IInv'
<1> USE DEF IInv, TablesSound, cliState
<1>a. CASE stored' = stored
  BY <1>a DEF NothingYet, ExitSound, WrittenIsThere, AllIsThere, Covers
<1>b. ASSUME NEW assets \in Tables, stored' = MergeAll(stored, assets)
      PROVE  IInv'
  <2> DEFINE all == MergeAll(stored, assets)
  <2>0. /\ all \in Tables /\ DOMAIN all = DOMAIN stored \cup DOMAIN assets
        /\ \A m, span : span \in Spans /\ Covers(stored, m, span) => Covers(all, m, span)
    BY UpsertCovers
  <2>1. stored' = all
    BY <1>b
  <2> HIDE DEF all
  <2>2. stored' \in Tables /\ DOMAIN stored \subseteq DOMAIN stored'
    BY <2>0, <2>1
  <2>3. \A m \in DOMAIN found : found[m] \in Spans
    BY TableFacts
  <2>4. NothingYet' /\ ExitSound'
    BY DEF NothingYet, ExitSound
  <2>5. WrittenIsThere'
    BY <2>2 DEF WrittenIsThere
  <2>6. \A m \in DOMAIN found : Covers(stored, m, found[m]) => Covers(stored', m, found[m])
    <3>1. \A m, span : Covers(all, m, span) => Covers(stored', m, span)
      BY <2>1 DEF Covers
    <3> QED BY <3>1, <2>0, <2>3
  <2>7. AllIsThere'
    BY <2>6 DEF AllIsThere
  <2> QED BY <2>2, <2>4, <2>5, <2>7
<1> QED BY <1>a, <1>b DEF Upserted

\* A step of the command line that leaves the rows alone and ends the run, if at
\* all, with a code that says so.
LEMMA QuietStepKeepsInvariant ==
  ASSUME IInv, UNCHANGED <<stored, monitor, found, wrote, invocation>>, cli # "gone",
         cli' \in {"opening", "reading"} => cli \in {"starting", "opening"},
         cli' # "starting", cli' # "rendering",
         cli' = "gone" \/ exitCode' = exitCode,
         exitCode' = 0 => cli \in {"starting", "rendering"},
         exitCode' \in {2, 3} => cli \in {"starting", "reading"}
  PROVE  IInv'
<1> USE DEF IInv, TablesSound
<1>1. NothingYet'
  BY DEF NothingYet
<1>2. WrittenIsThere'
  BY DEF WrittenIsThere
<1>3. AllIsThere'
  BY DEF AllIsThere, NothingYet, Covers
<1>4. ExitSound'
  BY DEF ExitSound, NothingYet
<1> QED BY <1>1, <1>2, <1>3, <1>4

\* Every step of the command line keeps the invariant.
LEMMA CliStepKeepsInvariant ==
  ASSUME IInv, CliNext, UNCHANGED monitor
  PROVE  IInv'
<1>1. CASE Configure
  BY <1>1, NoneAssumption, QuietStepKeepsInvariant DEF Configure, Exit, database, IInv, ExitSound
<1>2. CASE OpenDatabase
  BY <1>2, NoneAssumption, QuietStepKeepsInvariant DEF OpenDatabase, Exit, IInv, ExitSound
<1>3. CASE ReadPcapFile
  BY <1>3, NoneAssumption, QuietStepKeepsInvariant DEF ReadPcapFile, database, IInv, ExitSound
<1>4. CASE Render
  BY <1>4, QuietStepKeepsInvariant DEF Render, Exit
<1>5. CASE PcapError
  BY <1>5, QuietStepKeepsInvariant DEF PcapError, Fails, Exit
<1>6. CASE DatabaseError
  BY <1>6, QuietStepKeepsInvariant DEF DatabaseError, Fails, Exit
<1>7. CASE Killed
  BY <1>7, NoneAssumption, QuietStepKeepsInvariant DEF Killed, IInv, ExitSound
<1>8. CASE WriteAssets
  <2> USE <1>8 DEF WriteAssets, Commit, IInv, TablesSound
  <2>1. stored' = MergeAll(stored, found) /\ wrote' = wrote \cup DOMAIN found
    OBVIOUS
  <2>a. stored \in Tables /\ found \in Tables
    OBVIOUS
  <2> HIDE DEF WriteAssets, Commit, IInv, TablesSound
  <2>2. /\ stored' \in Tables /\ DOMAIN stored' = DOMAIN stored \cup DOMAIN found
        /\ \A m \in DOMAIN found : Covers(stored', m, found[m])
    <3> DEFINE all == MergeAll(stored, found)
    <3>1. /\ all \in Tables /\ DOMAIN all = DOMAIN stored \cup DOMAIN found
          /\ \A m \in DOMAIN found : Covers(all, m, found[m])
      BY <2>a, UpsertCovers
    <3>2. stored' = all
      BY <2>1
    <3> HIDE DEF all
    <3>3. \A m, span : Covers(all, m, span) => Covers(stored', m, span)
      BY <3>2 DEF Covers
    <3> QED
      BY <3>1, <3>2, <3>3
  <2> USE DEF WriteAssets, Commit, IInv, TablesSound
  <2>3. exitCode' = None
    BY DEF ExitSound
  <2>4. NothingYet' /\ ExitSound'
    BY <2>3, NoneAssumption DEF NothingYet, ExitSound
  <2>5. WrittenIsThere' /\ AllIsThere'
    BY <2>1, <2>2 DEF WrittenIsThere, AllIsThere
  <2> QED BY <2>2, <2>4, <2>5
<1>9. ASSUME NEW packet \in invocation.packets, ProcessPacket(packet[1], packet[2])
      PROVE  IInv'
  <2> DEFINE m == packet[1]
             t == packet[2]
  <2> USE DEF IInv, TablesSound
  <2>1. m \in Macs /\ t \in Times
    BY <1>9, InvocationAssumption
  <2>2. found' \in Tables /\ DOMAIN found' = DOMAIN found \cup {m}
    BY <1>9, <2>1, ObserveTable DEF ProcessPacket
  <2>3. exitCode' = None /\ cli' = "processing" /\ invocation' = invocation
    BY <1>9 DEF ProcessPacket, ExitSound
  <2>4. CASE m \in DOMAIN found
    <3>1. stored' = stored /\ wrote' = wrote
      BY <1>9, <2>4 DEF ProcessPacket, database
    <3> QED BY <3>1, <2>2, <2>3, NoneAssumption DEF NothingYet, WrittenIsThere, AllIsThere, ExitSound
  <2>5. CASE m \notin DOMAIN found
    <3>1. stored' = MergeAll(stored, [x \in {m} |-> found'[m]]) /\ wrote' = wrote \cup {m}
      BY <1>9, <2>5 DEF ProcessPacket, Commit
    <3>2. [x \in {m} |-> found'[m]] \in Tables
      BY <2>1, <2>2, TableFacts, OneAsset
    <3>3. stored' \in Tables /\ DOMAIN stored' = DOMAIN stored \cup {m}
      BY <3>1, <3>2, UpsertCovers
    <3> QED BY <3>1, <3>3, <2>2, <2>3, NoneAssumption DEF NothingYet, WrittenIsThere, AllIsThere, ExitSound
  <2> QED BY <2>4, <2>5
<1> QED BY <1>1, <1>2, <1>3, <1>4, <1>5, <1>6, <1>7, <1>8, <1>9 DEF CliNext

LEMMA NextInvariant == IInv /\ [Next]_vars => IInv'
<1> SUFFICES ASSUME IInv, [Next]_vars PROVE IInv'
  OBVIOUS
<1>1. CASE desktopRuns /\ DesktopNext /\ UNCHANGED <<cliState, desktopRuns>>
  BY <1>1, DesktopUpserts, UpsertKeepsInvariant DEF IInv, TablesSound
<1>2. CASE CliNext /\ UNCHANGED <<desktop, desktopRuns>>
  BY <1>2, CliStepKeepsInvariant DEF desktop, capture
<1>3. CASE UNCHANGED vars
  BY <1>3, UpsertKeepsInvariant DEF vars, database, desktop, capture, Upserted, IInv, TablesSound
<1> QED BY <1>1, <1>2, <1>3 DEF Next

\* The exit code tells what is stored (ExitTellsWhatIsStored), for all constants.
THEOREM ExitCodeTellsWhatIsStored == Spec => []ExitTellsWhatIsStored
<1>1. IInv => ExitTellsWhatIsStored
  BY DEF IInv, WrittenIsThere, AllIsThere, ExitSound, ExitTellsWhatIsStored
<1> QED BY <1>1, InitInvariant, NextInvariant, PTL DEF Spec

-----------------------------------------------------------------------------
(* The desktop's table.                                                    *)

Kinds == {"assetDiscovered", "timeout", "captureFinished", "isRunningChanged", "onCaptureFinished"}
Events == [kind : Kinds, row : Rows \union {NoRow}]
Stages == {"none", "starting", "running", "emitting", "saving", "closing", "finishing", "announcing"}

\* The rows are in order.
RowsSound ==
  /\ rows \in Seq(Rows) /\ RowsInOrder
  /\ sortColumn \in Columns /\ sortAscending \in BOOLEAN

\* The row of an asset's event is that of an asset.
EventsSound ==
  /\ events \in Seq(Events)
  /\ \A i \in DOMAIN events : events[i].kind = "assetDiscovered" => events[i].row \in Rows

WorkerSound ==
  /\ worker \in [at : Stages, live : BOOLEAN, row : Rows \union {NoRow}, isNew : BOOLEAN]
  /\ worker.at = "emitting" => worker.row \in Rows
  /\ worker.at = "none" => worker = Idle
  /\ settled \in Tables

FlagsSound == {wal, newer, reading, trouble, timer, isRunning} \subseteq BOOLEAN

DesktopSound == RowsSound /\ EventsSound /\ WorkerSound /\ FlagsSound

\* The rows that are read, applied or sorted are in order again.
LEMMA ReadRows ==
  ASSUME stored \in Tables, RowsSound, ReadDatabase
  PROVE  rows' \in Seq(Rows) /\ InOrder(rows', sortColumn, sortAscending)
<1> USE DEF RowsSound, RowsInOrder
<1>1. CASE rows' = LoadTable(stored, sortColumn, sortAscending)
  BY <1>1, LoadedRows
<1>2. CASE rows' = rows
  BY <1>2
<1>3. ASSUME NEW S \in SUBSET DOMAIN stored,
             rows' = LoadTable([m \in S |-> stored[m]], sortColumn, sortAscending)
      PROVE  rows' \in Seq(Rows) /\ InOrder(rows', sortColumn, sortAscending)
  <2> DEFINE part == [m \in S |-> stored[m]]
  <2>1. DOMAIN stored \subseteq Macs /\ \A m \in DOMAIN stored : stored[m] \in Spans
    BY TableFacts
  <2>2. part = [m \in DOMAIN part |-> part[m]] /\ DOMAIN part = S /\ \A m \in S : part[m] = stored[m]
    OBVIOUS
  <2> HIDE DEF part
  <2>3. part \in Tables
    BY <2>1, <2>2, TableFacts
  <2>4. rows' = LoadTable(part, sortColumn, sortAscending)
    BY <1>3 DEF part
  <2> QED
    BY <2>3, <2>4, LoadedRows
<1> QED
  BY <1>1, <1>2, <1>3 DEF ReadDatabase, ReadFails

\* What is left of a queue, and what is added to it, are events.
LEMMA EventQueues ==
  ASSUME EventsSound
  PROVE  /\ events # <<>> => /\ Tail(events) \in Seq(Events)
                             /\ \A i \in DOMAIN Tail(events) :
                                  Tail(events)[i].kind = "assetDiscovered" => Tail(events)[i].row \in Rows
                             /\ Head(events).kind = "assetDiscovered" => Head(events).row \in Rows
         /\ \A more \in Seq(Events) :
              (\A i \in DOMAIN more : more[i].kind = "assetDiscovered" => more[i].row \in Rows)
              => /\ events \o more \in Seq(Events)
                 /\ \A i \in DOMAIN (events \o more) :
                      (events \o more)[i].kind = "assetDiscovered" => (events \o more)[i].row \in Rows
<1>1. events \in Seq(Events) /\ \A i \in DOMAIN events : events[i].kind = "assetDiscovered" => events[i].row \in Rows
  BY DEF EventsSound
<1>2. ASSUME events # <<>>
      PROVE  /\ Tail(events) \in Seq(Events)
             /\ \A i \in DOMAIN Tail(events) :
                  Tail(events)[i].kind = "assetDiscovered" => Tail(events)[i].row \in Rows
             /\ Head(events).kind = "assetDiscovered" => Head(events).row \in Rows
  <2>1. Tail(events) \in Seq(Events) /\ Head(events) = events[1] /\ 1 \in DOMAIN events
    BY <1>1, <1>2
  <2>2. \A i \in DOMAIN Tail(events) : Tail(events)[i] = events[i + 1] /\ i + 1 \in DOMAIN events
    BY <1>1, <1>2
  <2> QED
    BY <1>1, <2>1, <2>2
<1>3. ASSUME NEW more \in Seq(Events),
             \A i \in DOMAIN more : more[i].kind = "assetDiscovered" => more[i].row \in Rows
      PROVE  /\ events \o more \in Seq(Events)
             /\ \A i \in DOMAIN (events \o more) :
                  (events \o more)[i].kind = "assetDiscovered" => (events \o more)[i].row \in Rows
  <2>1. events \o more \in Seq(Events)
    BY <1>1
  <2>2. ASSUME NEW i \in DOMAIN (events \o more)
        PROVE  \/ i \in DOMAIN events /\ (events \o more)[i] = events[i]
               \/ i - Len(events) \in DOMAIN more /\ (events \o more)[i] = more[i - Len(events)]
    BY <1>1
  <2> QED
    BY <1>1, <1>3, <2>1, <2>2
<1> QED
  BY <1>2, <1>3

LEMMA AssetEvents ==
  ASSUME NEW list \in Seq(Rows)
  PROVE  LET more == [i \in DOMAIN list |-> AssetEvent(list[i])]
         IN  /\ more \in Seq(Events) /\ Len(more) = Len(list)
             /\ \A i \in DOMAIN more : more[i].row \in Rows
<1> DEFINE more == [i \in DOMAIN list |-> AssetEvent(list[i])]
<1>1. \A i \in DOMAIN list : AssetEvent(list[i]) \in Events /\ AssetEvent(list[i]).row \in Rows
  BY DEF AssetEvent, Events, Kinds
<1>2. DOMAIN list = 1 .. Len(list) /\ Len(list) \in Nat
  OBVIOUS
<1>3. more \in [1 .. Len(list) -> Events]
  BY <1>1, <1>2
<1> QED
  BY <1>1, <1>2, <1>3

LEMMA PlainEvents ==
  ASSUME NEW kind \in Kinds \ {"assetDiscovered"}
  PROVE  Event(kind) \in Events /\ Event(kind).kind = kind
BY DEF Event, Events


LEMMA RowsStep ==
  ASSUME stored \in Tables, RowsSound, EventsSound, DesktopNext
  PROVE  RowsSound'
<1> USE DEF RowsSound, RowsInOrder
<1>1. CASE HandleAsset
  <2>1. Head(events).row \in Rows
    BY <1>1, EventQueues DEF HandleAsset, Take
  <2>2. Distinct(rows)
    BY OrderedDistinct
  <2>3. rows' = ApplyAsset(rows, Head(events).row, sortColumn, sortAscending) /\ UNCHANGED <<sortColumn, sortAscending>>
    BY <1>1 DEF HandleAsset
  <2>4. rows' \in Seq(Rows) /\ InOrder(rows', sortColumn, sortAscending)
    BY <2>1, <2>2, <2>3, AppliedRows
  <2> QED
    BY <2>3, <2>4
<1>2. CASE ReadDatabase
  <2>1. UNCHANGED <<sortColumn, sortAscending>>
    BY <1>2 DEF ReadDatabase
  <2> QED
    BY <1>2, <2>1, ReadRows
<1>3. ASSUME NEW column \in Clickable, SortByColumn(column)
      PROVE  RowsSound'
  <2>1. sortColumn' = column /\ column \in Columns
    BY <1>3, ClickAssumption DEF SortByColumn
  <2>2. sortAscending' \in BOOLEAN
    BY <1>3 DEF SortByColumn, SortAscending
  <2>3. rows' = SortAssets(rows, column, sortAscending')
    BY <1>3 DEF SortByColumn
  <2>4. Distinct(rows)
    BY OrderedDistinct
  <2>5. rows' \in Seq(Rows) /\ InOrder(rows', column, sortAscending')
    BY <2>1, <2>2, <2>3, <2>4, SortedRows
  <2> QED
    BY <2>1, <2>2, <2>5
<1>4. CASE HandleTimeoutOrFinish \/ HandleRunningChanged \/ HandleFinishInQml \/ Timeout
  BY <1>4 DEF HandleTimeoutOrFinish, HandleRunningChanged, HandleFinishInQml, Timeout, model
<1>5. ASSUME NEW live \in BOOLEAN, StartCapture(live)
      PROVE  RowsSound'
  BY <1>5 DEF StartCapture, model
<1>6. CASE AnnounceStart \/ EmitLiveAsset \/ RunEnds \/ RunFails
  BY <1>6 DEF AnnounceStart, EmitLiveAsset, RunEnds, RunFails, model
<1>7. CASE SaveAssets \/ CloseWriter \/ FinishSession \/ AnnounceEnd
  BY <1>7 DEF SaveAssets, CloseWriter, FinishSession, AnnounceEnd, model
<1>8. ASSUME NEW seen \in Captured, WriteLiveAsset(seen[1], seen[2]) \/ EmitFileAsset(seen[1], seen[2])
      PROVE  RowsSound'
  BY <1>8 DEF WriteLiveAsset, EmitFileAsset, model
<1> QED
  BY <1>1, <1>2, <1>3, <1>4, <1>5, <1>6, <1>7, <1>8 DEF DesktopNext, GuiThread, WorkerThread

\* A row that is made of what a run has seen.
LEMMA RowOfTable ==
  ASSUME NEW table \in Tables, NEW m \in DOMAIN table
  PROVE  Row(m, table[m]) \in Rows
<1>1. m \in Macs /\ table[m] \in Spans
  BY TableFacts
<1> QED
  BY <1>1 DEF Row, Rows, Spans

LEMMA WorkerStep ==
  ASSUME stored \in Tables, monitor \in Tables, WorkerSound, FlagsSound, DesktopNext
  PROVE  WorkerSound'
<1> USE DEF WorkerSound
<1>1. CASE HandleAsset \/ HandleTimeoutOrFinish \/ HandleRunningChanged \/ HandleFinishInQml \/ ReadDatabase \/ Timeout
  BY <1>1 DEF HandleAsset, HandleTimeoutOrFinish, HandleRunningChanged, HandleFinishInQml, ReadDatabase, Timeout, capture
<1>2. ASSUME NEW column \in Clickable, SortByColumn(column)
      PROVE  WorkerSound'
  BY <1>2 DEF SortByColumn, capture
<1>3. ASSUME NEW live \in BOOLEAN, StartCapture(live)
      PROVE  WorkerSound'
  BY <1>3 DEF StartCapture, Idle, Stages
<1>4. CASE AnnounceStart \/ RunEnds \/ RunFails
  BY <1>4 DEF AnnounceStart, RunEnds, RunFails, Goes, Stages
<1>5. CASE EmitLiveAsset
  BY <1>5 DEF EmitLiveAsset, Idle, Stages
<1>6. CASE SaveAssets \/ CloseWriter \/ FinishSession
  BY <1>6 DEF SaveAssets, CloseWriter, FinishSession, Goes, Stages
<1>7. CASE AnnounceEnd
  BY <1>7 DEF AnnounceEnd, Idle, Stages
<1>8. ASSUME NEW m \in Macs, NEW t \in Times, WriteLiveAsset(m, t)
      PROVE  WorkerSound'
  <2> DEFINE known == Observe(monitor, m, t)
  <2>1. known \in Tables /\ DOMAIN known = DOMAIN monitor \union {m}
    BY ObserveTable
  <2>a. monitor' = known
    BY <1>8 DEF WriteLiveAsset
  <2> HIDE DEF known
  <2>2. monitor' \in Tables /\ m \in DOMAIN monitor'
    BY <2>1, <2>a
  <2>3. Row(m, monitor'[m]) \in Rows
    BY <2>2, RowOfTable
  <2>4. worker' = [worker EXCEPT !.at = "emitting", !.row = Row(m, monitor'[m]), !.isNew = m \notin DOMAIN monitor]
    BY <1>8 DEF WriteLiveAsset
  <2>5. settled' = settled
    BY <1>8 DEF WriteLiveAsset
  <2> QED
    BY <2>3, <2>4, <2>5 DEF Stages
<1>9. ASSUME NEW m \in Macs, NEW t \in Times, EmitFileAsset(m, t)
      PROVE  WorkerSound'
  BY <1>9 DEF EmitFileAsset
<1> QED
  BY <1>1, <1>2, <1>3, <1>4, <1>5, <1>6, <1>7, <1>8, <1>9, CaptureAssumption DEF DesktopNext, GuiThread, WorkerThread

LEMMA FlagsStep ==
  ASSUME FlagsSound, DesktopNext
  PROVE  FlagsSound'
<1> USE DEF FlagsSound, Close, Open, WriteAtOnce, ReloadModels, Written, database
<1>1. CASE HandleAsset \/ HandleTimeoutOrFinish \/ HandleRunningChanged
  BY <1>1 DEF HandleAsset, HandleTimeoutOrFinish, HandleRunningChanged, capture
<1>2. CASE HandleFinishInQml \/ Timeout
  BY <1>2 DEF HandleFinishInQml, Timeout, capture
<1>3. CASE ReadDatabase
  BY <1>3 DEF ReadDatabase, ReadFails, capture
<1>4. ASSUME NEW column \in Clickable, SortByColumn(column)
      PROVE  FlagsSound'
  BY <1>4 DEF SortByColumn, capture
<1>5. ASSUME NEW live \in BOOLEAN, StartCapture(live)
      PROVE  FlagsSound'
  BY <1>5 DEF StartCapture
<1>6. CASE AnnounceStart \/ EmitLiveAsset \/ RunEnds \/ RunFails
  BY <1>6 DEF AnnounceStart, EmitLiveAsset, RunEnds, RunFails
<1>7. CASE SaveAssets \/ CloseWriter \/ FinishSession \/ AnnounceEnd
  BY <1>7 DEF SaveAssets, CloseWriter, FinishSession, AnnounceEnd
<1>8. ASSUME NEW m \in Macs, NEW t \in Times, WriteLiveAsset(m, t) \/ EmitFileAsset(m, t)
      PROVE  FlagsSound'
  BY <1>8 DEF WriteLiveAsset, EmitFileAsset
<1> QED
  BY <1>1, <1>2, <1>3, <1>4, <1>5, <1>6, <1>7, <1>8, CaptureAssumption DEF DesktopNext, GuiThread, WorkerThread

\* The kinds of what a step takes from the queue or adds to it.
LEMMA EventsStep ==
  ASSUME stored \in Tables, monitor \in Tables, EventsSound, WorkerSound, DesktopNext
  PROVE  EventsSound'
<1>1. CASE HandleAsset \/ HandleTimeoutOrFinish \/ HandleRunningChanged \/ HandleFinishInQml
  <2>1. events # <<>> /\ events' = Tail(events)
    BY <1>1 DEF HandleAsset, HandleTimeoutOrFinish, HandleRunningChanged, HandleFinishInQml, Take
  <2> QED
    BY <2>1, EventQueues DEF EventsSound
<1>a. ASSUME UNCHANGED events
      PROVE  EventsSound'
  BY <1>a DEF EventsSound
<1>b. ASSUME NEW more \in Seq(Events), events' = events \o more,
             \A i \in DOMAIN more : more[i].kind = "assetDiscovered" => more[i].row \in Rows
      PROVE  EventsSound'
  BY <1>b, EventQueues DEF EventsSound
<1>c. ASSUME NEW event \in Events, events' = Append(events, event),
             event.kind = "assetDiscovered" => event.row \in Rows
      PROVE  EventsSound'
  <2>1. <<event>> \in Seq(Events) /\ DOMAIN <<event>> = {1} /\ <<event>>[1] = event
    OBVIOUS
  <2>2. events' = events \o <<event>>
    BY <1>c DEF EventsSound
  <2> QED
    BY <1>b, <1>c, <2>1, <2>2
<1>2. CASE ReadDatabase
  BY <1>2, <1>a DEF ReadDatabase
<1>3. ASSUME NEW column \in Clickable, SortByColumn(column)
      PROVE  EventsSound'
  BY <1>3, <1>a DEF SortByColumn
<1>4. ASSUME NEW live \in BOOLEAN, StartCapture(live)
      PROVE  EventsSound'
  BY <1>4, <1>a DEF StartCapture
<1>5. CASE Timeout
  <2>1. Event("timeout") \in Events /\ Event("timeout").kind = "timeout"
    BY PlainEvents DEF Kinds
  <2> QED
    BY <1>5, <1>c, <2>1 DEF Timeout
<1>6. CASE AnnounceStart
  <2>1. Event("isRunningChanged") \in Events /\ Event("isRunningChanged").kind = "isRunningChanged"
    BY PlainEvents DEF Kinds
  <2> QED
    BY <1>6, <1>c, <2>1 DEF AnnounceStart
<1>7. CASE EmitLiveAsset
  <2>1. worker.row \in Rows
    BY <1>7 DEF WorkerSound, EmitLiveAsset
  <2>2. AssetEvent(worker.row) \in Events /\ AssetEvent(worker.row).row \in Rows
    BY <2>1 DEF AssetEvent, Events, Kinds
  <2> QED
    BY <1>7, <1>a, <1>c, <2>2 DEF EmitLiveAsset
<1>8. CASE RunEnds
  <2> DEFINE published == LoadTable(monitor, "none", TRUE)
             more == [i \in DOMAIN published |-> AssetEvent(published[i])]
  <2>1. published \in Seq(Rows)
    BY LoadedRows DEF Columns
  <2>2. events' = events \o more \/ UNCHANGED events
    BY <1>8 DEF RunEnds
  <2> HIDE DEF published
  <2>3. more \in Seq(Events) /\ \A i \in DOMAIN more : more[i].row \in Rows
    BY <2>1, AssetEvents
  <2> HIDE DEF more
  <2> QED
    BY <1>a, <1>b, <2>2, <2>3
<1>9. CASE RunFails \/ SaveAssets \/ CloseWriter \/ FinishSession
  BY <1>9, <1>a DEF RunFails, SaveAssets, CloseWriter, FinishSession
<1>10. CASE AnnounceEnd
  <2>1. PICK finish \in {<<"captureFinished", "onCaptureFinished">>, <<"onCaptureFinished", "captureFinished">>} :
          events' = events \o <<Event("isRunningChanged"), Event(finish[1]), Event(finish[2])>>
    BY <1>10 DEF AnnounceEnd
  <2> DEFINE e1 == Event("isRunningChanged")
             e2 == Event(finish[1])
             e3 == Event(finish[2])
  <2>2. finish[1] \in Kinds \ {"assetDiscovered"} /\ finish[2] \in Kinds \ {"assetDiscovered"}
    BY DEF Kinds
  <2>3. /\ e1 \in Events /\ e2 \in Events /\ e3 \in Events
        /\ e1.kind # "assetDiscovered" /\ e2.kind # "assetDiscovered" /\ e3.kind # "assetDiscovered"
    BY <2>2, PlainEvents DEF Kinds
  <2> HIDE DEF e1, e2, e3
  <2>4. <<e1, e2, e3>> \in Seq(Events) /\ DOMAIN <<e1, e2, e3>> = 1 .. 3
    BY <2>3
  <2>5. \A i \in 1 .. 3 : <<e1, e2, e3>>[i].kind # "assetDiscovered"
    BY <2>3
  <2>6. events' = events \o <<e1, e2, e3>>
    BY <2>1 DEF e1, e2, e3
  <2> QED
    BY <1>b, <2>4, <2>5, <2>6
<1>11. ASSUME NEW m \in Macs, NEW t \in Times, WriteLiveAsset(m, t)
       PROVE  EventsSound'
  BY <1>11, <1>a DEF WriteLiveAsset
<1>12. ASSUME NEW m \in Macs, NEW t \in Times, EmitFileAsset(m, t)
       PROVE  EventsSound'
  <2> DEFINE known == Observe(monitor, m, t)
             event == AssetEvent(Row(m, known[m]))
  <2>1. known \in Tables /\ DOMAIN known = DOMAIN monitor \union {m}
    BY ObserveTable
  <2>2. monitor' = known /\ events' = Append(events, AssetEvent(Row(m, monitor'[m])))
    BY <1>12 DEF EmitFileAsset
  <2> HIDE DEF known
  <2>3. Row(m, known[m]) \in Rows
    BY <2>1, RowOfTable
  <2>4. event \in Events /\ event.row \in Rows
    BY <2>3 DEF AssetEvent, Events, Kinds
  <2>5. events' = Append(events, event)
    BY <2>2
  <2> HIDE DEF event
  <2> QED
    BY <1>c, <2>4, <2>5
<1> QED
  BY <1>1, <1>2, <1>3, <1>4, <1>5, <1>6, <1>7, <1>8, <1>9, <1>10, <1>11, <1>12, CaptureAssumption
     DEF DesktopNext, GuiThread, WorkerThread

-----------------------------------------------------------------------------
(* The table and the rows stored.                                          *)

\* The command line changes the rows by upserts too, and the file's time when
\* commits reach it.
LEMMA CliFile ==
  ASSUME TablesSound, FlagsSound, CliNext
  PROVE  /\ Upserted(stored, stored')
         /\ {wal', newer'} \subseteq BOOLEAN
         /\ ~wal' /\ ~newer' => ~wal /\ ~newer /\ stored' = stored
<1> USE DEF TablesSound, FlagsSound, Upserted, database
<1>1. CASE Configure \/ ReadPcapFile \/ Killed
  BY <1>1 DEF Configure, ReadPcapFile, Killed
<1>2. CASE OpenDatabase
  BY <1>2 DEF OpenDatabase
<1>3. CASE Render \/ PcapError \/ DatabaseError
  BY <1>3 DEF Render, PcapError, DatabaseError, Fails, Close
<1>4. CASE WriteAssets
  BY <1>4 DEF WriteAssets, Commit
<1>5. ASSUME NEW packet \in invocation.packets, ProcessPacket(packet[1], packet[2])
      PROVE  /\ Upserted(stored, stored')
             /\ {wal', newer'} \subseteq BOOLEAN
             /\ ~wal' /\ ~newer' => ~wal /\ ~newer /\ stored' = stored
  <2> DEFINE m == packet[1]
             known == Observe(found, m, packet[2])
  <2>1. m \in Macs /\ packet[2] \in Times
    BY InvocationAssumption
  <2>2. known \in Tables /\ DOMAIN known = DOMAIN found \union {m}
    BY <2>1, ObserveTable
  <2>3. /\ found' = known
        /\ IF m \in DOMAIN found THEN UNCHANGED <<database, wrote>> ELSE Commit([x \in {m} |-> found'[m]])
    BY <1>5 DEF ProcessPacket
  <2> HIDE DEF known
  <2>4. CASE m \in DOMAIN found
    BY <2>3, <2>4
  <2>5. CASE m \notin DOMAIN found
    <3>1. [x \in {m} |-> found'[m]] \in Tables
      BY <2>1, <2>2, <2>3, TableFacts, OneAsset
    <3> QED
      BY <2>3, <2>5, <3>1 DEF Commit
  <2> QED
    BY <2>4, <2>5
<1> QED
  BY <1>1, <1>2, <1>3, <1>4, <1>5 DEF CliNext

\* No step of the desktop makes the file look old that leaves an asset out.
LEMMA FreshStep ==
  ASSUME TablesSound, RowsSound, EventsSound, FlagsSound, SkippedReloadMissesNothing, DesktopNext
  PROVE  SkippedReloadMissesNothing'
<1> USE DEF FlagsSound, SkippedReloadMissesNothing, Close, Open, WriteAtOnce, ReloadModels
<1>1. CASE HandleAsset
  <2>1. Head(events).row \in Rows /\ Distinct(rows) /\ rows \in Seq(Rows)
    BY <1>1, EventQueues, OrderedDistinct DEF HandleAsset, Take, RowsSound, RowsInOrder
  <2>2. rows' = ApplyAsset(rows, Head(events).row, sortColumn, sortAscending)
    BY <1>1 DEF HandleAsset
  <2>3. MacsOf(rows) \subseteq MacsOf(rows')
    BY <2>1, <2>2, AppliedRows DEF RowsSound
  <2>4. UNCHANGED <<stored, wal, newer, reading, trouble>>
    BY <1>1 DEF HandleAsset, database
  <2> QED
    BY <2>3, <2>4
<1>2. CASE HandleTimeoutOrFinish \/ HandleRunningChanged
  <2>1. UNCHANGED <<stored, wal, rows, trouble>>
    BY <1>2 DEF HandleTimeoutOrFinish, HandleRunningChanged, model
  <2>2. ~reading
    BY <1>2 DEF HandleTimeoutOrFinish, HandleRunningChanged, Take
  <2>3. reading' = newer \/ UNCHANGED <<reading, newer>>
    BY <1>2 DEF HandleTimeoutOrFinish, HandleRunningChanged
  <2>4. MacsOf(rows') = MacsOf(rows)
    BY <2>1
  <2> QED
    BY <2>1, <2>2, <2>3, <2>4
<1>3. CASE HandleFinishInQml
  BY <1>3 DEF HandleFinishInQml
<1>4. CASE ReadDatabase
  <2>1. CASE rows' = LoadTable(stored, sortColumn, sortAscending)
    <3>1. MacsOf(rows') = DOMAIN stored
      BY <2>1, LoadedRows DEF TablesSound, RowsSound, Shows
    <3>2. stored' = stored
      BY <1>4 DEF ReadDatabase
    <3> QED
      BY <3>1, <3>2
  <2>2. CASE trouble'
    BY <2>2
  <2> QED
    BY <1>4, <2>1, <2>2 DEF ReadDatabase
<1>5. ASSUME NEW column \in Clickable, SortByColumn(column)
      PROVE  SkippedReloadMissesNothing'
  <2>1. rows' = SortAssets(rows, column, sortAscending') /\ sortAscending' \in BOOLEAN
    BY <1>5 DEF SortByColumn, SortAscending
  <2>2. rows \in Seq(Rows) /\ Distinct(rows) /\ column \in Columns
    BY OrderedDistinct, ClickAssumption DEF RowsSound, RowsInOrder
  <2>3. MacsOf(rows') = MacsOf(rows)
    BY <2>1, <2>2, SortedRows, SameMacs
  <2>4. UNCHANGED <<stored, wal, newer, reading, trouble>>
    BY <1>5 DEF SortByColumn, database
  <2> QED
    BY <2>3, <2>4
<1>a. ASSUME UNCHANGED <<rows, reading, trouble>>, ~wal' /\ ~newer' => ~wal /\ ~newer /\ stored' = stored
      PROVE  SkippedReloadMissesNothing'
  <2>1. MacsOf(rows') = MacsOf(rows)
    BY <1>a
  <2> QED
    BY <1>a, <2>1
<1>6. CASE Timeout
  BY <1>6, <1>a DEF Timeout, database, model
<1>7. ASSUME NEW live \in BOOLEAN, StartCapture(live)
      PROVE  SkippedReloadMissesNothing'
  BY <1>7, <1>a DEF StartCapture, model
<1>8. CASE AnnounceStart \/ RunEnds \/ RunFails \/ AnnounceEnd
  BY <1>8, <1>a DEF AnnounceStart, RunEnds, RunFails, AnnounceEnd, database, model
<1>9. CASE EmitLiveAsset \/ CloseWriter \/ FinishSession
  <2>1. UNCHANGED <<rows, reading, trouble, stored>>
    BY <1>9 DEF EmitLiveAsset, CloseWriter, FinishSession, model
  <2>2. ~wal' /\ ~newer' => ~wal /\ ~newer
    BY <1>9 DEF EmitLiveAsset, CloseWriter, FinishSession
  <2> QED
    BY <1>a, <2>1, <2>2
<1>10. CASE SaveAssets
  BY <1>10, <1>a DEF SaveAssets, Written, model
<1>11. ASSUME NEW m \in Macs, NEW t \in Times, WriteLiveAsset(m, t)
       PROVE  SkippedReloadMissesNothing'
  <2>1. UNCHANGED <<rows, reading, trouble, newer>>
    BY <1>11 DEF WriteLiveAsset, model
  <2>2. wal' = TRUE \/ UNCHANGED <<stored, wal>>
    BY <1>11 DEF WriteLiveAsset, Written
  <2> QED
    BY <1>a, <2>1, <2>2
<1>12. ASSUME NEW m \in Macs, NEW t \in Times, EmitFileAsset(m, t)
       PROVE  SkippedReloadMissesNothing'
  BY <1>12, <1>a DEF EmitFileAsset, database, model
<1> QED
  BY <1>1, <1>2, <1>3, <1>4, <1>5, <1>6, <1>7, <1>8, <1>9, <1>10, <1>11, <1>12, CaptureAssumption
     DEF DesktopNext, GuiThread, WorkerThread

-----------------------------------------------------------------------------
(* What the table shows once all is quiet.                                 *)

Queued(list, kind) == \E i \in DOMAIN list : list[i].kind = kind

\* After the last asset in the queue main.qml reloads the table.
FinishLast(list) ==
  \E k \in DOMAIN list : /\ list[k].kind = "onCaptureFinished"
                         /\ \A j \in DOMAIN list : j > k => list[j].kind # "assetDiscovered"

\* A run goes on, or the table is going to be read when all its assets are applied.
Pending ==
  \/ worker.at # "none"
  \/ FinishLast(events)
  \/ reading /\ ~Queued(events, "assetDiscovered")

\* The list shows what an older table knew, and nothing that the table does not know.
Between(list, old, table) ==
  /\ \A m \in DOMAIN old : \E i \in DOMAIN list : list[i].mac = m /\ Covers([x \in {m} |-> list[i]], m, old[m])
  /\ \A i \in DOMAIN list : Covers(table, list[i].mac, list[i])

\* Between runs the timer waits for the notification that stops it; and the
\* table is good unless it is about to be read, or could not be.
Settling ==
  /\ worker.at = "none" => ~isRunning
  /\ timer => isRunning \/ Queued(events, "isRunningChanged")
  /\ \A m \in DOMAIN settled : Covers(stored, m, settled[m])
  /\ \/ Pending
     \/ ~Queued(events, "assetDiscovered") /\ (trouble \/ Between(rows, settled, stored))

\* Taking an event leaves the others in their order.
LEMMA TakenEvent ==
  ASSUME NEW list \in Seq(Events), list # <<>>
  PROVE  /\ \A kind : Queued(Tail(list), kind) => Queued(list, kind)
         /\ \A kind : Queued(list, kind) /\ Head(list).kind # kind => Queued(Tail(list), kind)
         /\ FinishLast(list) => \/ FinishLast(Tail(list))
                                \/ Head(list).kind = "onCaptureFinished" /\ ~Queued(Tail(list), "assetDiscovered")
<1> DEFINE rest == Tail(list)
<1>1. /\ DOMAIN list = 1 .. Len(list) /\ Len(list) \in Nat \ {0}
      /\ DOMAIN rest = 1 .. Len(list) - 1
      /\ Head(list) = list[1]
      /\ \A i \in DOMAIN rest : rest[i] = list[i + 1]
  OBVIOUS
<1> HIDE DEF rest
<1>2. \A i \in DOMAIN rest : i + 1 \in DOMAIN list /\ rest[i] = list[i + 1]
  BY <1>1
<1>3. \A i \in DOMAIN list : i = 1 \/ (i - 1 \in DOMAIN rest /\ rest[i - 1] = list[i])
  BY <1>1
<1>4. \A kind : Queued(rest, kind) => Queued(list, kind)
  BY <1>2 DEF Queued
<1>5. ASSUME NEW kind, Queued(list, kind), Head(list).kind # kind
      PROVE  Queued(rest, kind)
  <2>1. PICK i \in DOMAIN list : list[i].kind = kind
    BY <1>5 DEF Queued
  <2>2. i - 1 \in DOMAIN rest /\ rest[i - 1] = list[i]
    BY <1>1, <1>3, <1>5, <2>1
  <2> QED
    BY <2>1, <2>2 DEF Queued
<1>6. ASSUME FinishLast(list)
      PROVE  FinishLast(rest) \/ (Head(list).kind = "onCaptureFinished" /\ ~Queued(rest, "assetDiscovered"))
  <2>1. PICK k \in DOMAIN list : /\ list[k].kind = "onCaptureFinished"
                                 /\ \A j \in DOMAIN list : j > k => list[j].kind # "assetDiscovered"
    BY <1>6 DEF FinishLast
  <2>2. CASE k = 1
    <3>1. \A j \in DOMAIN rest : rest[j].kind # "assetDiscovered"
      BY <1>1, <1>2, <2>1, <2>2
    <3> QED
      BY <1>1, <2>1, <2>2, <3>1 DEF Queued
  <2>3. CASE k # 1
    <3>1. k - 1 \in DOMAIN rest /\ rest[k - 1].kind = "onCaptureFinished"
      BY <1>3, <2>1, <2>3
    <3>2. \A j \in DOMAIN rest : j > k - 1 => rest[j].kind # "assetDiscovered"
      BY <1>1, <1>2, <2>1
    <3> QED
      BY <3>1, <3>2 DEF FinishLast
  <2> QED
    BY <2>2, <2>3
<1> QED
  BY <1>4, <1>5, <1>6 DEF rest

\* Adding an event that is not an asset's disturbs neither.
LEMMA AddedEvent ==
  ASSUME NEW list \in Seq(Events), NEW event \in Events
  PROVE  /\ \A kind : Queued(Append(list, event), kind) <=> Queued(list, kind) \/ event.kind = kind
         /\ FinishLast(list) /\ event.kind # "assetDiscovered" => FinishLast(Append(list, event))
<1> DEFINE more == Append(list, event)
<1>1. /\ Len(list) \in Nat /\ DOMAIN list = 1 .. Len(list)
      /\ DOMAIN more = 1 .. Len(list) + 1
      /\ more[Len(list) + 1] = event
      /\ \A i \in DOMAIN list : more[i] = list[i]
  OBVIOUS
<1> HIDE DEF more
<1>2. \A i \in DOMAIN more : i = Len(list) + 1 \/ i \in DOMAIN list
  BY <1>1
<1>a. Len(list) + 1 \in DOMAIN more /\ \A i \in DOMAIN list : i \in DOMAIN more
  BY <1>1
<1>3. \A kind : Queued(more, kind) <=> Queued(list, kind) \/ event.kind = kind
  BY <1>1, <1>2, <1>a DEF Queued
<1>4. ASSUME FinishLast(list), event.kind # "assetDiscovered"
      PROVE  FinishLast(more)
  <2>1. PICK k \in DOMAIN list : /\ list[k].kind = "onCaptureFinished"
                                 /\ \A j \in DOMAIN list : j > k => list[j].kind # "assetDiscovered"
    BY <1>4 DEF FinishLast
  <2>2. \A j \in DOMAIN more : j > k => more[j].kind # "assetDiscovered"
    BY <1>1, <1>2, <1>4, <2>1
  <2> QED
    BY <1>1, <1>a, <2>1, <2>2 DEF FinishLast
<1> QED
  BY <1>3, <1>4 DEF more

\* A table that is read shows just what is stored.
LEMMA LoadedBetween ==
  ASSUME NEW table \in Tables, NEW old \in Tables, NEW list \in Seq(Rows), Shows(list, table),
         \A m \in DOMAIN old : Covers(table, m, old[m])
  PROVE  Between(list, old, table)
<1>1. \A i \in DOMAIN list : list[i].mac \in DOMAIN table /\ list[i] = Row(list[i].mac, table[list[i].mac])
  BY DEF Shows, MacsOf
<1>2. \A i \in DOMAIN list : list[i].first = table[list[i].mac].first /\ list[i].last = table[list[i].mac].last
  BY <1>1 DEF Row
<1>3. \A m \in DOMAIN table : table[m].first \in Nat /\ table[m].last \in Nat
  BY TableFacts, TimeAssumption DEF Spans
<1>4. \A i \in DOMAIN list : Covers(table, list[i].mac, list[i])
  BY <1>1, <1>2, <1>3 DEF Covers
<1>5. ASSUME NEW m \in DOMAIN old
      PROVE  \E i \in DOMAIN list : list[i].mac = m /\ Covers([x \in {m} |-> list[i]], m, old[m])
  <2>1. m \in DOMAIN table /\ table[m].first <= old[m].first /\ table[m].last >= old[m].last
    BY <1>5 DEF Covers
  <2>2. PICK i \in DOMAIN list : list[i].mac = m
    BY <2>1 DEF Shows, MacsOf
  <2>3. list[i].first <= old[m].first /\ list[i].last >= old[m].last
    BY <1>2, <2>1, <2>2
  <2>4. Covers([x \in {m} |-> list[i]], m, old[m])
    BY <2>3 DEF Covers
  <2> QED
    BY <2>2, <2>4
<1> QED
  BY <1>4, <1>5 DEF Between

LEMMA SortedBetween ==
  ASSUME NEW list, NEW other, NEW old, NEW table, SameRows(list, other), Between(other, old, table)
  PROVE  Between(list, old, table)
<1>1. ASSUME NEW m \in DOMAIN old
      PROVE  \E i \in DOMAIN list : list[i].mac = m /\ Covers([x \in {m} |-> list[i]], m, old[m])
  <2>1. PICK j \in DOMAIN other : other[j].mac = m /\ Covers([x \in {m} |-> other[j]], m, old[m])
    BY DEF Between
  <2>2. PICK i \in DOMAIN list : list[i] = other[j]
    BY DEF SameRows
  <2> QED
    BY <2>1, <2>2
<1>2. ASSUME NEW i \in DOMAIN list
      PROVE  Covers(table, list[i].mac, list[i])
  <2>1. PICK j \in DOMAIN other : list[i] = other[j]
    BY DEF SameRows
  <2> QED
    BY <2>1 DEF Between
<1> QED
  BY <1>1, <1>2 DEF Between

\* What is stored covers ever more.
LEMMA UpsertedCovers ==
  ASSUME NEW table \in Tables, NEW grown, Upserted(table, grown)
  PROVE  /\ grown \in Tables
         /\ \A old \in Tables : (\A m \in DOMAIN old : Covers(table, m, old[m])) => \A m \in DOMAIN old : Covers(grown, m, old[m])
         /\ \A old : \A list \in Seq(Rows) : Between(list, old, table) => Between(list, old, grown)
<1>1. grown \in Tables /\ \A m, span : span \in Spans /\ Covers(table, m, span) => Covers(grown, m, span)
  <2>1. CASE grown = table
    BY <2>1
  <2>2. ASSUME NEW assets \in Tables, grown = MergeAll(table, assets)
        PROVE  grown \in Tables /\ \A m, span : span \in Spans /\ Covers(table, m, span) => Covers(grown, m, span)
    BY <2>2, UpsertCovers
  <2> QED
    BY <2>1, <2>2 DEF Upserted
<1>2. ASSUME NEW old \in Tables, NEW m \in DOMAIN old, Covers(table, m, old[m])
      PROVE  Covers(grown, m, old[m])
  BY <1>1, <1>2, TableFacts
<1>3. ASSUME NEW row \in Rows, Covers(table, row.mac, row)
      PROVE  Covers(grown, row.mac, row)
  <2> DEFINE span == [first |-> row.first, last |-> row.last]
  <2>1. span \in Spans /\ Covers(table, row.mac, span)
    BY <1>3 DEF Rows, Spans, Covers
  <2>2. Covers(grown, row.mac, span)
    BY <1>1, <2>1
  <2> QED
    BY <2>2 DEF Covers
<1>4. ASSUME NEW list \in Seq(Rows), NEW old, Between(list, old, table)
      PROVE  Between(list, old, grown)
  <2>1. \A i \in DOMAIN list : list[i] \in Rows
    OBVIOUS
  <2> QED
    BY <1>3, <1>4, <2>1 DEF Between
<1> QED
  BY <1>1, <1>2, <1>4

\* A step of the worker that leaves the desktop busy; nothing else matters then.
LEMMA BusyWorker ==
  ASSUME TablesSound, WorkerSound, Settling, DesktopNext, worker'.at # "none", UNCHANGED <<settled, timer>>,
         timer => isRunning' \/ Queued(events', "isRunningChanged")
  PROVE  Settling'
<1>1. Upserted(stored, stored') /\ settled \in Tables
  BY DesktopUpserts DEF TablesSound, WorkerSound
<1>2. \A m \in DOMAIN settled' : Covers(stored', m, settled'[m])
  <2>1. settled' = settled /\ \A m \in DOMAIN settled : Covers(stored, m, settled[m])
    BY DEF Settling
  <2>2. \A m \in DOMAIN settled : Covers(stored', m, settled[m])
    BY <1>1, <2>1, UpsertedCovers DEF TablesSound
  <2> QED
    BY <2>1, <2>2
<1>3. Pending'
  BY DEF Pending
<1> QED
  BY <1>2, <1>3 DEF Settling

\* Applying an event: none is left out before the table is read.
LEMMA SettlingHandlers ==
  ASSUME EventsSound, Settling, HandleAsset \/ HandleTimeoutOrFinish \/ HandleRunningChanged \/ HandleFinishInQml
  PROVE  Settling'
<1> DEFINE asset == "assetDiscovered"
           changed == "isRunningChanged"
<1>1. /\ ~reading /\ events # <<>> /\ events' = Tail(events) /\ events \in Seq(Events)
      /\ UNCHANGED <<stored, worker, isRunning, settled, trouble>>
  BY DEF HandleAsset, HandleTimeoutOrFinish, HandleRunningChanged, HandleFinishInQml, Take, EventsSound, database, capture
<1>2. /\ \A kind : Queued(events', kind) => Queued(events, kind)
      /\ \A kind : Queued(events, kind) /\ Head(events).kind # kind => Queued(events', kind)
      /\ FinishLast(events) => \/ FinishLast(events')
                               \/ Head(events).kind = "onCaptureFinished" /\ ~Queued(events', asset)
  BY <1>1, TakenEvent
<1>3. /\ worker'.at = "none" => ~isRunning'
      /\ \A m \in DOMAIN settled' : Covers(stored', m, settled'[m])
  BY <1>1 DEF Settling
<1>4. timer' => isRunning' \/ Queued(events', changed)
  <2>1. CASE HandleRunningChanged
    BY <1>1, <2>1 DEF HandleRunningChanged
  <2>2. CASE HandleAsset \/ HandleTimeoutOrFinish \/ HandleFinishInQml
    <3>1. timer' = timer /\ Head(events).kind # changed
      BY <2>2 DEF HandleAsset, HandleTimeoutOrFinish, HandleFinishInQml, Take
    <3> QED
      BY <1>1, <1>2, <3>1 DEF Settling
  <2> QED
    BY <2>1, <2>2
<1>5. Pending' \/ (~Queued(events', asset) /\ (trouble' \/ Between(rows', settled', stored')))
  <2>1. CASE worker.at # "none"
    BY <1>1, <2>1 DEF Pending
  <2>2. CASE FinishLast(events) /\ Head(events).kind # "onCaptureFinished"
    BY <1>2, <2>2 DEF Pending
  <2>3. CASE HandleFinishInQml /\ worker.at = "none"
    <3>1. reading' = TRUE /\ Head(events).kind = "onCaptureFinished"
      BY <2>3 DEF HandleFinishInQml, Take
    <3>2. FinishLast(events') \/ ~Queued(events', asset)
      <4>1. CASE Pending
        BY <1>1, <1>2, <2>3, <4>1 DEF Pending
      <4>2. CASE ~Pending
        BY <1>2, <4>2 DEF Settling
      <4> QED
        BY <4>1, <4>2
    <3> QED
      BY <3>1, <3>2 DEF Pending
  <2>4. CASE ~HandleFinishInQml /\ ~Pending
    <3>1. ~Queued(events, asset) /\ (trouble \/ Between(rows, settled, stored))
      BY <2>4 DEF Settling
    <3>2. ~Queued(events', asset)
      BY <1>2, <3>1
    <3>3. Head(events).kind # asset
      <4>1. 1 \in DOMAIN events /\ Head(events) = events[1]
        BY <1>1
      <4> QED
        BY <3>1, <4>1 DEF Queued
    <3>4. ~HandleAsset
      BY <3>3 DEF HandleAsset, Take
    <3>5. rows' = rows
      BY <2>4, <3>4 DEF HandleTimeoutOrFinish, HandleRunningChanged, model
    <3> QED
      BY <1>1, <3>1, <3>2, <3>5
  <2>5. Head(events).kind = "onCaptureFinished" => HandleFinishInQml
    BY DEF HandleAsset, HandleTimeoutOrFinish, HandleRunningChanged, Take
  <2> QED
    BY <1>1, <2>1, <2>2, <2>3, <2>4, <2>5 DEF Pending
<1> QED
  BY <1>3, <1>4, <1>5 DEF Settling

LEMMA SettlingStep ==
  ASSUME TablesSound, DesktopSound, Settling, DesktopNext
  PROVE  Settling'
<1> USE DEF DesktopSound, WorkerSound, FlagsSound
<1>1. CASE HandleAsset \/ HandleTimeoutOrFinish \/ HandleRunningChanged \/ HandleFinishInQml
  BY <1>1, SettlingHandlers
<1>2. CASE ReadDatabase
  <2>1. UNCHANGED <<stored, timer, events, worker, isRunning, settled>> /\ reading
    BY <1>2 DEF ReadDatabase, capture
  <2>2. /\ worker'.at = "none" => ~isRunning'
        /\ timer' => isRunning' \/ Queued(events', "isRunningChanged")
        /\ \A m \in DOMAIN settled' : Covers(stored', m, settled'[m])
    BY <2>1 DEF Settling
  <2>3. trouble' \/ Between(rows', settled', stored')
    <3>1. CASE rows' = LoadTable(stored, sortColumn, sortAscending)
      <4>1. rows' \in Seq(Rows) /\ Shows(rows', stored)
        BY <3>1, LoadedRows DEF TablesSound, RowsSound
      <4>2. \A m \in DOMAIN settled : Covers(stored, m, settled[m])
        BY DEF Settling
      <4> QED
        BY <2>1, <4>1, <4>2, LoadedBetween DEF TablesSound
    <3>2. CASE trouble'
      BY <3>2
    <3> QED
      BY <1>2, <3>1, <3>2 DEF ReadDatabase
  <2>4. Pending' \/ ~Queued(events', "assetDiscovered")
    BY <2>1 DEF Settling, Pending
  <2> QED
    BY <2>2, <2>3, <2>4 DEF Settling
<1>3. ASSUME NEW column \in Clickable, SortByColumn(column)
      PROVE  Settling'
  <2>1. UNCHANGED <<stored, timer, events, reading, worker, isRunning, settled, trouble>>
    BY <1>3 DEF SortByColumn, database, capture
  <2>2. rows' = SortAssets(rows, column, sortAscending') /\ sortAscending' \in BOOLEAN
    BY <1>3 DEF SortByColumn, SortAscending
  <2>3. rows \in Seq(Rows) /\ Distinct(rows) /\ column \in Columns
    BY OrderedDistinct, ClickAssumption DEF RowsSound, RowsInOrder
  <2>4. SameRows(rows', rows)
    BY <2>2, <2>3, SortedRows
  <2>5. Between(rows, settled, stored) => Between(rows', settled, stored)
    BY <2>4, SortedBetween
  <2>6. Pending => Pending'
    BY <2>1 DEF Pending
  <2> QED
    BY <2>1, <2>5, <2>6 DEF Settling
<1>4. CASE Timeout
  <2>1. /\ UNCHANGED <<stored, rows, timer, reading, worker, isRunning, settled, trouble>>
        /\ events' = Append(events, Event("timeout"))
    BY <1>4 DEF Timeout, database, model, capture
  <2>2. Event("timeout") \in Events /\ Event("timeout").kind = "timeout"
    BY PlainEvents DEF Kinds
  <2>3. /\ \A kind : Queued(events', kind) <=> Queued(events, kind) \/ kind = "timeout"
        /\ FinishLast(events) => FinishLast(events')
    BY <2>1, <2>2, AddedEvent DEF EventsSound
  <2>4. Pending => Pending'
    BY <2>1, <2>3 DEF Pending
  <2> QED
    BY <2>1, <2>3, <2>4 DEF Settling
<1>5. ASSUME NEW live \in BOOLEAN, StartCapture(live)
      PROVE  Settling'
  <2>1. worker'.at = "starting" /\ UNCHANGED <<settled, timer, isRunning, events>>
    BY <1>5 DEF StartCapture, Idle
  <2> QED
    BY <2>1, BusyWorker DEF Settling
<1>a. \A event \in Events : \A kind : Queued(events, kind) => Queued(Append(events, event), kind)
  BY AddedEvent DEF EventsSound
<1>6. CASE AnnounceStart
  <2>1. worker'.at = "running" /\ isRunning' = TRUE /\ UNCHANGED <<settled, timer>>
    BY <1>6 DEF AnnounceStart, Goes
  <2> QED
    BY <2>1, BusyWorker
<1>7. CASE EmitLiveAsset
  <2>1. worker'.at = "running" /\ UNCHANGED <<settled, timer, isRunning>>
    BY <1>7 DEF EmitLiveAsset, Idle
  <2>2. AssetEvent(worker.row) \in Events
    BY <1>7 DEF EmitLiveAsset, AssetEvent, Events, Kinds
  <2>3. UNCHANGED events \/ events' = Append(events, AssetEvent(worker.row))
    BY <1>7 DEF EmitLiveAsset
  <2>4. Queued(events, "isRunningChanged") => Queued(events', "isRunningChanged")
    BY <1>a, <2>2, <2>3
  <2> QED
    BY <2>1, <2>4, BusyWorker DEF Settling
<1>8. CASE RunEnds
  <2>1. worker'.at # "none" /\ UNCHANGED <<settled, timer, isRunning>>
    BY <1>8 DEF RunEnds, Goes
  <2>2. events \in Seq(Events) /\ \E more : events' = events \o more /\ more \in Seq(Events)
    <3> DEFINE published == LoadTable(monitor, "none", TRUE)
               more == [i \in DOMAIN published |-> AssetEvent(published[i])]
    <3>1. published \in Seq(Rows)
      BY LoadedRows DEF Columns, TablesSound
    <3>2. events' = events \o more \/ UNCHANGED events
      BY <1>8 DEF RunEnds
    <3> HIDE DEF published
    <3>3. more \in Seq(Events)
      BY <3>1, AssetEvents
    <3> HIDE DEF more
    <3>4. events = events \o <<>> /\ <<>> \in Seq(Events)
      BY DEF EventsSound
    <3> QED
      BY <3>2, <3>3, <3>4 DEF EventsSound
  <2>3. Queued(events, "isRunningChanged") => Queued(events', "isRunningChanged")
    <3>1. PICK more \in Seq(Events) : events' = events \o more
      BY <2>2
    <3>2. \A i \in DOMAIN events : i \in DOMAIN events' /\ events'[i] = events[i]
      BY <2>2, <3>1
    <3> QED
      BY <3>2 DEF Queued
  <2> QED
    BY <2>1, <2>3, BusyWorker DEF Settling
<1>9. CASE RunFails \/ SaveAssets \/ CloseWriter \/ FinishSession
  <2>1. worker'.at # "none" /\ UNCHANGED <<settled, timer, isRunning, events>>
    BY <1>9 DEF RunFails, SaveAssets, CloseWriter, FinishSession, Goes
  <2> QED
    BY <2>1, BusyWorker DEF Settling
<1>10. ASSUME NEW m \in Macs, NEW t \in Times, WriteLiveAsset(m, t)
       PROVE  Settling'
  <2>1. worker'.at # "none" /\ UNCHANGED <<settled, timer, isRunning, events>>
    BY <1>10 DEF WriteLiveAsset
  <2> QED
    BY <2>1, BusyWorker DEF Settling
<1>11. ASSUME NEW m \in Macs, NEW t \in Times, EmitFileAsset(m, t)
       PROVE  Settling'
  <2>1. worker'.at # "none" /\ UNCHANGED <<settled, timer, isRunning>>
    BY <1>11 DEF EmitFileAsset
  <2>2. Queued(events, "isRunningChanged") => Queued(events', "isRunningChanged")
    <3> DEFINE event == AssetEvent(Row(m, monitor'[m]))
    <3>1. events' = Append(events, event)
      BY <1>11 DEF EmitFileAsset
    <3> HIDE DEF event
    <3>2. \A i \in DOMAIN events : i \in DOMAIN events' /\ events'[i] = events[i]
      BY <3>1 DEF EventsSound
    <3> QED
      BY <3>2 DEF Queued
  <2> QED
    BY <2>1, <2>2, BusyWorker DEF Settling
<1>12. CASE AnnounceEnd
  <2>1. /\ isRunning' = FALSE /\ settled' = stored /\ stored' = stored
        /\ timer' = timer /\ reading' = reading
    BY <1>12 DEF AnnounceEnd, database
  <2>2. PICK finish \in {<<"captureFinished", "onCaptureFinished">>, <<"onCaptureFinished", "captureFinished">>} :
          events' = events \o <<Event("isRunningChanged"), Event(finish[1]), Event(finish[2])>>
    BY <1>12 DEF AnnounceEnd
  <2> DEFINE e1 == Event("isRunningChanged")
             e2 == Event(finish[1])
             e3 == Event(finish[2])
             n == Len(events)
  <2>3. /\ e1.kind = "isRunningChanged"
        /\ e2.kind # "assetDiscovered" /\ e3.kind # "assetDiscovered"
        /\ e2.kind = "onCaptureFinished" \/ e3.kind = "onCaptureFinished"
    BY DEF Event
  <2>4. events' = events \o <<e1, e2, e3>>
    BY <2>2
  <2> HIDE DEF e1, e2, e3
  <2>5. /\ n \in Nat /\ DOMAIN events' = 1 .. n + 3
        /\ events'[n + 1] = e1 /\ events'[n + 2] = e2 /\ events'[n + 3] = e3
    BY <2>4 DEF EventsSound
  <2>6. Queued(events', "isRunningChanged")
    <3>1. n + 1 \in DOMAIN events'
      BY <2>5
    <3> QED
      BY <2>3, <2>5, <3>1 DEF Queued
  <2>7. FinishLast(events')
    <3>1. n + 2 \in DOMAIN events' /\ n + 3 \in DOMAIN events'
      BY <2>5
    <3>2. \A j \in DOMAIN events' : j > n + 2 => j = n + 3
      BY <2>5
    <3>3. \A j \in DOMAIN events' : ~(j > n + 3)
      BY <2>5
    <3> QED
      BY <2>3, <2>5, <3>1, <3>2, <3>3 DEF FinishLast
  <2>8. \A m \in DOMAIN stored : Covers(stored, m, stored[m])
    <3>1. \A m \in DOMAIN stored : stored[m].first \in Nat /\ stored[m].last \in Nat
      BY TableFacts, TimeAssumption DEF TablesSound, Spans
    <3> QED
      BY <3>1 DEF Covers
  <2>9. \A m \in DOMAIN settled' : Covers(stored', m, settled'[m])
    BY <2>1, <2>8
  <2>10. Pending'
    BY <2>7 DEF Pending
  <2> QED
    BY <2>1, <2>6, <2>9, <2>10 DEF Settling
<1> QED
  BY <1>1, <1>2, <1>3, <1>4, <1>5, <1>6, <1>7, <1>8, <1>9, <1>10, <1>11, <1>12, CaptureAssumption
     DEF DesktopNext, GuiThread, WorkerThread

-----------------------------------------------------------------------------
(* Theorems about the table.                                               *)

TableInv == DesktopSound /\ SkippedReloadMissesNothing /\ Settling

LEMMA InitTable == Init => TableInv
<1> SUFFICES ASSUME Init PROVE TableInv
  OBVIOUS
<1> USE DEF Init, DesktopInit
<1>1. stored \in Tables
  BY DatabaseAssumption
<1>2. rows \in Seq(Rows) /\ InOrder(rows, "none", TRUE) /\ Shows(rows, stored)
  BY <1>1, LoadedRows DEF Columns
<1>3. RowsSound
  BY <1>2 DEF RowsSound, RowsInOrder, Columns
<1>4. EventsSound
  BY DEF EventsSound
<1>5. WorkerSound
  BY <1>1 DEF WorkerSound, Idle, Stages
<1>6. FlagsSound
  BY DEF FlagsSound
<1>7. SkippedReloadMissesNothing
  BY DEF SkippedReloadMissesNothing
<1>8. Settling
  <2>1. \A m \in DOMAIN stored : stored[m].first \in Nat /\ stored[m].last \in Nat
    BY <1>1, TableFacts, TimeAssumption DEF Spans
  <2>2. \A m \in DOMAIN stored : Covers(stored, m, stored[m])
    BY <2>1 DEF Covers
  <2>3. Between(rows, settled, stored)
    BY <1>1, <1>2, <2>2, LoadedBetween
  <2>4. ~isRunning /\ ~timer
    OBVIOUS
  <2>5. ~Queued(events, "assetDiscovered")
    BY DEF Queued
  <2>6. \A m \in DOMAIN settled : Covers(stored, m, settled[m])
    BY <2>2
  <2> QED
    BY <2>3, <2>4, <2>5, <2>6 DEF Settling
<1> QED
  BY <1>3, <1>4, <1>5, <1>6, <1>7, <1>8 DEF TableInv, DesktopSound

LEMMA NextTable == IInv /\ TableInv /\ [Next]_vars => TableInv'
<1> SUFFICES ASSUME IInv, TableInv, [Next]_vars PROVE TableInv'
  OBVIOUS
<1>1. TablesSound /\ DesktopSound /\ SkippedReloadMissesNothing /\ Settling
  BY DEF IInv, TableInv
<1>2. CASE DesktopNext
  <2>1. RowsSound' /\ EventsSound' /\ WorkerSound' /\ FlagsSound'
    BY <1>1, <1>2, RowsStep, EventsStep, WorkerStep, FlagsStep DEF DesktopSound, TablesSound
  <2>2. SkippedReloadMissesNothing'
    BY <1>1, <1>2, FreshStep DEF DesktopSound
  <2>3. Settling'
    BY <1>1, <1>2, SettlingStep
  <2> QED
    BY <2>1, <2>2, <2>3 DEF TableInv, DesktopSound
<1>a. ASSUME UNCHANGED desktop, Upserted(stored, stored'), {wal', newer'} \subseteq BOOLEAN,
             ~wal' /\ ~newer' => ~wal /\ ~newer /\ stored' = stored
      PROVE  TableInv'
  <2>1. UNCHANGED <<rows, sortColumn, sortAscending, timer, events, reading, worker, isRunning, settled, trouble>>
    BY <1>a DEF desktop, model, capture
  <2>2. DesktopSound'
    BY <1>1, <1>a, <2>1
       DEF DesktopSound, RowsSound, RowsInOrder, EventsSound, WorkerSound, FlagsSound
  <2>3. SkippedReloadMissesNothing'
    <3>1. MacsOf(rows') = MacsOf(rows)
      BY <2>1
    <3> QED
      BY <1>1, <1>a, <2>1, <3>1 DEF SkippedReloadMissesNothing
  <2>4. Settling'
    <3>1. rows \in Seq(Rows) /\ settled \in Tables /\ stored \in Tables
      BY <1>1 DEF DesktopSound, RowsSound, WorkerSound, TablesSound
    <3>2. (\A m \in DOMAIN settled : Covers(stored, m, settled[m])) => \A m \in DOMAIN settled : Covers(stored', m, settled[m])
      BY <1>a, <3>1, UpsertedCovers
    <3>3. Between(rows, settled, stored) => Between(rows, settled, stored')
      BY <1>a, <3>1, UpsertedCovers
    <3>4. Pending' <=> Pending
      BY <2>1 DEF Pending
    <3> QED
      BY <1>1, <2>1, <3>2, <3>3, <3>4 DEF Settling
  <2> QED
    BY <2>2, <2>3, <2>4 DEF TableInv
<1>3. CASE CliNext /\ UNCHANGED <<desktop, desktopRuns>>
  BY <1>1, <1>3, <1>a, CliFile DEF DesktopSound
<1>4. CASE UNCHANGED vars
  BY <1>1, <1>4, <1>a DEF vars, database, Upserted, DesktopSound, FlagsSound
<1> QED
  BY <1>2, <1>3, <1>4 DEF Next

LEMMA TableInvariant == Spec => []TableInv
<1>1. Init => IInv /\ TableInv
  BY InitInvariant, InitTable
<1>2. IInv /\ TableInv /\ [Next]_vars => (IInv /\ TableInv)'
  BY NextInvariant, NextTable
<1> QED
  BY <1>1, <1>2, PTL DEF Spec

\* The rows of AssetModel are one for each asset, in the order the user chose,
\* whatever is clicked, applied and reloaded, for any assets and times: every
\* change ends with a sort.
THEOREM TableStaysSorted == Spec => []RowsInOrder
<1>1. TableInv => RowsInOrder
  BY DEF TableInv, DesktopSound, RowsSound
<1> QED
  BY <1>1, TableInvariant, PTL

\* reloadModelsFromDatabase skips no reload that would have shown another asset,
\* unless the last read failed, for any number of captures and any other process.
THEOREM SkippedReloadsAreHarmless == Spec => []SkippedReloadMissesNothing
<1>1. TableInv => SkippedReloadMissesNothing
  BY DEF TableInv
<1> QED
  BY <1>1, TableInvariant, PTL

\* Once the events of a run have been handled the table shows what the run left in
\* the database and nothing that is not stored, and the timer is off: main.qml's
\* reload comes after the last asset of the run.
THEOREM TableSettles == Spec => []SettledTable
<1>1. TableInv => SettledTable
  <2> SUFFICES ASSUME TableInv, Quiet
               PROVE  ~timer /\ (trouble \/ Between(rows, settled, stored))
    BY DEF SettledTable, Between
  <2>1. worker.at = "none" /\ ~reading /\ \A i \in DOMAIN events : FALSE
    BY DEF Quiet, Idle
  <2>2. ~Pending /\ ~Queued(events, "isRunningChanged")
    BY <2>1 DEF Pending, FinishLast, Queued
  <2> QED
    BY <2>1, <2>2 DEF TableInv, Settling
<1> QED
  BY <1>1, TableInvariant, PTL

-----------------------------------------------------------------------------
(* The command line, argument by argument.                                  *)

Optional == Words \cup {None}
OptionSet ==
  [pcapPath : Optional, packetFilter : Optional, sqlitePath : Optional, outputFormat : Optional,
   broadIpv4Enrichment : BOOLEAN, ends : {"run", "help", "version", "error"},
   awaiting : ValueOptions \cup {None}]

NoOptions == Options("run")

\* The settings a file may hold.
PatchSet == [section : {None, "output"}, outputFormat : Optional, error : BOOLEAN]
NoPatch == [section |-> None, outputFormat |-> None, error |-> FALSE]

\* Reading an argument, as a function.
ArgumentStep == [r \in OptionSet |-> [c \in Words |-> ReadArgument(r, c)]]

\* parseArguments goes through its arguments in steps.
LEMMA ArgumentsInSteps ==
  ASSUME Stepping(ArgumentStep, NoOptions, OptionSet, Words), NEW s \in Seq(Words)
  PROVE  FoldLeft(ReadArgument, NoOptions, s) = Steps(ArgumentStep, NoOptions, s)
<1> DEFINE D == DOMAIN s
           Value(iter, t) == IF t = {} THEN NoOptions ELSE ReadArgument(iter[t \ {Max(t)}], s[Max(t)])
           Iter == CHOOSE iter : iter = [t \in SUBSET D |-> Value(iter, t)]
<1>1. FoldLeft(ReadArgument, NoOptions, s) = Iter[D]
  BY DEF FoldLeft, MapThenFoldSet
<1>2. \A r \in OptionSet, c \in Words : ReadArgument(r, c) = ArgumentStep[r][c]
  BY DEF ArgumentStep
<1>3. D = 1 .. Len(s)
  BY FoldIndices
<1>4. PICK h \in [SUBSET (1 .. Len(s)) -> OptionSet] : FoldEquation(ArgumentStep, NoOptions, s, Len(s), h)
  BY FoldExists
<1>5. ASSUME NEW t \in SUBSET D PROVE h[t] = Value(h, t)
  <2>1. t # {} => h[t \ {Max(t)}] \in OptionSet /\ s[Max(t)] \in Words
    BY <1>3, FoldIndices
  <2> QED
    BY <1>2, <1>3, <1>4, <2>1 DEF FoldEquation
<1>6. Iter = [t \in SUBSET D |-> Value(Iter, t)]
  <2>1. h = [t \in SUBSET D |-> Value(h, t)]
    <3> HIDE DEF Value
    <3> QED
      BY <1>3, <1>5
  <2> HIDE DEF Value, D
  <2> QED
    BY <2>1
<1> HIDE DEF Iter
<1>7. Stepped(Iter, ArgumentStep, NoOptions, s, OptionSet)
  <2>1. Iter[{}] = NoOptions
    BY <1>6
  <2>2. ASSUME NEW n \in 1 .. Len(s), Iter[(1 .. n) \ {Max(1 .. n)}] \in OptionSet
        PROVE  Iter[1 .. n] = ArgumentStep[Iter[(1 .. n) \ {Max(1 .. n)}]][s[Max(1 .. n)]]
    <3>1. 1 .. n \in SUBSET D /\ 1 .. n # {} /\ s[Max(1 .. n)] \in Words
      BY <1>3, FoldIndices
    <3>2. Iter[1 .. n] = Value(Iter, 1 .. n)
      BY <1>6, <3>1
    <3> QED
      BY <1>2, <2>2, <3>1, <3>2
  <2> QED
    BY <2>1, <2>2 DEF Stepped
<1> QED
  BY <1>1, <1>7, FoldIsSteps

\* Reading a line, as a function.
LineStep == [r \in PatchSet |-> [c \in Lines |-> ReadLine(r, c)]]

\* loadConfigFile goes through the lines of its file in steps.
LEMMA LinesInSteps ==
  ASSUME Stepping(LineStep, NoPatch, PatchSet, Lines), NEW s \in Seq(Lines)
  PROVE  FoldLeft(ReadLine, NoPatch, s) = Steps(LineStep, NoPatch, s)
<1> DEFINE D == DOMAIN s
           Value(iter, t) == IF t = {} THEN NoPatch ELSE ReadLine(iter[t \ {Max(t)}], s[Max(t)])
           Iter == CHOOSE iter : iter = [t \in SUBSET D |-> Value(iter, t)]
<1>1. FoldLeft(ReadLine, NoPatch, s) = Iter[D]
  BY DEF FoldLeft, MapThenFoldSet
<1>2. \A r \in PatchSet, c \in Lines : ReadLine(r, c) = LineStep[r][c]
  BY DEF LineStep
<1>3. D = 1 .. Len(s)
  BY FoldIndices
<1>4. PICK h \in [SUBSET (1 .. Len(s)) -> PatchSet] : FoldEquation(LineStep, NoPatch, s, Len(s), h)
  BY FoldExists
<1>5. ASSUME NEW t \in SUBSET D PROVE h[t] = Value(h, t)
  <2>1. t # {} => h[t \ {Max(t)}] \in PatchSet /\ s[Max(t)] \in Lines
    BY <1>3, FoldIndices
  <2> QED
    BY <1>2, <1>3, <1>4, <2>1 DEF FoldEquation
<1>6. Iter = [t \in SUBSET D |-> Value(Iter, t)]
  <2>1. h = [t \in SUBSET D |-> Value(h, t)]
    <3> HIDE DEF Value
    <3> QED
      BY <1>3, <1>5
  <2> HIDE DEF Value, D
  <2> QED
    BY <2>1
<1> HIDE DEF Iter
<1>7. Stepped(Iter, LineStep, NoPatch, s, PatchSet)
  <2>1. Iter[{}] = NoPatch
    BY <1>6
  <2>2. ASSUME NEW n \in 1 .. Len(s), Iter[(1 .. n) \ {Max(1 .. n)}] \in PatchSet
        PROVE  Iter[1 .. n] = LineStep[Iter[(1 .. n) \ {Max(1 .. n)}]][s[Max(1 .. n)]]
    <3>1. 1 .. n \in SUBSET D /\ 1 .. n # {} /\ s[Max(1 .. n)] \in Lines
      BY <1>3, FoldIndices
    <3>2. Iter[1 .. n] = Value(Iter, 1 .. n)
      BY <1>6, <3>1
    <3> QED
      BY <1>2, <2>2, <3>1, <3>2
  <2> QED
    BY <2>1, <2>2 DEF Stepped
<1> QED
  BY <1>1, <1>7, FoldIsSteps

\* What has been read is always a set of options.
LEMMA ArgumentStepping == Stepping(ArgumentStep, NoOptions, OptionSet, Words)
<1>1. NoOptions \in OptionSet
  BY DEF NoOptions, Options, OptionSet, Optional
<1>2. ASSUME NEW o \in OptionSet, NEW arg \in Words
      PROVE  ReadArgument(o, arg) \in OptionSet
  <2>1. CASE o.ends # "run"
    BY <2>1 DEF ReadArgument
  <2>2. CASE o.ends = "run" /\ o.awaiting = None
    <3>1. ReadArgument(o, arg) = ReadOption(o, arg)
      BY <2>2 DEF ReadArgument
    <3>2. \/ ReadOption(o, arg) \in
                {[o EXCEPT !.ends = "help"], [o EXCEPT !.ends = "version"], [o EXCEPT !.ends = "error"],
                 [o EXCEPT !.broadIpv4Enrichment = TRUE]}
          \/ arg \in ValueOptions /\ ReadOption(o, arg) = [o EXCEPT !.awaiting = arg]
      BY DEF ReadOption
    <3>3. arg \in ValueOptions => [o EXCEPT !.awaiting = arg] \in OptionSet
      BY DEF OptionSet
    <3>4. /\ [o EXCEPT !.ends = "help"] \in OptionSet /\ [o EXCEPT !.ends = "version"] \in OptionSet
          /\ [o EXCEPT !.ends = "error"] \in OptionSet
          /\ [o EXCEPT !.broadIpv4Enrichment = TRUE] \in OptionSet
      BY DEF OptionSet
    <3> QED
      BY <3>1, <3>2, <3>3, <3>4
  <2>3. CASE o.ends = "run" /\ o.awaiting # None
    <3> DEFINE p == TakeValue(o, arg)
    <3>1. ReadArgument(o, arg) = [p EXCEPT !.awaiting = None]
      BY <2>3 DEF ReadArgument
    <3>2. p \in {[o EXCEPT !.pcapPath = arg], [o EXCEPT !.sqlitePath = arg], [o EXCEPT !.packetFilter = arg],
                 [o EXCEPT !.outputFormat = arg], [o EXCEPT !.ends = "error"]}
      BY DEF TakeValue
    <3>3. p \in OptionSet
      BY <3>2 DEF OptionSet, Optional
    <3> HIDE DEF p
    <3> QED
      BY <3>1, <3>3 DEF OptionSet
  <2> QED
    BY <2>1, <2>2, <2>3
<1> QED
  BY <1>1, <1>2 DEF Stepping, ArgumentStep

\* The largest and the least of some indices.
LEMMA GreatestOf ==
  ASSUME NEW t, NEW x \in t, t \subseteq Nat, \A y \in t : y <= x
  PROVE  Max(t) = x
<1>1. \A y \in t : (\A z \in t : y >= z) => y = x
  BY SMT
<1>2. \A z \in t : x >= z
  BY SMT
<1> QED
  BY <1>1, <1>2 DEF Max

\* The least.
LEMMA LeastOf ==
  ASSUME NEW t, NEW x \in t, t \subseteq Nat, \A y \in t : x <= y
  PROVE  Min(t) = x
<1>1. \A y \in t : (\A z \in t : y <= z) => y = x
  BY SMT
<1> QED
  BY <1>1 DEF Min

-----------------------------------------------------------------------------
(* The places of the options.                                              *)

\* Every argument list can be told into options and values.
LEMMA PlacesExist ==
  ASSUME NEW args \in Seq(Words)
  PROVE  /\ OptionPlaces(args) \subseteq 1 .. Len(args)
         /\ \A i \in 1 .. Len(args) :
              i \in OptionPlaces(args)
                <=> ~(i - 1 \in OptionPlaces(args) /\ args[i - 1] \in ValueOptions)
<1> DEFINE Told(k, places) ==
             /\ places \subseteq 1 .. k
             /\ \A i \in 1 .. k : i \in places <=> ~(i - 1 \in places /\ args[i - 1] \in ValueOptions)
           G == {k \in Nat : \E places : Told(k, places)}
<1>1. 0 \in G
  <2>1. Told(0, {})
    BY SMT
  <2> QED
    BY <2>1
<1>2. ASSUME NEW k \in Nat, k \in G PROVE k + 1 \in G
  <2>1. PICK places : Told(k, places)
    BY <1>2
  <2> DEFINE value == k \in places /\ args[k] \in ValueOptions
             more == IF value THEN places ELSE places \cup {k + 1}
  <2>2. \A i \in 1 .. (k + 1) : i \in 1 .. k \/ i = k + 1
    BY SMT
  <2>3. k + 1 \notin places /\ k \in more <=> k \in places
    BY <2>1
  <2>4. \A i \in 1 .. k : (i \in more <=> i \in places) /\ (i - 1 \in more <=> i - 1 \in places)
    BY <2>1
  <2>5. k + 1 \in more <=> ~value
    BY <2>1
  <2>6. k + 1 - 1 = k /\ k + 1 \in Nat /\ (k \in more <=> k \in places)
    BY <2>1
  <2>7. more \subseteq 1 .. (k + 1)
    BY <2>1
  <2> HIDE DEF more
  <2>8. Told(k + 1, more)
    BY <2>1, <2>2, <2>4, <2>5, <2>6, <2>7
  <2> QED
    BY <2>6, <2>8
<1>3. Len(args) \in Nat /\ DOMAIN args = 1 .. Len(args)
  OBVIOUS
<1>4. Len(args) \in G
  <2> HIDE DEF G
  <2> QED
    BY <1>1, <1>2, <1>3, NatSetInduction
<1>5. \E places \in SUBSET DOMAIN args :
        \A i \in DOMAIN args : i \in places <=> ~(i - 1 \in places /\ args[i - 1] \in ValueOptions)
  BY <1>3, <1>4
<1> QED
  BY <1>3, <1>5 DEF OptionPlaces

-----------------------------------------------------------------------------
(* What has been read of the command line.                                 *)

\* The value an option has been given by the first k arguments.
Upto(args, places, k, option) ==
  LET with == {i \in places : i < k /\ args[i] = option}
  IN  IF with = {} THEN None ELSE args[Max(with) + 1]

\* The stops among them; what is wrong with a value shows when it is read.
Stopped(args, places, k) ==
  {i \in Stops(args, places) : i <= k /\ (args[i] \in ValueOptions => i < k)}

\* How the run ends for an argument.
EndFor(arg) ==
  CASE arg \in {"--help", "-h"} -> "help" [] arg = "--version" -> "version" [] OTHER -> "error"

GoesOn(args, places, k, o) ==
  /\ Stopped(args, places, k) = {}
  /\ o.ends = "run"
  /\ o.awaiting = IF k \in places /\ args[k] \in ValueOptions THEN args[k] ELSE None
  /\ o.broadIpv4Enrichment = (\E i \in places : i <= k /\ args[i] = "--broad-ipv4-enrichment")
  /\ o.pcapPath = Upto(args, places, k, "--pcap")
  /\ o.packetFilter = Upto(args, places, k, "--filter")
  /\ o.sqlitePath = Upto(args, places, k, "--sqlite")
  /\ o.outputFormat = Upto(args, places, k, "--output")

HasEnded(args, places, k, o) ==
  \E i \in Stopped(args, places, k) :
    /\ \A j \in Stops(args, places) : i <= j
    /\ o.ends = EndFor(args[i]) /\ o.awaiting = None

\* Places where arguments are told apart.
PlacesOf(args, places) ==
  /\ places \subseteq 1 .. Len(args)
  /\ \A i \in 1 .. Len(args) : i \in places <=> ~(i - 1 \in places /\ args[i - 1] \in ValueOptions)

\* The first stop is where the run ends.
LEMMA FirstStop ==
  ASSUME NEW args \in Seq(Words), NEW places, PlacesOf(args, places), NEW k \in 1 .. Len(args),
         Stopped(args, places, k - 1) = {}, NEW i \in Stopped(args, places, k)
  PROVE  /\ \A j \in Stops(args, places) : i <= j
         /\ args[i] \in ValueOptions => i = k - 1 /\ k - 1 \in places
         /\ args[i] \notin ValueOptions => i = k
<1>0. Len(args) \in Nat /\ k \in Nat /\ k >= 1 /\ places \subseteq Nat
  BY DEF PlacesOf
<1>1. i \in Stops(args, places) /\ i \in places /\ i \in Nat /\ i <= k /\ i \in 1 .. Len(args)
      /\ (args[i] \in ValueOptions => i < k)
  BY <1>0 DEF Stopped, Stops, PlacesOf
<1>2. ~(i <= k - 1 /\ (args[i] \in ValueOptions => i < k - 1))
  BY <1>1 DEF Stopped
<1>3. args[i] \in ValueOptions => i = k - 1
  BY <1>0, <1>1, <1>2
<1>4. args[i] \notin ValueOptions => i = k
  BY <1>0, <1>1, <1>2
<1>5. ASSUME NEW j \in Stops(args, places), j < i PROVE FALSE
  <2>0. j \in places
    BY DEF Stops
  <2>1. j \in places /\ j \in Nat /\ j <= k - 1
    BY <1>0, <1>1, <1>5, <2>0
  <2>2. args[j] \in ValueOptions /\ ~(j < k - 1)
    BY <2>1 DEF Stopped
  <2>3. j = k - 1 /\ i = k
    BY <1>0, <1>1, <1>5, <2>1, <2>2
  <2>4. k \notin places
    BY <2>1, <2>2, <2>3 DEF PlacesOf
  <2> QED
    BY <1>1, <2>3, <2>4
<1>6. \A j \in Stops(args, places) : j \in Nat
  BY <1>0 DEF Stops
<1> QED
  BY <1>1, <1>3, <1>4, <1>5, <1>6

\* An argument that is a value, after an option that goes on with one.
LEMMA ReadsValue ==
  ASSUME NEW args \in Seq(Words), NEW places, PlacesOf(args, places), NEW k \in 1 .. Len(args),
         NEW o \in OptionSet, GoesOn(args, places, k - 1, o),
         k - 1 \in places, args[k - 1] \in ValueOptions
  PROVE  \/ GoesOn(args, places, k, ReadArgument(o, args[k]))
         \/ HasEnded(args, places, k, ReadArgument(o, args[k]))
<1> DEFINE p == ReadArgument(o, args[k])
           option == args[k - 1]
<1>0. /\ Len(args) \in Nat /\ k \in Nat /\ k >= 1 /\ places \subseteq Nat /\ k \notin places
      /\ k - 1 \in Nat /\ k - 1 < k /\ k - 1 < Len(args) /\ (k - 1) + 1 = k /\ k - 1 \in 1 .. Len(args)
  BY DEF PlacesOf
<1>1. o.ends = "run" /\ o.awaiting = option /\ option # None
  BY WordAssumption DEF GoesOn
<1>2. p = [TakeValue(o, args[k]) EXCEPT !.awaiting = None]
  BY <1>1 DEF ReadArgument
<1>3. CASE k - 1 \in Stops(args, places)
  <2>1. k - 1 \in Stopped(args, places, k)
    BY <1>0, <1>3 DEF Stopped
  <2>2. \A j \in Stops(args, places) : k - 1 <= j
    BY <2>1, FirstStop DEF GoesOn
  <2>3. \/ option = "--filter" /\ args[k] = ""
        \/ option = "--output" /\ args[k] \notin Formats
    <3> DEFINE j == k - 1
    <3>1. j + 1 = k /\ j # Len(args) /\ args[j] = option /\ j \in Stops(args, places)
      BY <1>0, <1>3
    <3> HIDE DEF j
    <3>2. option # "--broad-ipv4-enrichment"
      BY DEF ValueOptions
    <3> QED
      BY <3>1, <3>2 DEF Stops
  <2>4. TakeValue(o, args[k]) = [o EXCEPT !.ends = "error"]
    BY <1>1, <2>3 DEF TakeValue
  <2>5. p.ends = "error" /\ p.awaiting = None
    BY <1>2, <2>4 DEF OptionSet
  <2>6. EndFor(option) = "error"
    BY DEF EndFor, ValueOptions
  <2> QED
    BY <2>1, <2>2, <2>5, <2>6 DEF HasEnded
<1>4. CASE k - 1 \notin Stops(args, places)
  <2>1. Stopped(args, places, k) = {}
    <3>1. ASSUME NEW i \in Stopped(args, places, k) PROVE FALSE
      <4>1. i = k - 1 \/ i = k
        BY <3>1, FirstStop DEF GoesOn
      <4>2. i \in Stops(args, places) /\ i \in places
        BY <3>1 DEF Stopped, Stops
      <4> QED
        BY <1>0, <1>4, <4>1, <4>2
    <3> QED
      BY <3>1
  <2>2. /\ option = "--filter" => args[k] # ""
        /\ option = "--output" => args[k] \in Formats
    BY <1>0, <1>4 DEF Stops
  <2> DEFINE with(n, x) == {i \in places : i < n /\ args[i] = x}
  <2>3. \A x \in ValueOptions : Upto(args, places, k, x) = IF x = option THEN args[k] ELSE Upto(args, places, k - 1, x)
    <3>1. ASSUME NEW x \in ValueOptions, x = option PROVE Upto(args, places, k, x) = args[k]
      <4>0. \A y \in Nat : y < k => y <= k - 1
        BY <1>0
      <4>1. k - 1 \in with(k, x) /\ with(k, x) \subseteq Nat /\ \A y \in with(k, x) : y <= k - 1
        BY <1>0, <3>1, <4>0
      <4>2. Max(with(k, x)) = k - 1
        <5> HIDE DEF with
        <5> QED
          BY <4>1, GreatestOf
      <4> QED
        BY <1>0, <4>1, <4>2 DEF Upto
    <3>2. ASSUME NEW x \in ValueOptions, x # option PROVE with(k, x) = with(k - 1, x)
      <4>1. \A i \in places : i < k <=> i < k - 1 \/ i = k - 1
        BY <1>0
      <4> QED
        BY <3>2, <4>1
    <3>3. ASSUME NEW x \in ValueOptions, x # option PROVE Upto(args, places, k, x) = Upto(args, places, k - 1, x)
      BY <3>2, <3>3 DEF Upto
    <3> QED
      BY <3>1, <3>3
  <2>4. p.ends = "run" /\ p.awaiting = None /\ p.broadIpv4Enrichment = o.broadIpv4Enrichment
    BY <1>1, <1>2, <2>2 DEF TakeValue, ValueOptions, OptionSet
  <2>5. /\ p.pcapPath = (IF option = "--pcap" THEN args[k] ELSE o.pcapPath)
        /\ p.packetFilter = (IF option = "--filter" THEN args[k] ELSE o.packetFilter)
        /\ p.sqlitePath = (IF option = "--sqlite" THEN args[k] ELSE o.sqlitePath)
        /\ p.outputFormat = (IF option = "--output" THEN args[k] ELSE o.outputFormat)
    BY <1>1, <1>2, <2>2 DEF TakeValue, ValueOptions, OptionSet
  <2>6. (\E i \in places : i <= k /\ args[i] = "--broad-ipv4-enrichment")
          <=> (\E i \in places : i <= k - 1 /\ args[i] = "--broad-ipv4-enrichment")
    BY <1>0
  <2>7. {"--pcap", "--filter", "--sqlite", "--output"} = ValueOptions
    BY DEF ValueOptions
  <2> HIDE DEF p, option
  <2>8. /\ p.pcapPath = Upto(args, places, k, "--pcap") /\ p.packetFilter = Upto(args, places, k, "--filter")
        /\ p.sqlitePath = Upto(args, places, k, "--sqlite") /\ p.outputFormat = Upto(args, places, k, "--output")
    BY <2>3, <2>5, <2>7 DEF GoesOn
  <2>9. p.broadIpv4Enrichment = (\E i \in places : i <= k /\ args[i] = "--broad-ipv4-enrichment")
    BY <2>4, <2>6 DEF GoesOn
  <2> QED
    BY <1>0, <2>1, <2>4, <2>8, <2>9 DEF GoesOn, p
<1> QED
  BY <1>3, <1>4

\* An argument that is an option.
LEMMA ReadsOption ==
  ASSUME NEW args \in Seq(Words), NEW places, PlacesOf(args, places), NEW k \in 1 .. Len(args),
         NEW o \in OptionSet, GoesOn(args, places, k - 1, o),
         ~(k - 1 \in places /\ args[k - 1] \in ValueOptions)
  PROVE  \/ GoesOn(args, places, k, ReadArgument(o, args[k]))
         \/ HasEnded(args, places, k, ReadArgument(o, args[k]))
<1> DEFINE p == ReadArgument(o, args[k])
           arg == args[k]
           Broad2 == "--broad-ipv4-enrichment"
<1>0. /\ Len(args) \in Nat /\ k \in Nat /\ k >= 1 /\ places \subseteq Nat /\ k \in places
      /\ k <= k /\ ~(k < k)
  BY DEF PlacesOf
<1>1. o.ends = "run" /\ o.awaiting = None
  BY DEF GoesOn
<1>2. p = ReadOption(o, arg)
  BY <1>1 DEF ReadArgument
<1>3. CASE arg \notin ValueOptions \cup {Broad2}
  <2>1. k \in Stopped(args, places, k)
    BY <1>0, <1>3 DEF Stopped, Stops
  <2>2. \A j \in Stops(args, places) : k <= j
    BY <2>1, FirstStop DEF GoesOn
  <2>3. p.ends = EndFor(arg) /\ p.awaiting = None
    BY <1>1, <1>2, <1>3 DEF ReadOption, EndFor, ValueOptions, OptionSet
  <2> QED
    BY <2>1, <2>2, <2>3 DEF HasEnded
<1>4. CASE arg \in ValueOptions \cup {Broad2}
  <2>1. Stopped(args, places, k) = {}
    <3>1. ASSUME NEW i \in Stopped(args, places, k) PROVE FALSE
      <4>1. /\ args[i] \in ValueOptions => i = k - 1 /\ k - 1 \in places
            /\ args[i] \notin ValueOptions => i = k
        BY FirstStop DEF GoesOn
      <4>2. i = k /\ arg \notin ValueOptions
        BY <4>1
      <4>3. i \in Stops(args, places)
        BY DEF Stopped
      <4> QED
        BY <1>4, <4>2, <4>3 DEF Stops, ValueOptions
    <3> QED
      BY <3>1
  <2>2. \A x \in ValueOptions : Upto(args, places, k, x) = Upto(args, places, k - 1, x)
    <3>1. ASSUME NEW x \in ValueOptions
          PROVE  {i \in places : i < k /\ args[i] = x} = {i \in places : i < k - 1 /\ args[i] = x}
      <4>1. \A i \in places : i < k <=> i < k - 1 \/ i = k - 1
        BY <1>0
      <4> QED
        BY <4>1
    <3> QED
      BY <3>1 DEF Upto
  <2>3. (\E i \in places : i <= k /\ args[i] = Broad2)
          <=> (arg = Broad2 \/ \E i \in places : i <= k - 1 /\ args[i] = Broad2)
    <3>1. \A i \in places : i <= k <=> i = k \/ i <= k - 1
      BY <1>0
    <3> QED
      BY <1>0, <3>1
  <2>4. p.ends = "run" /\ p.awaiting = (IF arg \in ValueOptions THEN arg ELSE None)
    BY <1>1, <1>2, <1>4 DEF ReadOption, ValueOptions, OptionSet
  <2>5. /\ p.pcapPath = o.pcapPath /\ p.packetFilter = o.packetFilter
        /\ p.sqlitePath = o.sqlitePath /\ p.outputFormat = o.outputFormat
    BY <1>1, <1>2, <1>4 DEF ReadOption, ValueOptions, OptionSet
  <2>6. p.broadIpv4Enrichment = (arg = Broad2 \/ o.broadIpv4Enrichment)
    BY <1>1, <1>2, <1>4 DEF ReadOption, ValueOptions, OptionSet
  <2>7. {"--pcap", "--filter", "--sqlite", "--output"} = ValueOptions
    BY DEF ValueOptions
  <2> HIDE DEF p, Broad2
  <2>8. /\ p.pcapPath = Upto(args, places, k, "--pcap") /\ p.packetFilter = Upto(args, places, k, "--filter")
        /\ p.sqlitePath = Upto(args, places, k, "--sqlite") /\ p.outputFormat = Upto(args, places, k, "--output")
    BY <2>2, <2>5, <2>7 DEF GoesOn
  <2>9. p.broadIpv4Enrichment = (\E i \in places : i <= k /\ args[i] = Broad2)
    BY <2>3, <2>6 DEF GoesOn, Broad2
  <2> QED
    BY <1>0, <2>1, <2>4, <2>8, <2>9 DEF GoesOn, p, Broad2
<1> QED
  BY <1>3, <1>4

\* Once the run has ended nothing is read.
LEMMA ReadsNoMore ==
  ASSUME NEW args \in Seq(Words), NEW places, PlacesOf(args, places), NEW k \in 1 .. Len(args),
         NEW o \in OptionSet, HasEnded(args, places, k - 1, o)
  PROVE  HasEnded(args, places, k, ReadArgument(o, args[k]))
<1>1. PICK i \in Stopped(args, places, k - 1) :
        /\ \A j \in Stops(args, places) : i <= j
        /\ o.ends = EndFor(args[i]) /\ o.awaiting = None
  BY DEF HasEnded
<1>2. i \in places /\ i \in Nat /\ k \in Nat
  <2>1. i \in places
    BY DEF Stopped, Stops
  <2> QED
    BY <2>1 DEF PlacesOf
<1>3. i \in Stopped(args, places, k)
  BY <1>2 DEF Stopped
<1>4. o.ends # "run"
  BY <1>1 DEF EndFor
<1>5. ReadArgument(o, args[k]) = o
  BY <1>4 DEF ReadArgument
<1> QED
  BY <1>1, <1>3, <1>5 DEF HasEnded

\* Whatever the command line is.
LEMMA ReadsArguments ==
  ASSUME NEW args \in Seq(Words), NEW places, PlacesOf(args, places), NEW g \in [0 .. Len(args) -> OptionSet],
         Trace(ArgumentStep, NoOptions, args, g)
  PROVE  \A k \in 0 .. Len(args) : GoesOn(args, places, k, g[k]) \/ HasEnded(args, places, k, g[k])
<1> DEFINE Good(k) == GoesOn(args, places, k, g[k]) \/ HasEnded(args, places, k, g[k])
           G == {k \in Nat : k <= Len(args) => Good(k)}
<1>0. Len(args) \in Nat /\ \A k \in 1 .. Len(args) : args[k] \in Words
  OBVIOUS
<1>1. 0 \in G
  <2>1. \A i \in places : i \in Nat /\ i >= 1
    BY DEF PlacesOf
  <2>2. Stopped(args, places, 0) = {}
    <3>1. ASSUME NEW i \in Stopped(args, places, 0) PROVE FALSE
      <4>1. i \in places /\ i <= 0
        BY DEF Stopped, Stops
      <4> QED
        BY <2>1, <4>1
    <3> QED
      BY <3>1
  <2>3. \A x : Upto(args, places, 0, x) = None
    BY <2>1 DEF Upto
  <2>4. 0 \notin places /\ ~\E i \in places : i <= 0 /\ args[i] = "--broad-ipv4-enrichment"
    BY <2>1
  <2>5. g[0] = NoOptions
    BY DEF Trace
  <2>6. GoesOn(args, places, 0, g[0])
    BY <2>2, <2>3, <2>4, <2>5 DEF GoesOn, NoOptions, Options
  <2> QED
    BY <2>6
<1>2. ASSUME NEW n \in Nat, n \in G PROVE n + 1 \in G
  <2> SUFFICES ASSUME n + 1 <= Len(args) PROVE Good(n + 1)
    BY <1>2
  <2> DEFINE k == n + 1
  <2>1. k \in 1 .. Len(args) /\ k - 1 = n /\ n \in 0 .. Len(args) /\ n <= Len(args)
    BY <1>0
  <2>2. g[k] = ArgumentStep[g[n]][args[k]] /\ g[n] \in OptionSet /\ args[k] \in Words
    BY <1>0, <2>1 DEF Trace
  <2>3. g[k] = ReadArgument(g[n], args[k])
    BY <2>2 DEF ArgumentStep
  <2>4. Good(n)
    BY <1>2, <2>1
  <2> HIDE DEF k
  <2>5. CASE HasEnded(args, places, n, g[n])
    BY <2>1, <2>2, <2>3, <2>5, ReadsNoMore DEF k
  <2>6. CASE GoesOn(args, places, n, g[n]) /\ n \in places /\ args[n] \in ValueOptions
    BY <2>1, <2>2, <2>3, <2>6, ReadsValue DEF k
  <2>7. CASE GoesOn(args, places, n, g[n]) /\ ~(n \in places /\ args[n] \in ValueOptions)
    BY <2>1, <2>2, <2>3, <2>7, ReadsOption DEF k
  <2> QED
    BY <2>4, <2>5, <2>6, <2>7
<1>3. Nat \subseteq G
  <2> HIDE DEF G
  <2> QED
    BY <1>1, <1>2, NatSetInduction
<1> QED
  BY <1>0, <1>3

\* The command line as a whole: its options are what the last of each kind
\* says, unless the run ends at the first stop.
LEMMA ArgumentsParsed ==
  ASSUME NEW args \in Seq(Words)
  PROVE  LET o == ParseArguments(args)
             places == OptionPlaces(args)
             stops == Stops(args, places)
         IN  /\ stops = {} => /\ o.ends = "run"
                              /\ o.broadIpv4Enrichment = (\E i \in places : args[i] = "--broad-ipv4-enrichment")
                              /\ o.pcapPath = Given(args, places, "--pcap")
                              /\ o.packetFilter = Given(args, places, "--filter")
                              /\ o.sqlitePath = Given(args, places, "--sqlite")
                              /\ o.outputFormat = Given(args, places, "--output")
                              /\ o \in OptionSet
             /\ stops # {} => o.ends = EndFor(args[Min(stops)])
<1> DEFINE places == OptionPlaces(args)
           stops == Stops(args, places)
           n == Len(args)
<1>1. PlacesOf(args, places)
  BY PlacesExist DEF PlacesOf
<1>2. PICK g \in [0 .. n -> OptionSet] : Trace(ArgumentStep, NoOptions, args, g)
  BY ArgumentStepping, TraceExists
<1>3. FoldLeft(ReadArgument, NoOptions, args) = g[n]
  BY <1>2, ArgumentStepping, ArgumentsInSteps, StepsOfTrace
<1> DEFINE q == g[n]
<1>4. n \in Nat /\ n \in 0 .. n /\ q \in OptionSet
  BY <1>2
<1>5. ParseArguments(args) = IF q.awaiting # None THEN [q EXCEPT !.ends = "error"] ELSE q
  BY <1>3 DEF ParseArguments, NoOptions
<1> HIDE DEF places
<1>6. GoesOn(args, places, n, q) \/ HasEnded(args, places, n, q)
  BY <1>1, <1>2, <1>4, ReadsArguments
<1>7. stops \subseteq places /\ places \subseteq Nat /\ \A i \in places : i <= n /\ (i # n => i < n)
  <2>1. stops \subseteq places
    BY DEF Stops
  <2>2. places \subseteq 1 .. n
    BY <1>1 DEF PlacesOf
  <2> QED
    BY <1>4, <2>1, <2>2
<1> HIDE DEF q, n
<1>8. ASSUME HasEnded(args, places, n, q)
      PROVE  stops # {} /\ ParseArguments(args).ends = EndFor(args[Min(stops)])
  <2>1. PICK i \in Stopped(args, places, n) :
          (\A j \in stops : i <= j) /\ q.ends = EndFor(args[i]) /\ q.awaiting = None
    BY <1>8 DEF HasEnded
  <2>2. i \in stops
    BY DEF Stopped
  <2>3. Min(stops) = i
    <3>1. stops \subseteq Nat
      BY <1>7
    <3> HIDE DEF stops
    <3> QED
      BY <2>1, <2>2, <3>1, LeastOf
  <2> QED
    BY <1>5, <2>1, <2>2, <2>3
<1>9. ASSUME GoesOn(args, places, n, q), q.awaiting # None
      PROVE  stops # {} /\ ParseArguments(args).ends = EndFor(args[Min(stops)])
  <2>1. n \in places /\ args[n] \in ValueOptions
    BY <1>9 DEF GoesOn
  <2>2. n \in stops
    BY <2>1 DEF Stops, n
  <2>3. \A i \in stops : i = n
    <3>1. ASSUME NEW i \in stops, i # n PROVE FALSE
      <4>1. i \in Stopped(args, places, n)
        BY <1>7, <3>1 DEF Stopped
      <4> QED
        BY <1>9, <4>1 DEF GoesOn
    <3> QED
      BY <3>1
  <2>4. Min(stops) = n
    <3>1. n \in stops /\ stops \subseteq Nat /\ \A i \in stops : n <= i
      BY <1>4, <1>7, <2>2, <2>3
    <3> HIDE DEF stops
    <3> QED
      BY <3>1, LeastOf
  <2>5. ParseArguments(args).ends = "error"
    BY <1>4, <1>5, <1>9 DEF OptionSet
  <2>6. EndFor(args[n]) = "error"
    BY <2>1 DEF EndFor, ValueOptions
  <2> QED
    BY <2>2, <2>4, <2>5, <2>6
<1>10. ASSUME GoesOn(args, places, n, q), q.awaiting = None
       PROVE  /\ stops = {}
              /\ ParseArguments(args) = q
              /\ \A x \in ValueOptions : Upto(args, places, n, x) = Given(args, places, x)
              /\ q.broadIpv4Enrichment = (\E i \in places : args[i] = "--broad-ipv4-enrichment")
  <2>1. ~(n \in places /\ args[n] \in ValueOptions)
    <3>1. None \notin ValueOptions
      BY WordAssumption
    <3> QED
      BY <1>10, <3>1 DEF GoesOn
  <2>2. stops = {}
    <3>1. ASSUME NEW i \in stops PROVE FALSE
      <4>1. i \in places /\ i <= n /\ (i # n => i < n)
        BY <1>7
      <4>2. i \in Stopped(args, places, n)
        BY <2>1, <4>1 DEF Stopped
      <4> QED
        BY <1>10, <4>2 DEF GoesOn
    <3> QED
      BY <3>1
  <2>3. ASSUME NEW x \in ValueOptions PROVE Upto(args, places, n, x) = Given(args, places, x)
    <3>1. {i \in places : i < n /\ args[i] = x} = {i \in places : args[i] = x}
      BY <1>7, <2>1
    <3> QED
      BY <3>1 DEF Upto, Given
  <2> QED
    BY <1>5, <1>7, <1>10, <2>2, <2>3 DEF GoesOn
<1>11. {"--pcap", "--filter", "--sqlite", "--output"} = ValueOptions
  BY DEF ValueOptions
<1>12. CASE HasEnded(args, places, n, q) \/ q.awaiting # None
  <2>1. stops # {} /\ ParseArguments(args).ends = EndFor(args[Min(stops)])
    BY <1>6, <1>8, <1>9, <1>12
  <2> QED
    BY <2>1 DEF places
<1>13. CASE GoesOn(args, places, n, q) /\ q.awaiting = None
  <2>1. /\ q.ends = "run" /\ q.pcapPath = Given(args, places, "--pcap")
        /\ q.packetFilter = Given(args, places, "--filter")
        /\ q.sqlitePath = Given(args, places, "--sqlite") /\ q.outputFormat = Given(args, places, "--output")
    BY <1>10, <1>11, <1>13 DEF GoesOn
  <2>2. stops = {} /\ ParseArguments(args) = q
        /\ q.broadIpv4Enrichment = (\E i \in places : args[i] = "--broad-ipv4-enrichment")
    BY <1>10, <1>13
  <2> QED
    BY <1>4, <2>1, <2>2 DEF places
<1> QED
  BY <1>6, <1>12, <1>13

-----------------------------------------------------------------------------
(* What has been read of the YAML file.                                     *)

\* What has been read is always a patch.
LEMMA LineStepping == Stepping(LineStep, NoPatch, PatchSet, Lines)
<1>1. NoPatch \in PatchSet
  BY DEF NoPatch, PatchSet, Optional
<1>2. ASSUME NEW p \in PatchSet, NEW line \in Lines PROVE ReadLine(p, line) \in PatchSet
  BY DEF ReadLine, PatchSet, Optional, Lines
<1> QED
  BY <1>1, <1>2 DEF Stepping, LineStep

\* A line is a section or a format if it is written in one way.
LEMMA LineKinds ==
  ASSUME NEW line \in Lines
  PROVE  /\ IsSection(line) <=> line = Line(0, "output", TRUE, "")
         /\ IsOutputFormat("output", line) <=> line \in {Line(2, "format", TRUE, format) : format \in Formats}
         /\ ~(IsSection(line) /\ IsOutputFormat("output", line))
<1>1. line = [indent |-> line.indent, key |-> line.key, colon |-> line.colon, value |-> line.value]
      /\ line.colon \in BOOLEAN
  BY DEF Lines
<1>2. IsSection(line) <=> line = Line(0, "output", TRUE, "")
  <2>1. ASSUME IsSection(line) PROVE line = Line(0, "output", TRUE, "")
    <3>1. line.indent = 0 /\ line.key = "output" /\ line.colon = TRUE /\ line.value = ""
      BY <1>1, <2>1 DEF IsSection
    <3> QED
      BY <1>1, <3>1 DEF Line
  <2>2. ASSUME line = Line(0, "output", TRUE, "") PROVE IsSection(line)
    BY <2>2 DEF IsSection, Line
  <2> QED
    BY <2>1, <2>2
<1>3. IsOutputFormat("output", line) <=> line \in {Line(2, "format", TRUE, format) : format \in Formats}
  BY <1>1 DEF IsOutputFormat, Line
<1> QED
  BY <1>2, <1>3 DEF IsSection, IsOutputFormat

\* The first k lines.
LinesRead(lines, k, p) ==
  IF 1 .. k \subseteq SectionLines(lines) \cup FormatLines(lines)
  THEN /\ p.error = FALSE
       /\ p.section = IF \E i \in SectionLines(lines) : i <= k THEN "output" ELSE None
       /\ p.outputFormat = LET formats == {i \in FormatLines(lines) : i <= k}
                           IN  IF formats = {} THEN None ELSE lines[Max(formats)].value
  ELSE p.error = TRUE

\* A line more.
LEMMA ReadsLine ==
  ASSUME NEW lines \in Seq(Lines), NEW k \in 1 .. Len(lines), NEW p \in PatchSet,
         LinesRead(lines, k - 1, p)
  PROVE  LinesRead(lines, k, ReadLine(p, lines[k]))
<1> DEFINE S == SectionLines(lines)
           F == FormatLines(lines)
           q == ReadLine(p, lines[k])
           line == lines[k]
           some(n) == {i \in F : i <= n}
<1>0. /\ k \in Nat /\ k >= 1 /\ k \in DOMAIN lines /\ line \in Lines /\ DOMAIN lines \subseteq Nat
      /\ S \subseteq Nat /\ F \subseteq Nat
  <2>1. k \in Nat /\ k >= 1 /\ k \in DOMAIN lines /\ line \in Lines /\ DOMAIN lines \subseteq Nat
    OBVIOUS
  <2>2. S \subseteq DOMAIN lines
    BY DEF SectionLines
  <2>3. F \subseteq DOMAIN lines
    BY DEF FormatLines
  <2> QED
    BY <2>1, <2>2, <2>3
<1>1. \A i \in Nat : (i <= k <=> i <= k - 1 \/ i = k) /\ (i = k => ~(i <= k - 1))
  BY <1>0
<1>2. (1 .. k \subseteq S \cup F) <=> (1 .. (k - 1) \subseteq S \cup F /\ k \in S \cup F)
  <2>1. 1 .. k = 1 .. (k - 1) \cup {k}
    BY <1>0
  <2> QED
    BY <2>1
<1>3. CASE ~(1 .. (k - 1) \subseteq S \cup F)
  <2>1. p.error = TRUE
    BY <1>3 DEF LinesRead
  <2>2. q.error = TRUE
    BY <2>1 DEF ReadLine
  <2> QED
    BY <1>2, <1>3, <2>2 DEF LinesRead
<1>4. CASE 1 .. (k - 1) \subseteq S \cup F
  <2>1. /\ p.error = FALSE
        /\ p.section = IF \E i \in S : i <= k - 1 THEN "output" ELSE None
        /\ p.outputFormat = IF some(k - 1) = {} THEN None ELSE lines[Max(some(k - 1))].value
    BY <1>4 DEF LinesRead
  <2>2. "output" # None
    BY WordAssumption
  <2>3. k \in S <=> IsSection(line)
    BY <1>0, LineKinds DEF SectionLines
  <2>4. k \in F <=> IsOutputFormat("output", line) /\ \E i \in S : i <= k - 1
    <3>1. (\E i \in S : i < k) <=> (\E i \in S : i <= k - 1)
      BY <1>0
    <3> QED
      BY <1>0, <3>1, LineKinds DEF FormatLines
  <2>5. IsOutputFormat(p.section, line) <=> k \in F
    BY <2>1, <2>2, <2>4 DEF IsOutputFormat
  <2>6. CASE IsSection(line)
    <3>1. q = [p EXCEPT !.section = "output"]
      BY <2>1, <2>6 DEF ReadLine
    <3>2. k \notin F
      BY <1>0, <2>4, <2>6, LineKinds
    <3>3. some(k) = some(k - 1)
      BY <1>0, <1>1, <3>2
    <3>4. q.error = FALSE /\ q.section = "output" /\ q.outputFormat = p.outputFormat
      BY <2>1, <3>1 DEF PatchSet
    <3>5. \E i \in S : i <= k
      BY <1>0, <2>3, <2>6
    <3> HIDE DEF q
    <3>6. q.outputFormat = IF some(k) = {} THEN None ELSE lines[Max(some(k))].value
      BY <2>1, <3>3, <3>4
    <3> QED
      BY <1>2, <1>4, <2>3, <2>6, <3>4, <3>5, <3>6 DEF LinesRead, q
  <2>7. CASE ~IsSection(line) /\ k \in F
    <3>1. q = [p EXCEPT !.outputFormat = line.value]
      BY <2>1, <2>5, <2>7 DEF ReadLine
    <3>2. q.error = FALSE /\ q.section = p.section /\ q.outputFormat = line.value
      BY <2>1, <3>1 DEF PatchSet
    <3>3. k \in some(k) /\ some(k) \subseteq Nat /\ \A i \in some(k) : i <= k
      BY <1>0, <2>7
    <3>4. Max(some(k)) = k
      <4> HIDE DEF some
      <4> QED
        BY <3>3, GreatestOf
    <3>5. (\E i \in S : i <= k) <=> (\E i \in S : i <= k - 1)
      BY <1>0, <1>1, <2>3, <2>7
    <3> HIDE DEF q
    <3>6. q.section = IF \E i \in S : i <= k THEN "output" ELSE None
      BY <2>1, <3>2, <3>5
    <3>7. q.outputFormat = IF some(k) = {} THEN None ELSE lines[Max(some(k))].value
      BY <3>2, <3>3, <3>4
    <3> QED
      BY <1>2, <1>4, <2>7, <3>2, <3>6, <3>7 DEF LinesRead, q
  <2>8. CASE ~IsSection(line) /\ k \notin F
    <3>1. q = [p EXCEPT !.error = TRUE]
      BY <2>1, <2>5, <2>8 DEF ReadLine
    <3>2. q.error = TRUE
      BY <3>1 DEF PatchSet
    <3> QED
      BY <1>2, <2>3, <2>8, <3>2 DEF LinesRead
  <2> QED
    BY <2>6, <2>7, <2>8
<1> QED
  BY <1>3, <1>4

\* The file as a whole: it is refused for any line but a section and a format
\* under one, and the last format counts.
LEMMA FileLoaded ==
  ASSUME NEW lines \in Seq(Lines)
  PROVE  LET p == LoadConfigFile(lines)
             good == DOMAIN lines = SectionLines(lines) \cup FormatLines(lines)
         IN  p.error = ~good /\ (good => p.outputFormat = YamlFormat(lines))
<1> DEFINE n == Len(lines)
           S == SectionLines(lines)
           F == FormatLines(lines)
<1>0. n \in Nat /\ DOMAIN lines = 1 .. n /\ \A i \in 1 .. n : lines[i] \in Lines
  OBVIOUS
<1>1. S \subseteq 1 .. n /\ F \subseteq 1 .. n
  BY <1>0 DEF SectionLines, FormatLines
<1>2. PICK g \in [0 .. n -> PatchSet] : Trace(LineStep, NoPatch, lines, g)
  BY LineStepping, TraceExists
<1>3. LoadConfigFile(lines) = g[n]
  <2>1. FoldLeft(ReadLine, NoPatch, lines) = g[n]
    BY <1>2, LineStepping, LinesInSteps, StepsOfTrace
  <2> QED
    BY <2>1 DEF LoadConfigFile, NoPatch
<1> DEFINE G == {k \in Nat : k <= n => LinesRead(lines, k, g[k])}
<1>4. 0 \in G
  <2>1. g[0] = NoPatch
    BY <1>2 DEF Trace
  <2>2. 1 .. 0 = {} /\ (~\E i \in S : i <= 0) /\ {i \in F : i <= 0} = {}
    BY <1>0, <1>1
  <2>3. LinesRead(lines, 0, NoPatch)
    BY <2>2 DEF LinesRead, NoPatch
  <2> QED
    BY <2>1, <2>3
<1>5. ASSUME NEW m \in Nat, m \in G PROVE m + 1 \in G
  <2> SUFFICES ASSUME m + 1 <= n PROVE LinesRead(lines, m + 1, g[m + 1])
    BY <1>5
  <2> DEFINE k == m + 1
  <2>1. k \in 1 .. n /\ k - 1 = m /\ m \in 0 .. n /\ m <= n
    BY <1>0
  <2>2. g[k] = LineStep[g[m]][lines[k]] /\ g[m] \in PatchSet /\ lines[k] \in Lines
    BY <1>0, <1>2, <2>1 DEF Trace
  <2>3. g[k] = ReadLine(g[m], lines[k])
    BY <2>2 DEF LineStep
  <2>4. LinesRead(lines, k - 1, g[m])
    BY <1>5, <2>1
  <2> HIDE DEF k
  <2> QED
    BY <2>1, <2>2, <2>3, <2>4, ReadsLine DEF k
<1>6. n \in G
  <2> HIDE DEF G, n
  <2> QED
    BY <1>0, <1>4, <1>5, NatSetInduction
<1>7. LinesRead(lines, n, g[n])
  BY <1>0, <1>6
<1>8. (1 .. n \subseteq S \cup F) <=> DOMAIN lines = S \cup F
  BY <1>0, <1>1
<1>9. {i \in F : i <= n} = F
  BY <1>0, <1>1
<1> QED
  BY <1>3, <1>7, <1>8, <1>9 DEF LinesRead, YamlFormat

-----------------------------------------------------------------------------
(* The sources of a setting.                                                *)

\* The stronger of two.
LEMMA StrongestOfTwo ==
  ASSUME NEW a, NEW b
  PROVE  Strongest(<<a, b>>) = Or(a, b)
<1> DEFINE s == <<a, b>>
           some == {i \in DOMAIN s : s[i] # None}
<1>1. DOMAIN s = {1, 2} /\ s[1] = a /\ s[2] = b
  OBVIOUS
<1>2. some \subseteq {1, 2} /\ (1 \in some <=> a # None) /\ (2 \in some <=> b # None)
  <2> HIDE DEF s
  <2> QED
    BY <1>1
<1>3. Strongest(s) = IF some = {} THEN None ELSE s[Min(some)]
  BY DEF Strongest
<1> HIDE DEF s, some
<1>4. a # None => Min(some) = 1
  <2> SUFFICES ASSUME a # None PROVE Min(some) = 1
    OBVIOUS
  <2>1. 1 \in some /\ some \subseteq Nat /\ \A y \in some : 1 <= y
    BY <1>2
  <2> QED
    BY <2>1, LeastOf
<1>5. a = None /\ b # None => Min(some) = 2
  <2> SUFFICES ASSUME a = None, b # None PROVE Min(some) = 2
    OBVIOUS
  <2>1. 2 \in some /\ some \subseteq Nat /\ \A y \in some : 2 <= y
    BY <1>2
  <2> QED
    BY <2>1, LeastOf
<1>6. CASE a # None
  BY <1>1, <1>2, <1>3, <1>4, <1>6 DEF Or, s
<1>7. CASE a = None /\ b # None
  BY <1>1, <1>2, <1>3, <1>5, <1>7 DEF Or, s
<1>8. CASE a = None /\ b = None
  <2>1. some = {}
    BY <1>2, <1>8
  <2> QED
    BY <1>3, <1>8, <2>1 DEF Or, s
<1> QED
  BY <1>6, <1>7, <1>8

\* The strongest of three.
LEMMA StrongestOfThree ==
  ASSUME NEW a, NEW b, NEW c
  PROVE  Strongest(<<a, b, c>>) = Or(a, Or(b, c))
<1> DEFINE s == <<a, b, c>>
           some == {i \in DOMAIN s : s[i] # None}
<1>1. DOMAIN s = {1, 2, 3} /\ s[1] = a /\ s[2] = b /\ s[3] = c
  OBVIOUS
<1>2. /\ some \subseteq {1, 2, 3}
      /\ (1 \in some <=> a # None) /\ (2 \in some <=> b # None) /\ (3 \in some <=> c # None)
  <2> HIDE DEF s
  <2> QED
    BY <1>1
<1>3. Strongest(s) = IF some = {} THEN None ELSE s[Min(some)]
  BY DEF Strongest
<1> HIDE DEF s, some
<1>4. a # None => Min(some) = 1
  <2> SUFFICES ASSUME a # None PROVE Min(some) = 1
    OBVIOUS
  <2>1. 1 \in some /\ some \subseteq Nat /\ \A y \in some : 1 <= y
    BY <1>2
  <2> QED
    BY <2>1, LeastOf
<1>5. a = None /\ b # None => Min(some) = 2
  <2> SUFFICES ASSUME a = None, b # None PROVE Min(some) = 2
    OBVIOUS
  <2>1. 2 \in some /\ some \subseteq Nat /\ \A y \in some : 2 <= y
    BY <1>2
  <2> QED
    BY <2>1, LeastOf
<1>6. a = None /\ b = None /\ c # None => Min(some) = 3
  <2> SUFFICES ASSUME a = None, b = None, c # None PROVE Min(some) = 3
    OBVIOUS
  <2>1. 3 \in some /\ some \subseteq Nat /\ \A y \in some : 3 <= y
    BY <1>2
  <2> QED
    BY <2>1, LeastOf
<1>7. CASE a # None
  BY <1>1, <1>2, <1>3, <1>4, <1>7 DEF Or, s
<1>8. CASE a = None /\ b # None
  BY <1>1, <1>2, <1>3, <1>5, <1>8 DEF Or, s
<1>9. CASE a = None /\ b = None /\ c # None
  BY <1>1, <1>2, <1>3, <1>6, <1>9 DEF Or, s
<1>10. CASE a = None /\ b = None /\ c = None
  <2>1. some = {}
    BY <1>2, <1>10
  <2> QED
    BY <1>3, <1>10, <2>1 DEF Or, s
<1> QED
  BY <1>7, <1>8, <1>9, <1>10

\* What an invocation is made of.
Invoked(i) ==
  /\ i.args \in Seq(Words)
  /\ i.environment \in Words \cup {None} /\ i.dotEnv \in Seq(Words) /\ i.yaml \in Seq(Lines)

\* The path in the environment, the .env file included.
LEMMA EnvironmentResolved ==
  ASSUME Invoked(invocation)
  PROVE  EnvironmentPath = ResolveSqlitePath(LoadDotEnvFile(invocation.environment, invocation.dotEnv))
<1> DEFINE given == invocation.environment
           lines == invocation.dotEnv
           first == IF lines = <<>> THEN None ELSE lines[1]
<1>1. lines # <<>> => lines[1] = Head(lines)
  BY DEF Invoked
<1>2. Or(given, first) = LoadDotEnvFile(given, lines)
  BY <1>1 DEF Or, LoadDotEnvFile
<1>3. Strongest(<<given, first>>) = LoadDotEnvFile(given, lines)
  <2> HIDE DEF given, first, lines
  <2> QED
    BY <1>2, StrongestOfTwo
<1> QED
  BY <1>3 DEF EnvironmentPath, ResolveSqlitePath

\* The settings that buildAppConfig puts together, and when it refuses them.
LEMMA ConfigBuilt ==
  ASSUME Invoked(invocation), Stops(invocation.args, OptionPlaces(invocation.args)) = {}
  PROVE  LET args == invocation.args
             places == OptionPlaces(args)
             config == BuildAppConfig(ParseArguments(args), EnvironmentPath, invocation.yaml)
         IN  /\ config.error \in BOOLEAN
             /\ config.error <=> Unusable(args, places)
             /\ ~Unusable(args, places) => config = Settings(args, places)
<1> DEFINE args == invocation.args
           lines == invocation.yaml
           places == OptionPlaces(args)
           o == ParseArguments(args)
           p == LoadConfigFile(lines)
           config == BuildAppConfig(o, EnvironmentPath, lines)
           good == DOMAIN lines = SectionLines(lines) \cup FormatLines(lines)
<1>1. args \in Seq(Words) /\ lines \in Seq(Lines)
  BY DEF Invoked
<1>2. /\ o.broadIpv4Enrichment = (\E i \in places : args[i] = "--broad-ipv4-enrichment")
      /\ o.pcapPath = Given(args, places, "--pcap")
      /\ o.packetFilter = Given(args, places, "--filter")
      /\ o.sqlitePath = Given(args, places, "--sqlite")
      /\ o.outputFormat = Given(args, places, "--output")
  BY <1>1, ArgumentsParsed
<1>3. p.error = ~good /\ (good => p.outputFormat = YamlFormat(lines))
  BY <1>1, FileLoaded
<1>4. Settings(args, places).packetFilter = Or(FilterOfOptions(o), "default")
  <2>1. Settings(args, places).packetFilter
          = Or(Given(args, places, "--filter"), Or(Broad(args, places), "default"))
    BY StrongestOfThree DEF Settings
  <2>2. None # "broad"
    BY WordAssumption
  <2> QED
    BY <1>2, <2>1, <2>2 DEF Or, FilterOfOptions, Broad
<1>5. Settings(args, places).outputFormat
        = Or(Given(args, places, "--output"), Or(YamlFormat(lines), "json"))
  BY StrongestOfThree DEF Settings
<1>6. Settings(args, places).sqlitePath = Or(Given(args, places, "--sqlite"), EnvironmentPath)
  BY StrongestOfTwo DEF Settings
<1>7. Settings(args, places).pcapPath = Given(args, places, "--pcap")
  BY DEF Settings
<1>8. Settings(args, places)
        = [pcapPath |-> Settings(args, places).pcapPath,
           packetFilter |-> Settings(args, places).packetFilter,
           outputFormat |-> Settings(args, places).outputFormat,
           sqlitePath |-> Settings(args, places).sqlitePath,
           error |-> FALSE]
  BY DEF Settings
<1>9. config = [pcapPath |-> o.pcapPath,
                packetFilter |-> Or(FilterOfOptions(o), "default"),
                outputFormat |-> Or(o.outputFormat, Or(p.outputFormat, "json")),
                sqlitePath |-> Or(o.sqlitePath, EnvironmentPath),
                error |-> config.error]
      /\ config.error = (\/ p.error
                         \/ o.pcapPath = None
                         \/ EnvironmentPath = None /\ o.sqlitePath = None)
  BY DEF BuildAppConfig
<1> HIDE DEF config, o, p
<1>10. config.error <=> Unusable(args, places)
  <2>1. Settings(args, places).sqlitePath = None <=> EnvironmentPath = None /\ o.sqlitePath = None
    BY <1>2, <1>6 DEF Or
  <2> QED
    BY <1>2, <1>3, <1>7, <1>9, <2>1 DEF Unusable
<1>11. ASSUME ~Unusable(args, places) PROVE config = Settings(args, places)
  <2>1. good /\ config.error = FALSE
    BY <1>9, <1>10, <1>11 DEF Unusable
  <2> QED
    BY <1>2, <1>3, <1>4, <1>5, <1>6, <1>7, <1>8, <1>9, <2>1
<1>12. config.error \in BOOLEAN
  BY <1>9
<1> QED
  BY <1>10, <1>11, <1>12 DEF config, o

-----------------------------------------------------------------------------
(* The run.                                                                *)

\* Nothing is configured before the start.
NotConfigured == cli = "starting" => exitCode = None /\ appConfig = None

SettingsInv == invocation \in Invocations /\ NotConfigured /\ SettingsPrecedence

\* The settings of a run and the places they come from.
LEMMA ConfigurePrecedence ==
  ASSUME Invoked(invocation), NotConfigured, Configure
  PROVE  SettingsPrecedence'
<1> DEFINE args == invocation.args
           places == OptionPlaces(args)
           stops == Stops(args, places)
           o == ParseArguments(args)
           code == IF args[Min(stops)] \in {"--help", "-h", "--version"} THEN 0 ELSE 2
           environment == ResolveSqlitePath(LoadDotEnvFile(invocation.environment, invocation.dotEnv))
           config == BuildAppConfig(o, EnvironmentPath, invocation.yaml)
<1>1. exitCode = None /\ appConfig = None /\ invocation' = invocation
  BY DEF Configure, NotConfigured
<1>2. environment = EnvironmentPath
  BY EnvironmentResolved
<1>3. IF o.ends \in {"help", "version"} THEN cli' = "gone" /\ exitCode' = 0
      ELSE IF o.ends = "error" THEN cli' = "gone" /\ exitCode' = 2
      ELSE /\ appConfig' = config
           /\ IF appConfig'.error THEN cli' = "gone" /\ exitCode' = 2
              ELSE exitCode' = exitCode
  BY <1>2 DEF Configure, Exit
<1>4. SettingsPrecedence' <=>
        (cli' # "starting" =>
          IF stops # {} THEN cli' = "gone" /\ exitCode' \in {None, code}
          ELSE IF Unusable(args, places) THEN cli' = "gone" /\ exitCode' \in {None, 2}
          ELSE exitCode' # 2 /\ appConfig' \in {None, Settings(args, places)})
  BY <1>1 DEF SettingsPrecedence, Unusable, Settings, EnvironmentPath
<1>5. args \in Seq(Words)
  BY DEF Invoked
<1>6. CASE stops # {}
  <2>1. o.ends = EndFor(args[Min(stops)])
    BY <1>5, <1>6, ArgumentsParsed
  <2>2. CASE code = 0
    <3>1. o.ends \in {"help", "version"}
      BY <2>1, <2>2 DEF EndFor
    <3> HIDE DEF o, stops
    <3> QED
      BY <1>3, <1>4, <1>6, <2>2, <3>1
  <2>3. CASE code = 2
    <3>1. o.ends = "error"
      BY <2>1, <2>3 DEF EndFor
    <3> HIDE DEF o, stops
    <3> QED
      BY <1>3, <1>4, <1>6, <2>3, <3>1
  <2> QED
    BY <2>2, <2>3
<1>7. CASE stops = {}
  <2>1. o.ends = "run"
    BY <1>5, <1>7, ArgumentsParsed
  <2>2. /\ config.error \in BOOLEAN /\ (config.error <=> Unusable(args, places))
        /\ ~Unusable(args, places) => config = Settings(args, places)
    BY <1>7, ConfigBuilt
  <2>3. 2 # None
    BY NoneAssumption
  <2> HIDE DEF o, stops, config, places, args
  <2> QED
    BY <1>1, <1>3, <1>4, <1>7, <2>1, <2>2, <2>3
<1> QED
  BY <1>6, <1>7

\* The rest of the run keeps to what was configured.
LEMMA RestPrecedence ==
  ASSUME SettingsPrecedence, cli # "starting", invocation' = invocation, appConfig' = appConfig,
         \/ cli' = cli /\ exitCode' = exitCode
         \/ cli # "gone" /\ cli' # "starting" /\ exitCode' \in {exitCode, 0, 3, 4}
  PROVE  SettingsPrecedence'
<1> DEFINE args == invocation.args
           places == OptionPlaces(args)
           stops == Stops(args, places)
           code == IF args[Min(stops)] \in {"--help", "-h", "--version"} THEN 0 ELSE 2
<1>1. IF stops # {} THEN cli = "gone" /\ exitCode \in {None, code}
      ELSE IF Unusable(args, places) THEN cli = "gone" /\ exitCode \in {None, 2}
      ELSE exitCode # 2 /\ appConfig \in {None, Settings(args, places)}
  BY DEF SettingsPrecedence
<1>2. SettingsPrecedence' <=>
        (cli' # "starting" =>
          IF stops # {} THEN cli' = "gone" /\ exitCode' \in {None, code}
          ELSE IF Unusable(args, places) THEN cli' = "gone" /\ exitCode' \in {None, 2}
          ELSE exitCode' # 2 /\ appConfig' \in {None, Settings(args, places)})
  BY DEF SettingsPrecedence, Unusable, Settings, EnvironmentPath
<1> HIDE DEF stops, code, places, args
<1> QED
  BY <1>1, <1>2

\* A run that is killed at its start has no settings.
LEMMA KilledPrecedence ==
  ASSUME SettingsInv, Killed
  PROVE  SettingsPrecedence'
<1>1. CASE cli # "starting"
  BY <1>1, RestPrecedence DEF Killed, SettingsInv
<1>2. CASE cli = "starting"
  <2>1. exitCode' = None /\ appConfig' = None /\ cli' = "gone"
    BY <1>2 DEF Killed, SettingsInv, NotConfigured
  <2>2. None # 2
    BY NoneAssumption
  <2> QED
    BY <2>1, <2>2 DEF SettingsPrecedence
<1> QED
  BY <1>1, <1>2

\* For every command line, environment and pair of files: the settings of the
\* run are those of their strongest sources, and it ends before the database
\* is opened where they are refused (SettingsPrecedence; parseArguments,
\* loadDotEnvFile, loadConfigFile and buildAppConfig).
THEOREM SettingsOfEveryInvocation == Spec => []SettingsPrecedence
<1>1. Init => SettingsInv
  BY DEF Init, CliInit, SettingsInv, NotConfigured, SettingsPrecedence
<1>2. SettingsInv /\ [Next]_vars => SettingsInv'
  <2> SUFFICES ASSUME SettingsInv, [Next]_vars PROVE SettingsInv'
    OBVIOUS
  <2>1. Invoked(invocation)
    BY InvocationAssumption DEF Invoked, SettingsInv
  <2>2. ASSUME UNCHANGED cliState PROVE SettingsInv'
    <3>1. invocation' = invocation /\ cli' = cli /\ exitCode' = exitCode /\ appConfig' = appConfig
      BY <2>2 DEF cliState
    <3> QED
      BY <3>1, RestPrecedence DEF SettingsInv, NotConfigured, SettingsPrecedence
  <2>3. CASE Configure
    <3>1. invocation' = invocation /\ cli' # "starting"
      BY <2>3 DEF Configure, Exit
    <3> QED
      BY <2>1, <2>3, <3>1, ConfigurePrecedence DEF SettingsInv, NotConfigured
  <2>4. CASE Killed
    BY <2>4, KilledPrecedence DEF SettingsInv, Killed, NotConfigured
  <2>5. ASSUME invocation' = invocation, appConfig' = appConfig, cli \notin {"starting", "gone"},
               cli' # "starting", exitCode' \in {exitCode, 0, 3, 4}
        PROVE  SettingsInv'
    BY <2>5, RestPrecedence DEF SettingsInv, NotConfigured
  <2>6. CASE OpenDatabase
    BY <2>5, <2>6 DEF OpenDatabase, Exit
  <2>7. CASE ReadPcapFile
    BY <2>5, <2>7 DEF ReadPcapFile
  <2>8. CASE WriteAssets
    BY <2>5, <2>8 DEF WriteAssets
  <2>9. CASE Render
    BY <2>5, <2>9 DEF Render, Exit
  <2>10. CASE PcapError
    BY <2>5, <2>10 DEF PcapError, Fails, Exit
  <2>11. CASE DatabaseError
    BY <2>5, <2>11 DEF DatabaseError, Fails, Exit
  <2>12. ASSUME NEW packet \in invocation.packets, ProcessPacket(packet[1], packet[2])
         PROVE  SettingsInv'
    BY <2>5, <2>12 DEF ProcessPacket
  <2>13. CASE CliNext
    BY <2>3, <2>4, <2>6, <2>7, <2>8, <2>9, <2>10, <2>11, <2>12, <2>13 DEF CliNext
  <2>14. CASE UNCHANGED vars
    BY <2>2, <2>14 DEF vars
  <2> QED
    BY <2>2, <2>13, <2>14 DEF Next
<1> QED
  BY <1>1, <1>2, PTL DEF Spec, SettingsInv
=============================================================================
