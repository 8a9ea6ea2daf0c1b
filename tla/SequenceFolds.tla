---------------------------- MODULE SequenceFolds ----------------------------
(***************************************************************************)
(* What the folds of SequencesExt compute, for sequences of any length.      *)
(*                                                                         *)
(* A lemma that takes an operator cannot be applied, so everything is stated *)
(* of a function `step` of a value and an element.  Steps(step, base, s) is  *)
(* what base becomes along s; a fold is shown to be its Steps once, where it  *)
(* is used.                                                                 *)
(***************************************************************************)
EXTENDS Integers, SequencesExt, SequenceTheorems, WellFoundedInduction, TLAPS

-----------------------------------------------------------------------------
(* Induction.                                                              *)

\* A set of natural numbers that is not empty has a least element.
LEMMA LeastNatural ==
  ASSUME NEW T \in SUBSET Nat, T # {}
  PROVE  \E n \in T : \A m \in T : n <= m
<1> DEFINE R == OpToRel(<, Nat)
<1>1. IsWellFoundedOn(R, Nat)
  BY NatLessThanWellFounded
<1>2. \A x, y \in Nat : <<x, y>> \in R <=> x < y
  BY DEF OpToRel
<1> HIDE DEF R
<1>3. PICK x \in T : \A y \in T : ~ (<<y, x>> \in R)
  BY <1>1, WFMin
<1>4. ASSUME NEW y \in T PROVE x <= y
  <2>1. x \in Nat /\ y \in Nat /\ ~ (<<y, x>> \in R)
    BY <1>3
  <2>2. ~ (y < x)
    BY <1>2, <2>1
  <2> QED
    BY <2>1, <2>2
<1> QED
  BY <1>4

\* A set with 0, and with the successor of each of its numbers, has them all.
LEMMA NatSetInduction ==
  ASSUME NEW G, 0 \in G, \A n \in Nat : n \in G => n + 1 \in G
  PROVE  Nat \subseteq G
<1> SUFFICES ASSUME Nat \ G # {} PROVE FALSE
  OBVIOUS
<1>1. PICK n \in Nat \ G : \A m \in Nat \ G : n <= m
  BY LeastNatural
<1>2. n # 0 /\ n - 1 \in Nat
  BY <1>1
<1>3. n - 1 \in G
  BY <1>1, <1>2
<1> QED
  BY <1>1, <1>2, <1>3

\* A set with 0, and with a number if it has all that are less.
LEMMA NatSetStrongInduction ==
  ASSUME NEW G, \A n \in Nat : (\A m \in 0 .. (n - 1) : m \in G) => n \in G
  PROVE  Nat \subseteq G
<1> SUFFICES ASSUME Nat \ G # {} PROVE FALSE
  OBVIOUS
<1>1. PICK n \in Nat \ G : \A m \in Nat \ G : n <= m
  BY LeastNatural
<1>2. \A m \in 0 .. (n - 1) : m \in G
  BY <1>1
<1> QED
  BY <1>1, <1>2

\* A set with the empty sequence, and with each of its sequences a longer one.
LEMMA SeqSetInduction ==
  ASSUME NEW S, NEW G, <<>> \in G, \A s \in Seq(S), x \in S : s \in G => Append(s, x) \in G
  PROVE  Seq(S) \subseteq G
<1> DEFINE H == {n \in Nat : \A s \in Seq(S) : Len(s) = n => s \in G}
<1>1. 0 \in H
  <2>1. \A s \in Seq(S) : Len(s) = 0 => s = <<>>
    BY EmptySeq
  <2> QED
    BY <2>1
<1>2. ASSUME NEW n \in Nat, n \in H PROVE n + 1 \in H
  <2> SUFFICES ASSUME NEW s \in Seq(S), Len(s) = n + 1 PROVE s \in G
    OBVIOUS
  <2>1. s # <<>>
    OBVIOUS
  <2>2. PICK r \in Seq(S), x \in S : s = Append(r, x)
    BY <2>1, SequenceEmptyOrAppend
  <2>3. Len(r) = n
    BY <2>2
  <2> QED
    BY <1>2, <2>2, <2>3
<1>3. Nat \subseteq H
  <2> HIDE DEF H
  <2> QED
    BY <1>1, <1>2, NatSetInduction
<1>4. ASSUME NEW s \in Seq(S) PROVE s \in G
  <2>1. Len(s) \in H
    BY <1>3
  <2> QED
    BY <2>1
<1> QED
  BY <1>4

-----------------------------------------------------------------------------
(* Steps.                                                                  *)

\* The next value, of a value and an element.
Stepping(step, base, T, S) == base \in T /\ step \in [T -> [S -> T]]

\* The values along s.
Trace(step, base, s, g) ==
  /\ DOMAIN g = 0 .. Len(s)
  /\ g[0] = base
  /\ \A k \in 1 .. Len(s) : g[k] = step[g[k - 1]][s[k]]

Steps(step, base, s) == (CHOOSE g : Trace(step, base, s, g))[Len(s)]

\* There is one trace, and all its values are of the type of the step.
LEMMA TraceExists ==
  ASSUME NEW T, NEW S, NEW base, NEW step, Stepping(step, base, T, S), NEW s \in Seq(S)
  PROVE  \E g \in [0 .. Len(s) -> T] : Trace(step, base, s, g)
<1> DEFINE G == {r \in Seq(S) : \E g \in [0 .. Len(r) -> T] : Trace(step, base, r, g)}
<1>1. <<>> \in G
  <2> DEFINE g == [k \in 0 .. Len(<<>>) |-> base]
  <2>1. g \in [0 .. Len(<<>>) -> T] /\ Trace(step, base, <<>>, g)
    BY DEF Trace, Stepping
  <2> QED
    BY <2>1
<1>2. ASSUME NEW r \in Seq(S), NEW x \in S, r \in G PROVE Append(r, x) \in G
  <2>1. PICK h \in [0 .. Len(r) -> T] : Trace(step, base, r, h)
    BY <1>2
  <2> DEFINE n == Len(r) + 1
             a == Append(r, x)
             g == [k \in 0 .. n |-> IF k = n THEN step[h[Len(r)]][x] ELSE h[k]]
  <2>2. a \in Seq(S) /\ Len(a) = n /\ Len(r) \in Nat /\ \A k \in 1 .. Len(r) : a[k] = r[k] 
    OBVIOUS
  <2>3. a[n] = x
    OBVIOUS
  <2>4. g \in [0 .. n -> T]
    <3>1. step[h[Len(r)]][x] \in T
      <4>1. h[Len(r)] \in T
        BY <2>2
      <4> QED
        BY <4>1 DEF Stepping
    <3> QED
      BY <2>2, <3>1
  <2>5. g[0] = base
    BY <2>1, <2>2 DEF Trace
  <2>6. ASSUME NEW k \in 1 .. n PROVE g[k] = step[g[k - 1]][a[k]]
    <3>1. k \in 0 .. n /\ k - 1 \in 0 .. n /\ k - 1 # n /\ g[k - 1] = h[k - 1]
      BY <2>2
    <3>2. CASE k = n
      <4>1. g[k] = step[h[Len(r)]][x] /\ k - 1 = Len(r)
        BY <3>1, <3>2, <2>2
      <4> QED
        BY <4>1, <3>1, <3>2, <2>3
    <3>3. CASE k # n
      <4>1. k \in 1 .. Len(r) /\ g[k] = h[k] /\ a[k] = r[k]
        BY <3>1, <3>3, <2>2
      <4> QED
        BY <4>1, <3>1, <2>1 DEF Trace
    <3> QED
      BY <3>2, <3>3
  <2>7. DOMAIN g = 0 .. n
    OBVIOUS
  <2> HIDE DEF g, a
  <2>8. Trace(step, base, a, g) /\ g \in [0 .. Len(a) -> T]
    BY <2>2, <2>4, <2>5, <2>6, <2>7 DEF Trace
  <2>9. a \in G
    BY <2>2, <2>8
  <2> QED
    BY <2>9 DEF a
<1>3. Seq(S) \subseteq G
  <2> HIDE DEF G
  <2> QED
    BY <1>1, <1>2, SeqSetInduction
<1> QED
  BY <1>3

\* There is one trace at most.
LEMMA TraceUnique ==
  ASSUME NEW step, NEW base, NEW S, NEW s \in Seq(S), NEW g, NEW h,
         Trace(step, base, s, g), Trace(step, base, s, h)
  PROVE  \A k \in 0 .. Len(s) : g[k] = h[k]
<1> DEFINE G == {k \in Nat : k <= Len(s) => g[k] = h[k]}
<1>1. 0 \in G
  BY DEF Trace
<1>2. ASSUME NEW k \in Nat, k \in G PROVE k + 1 \in G
  <2> SUFFICES ASSUME k + 1 <= Len(s) PROVE g[k + 1] = h[k + 1]
    OBVIOUS
  <2>1. k + 1 \in 1 .. Len(s) /\ (k + 1) - 1 = k /\ g[k] = h[k]
    BY <1>2
  <2> QED
    BY <2>1 DEF Trace
<1>3. Nat \subseteq G
  <2> HIDE DEF G
  <2> QED
    BY <1>1, <1>2, NatSetInduction
<1> QED
  BY <1>3

\* The steps are those of any trace.
LEMMA StepsOfTrace ==
  ASSUME NEW step, NEW base, NEW S, NEW s \in Seq(S), NEW g, Trace(step, base, s, g)
  PROVE  Steps(step, base, s) = g[Len(s)]
<1> DEFINE h == CHOOSE h : Trace(step, base, s, h)
<1>1. Trace(step, base, s, h)
  BY Zenon
<1>2. Steps(step, base, s) = h[Len(s)]
  BY DEF Steps
<1> HIDE DEF h
<1>3. Len(s) \in 0 .. Len(s)
  OBVIOUS
<1> QED
  BY <1>1, <1>2, <1>3, TraceUnique

\* A step is taken after the others.
LEMMA StepsEmpty ==
  ASSUME NEW T, NEW S, NEW base, NEW step, Stepping(step, base, T, S)
  PROVE  Steps(step, base, <<>>) = base
<1>1. <<>> \in Seq(S) /\ Len(<<>>) = 0
  OBVIOUS
<1>2. PICK g \in [0 .. Len(<<>>) -> T] : Trace(step, base, <<>>, g)
  BY <1>1, TraceExists
<1>3. g[0] = base
  BY <1>2 DEF Trace
<1> QED
  BY <1>1, <1>2, <1>3, StepsOfTrace

\* What the steps lead to has their type.
LEMMA StepsType ==
  ASSUME NEW T, NEW S, NEW base, NEW step, Stepping(step, base, T, S), NEW s \in Seq(S)
  PROVE  Steps(step, base, s) \in T
<1>1. PICK g \in [0 .. Len(s) -> T] : Trace(step, base, s, g)
  BY TraceExists
<1>2. Steps(step, base, s) = g[Len(s)]
  BY <1>1, StepsOfTrace
<1> QED
  BY <1>2

\* An element more is a step more.
LEMMA StepsAppend ==
  ASSUME NEW T, NEW S, NEW base, NEW step, Stepping(step, base, T, S), NEW s \in Seq(S), NEW x \in S
  PROVE  Steps(step, base, Append(s, x)) = step[Steps(step, base, s)][x]
<1> DEFINE a == Append(s, x)
           n == Len(s)
<1>1. a \in Seq(S) /\ Len(a) = n + 1 /\ a[n + 1] = x /\ n \in Nat /\ \A k \in 1 .. n : a[k] = s[k]
  OBVIOUS
<1> HIDE DEF a
<1>2. PICK g \in [0 .. Len(a) -> T] : Trace(step, base, a, g)
  BY <1>1, TraceExists
<1> DEFINE h == [k \in 0 .. n |-> g[k]]
<1>3. Trace(step, base, s, h)
  <2>1. DOMAIN h = 0 .. n /\ h[0] = base
    BY <1>1, <1>2 DEF Trace
  <2>2. ASSUME NEW k \in 1 .. n PROVE h[k] = step[h[k - 1]][s[k]]
    <3>1. k \in 0 .. n /\ k - 1 \in 0 .. n /\ k \in 1 .. Len(a) /\ a[k] = s[k]
      BY <1>1
    <3>2. g[k] = step[g[k - 1]][a[k]]
      BY <3>1, <1>2 DEF Trace
    <3> QED
      BY <3>1, <3>2
  <2> HIDE DEF h
  <2> QED
    BY <2>1, <2>2 DEF Trace
<1>4. Steps(step, base, s) = g[n]
  <2>1. Steps(step, base, s) = h[n]
    <3> HIDE DEF h
    <3> QED
      BY <1>3, StepsOfTrace
  <2> QED
    BY <2>1, <1>1
<1>5. Steps(step, base, a) = g[n + 1]
  BY <1>1, <1>2, StepsOfTrace
<1>6. g[n + 1] = step[g[(n + 1) - 1]][a[n + 1]]
  BY <1>1, <1>2 DEF Trace
<1>7. (n + 1) - 1 = n
  BY <1>1
<1> QED
  BY <1>1, <1>4, <1>5, <1>6, <1>7 DEF a

\* Two sequences in turn.
LEMMA StepsConcat ==
  ASSUME NEW T, NEW S, NEW base, NEW step, Stepping(step, base, T, S), NEW s \in Seq(S), NEW t \in Seq(S)
  PROVE  Steps(step, base, s \o t) = Steps(step, Steps(step, base, s), t)
<1> DEFINE m == Steps(step, base, s)
           G == {r \in Seq(S) : Steps(step, base, s \o r) = Steps(step, m, r)}
<1>0. m \in T /\ Stepping(step, m, T, S)
  BY StepsType DEF Stepping
<1> HIDE DEF m
<1>1. <<>> \in G
  <2> DEFINE q == s \o <<>>
  <2>1. q = s /\ <<>> \in Seq(S)
    OBVIOUS
  <2>2. Steps(step, m, <<>>) = m
    BY <1>0, StepsEmpty
  <2> HIDE DEF q
  <2>3. Steps(step, base, q) = m
    BY <2>1 DEF m
  <2> QED
    BY <2>1, <2>2, <2>3 DEF q
<1>2. ASSUME NEW r \in Seq(S), NEW x \in S, r \in G PROVE Append(r, x) \in G
  <2> DEFINE q == s \o r
             a == Append(r, x)
  <2>1. s \o a = Append(q, x) /\ q \in Seq(S) /\ a \in Seq(S)
    OBVIOUS
  <2>2. Steps(step, base, q) = Steps(step, m, r)
    BY <1>2
  <2>3. Steps(step, m, a) = step[Steps(step, m, r)][x]
    BY <1>0, StepsAppend
  <2> HIDE DEF q, a
  <2>4. Steps(step, base, Append(q, x)) = step[Steps(step, base, q)][x]
    BY <2>1, StepsAppend
  <2>5. Steps(step, base, s \o a) = Steps(step, m, a)
    BY <2>1, <2>2, <2>3, <2>4
  <2> QED
    BY <2>1, <2>5 DEF a
<1>3. Seq(S) \subseteq G
  <2> HIDE DEF G
  <2> QED
    BY <1>1, <1>2, SeqSetInduction
<1> QED
  BY <1>3 DEF m

-----------------------------------------------------------------------------
(* FoldLeft goes through the subsets of the domain: from the empty set, the   *)
(* largest index of a set comes last.                                       *)

\* An upper bound that is in the set is its maximum.
LEMMA MaxOfInitial ==
  ASSUME NEW n \in Nat \ {0}, NEW t \in SUBSET (1 .. n), n \in t
  PROVE  Max(t) = n
<1>1. \A x \in t : x \in Nat /\ n >= x
  OBVIOUS
<1>2. \E x \in t : \A y \in t : x >= y
  BY <1>1
<1> DEFINE m == Max(t)
<1>3. m \in t /\ \A y \in t : m >= y
  BY <1>2 DEF Max
<1> HIDE DEF m
<1>4. m \in Nat /\ n >= m /\ m >= n
  BY <1>1, <1>3
<1>5. m = n
  BY <1>4
<1> QED
  BY <1>5 DEF m

\* A set of indices holds its maximum.
LEMMA MaxOfIndices ==
  ASSUME NEW n \in Nat, NEW t \in SUBSET (1 .. n), t # {}
  PROVE  Max(t) \in t
<1> DEFINE Above == {m \in Nat : \A x \in t : m >= x}
<1>1. Above # {} /\ Above \in SUBSET Nat
  <2>1. n \in Above
    OBVIOUS
  <2> QED
    BY <2>1
<1>2. PICK m \in Above : \A k \in Above : m <= k
  BY <1>1, LeastNatural
<1>3. m \in t
  <2> SUFFICES ASSUME m \notin t PROVE FALSE
    OBVIOUS
  <2>1. \A x \in t : x \in Nat /\ x >= 1 /\ m > x
    BY <1>2
  <2>2. PICK x \in t : TRUE
    OBVIOUS
  <2>3. m \in Nat /\ m - 1 \in Nat /\ \A y \in t : m - 1 >= y
    BY <2>1, <2>2
  <2>4. m - 1 \in Above
    BY <2>3
  <2> QED
    BY <1>2, <2>3, <2>4
<1>4. \E x \in t : \A y \in t : x >= y
  BY <1>2, <1>3
<1> QED
  BY <1>4 DEF Max

\* What a fold looks up.
LEMMA FoldIndices ==
  ASSUME NEW S, NEW s \in Seq(S)
  PROVE  /\ DOMAIN s = 1 .. Len(s)
         /\ \A t \in SUBSET (1 .. Len(s)) : t # {} => s[Max(t)] \in S
         /\ \A n \in 1 .. Len(s) : 1 .. n \in SUBSET (1 .. Len(s)) /\ 1 .. n # {}
<1>1. Len(s) \in Nat /\ DOMAIN s = 1 .. Len(s) /\ \A i \in 1 .. Len(s) : s[i] \in S
  OBVIOUS
<1>2. ASSUME NEW t \in SUBSET (1 .. Len(s)), t # {} PROVE s[Max(t)] \in S
  <2>1. Max(t) \in t
    BY <1>1, <1>2, MaxOfIndices
  <2> QED
    BY <1>1, <2>1
<1>3. ASSUME NEW n \in 1 .. Len(s) PROVE 1 .. n \in SUBSET (1 .. Len(s)) /\ 1 .. n # {}
  <2>1. 1 \in 1 .. n /\ \A i \in 1 .. n : i \in 1 .. Len(s)
    BY <1>1
  <2>2. 1 .. n # {}
    BY <2>1
  <2> QED
    BY <2>1, <2>2
<1> QED
  BY <1>1, <1>2, <1>3

\* The equation that defines the values of a fold.
FoldEquation(step, base, s, n, iter) ==
  /\ DOMAIN iter = SUBSET (1 .. n)
  /\ \A t \in SUBSET (1 .. n) :
       iter[t] = IF t = {} THEN base ELSE step[iter[t \ {Max(t)}]][s[Max(t)]]

\* It has a solution.
LEMMA FoldExists ==
  ASSUME NEW T, NEW S, NEW base, NEW step, Stepping(step, base, T, S), NEW s \in Seq(S)
  PROVE  \E iter \in [SUBSET (1 .. Len(s)) -> T] : FoldEquation(step, base, s, Len(s), iter)
<1> DEFINE Solvable(n) == \E iter \in [SUBSET (1 .. n) -> T] : FoldEquation(step, base, s, n, iter)
           G == {n \in Nat : n <= Len(s) => Solvable(n)}
<1>1. 0 \in G
  <2> DEFINE h == [t \in SUBSET (1 .. 0) |-> base]
  <2>0. base \in T
    BY DEF Stepping
  <2>1. \A t \in SUBSET (1 .. 0) : t = {}
    OBVIOUS
  <2>2. h \in [SUBSET (1 .. 0) -> T] /\ FoldEquation(step, base, s, 0, h)
    BY <2>0, <2>1 DEF FoldEquation
  <2> QED
    BY <2>2
<1>2. ASSUME NEW n \in Nat, n \in G PROVE n + 1 \in G
  <2> HIDE DEF Solvable
  <2> SUFFICES ASSUME n + 1 <= Len(s) PROVE Solvable(n + 1)
    OBVIOUS
  <2>a. Solvable(n)
    BY <1>2
  <2>1. PICK h \in [SUBSET (1 .. n) -> T] : FoldEquation(step, base, s, n, h)
    BY <2>a DEF Solvable
  <2> DEFINE m == n + 1
             Value(t) == IF m \in t THEN step[h[t \ {m}]][s[m]] ELSE h[t]
             g == [t \in SUBSET (1 .. m) |-> Value(t)]
  <2>2. m \in Nat \ {0} /\ m \in 1 .. Len(s) /\ s[m] \in S
    OBVIOUS
  <2>3. ASSUME NEW t \in SUBSET (1 .. m)
        PROVE  /\ t \ {m} \in SUBSET (1 .. n) /\ t \ {m} \in SUBSET (1 .. m) /\ m \notin t \ {m}
               /\ m \notin t => t \in SUBSET (1 .. n)
               /\ m \in t => t # {} /\ Max(t) = m
    <3>1. \A x \in 1 .. m : x = m \/ x \in 1 .. n
      OBVIOUS
    <3>2. m \in t => Max(t) = m
      BY <2>2, MaxOfInitial
    <3> HIDE DEF m
    <3> QED
      BY <3>1, <3>2
  <2>4. g \in [SUBSET (1 .. m) -> T]
    <3>1. ASSUME NEW t \in SUBSET (1 .. m) PROVE Value(t) \in T
      <4>1. CASE m \in t
        <5>1. h[t \ {m}] \in T
          BY <2>3
        <5>2. step[h[t \ {m}]] \in [S -> T]
          BY <5>1 DEF Stepping
        <5> QED
          BY <4>1, <5>2, <2>2
      <4>2. CASE m \notin t
        BY <4>2, <2>3
      <4> QED
        BY <4>1, <4>2
    <3> HIDE DEF Value
    <3> QED
      BY <3>1
  <2>5. ASSUME NEW t \in SUBSET (1 .. m)
        PROVE  g[t] = IF t = {} THEN base ELSE step[g[t \ {Max(t)}]][s[Max(t)]]
    <3>1. CASE m \in t
      <4>1. g[t] = step[h[t \ {m}]][s[m]]
        BY <3>1
      <4>2. g[t \ {m}] = h[t \ {m}]
        BY <2>3
      <4> HIDE DEF g
      <4> QED
        BY <3>1, <4>1, <4>2, <2>3
    <3>2. CASE m \notin t
      <4>1. g[t] = h[t]
        BY <3>2
      <4>2. h[t] = IF t = {} THEN base ELSE step[h[t \ {Max(t)}]][s[Max(t)]]
        BY <2>1, <2>3, <3>2 DEF FoldEquation
      <4>3. g[t \ {Max(t)}] = h[t \ {Max(t)}]
        BY <3>2
      <4> HIDE DEF g
      <4> QED
        BY <4>1, <4>2, <4>3
    <3> QED
      BY <3>1, <3>2
  <2>6. DOMAIN g = SUBSET (1 .. m)
    OBVIOUS
  <2> HIDE DEF g
  <2>7. FoldEquation(step, base, s, m, g)
    BY <2>5, <2>6 DEF FoldEquation
  <2> QED
    BY <2>4, <2>7 DEF Solvable
<1>3. Nat \subseteq G
  <2> HIDE DEF G
  <2> QED
    BY <1>1, <1>2, NatSetInduction
<1>4. Solvable(Len(s))
  <2> HIDE DEF Solvable
  <2> QED
    BY <1>3
<1> QED
  BY <1>4

\* Of the values at the initial segments each is a step of the one before.
Stepped(iter, step, base, s, T) ==
  /\ iter[{}] = base
  /\ \A n \in 1 .. Len(s) :
       iter[(1 .. n) \ {Max(1 .. n)}] \in T =>
         iter[1 .. n] = step[iter[(1 .. n) \ {Max(1 .. n)}]][s[Max(1 .. n)]]

\* A function that is stepped from each initial segment to the next.
LEMMA FoldIsSteps ==
  ASSUME NEW T, NEW S, NEW base, NEW step, Stepping(step, base, T, S), NEW s \in Seq(S),
         NEW iter, Stepped(iter, step, base, s, T)
  PROVE  iter[DOMAIN s] = Steps(step, base, s)
<1>1. PICK g \in [0 .. Len(s) -> T] : Trace(step, base, s, g)
  BY TraceExists
<1> DEFINE G == {n \in Nat : n <= Len(s) => iter[1 .. n] = g[n]}
<1>2. 0 \in G
  <2>1. 1 .. 0 = {}
    OBVIOUS
  <2>2. iter[1 .. 0] = base
    BY <2>1 DEF Stepped
  <2> QED
    BY <2>2, <1>1 DEF Trace
<1>3. ASSUME NEW n \in Nat, n \in G PROVE n + 1 \in G
  <2> SUFFICES ASSUME n + 1 <= Len(s) PROVE iter[1 .. (n + 1)] = g[n + 1]
    OBVIOUS
  <2> DEFINE m == n + 1
  <2>1. Max(1 .. m) = m
    BY MaxOfInitial
  <2>2. (1 .. m) \ {m} = 1 .. n
    OBVIOUS
  <2>3. m \in 1 .. Len(s) /\ m - 1 = n /\ n \in 0 .. Len(s)
    OBVIOUS
  <2>4. iter[1 .. n] = g[n] /\ g[n] \in T
    BY <1>3, <2>3
  <2>5. g[m] = step[g[n]][s[m]]
    BY <1>1, <2>3 DEF Trace
  <2> HIDE DEF m
  <2>6. iter[1 .. m] = step[iter[1 .. n]][s[m]]
    BY <2>1, <2>2, <2>3, <2>4 DEF Stepped
  <2>7. iter[1 .. m] = g[m]
    BY <2>4, <2>5, <2>6
  <2> QED
    BY <2>7 DEF m
<1>4. Nat \subseteq G
  <2> HIDE DEF G
  <2> QED
    BY <1>2, <1>3, NatSetInduction
<1>5. Len(s) \in Nat /\ DOMAIN s = 1 .. Len(s)
  OBVIOUS
<1>6. iter[DOMAIN s] = g[Len(s)]
  BY <1>4, <1>5
<1> QED
  BY <1>1, <1>6, StepsOfTrace

-----------------------------------------------------------------------------
(* FlattenSeq.                                                             *)

Joined(S) == [a \in Seq(S) |-> [b \in Seq(S) |-> a \o b]]

\* FlattenSeq appends sequence after sequence.
LEMMA FlattenIsSteps ==
  ASSUME NEW S, NEW ss \in Seq(Seq(S))
  PROVE  FlattenSeq(ss) = Steps(Joined(S), <<>>, ss)
<1> DEFINE N == 1 .. Len(ss)
           Value(f, i) == IF i = 1 THEN ss[i] ELSE f[i - 1] \o ss[i]
           Flat == CHOOSE f : f = [i \in N |-> Value(f, i)]
<1>1. Stepping(Joined(S), <<>>, Seq(S), Seq(S))
  BY DEF Stepping, Joined
<1>2. PICK g \in [0 .. Len(ss) -> Seq(S)] : Trace(Joined(S), <<>>, ss, g)
  BY <1>1, TraceExists
<1>3. Len(ss) \in Nat /\ (Len(ss) = 0 <=> ss = <<>>) /\ \A i \in N : ss[i] \in Seq(S) /\ i \in Nat /\ i - 1 \in 0 .. Len(ss)
  OBVIOUS
<1>4. g[0] = <<>> /\ \A i \in N : g[i] = g[i - 1] \o ss[i] /\ g[i] \in Seq(S)
  <2>1. \A a, b \in Seq(S) : Joined(S)[a][b] = a \o b
    BY DEF Joined
  <2>2. g[0] = <<>> /\ \A i \in N : g[i] = Joined(S)[g[i - 1]][ss[i]]
    BY <1>2 DEF Trace
  <2>3. ASSUME NEW i \in N PROVE g[i] = g[i - 1] \o ss[i] /\ g[i] \in Seq(S)
    <3>1. i \in 0 .. Len(ss) /\ i - 1 \in 0 .. Len(ss) /\ ss[i] \in Seq(S)
      BY <1>3
    <3>2. g[i] \in Seq(S) /\ g[i - 1] \in Seq(S)
      BY <3>1
    <3> QED
      BY <2>1, <2>2, <3>1, <3>2
  <2> QED
    BY <2>2, <2>3
<1>5. CASE Len(ss) = 0
  <2>1. FlattenSeq(ss) = <<>>
    BY <1>3, <1>5 DEF FlattenSeq
  <2>2. Steps(Joined(S), <<>>, ss) = <<>>
    BY <1>1, <1>3, <1>5, StepsEmpty
  <2> QED
    BY <2>1, <2>2
<1>6. CASE Len(ss) # 0
  <2>1. FlattenSeq(ss) = Flat[Len(ss)]
    BY <1>6 DEF FlattenSeq
  <2> DEFINE h == [i \in N |-> g[i]]
  <2>2. ASSUME NEW i \in N PROVE h[i] = Value(h, i)
    <3>1. CASE i = 1
      <4>1. g[1] = g[0] \o ss[1] /\ ss[1] \in Seq(S) /\ g[0] = <<>>
        <5>1. i - 1 = 0
          BY <3>1
        <5> HIDE DEF N
        <5>2. g[i] = g[i - 1] \o ss[i]
          BY <1>4
        <5>3. ss[i] \in Seq(S)
          BY <1>3
        <5> QED
          BY <5>1, <5>2, <5>3, <3>1, <1>4
      <4>2. g[1] = ss[1]
        BY <4>1
      <4> QED
        BY <4>2, <3>1
    <3>2. CASE i # 1
      <4>1. i - 1 \in N
        BY <1>3, <3>2
      <4> QED
        BY <1>4, <4>1, <3>2
    <3> QED
      BY <3>1, <3>2
  <2>3. h = [i \in N |-> Value(h, i)]
    <3> HIDE DEF Value, N
    <3> QED
      BY <2>2
  <2>4. Flat = [i \in N |-> Value(Flat, i)]
    <3> HIDE DEF Value, N, h
    <3> QED
      BY <2>3
  <2> HIDE DEF Flat
  <2> DEFINE G == {n \in Nat : n + 1 <= Len(ss) => Flat[n + 1] = g[n + 1]}
  <2>5. 0 \in G
    <3>1. 1 \in N
      BY <1>3, <1>6
    <3>2. Flat[1] = ss[1] /\ h[1] = ss[1]
      BY <2>2, <2>4, <3>1
    <3> QED
      BY <3>1, <3>2
  <2>6. ASSUME NEW n \in Nat, n \in G PROVE n + 1 \in G
    <3> SUFFICES ASSUME (n + 1) + 1 <= Len(ss) PROVE Flat[(n + 1) + 1] = g[(n + 1) + 1]
      OBVIOUS
    <3> DEFINE m == n + 1
    <3>1. m + 1 \in N /\ m + 1 # 1 /\ (m + 1) - 1 = m
      BY <1>3
    <3>2. Flat[m] = g[m]
      BY <2>6, <1>3
    <3> HIDE DEF m
    <3>3. Flat[m + 1] = Flat[m] \o ss[m + 1]
      BY <2>4, <3>1
    <3>4. g[m + 1] = g[m] \o ss[m + 1]
      BY <1>4, <3>1
    <3> QED
      BY <3>2, <3>3, <3>4 DEF m
  <2>7. Nat \subseteq G
    <3> HIDE DEF G
    <3> QED
      BY <2>5, <2>6, NatSetInduction
  <2>8. Flat[Len(ss)] = g[Len(ss)]
    <3>1. Len(ss) - 1 \in Nat /\ (Len(ss) - 1) + 1 = Len(ss)
      BY <1>3, <1>6
    <3>2. Len(ss) - 1 \in G
      BY <2>7, <3>1
    <3> QED
      BY <3>1, <3>2
  <2>9. Steps(Joined(S), <<>>, ss) = g[Len(ss)]
    BY <1>2, StepsOfTrace
  <2> QED
    BY <2>1, <2>8, <2>9
<1> QED
  BY <1>5, <1>6

\* What FlattenSeq makes of a sequence more.
LEMMA FlattenProperties ==
  ASSUME NEW S
  PROVE  /\ FlattenSeq(<<>>) = <<>>
         /\ \A ss \in Seq(Seq(S)) : FlattenSeq(ss) \in Seq(S)
         /\ \A ss \in Seq(Seq(S)), s \in Seq(S) : FlattenSeq(Append(ss, s)) = FlattenSeq(ss) \o s
<1>1. Stepping(Joined(S), <<>>, Seq(S), Seq(S))
  BY DEF Stepping, Joined
<1>2. FlattenSeq(<<>>) = <<>>
  BY DEF FlattenSeq
<1>3. ASSUME NEW ss \in Seq(Seq(S)) PROVE FlattenSeq(ss) \in Seq(S)
  BY <1>1, FlattenIsSteps, StepsType
<1>4. ASSUME NEW ss \in Seq(Seq(S)), NEW s \in Seq(S)
      PROVE  FlattenSeq(Append(ss, s)) = FlattenSeq(ss) \o s
  <2>1. Append(ss, s) \in Seq(Seq(S))
    OBVIOUS
  <2>2. Steps(Joined(S), <<>>, Append(ss, s)) = Joined(S)[Steps(Joined(S), <<>>, ss)][s]
    BY <1>1, StepsAppend
  <2>3. FlattenSeq(Append(ss, s)) = Joined(S)[FlattenSeq(ss)][s]
    BY <2>1, <2>2, FlattenIsSteps
  <2> QED
    BY <2>3, <1>3 DEF Joined
<1> QED
  BY <1>2, <1>3, <1>4

\* Concatenation is associative.
LEMMA ConcatThree ==
  ASSUME NEW S, NEW s \in Seq(S), NEW t \in Seq(S), NEW u \in Seq(S)
  PROVE  s \o (t \o u) = (s \o t) \o u
<1>1. s \o t \in Seq(S) /\ t \o u \in Seq(S)
  OBVIOUS
<1> DEFINE p == s \o (t \o u)
           q == (s \o t) \o u
<1>2. p \in Seq(S) /\ q \in Seq(S)
  BY <1>1
<1>3. Len(p) = Len(q)
  BY <1>1
<1>4. ASSUME NEW i \in 1 .. Len(p) PROVE p[i] = q[i]
  BY <1>1
<1> QED
  <2> HIDE DEF p, q
  <2>1. p = q
    BY <1>2, <1>3, <1>4, SeqEqual
  <2> QED
    BY <2>1 DEF p, q

\* An element at the end stays there.
LEMMA ConcatAppend ==
  ASSUME NEW S, NEW s \in Seq(S), NEW t \in Seq(S), NEW x \in S
  PROVE  s \o Append(t, x) = Append(s \o t, x)
<1>1. <<x>> \in Seq(S) /\ s \o t \in Seq(S)
  OBVIOUS
<1>2. s \o (t \o <<x>>) = (s \o t) \o <<x>>
  BY <1>1, ConcatThree
<1>3. Append(t, x) = t \o <<x>> /\ Append(s \o t, x) = (s \o t) \o <<x>>
  BY <1>1, AppendIsConcat
<1> QED
  BY <1>2, <1>3

\* Flattening a part and the rest is flattening the whole.
LEMMA FlattenConcat ==
  ASSUME NEW S, NEW ss \in Seq(Seq(S)), NEW tt \in Seq(Seq(S))
  PROVE  FlattenSeq(ss \o tt) = FlattenSeq(ss) \o FlattenSeq(tt)
<1> DEFINE G == {r \in Seq(Seq(S)) : FlattenSeq(ss \o r) = FlattenSeq(ss) \o FlattenSeq(r)}
<1>1. <<>> \in G
  <2> DEFINE q == ss \o <<>>
  <2>1. q = ss /\ <<>> \in Seq(Seq(S))
    OBVIOUS
  <2> HIDE DEF q
  <2>2. FlattenSeq(q) = FlattenSeq(ss) /\ FlattenSeq(ss) \in Seq(S)
    BY <2>1, FlattenProperties
  <2>3. FlattenSeq(ss) \o <<>> = FlattenSeq(ss)
    BY <2>2
  <2> QED
    BY <2>1, <2>2, <2>3, FlattenProperties DEF q
<1>2. ASSUME NEW r \in Seq(Seq(S)), NEW s \in Seq(S), r \in G PROVE Append(r, s) \in G
  <2> DEFINE q == ss \o r
             a == Append(r, s)
  <2>1. ss \o a = Append(q, s) /\ q \in Seq(Seq(S)) /\ a \in Seq(Seq(S))
    OBVIOUS
  <2>2. FlattenSeq(q) = FlattenSeq(ss) \o FlattenSeq(r)
    BY <1>2
  <2> HIDE DEF q
  <2>3. FlattenSeq(Append(q, s)) = FlattenSeq(q) \o s /\ FlattenSeq(a) = FlattenSeq(r) \o s
    BY <2>1, FlattenProperties
  <2>4. FlattenSeq(ss) \in Seq(S) /\ FlattenSeq(r) \in Seq(S)
    BY FlattenProperties
  <2>5. (FlattenSeq(ss) \o FlattenSeq(r)) \o s = FlattenSeq(ss) \o (FlattenSeq(r) \o s)
    BY <2>4, ConcatAssociative, SMTT(30)
  <2> HIDE DEF a
  <2>6. FlattenSeq(ss \o a) = FlattenSeq(ss) \o FlattenSeq(a)
    BY <2>1, <2>2, <2>3, <2>5
  <2> QED
    BY <2>1, <2>6 DEF a
<1>3. Seq(Seq(S)) \subseteq G
  <2> HIDE DEF G
  <2> QED
    BY <1>1, <1>2, SeqSetInduction
<1> QED
  BY <1>3
==============================================================================
