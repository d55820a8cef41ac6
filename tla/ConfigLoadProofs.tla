--------------------------- MODULE ConfigLoadProofs ---------------------------
(***************************************************************************)
(* Proofs about ConfigLoad for files of any content: merged one after the  *)
(* other they say what they declare together, and the search for cascades  *)
(* that close refuses exactly those that do.                               *)
(***************************************************************************)
EXTENDS ConfigLoad, FiniteSetTheorems, SequenceTheorems, WellFoundedInduction, TLAPS

-----------------------------------------------------------------------------
(* Numbers.                                                                *)

\* Every nonempty set of naturals has a least element.
LEMMA LeastNatural ==
  ASSUME NEW S \in SUBSET Nat, S # {}
  PROVE  \E n \in S : \A m \in S : n <= m
<1>1. PICK n \in S : \A m \in S : ~ (<<m, n>> \in OpToRel(<, Nat))
  BY WFMin, NatLessThanWellFounded
<1>2. ASSUME NEW m \in S PROVE n <= m
  <2>1. <<m, n>> \in Nat \X Nat /\ <<m, n>>[1] = m /\ <<m, n>>[2] = n
    OBVIOUS
  <2>2. ~ (m < n)
    BY <1>1, <2>1 DEF OpToRel
  <2>. QED  BY <2>2
<1>. QED  BY <1>2

\* What holds at 0 and goes from each number to the next holds up to N.
LEMMA UpTo ==
  ASSUME NEW N \in Nat, NEW S, 0 \in S, \A n \in 0 .. N - 1 : n \in S => n + 1 \in S
  PROVE  \A n \in 0 .. N : n \in S
<1> SUFFICES ASSUME NEW n \in 0 .. N, n \notin S
             PROVE  FALSE
  OBVIOUS
<1>. DEFINE T == (0 .. N) \ S
<1>1. PICK m \in T : \A k \in T : m <= k
  <2>1. T \in SUBSET Nat /\ T # {}
    OBVIOUS
  <2>. QED  BY <2>1, LeastNatural
<1>2. m - 1 \in 0 .. N - 1 /\ m - 1 \in S
  BY <1>1
<1>. QED  BY <1>1, <1>2

\* The least of some naturals.
LEMMA MinIsLeast ==
  ASSUME NEW S \in SUBSET Nat, S # {}
  PROVE  Min(S) \in S /\ \A m \in S : Min(S) <= m
BY LeastNatural DEF Min

\* The greatest of some numbers up to N.
LEMMA MaxIsGreatest ==
  ASSUME NEW N \in Nat, NEW S \in SUBSET (1 .. N), S # {}
  PROVE  Max(S) \in S /\ \A m \in S : m <= Max(S)
<1>. DEFINE T == {N - n : n \in S}
<1>1. T \in SUBSET Nat /\ T # {}
  <2>1. \A n \in S : N - n \in Nat
    OBVIOUS
  <2>2. PICK n \in S : TRUE
    OBVIOUS
  <2>3. N - n \in T
    OBVIOUS
  <2>. QED  BY <2>1, <2>3
<1>2. PICK t \in T : \A u \in T : t <= u
  BY <1>1, LeastNatural
<1>3. PICK n \in S : t = N - n
  OBVIOUS
<1>4. ASSUME NEW m \in S PROVE n >= m
  <2>1. t <= N - m
    BY <1>2
  <2>. QED  BY <1>3, <2>1
<1>5. \E x \in S : \A y \in S : x >= y
  BY <1>4
<1>6. Max(S) \in S /\ \A y \in S : Max(S) >= y
  BY <1>5 DEF Max
<1>. QED  BY <1>6

\* How many of some numbers are not above i.
Rank(S, i) == Cardinality({j \in S : j <= i})

\* The numbers have the ranks 1, 2, ..., one each.
LEMMA RankIsPlace ==
  ASSUME NEW N \in Nat, NEW S \in SUBSET (1 .. N)
  PROVE  /\ IsFiniteSet(S) /\ Cardinality(S) \in Nat
         /\ \A i \in S : Rank(S, i) \in 1 .. Cardinality(S)
         /\ \A i, k \in S : Rank(S, i) = Rank(S, k) => i = k
         /\ \A n \in 1 .. Cardinality(S) : \E i \in S : Rank(S, i) = n
<1>. DEFINE K == Cardinality(S)
            upto(i) == {j \in S : j <= i}
            f == [i \in S |-> Rank(S, i)]
<1>0. \A i \in S : i \in Nat
  OBVIOUS
<1>1. IsFiniteSet(S) /\ K \in Nat
  <2>1. IsFiniteSet(1 .. N)
    BY FS_Interval
  <2>2. IsFiniteSet(S)
    BY <2>1, FS_Subset
  <2>. QED  BY <2>2, FS_CardinalityType
<1>2. ASSUME NEW i \in S PROVE /\ IsFiniteSet(upto(i)) /\ Cardinality(upto(i)) \in 1 .. K
                               /\ Rank(S, i) = Cardinality(upto(i))
  <2>1. IsFiniteSet(upto(i)) /\ Cardinality(upto(i)) <= K
    BY <1>1, FS_Subset
  <2>2. Cardinality(upto(i)) \in Nat /\ Cardinality(upto(i)) # 0
    <3>1. i \in upto(i)
      OBVIOUS
    <3>. HIDE DEF upto
    <3>. QED  BY <2>1, <3>1, FS_CardinalityType, FS_EmptySet
  <2>. QED  BY <1>1, <2>1, <2>2 DEF Rank
<1>r. \A i \in S : Rank(S, i) \in Nat /\ Rank(S, i) \in 1 .. K
  <2> SUFFICES ASSUME NEW i \in S PROVE Rank(S, i) \in Nat /\ Rank(S, i) \in 1 .. K
    OBVIOUS
  <2>. HIDE DEF upto, K
  <2>. QED  BY <1>1, <1>2
<1>3. ASSUME NEW i \in S, NEW k \in S, i < k PROVE Rank(S, i) < Rank(S, k)
  <2>1. k \notin upto(i) /\ upto(i) \union {k} \in SUBSET upto(k)
    <3>1. i \in Nat /\ k \in Nat /\ ~(k <= i) /\ k <= k
      BY <1>0, <1>3
    <3>2. \A j \in S : j <= i => j <= k
      BY <1>0, <1>3
    <3>. QED  BY Zenon, <3>1, <3>2
  <2>. HIDE DEF upto
  <2>2. Cardinality(upto(i) \union {k}) = Cardinality(upto(i)) + 1
    BY <1>2, <2>1, FS_AddElement
  <2>3. Cardinality(upto(i) \union {k}) <= Cardinality(upto(k))
    BY <1>2, <2>1, FS_Subset
  <2>. QED  BY <1>2, <2>2, <2>3
<1>4. ASSUME NEW i \in S, NEW k \in S, Rank(S, i) = Rank(S, k) PROVE i = k
  <2>1. ~(i < k) /\ ~(k < i)
    <3>1. Rank(S, i) \in Nat
      BY <1>r
    <3>. QED  BY <1>3, <1>4, <3>1
  <2>. QED  BY <1>0, <2>1
<1>5. \A n \in 1 .. K : \E i \in S : f[i] = n
  <2>. HIDE DEF K
  <2>1. f \in Injection(S, 1 .. K)
    <3>1. f \in [S -> 1 .. K] /\ \A i, k \in S : f[i] = f[k] => i = k
      BY <1>2, <1>4 DEF K
    <3>. QED  BY <3>1 DEF Injection, IsInjective
  <2>2. IsFiniteSet(1 .. K) /\ Cardinality(1 .. K) = K
    BY <1>1, FS_Interval
  <2>3. f \in Surjection(S, 1 .. K)
    BY <2>1, <2>2, FS_Injection DEF K
  <2>. QED  BY <2>3 DEF Surjection
<1>. QED  BY <1>1, <1>r, <1>4, <1>5

-----------------------------------------------------------------------------
(* Arrays.                                                                 *)

\* What deep_merge makes of the items of arrays put one after the other: each name
\* stands where it came first, with what came last; items without a name all stay.
CollectedItems(items) ==
    LET twins(i) == {j \in DOMAIN items : SameName(items[i], items[j])} \union {i}
        firsts == {i \in DOMAIN items : i = Min(twins(i))}
        at(n) == CHOOSE i \in firsts : Cardinality({j \in firsts : j <= i}) = n
    IN  [n \in 1 .. Cardinality(firsts) |-> items[Max(twins(at(n)))]]

\* The two abbreviations inside CollectedItems: the items of one name with item
\* i, and the items that are the first of theirs.
Twins(items, i) == {j \in DOMAIN items : SameName(items[i], items[j])} \union {i}
Firsts(items) == {i \in DOMAIN items : i = Min(Twins(items, i))}
Nth(S, n) == CHOOSE i \in S : Rank(S, i) = n

\* To be of one name is an equivalence of the items that have one.
LEMMA SameNameIsEquality ==
  /\ \A v, w : SameName(v, w) => SameName(w, v) /\ SameName(v, v)
  /\ \A u, v, w : SameName(u, v) /\ SameName(v, w) => SameName(u, w)
BY DEF SameName, HasName

\* An item's twins are places of the list, itself among them.
LEMMA TwinsArePlaces ==
  ASSUME NEW V, NEW c \in Seq(V), NEW i \in 1 .. Len(c)
  PROVE  /\ Twins(c, i) \in SUBSET (1 .. Len(c)) /\ Twins(c, i) \in SUBSET Nat /\ i \in Twins(c, i)
         /\ \A j \in 1 .. Len(c) : j \in Twins(c, i) <=> j = i \/ SameName(c[i], c[j])
BY DEF Twins

\* What CollectedItems returns: at the rank of each first item the last of its name.
LEMMA CollectedItemsAre ==
  ASSUME NEW V, NEW c \in Seq(V)
  PROVE  /\ Firsts(c) \in SUBSET (1 .. Len(c))
         /\ CollectedItems(c) \in Seq(V)
         /\ Len(CollectedItems(c)) = Cardinality(Firsts(c)) /\ Cardinality(Firsts(c)) \in Nat
         /\ \A i \in Firsts(c) : CollectedItems(c)[Rank(Firsts(c), i)] = c[Max(Twins(c, i))]
         /\ \A i \in Firsts(c) : Max(Twins(c, i)) \in Twins(c, i)
<1>. DEFINE F == Firsts(c)
            K == Cardinality(F)
            L == Len(c)
            d == [n \in 1 .. K |-> c[Max(Twins(c, Nth(F, n)))]]
<1>1. CollectedItems(c) = d
  BY DEF CollectedItems, Twins, Firsts, Nth, Rank
<1>2. L \in Nat /\ F \in SUBSET (1 .. L)
  BY DEF Firsts
<1>3. /\ K \in Nat
      /\ \A i \in F : Rank(F, i) \in 1 .. K
      /\ \A i, k \in F : Rank(F, i) = Rank(F, k) => i = k
      /\ \A n \in 1 .. K : \E i \in F : Rank(F, i) = n
  BY <1>2, RankIsPlace
<1>. HIDE DEF F, K
<1>4. ASSUME NEW i \in F PROVE Max(Twins(c, i)) \in Twins(c, i) /\ Max(Twins(c, i)) \in 1 .. L
  BY <1>2, TwinsArePlaces, MaxIsGreatest
<1>5. ASSUME NEW i \in F PROVE Nth(F, Rank(F, i)) = i
  BY <1>3 DEF Nth
<1>6. ASSUME NEW n \in 1 .. K PROVE Nth(F, n) \in F
  BY <1>3 DEF Nth
<1>7. d \in Seq(V) /\ Len(d) = K
  <2>1. \A n \in 1 .. K : c[Max(Twins(c, Nth(F, n)))] \in V
    BY <1>4, <1>6
  <2>. QED  BY <1>3, <2>1
<1>8. ASSUME NEW i \in F PROVE d[Rank(F, i)] = c[Max(Twins(c, i))]
  BY <1>3, <1>5
<1>. HIDE DEF d
<1>. QED  BY <1>1, <1>2, <1>3, <1>4, <1>7, <1>8 DEF F, K

\* Two lists with the same firsts and the same last items are the same.
LEMMA CollectedItemsEqual ==
  ASSUME NEW V, NEW c \in Seq(V), NEW e \in Seq(V), Len(e) = Cardinality(Firsts(c)),
         \A i \in Firsts(c) : e[Rank(Firsts(c), i)] = c[Max(Twins(c, i))]
  PROVE  CollectedItems(c) = e
<1>. DEFINE F == Firsts(c)
            K == Cardinality(F)
            d == CollectedItems(c)
<1>1. /\ d \in Seq(V) /\ Len(d) = K /\ F \in SUBSET (1 .. Len(c)) /\ Len(c) \in Nat /\ K \in Nat
      /\ \A i \in F : d[Rank(F, i)] = c[Max(Twins(c, i))]
  BY CollectedItemsAre
<1>2. \A n \in 1 .. K : \E i \in F : Rank(F, i) = n
  BY <1>1, RankIsPlace
<1>3. \A i \in F : d[Rank(F, i)] = e[Rank(F, i)]
  BY <1>1
<1>. HIDE DEF F, K, d
<1>4. \A n \in 1 .. K : d[n] = e[n]
  BY <1>2, <1>3
<1>. QED  BY <1>1, <1>4 DEF d, F, K

\* An array in which every name is once is what it declares.
LEMMA NamesOnceCollected ==
  ASSUME NEW V, NEW c \in Seq(V), \A i, j \in DOMAIN c : SameName(c[i], c[j]) => i = j
  PROVE  CollectedItems(c) = c
<1>. DEFINE L == Len(c)
<1>0. L \in Nat /\ DOMAIN c = 1 .. L
  OBVIOUS
<1>1. ASSUME NEW i \in 1 .. L PROVE Twins(c, i) = {i} /\ Max(Twins(c, i)) = i /\ Min(Twins(c, i)) = i
  <2>1. Twins(c, i) = {i}
    BY DEF Twins
  <2>2. Twins(c, i) \in SUBSET Nat /\ Twins(c, i) \in SUBSET (1 .. L) /\ Twins(c, i) # {}
    BY <2>1
  <2>3. Max(Twins(c, i)) \in Twins(c, i)
    BY <1>0, <2>2, MaxIsGreatest
  <2>4. Min(Twins(c, i)) \in Twins(c, i)
    BY <2>2, MinIsLeast
  <2>. QED  BY <2>1, <2>3, <2>4
<1>2. Firsts(c) = 1 .. L
  BY <1>0, <1>1 DEF Firsts
<1>3. Cardinality(1 .. L) = L
  <2>1. Cardinality(1 .. L) = IF 1 > L THEN 0 ELSE L - 1 + 1
    BY <1>0, FS_Interval
  <2>. QED  BY <1>0, <2>1
<1>4. ASSUME NEW i \in 1 .. L PROVE Rank(1 .. L, i) = i
  <2>. DEFINE upto == {j \in 1 .. L : j <= i}
  <2>1. upto = 1 .. i
    BY <1>0
  <2>3. Rank(1 .. L, i) = Cardinality(upto)
    BY Zenon DEF Rank
  <2>2. Cardinality(1 .. i) = IF 1 > i THEN 0 ELSE i - 1 + 1
    BY FS_Interval
  <2>. HIDE DEF upto
  <2>. QED  BY <1>0, <2>1, <2>2, <2>3
<1>5. \A i \in Firsts(c) : c[Rank(Firsts(c), i)] = c[Max(Twins(c, i))]
  BY <1>1, <1>2, <1>4
<1>. QED  BY <1>2, <1>3, <1>5, CollectedItemsEqual

\* The firsts of a list with one more item: those there were, and the new one
\* if its name is new.
LEMMA TwinsOfAppend ==
  ASSUME NEW V, NEW c \in Seq(V), NEW x \in V
  PROVE  LET e == Append(c, x)
             L == Len(c)
         IN  /\ \A i \in 1 .. L :
                   Twins(e, i) = Twins(c, i) \union (IF SameName(c[i], x) THEN {L + 1} ELSE {})
             /\ Twins(e, L + 1) = {j \in 1 .. L : SameName(c[j], x)} \union {L + 1}
<1>. DEFINE e == Append(c, x)
            L == Len(c)
<1>1. /\ L \in Nat /\ DOMAIN c = 1 .. L /\ DOMAIN e = 1 .. L + 1 /\ e[L + 1] = x
      /\ \A i \in 1 .. L : e[i] = c[i]
  OBVIOUS
<1>. HIDE DEF e, L
<1>2. ASSUME NEW i \in 1 .. L
      PROVE  Twins(e, i) = Twins(c, i) \union (IF SameName(c[i], x) THEN {L + 1} ELSE {})
  <2>1. ASSUME NEW j \in 1 .. L + 1 PROVE j \in 1 .. L \/ j = L + 1
    BY <1>1
  <2>. QED  BY <1>1, <2>1 DEF Twins
<1>3. Twins(e, L + 1) = {j \in 1 .. L : SameName(c[j], x)} \union {L + 1}
  <2>1. ASSUME NEW j \in 1 .. L + 1 PROVE j \in 1 .. L \/ j = L + 1
    BY <1>1
  <2>. QED  BY <1>1, <2>1, SameNameIsEquality DEF Twins
<1>. QED  BY <1>2, <1>3 DEF e, L

\* An item more does not change what comes first.
LEMMA MinOfMore ==
  ASSUME NEW L \in Nat, NEW S \in SUBSET (1 .. L), S # {}, NEW T, T = S \/ T = S \union {L + 1}
  PROVE  Min(T) = Min(S) /\ Max(T) = IF T = S THEN Max(S) ELSE L + 1
<1>1. S \in SUBSET Nat /\ T \in SUBSET Nat /\ T # {} /\ T \in SUBSET (1 .. L + 1)
  <2>1. L + 1 \in Nat /\ L + 1 \in 1 .. L + 1
    OBVIOUS
  <2>2. \A s \in S : s \in Nat /\ s \in 1 .. L + 1 /\ s <= L
    OBVIOUS
  <2>. QED  BY <2>1, <2>2
<1>2. Min(S) \in S /\ Min(T) \in T /\ (\A m \in S : Min(S) <= m) /\ \A m \in T : Min(T) <= m
  BY <1>1, MinIsLeast
<1>3. Max(T) \in T /\ \A m \in T : m <= Max(T)
  BY <1>1, MaxIsGreatest
<1>4. (\A s \in S : s \in Nat /\ s <= L) /\ \A t \in T : t \in Nat
  BY <1>1
<1>5. CASE T = S
  BY <1>5
<1>6. CASE T = S \union {L + 1} /\ T # S
  <2>1. L + 1 \in T /\ Min(S) \in T /\ Min(S) <= L
    BY <1>2, <1>4, <1>6
  <2>0. (\A t \in T : t \in S \/ t = L + 1) /\ (\A s \in S : s \in T) /\ T # {}
    BY <1>2, <1>6
  <2>2. Min(T) \in S
    <3>1. Min(T) <= Min(S) /\ Min(T) \in Nat /\ Min(S) \in Nat
      BY <1>2, <1>4, <2>0, <2>1
    <3>2. Min(T) # L + 1
      BY <2>1, <3>1
    <3>. QED  BY <1>2, <2>0, <3>2
  <2>3. Min(T) = Min(S)
    BY <1>2, <1>4, <2>1, <2>2
  <2>4. Max(T) = L + 1
    <3>1. Max(T) \in T /\ Max(T) \in Nat /\ L + 1 <= Max(T)
      BY <1>3, <1>4, <2>1
    <3>2. \A s \in S : ~(L + 1 <= s)
      BY <1>4
    <3>. QED  BY <2>0, <3>1, <3>2
  <2>. QED  BY <1>6, <2>3, <2>4
<1>. QED  BY <1>5, <1>6

\* An item of a name not seen before is appended, by either reading.
LEMMA NewName ==
  ASSUME NEW V, NEW c \in Seq(V), NEW x \in V, \A i \in 1 .. Len(c) : ~SameName(c[i], x)
  PROVE  CollectedItems(Append(c, x)) = PutItem(CollectedItems(c), x)
<1>. DEFINE e == Append(c, x)
            L == Len(c)
            F == Firsts(c)
            K == Cardinality(F)
            d == CollectedItems(c)
<1>1. /\ e \in Seq(V) /\ L \in Nat /\ Len(e) = L + 1 /\ DOMAIN e = 1 .. L + 1 /\ DOMAIN c = 1 .. L
      /\ e[L + 1] = x /\ \A i \in 1 .. L : e[i] = c[i]
  OBVIOUS
<1>2. /\ F \in SUBSET (1 .. L) /\ d \in Seq(V) /\ Len(d) = K /\ K \in Nat
      /\ \A i \in F : d[Rank(F, i)] = c[Max(Twins(c, i))]
  BY CollectedItemsAre
<1>3. /\ IsFiniteSet(F)
      /\ \A i \in F : Rank(F, i) \in 1 .. K
      /\ \A n \in 1 .. K : \E i \in F : Rank(F, i) = n
  BY <1>1, <1>2, RankIsPlace
<1>t. \A i \in 1 .. L : /\ Twins(c, i) \in SUBSET (1 .. L) /\ i \in Twins(c, i)
                        /\ Twins(c, i) \in SUBSET Nat
  BY TwinsArePlaces
<1>4. (\A i \in 1 .. L : Twins(e, i) = Twins(c, i)) /\ Twins(e, L + 1) = {L + 1}
  <2>1. \A i \in 1 .. L :
           Twins(e, i) = Twins(c, i) \union (IF SameName(c[i], x) THEN {L + 1} ELSE {})
    BY TwinsOfAppend
  <2>2. Twins(e, L + 1) = {j \in 1 .. L : SameName(c[j], x)} \union {L + 1}
    BY TwinsOfAppend
  <2>3. \A i \in 1 .. L : ~SameName(c[i], x)
    OBVIOUS
  <2>. HIDE DEF e, L
  <2>4. {j \in 1 .. L : SameName(c[j], x)} = {}
    BY <2>3
  <2>. QED  BY <2>1, <2>2, <2>3, <2>4
<1>5. Min({L + 1}) = L + 1 /\ Max({L + 1}) = L + 1
  <2>1. {L + 1} \in SUBSET Nat /\ {L + 1} \in SUBSET (1 .. L + 1) /\ {L + 1} # {}
    BY <1>1
  <2>2. L + 1 \in Nat
    BY <1>1
  <2>. QED  BY <2>1, <2>2, MinIsLeast, MaxIsGreatest
<1>6. Firsts(e) = F \union {L + 1}
  <2>1. \A i \in 1 .. L : i \in 1 .. L + 1
    BY <1>1
  <2>2. \A i \in 1 .. L + 1 : i \in 1 .. L \/ i = L + 1
    BY <1>1
  <2>3. L + 1 \in 1 .. L + 1
    BY <1>1
  <2>. QED  BY <1>1, <1>4, <1>5, <2>1, <2>2, <2>3 DEF Firsts
<1>7. L + 1 \notin F /\ \A i \in F : i <= L /\ i \in Nat /\ i # L + 1
  BY <1>1, <1>2
<1>. HIDE DEF e, L, F, K, d
<1>8. Cardinality(F \union {L + 1}) = K + 1
  BY <1>3, <1>7, FS_AddElement DEF K
<1>9. (\A i \in F : Rank(F \union {L + 1}, i) = Rank(F, i)) /\ Rank(F \union {L + 1}, L + 1) = K + 1
  <2>1. ASSUME NEW i \in F PROVE {j \in F \union {L + 1} : j <= i} = {j \in F : j <= i}
    BY <1>1, <1>7
  <2>2. {j \in F \union {L + 1} : j <= L + 1} = F \union {L + 1}
    BY <1>1, <1>7
  <2>. QED  BY Zenon, <1>8, <2>1, <2>2 DEF Rank
<1>10. PutItem(d, x) = Append(d, x)
  <2>1. ASSUME NEW n \in 1 .. K PROVE ~SameName(d[n], x)
    <3>1. PICK i \in F : Rank(F, i) = n
      BY <1>3
    <3>2. Max(Twins(c, i)) \in 1 .. L
      BY <1>1, <1>2, <1>t, MaxIsGreatest
    <3>. QED  BY <1>2, <3>1, <3>2 DEF L
  <2>2. {n \in DOMAIN d : SameName(d[n], x)} = {}
    BY <1>2, <2>1
  <2>. QED  BY <2>2 DEF PutItem
<1>11. /\ Append(d, x) \in Seq(V) /\ Len(Append(d, x)) = K + 1
       /\ \A i \in F : Append(d, x)[Rank(F, i)] = d[Rank(F, i)]
       /\ Append(d, x)[K + 1] = x
  BY <1>2, <1>3
<1>12. \A i \in F \union {L + 1} : Append(d, x)[Rank(F \union {L + 1}, i)] = e[Max(Twins(e, i))]
  <2>1. ASSUME NEW i \in F PROVE Append(d, x)[Rank(F, i)] = e[Max(Twins(e, i))]
    <3>1. i \in 1 .. L /\ Max(Twins(c, i)) \in 1 .. L
      BY <1>1, <1>2, <1>t, MaxIsGreatest
    <3>. QED  BY <1>1, <1>2, <1>4, <1>11, <3>1
  <2>2. Append(d, x)[K + 1] = e[Max(Twins(e, L + 1))]
    BY <1>1, <1>4, <1>5, <1>11
  <2>. QED  BY <1>9, <2>1, <2>2
<1>13. CollectedItems(e) = Append(d, x)
  <2>. DEFINE q == Append(d, x)
  <2>1. /\ q \in Seq(V) /\ Len(q) = Cardinality(Firsts(e))
        /\ \A i \in Firsts(e) : q[Rank(Firsts(e), i)] = e[Max(Twins(e, i))]
    BY <1>6, <1>8, <1>11, <1>12
  <2>. HIDE DEF q
  <2>2. CollectedItems(e) = q
    BY <1>1, <2>1, CollectedItemsEqual
  <2>. QED  BY <2>2 DEF q
<1>. QED  BY <1>10, <1>13 DEF d, e

\* An item of a known name replaces the first of that name, by either reading.
LEMMA KnownName ==
  ASSUME NEW V, NEW c \in Seq(V), NEW x \in V, NEW i0 \in 1 .. Len(c), SameName(c[i0], x)
  PROVE  CollectedItems(Append(c, x)) = PutItem(CollectedItems(c), x)
<1>. DEFINE e == Append(c, x)
            L == Len(c)
            F == Firsts(c)
            K == Cardinality(F)
            d == CollectedItems(c)
            same == {i \in 1 .. L : SameName(c[i], x)}
<1>1. /\ e \in Seq(V) /\ L \in Nat /\ Len(e) = L + 1 /\ DOMAIN e = 1 .. L + 1 /\ DOMAIN c = 1 .. L
      /\ e[L + 1] = x /\ \A i \in 1 .. L : e[i] = c[i]
  OBVIOUS
<1>2. /\ F \in SUBSET (1 .. L) /\ d \in Seq(V) /\ Len(d) = K /\ K \in Nat
      /\ \A i \in F : d[Rank(F, i)] = c[Max(Twins(c, i))]
  BY CollectedItemsAre
<1>3. /\ IsFiniteSet(F)
      /\ \A i \in F : Rank(F, i) \in 1 .. K
      /\ \A i, k \in F : Rank(F, i) = Rank(F, k) => i = k
      /\ \A n \in 1 .. K : \E i \in F : Rank(F, i) = n
  BY <1>1, <1>2, RankIsPlace
<1>t. \A i \in 1 .. L : /\ Twins(c, i) \in SUBSET (1 .. L) /\ i \in Twins(c, i)
                        /\ Twins(c, i) \in SUBSET Nat
                        /\ \A j \in 1 .. L : j \in Twins(c, i) <=> j = i \/ SameName(c[i], c[j])
  BY TwinsArePlaces
<1>4. /\ \A i \in 1 .. L : Twins(e, i) = Twins(c, i) \union (IF SameName(c[i], x) THEN {L + 1} ELSE {})
      /\ Twins(e, L + 1) = same \union {L + 1}
  BY TwinsOfAppend
<1>5. ASSUME NEW i \in 1 .. L
      PROVE  /\ Min(Twins(e, i)) = Min(Twins(c, i))
             /\ Max(Twins(e, i)) = IF SameName(c[i], x) THEN L + 1 ELSE Max(Twins(c, i))
  <2>1. Twins(c, i) \in SUBSET (1 .. L) /\ Twins(c, i) # {} /\ L + 1 \notin Twins(c, i)
    BY <1>1, <1>t
  <2>2. CASE SameName(c[i], x)
    <3>1. Twins(e, i) = Twins(c, i) \union {L + 1} /\ Twins(e, i) # Twins(c, i)
      BY <1>4, <2>1, <2>2
    <3>. QED  BY <1>1, <2>1, <2>2, <3>1, MinOfMore
  <2>3. CASE ~SameName(c[i], x)
    <3>1. Twins(e, i) = Twins(c, i)
      BY <1>4, <2>3
    <3>. QED  BY <2>3, <3>1
  <2>. QED  BY <2>2, <2>3
<1>6. Firsts(e) = F
  <2>1. Min(Twins(e, L + 1)) # L + 1
    <3>1. Twins(e, L + 1) \in SUBSET Nat /\ i0 \in Twins(e, L + 1) /\ i0 < L + 1
      BY <1>1, <1>4
    <3>2. Min(Twins(e, L + 1)) <= i0
      BY <3>1, MinIsLeast
    <3>. QED  BY <1>1, <3>1, <3>2
  <2>2. \A i \in 1 .. L + 1 : i \in 1 .. L \/ i = L + 1
    BY <1>1
  <2>3. \A i \in 1 .. L : i \in 1 .. L + 1
    BY <1>1
  <2>. QED  BY <1>1, <1>5, <2>1, <2>2, <2>3 DEF Firsts
<1>f. \A i \in F : i \in 1 .. L /\ i = Min(Twins(c, i))
  BY <1>1 DEF Firsts
<1>. HIDE DEF e, L, F, K, d, same
<1>7. PICK f \in F : SameName(c[f], x)
  <2>1. same \in SUBSET Nat /\ same # {} /\ i0 \in same /\ \A i \in same : i \in 1 .. L /\ SameName(c[i], x)
    BY DEF same, L
  <2>2. Min(same) \in same /\ \A m \in same : Min(same) <= m
    BY <2>1, MinIsLeast
  <2>. DEFINE g == Min(same)
  <2>3. g \in 1 .. L /\ SameName(c[g], x)
    BY <2>1, <2>2
  <2>4. \A j \in Twins(c, g) : j \in same
    BY <1>t, <2>3, SameNameIsEquality DEF same
  <2>5. Min(Twins(c, g)) \in Twins(c, g) /\ Min(Twins(c, g)) <= g
    BY <1>t, <2>3, MinIsLeast
  <2>6. Min(Twins(c, g)) = g
    <3>1. Min(Twins(c, g)) \in Nat /\ g \in Nat /\ g <= Min(Twins(c, g))
      BY <1>t, <2>2, <2>3, <2>4, <2>5
    <3>. QED  BY <2>5, <3>1
  <2>7. g \in F
    BY <1>1, <2>3, <2>6 DEF F, Firsts
  <2>. QED  BY <2>3, <2>7
<1>8. ASSUME NEW i \in F, NEW k \in F, SameName(c[i], x), SameName(c[k], x) PROVE i = k
  <2>1. i \in Twins(c, k) /\ k \in Twins(c, i)
    BY <1>8, <1>t, <1>f, SameNameIsEquality
  <2>2. k <= i /\ i <= k
    BY <1>f, <1>t, <2>1, MinIsLeast
  <2>3. i \in Nat /\ k \in Nat
    BY <1>1, <1>f
  <2>. QED  BY <2>2, <2>3
<1>9. ASSUME NEW i \in F PROVE SameName(d[Rank(F, i)], x) <=> SameName(c[i], x)
  <2>1. Max(Twins(c, i)) \in Twins(c, i) /\ Max(Twins(c, i)) \in 1 .. L
    BY <1>1, <1>t, <1>f, MaxIsGreatest
  <2>2. c[Max(Twins(c, i))] = c[i] \/ SameName(c[i], c[Max(Twins(c, i))])
    BY <1>t, <1>f, <2>1
  <2>3. d[Rank(F, i)] = c[Max(Twins(c, i))]
    BY <1>2
  <2>. DEFINE y == c[Max(Twins(c, i))]
              z == c[i]
  <2>4. y = z \/ SameName(z, y)
    BY <2>2
  <2>. HIDE DEF y, z
  <2>5. SameName(y, x) => SameName(z, x)
    BY <2>4, SameNameIsEquality
  <2>6. SameName(z, x) => SameName(y, x)
    BY <2>4, SameNameIsEquality
  <2>7. SameName(y, x) <=> SameName(z, x)
    BY <2>5, <2>6
  <2>. QED  BY <2>3, <2>7 DEF y, z
<1>. DEFINE m == Rank(F, f)
            q == [d EXCEPT ![m] = x]
<1>10. PutItem(d, x) = q
  <2>1. \A n \in 1 .. K : SameName(d[n], x) <=> n = m
    <3> SUFFICES ASSUME NEW n \in 1 .. K PROVE SameName(d[n], x) <=> n = m
      OBVIOUS
    <3>1. PICK i \in F : Rank(F, i) = n
      BY <1>3
    <3>. QED  BY <1>3, <1>7, <1>8, <1>9, <3>1
  <2>2. m \in 1 .. K /\ DOMAIN d = 1 .. K
    BY <1>2, <1>3
  <2>3. {n \in DOMAIN d : SameName(d[n], x)} = {m}
    BY <2>1, <2>2
  <2>4. Min({m}) = m
    <3>1. {m} \in SUBSET Nat /\ {m} # {}
      BY <2>2
    <3>. QED  BY <3>1, MinIsLeast
  <2>. QED  BY <2>3, <2>4 DEF PutItem
<1>11. q \in Seq(V) /\ Len(q) = K /\ \A n \in 1 .. K : q[n] = IF n = m THEN x ELSE d[n]
  BY <1>2, <1>3
<1>12. ASSUME NEW i \in F PROVE q[Rank(F, i)] = e[Max(Twins(e, i))]
  <2>1. q[Rank(F, i)] = IF i = f THEN x ELSE d[Rank(F, i)]
    BY <1>3, <1>11
  <2>2. CASE i = f
    BY <1>1, <1>5, <1>7, <1>f, <2>1, <2>2
  <2>3. CASE i # f
    <3>1. ~SameName(c[i], x)
      BY <1>7, <1>8, <2>3
    <3>2. Max(Twins(e, i)) = Max(Twins(c, i)) /\ Max(Twins(c, i)) \in 1 .. L
      BY <1>1, <1>5, <1>f, <1>t, <3>1, MaxIsGreatest
    <3>. QED  BY <1>1, <1>2, <2>1, <2>3, <3>2
  <2>. QED  BY <2>2, <2>3
<1>13. CollectedItems(e) = q
  <2>. HIDE DEF q
  <2>. QED  BY <1>1, <1>6, <1>11, <1>12, CollectedItemsEqual DEF F, K
<1>. QED  BY <1>10, <1>13 DEF d, e

\* To put one more item is to declare one more.
LEMMA OneMoreItem ==
  ASSUME NEW V, NEW c \in Seq(V), NEW x \in V
  PROVE  CollectedItems(Append(c, x)) = PutItem(CollectedItems(c), x)
BY NewName, KnownName

-----------------------------------------------------------------------------
\* The arrays of two files: what one declares, with the items of the other put
\* into it, is what they declare one after the other.
LEMMA MoreItems ==
  ASSUME NEW V, NEW c \in Seq(V), NEW more \in Seq(V)
  PROVE  PutItems(CollectedItems(c), more) = CollectedItems(c \o more)
<1>. DEFINE N == Len(more)
            items == CollectedItems(c)
            F(f) == [n \in 0 .. N |-> IF n = 0 THEN items ELSE PutItem(f[n - 1], more[n])]
            z(n) == c \o SubSeq(more, 1, n)
            g == [n \in 0 .. N |-> CollectedItems(z(n))]
            put == CHOOSE f : f = F(f)
<1>1. PutItems(items, more) = put[N]
  BY DEF PutItems
<1>2. N \in Nat
  OBVIOUS
<1>3. z(0) = c /\ z(N) = c \o more
  <2>1. SubSeq(more, 1, 0) = <<>> /\ SubSeq(more, 1, N) = more
    OBVIOUS
  <2>. QED  BY <2>1
<1>4. ASSUME NEW n \in 1 .. N PROVE z(n - 1) \in Seq(V) /\ more[n] \in V /\ z(n) = Append(z(n - 1), more[n])
  <2>1. SubSeq(more, 1, n) = Append(SubSeq(more, 1, n - 1), more[n])
    OBVIOUS
  <2>2. SubSeq(more, 1, n - 1) \in Seq(V) /\ more[n] \in V
    OBVIOUS
  <2>. QED  BY <2>1, <2>2
<1>. HIDE DEF z
<1>5. ASSUME NEW n \in 1 .. N PROVE CollectedItems(z(n)) = PutItem(CollectedItems(z(n - 1)), more[n])
  BY <1>4, OneMoreItem
<1>6. g = F(g)
  <2>1. ASSUME NEW n \in 0 .. N
        PROVE  g[n] = IF n = 0 THEN items ELSE PutItem(g[n - 1], more[n])
    <3>1. CASE n = 0
      BY <1>3, <3>1
    <3>2. CASE n # 0
      <4>1. n \in 1 .. N /\ n - 1 \in 0 .. N
        BY <1>2, <3>2
      <4>. QED  BY <1>5, <3>2, <4>1
    <3>. QED  BY <3>1, <3>2
  <2>. QED  BY <2>1
<1>7. put = F(put)
  <2>. HIDE DEF F, g
  <2>. QED  BY <1>6
<1>8. \A n \in 0 .. N : put[n] = IF n = 0 THEN items ELSE PutItem(put[n - 1], more[n])
  <2>. HIDE DEF put
  <2>. QED  BY <1>7
<1>. DEFINE S == {n \in 0 .. N : put[n] = CollectedItems(z(n))}
<1>. HIDE DEF put, F
<1>9. 0 \in S
  BY <1>2, <1>3, <1>8
<1>10. ASSUME NEW n \in 0 .. N - 1, n \in S PROVE n + 1 \in S
  <2>1. n + 1 \in 1 .. N /\ n + 1 \in 0 .. N /\ (n + 1) - 1 = n /\ n + 1 # 0
    BY <1>2
  <2>2. put[n + 1] = PutItem(put[n], more[n + 1])
    BY <1>8, <2>1
  <2>. QED  BY <1>5, <1>10, <2>1, <2>2
<1>. HIDE DEF S
<1>11. \A n \in 0 .. N : n \in S
  BY <1>2, <1>9, <1>10, UpTo
<1>12. N \in S
  BY <1>2, <1>11
<1>13. put[N] = CollectedItems(z(N))
  BY <1>12 DEF S
<1>. QED  BY <1>1, <1>3, <1>13

-----------------------------------------------------------------------------
(* The concatenation of sequences.                                         *)

\* The recursion of FlattenSeq.
Flattens(f, s) == \A i \in 1 .. Len(s) : f[i] = IF i = 1 THEN s[i] ELSE f[i - 1] \o s[i]

\* FlattenSeq as a function: it has laid out one more sequence at each place.
LEMMA FlattenSteps ==
  ASSUME NEW V, NEW s \in Seq(Seq(V)), s # <<>>
  PROVE  \E f \in [1 .. Len(s) -> Seq(V)] : Flattens(f, s) /\ FlattenSeq(s) = f[Len(s)]
<1>. DEFINE N == Len(s)
            F(f) == [i \in 1 .. N |-> IF i = 1 THEN s[i] ELSE f[i - 1] \o s[i]]
            flatten == CHOOSE f : f = F(f)
            Good(f, n) == \A m \in 1 .. n : f[m] = IF m = 1 THEN s[m] ELSE f[m - 1] \o s[m]
            S == {n \in 0 .. N : \E f \in [1 .. N -> Seq(V)] : Good(f, n)}
<1>0. N \in Nat /\ N # 0 /\ \A m \in 1 .. N : s[m] \in Seq(V)
  OBVIOUS
<1>1. FlattenSeq(s) = flatten[N]
  BY <1>0 DEF FlattenSeq
<1>2. 0 \in S
  <2>1. s \in [1 .. N -> Seq(V)]
    OBVIOUS
  <2>2. Good(s, 0)
    OBVIOUS
  <2>3. \E f \in [1 .. N -> Seq(V)] : Good(f, 0)
    <3>. HIDE DEF Good
    <3>. QED  BY <2>1, <2>2
  <2>. QED  BY <1>0, <2>3
<1>3. ASSUME NEW n \in 0 .. N - 1, n \in S PROVE n + 1 \in S
  <2>1. PICK f \in [1 .. N -> Seq(V)] : Good(f, n)
    BY <1>3
  <2>. DEFINE t == IF n = 0 THEN s[1] ELSE f[n] \o s[n + 1]
              g == [f EXCEPT ![n + 1] = t]
  <2>2. n + 1 \in 1 .. N /\ n \in Nat
    BY <1>0
  <2>3. t \in Seq(V)
    <3>1. CASE n = 0
      BY <1>0, <2>2, <3>1
    <3>2. CASE n # 0
      <4>1. n \in 1 .. N
        BY <2>2, <3>2
      <4>2. f[n] \in Seq(V) /\ s[n + 1] \in Seq(V)
        BY <1>0, <2>2, <4>1
      <4>3. f[n] \o s[n + 1] \in Seq(V)
        BY <4>2
      <4>. QED  BY <3>2, <4>3
    <3>. QED  BY <3>1, <3>2
  <2>. HIDE DEF t
  <2>4. g \in [1 .. N -> Seq(V)] /\ (\A m \in 1 .. n : g[m] = f[m]) /\ g[n + 1] = t
    BY <2>2, <2>3
  <2>. HIDE DEF g
  <2>5. Good(g, n + 1)
    <3> SUFFICES ASSUME NEW m \in 1 .. n + 1
                 PROVE  g[m] = IF m = 1 THEN s[m] ELSE g[m - 1] \o s[m]
      OBVIOUS
    <3>1. CASE m = n + 1
      <4>1. CASE n = 0
        BY <2>4, <3>1, <4>1 DEF t
      <4>2. CASE n # 0
        <5>1. n \in 1 .. n /\ (n + 1) - 1 = n /\ n + 1 # 1
          BY <2>2, <4>2
        <5>. QED  BY <2>4, <3>1, <4>2, <5>1 DEF t
      <4>. QED  BY <4>1, <4>2
    <3>2. CASE m # n + 1
      <4>1. m \in 1 .. n /\ (m = 1 \/ m - 1 \in 1 .. n)
        BY <2>2, <3>2
      <4>. QED  BY <2>1, <2>4, <4>1
    <3>. QED  BY <3>1, <3>2
  <2>6. \E h \in [1 .. N -> Seq(V)] : Good(h, n + 1)
    <3>. HIDE DEF Good
    <3>. QED  BY <2>4, <2>5
  <2>7. n + 1 \in 0 .. N
    BY <1>0
  <2>. HIDE DEF Good
  <2>. QED  BY <2>6, <2>7
<1>4. \A n \in 0 .. N : n \in S
  <2>. HIDE DEF S
  <2>. QED  BY <1>0, <1>2, <1>3, UpTo
<1>5. PICK g \in [1 .. N -> Seq(V)] : Good(g, N)
  <2>1. N \in S
    <3>. HIDE DEF S
    <3>. QED  BY <1>0, <1>4
  <2>. HIDE DEF Good
  <2>. QED  BY <2>1
<1>6. g = F(g)
  BY <1>5
<1>7. flatten = F(flatten)
  <2>. HIDE DEF F
  <2>. QED  BY <1>6
<1>. HIDE DEF flatten
<1>8. \A i \in 1 .. N : flatten[i] = IF i = 1 THEN s[i] ELSE flatten[i - 1] \o s[i]
  BY <1>7
<1>9. flatten = [i \in 1 .. N |-> flatten[i]]
  BY <1>7
<1>. DEFINE T == {n \in 0 .. N : n = 0 \/ flatten[n] = g[n]}
<1>10. 0 \in T /\ \A n \in 0 .. N - 1 : n \in T => n + 1 \in T
  <2>1. 0 \in T
    BY <1>0
  <2>2. ASSUME NEW n \in 0 .. N - 1, n \in T PROVE n + 1 \in T
    <3>1. n + 1 \in 1 .. N /\ (n + 1) - 1 = n /\ (n + 1 = 1 <=> n = 0)
      BY <1>0
    <3>2. flatten[n + 1] = IF n + 1 = 1 THEN s[n + 1] ELSE flatten[n] \o s[n + 1]
      BY <1>8, <3>1
    <3>3. g[n + 1] = IF n + 1 = 1 THEN s[n + 1] ELSE g[n] \o s[n + 1]
      BY <1>5, <3>1
    <3>4. flatten[n + 1] = g[n + 1]
      BY <2>2, <3>1, <3>2, <3>3
    <3>. QED  BY <3>1, <3>4
  <2>. QED  BY <2>1, <2>2
<1>11. \A n \in 0 .. N : n \in T
  <2>. HIDE DEF T
  <2>. QED  BY <1>0, <1>10, UpTo
<1>12. flatten[N] = g[N]
  BY <1>0, <1>11
<1>13. Flattens(g, s)
  BY <1>5 DEF Flattens
<1>. QED  BY <1>1, <1>12, <1>13

\* One sequence more is put at the end.
LEMMA FlattenOneMore ==
  ASSUME NEW V, NEW s \in Seq(Seq(V)), NEW t \in Seq(V)
  PROVE  FlattenSeq(s) \in Seq(V) /\ FlattenSeq(Append(s, t)) = FlattenSeq(s) \o t
<1>. DEFINE e == Append(s, t)
            N == Len(s)
<1>1. /\ e \in Seq(Seq(V)) /\ e # <<>> /\ Len(e) = N + 1 /\ N \in Nat /\ e[N + 1] = t
      /\ \A i \in 1 .. N : e[i] = s[i]
  <2>. DEFINE W == Seq(V)
  <2>1. s \in Seq(W) /\ t \in W
    OBVIOUS
  <2>. HIDE DEF W
  <2>2. e \in Seq(W) /\ e # <<>> /\ Len(e) = N + 1 /\ N \in Nat /\ e[N + 1] = t
    BY <2>1
  <2>3. \A i \in 1 .. N : e[i] = s[i]
    BY <2>1
  <2>. QED  BY <2>2, <2>3 DEF W
<1>. HIDE DEF e
<1>2. PICK g \in [1 .. N + 1 -> Seq(V)] : Flattens(g, e) /\ FlattenSeq(e) = g[N + 1]
  BY <1>1, FlattenSteps
<1>3. CASE s = <<>>
  <2>1. N = 0 /\ FlattenSeq(s) = <<>>
    BY <1>3 DEF FlattenSeq
  <2>2. g[1] = t
    BY <1>1, <1>2, <2>1 DEF Flattens
  <2>. QED  BY <1>2, <2>1, <2>2 DEF e
<1>4. CASE s # <<>>
  <2>1. PICK f \in [1 .. N -> Seq(V)] : Flattens(f, s) /\ FlattenSeq(s) = f[N]
    BY <1>4, FlattenSteps
  <2>. DEFINE T == {n \in 0 .. N : n = 0 \/ f[n] = g[n]}
  <2>2. 0 \in T
    BY <1>1
  <2>3. ASSUME NEW n \in 0 .. N - 1, n \in T PROVE n + 1 \in T
    <3>1. n + 1 \in 1 .. N /\ n + 1 \in 1 .. N + 1 /\ (n + 1) - 1 = n /\ (n + 1 = 1 <=> n = 0)
      BY <1>1
    <3>2. f[n + 1] = IF n + 1 = 1 THEN s[n + 1] ELSE f[n] \o s[n + 1]
      BY <2>1, <3>1 DEF Flattens
    <3>3. g[n + 1] = IF n + 1 = 1 THEN s[n + 1] ELSE g[n] \o s[n + 1]
      BY <1>1, <1>2, <3>1 DEF Flattens
    <3>4. f[n + 1] = g[n + 1]
      BY <2>3, <3>1, <3>2, <3>3
    <3>. QED  BY <3>1, <3>4
  <2>4. \A n \in 0 .. N : n \in T
    <3>. HIDE DEF T
    <3>. QED  BY <1>1, <2>2, <2>3, UpTo
  <2>5. N # 0 /\ N \in 1 .. N /\ N + 1 \in 1 .. N + 1 /\ (N + 1) - 1 = N /\ N + 1 # 1
    BY <1>1, <1>4
  <2>6. f[N] = g[N]
    <3>1. N \in T
      <4>. HIDE DEF T
      <4>. QED  BY <1>1, <2>4
    <3>. QED  BY <2>5, <3>1
  <2>7. g[N + 1] = g[N] \o t
    BY <1>1, <1>2, <2>5 DEF Flattens
  <2>. QED  BY <1>2, <2>1, <2>5, <2>6, <2>7 DEF e
<1>. QED  BY <1>3, <1>4

\* Nothing but empty sequences.
LEMMA FlattenNothing ==
  ASSUME NEW V, NEW s \in Seq(Seq(V)), \A i \in 1 .. Len(s) : s[i] = <<>>
  PROVE  FlattenSeq(s) = <<>>
<1>. DEFINE N == Len(s)
<1>0. N \in Nat
  OBVIOUS
<1>1. CASE s = <<>>
  BY <1>1 DEF FlattenSeq
<1>2. CASE s # <<>>
  <2>1. PICK f \in [1 .. N -> Seq(V)] : Flattens(f, s) /\ FlattenSeq(s) = f[N]
    BY <1>2, FlattenSteps
  <2>. DEFINE T == {n \in 0 .. N : n = 0 \/ f[n] = <<>>}
  <2>2. 0 \in T
    BY <1>0
  <2>3. ASSUME NEW n \in 0 .. N - 1, n \in T PROVE n + 1 \in T
    <3>1. n + 1 \in 1 .. N /\ (n + 1) - 1 = n /\ (n + 1 = 1 <=> n = 0) /\ n + 1 \in 0 .. N
      BY <1>0
    <3>2. f[n + 1] = IF n + 1 = 1 THEN s[n + 1] ELSE f[n] \o s[n + 1]
      BY <2>1, <3>1 DEF Flattens
    <3>3. s[n + 1] = <<>>
      BY <3>1
    <3>4. f[n + 1] = <<>>
      BY <2>3, <3>1, <3>2, <3>3
    <3>. QED  BY <3>1, <3>4
  <2>4. \A n \in 0 .. N : n \in T
    <3>. HIDE DEF T
    <3>. QED  BY <1>0, <2>2, <2>3, UpTo
  <2>5. N # 0
    BY <1>2
  <2>. QED  BY <1>0, <2>1, <2>4, <2>5
<1>. QED  BY <1>1, <1>2

\* All but one are empty.
LEMMA FlattenOne ==
  ASSUME NEW V, NEW s \in Seq(Seq(V)), NEW m \in 1 .. Len(s), \A i \in 1 .. Len(s) : i # m => s[i] = <<>>
  PROVE  FlattenSeq(s) = s[m]
<1>. DEFINE N == Len(s)
            X == Seq(V)
<1>0. N \in Nat /\ s # <<>> /\ m \in 1 .. N /\ s[m] \in Seq(V)
  <2>. HIDE DEF X
  <2>. QED  BY DEF X
<1>1. PICK f \in [1 .. N -> Seq(V)] : Flattens(f, s) /\ FlattenSeq(s) = f[N]
  BY <1>0, FlattenSteps
<1>. DEFINE T == {n \in 0 .. N : n = 0 \/ f[n] = IF n < m THEN <<>> ELSE s[m]}
<1>2. 0 \in T
  BY <1>0
<1>3. ASSUME NEW n \in 0 .. N - 1, n \in T PROVE n + 1 \in T
  <2>1. n + 1 \in 1 .. N /\ (n + 1) - 1 = n /\ (n + 1 = 1 <=> n = 0) /\ n + 1 \in 0 .. N
    BY <1>0
  <2>2. f[n + 1] = IF n + 1 = 1 THEN s[n + 1] ELSE f[n] \o s[n + 1]
    BY <1>1, <2>1 DEF Flattens
  <2>3. CASE n + 1 = m
    <3>1. CASE n = 0
      BY <1>0, <2>1, <2>2, <2>3, <3>1
    <3>2. CASE n # 0
      <4>0. n < m
        BY <1>0, <2>3
      <4>1. f[n] = <<>> /\ f[n + 1] = f[n] \o s[m]
        BY <1>3, <2>1, <2>2, <2>3, <3>2, <4>0
      <4>2. f[n + 1] = s[m]
        BY <1>0, <4>1
      <4>. QED  BY <2>1, <2>3, <4>2
    <3>. QED  BY <3>1, <3>2
  <2>4. CASE n + 1 # m
    <3>1. s[n + 1] = <<>>
      BY <2>1, <2>4
    <3>2. (n + 1 < m <=> n < m) /\ (n = 0 => n + 1 < m)
      BY <1>0, <2>1, <2>4
    <3>3. n # 0 => f[n] \in Seq(V)
      BY <1>1, <2>1
    <3>4. f[n + 1] = IF n = 0 THEN <<>> ELSE f[n]
      BY <2>1, <2>2, <3>1, <3>3
    <3>. QED  BY <1>3, <2>1, <3>2, <3>4
  <2>. QED  BY <2>3, <2>4
<1>4. \A n \in 0 .. N : n \in T
  <2>. HIDE DEF T
  <2>. QED  BY <1>0, <1>2, <1>3, UpTo
<1>5. N \in T /\ N # 0 /\ ~(N < m)
  <2>. HIDE DEF T
  <2>. QED  BY <1>0, <1>4
<1>. QED  BY <1>1, <1>5

-----------------------------------------------------------------------------
(* Documents.                                                              *)

\* The files are documents that name each item once, and V has their items.
Documents(W, V) ==
    \A d \in W :
        /\ IsDocument(d)
        /\ \A p \in DOMAIN d : IsArray(d[p]) =>
              /\ d[p].array \in Seq(V) /\ d[p] = Array(d[p].array)
              /\ \A i, j \in DOMAIN d[p].array : SameName(d[p].array[i], d[p].array[j]) => i = j

\* The items of all arrays of some documents are in one set.
LEMMA ItemsOfAll ==
  ASSUME NEW W, \A d \in W : IsDocument(d) /\ NamesOnce(d)
  PROVE  \E V : Documents(W, V)
<1>. DEFINE arrays(d) == {p \in DOMAIN d : IsArray(d[p])}
            V == UNION {UNION {Range(d[p].array) : p \in arrays(d)} : d \in W}
<1>1. ASSUME NEW d \in W, NEW p \in DOMAIN d, IsArray(d[p])
      PROVE  d[p].array \in Seq(V)
  <2>1. Range(d[p].array) \subseteq V
    BY <1>1
  <2>2. d[p].array \in Seq(Range(d[p].array))
    BY <1>1 DEF IsDocument
  <2>. HIDE DEF V
  <2>. QED  BY <2>1, <2>2
<1>. HIDE DEF V
<1>2. Documents(W, V)
  BY <1>1 DEF Documents, IsDocument, NamesOnce
<1>. QED  BY <1>2

\* What is above what is above a place is above it.
LEMMA AboveIsOrder ==
  ASSUME NEW p \in Seq(STRING), NEW q \in Above(p), NEW r \in Above(q)
  PROVE  r \in Above(p)
<1>1. PICK n \in 0 .. Len(p) - 1 : q = SubSeq(p, 1, n)
  BY DEF Above
<1>2. Len(q) = n /\ q \in Seq(STRING) /\ \A i \in 1 .. n : q[i] = p[i]
  BY <1>1
<1>3. PICK m \in 0 .. n - 1 : r = SubSeq(q, 1, m)
  BY <1>2 DEF Above
<1>4. r = SubSeq(p, 1, m) /\ m \in 0 .. Len(p) - 1
  BY <1>1, <1>2, <1>3
<1>. QED  BY <1>4 DEF Above

\* Tables, arrays and scalars are different things.
LEMMA Kinds ==
  /\ \A v : IsTable(v) => ~IsArray(v)
  /\ \A s : IsArray(Array(s)) /\ Array(s).array = s
<1>1. {"table"} # {"array"}
  OBVIOUS
<1>2. ASSUME NEW v, IsTable(v) PROVE ~IsArray(v)
  BY <1>1, <1>2 DEF IsTable, IsArray
<1>3. ASSUME NEW s PROVE IsArray(Array(s)) /\ Array(s).array = s
  BY DEF IsArray, Array
<1>. QED  BY <1>2, <1>3

\* What deep_merge makes of one place, and of all: of any arrays, with names in
\* them or not, the items are collected.
CollectedAt(values, p) ==
    LET say == Say(values, p)
        run == {i \in say : \A j \in say : j >= i => IsArray(values[j][p])}
        items == FlattenSeq([i \in DOMAIN values |-> IF i \in run THEN values[i][p].array ELSE <<>>])
    IN  IF run = {} THEN values[Max(say)][p] ELSE Array(CollectedItems(items))

Collected(values) ==
    [p \in {p \in UNION {DOMAIN values[i] : i \in DOMAIN values} : Say(values, p) # {}} |->
        CollectedAt(values, p)]

\* The two abbreviations inside CollectedAt: the run of arrays at the end, and the items
\* of each file.
Run(values, p) ==
    {i \in Say(values, p) : \A j \in Say(values, p) : j >= i => IsArray(values[j][p])}
Lists(values, p) ==
    [i \in DOMAIN values |-> IF i \in Run(values, p) THEN values[i][p].array ELSE <<>>]

\* CollectedAt, by the sets and lists named above.
LEMMA CollectedAtIs ==
  ASSUME NEW values, NEW p
  PROVE  CollectedAt(values, p) =
            IF Run(values, p) = {} THEN values[Max(Say(values, p))][p]
            ELSE Array(CollectedItems(FlattenSeq(Lists(values, p))))
BY DEF CollectedAt, Run, Lists

\* Who has a say when there is one file more.
LEMMA SayOfMore ==
  ASSUME NEW W, NEW v \in Seq(W), NEW o \in W, NEW p
  PROVE  LET e == Append(v, o)
         IN  /\ Say(v, p) \in SUBSET (1 .. Len(v))
             /\ \A i \in Say(v, p) : p \in DOMAIN v[i]
             /\ Ends(o, p) => Say(e, p) = {}
             /\ ~Ends(o, p) =>
                   Say(e, p) = Say(v, p) \union (IF p \in DOMAIN o THEN {Len(v) + 1} ELSE {})
<1>. DEFINE e == Append(v, o)
            L == Len(v)
<1>1. /\ L \in Nat /\ DOMAIN v = 1 .. L /\ Len(e) = L + 1 /\ DOMAIN e = 1 .. L + 1
      /\ e[L + 1] = o /\ \A i \in 1 .. L : e[i] = v[i]
  OBVIOUS
<1>. HIDE DEF e, L
<1>2. \A i \in 1 .. L + 1 : L + 1 \in i .. L + 1
  BY <1>1
<1>3. \A i \in 1 .. L + 1 : (i \in 1 .. L \/ i = L + 1)
  BY <1>1
<1>4. Say(v, p) \in SUBSET (1 .. L) /\ \A i \in Say(v, p) : p \in DOMAIN v[i]
  BY <1>1 DEF Say
<1>5. ASSUME Ends(o, p) PROVE Say(e, p) = {}
  BY <1>1, <1>2, <1>5 DEF Say
<1>6. ASSUME ~Ends(o, p)
      PROVE  Say(e, p) = Say(v, p) \union (IF p \in DOMAIN o THEN {L + 1} ELSE {})
  <2>1. ASSUME NEW i \in 1 .. L PROVE i \in Say(e, p) <=> i \in Say(v, p)
    <3>1. \A j \in i .. L + 1 : j \in i .. L \/ j = L + 1
      BY <1>1
    <3>2. \A j \in i .. L : j \in i .. L + 1 /\ j \in 1 .. L
      BY <1>1
    <3>3. (\A j \in i .. L + 1 : ~Ends(e[j], p)) <=> \A j \in i .. L : ~Ends(v[j], p)
      BY <1>1, <1>6, <3>1, <3>2
    <3>4. i \in 1 .. L + 1 /\ e[i] = v[i]
      BY <1>1
    <3>5. i \in Say(e, p) <=> p \in DOMAIN e[i] /\ \A j \in i .. L + 1 : ~Ends(e[j], p)
      BY <1>1, <3>4 DEF Say
    <3>6. i \in Say(v, p) <=> p \in DOMAIN v[i] /\ \A j \in i .. L : ~Ends(v[j], p)
      BY <1>1 DEF Say, L
    <3>. QED  BY Zenon, <3>3, <3>4, <3>5, <3>6
  <2>2. L + 1 \in Say(e, p) <=> p \in DOMAIN o
    <3>1. (L + 1) .. (L + 1) = {L + 1} /\ L + 1 \in 1 .. L + 1
      BY <1>1
    <3>. QED  BY <1>1, <1>6, <3>1 DEF Say
  <2>3. Say(e, p) \subseteq 1 .. L + 1 /\ L + 1 \notin Say(v, p)
    BY <1>1, <1>4 DEF Say
  <2>. QED  BY <1>3, <1>4, <2>1, <2>2, <2>3
<1>. QED  BY <1>4, <1>5, <1>6 DEF e, L

\* The last who has a say, and that the arrays from some file on end there.
LEMMA LastSay ==
  ASSUME NEW W, NEW v \in Seq(W), NEW p, Say(v, p) # {}
  PROVE  LET m == Max(Say(v, p))
         IN  /\ m \in Say(v, p) /\ m \in 1 .. Len(v) /\ v[m] \in W /\ p \in DOMAIN v[m]
             /\ \A i \in Say(v, p) : i <= m
             /\ Run(v, p) # {} <=> IsArray(v[m][p])
<1>. DEFINE S == Say(v, p)
            m == Max(S)
<1>1. S # {} /\ Len(v) \in Nat /\ S \in SUBSET (1 .. Len(v)) /\ \A i \in S : p \in DOMAIN v[i] /\ i \in Int
  BY DEF Say
<1>2. m \in S /\ \A i \in S : i <= m
  <2>. HIDE DEF S
  <2>. QED  BY <1>1, MaxIsGreatest
<1>3. v[m] \in W
  BY <1>1, <1>2
<1>. HIDE DEF S, m
<1>4. \A i \in S : i >= m => i = m
  BY <1>1, <1>2
<1>5. IsArray(v[m][p]) => m \in Run(v, p)
  BY <1>2, <1>4 DEF Run, S
<1>6. ASSUME NEW i \in Run(v, p) PROVE IsArray(v[m][p])
  <2>1. i \in S /\ m >= i
    BY <1>1, <1>2 DEF Run, S
  <2>. QED  BY <1>2, <2>1 DEF Run, S
<1>. QED  BY <1>1, <1>2, <1>3, <1>5, <1>6 DEF S, m

\* What is said of a place is said in tables.
LEMMA CollectedInTables ==
  ASSUME NEW W, NEW V, Documents(W, V), NEW v \in Seq(W), NEW p \in DOMAIN Collected(v),
         NEW q \in Above(p)
  PROVE  q \in DOMAIN Collected(v) /\ IsTable(Collected(v)[q])
<1>1. PICK i \in Say(v, p) : TRUE
  BY DEF Collected
<1>2. i \in 1 .. Len(v) /\ p \in DOMAIN v[i] /\ \A j \in i .. Len(v) : ~Ends(v[j], p)
  BY DEF Say
<1>3. v[i] \in W /\ IsDocument(v[i])
  BY <1>2 DEF Documents
<1>4. q \in DOMAIN v[i] /\ IsTable(v[i][q]) /\ p \in Seq(STRING)
  BY <1>2, <1>3 DEF IsDocument
<1>5. \A j \in i .. Len(v) : ~Ends(v[j], q)
  BY <1>2, <1>4, AboveIsOrder DEF Ends
<1>6. i \in Say(v, q)
  BY <1>2, <1>4, <1>5 DEF Say
<1>. DEFINE m == Max(Say(v, q))
<1>7. /\ m \in Say(v, q) /\ m \in 1 .. Len(v) /\ q \in DOMAIN v[m] /\ i <= m
      /\ Run(v, q) # {} <=> IsArray(v[m][q])
  BY <1>6, LastSay
<1>. HIDE DEF m
<1>8. IsTable(v[m][q])
  <2>1. m \in i .. Len(v)
    BY <1>2, <1>7
  <2>. QED  BY <1>2, <1>7, <2>1 DEF Ends
<1>9. CollectedAt(v, q) = v[m][q]
  BY <1>7, <1>8, Kinds, CollectedAtIs DEF m
<1>10. q \in UNION {DOMAIN v[j] : j \in DOMAIN v} /\ Say(v, q) # {}
  BY <1>2, <1>4, <1>6
<1>. QED  BY <1>8, <1>9, <1>10 DEF Collected

\* The items of the files of the run.
LEMMA ListsAre ==
  ASSUME NEW W, NEW V, Documents(W, V), NEW v \in Seq(W), NEW p
  PROVE  /\ Lists(v, p) \in Seq(Seq(V)) /\ Len(Lists(v, p)) = Len(v)
         /\ FlattenSeq(Lists(v, p)) \in Seq(V)
         /\ Run(v, p) = {} => FlattenSeq(Lists(v, p)) = <<>>
<1>. DEFINE l == Lists(v, p)
            L == Len(v)
            X == Seq(V)
<1>1. L \in Nat /\ DOMAIN v = 1 .. L /\ \A i \in 1 .. L : v[i] \in W
  OBVIOUS
<1>2. ASSUME NEW i \in Run(v, p) PROVE v[i][p].array \in X
  <2>1. i \in 1 .. L /\ i \in Say(v, p) /\ p \in DOMAIN v[i] /\ i >= i
    BY <1>1 DEF Run, Say
  <2>2. IsArray(v[i][p])
    BY <2>1 DEF Run
  <2>. QED  BY <1>1, <2>1, <2>2 DEF Documents
<1>3. <<>> \in X
  OBVIOUS
<1>4. /\ l \in Seq(X) /\ Len(l) = L
      /\ \A i \in 1 .. L : l[i] = IF i \in Run(v, p) THEN v[i][p].array ELSE <<>>
  <2>. HIDE DEF X
  <2>. QED  BY <1>1, <1>2, <1>3 DEF Lists
<1>. HIDE DEF l
<1>5. FlattenSeq(l) \in Seq(V)
  BY <1>3, <1>4, FlattenOneMore
<1>6. ASSUME Run(v, p) = {} PROVE FlattenSeq(l) = <<>>
  BY <1>4, <1>6, FlattenNothing
<1>. QED  BY <1>4, <1>5, <1>6 DEF l

\* One more file lengthens the items of a run by its own.
LEMMA ListsOfMore ==
  ASSUME NEW W, NEW V, Documents(W, V), NEW v \in Seq(W), NEW o \in W, NEW p,
         Run(Append(v, o), p) = Run(v, p) \union (IF IsArray(o[p]) /\ p \in DOMAIN o THEN {Len(v) + 1} ELSE {})
  PROVE  FlattenSeq(Lists(Append(v, o), p)) =
            FlattenSeq(Lists(v, p)) \o (IF IsArray(o[p]) /\ p \in DOMAIN o THEN o[p].array ELSE <<>>)
<1>. DEFINE e == Append(v, o)
            L == Len(v)
            t == IF IsArray(o[p]) /\ p \in DOMAIN o THEN o[p].array ELSE <<>>
            l == Lists(v, p)
            X == Seq(V)
<1>1. /\ L \in Nat /\ DOMAIN v = 1 .. L /\ Len(e) = L + 1 /\ DOMAIN e = 1 .. L + 1
      /\ e[L + 1] = o /\ \A i \in 1 .. L : e[i] = v[i]
  OBVIOUS
<1>2. t \in X
  <2>1. <<>> \in X
    OBVIOUS
  <2>. HIDE DEF X
  <2>2. IsArray(o[p]) /\ p \in DOMAIN o => o[p].array \in X
    BY DEF Documents, X
  <2>. QED  BY <2>1, <2>2
<1>3. l \in Seq(X) /\ Len(l) = L
  BY ListsAre
<1>4. Run(e, p) = Run(v, p) \union (IF IsArray(o[p]) /\ p \in DOMAIN o THEN {L + 1} ELSE {})
  OBVIOUS
<1>5. Run(v, p) \in SUBSET (1 .. L)
  BY <1>1 DEF Run, Say
<1>6. Lists(e, p) = [i \in 1 .. L + 1 |-> IF i \in Run(e, p) THEN e[i][p].array ELSE <<>>]
  BY <1>1, Zenon DEF Lists
<1>7. \A i \in 1 .. L : l[i] = IF i \in Run(v, p) THEN v[i][p].array ELSE <<>>
  BY <1>1 DEF Lists
<1>. HIDE DEF e, L, t, l, X
<1>8. Lists(e, p) = Append(l, t)
  <2>. DEFINE q == Append(l, t)
  <2>0. /\ q \in Seq(X) /\ Len(q) = L + 1 /\ q[L + 1] = t
        /\ \A i \in 1 .. L : q[i] = l[i]
    BY <1>1, <1>2, <1>3
  <2>1. q = [i \in 1 .. L + 1 |-> IF i = L + 1 THEN t ELSE l[i]]
    <3>. HIDE DEF q
    <3>1. q = [i \in 1 .. L + 1 |-> q[i]]
      BY <1>1, <2>0
    <3>2. ASSUME NEW i \in 1 .. L + 1 PROVE q[i] = IF i = L + 1 THEN t ELSE l[i]
      <4>1. i = L + 1 \/ i \in 1 .. L
        BY <1>1
      <4>2. L + 1 \notin 1 .. L
        BY <1>1
      <4>. QED  BY <2>0, <4>1, <4>2
    <3>. QED  BY <3>1, <3>2
  <2>2. ASSUME NEW i \in 1 .. L + 1
        PROVE  (IF i \in Run(e, p) THEN e[i][p].array ELSE <<>>) = IF i = L + 1 THEN t ELSE l[i]
    <3>1. CASE i = L + 1
      <4>1. L + 1 \notin Run(v, p)
        BY <1>1, <1>5
      <4>. QED  BY <1>1, <1>4, <3>1, <4>1 DEF t
    <3>2. CASE i # L + 1
      <4>1. i \in 1 .. L
        BY <1>1, <3>2
      <4>. QED  BY <1>1, <1>4, <1>7, <3>2, <4>1
    <3>. QED  BY <3>1, <3>2
  <2>. QED  BY <1>6, <2>1, <2>2
<1>9. FlattenSeq(Append(l, t)) = FlattenSeq(l) \o t
  BY <1>2, <1>3, FlattenOneMore DEF X
<1>. QED  BY <1>8, <1>9 DEF e, l, t

\* A file that does not speak of a place leaves what is said of it, unless it
\* ends it.
LEMMA CollectedOn ==
  ASSUME NEW W, NEW V, Documents(W, V), NEW v \in Seq(W), NEW o \in W, NEW p,
         ~Ends(o, p), p \notin DOMAIN o, Say(v, p) # {}
  PROVE  CollectedAt(Append(v, o), p) = CollectedAt(v, p)
<1>. DEFINE e == Append(v, o)
            m == Max(Say(v, p))
<1>1. Say(e, p) = Say(v, p)
  <2>1. Say(e, p) = Say(v, p) \union (IF p \in DOMAIN o THEN {Len(v) + 1} ELSE {})
    BY SayOfMore
  <2>. QED  BY <2>1
<1>2. \A i \in Say(v, p) : e[i] = v[i]
  BY SayOfMore
<1>3. m \in Say(v, p)
  BY LastSay
<1>4. Run(e, p) = Run(v, p)
  <2>. HIDE DEF e
  <2>. QED  BY <1>1, <1>2 DEF Run
<1>5. FlattenSeq(Lists(e, p)) = FlattenSeq(Lists(v, p))
  <2>1. FlattenSeq(Lists(e, p)) = FlattenSeq(Lists(v, p)) \o <<>>
    BY <1>4, ListsOfMore
  <2>2. FlattenSeq(Lists(v, p)) \in Seq(V)
    BY ListsAre
  <2>. QED  BY <2>1, <2>2
<1>. HIDE DEF e
<1>6. Max(Say(e, p)) = m /\ e[m] = v[m]
  BY <1>1, <1>2, <1>3
<1>. QED  BY <1>1, <1>4, <1>5, <1>6, CollectedAtIs DEF e

\* A file that says something else than an array says all there is.
LEMMA CollectedAnew ==
  ASSUME NEW W, NEW V, Documents(W, V), NEW v \in Seq(W), NEW o \in W, NEW p,
         ~Ends(o, p), p \in DOMAIN o, ~IsArray(o[p])
  PROVE  CollectedAt(Append(v, o), p) = o[p]
<1>. DEFINE e == Append(v, o)
            L == Len(v)
<1>1. e \in Seq(W) /\ L \in Nat /\ e[L + 1] = o /\ Len(e) = L + 1
  OBVIOUS
<1>2. Say(e, p) = Say(v, p) \union {L + 1} /\ Say(v, p) \in SUBSET (1 .. L)
  BY SayOfMore
<1>. HIDE DEF e, L
<1>3. Max(Say(e, p)) = L + 1 /\ Run(e, p) = {}
  <2>. DEFINE m == Max(Say(e, p))
  <2>1. /\ m \in Say(e, p) /\ m \in 1 .. L + 1 /\ L + 1 <= m
        /\ Run(e, p) # {} <=> IsArray(e[m][p])
    BY <1>1, <1>2, LastSay
  <2>. HIDE DEF m
  <2>2. m = L + 1
    BY <1>1, <2>1
  <2>. QED  BY <1>1, <2>1, <2>2 DEF m
<1>. QED  BY <1>1, <1>3, CollectedAtIs DEF e

\* An array goes to those that stand there, unless something else does.
LEMMA CollectedMore ==
  ASSUME NEW W, NEW V, Documents(W, V), NEW v \in Seq(W), NEW o \in W, NEW p,
         ~Ends(o, p), p \in DOMAIN o, IsArray(o[p])
  PROVE  CollectedAt(Append(v, o), p) =
            IF Say(v, p) # {} /\ IsArray(CollectedAt(v, p))
            THEN Array(PutItems(CollectedAt(v, p).array, o[p].array)) ELSE o[p]
<1>. DEFINE e == Append(v, o)
            L == Len(v)
            flat == FlattenSeq(Lists(v, p))
            more == o[p].array
<1>1. /\ L \in Nat /\ e[L + 1] = o /\ \A i \in 1 .. L : e[i] = v[i]
  OBVIOUS
<1>2. Say(e, p) = Say(v, p) \union {L + 1} /\ Say(v, p) \in SUBSET (1 .. L)
  BY SayOfMore
<1>3. /\ more \in Seq(V) /\ o[p] = Array(more)
      /\ \A i, j \in DOMAIN more : SameName(more[i], more[j]) => i = j
  BY DEF Documents
<1>4. flat \in Seq(V) /\ (Run(v, p) = {} => flat = <<>>)
  BY ListsAre
<1>5. Run(e, p) = Run(v, p) \union {L + 1}
  <2>. HIDE DEF e, L
  <2>1. \A i \in Say(v, p) : i \in 1 .. L /\ e[i] = v[i] /\ L + 1 >= i /\ ~(i >= L + 1)
    BY <1>1, <1>2
  <2>2. L + 1 \in Run(e, p)
    BY <1>1, <1>2, <2>1 DEF Run
  <2>3. ASSUME NEW i \in Say(v, p) PROVE i \in Run(e, p) <=> i \in Run(v, p)
    BY <1>1, <1>2, <2>1 DEF Run
  <2>4. Run(e, p) \subseteq Say(e, p) /\ Run(v, p) \subseteq Say(v, p)
    BY DEF Run
  <2>. QED  BY <1>2, <2>2, <2>3, <2>4
<1>6. FlattenSeq(Lists(e, p)) = flat \o more
  BY <1>5, ListsOfMore
<1>7. CollectedAt(e, p) = Array(CollectedItems(flat \o more))
  <2>. HIDE DEF e, L, flat, more
  <2>. QED  BY <1>5, <1>6, CollectedAtIs
<1>8. CASE Run(v, p) # {}
  <2>1. Say(v, p) # {}
    BY <1>8 DEF Run
  <2>2. CollectedAt(v, p) = Array(CollectedItems(flat))
    BY <1>8, CollectedAtIs
  <2>3. PutItems(CollectedItems(flat), more) = CollectedItems(flat \o more)
    BY <1>3, <1>4, MoreItems
  <2>. QED  BY <1>7, <2>1, <2>2, <2>3, Kinds DEF e
<1>9. CASE Run(v, p) = {}
  <2>1. Say(v, p) # {} => ~IsArray(CollectedAt(v, p))
    <3> SUFFICES ASSUME Say(v, p) # {} PROVE ~IsArray(CollectedAt(v, p))
      OBVIOUS
    <3>1. ~IsArray(v[Max(Say(v, p))][p])
      BY <1>9, LastSay
    <3>. QED  BY <1>9, <3>1, CollectedAtIs
  <2>2. flat \o more = more
    <3>. HIDE DEF flat, more
    <3>. QED  BY <1>3, <1>4, <1>9
  <2>3. CollectedItems(more) = more
    <3>. HIDE DEF more
    <3>. QED  BY <1>3, NamesOnceCollected
  <2>. QED  BY <1>3, <1>7, <2>1, <2>2, <2>3 DEF e
<1>. QED  BY <1>8, <1>9

-----------------------------------------------------------------------------
\* Collected is CollectedAt where somebody has a say.
LEMMA CollectedIs ==
  ASSUME NEW v
  PROVE  /\ Collected(v) = [p \in DOMAIN Collected(v) |-> CollectedAt(v, p)]
         /\ \A p : p \in DOMAIN Collected(v) <=> Say(v, p) # {}
<1>. DEFINE P == {p \in UNION {DOMAIN v[i] : i \in DOMAIN v} : Say(v, p) # {}}
<1>1. Collected(v) = [p \in P |-> CollectedAt(v, p)]
  BY DEF Collected
<1>2. ASSUME NEW p, Say(v, p) # {} PROVE p \in UNION {DOMAIN v[i] : i \in DOMAIN v}
  BY <1>2 DEF Say
<1>3. \A p : p \in P <=> Say(v, p) # {}
  BY <1>2
<1>. HIDE DEF P
<1>4. DOMAIN Collected(v) = P
  BY <1>1
<1>. QED  BY <1>1, <1>3, <1>4

\* deep_merge of a file over what the files before it declare.
LEMMA OneFileMore ==
  ASSUME NEW W, NEW V, Documents(W, V), NEW v \in Seq(W), NEW o \in W
  PROVE  Merged(Collected(v), o) = Collected(Append(v, o))
<1>. DEFINE e == Append(v, o)
            D == Collected(v)
            called == DOMAIN D \intersect DOMAIN o
            arrays == {p \in called : IsArray(D[p]) /\ IsArray(o[p])}
            tables == {p \in called : IsTable(D[p]) /\ IsTable(o[p])}
            kept == {p \in DOMAIN D : Above(p) \intersect called \subseteq tables}
            value(p) == IF p \in arrays THEN Array(PutItems(D[p].array, o[p].array))
                        ELSE IF p \in DOMAIN o THEN o[p] ELSE D[p]
<1>1. Merged(D, o) = [p \in kept \union DOMAIN o |-> value(p)]
  BY DEF Merged
<1>2. \A p : p \in DOMAIN D <=> Say(v, p) # {}
  BY CollectedIs
<1>3. \A p \in DOMAIN D : D[p] = CollectedAt(v, p)
  BY CollectedIs
<1>4. /\ \A p : p \in DOMAIN Collected(e) <=> Say(e, p) # {}
      /\ Collected(e) = [p \in DOMAIN Collected(e) |-> CollectedAt(e, p)]
  BY CollectedIs
<1>5. ASSUME NEW p \in DOMAIN o PROVE ~Ends(o, p)
  BY DEF Documents, IsDocument, Ends
<1>6. ASSUME NEW p \in DOMAIN D, NEW q \in Above(p) PROVE q \in DOMAIN D /\ IsTable(D[q])
  BY CollectedInTables
<1>7. ASSUME NEW p PROVE /\ Ends(o, p) => Say(e, p) = {}
                         /\ ~Ends(o, p) /\ p \in DOMAIN o => Say(e, p) # {}
                         /\ ~Ends(o, p) /\ p \notin DOMAIN o => Say(e, p) = Say(v, p)
  <2>1. Ends(o, p) => Say(e, p) = {}
    BY SayOfMore
  <2>2. ~Ends(o, p) => Say(e, p) = Say(v, p) \union (IF p \in DOMAIN o THEN {Len(v) + 1} ELSE {})
    BY SayOfMore
  <2>. HIDE DEF e
  <2>. QED  BY <2>1, <2>2
<1>. HIDE DEF e, D
<1>8. ASSUME NEW p \in DOMAIN D PROVE p \in kept <=> ~Ends(o, p)
  BY <1>6 DEF Ends
<1>9. \A p : p \in kept => p \in DOMAIN D
  OBVIOUS
<1>. HIDE DEF kept
<1>10. DOMAIN Collected(e) = kept \union DOMAIN o
  <2>1. ASSUME NEW p PROVE p \in DOMAIN Collected(e) <=> p \in kept \union DOMAIN o
    <3>1. p \in DOMAIN Collected(e) <=> Say(e, p) # {}
      BY <1>4
    <3>2. p \in kept <=> p \in DOMAIN D /\ ~Ends(o, p)
      BY <1>8, <1>9
    <3>3. p \in DOMAIN D <=> Say(v, p) # {}
      BY <1>2
    <3>. QED  BY <1>5, <1>7, <3>1, <3>2, <3>3
  <2>. QED  BY <2>1
<1>11. ASSUME NEW p \in kept \union DOMAIN o PROVE value(p) = CollectedAt(e, p)
  <2>1. ~Ends(o, p)
    BY <1>5, <1>8, <1>9
  <2>2. CASE p \notin DOMAIN o
    <3>1. p \in DOMAIN D /\ D[p] = CollectedAt(v, p) /\ Say(v, p) # {}
      BY <1>2, <1>3, <1>9, <2>2
    <3>2. CollectedAt(e, p) = CollectedAt(v, p)
      BY <2>1, <2>2, <3>1, CollectedOn DEF e
    <3>. QED  BY <2>2, <3>1, <3>2
  <2>3. CASE p \in DOMAIN o /\ ~IsArray(o[p])
    <3>1. CollectedAt(e, p) = o[p]
      BY <2>1, <2>3, CollectedAnew DEF e
    <3>. QED  BY <2>3, <3>1
  <2>4. CASE p \in DOMAIN o /\ IsArray(o[p])
    <3>1. CollectedAt(e, p) = IF Say(v, p) # {} /\ IsArray(CollectedAt(v, p))
                       THEN Array(PutItems(CollectedAt(v, p).array, o[p].array)) ELSE o[p]
      BY <2>1, <2>4, CollectedMore DEF e
    <3>2. p \in arrays <=> p \in DOMAIN D /\ IsArray(D[p])
      BY <2>4
    <3>3. p \in DOMAIN D <=> Say(v, p) # {}
      BY <1>2
    <3>4. p \in DOMAIN D => D[p] = CollectedAt(v, p)
      BY <1>3
    <3>. HIDE DEF arrays
    <3>. QED  BY Zenon, <2>4, <3>1, <3>2, <3>3, <3>4
  <2>. QED  BY <2>2, <2>3, <2>4
<1>12. Collected(e) = [p \in kept \union DOMAIN o |-> value(p)]
  <2>. HIDE DEF value
  <2>. QED  BY <1>4, <1>10, <1>11
<1>. QED  BY <1>1, <1>12 DEF D, e

\* One file says what it says.
LEMMA OneFile ==
  ASSUME NEW W, NEW V, Documents(W, V), NEW m \in W
  PROVE  Collected(<<m>>) = m
<1>. DEFINE none == <<>>
            D == Collected(none)
<1>1. none \in Seq(W) /\ Append(none, m) = <<m>>
  OBVIOUS
<1>2. DOMAIN D = {}
  <2>1. ASSUME NEW p PROVE Say(none, p) = {}
    BY DEF Say
  <2>. QED  BY <2>1, CollectedIs
<1>3. Collected(<<m>>) = Merged(D, m)
  BY <1>1, OneFileMore
<1>. HIDE DEF D
<1>4. Merged(D, m) = [p \in DOMAIN m |-> m[p]]
  BY <1>2 DEF Merged
<1>5. m = [p \in DOMAIN m |-> m[p]]
  BY DEF Documents, IsDocument
<1>. QED  BY <1>3, <1>4, <1>5

\* deep_merge of a file at a time: what all of them say is collected.
LEMMA FilesCollected ==
  ASSUME NEW W, \A d \in W : IsDocument(d) /\ NamesOnce(d), NEW bottom \in W, NEW confd \in Seq(W)
  PROVE  MergedFiles(bottom, confd) = Collected(<<bottom>> \o confd)
<1>. DEFINE N == Len(confd)
            F(f) == [n \in 0 .. N |-> IF n = 0 THEN bottom ELSE Merged(f[n - 1], confd[n])]
            z(n) == <<bottom>> \o SubSeq(confd, 1, n)
            g == [n \in 0 .. N |-> Collected(z(n))]
            merged == CHOOSE f : f = F(f)
<1>0. PICK V : Documents(W, V)
  BY ItemsOfAll
<1>1. MergedFiles(bottom, confd) = merged[N]
  BY DEF MergedFiles
<1>2. N \in Nat
  OBVIOUS
<1>3. z(0) = <<bottom>> /\ z(N) = <<bottom>> \o confd
  <2>1. SubSeq(confd, 1, 0) = <<>> /\ SubSeq(confd, 1, N) = confd
    OBVIOUS
  <2>2. <<bottom>> \in Seq(W)
    OBVIOUS
  <2>3. <<bottom>> \o <<>> = <<bottom>>
    <3>. DEFINE b == <<bottom>>
    <3>. HIDE DEF b
    <3>1. b \o <<>> = b
      BY <2>2 DEF b
    <3>. QED  BY <3>1 DEF b
  <2>. QED  BY <2>1, <2>3
<1>4. ASSUME NEW n \in 1 .. N
      PROVE  z(n - 1) \in Seq(W) /\ confd[n] \in W /\ z(n) = Append(z(n - 1), confd[n])
  <2>1. SubSeq(confd, 1, n) = Append(SubSeq(confd, 1, n - 1), confd[n])
    OBVIOUS
  <2>2. SubSeq(confd, 1, n - 1) \in Seq(W) /\ confd[n] \in W /\ <<bottom>> \in Seq(W)
    OBVIOUS
  <2>. QED  BY <2>1, <2>2
<1>. HIDE DEF z
<1>5. ASSUME NEW n \in 1 .. N PROVE Collected(z(n)) = Merged(Collected(z(n - 1)), confd[n])
  BY <1>0, <1>4, OneFileMore
<1>b. Collected(z(0)) = bottom
  BY <1>0, <1>3, OneFile
<1>6. g = F(g)
  <2>1. ASSUME NEW n \in 0 .. N
        PROVE  g[n] = IF n = 0 THEN bottom ELSE Merged(g[n - 1], confd[n])
    <3>1. CASE n = 0
      BY <1>b, <3>1
    <3>2. CASE n # 0
      <4>1. n \in 1 .. N /\ n - 1 \in 0 .. N
        BY <1>2, <3>2
      <4>. QED  BY <1>5, <3>2, <4>1
    <3>. QED  BY <3>1, <3>2
  <2>. QED  BY <2>1
<1>7. merged = F(merged)
  <2>. HIDE DEF F, g
  <2>. QED  BY <1>6
<1>8. \A n \in 0 .. N : merged[n] = IF n = 0 THEN bottom ELSE Merged(merged[n - 1], confd[n])
  <2>. HIDE DEF merged
  <2>. QED  BY <1>7
<1>. DEFINE S == {n \in 0 .. N : merged[n] = Collected(z(n))}
<1>. HIDE DEF merged, F
<1>9. 0 \in S
  BY <1>2, <1>b, <1>8
<1>10. ASSUME NEW n \in 0 .. N - 1, n \in S PROVE n + 1 \in S
  <2>1. n + 1 \in 1 .. N /\ n + 1 \in 0 .. N /\ (n + 1) - 1 = n /\ n + 1 # 0
    BY <1>2
  <2>2. merged[n + 1] = Merged(merged[n], confd[n + 1])
    BY <1>8, <2>1
  <2>. QED  BY <1>5, <1>10, <2>1, <2>2
<1>. HIDE DEF S
<1>11. \A n \in 0 .. N : n \in S
  BY <1>2, <1>9, <1>10, UpTo
<1>12. merged[N] = Collected(z(N))
  BY <1>2, <1>11 DEF S
<1>. QED  BY <1>1, <1>3, <1>12

-----------------------------------------------------------------------------
(* Where arrays stack by name, what is collected is what is declared.      *)

\* Items that all have names: each is among those of its name.
LEMMA NamedItems ==
  ASSUME NEW V, NEW c \in Seq(V), \A x \in V : HasName(x)
  PROVE  DeclaredItems(c) = CollectedItems(c)
<1>. DEFINE L == Len(c)
            F == Firsts(c)
            K == Cardinality(F)
            twins(i) == {j \in DOMAIN c : SameName(c[i], c[j])}
            firsts == {i \in DOMAIN c : i = Min(twins(i))}
            declared == [n \in 1 .. Cardinality(firsts) |-> c[Max(twins(Nth(firsts, n)))]]
            collected == [n \in 1 .. K |-> c[Max(Twins(c, Nth(F, n)))]]
<1>1. DeclaredItems(c) = declared
  BY DEF DeclaredItems, Nth, Rank
<1>2. CollectedItems(c) = collected
  BY DEF CollectedItems, Twins, Firsts, Nth, Rank
<1>3. L \in Nat /\ DOMAIN c = 1 .. L /\ F \in SUBSET (1 .. L)
  BY DEF Firsts
<1>4. ASSUME NEW i \in 1 .. L PROVE twins(i) = Twins(c, i)
  <2>1. SameName(c[i], c[i])
    BY DEF SameName
  <2>. QED  BY <1>3, <2>1 DEF Twins
<1>. HIDE DEF twins
<1>5. firsts = F
  BY <1>3, <1>4 DEF Firsts
<1>6. \A n \in 1 .. K : \E i \in F : Rank(F, i) = n
  BY <1>3, RankIsPlace
<1>. HIDE DEF F, K, firsts
<1>7. ASSUME NEW n \in 1 .. K PROVE Nth(F, n) \in 1 .. L
  BY <1>3, <1>6 DEF Nth
<1>8. \A n \in 1 .. K : c[Max(twins(Nth(F, n)))] = c[Max(Twins(c, Nth(F, n)))]
  BY <1>4, <1>7
<1>9. Cardinality(firsts) = K
  BY <1>5 DEF K
<1>10. declared = collected
  BY <1>5, <1>8, <1>9
<1>. HIDE DEF declared, collected
<1>. QED  BY <1>1, <1>2, <1>10

\* The two abbreviations inside Said.
NamedRun(values, p) ==
    {i \in Say(values, p) : \A j \in Say(values, p) : j >= i => NamedArray(values[j][p])}
NamedLists(values, p) ==
    [i \in DOMAIN values |-> IF i \in NamedRun(values, p) THEN values[i][p].array ELSE <<>>]

LEMMA SaidIs ==
  ASSUME NEW values, NEW p
  PROVE  Said(values, p) =
            IF NamedRun(values, p) = {} THEN values[Max(Say(values, p))][p]
            ELSE Array(DeclaredItems(FlattenSeq(NamedLists(values, p))))
BY DEF Said, NamedRun, NamedLists

\* The files whose arrays are all named say in one run what is declared.
LEMMA NamedRunIsDeclared ==
  ASSUME NEW W, NEW V, Documents(W, V), NEW v \in Seq(W), NEW p, Run(v, p) # {},
         \A i \in Run(v, p) : NamedArray(v[i][p])
  PROVE  Said(v, p) = CollectedAt(v, p)
<1>. DEFINE VN == {x \in V : HasName(x)}
            l == Lists(v, p)
            L == Len(v)
            X == Seq(VN)
<1>1. L \in Nat /\ DOMAIN v = 1 .. L /\ \A i \in 1 .. L : v[i] \in W
  OBVIOUS
<1>2. NamedRun(v, p) = Run(v, p)
  <2>1. \A i \in Say(v, p) : i \in Int
    BY DEF Say
  <2>2. ASSUME NEW i \in Run(v, p), NEW j \in Say(v, p), j >= i PROVE NamedArray(v[j][p])
    <3>1. \A k \in Say(v, p) : k >= j => k >= i
      BY <2>1, <2>2 DEF Run
    <3>2. j \in Run(v, p)
      BY <2>2, <3>1 DEF Run
    <3>. QED  BY <3>2
  <2>3. Run(v, p) \subseteq NamedRun(v, p)
    BY <2>2 DEF Run, NamedRun
  <2>. QED  BY <2>3 DEF NamedRun, Run, NamedArray
<1>3. NamedLists(v, p) = l
  BY <1>2 DEF NamedLists, Lists
<1>4. ASSUME NEW i \in Run(v, p) PROVE v[i][p].array \in X
  <2>1. i \in 1 .. L /\ p \in DOMAIN v[i] /\ NamedArray(v[i][p])
    BY <1>1 DEF Run, Say
  <2>2. v[i][p].array \in Seq(V)
    BY <1>1, <2>1 DEF Documents, NamedArray
  <2>3. \A k \in DOMAIN v[i][p].array : HasName(v[i][p].array[k])
    BY <2>1 DEF NamedArray
  <2>. QED  BY <2>2, <2>3
<1>5. <<>> \in X
  OBVIOUS
<1>6. l \in Seq(X)
  <2>. HIDE DEF X
  <2>1. l = [i \in 1 .. L |-> IF i \in Run(v, p) THEN v[i][p].array ELSE <<>>]
    BY <1>1 DEF Lists
  <2>. QED  BY <1>1, <1>4, <1>5, <2>1
<1>. HIDE DEF l
<1>7. FlattenSeq(l) \in X
  <2>. HIDE DEF VN
  <2>. QED  BY <1>5, <1>6, FlattenOneMore
<1>8. DeclaredItems(FlattenSeq(l)) = CollectedItems(FlattenSeq(l))
  <2>1. \A x \in VN : HasName(x)
    OBVIOUS
  <2>. HIDE DEF VN
  <2>. QED  BY <1>7, <2>1, NamedItems
<1>. QED  BY <1>2, <1>3, <1>8, SaidIs, CollectedAtIs DEF l

\* A file alone in its run says what it says.
LEMMA LoneArray ==
  ASSUME NEW W, NEW V, Documents(W, V), NEW v \in Seq(W), NEW p, NEW m, Run(v, p) = {m}
  PROVE  CollectedAt(v, p) = v[m][p] /\ Max(Say(v, p)) = m
<1>. DEFINE l == Lists(v, p)
            L == Len(v)
            c == v[m][p].array
<1>1. L \in Nat /\ DOMAIN v = 1 .. L /\ \A i \in 1 .. L : v[i] \in W
  OBVIOUS
<1>2. m \in 1 .. L /\ m \in Say(v, p) /\ p \in DOMAIN v[m] /\ IsArray(v[m][p])
  <2>1. m \in Say(v, p) /\ m >= m
    BY <1>1 DEF Run, Say
  <2>. QED  BY <1>1, <2>1 DEF Run, Say
<1>3. Max(Say(v, p)) = m
  <2>1. /\ Max(Say(v, p)) \in Say(v, p) /\ \A i \in Say(v, p) : i <= Max(Say(v, p))
        /\ Max(Say(v, p)) \in 1 .. L
    BY <1>2, LastSay
  <2>2. Max(Say(v, p)) >= m
    BY <1>2, <2>1
  <2>3. IsArray(v[Max(Say(v, p))][p])
    BY <2>1, <2>2 DEF Run
  <2>4. \A j \in Say(v, p) : j >= Max(Say(v, p)) => j = Max(Say(v, p))
    <3>1. \A j \in Say(v, p) : j \in Int
      BY DEF Say
    <3>. QED  BY <2>1, <3>1
  <2>5. Max(Say(v, p)) \in Run(v, p)
    BY <2>1, <2>3, <2>4 DEF Run
  <2>. QED  BY <2>5
<1>4. /\ c \in Seq(V) /\ v[m][p] = Array(c)
      /\ \A i, j \in DOMAIN c : SameName(c[i], c[j]) => i = j
  BY <1>1, <1>2 DEF Documents
<1>5. l \in Seq(Seq(V)) /\ Len(l) = L
  BY ListsAre
<1>6. l[m] = c /\ \A i \in 1 .. L : i # m => l[i] = <<>>
  BY <1>1, <1>2 DEF Lists
<1>. HIDE DEF l
<1>7. FlattenSeq(l) = c
  <2>. HIDE DEF c
  <2>. QED  BY <1>2, <1>4, <1>5, <1>6, FlattenOne
<1>8. CollectedItems(c) = c
  BY <1>4, NamesOnceCollected
<1>. QED  BY <1>3, <1>4, <1>7, <1>8, CollectedAtIs DEF l

\* Files whose arrays stack by name: collected is declared.
LEMMA CollectedAsDeclared ==
  ASSUME NEW W, NEW V, Documents(W, V), NEW v \in Seq(W), StackByName(v)
  PROVE  Collected(v) = Declared(v)
<1>1. ASSUME NEW p, Say(v, p) # {} PROVE CollectedAt(v, p) = Said(v, p)
  <2>0. NamedRun(v, p) \subseteq Run(v, p)
    BY DEF NamedRun, Run, NamedArray
  <2>1. CASE Run(v, p) = {}
    BY <2>0, <2>1, SaidIs, CollectedAtIs
  <2>2. CASE Run(v, p) # {} /\ \A i \in Run(v, p) : NamedArray(v[i][p])
    BY <2>2, NamedRunIsDeclared
  <2>3. CASE \E i \in Run(v, p) : ~NamedArray(v[i][p])
    <3>1. PICK m \in Run(v, p) : ~NamedArray(v[m][p])
      BY <2>3
    <3>2. ASSUME NEW i \in Run(v, p)
          PROVE  i \in DOMAIN v /\ p \in DOMAIN v[i] /\ IsArray(v[i][p]) /\ i >= i /\ i \in Say(v, p)
      <4>1. i \in DOMAIN v /\ p \in DOMAIN v[i] /\ i >= i /\ i \in Say(v, p)
        BY DEF Run, Say
      <4>. QED  BY <4>1 DEF Run
    <3>3. ASSUME NEW i \in Run(v, p) PROVE i = m
      <4> SUFFICES ASSUME i # m PROVE FALSE
        OBVIOUS
      <4>1. p \in DOMAIN v[m] \intersect DOMAIN v[i]
        BY <3>1, <3>2
      <4>. QED  BY <3>1, <3>2, <4>1 DEF StackByName
    <3>4. Run(v, p) = {m}
      BY <3>1, <3>3
    <3>5. NamedRun(v, p) = {}
      <4>1. m \notin NamedRun(v, p)
        BY <3>1, <3>2 DEF NamedRun
      <4>. QED  BY <2>0, <3>4, <4>1
    <3>. QED  BY <3>4, <3>5, LoneArray, SaidIs
  <2>. QED  BY <2>1, <2>2, <2>3
<1>. QED  BY <1>1 DEF Collected, Declared

\* "Deep-merge overlay into base", file after file: what all of them declare, if
\* no two stack an array whose items have no name.
THEOREM FilesTogether ==
  ASSUME NEW W, \A d \in W : IsDocument(d) /\ NamesOnce(d), NEW bottom \in W, NEW confd \in Seq(W),
         StackByName(<<bottom>> \o confd)
  PROVE  MergedFiles(bottom, confd) = Declared(<<bottom>> \o confd)
<1>1. PICK V : Documents(W, V)
  BY ItemsOfAll
<1>. DEFINE all == <<bottom>> \o confd
<1>2. all \in Seq(W)
  <2>1. <<bottom>> \in Seq(W)
    OBVIOUS
  <2>. QED  BY <2>1
<1>3. MergedFiles(bottom, confd) = Collected(all)
  BY FilesCollected
<1>. HIDE DEF all
<1>4. Collected(all) = Declared(all)
  BY <1>1, <1>2, CollectedAsDeclared DEF all
<1>. QED  BY <1>3, <1>4 DEF all

-----------------------------------------------------------------------------
(* The search for cycles.                                                  *)

\* Below the path, w is a walk of cascades that ends where it or the path has been.
Returns(profiles, path, w) ==
    /\ w # <<>>
    /\ Cascades(profiles, path[Len(path)], w[1])
    /\ \A i \in 1 .. Len(w) - 1 : Cascades(profiles, w[i], w[i + 1])
    /\ \/ \E i \in 1 .. Len(path) : path[i] = w[Len(w)]
       \/ \E i \in 1 .. Len(w) - 1 : w[i] = w[Len(w)]

Revisits(profiles, path) == \E w \in Seq(DOMAIN profiles) : Returns(profiles, path, w)

\* One more profile in front of a walk.
LEMMA WalkFromNext ==
  ASSUME NEW profiles, NEW path \in Seq(DOMAIN profiles), NEW q \in DOMAIN profiles,
         Cascades(profiles, path[Len(path)], q), Revisits(profiles, Append(path, q))
  PROVE  Revisits(profiles, path)
<1>. DEFINE D == DOMAIN profiles
            z == Append(path, q)
            N == Len(path)
<1>1. /\ N \in Nat /\ z \in Seq(D) /\ Len(z) = N + 1 /\ z[N + 1] = q
      /\ \A i \in 1 .. N : z[i] = path[i]
  OBVIOUS
<1>2. PICK v \in Seq(D) : Returns(profiles, z, v)
  BY DEF Revisits
<1>. DEFINE w == <<q>> \o v
            M == Len(v)
<1>3. /\ M \in Nat /\ w \in Seq(D) /\ Len(w) = M + 1 /\ w[1] = q
      /\ \A i \in 1 .. M : w[i + 1] = v[i]
  OBVIOUS
<1>. HIDE DEF z, w, N, M
<1>4. /\ M > 0 /\ Cascades(profiles, q, v[1])
      /\ \A i \in 1 .. M - 1 : Cascades(profiles, v[i], v[i + 1])
      /\ \/ \E i \in 1 .. N + 1 : z[i] = v[M]
         \/ \E i \in 1 .. M - 1 : v[i] = v[M]
  <2>1. M # 0
    BY <1>2 DEF Returns, M
  <2>. QED  BY <1>1, <1>2, <1>3, <2>1 DEF Returns, M
<1>5. ASSUME NEW i \in 1 .. (M + 1) - 1 PROVE Cascades(profiles, w[i], w[i + 1])
  <2>1. CASE i = 1
    <3>1. w[1] = q /\ 1 \in 1 .. M /\ w[1 + 1] = v[1]
      BY <1>3, <1>4
    <3>. QED  BY <1>4, <2>1, <3>1
  <2>2. CASE i # 1
    <3>1. i - 1 \in 1 .. M - 1 /\ i - 1 \in 1 .. M /\ i \in 1 .. M /\ (i - 1) + 1 = i
      BY <1>3, <2>2
    <3>2. w[i] = v[i - 1] /\ w[i + 1] = v[i]
      BY <1>3, <3>1
    <3>. QED  BY <1>4, <3>1, <3>2
  <2>. QED  BY <2>1, <2>2
<1>6. w[M + 1] = v[M] /\ M \in 1 .. M
  BY <1>3, <1>4
<1>7. \/ \E i \in 1 .. N : path[i] = w[M + 1]
      \/ \E i \in 1 .. (M + 1) - 1 : w[i] = w[M + 1]
  <2>1. ASSUME NEW i \in 1 .. N + 1, z[i] = v[M] PROVE <1>7
    <3>1. CASE i = N + 1
      <4>1. w[1] = w[M + 1] /\ 1 \in 1 .. (M + 1) - 1
        BY <1>1, <1>3, <1>4, <1>6, <2>1, <3>1
      <4>. QED  BY <4>1
    <3>2. CASE i # N + 1
      <4>1. i \in 1 .. N
        BY <1>1, <3>2
      <4>. QED  BY <1>1, <1>6, <2>1, <4>1
    <3>. QED  BY <3>1, <3>2
  <2>2. ASSUME NEW i \in 1 .. M - 1, v[i] = v[M] PROVE <1>7
    <3>1. i + 1 \in 1 .. (M + 1) - 1 /\ i \in 1 .. M
      BY <1>3
    <3>2. w[i + 1] = w[M + 1]
      BY <1>3, <1>6, <2>2, <3>1
    <3>. QED  BY <3>1, <3>2
  <2>. QED  BY <1>4, <2>1, <2>2
<1>8. Returns(profiles, path, w)
  <2>1. w # <<>>
    BY <1>3
  <2>. QED  BY <1>3, <1>5, <1>7, <2>1 DEF Returns, N
<1>. QED  BY <1>3, <1>8 DEF Revisits

\* What Returns demands, in two cases: the walk is one hop or more.
LEMMA WalkToNext ==
  ASSUME NEW profiles, NEW path \in Seq(DOMAIN profiles), Revisits(profiles, path)
  PROVE  \E q \in DOMAIN profiles :
            /\ Cascades(profiles, path[Len(path)], q)
            /\ (\E i \in DOMAIN path : path[i] = q) \/ Revisits(profiles, Append(path, q))
<1>. DEFINE D == DOMAIN profiles
<1>1. PICK w \in Seq(D) : Returns(profiles, path, w)
  BY DEF Revisits
<1>. DEFINE M == Len(w)
            N == Len(path)
            q == w[1]
            z == Append(path, q)
            v == Tail(w)
<1>2. M \in Nat /\ M > 0 /\ N \in Nat /\ DOMAIN path = 1 .. N /\ q \in D
  <2>1. w # <<>>
    BY <1>1 DEF Returns
  <2>. QED  BY <2>1
<1>3. /\ z \in Seq(D) /\ Len(z) = N + 1 /\ z[N + 1] = q
      /\ \A i \in 1 .. N : z[i] = path[i]
  BY <1>2
<1>4. /\ v \in Seq(D) /\ Len(v) = M - 1
      /\ \A i \in 1 .. M - 1 : v[i] = w[i + 1]
  <2>1. w # <<>>
    BY <1>1 DEF Returns
  <2>. QED  BY <2>1
<1>5. /\ Cascades(profiles, path[N], q)
      /\ \A i \in 1 .. M - 1 : Cascades(profiles, w[i], w[i + 1])
      /\ \/ \E i \in 1 .. N : path[i] = w[M]
         \/ \E i \in 1 .. M - 1 : w[i] = w[M]
  BY <1>1 DEF Returns
<1>. HIDE DEF z, v, M
<1>6. CASE M = 1
  <2>1. \E i \in 1 .. N : path[i] = q
    BY <1>5, <1>6
  <2>. QED  BY <1>2, <1>5, <2>1
<1>7. CASE M # 1
  <2>1. M - 1 \in Nat /\ M - 1 > 0 /\ 1 \in 1 .. M - 1 /\ 1 + 1 = 2 /\ M - 1 \in 1 .. M - 1 /\ (M - 1) + 1 = M
    BY <1>2, <1>7
  <2>2. v[1] = w[2] /\ v[M - 1] = w[M] /\ Cascades(profiles, z[N + 1], v[1])
    BY <1>3, <1>4, <1>5, <2>1
  <2>3. ASSUME NEW i \in 1 .. (M - 1) - 1 PROVE Cascades(profiles, v[i], v[i + 1])
    <3>1. i \in 1 .. M - 1 /\ i + 1 \in 1 .. M - 1
      BY <1>2
    <3>. QED  BY <1>4, <1>5, <3>1
  <2>4. \/ \E i \in 1 .. N + 1 : z[i] = v[M - 1]
        \/ \E i \in 1 .. (M - 1) - 1 : v[i] = v[M - 1]
    <3>1. ASSUME NEW i \in 1 .. N, path[i] = w[M] PROVE <2>4
      <4>1. i \in 1 .. N + 1 /\ z[i] = v[M - 1]
        BY <1>2, <1>3, <2>2, <3>1
      <4>. QED  BY <4>1
    <3>2. ASSUME NEW i \in 1 .. M - 1, w[i] = w[M] PROVE <2>4
      <4>1. CASE i = 1
        <5>1. N + 1 \in 1 .. N + 1 /\ z[N + 1] = v[M - 1]
          BY <1>2, <1>3, <2>2, <3>2, <4>1
        <5>. QED  BY <5>1
      <4>2. CASE i # 1
        <5>1. i - 1 \in 1 .. (M - 1) - 1 /\ i - 1 \in 1 .. M - 1 /\ (i - 1) + 1 = i
          BY <1>2, <4>2
        <5>2. v[i - 1] = v[M - 1]
          BY <1>4, <2>2, <3>2, <5>1
        <5>. QED  BY <5>1, <5>2
      <4>. QED  BY <4>1, <4>2
    <3>. QED  BY <1>5, <3>1, <3>2
  <2>5. v # <<>>
    BY <1>4, <2>1
  <2>6. Returns(profiles, z, v)
    BY <1>3, <1>4, <2>2, <2>3, <2>4, <2>5 DEF Returns
  <2>7. Revisits(profiles, z)
    BY <1>4, <2>6 DEF Revisits
  <2>. QED  BY <1>2, <1>5, <2>7 DEF z
<1>. QED  BY <1>6, <1>7

\* One hop back into the path.
LEMMA WalkOfOne ==
  ASSUME NEW profiles, NEW path \in Seq(DOMAIN profiles), NEW q \in DOMAIN profiles,
         Cascades(profiles, path[Len(path)], q), NEW i \in DOMAIN path, path[i] = q
  PROVE  Revisits(profiles, path)
<1>. DEFINE w == <<q>>
<1>1. w \in Seq(DOMAIN profiles) /\ Len(w) = 1 /\ w[1] = q /\ w # <<>> /\ 1 .. Len(w) - 1 = {}
  OBVIOUS
<1>2. i \in 1 .. Len(path)
  OBVIOUS
<1>. HIDE DEF w
<1>3. Returns(profiles, path, w)
  BY <1>1, <1>2 DEF Returns
<1>. QED  BY <1>1, <1>3 DEF Revisits

\* What the search finds below a path, in terms of what it finds one hop further.
Below(profiles, f, path) ==
    \E q \in DOMAIN profiles :
        /\ Cascades(profiles, path[Len(path)], q)
        /\ (\E i \in DOMAIN path : path[i] = q) \/ f[Append(path, q)]

\* The recursion of dfs_profile_routes has a solution, so Closes is one.
LEMMA SearchSteps ==
  ASSUME NEW profiles, NEW path \in Seq(DOMAIN profiles)
  PROVE  Closes(profiles)[path] = Below(profiles, Closes(profiles), path)
<1>. DEFINE D == DOMAIN profiles
            F(f) == [x \in Seq(D) |-> Below(profiles, f, x)]
            g == [x \in Seq(D) |-> Revisits(profiles, x)]
            c == CHOOSE f : f = F(f)
<1>1. ASSUME NEW x \in Seq(D) PROVE g[x] = Below(profiles, g, x)
  <2>0. g[x] = Revisits(profiles, x) /\ \A q \in D : g[Append(x, q)] = Revisits(profiles, Append(x, q))
    OBVIOUS
  <2>. HIDE DEF g
  <2>1. ASSUME g[x] PROVE Below(profiles, g, x)
    BY <2>0, <2>1, WalkToNext DEF Below
  <2>2. ASSUME Below(profiles, g, x) PROVE g[x]
    <3>1. PICK q \in D : /\ Cascades(profiles, x[Len(x)], q)
                         /\ (\E i \in DOMAIN x : x[i] = q) \/ g[Append(x, q)]
      BY <2>2 DEF Below
    <3>. QED  BY <2>0, <3>1, WalkFromNext, WalkOfOne
  <2>3. g[x] \in BOOLEAN /\ Below(profiles, g, x) \in BOOLEAN
    BY <2>0 DEF Revisits, Below
  <2>. QED  BY <2>1, <2>2, <2>3
<1>2. g = F(g)
  BY <1>1
<1>3. c = F(c)
  <2>. HIDE DEF F, g
  <2>. QED  BY <1>2
<1>4. Closes(profiles) = c
  BY DEF Closes, Below
<1>5. F(c)[path] = Below(profiles, c, path)
  OBVIOUS
<1>. HIDE DEF c, F
<1>. QED  BY <1>3, <1>4, <1>5

\* Paths that visit nothing twice do not grow for ever.
LEMMA NoEndlessPath ==
  ASSUME NEW D, IsFiniteSet(D), NEW X \in SUBSET Seq(D), NEW a \in X,
         \A x \in X : \A i, j \in 1 .. Len(x) : x[i] = x[j] => i = j,
         \A x \in X : \E q \in D : Append(x, q) \in X
  PROVE  FALSE
<1>. DEFINE N == Cardinality(D) + 1
            S == {n \in 0 .. N : \E x \in X : Len(x) >= n}
<1>1. N \in Nat
  BY FS_CardinalityType
<1>2. 0 \in S
  <2>1. Len(a) \in Nat /\ Len(a) >= 0
    OBVIOUS
  <2>. QED  BY <1>1, <2>1
<1>3. ASSUME NEW n \in 0 .. N - 1, n \in S PROVE n + 1 \in S
  <2>1. PICK x \in X : Len(x) >= n
    BY <1>3
  <2>2. PICK q \in D : Append(x, q) \in X
    OBVIOUS
  <2>3. Len(Append(x, q)) = Len(x) + 1 /\ Len(x) \in Nat
    BY <2>2
  <2>4. Len(Append(x, q)) >= n + 1 /\ n + 1 \in 0 .. N
    BY <1>1, <2>1, <2>3
  <2>. QED  BY <2>2, <2>4
<1>4. N \in S
  <2>. HIDE DEF S
  <2>1. \A n \in 0 .. N : n \in S
    BY <1>1, <1>2, <1>3, UpTo
  <2>. QED  BY <1>1, <2>1
<1>5. PICK x \in X : Len(x) >= N
  BY <1>4
<1>6. x \in Injection(1 .. Len(x), D)
  <2>1. x \in [1 .. Len(x) -> D] /\ \A i, j \in 1 .. Len(x) : x[i] = x[j] => i = j
    OBVIOUS
  <2>. QED  BY <2>1 DEF Injection, IsInjective
<1>7. Cardinality(1 .. Len(x)) <= Cardinality(D)
  BY <1>6, FS_Injection
<1>8. Cardinality(1 .. Len(x)) = Len(x)
  <2>1. ASSUME NEW m \in Nat, m > 0 PROVE Cardinality(1 .. m) = m
    <3>1. Cardinality(1 .. m) = IF 1 > m THEN 0 ELSE m - 1 + 1
      BY FS_Interval
    <3>. QED  BY <2>1, <3>1
  <2>2. Cardinality(D) \in Nat /\ Len(x) \in Nat
    BY FS_CardinalityType
  <2>3. Len(x) > 0
    BY <1>5, <2>2
  <2>. QED  BY <2>1, <2>2, <2>3
<1>. QED  BY <1>1, <1>5, <1>7, <1>8, FS_CardinalityType

\* A profile that is not on the path may be put at its end.
LEMMA PathGrows ==
  ASSUME NEW D, NEW x \in Seq(D), NEW q \in D, \A i \in DOMAIN x : x[i] # q,
         \A i, j \in 1 .. Len(x) : x[i] = x[j] => i = j
  PROVE  /\ Append(x, q) \in Seq(D) /\ Len(Append(x, q)) = Len(x) + 1 /\ Len(x) \in Nat
         /\ Append(x, q)[Len(x) + 1] = q /\ \A i \in 1 .. Len(x) : Append(x, q)[i] = x[i]
         /\ \A i, j \in 1 .. Len(x) + 1 : Append(x, q)[i] = Append(x, q)[j] => i = j
<1>. DEFINE z == Append(x, q)
            N == Len(x)
<1>1. /\ z \in Seq(D) /\ Len(z) = N + 1 /\ N \in Nat /\ DOMAIN x = 1 .. N
      /\ z[N + 1] = q /\ \A i \in 1 .. N : z[i] = x[i]
  OBVIOUS
<1>. HIDE DEF z, N
<1>2. ASSUME NEW i \in 1 .. N + 1, NEW j \in 1 .. N + 1, z[i] = z[j] PROVE i = j
  <2>1. ASSUME NEW k \in 1 .. N + 1, k # N + 1 PROVE k \in 1 .. N /\ z[k] = x[k] /\ z[k] # q
    <3>1. k \in 1 .. N
      BY <1>1, <2>1
    <3>. QED  BY <1>1, <3>1
  <2>. QED  BY <1>1, <1>2, <2>1 DEF N
<1>. QED  BY <1>1, <1>2 DEF z, N

\* validate_profile_route_cycles refuses every cycle: among profiles that cascade
\* to one another, a search that found nothing could be made ever longer.
LEMMA CyclesAreFound ==
  ASSUME NEW profiles, IsFiniteSet(DOMAIN profiles), RoutesEnd(profiles), CascadeCycle(profiles)
  PROVE  FALSE
<1>. DEFINE D == DOMAIN profiles
            C == Closes(profiles)
<1>1. PICK S \in (SUBSET D) \ {{}} : \A n \in S : \E m \in S : Cascades(profiles, n, m)
  BY DEF CascadeCycle
<1>. DEFINE OK(x) == /\ x # <<>> /\ x[Len(x)] \in S /\ ~C[x]
                     /\ \A i, j \in 1 .. Len(x) : x[i] = x[j] => i = j
            X == {x \in Seq(D) : OK(x)}
<1>2. PICK p \in S : TRUE
  BY <1>1
<1>3. <<p>> \in X
  <2>1. p \in D /\ <<p>> \in Seq(D) /\ <<p>> # <<>> /\ Len(<<p>>) = 1 /\ <<p>>[1] = p
    BY <1>1, <1>2
  <2>2. ~C[<<p>>]
    BY <2>1 DEF RoutesEnd
  <2>3. \A i, j \in 1 .. 1 : i = j
    OBVIOUS
  <2>. HIDE DEF C
  <2>. QED  BY <1>2, <2>1, <2>2, <2>3
<1>4. ASSUME NEW x \in X PROVE \E q \in D : Append(x, q) \in X
  <2>1. /\ x \in Seq(D) /\ x[Len(x)] \in S /\ ~C[x]
        /\ \A i, j \in 1 .. Len(x) : x[i] = x[j] => i = j
    BY <1>4
  <2>2. PICK q \in S : Cascades(profiles, x[Len(x)], q)
    BY <1>1, <2>1
  <2>3. q \in D
    BY <1>1
  <2>4. (\A i \in DOMAIN x : x[i] # q) /\ ~C[Append(x, q)]
    <3>1. ~Below(profiles, C, x)
      BY <2>1, SearchSteps
    <3>. QED  BY Zenon, <2>2, <2>3, <3>1 DEF Below
  <2>. DEFINE z == Append(x, q)
              N == Len(x)
  <2>5. /\ z \in Seq(D) /\ Len(z) = N + 1 /\ N \in Nat /\ z[N + 1] = q
        /\ \A i, j \in 1 .. N + 1 : z[i] = z[j] => i = j
    BY <2>1, <2>3, <2>4, PathGrows
  <2>6. ~C[z]
    BY <2>4
  <2>7. z \in X
    <3>. HIDE DEF z, N, C
    <3>1. z # <<>>
      BY <2>5
    <3>. QED  BY <2>5, <2>6, <3>1
  <2>. QED  BY <2>3, <2>7
<1>5. /\ X \in SUBSET Seq(D)
      /\ \A x \in X : \A i, j \in 1 .. Len(x) : x[i] = x[j] => i = j
  OBVIOUS
<1>. HIDE DEF X
<1>. QED  BY <1>3, <1>4, <1>5, NoEndlessPath

\* A way of cascades whose last profile cascades back into it contains a cycle.
LEMMA WayCloses ==
  ASSUME NEW profiles, NEW V, NEW p \in Seq(V), p # <<>>,
         \A i \in 1 .. Len(p) - 1 : Cascades(profiles, p[i], p[i + 1]),
         NEW i \in DOMAIN p, Cascades(profiles, p[Len(p)], p[i]), p[Len(p)] \in DOMAIN profiles
  PROVE  CascadeCycle(profiles)
<1>. DEFINE S == {p[j] : j \in i .. Len(p)}
<1>1. Len(p) \in Nat /\ i \in 1 .. Len(p)
  OBVIOUS
<1>2. ASSUME NEW j \in i .. Len(p) PROVE p[j] \in DOMAIN profiles
  <2>1. CASE j = i
    BY <2>1 DEF Cascades
  <2>2. CASE j # i
    <3>1. j - 1 \in 1 .. Len(p) - 1 /\ (j - 1) + 1 = j
      BY <1>1, <2>2
    <3>. QED  BY <3>1 DEF Cascades
  <2>. QED  BY <2>1, <2>2
<1>3. p[i] \in S
  BY <1>1
<1>4. ASSUME NEW j \in i .. Len(p) PROVE \E m \in S : Cascades(profiles, p[j], m)
  <2>1. CASE j = Len(p)
    BY <1>3, <2>1
  <2>2. CASE j # Len(p)
    <3>1. j \in 1 .. Len(p) - 1 /\ j + 1 \in i .. Len(p)
      BY <1>1, <2>2
    <3>. QED  BY <3>1
  <2>. QED  BY <2>1, <2>2
<1>5. S \in (SUBSET DOMAIN profiles) \ {{}}
  BY <1>2, <1>3
<1>6. \A n \in S : \E m \in S : Cascades(profiles, n, m)
  BY <1>4
<1>. QED  BY Zenon, <1>5, <1>6 DEF CascadeCycle

\* It refuses nothing else: below a path without a cycle the search would have to
\* go on for ever.
LEMMA OnlyCyclesAreFound ==
  ASSUME NEW profiles, IsFiniteSet(DOMAIN profiles), ~CascadeCycle(profiles)
  PROVE  RoutesEnd(profiles)
<1>. DEFINE D == DOMAIN profiles
            C == Closes(profiles)
            OK(x) == /\ x # <<>> /\ C[x]
                     /\ \A i \in 1 .. Len(x) - 1 : Cascades(profiles, x[i], x[i + 1])
                     /\ \A i, j \in 1 .. Len(x) : x[i] = x[j] => i = j
            X == {x \in Seq(D) : OK(x)}
<1>. SUFFICES ASSUME NEW p \in D, C[<<p>>] PROVE FALSE
  BY DEF RoutesEnd
<1>3. <<p>> \in X
  <2>1. <<p>> \in Seq(D) /\ <<p>> # <<>> /\ Len(<<p>>) = 1 /\ 1 .. 1 - 1 = {}
    OBVIOUS
  <2>2. \A i, j \in 1 .. 1 : i = j
    OBVIOUS
  <2>. HIDE DEF C
  <2>. QED  BY <2>1, <2>2
<1>4. ASSUME NEW x \in X PROVE \E q \in D : Append(x, q) \in X
  <2>1. /\ x \in Seq(D) /\ x # <<>> /\ C[x]
        /\ \A i \in 1 .. Len(x) - 1 : Cascades(profiles, x[i], x[i + 1])
        /\ \A i, j \in 1 .. Len(x) : x[i] = x[j] => i = j
    BY <1>4
  <2>2. PICK q \in D : /\ Cascades(profiles, x[Len(x)], q)
                       /\ (\E i \in DOMAIN x : x[i] = q) \/ C[Append(x, q)]
    BY <2>1, SearchSteps DEF Below
  <2>3. \A i \in DOMAIN x : x[i] # q
    <3>1. x[Len(x)] \in D
      BY <2>1
    <3>. QED  BY <2>1, <2>2, <3>1, WayCloses
  <2>. DEFINE z == Append(x, q)
              N == Len(x)
  <2>4. C[z]
    BY <2>2, <2>3
  <2>5. /\ z \in Seq(D) /\ Len(z) = N + 1 /\ N \in Nat /\ z[N + 1] = q
        /\ \A i \in 1 .. N : z[i] = x[i]
        /\ \A i, j \in 1 .. N + 1 : z[i] = z[j] => i = j
    BY <2>1, <2>3, PathGrows
  <2>6. N > 0 /\ Cascades(profiles, x[N], q) /\ \A i \in 1 .. N - 1 : Cascades(profiles, x[i], x[i + 1])
    BY <2>1, <2>2
  <2>. HIDE DEF z, N, C
  <2>7. ASSUME NEW i \in 1 .. (N + 1) - 1 PROVE Cascades(profiles, z[i], z[i + 1])
    <3>1. CASE i = N
      <4>1. N \in 1 .. N /\ z[N] = x[N]
        BY <2>5, <2>6
      <4>. QED  BY <2>5, <2>6, <3>1, <4>1
    <3>2. CASE i # N
      <4>1. i \in 1 .. N - 1 /\ i \in 1 .. N /\ i + 1 \in 1 .. N
        BY <2>5, <3>2
      <4>. QED  BY <2>5, <2>6, <4>1
    <3>. QED  BY <3>1, <3>2
  <2>8. z # <<>>
    BY <2>5
  <2>9. z \in X
    BY <2>4, <2>5, <2>7, <2>8
  <2>. QED  BY <2>2, <2>9 DEF z
<1>5. /\ X \in SUBSET Seq(D)
      /\ \A x \in X : \A i, j \in 1 .. Len(x) : x[i] = x[j] => i = j
  OBVIOUS
<1>. HIDE DEF X
<1>. QED  BY <1>3, <1>4, <1>5, NoEndlessPath

\* "Fails at the first detected cycle": for any finite set of profiles with any
\* rules, load refuses exactly those of which some cascade in a circle, whichever
\* profile the search starts from and however the routes branch and meet.
THEOREM SearchIsExact ==
  ASSUME NEW profiles, IsFiniteSet(DOMAIN profiles)
  PROVE  RoutesEnd(profiles) <=> ~CascadeCycle(profiles)
BY CyclesAreFound, OnlyCyclesAreFound

-----------------------------------------------------------------------------
(* Config::load.                                                           *)

\* What there is finitely often has finitely many images.
LEMMA FiniteImage ==
  ASSUME NEW S, IsFiniteSet(S), NEW f, f = [x \in S |-> f[x]]
  PROVE  IsFiniteSet({f[x] : x \in S})
<1>. DEFINE T == {f[x] : x \in S}
<1>1. f \in [S -> T] /\ \A t \in T : \E x \in S : f[x] = t
  OBVIOUS
<1>2. f \in Surjection(S, T)
  <2>. HIDE DEF T
  <2>. QED  BY <1>1 DEF Surjection
<1>. QED  BY <1>2, FS_Surjection

\* Of finitely many files with finitely many places each, the places.
LEMMA CollectedIsFinite ==
  ASSUME NEW W, \A d \in W : IsFiniteSet(DOMAIN d), NEW v \in Seq(W)
  PROVE  IsFiniteSet(DOMAIN Collected(v))
<1>. DEFINE N == Len(v)
            U(n) == UNION {DOMAIN v[i] : i \in 1 .. n}
            S == {n \in 0 .. N : IsFiniteSet(U(n))}
<1>1. N \in Nat /\ \A i \in 1 .. N : IsFiniteSet(DOMAIN v[i])
  OBVIOUS
<1>2. 0 \in S
  <2>1. U(0) = {}
    OBVIOUS
  <2>2. IsFiniteSet(U(0))
    <3>. HIDE DEF U
    <3>. QED  BY <2>1, FS_EmptySet
  <2>3. 0 \in 0 .. N
    BY <1>1
  <2>. QED  BY <2>2, <2>3
<1>3. ASSUME NEW n \in 0 .. N - 1, n \in S PROVE n + 1 \in S
  <2>1. n + 1 \in 1 .. N /\ n + 1 \in 0 .. N
    BY <1>1
  <2>2. U(n + 1) = U(n) \union DOMAIN v[n + 1]
    <3>1. \A i : i \in 1 .. n + 1 <=> i \in 1 .. n \/ i = n + 1
      BY <1>1
    <3>. QED  BY <3>1
  <2>. HIDE DEF U
  <2>3. IsFiniteSet(U(n) \union DOMAIN v[n + 1])
    BY <1>1, <1>3, <2>1, FS_Union
  <2>. QED  BY <2>1, <2>2, <2>3
<1>4. N \in S
  <2>. HIDE DEF S
  <2>1. \A n \in 0 .. N : n \in S
    BY <1>1, <1>2, <1>3, UpTo
  <2>. QED  BY <1>1, <2>1
<1>5. DOMAIN Collected(v) \in SUBSET U(N)
  <2>1. ASSUME NEW p \in DOMAIN Collected(v) PROVE p \in U(N)
    <3>1. PICK i \in Say(v, p) : TRUE
      BY CollectedIs
    <3>. QED  BY <3>1 DEF Say
  <2>. QED  BY <2>1
<1>. HIDE DEF U
<1>. QED  BY <1>4, <1>5, FS_Subset

\* A place of a finite document has finitely many keys.
LEMMA KeysAreFinite ==
  ASSUME NEW doc, IsFiniteSet(DOMAIN doc), NEW place
  PROVE  IsFiniteSet(Keys(doc, place))
<1>. DEFINE Q == {q \in DOMAIN doc : q # <<>> /\ Front(q) = place}
            f == [p \in Q |-> Last(p)]
<1>1. IsFiniteSet(Q)
  BY FS_Subset
<1>2. Keys(doc, place) = {f[p] : p \in Q}
  BY DEF Keys
<1>3. f = [p \in Q |-> f[p]]
  OBVIOUS
<1>. HIDE DEF f, Q
<1>. QED  BY <1>1, <1>2, <1>3, FiniteImage

\* A load that is not refused at once has finitely many profiles.
LEMMA ProfilesAreFinite ==
  ASSUME NEW tree, IsFiniteSet(DOMAIN tree),
         NEW dirs, \A d \in DOMAIN dirs : IsFiniteSet(DOMAIN dirs[d]),
         LoadFrom(tree, dirs) # Refused
  PROVE  IsFiniteSet(DOMAIN LoadFrom(tree, dirs).profiles)
<1>. DEFINE files == ProfileFiles(tree, dirs)
            config == ConfigOf(tree)
            name(i) == IF HasName(files[i].value) THEN Text(files[i].value, <<"name">>)
                       ELSE files[i].stem
            names == {name(i) : i \in DOMAIN files}
            latest(n) == Max({i \in DOMAIN files : name(i) = n})
            profiles == [n \in names \union DOMAIN config.profiles |->
                           IF n \in names THEN ProfileOf(files[latest(n)].value, <<>>)
                           ELSE config.profiles[n]]
            f == [i \in DOMAIN files |-> name(i)]
<1>1. LoadFrom(tree, dirs) = PutProfiles(config, files)
  BY DEF LoadFrom
<1>2. PutProfiles(config, files) = [config EXCEPT !.profiles = profiles]
  BY DEF PutProfiles
<1>3. IsFiniteSet(DOMAIN files)
  <2>1. files = <<>> \/ \E d \in DOMAIN dirs : files = dirs[d]
    BY DEF ProfileFiles
  <2>2. DOMAIN <<>> = {}
    OBVIOUS
  <2>. HIDE DEF files
  <2>. QED  BY <2>1, <2>2, FS_EmptySet
<1>4. IsFiniteSet(names)
  <2>1. names = {f[i] : i \in DOMAIN files} /\ f = [i \in DOMAIN files |-> f[i]]
    OBVIOUS
  <2>. HIDE DEF f, names, files
  <2>. QED  BY <1>3, <2>1, FiniteImage
<1>5. "profiles" \in DOMAIN config /\ DOMAIN config.profiles = Keys(tree, <<"profiles">>)
  BY DEF ConfigOf
<1>. HIDE DEF config, names, files
<1>6. IsFiniteSet(names \union DOMAIN config.profiles)
  BY <1>4, <1>5, KeysAreFinite, FS_Union
<1>7. DOMAIN profiles = names \union DOMAIN config.profiles
  OBVIOUS
<1>. HIDE DEF profiles
<1>8. [config EXCEPT !.profiles = profiles].profiles = profiles
  BY <1>5
<1>. QED  BY <1>1, <1>2, <1>6, <1>7, <1>8

\* Config::load, which merges file by file and searches path by path, ends for any
\* files of which no two stack an array without names (Legible) where the
\* documentation's reading of all of them together does, and refuses the same ones:
\* those that do not parse or read, that name what is not there, or of whose
\* profiles some cascade in a circle.
THEOREM LoadIsDeclared ==
  ASSUME NEW files, Legible(files)
  PROVE  Load(files) = DeclaredLoad(files)
<1>. DEFINE all == <<files.main>> \o files.confd
            tree == Declared(all)
            config == LoadFrom(tree, files.dirs)
<1>1. CASE ~Parses(files)
  BY <1>1 DEF Load, DeclaredLoad
<1>2. CASE Parses(files)
  <2>. DEFINE bottom == files.main
              confd == files.confd
              X == {bottom} \union Range(confd)
              W == {d \in X : d # Broken}
  <2>1. confd \in Seq(X) /\ bottom \in X /\ bottom # Broken /\ \A i \in 1 .. Len(confd) : confd[i] # Broken
    <3>1. confd \in Seq(Range(confd)) /\ Range(confd) \subseteq X
      BY DEF Legible
    <3>2. bottom # Broken /\ \A i \in DOMAIN confd : confd[i] # Broken
      BY <1>2 DEF Parses
    <3>. HIDE DEF confd, X
    <3>3. confd \in Seq(X) /\ DOMAIN confd = 1 .. Len(confd)
      BY <3>1
    <3>. QED  BY <3>2, <3>3 DEF X
  <2>a. all = <<bottom>> \o confd
    OBVIOUS
  <2>2. ASSUME NEW d \in W PROVE IsDocument(d) /\ NamesOnce(d)
    <3>1. d \in Range(all)
      <4>1. CASE d = bottom
        <5>1. all[1] = bottom /\ 1 \in DOMAIN all
          <6>. HIDE DEF all, confd, bottom, X
          <6>. QED  BY <2>1, <2>a
        <5>. QED  BY <4>1, <5>1 DEF Range
      <4>2. CASE d \in Range(confd)
        <5>1. PICK i \in 1 .. Len(confd) : d = confd[i]
          BY <2>1, <4>2 DEF Range
        <5>2. all[i + 1] = d /\ i + 1 \in DOMAIN all
          <6>. HIDE DEF all, confd, bottom, X
          <6>. QED  BY <2>1, <2>a, <5>1
        <5>. QED  BY <5>2 DEF Range
      <4>. QED  BY <4>1, <4>2
    <3>. QED  BY <2>2, <3>1 DEF Legible
  <2>3. bottom \in W /\ confd \in Seq(W)
    <3>. HIDE DEF bottom, confd, X
    <3>. QED  BY <2>1
  <2>4. MergedFiles(bottom, confd) = tree
    <3>. HIDE DEF W, bottom, confd
    <3>0. StackByName(<<bottom>> \o confd)
      BY DEF Legible, bottom, confd
    <3>1. MergedFiles(bottom, confd) = Declared(<<bottom>> \o confd)
      BY <2>2, <2>3, <3>0, FilesTogether
    <3>. QED  BY <3>1 DEF bottom, confd
  <2>5. IsFiniteSet(DOMAIN tree)
    <3>1. \A d \in W : IsFiniteSet(DOMAIN d)
      BY <2>2 DEF IsDocument
    <3>2. all \in Seq(W)
      <4>. HIDE DEF W, bottom, confd
      <4>1. <<bottom>> \o confd \in Seq(W)
        BY <2>3
      <4>. QED  BY <4>1 DEF bottom, confd
    <3>. HIDE DEF W, bottom, confd
    <3>3. MergedFiles(bottom, confd) = Collected(<<bottom>> \o confd)
      BY <2>2, <2>3, FilesCollected
    <3>4. tree = Collected(all)
      BY <2>4, <3>3 DEF bottom, confd
    <3>. HIDE DEF all, tree
    <3>. QED  BY <3>1, <3>2, <3>4, CollectedIsFinite
  <2>6. config # Refused => (Valid(config) <=> Sound(config))
    <3> SUFFICES ASSUME config # Refused PROVE Valid(config) <=> Sound(config)
      OBVIOUS
    <3>1. \A d \in DOMAIN files.dirs : IsFiniteSet(DOMAIN files.dirs[d])
      BY DEF Legible
    <3>2. IsFiniteSet(DOMAIN config.profiles)
      <4>. HIDE DEF tree
      <4>. QED  BY <2>5, <3>1, ProfilesAreFinite
    <3>. HIDE DEF config
    <3>3. RoutesEnd(config.profiles) <=> ~CascadeCycle(config.profiles)
      BY <3>2, SearchIsExact
    <3>. QED  BY <3>3 DEF Valid, Sound
  <2>7. Load(files) = IF config # Refused /\ Valid(config) THEN config ELSE Refused
    BY <1>2, <2>4, Zenon DEF Load
  <2>8. DeclaredLoad(files) = IF config # Refused /\ Sound(config) THEN config ELSE Refused
    BY <1>2, Zenon DEF DeclaredLoad
  <2>. HIDE DEF config
  <2>. QED  BY <2>6, <2>7, <2>8
<1>. QED  BY <1>1, <1>2
================================================================================
