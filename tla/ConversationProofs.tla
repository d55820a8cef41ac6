--------------------------- MODULE ConversationProofs ---------------------------
(***************************************************************************)
(* Proofs about Conversation, for all clients, ladders, profiles and       *)
(* answers, and any number of requests.                                    *)
(***************************************************************************)
EXTENDS Conversation, SequenceTheorems, WellFoundedInduction, TLAPS

-----------------------------------------------------------------------------
(* Induction, and functions defined by recursion over the places of a      *)
(* sequence.                                                               *)

\* Every nonempty set of naturals has a least element.
LEMMA LeastNatural ==
  ASSUME NEW S \in SUBSET Nat, S # {}
  PROVE  \E n \in S : \A m \in S : n <= m
<1>1. PICK n \in S : \A m \in S : ~ (<<m, n>> \in OpToRel(<, Nat))
  BY WFMin, NatLessThanWellFounded
<1>2. ASSUME NEW m \in S PROVE n <= m
  <2>1. <<m, n>> \in Nat \X Nat /\ <<m, n>>[1] = m /\ <<m, n>>[2] = n
    OBVIOUS
  <2>2. ~ (m < n)
    BY <1>1, <2>1 DEF OpToRel
  <2>. QED  BY <2>2
<1>. QED  BY <1>2

\* Every nonempty set of places has a last one.
LEMMA LastPlace ==
  ASSUME NEW N \in Nat, NEW S \in SUBSET (1 .. N), S # {}
  PROVE  \E n \in S : \A m \in S : m <= n
<1>. DEFINE T == {N - n : n \in S}
<1>1. T \in SUBSET Nat /\ T # {}
  <2>1. \A n \in S : N - n \in Nat
    OBVIOUS
  <2>2. PICK n \in S : TRUE
    OBVIOUS
  <2>3. N - n \in T
    OBVIOUS
  <2>. QED  BY <2>1, <2>3
<1>2. PICK t \in T : \A u \in T : t <= u
  BY <1>1, LeastNatural
<1>3. PICK n \in S : t = N - n
  OBVIOUS
<1>4. ASSUME NEW m \in S PROVE m <= n
  <2>1. t <= N - m
    BY <1>2
  <2>. QED  BY <1>3, <2>1
<1>. QED  BY <1>4

\* What holds at 0 and goes from each number to the next holds up to N.
LEMMA UpTo ==
  ASSUME NEW N \in Nat, NEW S, 0 \in S, \A n \in 0 .. N - 1 : n \in S => n + 1 \in S
  PROVE  \A n \in 0 .. N : n \in S
<1> SUFFICES ASSUME NEW n \in 0 .. N, n \notin S
             PROVE  FALSE
  OBVIOUS
<1>. DEFINE T == (0 .. N) \ S
<1>1. PICK m \in T : \A k \in T : m <= k
  <2>1. T \in SUBSET Nat /\ T # {}
    OBVIOUS
  <2>. QED  BY <2>1, LeastNatural
<1>2. m - 1 \in 0 .. N - 1 /\ m - 1 \in S
  BY <1>1
<1>. QED  BY <1>1, <1>2

\* Steps on V, one for each of the places 1 .. N, and the functions that
\* follow such steps from a start.
Steps(N, V) == [1 .. N -> [V -> V]]
Follows(f, N, a, G) == f[0] = a /\ \A n \in 1 .. N : f[n] = G[n][f[n - 1]]
Runs(N, V, a, G) == {f \in [0 .. N -> V] : Follows(f, N, a, G)}

\* Steps always give a function on 0 .. N.
LEMMA Recursion ==
  ASSUME NEW N \in Nat, NEW V, NEW a \in V, NEW G \in Steps(N, V)
  PROVE  \E f : f \in Runs(N, V, a, G)
<1>. USE DEF Steps, Follows, Runs
<1>. DEFINE Good(f, n) == f[0] = a /\ \A m \in 1 .. n : f[m] = G[m][f[m - 1]]
            S == {n \in 0 .. N : \E f \in [0 .. N -> V] : Good(f, n)}
<1>1. 0 \in S
  <2>. DEFINE z == [n \in 0 .. N |-> a]
  <2>1. z \in [0 .. N -> V] /\ z[0] = a
    OBVIOUS
  <2>2. Good(z, 0)
    BY <2>1
  <2>3. \E f \in [0 .. N -> V] : Good(f, 0)
    <3>. HIDE DEF z, Good
    <3>. QED  BY <2>1, <2>2
  <2>. QED  BY <2>3
<1>2. ASSUME NEW n \in 0 .. N - 1, n \in S PROVE n + 1 \in S
  <2>1. PICK f \in [0 .. N -> V] : Good(f, n)
    BY <1>2
  <2>. DEFINE g == [f EXCEPT ![n + 1] = G[n + 1][f[n]]]
  <2>2. g \in [0 .. N -> V] /\ \A m \in 0 .. n : g[m] = f[m]
    OBVIOUS
  <2>3. g[n + 1] = G[n + 1][g[n]]
    BY <2>2
  <2>4. Good(g, n + 1)
    <3>1. g[0] = a
      BY <2>1, <2>2
    <3>2. ASSUME NEW m \in 1 .. n + 1 PROVE g[m] = G[m][g[m - 1]]
      <4>1. CASE m = n + 1
        BY <4>1, <2>3
      <4>2. CASE m # n + 1
        BY <4>2, <2>1, <2>2
      <4>. QED  BY <4>1, <4>2
    <3>. QED  BY <3>1, <3>2
  <2>5. \E h \in [0 .. N -> V] : Good(h, n + 1)
    <3>. HIDE DEF g, Good
    <3>. QED  BY <2>2, <2>4
  <2>. QED  BY <2>5
<1>3. \A n \in 0 .. N : n \in S
  <2>. HIDE DEF S
  <2>. QED  BY <1>1, <1>2, UpTo
<1>. QED  BY <1>3

-----------------------------------------------------------------------------
(* Extract: the elements at some places of a sequence.                     *)

\* What Extract computes, place by place.
LEMMA ExtractSteps ==
  ASSUME NEW V, NEW s \in Seq(V), NEW P
  PROVE  \E f : /\ f[0] = <<>>
                /\ \A n \in 1 .. Len(s) :
                      f[n] = IF n \in P THEN Append(f[n - 1], s[n]) ELSE f[n - 1]
                /\ Extract(s, P) = f[Len(s)]
<1>. DEFINE N == Len(s)
            W == Seq(V)
            e == <<>>
            G == [n \in 1 .. N |-> [v \in W |-> IF n \in P THEN Append(v, s[n]) ELSE v]]
            F(f) == [n \in 0 .. N |-> IF n = 0 THEN <<>>
                       ELSE IF n \in P THEN Append(f[n - 1], s[n]) ELSE f[n - 1]]
            c == CHOOSE f : f = F(f)
<1>0. N \in Nat /\ e \in W /\ G \in Steps(N, W)
  BY DEF Steps
<1>1. PICK f \in [0 .. N -> W] : f[0] = e /\ \A n \in 1 .. N : f[n] = G[n][f[n - 1]]
  <2>. HIDE DEF G, N, W, e
  <2>1. PICK f : f \in Runs(N, W, e, G)
    BY <1>0, Recursion
  <2>. QED  BY <2>1 DEF Runs, Follows
<1>2. f = F(f)
  <2>1. ASSUME NEW n \in 0 .. N PROVE f[n] = F(f)[n]
    <3>1. CASE n = 0
      BY <1>1, <3>1
    <3>2. CASE n # 0
      <4>1. n \in 1 .. N /\ n - 1 \in 0 .. N
        BY <3>2
      <4>2. f[n - 1] \in W /\ f[n] = G[n][f[n - 1]]
        BY <1>1, <4>1
      <4>3. G[n][f[n - 1]] = IF n \in P THEN Append(f[n - 1], s[n]) ELSE f[n - 1]
        <5>. HIDE DEF W
        <5>. QED  BY <4>1, <4>2
      <4>. QED  BY <3>2, <4>2, <4>3
    <3>. QED  BY <3>1, <3>2
  <2>. QED  BY <2>1
<1>3. c = F(c)
  <2>. HIDE DEF F
  <2>. QED  BY <1>2
<1>4. Extract(s, P) = c[N]
  BY DEF Extract
<1>5. /\ c[0] = <<>>
      /\ \A n \in 1 .. N : c[n] = IF n \in P THEN Append(c[n - 1], s[n]) ELSE c[n - 1]
  <2>. HIDE DEF c
  <2>1. c[0] = F(c)[0] /\ \A n \in 1 .. N : c[n] = F(c)[n]
    <3>. HIDE DEF F
    <3>1. c[0] = F(c)[0]
      BY <1>3
    <3>2. ASSUME NEW n \in 1 .. N PROVE c[n] = F(c)[n]
      BY <1>3
    <3>. QED  BY <3>1, <3>2
  <2>2. c[0] = <<>>
    BY <2>1, <1>0
  <2>3. ASSUME NEW n \in 1 .. N
        PROVE  c[n] = IF n \in P THEN Append(c[n - 1], s[n]) ELSE c[n - 1]
    <3>1. c[n] = F(c)[n] /\ n \in 0 .. N /\ n # 0
      <4>1. c[n] = F(c)[n]
        BY <2>1
      <4>. QED  BY <4>1, <1>0
    <3>. HIDE DEF N
    <3>. QED  BY <3>1
  <2>. QED  BY <2>2, <2>3
<1>. QED  BY <1>4, <1>5

\* e lists the places of I in order.
Lists(e, K, I) ==
    /\ K \in Nat
    /\ e \in [1 .. K -> I]
    /\ \A i \in I : \E k \in 1 .. K : e[k] = i
    /\ \A j, k \in 1 .. K : j < k => e[j] < e[k]

\* Every set of places can be listed.
LEMMA ListExists ==
  ASSUME NEW N \in Nat, NEW I \in SUBSET (1 .. N)
  PROVE  \E K, e : Lists(e, K, I)
<1>. DEFINE Part(n) == I \cap (1 .. n)
            S == {n \in 0 .. N : \E K, e : Lists(e, K, Part(n))}
<1>1. 0 \in S
  <2>. DEFINE none == [k \in 1 .. 0 |-> 0]
  <2>1. Part(0) = {} /\ 1 .. 0 = {}
    OBVIOUS
  <2>2. Lists(none, 0, Part(0))
    BY <2>1 DEF Lists
  <2>3. \E K, e : Lists(e, K, Part(0))
    <3>. HIDE DEF none, Part
    <3>. QED  BY <2>2
  <2>. QED  BY <2>3
<1>2. ASSUME NEW n \in 0 .. N - 1, n \in S PROVE n + 1 \in S
  <2>1. PICK K, e : Lists(e, K, Part(n))
    BY <1>2
  <2>2. K \in Nat /\ e \in [1 .. K -> Part(n)]
    BY <2>1 DEF Lists
  <2>3. CASE n + 1 \notin I
    <3>1. Part(n + 1) = Part(n)
      BY <2>3
    <3>2. Lists(e, K, Part(n + 1))
      BY <2>1, <3>1
    <3>3. \E L, g : Lists(g, L, Part(n + 1))
      <4>. HIDE DEF Part
      <4>. QED  BY <3>2
    <3>. QED  BY <3>3
  <2>4. CASE n + 1 \in I
    <3>. DEFINE g == [k \in 1 .. K + 1 |-> IF k = K + 1 THEN n + 1 ELSE e[k]]
    <3>1. Part(n + 1) = Part(n) \union {n + 1}
      BY <2>4
    <3>2. \A k \in 1 .. K : g[k] = e[k] /\ e[k] \in Part(n)
      BY <2>2
    <3>3. g[K + 1] = n + 1
      BY <2>2
    <3>4. g \in [1 .. K + 1 -> Part(n + 1)]
      <4>. HIDE DEF Part
      <4>. QED  BY <2>2, <3>1
    <3>5. ASSUME NEW i \in Part(n + 1) PROVE \E k \in 1 .. K + 1 : g[k] = i
      <4>1. CASE i = n + 1
        BY <4>1, <3>3, <2>2
      <4>2. CASE i # n + 1
        <5>1. PICK k \in 1 .. K : e[k] = i
          BY <4>2, <3>1, <2>1 DEF Lists
        <5>. QED  BY <5>1, <3>2, <2>2
      <4>. QED  BY <4>1, <4>2
    <3>6. ASSUME NEW j \in 1 .. K + 1, NEW k \in 1 .. K + 1, j < k PROVE g[j] < g[k]
      <4>1. j \in 1 .. K /\ g[j] = e[j] /\ e[j] < n + 1
        <5>1. j \in 1 .. K
          BY <3>6, <2>2
        <5>2. e[j] \in 1 .. n
          BY <5>1, <3>2
        <5>3. g[j] = e[j]
          BY <5>1, <3>2
        <5>4. e[j] < n + 1
          BY <5>2
        <5>. QED  BY <5>1, <5>3, <5>4
      <4>2. CASE k = K + 1
        BY <4>1, <4>2, <3>3
      <4>3. CASE k # K + 1
        <5>1. k \in 1 .. K /\ g[k] = e[k]
          BY <4>3, <3>2, <2>2
        <5>. QED  BY <4>1, <5>1, <3>6, <2>1 DEF Lists
      <4>. QED  BY <4>2, <4>3
    <3>7. Lists(g, K + 1, Part(n + 1))
      <4>. HIDE DEF g, Part
      <4>. QED  BY <2>2, <3>4, <3>5, <3>6 DEF Lists
    <3>8. \E L, h : Lists(h, L, Part(n + 1))
      <4>. HIDE DEF g, Part
      <4>. QED  BY <3>7
    <3>. QED  BY <3>8
  <2>. QED  BY <2>3, <2>4
<1>3. \A n \in 0 .. N : n \in S
  <2>. HIDE DEF S
  <2>. QED  BY <1>1, <1>2, UpTo
<1>4. Part(N) = I
  OBVIOUS
<1>. QED  BY <1>3, <1>4

\* Extract goes along any list of its places.
LEMMA ExtractAlong ==
  ASSUME NEW V, NEW s \in Seq(V), NEW I \in SUBSET (1 .. Len(s)),
         NEW K, NEW e, Lists(e, K, I)
  PROVE  Extract(s, I) = [k \in 1 .. K |-> s[e[k]]]
<1>1. PICK f : /\ f[0] = <<>>
               /\ \A n \in 1 .. Len(s) :
                     f[n] = IF n \in I THEN Append(f[n - 1], s[n]) ELSE f[n - 1]
               /\ Extract(s, I) = f[Len(s)]
  BY ExtractSteps
<1>2. /\ K \in Nat /\ Len(s) \in Nat
      /\ \A k \in 1 .. K : e[k] \in I /\ e[k] \in 1 .. Len(s) /\ s[e[k]] \in V
      /\ \A j, k \in 1 .. K : j < k => e[j] < e[k]
  <2>1. K \in Nat /\ e \in [1 .. K -> I] /\ \A j, k \in 1 .. K : j < k => e[j] < e[k]
    BY DEF Lists
  <2>2. ASSUME NEW k \in 1 .. K PROVE e[k] \in I /\ e[k] \in 1 .. Len(s) /\ s[e[k]] \in V
    <3>1. e[k] \in I
      BY <2>1
    <3>2. e[k] \in 1 .. Len(s)
      BY <3>1
    <3>. QED  BY <3>1, <3>2
  <2>. QED  BY <2>1, <2>2
<1>. DEFINE Upto(c) == [k \in 1 .. c |-> s[e[k]]]
            Read(n, c) == /\ \A k \in 1 .. K : e[k] <= n <=> k <= c
                          /\ f[n] = Upto(c)
            S == {n \in 0 .. Len(s) : \E c \in 0 .. K : Read(n, c)}
<1>steps. \A n \in 0 .. Len(s) - 1 : f[n + 1] = IF n + 1 \in I THEN Append(f[n], s[n + 1]) ELSE f[n]
  <2>1. ASSUME NEW m \in 1 .. Len(s), NEW n \in 0 .. Len(s) - 1, m = n + 1
        PROVE  f[m] = IF m \in I THEN Append(f[n], s[m]) ELSE f[n]
    <3>1. n = m - 1
      BY <2>1
    <3>. QED  BY <3>1, <1>1
  <2>2. \A n \in 0 .. Len(s) - 1 : n + 1 \in 1 .. Len(s)
    BY <1>2
  <2>. HIDE DEF Read
  <2>. QED  BY <2>1, <2>2
<1>3. 0 \in S
  <2>1. Read(0, 0)
    BY <1>1, <1>2
  <2>. QED  BY <2>1, <1>2
<1>4. ASSUME NEW n \in 0 .. Len(s) - 1, n \in S PROVE n + 1 \in S
  <2>1. PICK c \in 0 .. K : Read(n, c)
    BY <1>4
  <2>2. CASE n + 1 \in I
    <3>1. PICK k \in 1 .. K : e[k] = n + 1
      BY <2>2 DEF Lists
    <3>2. k = c + 1
      <4>1. k > c
        BY <2>1, <3>1
      <4>2. ASSUME k > c + 1 PROVE FALSE
        <5>1. c + 1 \in 1 .. K /\ e[c + 1] < e[k]
          BY <1>2, <4>2
        <5>2. e[c + 1] <= n
          BY <5>1, <3>1, <1>2
        <5>. QED  BY <2>1, <5>1, <5>2
      <4>. QED  BY <4>1, <4>2
    <3>3. ASSUME NEW j \in 1 .. K PROVE e[j] <= n + 1 <=> j <= c + 1
      <4>1. CASE j <= c
        BY <4>1, <2>1, <1>2
      <4>2. CASE j = c + 1
        BY <4>2, <3>1, <3>2
      <4>3. CASE j > c + 1
        BY <4>3, <3>1, <3>2, <1>2
      <4>. QED  BY <4>1, <4>2, <4>3
    <3>4. f[n + 1] = Append(Upto(c), s[n + 1])
      BY <1>steps, <2>1, <2>2
    <3>5. Append(Upto(c), s[n + 1]) = Upto(c + 1)
      <4>1. Upto(c) \in Seq(V) /\ Len(Upto(c)) = c
        BY <1>2
      <4>2. s[n + 1] = s[e[c + 1]]
        BY <3>1, <3>2
      <4>. QED  BY <4>1, <4>2
    <3>6. c + 1 \in 0 .. K
      BY <3>2
    <3>7. Read(n + 1, c + 1)
      BY <3>3, <3>4, <3>5
    <3>. HIDE DEF Read
    <3>. QED  BY <3>6, <3>7
  <2>3. CASE n + 1 \notin I
    <3>1. \A k \in 1 .. K : e[k] <= n + 1 <=> e[k] <= n
      BY <1>2, <2>3
    <3>2. f[n + 1] = f[n]
      BY <1>steps, <2>3
    <3>3. Read(n + 1, c)
      BY <2>1, <3>1, <3>2
    <3>. HIDE DEF Read
    <3>. QED  BY <3>3
  <2>. QED  BY <2>2, <2>3
<1>5. \A n \in 0 .. Len(s) : n \in S
  <2>. HIDE DEF S
  <2>. QED  BY <1>2, <1>3, <1>4, UpTo
<1>6. PICK c \in 0 .. K : Read(Len(s), c)
  <2>. HIDE DEF Read
  <2>. QED  BY <1>5, <1>2
<1>7. c = K
  <2>1. ASSUME c # K PROVE FALSE
    <3>1. c + 1 \in 1 .. K /\ e[c + 1] <= Len(s)
      BY <2>1, <1>2
    <3>. QED  BY <3>1, <1>6
  <2>. QED  BY <2>1
<1>. QED  BY <1>1, <1>6, <1>7

-----------------------------------------------------------------------------
(* FlattenSeq: the concatenation of a sequence of sequences.               *)

\* One more element at the front.
LEMMA Prepend ==
  ASSUME NEW V, NEW x \in V, NEW s \in Seq(V)
  PROVE  <<x>> \in Seq(V) /\ <<x>> \o s \in Seq(V) /\ <<x>> \o s # <<>>
OBVIOUS

\* The first element of a sequence replaced by another.
LEMMA FirstReplaced ==
  ASSUME NEW V, NEW x \in V, NEW y \in V, NEW s \in Seq(V)
  PROVE  /\ (<<x>> \o s)[1] = x
         /\ [<<x>> \o s EXCEPT ![1] = y] = <<y>> \o s
<1>. DEFINE t == <<x>> \o s
            u == <<y>> \o s
<1>1. /\ t \in Seq(V) /\ u \in Seq(V) /\ Len(t) = Len(u) /\ Len(t) \in Nat /\ t[1] = x /\ u[1] = y
      /\ \A i \in 1 .. Len(t) : i # 1 => t[i] = u[i]
  OBVIOUS
<1>. HIDE DEF t, u
<1>. DEFINE v == [t EXCEPT ![1] = y]
<1>2. v \in Seq(V) /\ Len(v) = Len(t)
  <2>1. t # <<>>
    BY <1>1, Prepend DEF t
  <2>2. 1 \in 1 .. Len(t)
    BY <1>1, <2>1
  <2>. QED  BY <1>1, <2>2, ExceptSeq
<1>3. \A i \in 1 .. Len(v) : v[i] = u[i]
  BY <1>1, <1>2
<1>. HIDE DEF v
<1>4. v = u
  BY <1>1, <1>2, <1>3, SeqEqual
<1>. QED  BY <1>1, <1>4 DEF v, t, u

\* Concatenation on Seq(V) is associative.
Associates(V) == \A x, y, z \in Seq(V) : (x \o y) \o z = x \o (y \o z)

LEMMA Associative == \A V : Associates(V)
<1> SUFFICES ASSUME NEW V, NEW x \in Seq(V), NEW y \in Seq(V), NEW z \in Seq(V)
             PROVE  (x \o y) \o z = x \o (y \o z)
  BY DEF Associates
<1>. QED  BY ConcatAssociative

\* What FlattenSeq computes, place by place.
LEMMA FlattenSteps ==
  ASSUME NEW V, NEW s \in Seq(Seq(V))
  PROVE  \E f \in [0 .. Len(s) -> Seq(V)] :
            /\ f[0] = <<>>
            /\ \A n \in 0 .. Len(s) - 1 : f[n + 1] = f[n] \o s[n + 1]
            /\ FlattenSeq(s) = f[Len(s)]
<1>. DEFINE N == Len(s)
            W == Seq(V)
            e == <<>>
            G == [n \in 1 .. N |-> [v \in W |-> v \o s[n]]]
            F(f) == [i \in 1 .. N |-> IF i = 1 THEN s[i] ELSE f[i - 1] \o s[i]]
            c == CHOOSE f : f = F(f)
<1>0. N \in Nat /\ e \in W /\ G \in Steps(N, W) /\ \A n \in 1 .. N : s[n] \in W
  BY DEF Steps
<1>1. PICK f \in [0 .. N -> W] : f[0] = e /\ \A n \in 1 .. N : f[n] = G[n][f[n - 1]]
  <2>. HIDE DEF G, N, W, e
  <2>1. PICK f : f \in Runs(N, W, e, G)
    BY <1>0, Recursion
  <2>. QED  BY <2>1 DEF Runs, Follows
<1>2. \A m \in 1 .. N, n \in 0 .. N - 1 : m = n + 1 => f[m] = f[n] \o s[m]
  <2>1. ASSUME NEW m \in 1 .. N, NEW n \in 0 .. N - 1, m = n + 1
        PROVE  f[m] = f[n] \o s[m]
    <3>1. n = m - 1 /\ n \in 0 .. N
      BY <1>0, <2>1
    <3>2. f[n] \in W /\ f[m] = G[m][f[n]]
      <4>. HIDE DEF G, W
      <4>. QED  BY <1>1, <3>1
    <3>3. G[m][f[n]] = f[n] \o s[m]
      <4>. HIDE DEF W
      <4>. QED  BY <3>2
    <3>. QED  BY <3>2, <3>3
  <2>. QED  BY <2>1
<1>3. N # 0 => f[1] = s[1]
  <2>1. ASSUME N # 0 PROVE f[1] = s[1]
    <3>1. 1 \in 1 .. N /\ 0 \in 0 .. N - 1 /\ 1 = 0 + 1
      BY <1>0, <2>1
    <3>2. ASSUME NEW m \in 1 .. N, NEW n \in 0 .. N - 1, m = 1, n = 0
          PROVE  f[m] = f[n] \o s[m] /\ s[m] \in Seq(V)
      <4>1. m = n + 1
        BY <3>2
      <4>. QED  BY <4>1, <1>0, <1>2
    <3>3. f[1] = f[0] \o s[1] /\ s[1] \in Seq(V)
      BY <3>1, <3>2
    <3>. QED  BY <1>1, <3>3, ConcatEmptySeq
  <2>. QED  BY <2>1
<1>4. N # 0 => c = F(c)
  <2>. DEFINE g == [n \in 1 .. N |-> f[n]]
  <2>1. ASSUME NEW n \in 1 .. N PROVE g[n] = F(g)[n]
    <3>1. CASE n = 1
      BY <1>3, <3>1
    <3>2. CASE n # 1
      <4>1. n - 1 \in 1 .. N /\ g[n - 1] = f[n - 1]
        BY <1>0, <3>2
      <4>2. n - 1 \in 0 .. N - 1 /\ n = (n - 1) + 1
        BY <1>0, <3>2
      <4>3. f[n] = f[n - 1] \o s[n]
        BY <4>2, <1>2
      <4>. QED  BY <4>1, <4>3, <3>2
    <3>. QED  BY <3>1, <3>2
  <2>2. g = F(g)
    BY <2>1
  <2>. HIDE DEF F, g
  <2>. QED  BY <2>2
<1>5. N # 0 => FlattenSeq(s) = c[N]
  BY DEF FlattenSeq
<1>6. ASSUME N # 0, NEW m \in 0 .. N, m # 0 PROVE c[m] = f[m]
  <2>. DEFINE S == {n \in 0 .. N : n # 0 => c[n] = f[n]}
  <2>. HIDE DEF c
  <2>step. ASSUME NEW k \in 1 .. N, NEW j \in 0 .. N, k = j + 1
        PROVE  c[k] = IF j = 0 THEN s[k] ELSE c[j] \o s[k]
    <3>1. c[k] = F(c)[k]
      <4>. HIDE DEF F
      <4>. QED  BY <1>4, <1>6
    <3>2. c[k] = IF k = 1 THEN s[k] ELSE c[k - 1] \o s[k]
      BY <3>1
    <3>. QED  BY <2>step, <3>2, <1>0
  <2>1. 0 \in S
    BY <1>0
  <2>2. ASSUME NEW n \in 0 .. N - 1, n \in S PROVE n + 1 \in S
    <3>1. n + 1 \in 1 .. N /\ n + 1 \in 0 .. N
      BY <1>0
    <3>2. c[n + 1] = IF n = 0 THEN s[n + 1] ELSE c[n] \o s[n + 1]
      <4>1. n \in 0 .. N
        BY <1>0
      <4>. QED  BY <2>step, <3>1, <4>1
    <3>3. CASE n = 0
      <4>1. c[1] = s[1]
        BY <3>1, <3>2, <3>3
      <4>. QED  BY <4>1, <1>3, <1>6, <3>1, <3>3
    <3>4. CASE n # 0
      <4>1. c[n] = f[n]
        BY <2>2, <3>4
      <4>2. c[n + 1] = c[n] \o s[n + 1]
        BY <3>2, <3>4
      <4>3. f[n + 1] = f[n] \o s[n + 1]
        BY <1>2, <3>1
      <4>. QED  BY <3>1, <4>1, <4>2, <4>3
    <3>. QED  BY <3>3, <3>4
  <2>. HIDE DEF S
  <2>3. \A n \in 0 .. N : n \in S
    BY <1>0, <2>1, <2>2, UpTo
  <2>. QED  BY <2>3, <1>6 DEF S
<1>7. FlattenSeq(s) = f[N]
  <2>1. CASE N = 0
    <3>1. s = <<>> /\ FlattenSeq(s) = s
      BY <2>1 DEF FlattenSeq
    <3>. QED  BY <3>1, <2>1, <1>1
  <2>2. CASE N # 0
    <3>1. N \in 0 .. N
      BY <1>0
    <3>. HIDE DEF N, c
    <3>. QED  BY <2>2, <3>1, <1>5, <1>6
  <2>. QED  BY <2>1, <2>2
<1>8. \A n \in 0 .. N - 1 : f[n + 1] = f[n] \o s[n + 1]
  <2>1. \A n \in 0 .. N - 1 : n + 1 \in 1 .. N
    BY <1>0
  <2>. QED  BY <1>2, <2>1
<1>. QED  BY <1>1, <1>7, <1>8

\* More at the front of the first sequence is more at the front of all.
LEMMA FlattenFronted ==
  ASSUME NEW V, NEW s \in Seq(Seq(V)), NEW p \in Seq(V), s # <<>>
  PROVE  FlattenSeq([s EXCEPT ![1] = p \o s[1]]) = p \o FlattenSeq(s)
<1>. DEFINE t == [s EXCEPT ![1] = p \o s[1]]
            N == Len(s)
<1>1. /\ t \in Seq(Seq(V)) /\ Len(t) = N /\ N \in Nat \ {0} /\ t[1] = p \o s[1]
      /\ \A n \in 1 .. N : s[n] \in Seq(V) /\ (n # 1 => t[n] = s[n])
  OBVIOUS
<1>2. PICK f \in [0 .. N -> Seq(V)] :
        /\ f[0] = <<>>
        /\ \A n \in 0 .. N - 1 : f[n + 1] = f[n] \o s[n + 1]
        /\ FlattenSeq(s) = f[N]
  BY FlattenSteps
<1>. HIDE DEF t
<1>3. PICK g \in [0 .. N -> Seq(V)] :
        /\ g[0] = <<>>
        /\ \A n \in 0 .. N - 1 : g[n + 1] = g[n] \o t[n + 1]
        /\ FlattenSeq(t) = g[N]
  <2>1. PICK g \in [0 .. Len(t) -> Seq(V)] :
        /\ g[0] = <<>>
        /\ \A n \in 0 .. Len(t) - 1 : g[n + 1] = g[n] \o t[n + 1]
        /\ FlattenSeq(t) = g[Len(t)]
    BY <1>1, FlattenSteps
  <2>. QED  BY <1>1, <2>1
<1>. HIDE DEF N
<1>. DEFINE S == {n \in 0 .. N : n # 0 => g[n] = p \o f[n]}
<1>4. 0 \in S
  BY <1>1
<1>5. ASSUME NEW n \in 0 .. N - 1, n \in S PROVE n + 1 \in S
  <2>1. n + 1 \in 1 .. N /\ n + 1 \in 0 .. N /\ n \in 0 .. N
    BY <1>1
  <2>2. /\ f[n + 1] = f[n] \o s[n + 1] /\ g[n + 1] = g[n] \o t[n + 1]
        /\ f[n] \in Seq(V) /\ s[n + 1] \in Seq(V)
    BY <1>1, <1>2, <1>3, <2>1
  <2>3. CASE n = 0
    <3>1. f[1] = <<>> \o s[1] /\ g[1] = <<>> \o t[1] /\ s[1] \in Seq(V) /\ t[1] \in Seq(V)
      <4>1. s[1] \in Seq(V) /\ t[1] \in Seq(V)
        BY <1>1, <2>1, <2>3
      <4>. QED  BY <2>2, <2>3, <1>2, <1>3, <4>1
    <3>2. f[1] = s[1] /\ g[1] = t[1]
      BY <3>1, ConcatEmptySeq
    <3>3. g[n + 1] = p \o f[n + 1]
      <4>1. n + 1 = 1
        BY <2>3
      <4>. QED  BY <4>1, <3>2, <1>1
    <3>. QED  BY <3>3, <2>1
  <2>4. CASE n # 0
    <3>1. g[n] = p \o f[n]
      BY <2>4, <1>5
    <3>2. t[n + 1] = s[n + 1]
      <4>1. n + 1 # 1
        BY <2>4
      <4>. QED  BY <4>1, <2>1, <1>1
    <3>3. (p \o f[n]) \o s[n + 1] = p \o (f[n] \o s[n + 1])
      <4>1. Associates(V)
        BY Associative
      <4>2. f[n] \in Seq(V) /\ s[n + 1] \in Seq(V) /\ p \in Seq(V)
        BY <2>2
      <4>. QED  BY <4>1, <4>2, Zenon DEF Associates
    <3>4. g[n + 1] = p \o f[n + 1]
      BY <2>2, <3>1, <3>2, <3>3
    <3>. QED  BY <2>1, <3>4
  <2>. QED  BY <2>3, <2>4
<1>6. \A n \in 0 .. N : n \in S
  <2>. HIDE DEF S
  <2>. QED  BY <1>1, <1>4, <1>5, UpTo
<1>7. N \in S /\ N # 0
  <2>. HIDE DEF S
  <2>1. N \in 0 .. N /\ N # 0
    BY <1>1
  <2>. QED  BY <1>6, <2>1
<1>8. g[N] = p \o f[N]
  BY <1>7
<1>9. FlattenSeq(t) = p \o FlattenSeq(s)
  BY <1>2, <1>3, <1>8, Zenon
<1>. HIDE DEF S
<1>. QED  BY <1>9, Zenon DEF t

-----------------------------------------------------------------------------
(* The messages, and the prompts in front of them.                         *)

\* Strings are texts.
LEMMA StrType == ASSUME NEW parts \in Seq(Strings) PROVE Str(parts) \in TextValues
BY DEF Str, TextValues

\* Every text has a string in it.
LEMMA AsStrType == ASSUME NEW text \in TextValues PROVE AsStr(text) \in Seq(Strings)
<1>1. text.parts \in Seq(Strings)
  BY DEF TextValues
<1>2. <<>> \in Seq(Strings)
  BY EmptySeq
<1>. QED  BY <1>1, <1>2 DEF AsStr

\* The two readings of a text: only a string, or the words of parts as well.
Read(text, strict) == IF strict THEN AsStr(text) ELSE Words(text)

LEMMA ReadType ==
  ASSUME NEW text \in TextValues, NEW strict \in BOOLEAN
  PROVE  Read(text, strict) \in Seq(Strings)
<1>1. text.parts \in Seq(Strings) /\ <<>> \in Seq(Strings)
  BY EmptySeq DEF TextValues
<1>. QED  BY <1>1, AsStrType DEF Read, Words

\* What Message builds is a message.
LEMMA MessageType ==
  ASSUME NEW role \in {"system", "user", "assistant", "tool"},
         NEW text \in TextValues, NEW calls \in Seq(Calls)
  PROVE  Message(role, text, calls) \in Messages
BY DEF Message, Messages, NoId, Id, Ids

\* A system message in front of the others.
SystemMessage(q) == Message("system", Str(q), <<>>)

LEMMA SystemMessageType ==
  ASSUME NEW q \in Seq(Strings)
  PROVE  /\ SystemMessage(q) \in Messages
         /\ SystemMessage(q).role = "system"
         /\ AsStr(SystemMessage(q).text) = q
         /\ \A strict \in BOOLEAN : Read(SystemMessage(q).text, strict) = q
         /\ \A r : [SystemMessage(q) EXCEPT !.text = Str(r)] = SystemMessage(r)
<1>1. <<>> \in Seq(Calls)
  BY EmptySeq
<1>2. SystemMessage(q) \in Messages
  BY <1>1, StrType, MessageType DEF SystemMessage
<1>. QED  BY <1>2 DEF SystemMessage, Message, Str, AsStr, Read, Words

\* All of q in front of the client's system text, or as a message of its own.
Retold(m, q) == [m EXCEPT !.text = Str(q \o AsStr(m.text))]
Fronted(ms, q) ==
    IF q = <<>> THEN ms
    ELSE IF ms # <<>> /\ ms[1].role = "system" THEN [ms EXCEPT ![1] = Retold(ms[1], q)]
    ELSE <<SystemMessage(q)>> \o ms

\* More text in front of a message's own.
LEMMA RetoldType ==
  ASSUME NEW m \in Messages, NEW q \in Seq(Strings)
  PROVE  /\ Retold(m, q) \in Messages
         /\ Retold(m, q).role = m.role
         /\ Retold(m, q).calls = m.calls
         /\ AsStr(Retold(m, q).text) = q \o AsStr(m.text)
         /\ \A strict \in BOOLEAN : Read(Retold(m, q).text, strict) = q \o AsStr(m.text)
         /\ \A r : [Retold(m, q) EXCEPT !.text = r] = [m EXCEPT !.text = r]
<1>1. AsStr(m.text) \in Seq(Strings)
  BY AsStrType DEF Messages
<1>2. Str(q \o AsStr(m.text)) \in TextValues
  BY <1>1, ConcatProperties, StrType
<1>. QED  BY <1>2 DEF Retold, Messages, AsStr, Str, Read, Words

\* Inject, in these terms.
LEMMA InjectIs ==
  ASSUME NEW ms \in Seq(Messages), NEW prompt \in Strings
  PROVE  Inject(ms, prompt) = IF ms # <<>> /\ ms[1].role = "system"
                              THEN [ms EXCEPT ![1] = Retold(ms[1], <<prompt>>)]
                              ELSE <<SystemMessage(<<prompt>>)>> \o ms
<1>1. CASE ms # <<>> /\ ms[1].role = "system"
  BY <1>1 DEF Inject, Retold
<1>2. CASE ~ (ms # <<>> /\ ms[1].role = "system")
  BY <1>2 DEF Inject, SystemMessage
<1>. QED  BY <1>1, <1>2

\* It is a history again.
LEMMA FrontedType ==
  ASSUME NEW ms \in Seq(Messages), NEW q \in Seq(Strings)
  PROVE  Fronted(ms, q) \in Seq(Messages)
<1>1. CASE q = <<>>
  BY <1>1 DEF Fronted
<1>2. CASE q # <<>> /\ ms # <<>> /\ ms[1].role = "system"
  <2>1. ms[1] \in Messages
    BY <1>2
  <2>2. Retold(ms[1], q) \in Messages
    BY <2>1, RetoldType
  <2>. QED  BY <2>2, <1>2 DEF Fronted
<1>3. CASE q # <<>> /\ ~ (ms # <<>> /\ ms[1].role = "system")
  BY <1>3, SystemMessageType, Prepend DEF Fronted
<1>. QED  BY <1>1, <1>2, <1>3

\* One more prompt goes before those that are in front already.
LEMMA InjectFronted ==
  ASSUME NEW ms \in Seq(Messages), NEW q \in Seq(Strings), NEW prompt \in Strings
  PROVE  Inject(Fronted(ms, q), prompt) = Fronted(ms, <<prompt>> \o q)
<1>. DEFINE one == <<prompt>>
            r == one \o q
<1>0. one \in Seq(Strings) /\ r \in Seq(Strings) /\ r # <<>>
  BY Prepend
<1>1. one \o <<>> = one
  BY <1>0, ConcatEmptySeq
<1>2. Inject(Fronted(ms, q), prompt) =
        IF Fronted(ms, q) # <<>> /\ Fronted(ms, q)[1].role = "system"
        THEN [Fronted(ms, q) EXCEPT ![1] = Retold(Fronted(ms, q)[1], one)]
        ELSE <<SystemMessage(one)>> \o Fronted(ms, q)
  BY FrontedType, InjectIs
<1>. HIDE DEF one, r
<1>3. CASE q = <<>>
  <2>1. Fronted(ms, q) = ms /\ r = one
    BY <1>3, <1>1 DEF Fronted, r
  <2>2. Inject(ms, prompt) = IF ms # <<>> /\ ms[1].role = "system"
                             THEN [ms EXCEPT ![1] = Retold(ms[1], one)]
                             ELSE <<SystemMessage(one)>> \o ms
    BY <1>2, <2>1
  <2>3. Fronted(ms, one) = Inject(ms, prompt)
    BY <1>0, <2>1, <2>2 DEF Fronted
  <2>. QED  BY <2>1, <2>3 DEF r, one
<1>4. CASE q # <<>> /\ ms # <<>> /\ ms[1].role = "system"
  <2>1. ms[1] \in Messages
    BY <1>4
  <2>. DEFINE m == Retold(ms[1], q)
  <2>2. Fronted(ms, q) = [ms EXCEPT ![1] = m]
    BY <1>4 DEF Fronted
  <2>3. m \in Messages /\ m.role = "system" /\ AsStr(m.text) = q \o AsStr(ms[1].text)
        /\ \A x : [m EXCEPT !.text = x] = [ms[1] EXCEPT !.text = x]
    BY <1>4, <2>1, RetoldType
  <2>4. Retold(m, one) = Retold(ms[1], r)
    <3>1. one \o (q \o AsStr(ms[1].text)) = r \o AsStr(ms[1].text)
      <4>1. AsStr(ms[1].text) \in Seq(Strings)
        BY <2>1, AsStrType DEF Messages
      <4>2. Associates(Strings)
        BY Associative
      <4>. QED  BY <4>1, <4>2, <1>0, Zenon DEF Associates, r
    <3>. HIDE DEF m
    <3>. QED  BY <2>3, <3>1 DEF Retold
  <2>. HIDE DEF m
  <2>5. Fronted(ms, q) # <<>> /\ Fronted(ms, q)[1] = m
    BY <1>4, <2>2
  <2>6. Inject(Fronted(ms, q), prompt) = [ms EXCEPT ![1] = Retold(ms[1], r)]
    BY <1>2, <1>4, <2>2, <2>3, <2>4, <2>5
  <2>. QED  BY <1>0, <1>4, <2>6 DEF Fronted, r, one
<1>5. CASE q # <<>> /\ ~ (ms # <<>> /\ ms[1].role = "system")
  <2>. DEFINE m == SystemMessage(q)
  <2>1. Fronted(ms, q) = <<m>> \o ms
    BY <1>5 DEF Fronted
  <2>2. m \in Messages /\ m.role = "system" /\ Retold(m, one) = SystemMessage(r)
    BY SystemMessageType DEF Retold, r
  <2>3. SystemMessage(r) \in Messages
    BY <1>0, SystemMessageType
  <2>. HIDE DEF m
  <2>4. <<m>> \o ms # <<>> /\ (<<m>> \o ms)[1] = m
    BY <2>2
  <2>5. [<<m>> \o ms EXCEPT ![1] = SystemMessage(r)] = <<SystemMessage(r)>> \o ms
    BY <2>2, <2>3, FirstReplaced
  <2>6. Inject(Fronted(ms, q), prompt) = <<SystemMessage(r)>> \o ms
    BY <1>2, <2>1, <2>2, <2>4, <2>5
  <2>. QED  BY <1>0, <1>5, <2>6 DEF Fronted, r, one
<1>. QED  BY <1>3, <1>4, <1>5

\* InjectAll puts the prompts in front, the last one first.
LEMMA InjectAllFronted ==
  ASSUME NEW ms \in Seq(Messages), NEW prompts \in Seq(Strings)
  PROVE  /\ InjectAll(ms, prompts) = Fronted(ms, Reverse(prompts))
         /\ Reverse(prompts) \in Seq(Strings)
<1>. DEFINE N == Len(prompts)
            F(f) == [n \in 0 .. N |-> IF n = 0 THEN ms ELSE Inject(f[n - 1], prompts[n])]
            c == CHOOSE f : f = F(f)
            back(n) == [i \in 1 .. n |-> prompts[n - i + 1]]
            g == [n \in 0 .. N |-> Fronted(ms, back(n))]
<1>0. /\ N \in Nat
      /\ \A n \in 0 .. N : back(n) \in Seq(Strings)
      /\ back(0) = <<>>
  OBVIOUS
<1>1. \A n \in 0 .. N - 1 : back(n + 1) = <<prompts[n + 1]>> \o back(n)
  OBVIOUS
<1>2. ASSUME NEW n \in 0 .. N - 1
      PROVE  Inject(Fronted(ms, back(n)), prompts[n + 1]) = Fronted(ms, back(n + 1))
  <2>1. back(n) \in Seq(Strings) /\ prompts[n + 1] \in Strings
    BY <1>0
  <2>. HIDE DEF back
  <2>. QED  BY <1>1, <2>1, InjectFronted
<1>. HIDE DEF back
<1>3. g = F(g)
  <2>1. ASSUME NEW n \in 0 .. N PROVE g[n] = F(g)[n]
    <3>1. CASE n = 0
      BY <3>1, <1>0 DEF Fronted
    <3>2. CASE n # 0
      <4>1. PICK m \in 0 .. N - 1 : n = m + 1
        <5>1. n - 1 \in 0 .. N - 1 /\ n = (n - 1) + 1
          BY <3>2, <1>0
        <5>. QED  BY <5>1
      <4>2. n - 1 = m /\ m \in 0 .. N
        BY <4>1, <1>0
      <4>. QED  BY <3>2, <4>1, <4>2, <1>2
    <3>. QED  BY <3>1, <3>2
  <2>. QED  BY <2>1
<1>4. c = F(c)
  <2>. HIDE DEF F, g
  <2>. QED  BY <1>3
<1>5. InjectAll(ms, prompts) = c[N]
  BY DEF InjectAll
<1>. HIDE DEF c
<1>6. ASSUME NEW k \in 0 .. N, NEW j \in 0 .. N - 1, k = j + 1
      PROVE  c[k] = Inject(c[j], prompts[k])
  <2>1. c[k] = F(c)[k]
    <3>. HIDE DEF F
    <3>. QED  BY <1>4
  <2>2. j = k - 1 /\ k # 0
    BY <1>6
  <2>. QED  BY <2>1, <2>2
<1>. DEFINE S == {n \in 0 .. N : c[n] = Fronted(ms, back(n))}
<1>7. 0 \in S
  <2>1. c[0] = F(c)[0]
    <3>. HIDE DEF F
    <3>. QED  BY <1>4
  <2>. QED  BY <2>1, <1>0 DEF Fronted
<1>8. ASSUME NEW n \in 0 .. N - 1, n \in S PROVE n + 1 \in S
  <2>1. n + 1 \in 0 .. N
    BY <1>0
  <2>2. c[n + 1] = Inject(c[n], prompts[n + 1])
    BY <1>6, <2>1
  <2>. QED  BY <1>2, <1>8, <2>1, <2>2
<1>9. \A n \in 0 .. N : n \in S
  <2>. HIDE DEF S
  <2>. QED  BY <1>0, <1>7, <1>8, UpTo
<1>10. back(N) = Reverse(prompts)
  BY <1>0 DEF back, Reverse
<1>11. N \in S
  BY <1>0, <1>9
<1>. QED  BY <1>0, <1>5, <1>10, <1>11

-----------------------------------------------------------------------------
(* The last place of a kind.                                               *)

\* The largest of some places.
LEMMA MaxIs ==
  ASSUME NEW S \in SUBSET Nat, NEW n \in S, \A m \in S : m <= n
  PROVE  Max(S) = n
<1>. DEFINE x == CHOOSE k \in S : \A m \in S : k >= m
<1>1. x \in S /\ \A m \in S : x >= m
  <2>1. \E k \in S : \A m \in S : k >= m
    <3>1. \A m \in S : n >= m
      OBVIOUS
    <3>. QED  BY <3>1
  <2>. QED  BY <2>1
<1>2. Max(S) = x
  BY DEF Max
<1>. HIDE DEF x
<1>3. x = n
  <2>1. x \in Nat /\ n \in Nat /\ x <= n /\ x >= n
    BY <1>1
  <2>. QED  BY <2>1
<1>. QED  BY <1>2, <1>3

\* The last message with calls: the turn that results after it belong to.
IsTurn(ms, t, i) ==
    /\ t \in 1 .. i
    /\ ms[t].calls # <<>>
    /\ \A j \in t + 1 .. i : ms[j].calls = <<>>

LEMMA TurnIs ==
  ASSUME NEW ms, NEW i \in Nat, NEW t, IsTurn(ms, t, i)
  PROVE  Turn(ms, i) = t
<1>. DEFINE I == {j \in 1 .. i : ms[j].calls # <<>>}
<1>1. t \in I /\ \A j \in I : j <= t
  BY DEF IsTurn
<1>2. Max(I) = t
  <2>1. I \in SUBSET Nat
    OBVIOUS
  <2>. HIDE DEF I
  <2>. QED  BY <1>1, <2>1, MaxIs
<1>. QED  BY <1>1, <1>2 DEF Turn, SelectLastInSubSeq

\* So it is at the end of the history.
LEMMA LastTurnIs ==
  ASSUME NEW ms \in Seq(Messages), NEW t, IsTurn(ms, t, Len(ms))
  PROVE  SelectLastInSeq(ms, LAMBDA m : m.calls # <<>>) = t
<1>. DEFINE I == {j \in 1 .. Len(ms) : ms[j].calls # <<>>}
<1>1. t \in I /\ \A j \in I : j <= t
  BY DEF IsTurn
<1>2. Max(I) = t
  <2>1. I \in SUBSET Nat
    OBVIOUS
  <2>. HIDE DEF I
  <2>. QED  BY <1>1, <2>1, MaxIs
<1>. QED  BY <1>1, <1>2 DEF SelectLastInSeq

-----------------------------------------------------------------------------
(* Type correctness.                                                       *)

\* Elements of a sequence are elements of the sequence they are taken from.
LEMMA ExtractType ==
  ASSUME NEW V, NEW s \in Seq(V), NEW I \in SUBSET (1 .. Len(s))
  PROVE  Extract(s, I) \in Seq(V)
<1>1. PICK K, e : Lists(e, K, I)
  <2>1. Len(s) \in Nat
    OBVIOUS
  <2>. QED  BY <2>1, ListExists
<1>2. Extract(s, I) = [k \in 1 .. K |-> s[e[k]]]
  BY <1>1, ExtractAlong
<1>3. K \in Nat /\ \A k \in 1 .. K : s[e[k]] \in V
  <2>1. K \in Nat /\ e \in [1 .. K -> I]
    BY <1>1 DEF Lists
  <2>2. ASSUME NEW k \in 1 .. K PROVE s[e[k]] \in V
    <3>1. e[k] \in 1 .. Len(s)
      BY <2>1
    <3>. QED  BY <3>1
  <2>. QED  BY <2>1, <2>2
<1>. QED  BY <1>2, <1>3, IsASeq

\* A function on 1 .. n is a sequence.
LEMMA FunctionIsSeq == ASSUME NEW V, NEW n \in Nat, NEW f \in [1 .. n -> V] PROVE f \in Seq(V)
OBVIOUS

\* What the classifier is shown is a part of the history.
LEMMA ClassifierInputType ==
  ASSUME NEW ms \in Seq(Messages), NEW n \in Nat
  PROVE  ClassifierInput(ms, n) \in Seq(Messages)
<1>1. Heard(ms) \in Seq(Messages)
  BY ExtractType DEF Heard
<1>2. Window(ms, n) \in Seq(Messages)
  <2>. DEFINE h == Heard(ms)
  <2>1. CASE Len(h) <= n
    BY <1>1, <2>1 DEF Window
  <2>2. CASE ~ (Len(h) <= n)
    <3>1. SubSeq(h, Len(h) - n + 1, Len(h)) \in Seq(Messages)
      <4>. HIDE DEF h
      <4>1. h \in Seq(Messages)
        BY <1>1 DEF h
      <4>2. Len(h) - n + 1 \in 1 .. Len(h) + 1 /\ Len(h) \in Nat
        BY <4>1, <2>2
      <4>. QED  BY <4>1, <4>2
    <3>. QED  BY <2>2, <3>1 DEF Window
  <2>. QED  BY <2>1, <2>2
<1>3. <<>> \in Seq(Messages)
  BY EmptySeq
<1>. QED  BY <1>2, <1>3 DEF ClassifierInput

\* The token a classification is read from.
LEMMA ParsedType ==
  ASSUME NEW tokens \in Seq(Tokens)
  PROVE  Parsed(tokens) \in Tokens
<1>. DEFINE tagged == Tagged(tokens, "tier")
            bare == Extract(tokens, {i \in DOMAIN tokens :
                                        tokens[i].kind = "bare" /\ tokens[i].val # ""})
<1>1. TagsOf(tokens) \in Seq(Tokens)
  <2>. DEFINE I == {i \in DOMAIN tokens : tokens[i].kind = "tag" /\ tokens[i].key # "" /\ tokens[i].val # ""}
  <2>1. TagsOf(tokens) = Extract(tokens, I) /\ I \subseteq DOMAIN tokens
    BY Zenon DEF TagsOf
  <2>. HIDE DEF I
  <2>. QED  BY <2>1, ExtractType
<1>2. tagged \in Seq(Tokens)
  <2>. DEFINE tags == TagsOf(tokens)
  <2>1. {i \in DOMAIN tags : tags[i].key = "tier"} \in SUBSET (1 .. Len(tags))
    BY <1>1
  <2>. QED  BY <1>1, <2>1, ExtractType DEF Tagged
<1>3. bare \in Seq(Tokens)
  <2>. DEFINE I == {i \in DOMAIN tokens : tokens[i].kind = "bare" /\ tokens[i].val # ""}
  <2>1. bare = Extract(tokens, I) /\ I \subseteq DOMAIN tokens
    BY Zenon
  <2>. HIDE DEF I, bare
  <2>. QED  BY <2>1, ExtractType
<1>4. Instant \in Tokens
  BY ConversationAssumption DEF Instant, Tokens
<1>5. Parsed(tokens) = IF tagged # <<>> THEN Last(tagged) ELSE IF bare # <<>> THEN Head(bare) ELSE Instant
  BY DEF Parsed
<1>. HIDE DEF tagged, bare
<1>6. tagged # <<>> => Last(tagged) \in Tokens
  BY <1>2 DEF Last
<1>7. bare # <<>> => Head(bare) \in Tokens
  BY <1>3
<1>. QED  BY <1>4, <1>5, <1>6, <1>7

\* The calls of an answer, in every format.
SaidCalls == [name : Strings, val : Strings]

LEMMA CallsType ==
  ASSUME NEW cs \in Seq(SaidCalls), posts \in Nat, NEW form \in {"string", "object"}
  PROVE  ToOpenAI(cs) \in Seq(Calls) /\ Spoken(cs, form) \in Seq(Calls)
<1>0. DOMAIN cs = 1 .. Len(cs) /\ Len(cs) \in Nat
  OBVIOUS
<1>1. ASSUME NEW k \in DOMAIN cs
      PROVE  /\ [name |-> cs[k].name, args |-> Args("string", cs[k].val), id |-> Id(0, k)] \in Calls
             /\ [name |-> cs[k].name, args |-> Args(form, cs[k].val), id |-> Id(posts, k)] \in Calls
  <2>1. cs[k] \in SaidCalls /\ k \in Nat
    BY <1>0
  <2>2. cs[k].name \in Strings /\ cs[k].val \in Strings
    BY <2>1 DEF SaidCalls
  <2>. QED  BY <2>1, <2>2 DEF Calls, Args, Id, Ids
<1>2. ToOpenAI(cs) \in [1 .. Len(cs) -> Calls] /\ Spoken(cs, form) \in [1 .. Len(cs) -> Calls]
  BY <1>0, <1>1 DEF ToOpenAI, Spoken
<1>. QED  BY <1>0, <1>2, FunctionIsSeq

\* What is taken of a text.
LEMMA TakenType ==
  ASSUME NEW text \in Seq(Strings), NEW prov, NEW stream
  PROVE  Taken(text, prov, stream) \in Seq(Strings)
<1>1. text # <<>> => <<Head(text)>> \in Seq(Strings)
  OBVIOUS
<1>. QED  BY <1>1 DEF Taken

\* What the gateway has of an answer is an assistant message.
LEMMA ReturnedType ==
  ASSUME NEW c, NEW a \in Sayings, posts \in Nat
  PROVE  Returned(c, a) \in Messages /\ Returned(c, a).role = "assistant"
<1>1. a.text \in Seq(Strings) /\ a.calls \in Seq(SaidCalls) /\ a.written \in Seq(SaidCalls)
  BY DEF Sayings, SaidCalls
<1>2. /\ Str(a.text) \in TextValues /\ Null \in TextValues /\ <<>> \in Seq(Calls)
      /\ Str(Taken(a.text, c.prov, c.stream)) \in TextValues
  BY <1>1, StrType, TakenType, EmptySeq DEF Null, TextValues
<1>3. Meant(a) \in Seq(SaidCalls)
  BY <1>1 DEF Meant
<1>4. /\ ToOpenAI(Meant(a)) \in Seq(Calls)
      /\ Spoken(a.calls, "object") \in Seq(Calls)
      /\ Spoken(a.calls, "string") \in Seq(Calls)
  BY <1>1, <1>3, CallsType
<1>5. \A text \in TextValues, calls \in Seq(Calls) :
        Message("assistant", text, calls) \in Messages /\ Message("assistant", text, calls).role = "assistant"
  BY MessageType DEF Message
<1>. QED  BY <1>2, <1>4, <1>5 DEF Returned, FromOllamaTools

\* So is what the client keeps of it.
LEMMA KeptType ==
  ASSUME NEW m \in Messages, m.role = "assistant", NEW stream
  PROVE  Kept(m, stream) \in Messages /\ Kept(m, stream).role = "assistant"
<1>. DEFINE calls == [k \in DOMAIN m.calls |-> [m.calls[k] EXCEPT !.args = ToDict(@, stream), !.id = NoId]]
<1>1. m.calls \in Seq(Calls) /\ AsStr(m.text) \in Seq(Strings)
  BY AsStrType DEF Messages
<1>2. calls \in Seq(Calls)
  <2>1. ASSUME NEW x \in Calls
        PROVE  [x EXCEPT !.args = ToDict(x.args, stream), !.id = NoId] \in Calls
    BY ConversationAssumption DEF Calls, ToDict, Args, NoId, Id, Ids
  <2>2. DOMAIN m.calls = 1 .. Len(m.calls) /\ Len(m.calls) \in Nat
    BY <1>1
  <2>3. ASSUME NEW k \in DOMAIN m.calls PROVE calls[k] \in Calls
    <3>1. m.calls[k] \in Calls
      BY <1>1
    <3>. QED  BY <2>1, <3>1
  <2>4. calls \in [1 .. Len(m.calls) -> Calls]
    BY <2>2, <2>3
  <2>. HIDE DEF calls
  <2>. QED  BY <2>2, <2>4, FunctionIsSeq
<1>3. Str(AsStr(m.text)) \in TextValues
  BY <1>1, StrType
<1>4. CASE caller.api = "openai"
  BY <1>4 DEF Kept
<1>5. CASE caller.api # "openai"
  <2>1. Kept(m, stream) = Message("assistant", Str(AsStr(m.text)), calls)
    BY <1>5 DEF Kept
  <2>. HIDE DEF calls
  <2>2. Message("assistant", Str(AsStr(m.text)), calls).role = "assistant"
    BY DEF Message
  <2>. QED  BY <1>2, <1>3, <2>1, <2>2, MessageType
<1>. QED  BY <1>4, <1>5

\* The message at t has calls, and the results up to i are its results.
Result(ms, i, t) ==
    /\ ms[t].calls # <<>>
    /\ \A j \in t + 1 .. i : ms[j].role = "tool" /\ ms[j].calls = <<>>

\* The calls the client is still at are of the last turn, without a result.
Pending ==
    todo # {} => \E t \in DOMAIN history :
        /\ Result(history, Len(history), t)
        /\ todo \subseteq DOMAIN history[t].calls
        /\ \A j \in t + 1 .. Len(history) : history[j].of \notin todo

\* The message a finished call leaves in the history.
ToolMessage(t, k) ==
    [Message("tool", Str(<<"result">>), <<>>) EXCEPT !.id = history[t].calls[k].id, !.of = k]

\* A result is one of the last turn.
LEMMA RunToolIs ==
  ASSUME TypeOK, Pending, NEW k \in todo, RunTool(k)
  PROVE  \E t \in DOMAIN history :
            /\ Result(history, Len(history), t)
            /\ k \in DOMAIN history[t].calls
            /\ todo \subseteq DOMAIN history[t].calls
            /\ \A j \in t + 1 .. Len(history) : history[j].of \notin todo
            /\ history' = Append(history, ToolMessage(t, k))
            /\ ToolMessage(t, k) \in Messages
            /\ ToolMessage(t, k).role = "tool" /\ ToolMessage(t, k).calls = <<>>
            /\ ToolMessage(t, k).of = k /\ ToolMessage(t, k).id = history[t].calls[k].id
<1>1. history \in Seq(Messages)
  BY DEF TypeOK
<1>2. PICK t \in DOMAIN history :
        /\ Result(history, Len(history), t)
        /\ todo \subseteq DOMAIN history[t].calls
        /\ \A j \in t + 1 .. Len(history) : history[j].of \notin todo
  BY DEF Pending
<1>3. IsTurn(history, t, Len(history))
  BY <1>1, <1>2 DEF Result, IsTurn
<1>4. history' = Append(history, ToolMessage(t, k))
  <2>1. SelectLastInSeq(history, LAMBDA m : m.calls # <<>>) = t
    BY <1>1, <1>3, LastTurnIs
  <2>. QED  BY <2>1 DEF RunTool, ToolMessage
<1>5. history[t] \in Messages /\ k \in DOMAIN history[t].calls
  BY <1>1, <1>2
<1>6. history[t].calls[k].id \in Ids /\ k \in Nat
  <2>1. history[t].calls \in Seq(Calls)
    BY <1>5 DEF Messages
  <2>2. history[t].calls[k] \in Calls /\ k \in Nat
    BY <1>5, <2>1
  <2>. QED  BY <2>2 DEF Calls
<1>7. Message("tool", Str(<<"result">>), <<>>) \in Messages
  <2>1. "result" \in Strings
    BY ConversationAssumption
  <2>2. <<"result">> \in Seq(Strings) /\ <<>> \in Seq(Calls)
    BY <2>1, EmptySeq
  <2>. QED  BY <2>2, StrType, MessageType
<1>8. /\ ToolMessage(t, k) \in Messages
      /\ ToolMessage(t, k).role = "tool" /\ ToolMessage(t, k).calls = <<>>
      /\ ToolMessage(t, k).of = k /\ ToolMessage(t, k).id = history[t].calls[k].id
  BY <1>6, <1>7 DEF ToolMessage, Message, Messages
<1>. QED  BY <1>2, <1>4, <1>5, <1>8

\* The tiers of the ladder.
LEMMA TierType ==
  /\ Len(Tiers) \in Nat /\ DOMAIN Tiers = 1 .. Len(Tiers)
  /\ \A i \in DOMAIN Tiers : Tiers[i].prov \in Providers
<1>. DEFINE R == [prov : Providers, think : BOOLEAN]
<1>1. Tiers \in Seq(R)
  BY ConversationAssumption
<1>2. \A r \in R : r.prov \in Providers
  OBVIOUS
<1>. HIDE DEF R
<1>3. \A i \in DOMAIN Tiers : Tiers[i] \in R
  BY <1>1
<1>4. Len(Tiers) \in Nat /\ DOMAIN Tiers = 1 .. Len(Tiers)
  BY <1>1
<1>. QED  BY <1>2, <1>3, <1>4

\* A call that starts is well typed.
LEMMA StartsType ==
  ASSUME TypeOK, posts < MaxPosts,
         NEW p \in Profiles, NEW i \in DOMAIN Tiers, NEW stream \in BOOLEAN,
         NEW prompts \in Seq(Strings), NEW wish \in BOOLEAN, NEW asked \in Seq(Messages),
         Starts(p, i, stream, prompts, wish, asked)
  PROVE  TypeOK' /\ call' # NoCall
<1>1. posts' \in 0 .. MaxPosts
  <2>1. posts' = posts + 1 /\ posts \in 0 .. MaxPosts
    BY DEF TypeOK, Starts
  <2>2. MaxPosts \in Nat
    BY ConversationAssumption
  <2>. QED  BY <2>1, <2>2
<1>2. Tiers[i].prov \in Providers /\ i \in 0 .. Len(Tiers) /\ Len(Tiers) \in Nat
  BY TierType
<1>3. call'.prov \in Providers
  BY <1>2 DEF Starts
<1>4. call'.how \in {"chat", "native", "tools"} /\ call'.how # "none"
  BY DEF Starts, How
<1>5. call'.rung \in 0 .. Len(Tiers)
  <2>1. 0 \in 0 .. Len(Tiers)
    BY <1>2
  <2>. QED  BY <1>2, <2>1 DEF Starts
<1>6. call'.messages \in Seq(Messages) /\ call'.prompts \in Seq(Strings)
  <2>1. history \in Seq(Messages)
    BY DEF TypeOK
  <2>2. InjectAll(history, prompts) \in Seq(Messages) /\ Reverse(prompts) \in Seq(Strings)
    BY <2>1, InjectAllFronted, FrontedType
  <2>. QED  BY <2>2 DEF Starts
<1>7. call'.stream \in BOOLEAN /\ call'.think \in BOOLEAN /\ call'.asked \in Seq(Messages)
  BY DEF Starts
<1>8. DOMAIN call' = DOMAIN NoCall /\ call' # NoCall
  <2>1. DOMAIN call' = DOMAIN NoCall
    BY DEF Starts, NoCall
  <2>2. NoCall.how = "none"
    BY DEF NoCall
  <2>. QED  BY <1>4, <2>1, <2>2
<1>9. caller' \in Callers /\ history' \in Seq(Messages) /\ todo' \subseteq Nat /\ said' \in Seq(Sources)
  BY DEF Starts, TypeOK
<1>. QED  BY <1>1, <1>3, <1>4, <1>5, <1>6, <1>7, <1>8, <1>9 DEF TypeOK

\* Under a classify profile a call starts with the profile's prompt, or with
\* it and a class prompt.
LEMMA PostClassifiedIs ==
  ASSUME TypeOK, NEW p \in Profiles, NEW i \in DOMAIN Tiers, NEW stream \in BOOLEAN,
         NEW tokens \in ClassifierAnswers, PostClassified(p, i, stream, tokens)
  PROVE  /\ ClassifierInput(InjectAll(history, p.prompts), p.window) \in Seq(Messages)
         /\ \E prompts \in Seq(Strings), wish \in BOOLEAN :
               Starts(p, i, stream, prompts, wish,
                      ClassifierInput(InjectAll(history, p.prompts), p.window))
<1>. DEFINE asked == ClassifierInput(InjectAll(history, p.prompts), p.window)
            Prompts(l) == p.prompts \o (IF l \in DOMAIN p.classes THEN <<p.classes[l]>> ELSE <<>>)
<1>1. p.prompts \in Seq(Strings) /\ p.window \in Nat /\ history \in Seq(Messages)
  BY ConversationAssumption DEF TypeOK
<1>2. asked \in Seq(Messages)
  <2>1. InjectAll(history, p.prompts) \in Seq(Messages)
    BY <1>1, InjectAllFronted, FrontedType
  <2>. QED  BY <1>1, <2>1, ClassifierInputType
<1>3. ASSUME NEW l PROVE Prompts(l) \in Seq(Strings)
  <2>1. CASE l \in DOMAIN p.classes
    <3>1. p.classes[l] \in Strings
      BY <2>1, ConversationAssumption
    <3>2. <<p.classes[l]>> \in Seq(Strings)
      BY <3>1
    <3>. QED  BY <1>1, <2>1, <3>2, ConcatProperties
  <2>2. CASE l \notin DOMAIN p.classes
    BY <1>1, <2>2, ConcatEmptySeq
  <2>. QED  BY <2>1, <2>2
<1>4. Parsed(tokens).think \in BOOLEAN
  <2>1. tokens \in Seq(Tokens)
    BY ConversationAssumption
  <2>2. Parsed(tokens) \in Tokens
    BY <2>1, ParsedType
  <2>. QED  BY <2>2 DEF Tokens
<1>5. \/ Starts(p, i, stream, p.prompts, FALSE, asked)
      \/ \E l : Starts(p, i, stream, Prompts(l), Parsed(tokens).think, asked)
  BY DEF PostClassified
<1>. HIDE DEF asked, Prompts
<1>6. \E prompts \in Seq(Strings), wish \in BOOLEAN : Starts(p, i, stream, prompts, wish, asked)
  BY <1>1, <1>3, <1>4, <1>5
<1>. QED  BY <1>2, <1>6 DEF asked

\* What the gateway says itself.
LEMMA NoticeType ==
  /\ Message("assistant", Str(<<"notice">>), <<>>) \in Messages
  /\ Message("assistant", Str(<<"notice">>), <<>>).role = "assistant"
  /\ Message("assistant", Str(<<"notice">>), <<>>).calls = <<>>
  /\ AsStr(Message("assistant", Str(<<"notice">>), <<>>).text) = <<"notice">>
  /\ Notice \in Sayings
<1>1. "notice" \in Strings
  BY ConversationAssumption
<1>2. <<"notice">> \in Seq(Strings) /\ <<>> \in Seq(Calls) /\ <<>> \in Seq([name : Strings, val : Strings])
  BY <1>1, EmptySeq
<1>3. Message("assistant", Str(<<"notice">>), <<>>) \in Messages
  BY <1>2, StrType, MessageType
<1>. QED  BY <1>2, <1>3 DEF Message, Str, AsStr, Notice, Sayings

\* The source of an answer.
LEMMA SourceType ==
  ASSUME TypeOK, NEW by \in {"model", "gateway"}, NEW a \in Sayings
  PROVE  Source(by, a) \in Sources
<1>1. /\ call.prov \in Providers \union {"none"} /\ call.how \in {"none", "chat", "native", "tools"}
      /\ call.stream \in BOOLEAN
  BY DEF TypeOK, NoCall
<1>. QED  BY <1>1 DEF Source, Sources, Sayings

\* An answer that reaches the client.
LEMMA DeliversType ==
  ASSUME TypeOK, NEW m \in Messages, NEW source \in Sources, Delivers(m, source)
  PROVE  TypeOK'
<1>1. history' \in Seq(Messages) /\ said' \in Seq(Sources)
  BY DEF TypeOK, Delivers
<1>2. todo' \subseteq Nat
  <2>1. m.calls \in Seq(Calls)
    BY DEF Messages
  <2>2. DOMAIN m.calls \subseteq Nat
    BY <2>1
  <2>. QED  BY <2>2 DEF Delivers
<1>3. NoCall.messages = <<>> /\ NoCall.asked = <<>> /\ NoCall.prompts = <<>>
      /\ NoCall.stream = FALSE /\ NoCall.think = FALSE
  BY DEF NoCall
<1>4. <<>> \in Seq(Messages) /\ <<>> \in Seq(Strings)
  BY EmptySeq
<1>. QED  BY <1>1, <1>2, <1>3, <1>4 DEF TypeOK, Delivers

\* The next rung of the ladder.
LEMMA NextRungType ==
  ASSUME TypeOK, call # NoCall, call.rung \in 1 .. Len(Tiers) - 1, NextRung
  PROVE  /\ TypeOK' /\ call' # NoCall
         /\ call'.how = call.how /\ call'.messages = call.messages
         /\ call'.fields = call.fields /\ call'.prompts = call.prompts
         /\ call'.think = call.think /\ call'.asked = call.asked /\ call'.options = call.options
<1>1. Len(Tiers) \in Nat
  BY TierType
<1>2. call.rung + 1 \in 1 .. Len(Tiers) /\ call.rung + 1 \in 0 .. Len(Tiers)
  BY <1>1
<1>3. Tiers[call.rung + 1].prov \in Providers
  BY <1>2, TierType
<1>4. DOMAIN call = {"prov", "how", "stream", "rung", "messages", "fields", "prompts", "think", "asked", "options"}
  BY DEF TypeOK, NoCall
<1>5. /\ DOMAIN call' = DOMAIN call
      /\ call'.prov = Tiers[call.rung + 1].prov /\ call'.rung = call.rung + 1
      /\ call'.how = call.how /\ call'.messages = call.messages
      /\ call'.fields = call.fields /\ call'.prompts = call.prompts
      /\ call'.think = call.think /\ call'.asked = call.asked /\ call'.options = call.options
      /\ call'.stream = call.stream
  BY <1>4 DEF NextRung
<1>6. call.how \in {"chat", "native", "tools"}
  BY DEF TypeOK
<1>7. call' # NoCall
  BY <1>5, <1>6 DEF NoCall
<1>8. caller' = caller /\ history' = history /\ todo' = todo /\ posts' = posts /\ said' = said
  BY DEF NextRung
<1>. QED  BY <1>2, <1>3, <1>5, <1>6, <1>7, <1>8 DEF TypeOK

\* A step of anyone keeps the types.
LEMMA TypeStep == TypeOK /\ Pending /\ [Next]_vars => TypeOK'
<1> SUFFICES ASSUME TypeOK, Pending, [Next]_vars
             PROVE  TypeOK'
  OBVIOUS
<1>1. ASSUME NEW question \in Questions, Ask(question)
      PROVE  TypeOK'
  <2>1. question \in TextValues /\ <<>> \in Seq(Calls) /\ posts + 1 \in Nat
    <3>1. question \in TextValues /\ MaxPosts \in Nat
      BY ConversationAssumption
    <3>2. posts \in 0 .. MaxPosts
      BY DEF TypeOK
    <3>3. posts + 1 \in Nat
      BY <3>1, <3>2
    <3>. QED  BY <3>1, <3>3, EmptySeq
  <2>2. Message("user", question, <<>>) \in Messages
    BY <2>1, MessageType
  <2>3. [Message("user", question, <<>>) EXCEPT !.of = posts + 1] \in Messages
    BY <2>1, <2>2 DEF Messages
  <2>. QED  BY <1>1, <2>3 DEF Ask, TypeOK
<1>2. ASSUME NEW k \in todo, RunTool(k)
      PROVE  TypeOK'
  <2>1. PICK t : history' = Append(history, ToolMessage(t, k)) /\ ToolMessage(t, k) \in Messages
    BY <1>2, RunToolIs
  <2>2. todo' \subseteq todo /\ UNCHANGED <<caller, posts, call, said>>
    BY <1>2 DEF RunTool
  <2>3. history' \in Seq(Messages)
    BY <2>1 DEF TypeOK
  <2>. QED  BY <2>2, <2>3 DEF TypeOK
<1>3. ASSUME NEW p \in Profiles, NEW i \in DOMAIN Tiers, NEW stream \in BOOLEAN, Post(p, i, stream)
      PROVE  TypeOK'
  <2>1. p.prompts \in Seq(Strings) /\ <<>> \in Seq(Messages)
    BY ConversationAssumption, EmptySeq
  <2>2. posts < MaxPosts /\ Starts(p, i, stream, p.prompts, FALSE, <<>>)
    BY <1>3 DEF Post, Ready
  <2>. QED  BY <2>1, <2>2, StartsType
<1>4. ASSUME NEW p \in Profiles, NEW i \in DOMAIN Tiers, NEW stream \in BOOLEAN,
             NEW tokens \in ClassifierAnswers, PostClassified(p, i, stream, tokens)
      PROVE  TypeOK'
  <2>. DEFINE asked == ClassifierInput(InjectAll(history, p.prompts), p.window)
  <2>1. asked \in Seq(Messages) /\ \E prompts \in Seq(Strings), wish \in BOOLEAN :
           Starts(p, i, stream, prompts, wish, asked)
    BY <1>4, PostClassifiedIs
  <2>2. posts < MaxPosts
    BY <1>4 DEF PostClassified, Ready
  <2>. HIDE DEF asked
  <2>. QED  BY <2>1, <2>2, StartsType
<1>5. ASSUME NEW p \in Profiles, PostReply(p)
      PROVE  TypeOK'
  <2>1. history' \in Seq(Messages) /\ said' \in Seq(Sources)
    BY <1>5, NoticeType, SourceType DEF PostReply, TypeOK
  <2>2. posts' \in 0 .. MaxPosts
    <3>1. posts' = posts + 1 /\ posts < MaxPosts /\ posts \in 0 .. MaxPosts
      BY <1>5 DEF PostReply, Ready, TypeOK
    <3>2. MaxPosts \in Nat
      BY ConversationAssumption
    <3>. QED  BY <3>1, <3>2
  <2>. QED  BY <1>5, <2>1, <2>2 DEF PostReply, TypeOK
<1>6. ASSUME Fails PROVE TypeOK'
  BY <1>6, NoticeType, SourceType, DeliversType DEF Fails
<1>7. ASSUME NEW a \in Answers, AnswersWith(a)
      PROVE  TypeOK'
  <2>1. a \in Sayings
    BY ConversationAssumption
  <2>2. CASE Delivers(Kept(Returned(call, a), call.stream), Source("model", a))
    <3>1. Kept(Returned(call, a), call.stream) \in Messages
      <4>1. posts \in Nat
        BY DEF TypeOK
      <4>. QED  BY <2>1, <4>1, ReturnedType, KeptType
    <3>2. Source("model", a) \in Sources
      BY <2>1, SourceType
    <3>. QED  BY <2>2, <3>1, <3>2, DeliversType
  <2>3. CASE call.rung \in 1 .. Len(Tiers) - 1 /\ NextRung
    BY <1>7, <2>3, NextRungType DEF AnswersWith
  <2>. QED  BY <1>6, <1>7, <2>2, <2>3 DEF AnswersWith
<1>8. ASSUME CallFails PROVE TypeOK'
  BY <1>6, <1>8, NextRungType DEF CallFails
<1>9. CASE UNCHANGED vars
  BY <1>9 DEF vars, TypeOK
<1>. QED  BY <1>1, <1>2, <1>3, <1>4, <1>5, <1>7, <1>8, <1>9 DEF Next

-----------------------------------------------------------------------------
(* What the client is left with of an answer.                              *)

\* The form of arguments a client keeps.
OwnForm(api) == IF api = "openai" THEN "string" ELSE "object"

\* The arguments of a call are those that were given, in that form; objects
\* differ where the arguments are no JSON.
Gives(args, val, form) ==
    /\ args.val = val \/ (form = "object" /\ val = Broken /\ args.val = "{}")
    /\ args.form = form \/ (form = "object" /\ val = Broken)

\* The calls of a message are those made, in the given form.
Matches(calls, made, form) ==
    /\ Len(calls) = Len(made)
    /\ \A k \in DOMAIN made :
          /\ calls[k].name = made[k].name
          /\ Gives(calls[k].args, made[k].val, form)

\* A message says what its source said, to a client of an API.
Repeats(m, source, api) ==
    /\ Matches(m.calls, Made(source), OwnForm(api))
    /\ ~ByTools(source) \/ Made(source) = <<>> =>
          AsStr(m.text) = Taken(source.text, source.prov, source.stream)

LEMMA MadeType ==
  ASSUME NEW source \in Sources
  PROVE  Made(source) \in Seq(SaidCalls)
BY DEF Made, Meant, Sources, SaidCalls

\* The calls on the wire match, with an id of their own each.
WireCalls(calls, made, form) ==
    /\ Matches(calls, made, form)
    /\ \A j, k \in DOMAIN calls : calls[j].id = calls[k].id => j = k

LEMMA SpokenMatches ==
  ASSUME NEW cs \in Seq(SaidCalls), NEW form
  PROVE  WireCalls(Spoken(cs, form), cs, form)
<1>1. DOMAIN cs = 1 .. Len(cs) /\ Len(cs) \in Nat
  OBVIOUS
<1>2. Len(Spoken(cs, form)) = Len(cs) /\ DOMAIN Spoken(cs, form) = DOMAIN cs
  BY <1>1 DEF Spoken
<1>3. ASSUME NEW k \in DOMAIN cs
      PROVE  /\ Spoken(cs, form)[k].name = cs[k].name
             /\ Gives(Spoken(cs, form)[k].args, cs[k].val, form)
             /\ Spoken(cs, form)[k].id.k = k
  <2>1. /\ Spoken(cs, form)[k].args.val = cs[k].val
        /\ Spoken(cs, form)[k].args.form = form
    BY DEF Spoken, Args
  <2>. QED  BY <2>1 DEF Gives, Spoken, Id
<1>. QED  BY <1>2, <1>3 DEF WireCalls, Matches

\* So do those the tool path has translated.
LEMMA ToOpenAIMatches ==
  ASSUME NEW cs \in Seq(SaidCalls)
  PROVE  WireCalls(ToOpenAI(cs), cs, "string")
<1>1. DOMAIN cs = 1 .. Len(cs) /\ Len(cs) \in Nat
  OBVIOUS
<1>2. Len(ToOpenAI(cs)) = Len(cs) /\ DOMAIN ToOpenAI(cs) = DOMAIN cs
  BY <1>1 DEF ToOpenAI
<1>3. ASSUME NEW k \in DOMAIN cs
      PROVE  /\ ToOpenAI(cs)[k].name = cs[k].name
             /\ Gives(ToOpenAI(cs)[k].args, cs[k].val, "string")
             /\ ToOpenAI(cs)[k].id.k = k
  <2>1. /\ ToOpenAI(cs)[k].args.val = cs[k].val
        /\ ToOpenAI(cs)[k].args.form = "string"
    BY DEF ToOpenAI, Args
  <2>. QED  BY <2>1 DEF Gives, ToOpenAI, Id
<1>. QED  BY <1>2, <1>3 DEF WireCalls, Matches

\* What the client keeps matches, in the form its API has.
LEMMA KeptMatches ==
  ASSUME NEW m \in Messages, NEW made \in Seq(SaidCalls), NEW stream, NEW form,
         Matches(m.calls, made, form), form = "string" \/ caller.api # "openai"
  PROVE  Matches(Kept(m, stream).calls, made, OwnForm(caller.api))
<1>1. CASE caller.api = "openai"
  BY <1>1 DEF Kept, OwnForm
<1>2. CASE caller.api # "openai"
  <2>. DEFINE calls == [k \in DOMAIN m.calls |-> [m.calls[k] EXCEPT !.args = ToDict(@, stream), !.id = NoId]]
  <2>1. m.calls \in Seq(Calls) /\ DOMAIN m.calls = 1 .. Len(m.calls) /\ Len(m.calls) \in Nat
    BY DEF Messages
  <2>2. Kept(m, stream).calls = calls
    BY <1>2 DEF Kept, Message
  <2>3. Len(calls) = Len(made) /\ DOMAIN made = DOMAIN m.calls
    BY <2>1 DEF Matches
  <2>4. ASSUME NEW k \in DOMAIN made
        PROVE  /\ calls[k].name = made[k].name
               /\ Gives(calls[k].args, made[k].val, "object")
    <3>1. m.calls[k] \in Calls /\ k \in DOMAIN m.calls
      BY <2>1, <2>3
    <3>2. calls[k] = [m.calls[k] EXCEPT !.args = ToDict(m.calls[k].args, stream), !.id = NoId]
      BY <3>1
    <3>3. calls[k].name = m.calls[k].name /\ calls[k].args = ToDict(m.calls[k].args, stream)
      <4>. HIDE DEF calls
      <4>. QED  BY <3>1, <3>2 DEF Calls
    <3>4. m.calls[k].name = made[k].name /\ Gives(m.calls[k].args, made[k].val, form)
      BY DEF Matches
    <3>. HIDE DEF calls
    <3>5. ASSUME NEW args PROVE Gives(args, made[k].val, form) => Gives(ToDict(args, stream), made[k].val, "object")
      BY DEF Gives, ToDict, Args, Broken
    <3>. QED  BY <3>3, <3>4, <3>5
  <2>. HIDE DEF calls
  <2>. QED  BY <1>2, <2>2, <2>3, <2>4 DEF Matches, OwnForm
<1>. QED  BY <1>1, <1>2

\* An answer of a model arrives as what it said, and for a client of the
\* OpenAI API with different ids in one message.
LEMMA AnswerRepeats ==
  ASSUME TypeOK, NEW a \in Sayings, call.how = "native" => caller.api = "ollama"
  PROVE  LET m == Kept(Returned(call, a), call.stream)
         IN  /\ Repeats(m, Source("model", a), caller.api)
             /\ caller.api = "openai" =>
                  \A j, k \in DOMAIN m.calls : m.calls[j].id = m.calls[k].id => j = k
<1>. DEFINE s == Source("model", a)
            r == Returned(call, a)
            m == Kept(r, call.stream)
<1>1. a.text \in Seq(Strings) /\ a.calls \in Seq(SaidCalls) /\ a.written \in Seq(SaidCalls)
  BY DEF Sayings, SaidCalls
<1>2. /\ s.prov = call.prov /\ s.how = call.how /\ s.stream = call.stream
      /\ s.text = a.text /\ Meant(s) = Meant(a) /\ s.calls = a.calls
  BY DEF Source, Meant
<1>3. Meant(a) \in Seq(SaidCalls) /\ Made(s) \in Seq(SaidCalls)
  BY <1>1, <1>2 DEF Meant, Made
<1>4. r \in Messages /\ m \in Messages
  <2>1. posts \in Nat
    BY DEF TypeOK
  <2>. QED  BY <2>1, ReturnedType, KeptType
<1>. DEFINE Fine(form) ==
                /\ form = "string" \/ caller.api # "openai"
                /\ WireCalls(r.calls, Made(s), form)
<1>5. Fine("string") \/ Fine("object")
  <2>0. \A text, calls : Message("assistant", text, calls).calls = calls
    BY DEF Message
  <2>1. CASE call.prov = "ollama" /\ call.how = "tools"
    <3>1. Made(s) = Meant(a)
      BY <1>2, <2>1 DEF Made, ByTools
    <3>2. CASE Meant(a) # <<>>
      <4>1. r.calls = ToOpenAI(Meant(a))
        BY <2>0, <2>1, <3>2 DEF Returned, FromOllamaTools
      <4>. HIDE DEF r, s
      <4>2. Fine("string")
        BY <1>3, <3>1, <4>1, ToOpenAIMatches
      <4>. QED  BY <4>2
    <3>3. CASE Meant(a) = <<>>
      <4>1. r.calls = <<>>
        BY <2>0, <2>1, <3>3 DEF Returned, FromOllamaTools
      <4>. HIDE DEF r, s
      <4>. QED  BY <3>1, <3>3, <4>1 DEF WireCalls, Matches
    <3>. QED  BY <3>2, <3>3
  <2>2. CASE call.prov = "ollama" /\ call.how = "native"
    <3>1. Made(s) = a.calls /\ caller.api # "openai"
      BY <1>2, <2>2 DEF Made, ByTools
    <3>2. r.calls = Spoken(a.calls, "object")
      BY <2>0, <2>2 DEF Returned
    <3>. HIDE DEF r, s
    <3>3. Fine("object")
      BY <1>1, <3>1, <3>2, SpokenMatches
    <3>. QED  BY <3>3
  <2>3. CASE ~ (call.prov = "ollama" /\ call.how \in {"tools", "native"})
    <3>1. Made(s) = a.calls
      BY <1>2, <2>3 DEF Made, ByTools
    <3>2. r.calls = Spoken(a.calls, "string")
      BY <2>0, <2>3 DEF Returned
    <3>. HIDE DEF r, s
    <3>3. Fine("string")
      BY <1>1, <3>1, <3>2, SpokenMatches
    <3>. QED  BY <3>3
  <2>. QED  BY <2>1, <2>2, <2>3
<1>6. ~ByTools(s) \/ Made(s) = <<>> => AsStr(r.text) = Taken(a.text, call.prov, call.stream)
  <2>1. /\ \A text, calls : Message("assistant", text, calls).text = text
        /\ \A parts : AsStr(Str(parts)) = parts
        /\ AsStr(Null) = <<>>
    BY DEF Message, AsStr, Str, Null
  <2>2. ByTools(s) <=> call.prov = "ollama" /\ call.how = "tools"
    BY <1>2 DEF ByTools
  <2>3. ByTools(s) => Made(s) = Meant(a)
    BY <1>2 DEF Made
  <2>4. /\ call.prov = "ollama" => Taken(a.text, call.prov, call.stream) = a.text
        /\ a.text = <<>> => Taken(a.text, call.prov, call.stream) = <<>>
    BY DEF Taken, Adapter
  <2>. HIDE DEF s
  <2>. QED  BY <2>1, <2>2, <2>3, <2>4 DEF Returned, FromOllamaTools
<1>7. AsStr(m.text) = AsStr(r.text)
  BY DEF Kept, Message, AsStr, Str
<1>8. caller.api = "openai" => m = r
  BY DEF Kept
<1>9. Matches(m.calls, Made(s), OwnForm(caller.api))
  <2>. HIDE DEF r, s
  <2>. QED  BY <1>3, <1>4, <1>5, KeptMatches DEF WireCalls
<1>. HIDE DEF m, r
<1>10. Repeats(m, s, caller.api)
  BY <1>2, <1>6, <1>7, <1>9 DEF Repeats
<1>. QED  BY <1>5, <1>8, <1>10 DEF m, r, WireCalls

-----------------------------------------------------------------------------
(* The inductive invariant.                                                *)

\* The client's own system messages are in front, and no other ones.
SystemFirst ==
    /\ Len(history) >= Len(caller.system)
    /\ \A i \in 1 .. Len(caller.system) : history[i] = Message("system", caller.system[i], <<>>)
    /\ \A i \in Len(caller.system) + 1 .. Len(history) : history[i].role # "system"

\* What the client set is in the call that is under way.
FieldsKept ==
    \A f \in DOMAIN caller.fields :
        \/ f \in DOMAIN call.fields /\ call.fields[f] = caller.fields[f]
        \/ f = "think" /\ call.think

OptionsKept ==
    \A o \in DOMAIN ClassifierOptions :
        o \in DOMAIN call.options /\ call.options[o] = ClassifierOptions[o]

\* A call is under way only when no tool runs, and has the whole history.
Underway ==
    /\ call = NoCall => call.asked = <<>>
    /\ call # NoCall => /\ todo = {}
                        /\ call.messages = Fronted(history, call.prompts)
                        /\ call.how = "native" => caller.api = "ollama"
                        /\ FieldsKept
                        /\ OptionsKept

AssistantPlaces(ms) == {i \in 1 .. Len(ms) : ms[i].role = "assistant"}

\* The k-th answer of the history says what the k-th source said.
Remembered ==
    \E e : /\ Lists(e, Len(said), AssistantPlaces(history))
           /\ \A k \in 1 .. Len(said) : Repeats(history[e[k]], said[k], caller.api)

\* Result i answers a call of the message at t, and none does so before it.
Answered(ms, i, t) ==
    /\ t \in 1 .. i - 1
    /\ Result(ms, i, t)
    /\ ms[i].of \in DOMAIN ms[t].calls
    /\ ms[i].id = ms[t].calls[ms[i].of].id
    /\ \A j \in t + 1 .. i - 1 : ms[j].of # ms[i].of

Results ==
    \A i \in 1 .. Len(history) : history[i].role = "tool" => \E t : Answered(history, i, t)

\* Every call has a result, or is one of those the client is still at.
HasResult(ms, t, k) == \E i \in t + 1 .. Len(ms) : Result(ms, i, t) /\ ms[i].of = k
Complete ==
    \A t \in 1 .. Len(history) : \A k \in DOMAIN history[t].calls :
        HasResult(history, t, k) \/ (k \in todo /\ Result(history, Len(history), t))

\* Ids tell the calls of a message apart.
Apart(calls) == \A j, k \in DOMAIN calls : calls[j].id = calls[k].id => j = k
IdsDiffer == caller.api = "openai" => \A t \in 1 .. Len(history) : Apart(history[t].calls)

Inv ==
    /\ TypeOK
    /\ SystemFirst
    /\ Pending
    /\ Underway
    /\ Remembered
    /\ Results
    /\ Complete
    /\ IdsDiffer
    /\ AsksTheQuestion

-----------------------------------------------------------------------------
(* A step leaves the history alone, or is one of three kinds.              *)

Still == UNCHANGED <<caller, history, todo, said>>

\* The call goes on to another tier.
Climbs ==
    /\ Still
    /\ call # NoCall /\ call' # NoCall
    /\ call'.how = call.how /\ call'.messages = call.messages
    /\ call'.fields = call.fields /\ call'.prompts = call.prompts
    /\ call'.think = call.think /\ call'.asked = call.asked /\ call'.options = call.options

\* A call starts, after a classification of the same history or none.
Classified(asked) ==
    \/ asked = <<>>
    \/ \E q \in Seq(Strings), n \in Nat : asked = ClassifierInput(Fronted(history, q), n)
Begins ==
    /\ todo = {} /\ call' # NoCall
    /\ \E p, i, stream, prompts, wish, asked :
          /\ prompts \in Seq(Strings) /\ wish \in BOOLEAN /\ Classified(asked)
          /\ Starts(p, i, stream, prompts, wish, asked)

\* One more message; no call is under way then.
Grows(m) ==
    /\ m \in Messages /\ m.role # "system"
    /\ history' = Append(history, m)
    /\ caller' = caller
    /\ call' = NoCall

Asks(m) ==
    /\ Grows(m) /\ m.role = "user" /\ m.calls = <<>>
    /\ todo = {} /\ todo' = {}
    /\ said' = said

Finishes(m, t, k) ==
    /\ Grows(m) /\ m.role = "tool" /\ m.calls = <<>> /\ m.of = k
    /\ k \in todo /\ todo' = todo \ {k}
    /\ said' = said
    /\ t \in 1 .. Len(history)
    /\ Result(history, Len(history), t)
    /\ todo \subseteq DOMAIN history[t].calls
    /\ m.id = history[t].calls[k].id
    /\ \A j \in t + 1 .. Len(history) : history[j].of \notin todo

Says(m, source) ==
    /\ Grows(m) /\ m.role = "assistant"
    /\ todo = {} /\ todo' = DOMAIN m.calls
    /\ source \in Sources /\ said' = Append(said, source)
    /\ Repeats(m, source, caller.api)
    /\ caller.api = "openai" => Apart(m.calls)

\* What the gateway says itself, under whatever call.
LEMMA NoticeRepeats ==
  /\ Repeats(Message("assistant", Str(<<"notice">>), <<>>), Source("gateway", Notice), caller.api)
  /\ Apart(Message("assistant", Str(<<"notice">>), <<>>).calls)
<1>. DEFINE s == Source("gateway", Notice)
            m == Message("assistant", Str(<<"notice">>), <<>>)
<1>1. s.calls = <<>> /\ s.written = <<>> /\ s.text = <<"notice">>
  BY DEF Source, Notice
<1>2. m.calls = <<>> /\ AsStr(m.text) = <<"notice">>
  BY DEF Message, AsStr, Str
<1>. HIDE DEF s, m
<1>3. Made(s) = <<>>
  BY <1>1 DEF Made, Meant
<1>4. Taken(<<"notice">>, s.prov, s.stream) = <<"notice">>
  BY DEF Taken
<1>. QED  BY <1>1, <1>2, <1>3, <1>4 DEF Repeats, Matches, Apart, s, m

\* A failure says the notice.
LEMMA FailsSays ==
  ASSUME TypeOK, Underway, call # NoCall, Fails
  PROVE  \E m, source : Says(m, source)
<1>. DEFINE m == Message("assistant", Str(<<"notice">>), <<>>)
            s == Source("gateway", Notice)
<1>1. m \in Messages /\ m.role = "assistant" /\ s \in Sources /\ Repeats(m, s, caller.api) /\ Apart(m.calls)
  BY NoticeType, NoticeRepeats, SourceType
<1>2. Delivers(m, s)
  BY DEF Fails
<1>. HIDE DEF m, s
<1>3. Says(m, s)
  BY <1>1, <1>2 DEF Says, Grows, Delivers, Underway
<1>. QED  BY <1>3

\* Dispatch and escalate modes begin a call.
LEMMA PostBegins ==
  ASSUME TypeOK, NEW p \in Profiles, NEW i \in DOMAIN Tiers, NEW stream \in BOOLEAN, Post(p, i, stream)
  PROVE  Begins
<1>1. p.prompts \in Seq(Strings) /\ <<>> \in Seq(Messages)
  BY ConversationAssumption, EmptySeq
<1>2. todo = {} /\ posts < MaxPosts /\ Starts(p, i, stream, p.prompts, FALSE, <<>>)
  BY DEF Post, Ready
<1>3. call' # NoCall
  BY <1>1, <1>2, StartsType
<1>4. Classified(<<>>)
  BY DEF Classified
<1>. QED  BY <1>1, <1>2, <1>3, <1>4 DEF Begins

\* So does classify mode.
LEMMA PostClassifiedBegins ==
  ASSUME TypeOK, NEW p \in Profiles, NEW i \in DOMAIN Tiers, NEW stream \in BOOLEAN,
         NEW tokens \in ClassifierAnswers, PostClassified(p, i, stream, tokens)
  PROVE  Begins
<1>. DEFINE asked == ClassifierInput(InjectAll(history, p.prompts), p.window)
<1>1. asked \in Seq(Messages) /\ \E prompts \in Seq(Strings), wish \in BOOLEAN :
         Starts(p, i, stream, prompts, wish, asked)
  BY PostClassifiedIs
<1>2. posts < MaxPosts /\ todo = {}
  BY DEF PostClassified, Ready
<1>3. Classified(asked)
  <2>1. history \in Seq(Messages) /\ p.prompts \in Seq(Strings) /\ p.window \in Nat
    BY ConversationAssumption DEF TypeOK
  <2>2. InjectAll(history, p.prompts) = Fronted(history, Reverse(p.prompts))
        /\ Reverse(p.prompts) \in Seq(Strings)
    BY <2>1, InjectAllFronted
  <2>. QED  BY <2>1, <2>2 DEF Classified
<1>. HIDE DEF asked
<1>4. PICK prompts \in Seq(Strings), wish \in BOOLEAN : Starts(p, i, stream, prompts, wish, asked)
  BY <1>1
<1>5. call' # NoCall
  BY <1>1, <1>2, <1>4, StartsType
<1>. QED  BY <1>2, <1>3, <1>4, <1>5 DEF Begins

\* Every step is of one of these kinds.
LEMMA Kinds ==
  ASSUME TypeOK, Underway, Pending, [Next]_vars
  PROVE  \/ Still /\ call' = call
         \/ Climbs
         \/ Begins
         \/ \E m : Asks(m)
         \/ \E m, t, k : Finishes(m, t, k)
         \/ \E m, source : Says(m, source)
<1>1. ASSUME NEW question \in Questions, Ask(question)
      PROVE  \E m : Asks(m)
  <2>. DEFINE m == [Message("user", question, <<>>) EXCEPT !.of = posts + 1]
  <2>1. TypeOK'
    BY <1>1, TypeStep DEF Next
  <2>2. m.role = "user" /\ m.calls = <<>> /\ history' = Append(history, m)
    BY <1>1 DEF Ask, Message
  <2>. HIDE DEF m
  <2>3. m \in Messages
    <3>1. history \in Seq(Messages) /\ Append(history, m) \in Seq(Messages)
      BY <2>1, <2>2 DEF TypeOK
    <3>. QED  BY <3>1
  <2>4. Asks(m)
    BY <1>1, <2>2, <2>3 DEF Asks, Grows, Ask
  <2>. QED  BY <2>4
<1>2. ASSUME NEW k \in todo, RunTool(k)
      PROVE  \E m, t : Finishes(m, t, k)
  <2>1. PICK t \in DOMAIN history :
            /\ Result(history, Len(history), t)
            /\ k \in DOMAIN history[t].calls
            /\ todo \subseteq DOMAIN history[t].calls
            /\ \A j \in t + 1 .. Len(history) : history[j].of \notin todo
            /\ history' = Append(history, ToolMessage(t, k))
            /\ ToolMessage(t, k) \in Messages
            /\ ToolMessage(t, k).role = "tool" /\ ToolMessage(t, k).calls = <<>>
            /\ ToolMessage(t, k).of = k /\ ToolMessage(t, k).id = history[t].calls[k].id
    BY <1>2, RunToolIs
  <2>2. call = NoCall
    BY DEF Underway
  <2>3. todo' = todo \ {k} /\ UNCHANGED <<caller, call, said>>
    BY <1>2 DEF RunTool
  <2>4. t \in 1 .. Len(history)
    BY <2>1 DEF TypeOK
  <2>5. Finishes(ToolMessage(t, k), t, k)
    BY <2>1, <2>2, <2>3, <2>4 DEF Finishes, Grows
  <2>. QED  BY <2>5
<1>3. ASSUME NEW p \in Profiles, PostReply(p)
      PROVE  \E m, source : Says(m, source)
  <2>. DEFINE m == Message("assistant", Str(<<"notice">>), <<>>)
              s == Source("gateway", Notice)
  <2>1. m \in Messages /\ m.role = "assistant" /\ m.calls = <<>>
        /\ s \in Sources /\ Repeats(m, s, caller.api) /\ Apart(m.calls)
    BY NoticeType, NoticeRepeats, SourceType
  <2>2. history' = Append(history, m) /\ said' = Append(said, s)
        /\ todo = {} /\ call = NoCall /\ UNCHANGED <<caller, todo, call>>
    BY <1>3 DEF PostReply, Ready
  <2>. HIDE DEF m, s
  <2>3. Says(m, s)
    BY <2>1, <2>2 DEF Says, Grows
  <2>. QED  BY <2>3
<1>4. ASSUME NEW a \in Answers, AnswersWith(a)
      PROVE  Climbs \/ \E m, source : Says(m, source)
  <2>1. call # NoCall
    BY <1>4 DEF AnswersWith
  <2>2. CASE NextRung /\ call.rung \in 1 .. Len(Tiers) - 1
    BY <2>1, <2>2, NextRungType DEF NextRung, Still, Climbs
  <2>3. CASE Fails
    BY <2>1, <2>3, FailsSays
  <2>4. CASE Delivers(Kept(Returned(call, a), call.stream), Source("model", a))
    <3>. DEFINE r == Returned(call, a)
                m == Kept(r, call.stream)
                s == Source("model", a)
    <3>1. a \in Sayings /\ posts \in Nat
      <4>1. a \in Sayings
        BY ConversationAssumption
      <4>2. posts \in Nat
        BY DEF TypeOK
      <4>. QED  BY <4>1, <4>2
    <3>2. m \in Messages /\ m.role = "assistant"
      BY <3>1, ReturnedType, KeptType
    <3>3. s \in Sources
      BY <3>1, SourceType
    <3>4. call.how = "native" => caller.api = "ollama"
      BY <2>1 DEF Underway
    <3>5. Repeats(m, s, caller.api) /\ (caller.api = "openai" => Apart(m.calls))
      BY <3>1, <3>4, AnswerRepeats DEF Apart
    <3>6. Delivers(m, s)
      BY <2>4
    <3>. HIDE DEF m, s
    <3>7. Says(m, s)
      BY <2>1, <3>2, <3>3, <3>5, <3>6 DEF Says, Grows, Delivers, Underway
    <3>. QED  BY <3>7
  <2>. QED  BY <1>4, <2>2, <2>3, <2>4 DEF AnswersWith
<1>5. ASSUME CallFails
      PROVE  Climbs \/ \E m, source : Says(m, source)
  <2>1. call # NoCall /\ ((NextRung /\ call.rung \in 1 .. Len(Tiers) - 1) \/ Fails)
    BY <1>5 DEF CallFails
  <2>2. CASE NextRung /\ call.rung \in 1 .. Len(Tiers) - 1
    BY <2>1, <2>2, NextRungType DEF NextRung, Still, Climbs
  <2>. QED  BY <2>1, <2>2, FailsSays
<1>6. ASSUME NEW p \in Profiles, NEW i \in DOMAIN Tiers, NEW stream \in BOOLEAN,
             \/ Post(p, i, stream)
             \/ \E tokens \in ClassifierAnswers : PostClassified(p, i, stream, tokens)
      PROVE  Begins
  BY <1>6, PostBegins, PostClassifiedBegins
<1>7. CASE UNCHANGED vars
  BY <1>7 DEF vars, Still
<1>. QED  BY <1>1, <1>2, <1>3, <1>4, <1>5, <1>6, <1>7 DEF Next
-----------------------------------------------------------------------------
(* Each part of the invariant is kept.                                     *)

\* A sequence with one more element.
LEMMA AppendIs ==
  ASSUME NEW V, NEW s \in Seq(V), NEW m \in V
  PROVE  /\ Append(s, m) \in Seq(V) /\ Len(s) \in Nat /\ Len(Append(s, m)) = Len(s) + 1
         /\ Append(s, m)[Len(s) + 1] = m
         /\ \A i \in 1 .. Len(s) : Append(s, m)[i] = s[i]
OBVIOUS

\* The old messages stay where they are.
LEMMA GrowsIs ==
  ASSUME TypeOK, NEW m, Grows(m)
  PROVE  /\ history' \in Seq(Messages) /\ Len(history) \in Nat /\ Len(history') = Len(history) + 1
         /\ history'[Len(history) + 1] = m
         /\ \A i \in 1 .. Len(history) : history'[i] = history[i]
         /\ \A i \in 1 .. Len(history') : i \in 1 .. Len(history) \/ i = Len(history) + 1
<1>1. history \in Seq(Messages) /\ m \in Messages /\ history' = Append(history, m)
  BY DEF Grows, TypeOK
<1>2. /\ history' \in Seq(Messages) /\ Len(history) \in Nat /\ Len(history') = Len(history) + 1
      /\ history'[Len(history) + 1] = m
      /\ \A i \in 1 .. Len(history) : history'[i] = history[i]
  BY <1>1, AppendIs
<1>3. \A i \in 1 .. Len(history') : i \in 1 .. Len(history) \/ i = Len(history) + 1
  <2>1. Len(history) \in Nat /\ Len(history') = Len(history) + 1
    BY <1>2
  <2>. QED  BY <2>1
<1>. QED  BY <1>2, <1>3, Zenon

\* Nor does what they are results of change.
LEMMA GrownResult ==
  ASSUME TypeOK, NEW m, Grows(m), NEW i \in 1 .. Len(history), NEW t \in 1 .. i
  PROVE  Result(history', i, t) <=> Result(history, i, t)
<1>1. history'[t] = history[t] /\ \A j \in t + 1 .. i : history'[j] = history[j]
  BY GrowsIs
<1>. QED  BY <1>1 DEF Result

\* No step adds a system message.
LEMMA SystemFirstStep ==
  ASSUME TypeOK, SystemFirst,
         Still \/ \E m : Grows(m)
  PROVE  SystemFirst'
<1>1. CASE Still
  BY <1>1 DEF Still, SystemFirst
<1>2. ASSUME NEW m, Grows(m) PROVE SystemFirst'
  <2>1. caller' = caller /\ m.role # "system"
    BY <1>2 DEF Grows
  <2>2. Len(caller.system) \in Nat
    <3>1. caller.system \in Seq(TextValues)
      BY ConversationAssumption DEF TypeOK
    <3>. QED  BY <3>1
  <2>. QED  BY <1>2, <2>1, <2>2, GrowsIs DEF SystemFirst
<1>. QED  BY <1>1, <1>2

\* The calls the client is at stay those of the last turn.
LEMMA PendingStep ==
  ASSUME TypeOK, Pending,
         \/ Still
         \/ \E m : Asks(m)
         \/ \E m, t, k : Finishes(m, t, k)
         \/ \E m, source : Says(m, source)
  PROVE  Pending'
<1>1. CASE Still
  BY <1>1 DEF Still, Pending
<1>2. ASSUME NEW m, Asks(m) PROVE Pending'
  BY <1>2 DEF Asks, Pending
<1>3. ASSUME NEW m, NEW t, NEW k, Finishes(m, t, k) PROVE Pending'
  <2>1. Grows(m)
    BY <1>3 DEF Finishes
  <2>2. t \in 1 .. Len(history) /\ Result(history, Len(history), t)
    BY <1>3 DEF Finishes
  <2>3. Result(history', Len(history'), t)
    <3>1. history'[t] = history[t]
      BY <2>1, <2>2, GrowsIs
    <3>2. ASSUME NEW j \in t + 1 .. Len(history') PROVE history'[j].role = "tool" /\ history'[j].calls = <<>>
      <4>1. j = Len(history) + 1 \/ j \in t + 1 .. Len(history)
        BY <2>1, <2>2, GrowsIs
      <4>2. CASE j = Len(history) + 1
        BY <1>3, <2>1, <4>2, GrowsIs DEF Finishes
      <4>3. CASE j \in t + 1 .. Len(history)
        <5>1. history'[j] = history[j]
          BY <2>1, <2>2, <4>3, GrowsIs
        <5>. QED  BY <2>2, <4>3, <5>1 DEF Result
      <4>. QED  BY <4>1, <4>2, <4>3
    <3>. QED  BY <2>2, <3>1, <3>2 DEF Result
  <2>4. todo' \subseteq DOMAIN history'[t].calls
    <3>1. history'[t] = history[t]
      BY <2>1, <2>2, GrowsIs
    <3>. QED  BY <1>3, <3>1 DEF Finishes
  <2>5. ASSUME NEW j \in t + 1 .. Len(history') PROVE history'[j].of \notin todo'
    <3>1. j = Len(history) + 1 \/ j \in t + 1 .. Len(history)
      BY <2>1, <2>2, GrowsIs
    <3>2. CASE j = Len(history) + 1
      <4>1. history'[j] = m
        BY <2>1, <3>2, GrowsIs
      <4>. QED  BY <1>3, <4>1 DEF Finishes
    <3>3. CASE j \in t + 1 .. Len(history)
      <4>1. history'[j] = history[j]
        BY <2>1, <2>2, <3>3, GrowsIs
      <4>. QED  BY <1>3, <3>3, <4>1 DEF Finishes
    <3>. QED  BY <3>1, <3>2, <3>3
  <2>6. t \in DOMAIN history'
    BY <2>1, <2>2, GrowsIs
  <2>. QED  BY <2>3, <2>4, <2>5, <2>6 DEF Pending
<1>4. ASSUME NEW m, NEW source, Says(m, source) PROVE Pending'
  <2>1. Grows(m)
    BY <1>4 DEF Says
  <2>. DEFINE t == Len(history')
  <2>2. t \in DOMAIN history' /\ history'[t] = m /\ t \in Nat
    BY <2>1, GrowsIs
  <2>3. ASSUME todo' # {}
        PROVE  Result(history', t, t) /\ todo' \subseteq DOMAIN history'[t].calls
               /\ \A j \in t + 1 .. t : history'[j].of \notin todo'
    <3>1. t + 1 .. t = {}
      BY <2>2
    <3>2. todo' = DOMAIN m.calls /\ m.calls # <<>>
      BY <1>4, <2>3 DEF Says
    <3>. QED  BY <2>2, <3>1, <3>2 DEF Result
  <2>. QED  BY <2>2, <2>3 DEF Pending
<1>. QED  BY <1>1, <1>2, <1>3, <1>4

\* A new answer has its ids apart.
LEMMA IdsDifferStep ==
  ASSUME TypeOK, IdsDiffer,
         \/ Still
         \/ \E m : Asks(m)
         \/ \E m, t, k : Finishes(m, t, k)
         \/ \E m, source : Says(m, source)
  PROVE  IdsDiffer'
<1>1. CASE Still
  BY <1>1 DEF Still, IdsDiffer
<1>2. ASSUME NEW m, Grows(m), caller.api = "openai" => Apart(m.calls)
      PROVE  IdsDiffer'
  <2>1. caller' = caller
    BY <1>2 DEF Grows
  <2>2. ASSUME caller.api = "openai", NEW t \in 1 .. Len(history') PROVE Apart(history'[t].calls)
    <3>1. CASE t \in 1 .. Len(history)
      BY <1>2, <2>2, <3>1, GrowsIs DEF IdsDiffer
    <3>2. CASE t = Len(history) + 1
      BY <1>2, <2>2, <3>2, GrowsIs
    <3>. QED  BY <1>2, <3>1, <3>2, GrowsIs
  <2>. QED  BY <2>1, <2>2 DEF IdsDiffer
<1>3. ASSUME NEW m, m.calls = <<>> PROVE Apart(m.calls)
  BY <1>3 DEF Apart
<1>. QED  BY <1>1, <1>2, <1>3 DEF Asks, Finishes, Says

\* A new result is of the last turn, and the first of its call.
LEMMA ResultsStep ==
  ASSUME TypeOK, Results,
         \/ Still
         \/ \E m : Asks(m)
         \/ \E m, t, k : Finishes(m, t, k)
         \/ \E m, source : Says(m, source)
  PROVE  Results'
<1>1. CASE Still
  BY <1>1 DEF Still, Results
<1>2. ASSUME NEW m, Grows(m), NEW i \in 1 .. Len(history), history'[i].role = "tool"
      PROVE  \E t : Answered(history', i, t)
  <2>1. history'[i] = history[i]
    BY <1>2, GrowsIs
  <2>2. PICK t : Answered(history, i, t)
    BY <1>2, <2>1 DEF Results
  <2>3. t \in 1 .. i - 1 /\ t \in 1 .. i /\ t \in 1 .. Len(history)
    BY <2>2, <1>2 DEF Answered
  <2>4. history'[t] = history[t] /\ \A j \in t + 1 .. i - 1 : history'[j] = history[j]
    BY <1>2, <2>3, GrowsIs
  <2>5. Result(history', i, t)
    BY <1>2, <2>2, <2>3, GrownResult DEF Answered
  <2>6. Answered(history', i, t)
    BY <2>1, <2>2, <2>4, <2>5 DEF Answered
  <2>. QED  BY <2>6
<1>3. ASSUME NEW m, Grows(m), m.role # "tool"
      PROVE  Results'
  <2>1. ASSUME NEW i \in 1 .. Len(history'), history'[i].role = "tool"
        PROVE  i \in 1 .. Len(history)
    BY <1>3, <2>1, GrowsIs
  <2>. QED  BY <1>2, <1>3, <2>1 DEF Results
<1>4. ASSUME NEW m, NEW t, NEW k, Finishes(m, t, k) PROVE Results'
  <2>1. Grows(m)
    BY <1>4 DEF Finishes
  <2>. DEFINE n == Len(history) + 1
  <2>2. /\ history'[n] = m /\ t \in 1 .. n - 1 /\ n \in Nat /\ n - 1 = Len(history)
        /\ history'[t] = history[t] /\ \A j \in t + 1 .. n - 1 : history'[j] = history[j]
    BY <1>4, <2>1, GrowsIs DEF Finishes
  <2>3. Result(history', n, t)
    <3>1. Result(history, n - 1, t)
      BY <1>4, <2>2 DEF Finishes
    <3>2. \A j \in t + 1 .. n : j = n \/ j \in t + 1 .. n - 1
      BY <2>2
    <3>3. m.role = "tool" /\ m.calls = <<>>
      BY <1>4 DEF Finishes
    <3>. QED  BY <2>2, <3>1, <3>2, <3>3 DEF Result
  <2>4. m.of = k /\ k \in todo /\ k \in DOMAIN history[t].calls /\ m.id = history[t].calls[k].id
    BY <1>4 DEF Finishes
  <2>5. \A j \in t + 1 .. n - 1 : history[j].of # k
    BY <1>4, <2>2, <2>4 DEF Finishes
  <2>6. Answered(history', n, t)
    <3>. HIDE DEF n
    <3>. QED  BY <2>2, <2>3, <2>4, <2>5 DEF Answered
  <2>7. ASSUME NEW i \in 1 .. Len(history'), history'[i].role = "tool"
        PROVE  \E u : Answered(history', i, u)
    <3>1. i \in 1 .. Len(history) \/ i = n
      BY <2>1, GrowsIs
    <3>. HIDE DEF n
    <3>. QED  BY <1>2, <2>1, <2>6, <2>7, <3>1
  <2>. QED  BY <2>7 DEF Results
<1>5. \A m : Asks(m) => Grows(m) /\ m.role # "tool"
  BY DEF Asks
<1>6. \A m, source : Says(m, source) => Grows(m) /\ m.role # "tool"
  BY DEF Says
<1>. QED  BY <1>1, <1>3, <1>4, <1>5, <1>6

\* A new call is one the client is at; a result takes its call out.
LEMMA CompleteStep ==
  ASSUME TypeOK, Complete,
         \/ Still
         \/ \E m : Asks(m)
         \/ \E m, t, k : Finishes(m, t, k)
         \/ \E m, source : Says(m, source)
  PROVE  Complete'
<1>1. CASE Still
  BY <1>1 DEF Still, Complete
<1>2. ASSUME NEW m, Grows(m), NEW t \in 1 .. Len(history), NEW k, HasResult(history, t, k)
      PROVE  HasResult(history', t, k)
  <2>1. PICK i \in t + 1 .. Len(history) : Result(history, i, t) /\ history[i].of = k
    BY <1>2 DEF HasResult
  <2>2. i \in 1 .. Len(history) /\ t \in 1 .. i /\ i \in t + 1 .. Len(history')
    BY <1>2, <2>1, GrowsIs
  <2>3. Result(history', i, t) /\ history'[i].of = k
    BY <1>2, <2>1, <2>2, GrownResult, GrowsIs
  <2>. QED  BY <2>2, <2>3 DEF HasResult
<1>3. ASSUME NEW m, Grows(m), todo = {}, m.calls # <<>> => todo' = DOMAIN m.calls,
             m \in Messages
      PROVE  Complete'
  <2>1. ASSUME NEW t \in 1 .. Len(history'), NEW k \in DOMAIN history'[t].calls
        PROVE  HasResult(history', t, k) \/ (k \in todo' /\ Result(history', Len(history'), t))
    <3>1. CASE t \in 1 .. Len(history)
      <4>1. history'[t] = history[t]
        BY <1>3, <3>1, GrowsIs
      <4>2. HasResult(history, t, k)
        BY <1>3, <2>1, <3>1, <4>1 DEF Complete
      <4>. QED  BY <1>2, <1>3, <3>1, <4>2
    <3>2. CASE t = Len(history) + 1
      <4>1. history'[t] = m /\ Len(history') = t /\ t \in Nat
        BY <1>3, <3>2, GrowsIs
      <4>2. t + 1 .. t = {}
        BY <4>1
      <4>3. m.calls # <<>>
        BY <2>1, <4>1
      <4>. QED  BY <1>3, <2>1, <4>1, <4>2, <4>3 DEF Result
    <3>. QED  BY <1>3, <3>1, <3>2, GrowsIs
  <2>. QED  BY <2>1 DEF Complete
<1>4. ASSUME NEW m, NEW u, NEW l, Finishes(m, u, l) PROVE Complete'
  <2>1. Grows(m) /\ m.calls = <<>> /\ m.role = "tool" /\ m.of = l /\ todo' = todo \ {l}
    BY <1>4 DEF Finishes
  <2>2. ASSUME NEW t \in 1 .. Len(history'), NEW k \in DOMAIN history'[t].calls
        PROVE  HasResult(history', t, k) \/ (k \in todo' /\ Result(history', Len(history'), t))
    <3>1. CASE t \in 1 .. Len(history)
      <4>1. history'[t] = history[t]
        BY <2>1, <3>1, GrowsIs
      <4>2. CASE HasResult(history, t, k)
        BY <1>2, <2>1, <3>1, <4>2
      <4>3. CASE k \in todo /\ Result(history, Len(history), t)
        <5>. DEFINE n == Len(history')
        <5>1. /\ n \in t + 1 .. n /\ history'[n] = m
              /\ \A j \in t + 1 .. n : j = n \/ (j \in t + 1 .. Len(history) /\ history'[j] = history[j])
          BY <2>1, <3>1, GrowsIs
        <5>. HIDE DEF n
        <5>2. Result(history', n, t)
          BY <2>1, <4>1, <4>3, <5>1 DEF Result
        <5>3. CASE k = l
          BY <2>1, <5>1, <5>2, <5>3 DEF HasResult, n
        <5>4. CASE k # l
          BY <2>1, <4>3, <5>2, <5>4 DEF n
        <5>. QED  BY <5>3, <5>4
      <4>. QED  BY <2>2, <3>1, <4>1, <4>2, <4>3 DEF Complete
    <3>2. CASE t = Len(history) + 1
      BY <2>1, <2>2, <3>2, GrowsIs
    <3>. QED  BY <2>1, <3>1, <3>2, GrowsIs
  <2>. QED  BY <2>2 DEF Complete
<1>5. \A m : Asks(m) => Grows(m) /\ m \in Messages /\ todo = {} /\ m.calls = <<>>
  BY DEF Asks, Grows
<1>6. \A m, source : Says(m, source) => Grows(m) /\ m \in Messages /\ todo = {} /\ todo' = DOMAIN m.calls
  BY DEF Says, Grows
<1>. QED  BY <1>1, <1>3, <1>4, <1>5, <1>6

\* A list with one more place, behind the others.
Behind(n, I) == I \subseteq Nat /\ n \in Nat /\ \A i \in I : i < n
ListsMore(g, e, K, I, n) ==
    /\ Lists(g, K + 1, I \union {n})
    /\ g[K + 1] = n
    /\ \A k \in 1 .. K : g[k] = e[k]

LEMMA ListMore ==
  ASSUME NEW K, NEW e, NEW I, NEW n, Lists(e, K, I), Behind(n, I)
  PROVE  \E g : ListsMore(g, e, K, I, n)
<1>. USE DEF Behind
<1>. DEFINE g == [k \in 1 .. K + 1 |-> IF k = K + 1 THEN n ELSE e[k]]
<1>1. K \in Nat /\ e \in [1 .. K -> I]
  BY DEF Lists
<1>2. \A k \in 1 .. K : g[k] = e[k] /\ e[k] \in I
  BY <1>1
<1>3. g[K + 1] = n
  BY <1>1
<1>4. g \in [1 .. K + 1 -> I \union {n}]
  BY <1>1
<1>. HIDE DEF g
<1>5. ASSUME NEW i \in I \union {n} PROVE \E k \in 1 .. K + 1 : g[k] = i
  <2>1. CASE i = n
    BY <2>1, <1>1, <1>3
  <2>2. CASE i \in I
    <3>1. PICK k \in 1 .. K : e[k] = i
      BY <2>2 DEF Lists
    <3>. QED  BY <3>1, <1>1, <1>2
  <2>. QED  BY <2>1, <2>2
<1>6. ASSUME NEW j \in 1 .. K + 1, NEW k \in 1 .. K + 1, j < k PROVE g[j] < g[k]
  <2>1. j \in 1 .. K
    BY <1>1, <1>6
  <2>2. g[j] = e[j] /\ e[j] \in I
    BY <2>1, <1>2
  <2>3. CASE k = K + 1
    BY <2>2, <2>3, <1>3
  <2>4. CASE k # K + 1
    <3>1. k \in 1 .. K
      BY <2>4, <1>1
    <3>2. e[j] < e[k]
      BY <1>6, <2>1, <3>1 DEF Lists
    <3>. QED  BY <2>2, <3>1, <3>2, <1>2
  <2>. QED  BY <2>3, <2>4
<1>7. Lists(g, K + 1, I \union {n})
  BY <1>1, <1>4, <1>5, <1>6 DEF Lists
<1>. QED  BY <1>2, <1>3, <1>7 DEF ListsMore

\* A new answer comes with its source.
LEMMA RememberedStep ==
  ASSUME TypeOK, Remembered,
         \/ Still
         \/ \E m : Asks(m)
         \/ \E m, t, k : Finishes(m, t, k)
         \/ \E m, source : Says(m, source)
  PROVE  Remembered'
<1>. DEFINE I == AssistantPlaces(history)
<1>1. PICK e : Lists(e, Len(said), I) /\ \A k \in 1 .. Len(said) : Repeats(history[e[k]], said[k], caller.api)
  BY DEF Remembered
<1>2. /\ Len(said) \in Nat
      /\ \A k \in 1 .. Len(said) : e[k] \in 1 .. Len(history)
  <2>1. said \in Seq(Sources)
    BY DEF TypeOK
  <2>2. e \in [1 .. Len(said) -> I]
    BY <1>1 DEF Lists
  <2>3. \A i \in I : i \in 1 .. Len(history)
    BY DEF AssistantPlaces
  <2>. HIDE DEF I
  <2>. QED  BY <2>1, <2>2, <2>3
<1>4. CASE Still
  <2>1. UNCHANGED <<caller, history, said>>
    BY <1>4 DEF Still
  <2>. QED  BY <1>1, <2>1 DEF Remembered
<1>5. ASSUME NEW m, Grows(m)
      PROVE  /\ caller' = caller
             /\ \A k \in 1 .. Len(said) : Repeats(history'[e[k]], said[k], caller'.api)
  <2>1. caller' = caller
    BY <1>5 DEF Grows
  <2>. QED  BY <1>1, <1>2, <1>5, <2>1, GrowsIs
<1>6. ASSUME NEW m, Grows(m), m.role # "assistant", said' = said
      PROVE  Remembered'
  <2>1. AssistantPlaces(history') = I
    BY <1>6, GrowsIs DEF AssistantPlaces
  <2>2. Lists(e, Len(said'), AssistantPlaces(history'))
    BY <1>1, <1>6, <2>1
  <2>. QED  BY <1>5, <1>6, <2>2 DEF Remembered
<1>7. ASSUME NEW m, NEW source, Says(m, source)
      PROVE  Remembered'
  <2>. DEFINE n == Len(history) + 1
              K == Len(said)
  <2>1. Grows(m) /\ m.role = "assistant" /\ said' = Append(said, source) /\ Repeats(m, source, caller.api)
    BY <1>7 DEF Says
  <2>2. AssistantPlaces(history') = I \union {n}
    BY <2>1, GrowsIs DEF AssistantPlaces
  <2>3. Behind(n, I)
    BY <2>1, GrowsIs DEF AssistantPlaces, Behind
  <2>4. PICK g : /\ Lists(g, K + 1, I \union {n})
                 /\ g[K + 1] = n
                 /\ \A k \in 1 .. K : g[k] = e[k]
    <3>1. Lists(e, K, I)
      BY <1>1
    <3>2. PICK g : ListsMore(g, e, K, I, n)
      BY <2>3, <3>1, ListMore
    <3>. QED  BY <3>2 DEF ListsMore
  <2>5. Len(said') = K + 1 /\ said'[K + 1] = source /\ \A k \in 1 .. K : said'[k] = said[k]
    <3>1. said \in Seq(Sources)
      BY DEF TypeOK
    <3>. QED  BY <2>1, <3>1
  <2>6. history'[n] = m
    BY <2>1, GrowsIs
  <2>7. ASSUME NEW k \in 1 .. K + 1 PROVE Repeats(history'[g[k]], said'[k], caller'.api)
    <3>1. CASE k = K + 1
      <4>1. caller' = caller
        BY <1>5, <2>1
      <4>. QED  BY <2>1, <2>4, <2>5, <2>6, <3>1, <4>1
    <3>2. CASE k # K + 1
      <4>1. k \in 1 .. K
        BY <3>2, <1>2
      <4>2. g[k] = e[k] /\ said'[k] = said[k]
        BY <2>4, <2>5, <4>1
      <4>. QED  BY <1>5, <2>1, <4>1, <4>2
    <3>. QED  BY <3>1, <3>2
  <2>8. Lists(g, Len(said'), AssistantPlaces(history'))
    BY <2>2, <2>4, <2>5
  <2>. HIDE DEF n, I
  <2>. QED  BY <2>5, <2>7, <2>8 DEF Remembered
<1>8. \A m : Asks(m) => Grows(m) /\ m.role # "assistant" /\ said' = said
  BY DEF Asks
<1>9. \A m, t, k : Finishes(m, t, k) => Grows(m) /\ m.role # "assistant" /\ said' = said
  BY DEF Finishes
<1>. QED  BY <1>4, <1>6, <1>7, <1>8, <1>9

\* What is set in f stays so.
LEMMA OverKeeps ==
  ASSUME NEW f, NEW g, NEW x \in DOMAIN f
  PROVE  x \in DOMAIN Over(f, g) /\ Over(f, g)[x] = f[x]
BY DEF Over

\* So it does when the tier or the classifier wants to think.
LEMMA ThinkingKeeps ==
  ASSUME NEW f, NEW wish \in BOOLEAN, NEW tier, NEW x \in DOMAIN f, x # "think" \/ ~wish
  PROVE  x \in DOMAIN Thinking(f, wish, tier) /\ Thinking(f, wish, tier)[x] = f[x]
<1>. DEFINE w == IF wish THEN [think |-> "wish"] ELSE <<>>
<1>1. x \notin DOMAIN w
  OBVIOUS
<1>2. x \in DOMAIN Over(w, f) /\ Over(w, f)[x] = f[x]
  <2>. HIDE DEF w
  <2>. QED  BY <1>1 DEF Over
<1>3. Thinking(f, wish, tier) = Over(Over(w, f), IF tier.think THEN [think |-> "tier"] ELSE <<>>)
  BY DEF Thinking
<1>. HIDE DEF w
<1>. QED  BY <1>2, <1>3, OverKeeps

\* Every step keeps Underway.
LEMMA UnderwayStep ==
  ASSUME TypeOK, Underway,
         \/ Still /\ call' = call
         \/ Climbs
         \/ Begins
         \/ \E m : Asks(m)
         \/ \E m, t, k : Finishes(m, t, k)
         \/ \E m, source : Says(m, source)
  PROVE  Underway'
<1>1. CASE Still /\ call' = call
  BY <1>1 DEF Still, Underway, FieldsKept, OptionsKept
<1>2. CASE Climbs
  BY <1>2 DEF Climbs, Still, Underway, FieldsKept, OptionsKept
<1>3. CASE call' = NoCall
  BY <1>3 DEF Underway, NoCall
<1>4. CASE Begins
  <2>1. PICK p, i, stream, prompts, wish, asked :
           /\ prompts \in Seq(Strings) /\ wish \in BOOLEAN
           /\ Starts(p, i, stream, prompts, wish, asked)
    BY <1>4 DEF Begins
  <2>2. todo' = {} /\ call' # NoCall /\ caller' = caller /\ history' = history
    BY <1>4, <2>1 DEF Begins, Starts
  <2>3. call'.messages = Fronted(history', call'.prompts)
    <3>1. history \in Seq(Messages)
      BY DEF TypeOK
    <3>. QED  BY <2>1, <2>2, <3>1, InjectAllFronted DEF Starts
  <2>4. call'.how = "native" => caller'.api = "ollama"
    BY <2>1, <2>2 DEF Starts, How
  <2>5. FieldsKept'
    <3>1. call'.think = wish
          /\ \/ call'.fields = caller.fields
             \/ call'.fields = Thinking(caller.fields, wish, Tiers[i])
      BY <2>1 DEF Starts
    <3>2. ASSUME NEW f \in DOMAIN caller.fields, ~ (f = "think" /\ wish)
          PROVE  f \in DOMAIN call'.fields /\ call'.fields[f] = caller.fields[f]
      <4>1. f # "think" \/ ~wish
        BY <3>2
      <4>. QED  BY <2>1, <3>1, <4>1, ThinkingKeeps
    <3>. QED  BY <2>2, <3>1, <3>2 DEF FieldsKept
  <2>6. OptionsKept'
    BY <2>1, OverKeeps DEF Starts, OptionsKept, ToClassify, WithDefaults
  <2>. QED  BY <2>2, <2>3, <2>4, <2>5, <2>6 DEF Underway
<1>. QED  BY <1>1, <1>2, <1>3, <1>4 DEF Asks, Finishes, Says, Grows

-----------------------------------------------------------------------------
(* The history with the prompts in front.                                  *)

\* ns is the history, with d messages more that are system messages too.
Shifted(ns, d) ==
    /\ ns \in Seq(Messages) /\ d \in {0, 1}
    /\ Len(ns) = Len(history) + d
    /\ \A i \in Len(caller.system) + 1 .. Len(history) : ns[i + d] = history[i]
    /\ \A i \in 1 .. Len(caller.system) + d : ns[i].role = "system" /\ ns[i].calls = <<>>

\* The lengths are numbers.
LEMMA SystemLen ==
  ASSUME TypeOK
  PROVE  /\ Len(caller.system) \in Nat /\ DOMAIN caller.system = 1 .. Len(caller.system)
         /\ history \in Seq(Messages) /\ Len(history) \in Nat
<1>1. caller.system \in Seq(TextValues)
  BY ConversationAssumption DEF TypeOK
<1>. QED  BY <1>1 DEF TypeOK

\* The client's system messages are in front.
LEMMA SystemLeads ==
  ASSUME SystemFirst
  PROVE  \A i \in 1 .. Len(caller.system) : history[i].role = "system" /\ history[i].calls = <<>>
<1>1. \A text : Message("system", text, <<>>).role = "system" /\ Message("system", text, <<>>).calls = <<>>
  BY DEF Message
<1>2. \A i \in 1 .. Len(caller.system) : history[i] = Message("system", caller.system[i], <<>>)
  BY DEF SystemFirst
<1>. QED  BY <1>1, <1>2

\* So is the history with prompts in front of it.
LEMMA FrontedShifted ==
  ASSUME TypeOK, SystemFirst, NEW q \in Seq(Strings)
  PROVE  \E d : Shifted(Fronted(history, q), d)
<1>. DEFINE K == Len(caller.system)
            ns == Fronted(history, q)
<1>1. K \in Nat /\ history \in Seq(Messages) /\ Len(history) \in Nat /\ K <= Len(history)
  BY SystemLen DEF SystemFirst
<1>2. ns \in Seq(Messages)
  BY <1>1, FrontedType
<1>3. \A i \in 1 .. K : history[i].role = "system" /\ history[i].calls = <<>>
  BY SystemLeads
<1>4. CASE q = <<>>
  <2>1. ns = history
    BY <1>4 DEF Fronted
  <2>2. Shifted(ns, 0)
    <3>. HIDE DEF ns
    <3>. QED  BY <1>1, <1>2, <1>3, <2>1 DEF Shifted
  <2>. QED  BY <2>2
<1>5. CASE q # <<>> /\ K # 0
  <2>1. history # <<>> /\ 1 \in 1 .. K /\ 1 \in 1 .. Len(history)
    BY <1>1, <1>5
  <2>2. ns = [history EXCEPT ![1] = Retold(history[1], q)]
    BY <1>3, <1>5, <2>1 DEF Fronted
  <2>3. history[1] \in Messages
    BY <1>1, <2>1
  <2>4. Retold(history[1], q).role = "system" /\ Retold(history[1], q).calls = <<>>
    BY <1>3, <2>1, <2>3, RetoldType
  <2>5. Len(ns) = Len(history) /\ ns[1] = Retold(history[1], q)
        /\ \A i \in 1 .. Len(history) : i # 1 => ns[i] = history[i]
    BY <1>1, <2>1, <2>2
  <2>6. Shifted(ns, 0)
    <3>. HIDE DEF ns
    <3>1. \A i \in K + 1 .. Len(history) : ns[i + 0] = history[i]
      BY <1>1, <1>5, <2>5
    <3>2. \A i \in 1 .. K + 0 : ns[i].role = "system" /\ ns[i].calls = <<>>
      <4>1. ASSUME NEW i \in 1 .. K PROVE ns[i].role = "system" /\ ns[i].calls = <<>>
        BY <1>1, <1>3, <2>4, <2>5
      <4>. QED  BY <1>1, <4>1
    <3>. QED  BY <1>1, <1>2, <2>5, <3>1, <3>2 DEF Shifted
  <2>. QED  BY <2>6
<1>6. CASE q # <<>> /\ K = 0
  <2>1. ~ (history # <<>> /\ history[1].role = "system")
    BY <1>1, <1>6 DEF SystemFirst
  <2>2. ns = <<SystemMessage(q)>> \o history
    BY <1>6, <2>1 DEF Fronted
  <2>3. SystemMessage(q) \in Messages /\ SystemMessage(q).role = "system" /\ SystemMessage(q).calls = <<>>
    BY SystemMessageType DEF SystemMessage, Message
  <2>4. Len(ns) = Len(history) + 1 /\ ns[1] = SystemMessage(q)
        /\ \A i \in 1 .. Len(history) : ns[i + 1] = history[i]
    BY <1>1, <2>2
  <2>5. Shifted(ns, 1)
    <3>. HIDE DEF ns
    <3>. QED  BY <1>1, <1>2, <1>6, <2>3, <2>4 DEF Shifted
  <2>. QED  BY <2>5
<1>. QED  BY <1>1, <1>4, <1>5, <1>6

-----------------------------------------------------------------------------
(* What the classifier is shown.                                           *)

\* A user's message with a text in it.
Asking(m) == m.role = "user" /\ HasText(m)

\* The last of them is the one the invariant means.
LEMMA LastAskingIs ==
  ASSUME NEW ms \in Seq(Messages), NEW l \in 1 .. Len(ms), Asking(ms[l]),
         \A i \in 1 .. Len(ms) : Asking(ms[i]) => i <= l
  PROVE  LastQuestion(ms) = l
<1>. DEFINE I == {i \in 1 .. Len(ms) : ms[i].role = "user" /\ HasText(ms[i])}
<1>1. l \in I /\ \A i \in I : i <= l
  BY DEF Asking
<1>2. Max(I) = l
  <2>1. I \in SUBSET Nat
    OBVIOUS
  <2>. HIDE DEF I
  <2>. QED  BY <1>1, <2>1, MaxIs
<1>. QED  BY <1>1, <1>2 DEF LastQuestion, SelectLastInSeq

\* The window is the end of what was said.
LEMMA WindowIs ==
  ASSUME NEW ms \in Seq(Messages), NEW n \in Nat
  PROVE  \E o \in Nat :
            /\ Len(Heard(ms)) = o + Len(Window(ms, n))
            /\ DOMAIN Window(ms, n) = 1 .. Len(Window(ms, n))
            /\ Len(Window(ms, n)) \in Nat
            /\ \A j \in 1 .. Len(Window(ms, n)) : Window(ms, n)[j] = Heard(ms)[o + j]
<1>. DEFINE h == Heard(ms)
            w == Window(ms, n)
<1>1. h \in Seq(Messages)
  BY ExtractType DEF Heard
<1>2. w = IF Len(h) <= n THEN h ELSE SubSeq(h, Len(h) - n + 1, Len(h))
  BY DEF Window
<1>. HIDE DEF h, w
<1>. DEFINE Fits(o) == /\ Len(h) = o + Len(w)
                       /\ DOMAIN w = 1 .. Len(w)
                       /\ Len(w) \in Nat
                       /\ \A j \in 1 .. Len(w) : w[j] = h[o + j]
<1>3. CASE Len(h) <= n
  <2>1. Fits(0)
    BY <1>1, <1>2, <1>3
  <2>. QED  BY <2>1 DEF h, w
<1>4. CASE ~ (Len(h) <= n)
  <2>1. Fits(Len(h) - n) /\ Len(h) - n \in Nat
    BY <1>1, <1>2, <1>4
  <2>. QED  BY <2>1 DEF h, w
<1>. QED  BY <1>3, <1>4

\* A classification that takes place is shown the last question.
LEMMA ClassifierSees ==
  ASSUME TypeOK, SystemFirst, NEW q \in Seq(Strings), NEW n \in Nat,
         ClassifierInput(Fronted(history, q), n) # <<>>
  PROVE  LET asked == ClassifierInput(Fronted(history, q), n)
         IN  \E i \in DOMAIN asked :
                asked[i].role = "user" /\ asked[i] = history[LastQuestion(history)]
<1>. DEFINE ns == Fronted(history, q)
            w == Window(ns, n)
            h == Heard(ns)
            I == {i \in 1 .. Len(ns) : ns[i].role \in {"user", "assistant"} /\ HasText(ns[i])}
<1>1. PICK d : Shifted(ns, d)
  BY FrontedShifted
<1>2. /\ history \in Seq(Messages) /\ Len(history) \in Nat
      /\ Len(caller.system) \in Nat /\ Len(caller.system) <= Len(history)
  BY SystemLen DEF SystemFirst
<1>3. ns \in Seq(Messages) /\ Len(ns) = Len(history) + d /\ d \in {0, 1}
  BY <1>1 DEF Shifted
<1>4. ClassifierInput(ns, n) = w /\ \E i \in DOMAIN w : w[i].role = "user"
  BY DEF ClassifierInput
<1>. HIDE DEF ns
<1>5. PICK K, e : Lists(e, K, I)
  <2>1. Len(ns) \in Nat /\ I \in SUBSET (1 .. Len(ns))
    BY <1>3
  <2>. HIDE DEF I
  <2>. QED  BY <2>1, ListExists
<1>6. h = [k \in 1 .. K |-> ns[e[k]]]
  <2>1. h = Extract(ns, I)
    BY <1>3 DEF Heard
  <2>2. I \in SUBSET (1 .. Len(ns))
    OBVIOUS
  <2>. HIDE DEF I
  <2>. QED  BY <1>3, <1>5, <2>1, <2>2, ExtractAlong
<1>7. K \in Nat /\ Len(h) = K /\ \A k \in 1 .. K : h[k] = ns[e[k]] /\ e[k] \in I
  <2>1. K \in Nat /\ e \in [1 .. K -> I]
    BY <1>5 DEF Lists
  <2>. HIDE DEF I
  <2>. QED  BY <1>6, <2>1
<1>. HIDE DEF h
<1>8. PICK o \in Nat :
        /\ Len(h) = o + Len(w)
        /\ DOMAIN w = 1 .. Len(w)
        /\ Len(w) \in Nat
        /\ \A j \in 1 .. Len(w) : w[j] = h[o + j]
  BY <1>3, WindowIs DEF h
<1>. HIDE DEF w
<1>9. PICK j \in 1 .. Len(w) : w[j].role = "user"
  BY <1>4, <1>8
<1>10. o + j \in 1 .. K /\ ns[e[o + j]] = w[j]
  BY <1>7, <1>8, <1>9
<1>11. ASSUME NEW i \in I, ns[i].role = "user"
       PROVE  i - d \in 1 .. Len(history) /\ Asking(history[i - d]) /\ ns[i] = history[i - d]
  <2>1. i \in 1 .. Len(ns) /\ HasText(ns[i])
    OBVIOUS
  <2>2. ~ (i \in 1 .. Len(caller.system) + d)
    BY <1>1, <1>11 DEF Shifted
  <2>3. i - d \in Len(caller.system) + 1 .. Len(history) /\ (i - d) + d = i
    BY <1>2, <1>3, <2>1, <2>2
  <2>4. ns[i] = history[i - d]
    BY <1>1, <2>3 DEF Shifted
  <2>. QED  BY <1>2, <1>11, <2>1, <2>3, <2>4 DEF Asking
<1>. DEFINE A == {i \in 1 .. Len(history) : Asking(history[i])}
<1>12. A # {}
  BY <1>7, <1>9, <1>10, <1>11
<1>13. PICK l \in A : \A i \in A : i <= l
  BY <1>2, <1>12, LastPlace
<1>14. l + d \in I /\ ns[l + d] = history[l] /\ history[l].role = "user"
  <2>1. l \in 1 .. Len(history) /\ history[l].role = "user" /\ HasText(history[l])
    BY DEF Asking
  <2>2. l \in Len(caller.system) + 1 .. Len(history)
    <3>1. \A i \in 1 .. Len(caller.system) : history[i].role = "system"
      BY SystemLeads
    <3>. QED  BY <1>2, <2>1, <3>1
  <2>3. ns[l + d] = history[l]
    BY <1>1, <2>2 DEF Shifted
  <2>4. l + d \in 1 .. Len(ns)
    BY <1>2, <1>3, <2>1
  <2>. QED  BY <2>1, <2>3, <2>4
<1>15. PICK k \in 1 .. K : e[k] = l + d
  BY <1>5, <1>14 DEF Lists
<1>16. e[o + j] <= e[k]
  <2>1. e[o + j] \in I /\ ns[e[o + j]].role = "user"
    BY <1>7, <1>9, <1>10
  <2>2. e[o + j] - d \in A
    BY <1>11, <2>1
  <2>3. e[o + j] - d <= l /\ e[o + j] \in Nat /\ l \in Nat
    BY <1>13, <2>1, <2>2
  <2>. QED  BY <1>3, <1>15, <2>3
<1>17. k >= o + j
  <2>1. ASSUME k < o + j PROVE FALSE
    <3>1. e[k] < e[o + j]
      BY <1>5, <1>10, <2>1 DEF Lists
    <3>2. e[k] \in Nat /\ e[o + j] \in Nat
      <4>1. \A i \in I : i \in Nat
        OBVIOUS
      <4>. HIDE DEF I, A
      <4>2. e[k] \in I /\ e[o + j] \in I
        BY <1>7, <1>10
      <4>. QED  BY <4>1, <4>2
    <3>. QED  BY <1>16, <3>1, <3>2
  <2>. QED  BY <1>7, <1>10, <2>1
<1>18. k - o \in 1 .. Len(w) /\ w[k - o] = history[l]
  <2>1. k - o \in 1 .. Len(w) /\ o + (k - o) = k
    BY <1>7, <1>8, <1>9, <1>17
  <2>. QED  BY <1>7, <1>8, <1>14, <1>15, <2>1
<1>19. LastQuestion(history) = l
  BY <1>2, <1>13, LastAskingIs
<1>. QED  BY <1>4, <1>8, <1>14, <1>18, <1>19 DEF ns

\* Every step keeps AsksTheQuestion.
LEMMA AsksStep ==
  ASSUME TypeOK, SystemFirst, AsksTheQuestion,
         \/ Still /\ call' = call
         \/ Climbs
         \/ Begins
         \/ \E m : Asks(m)
         \/ \E m, t, k : Finishes(m, t, k)
         \/ \E m, source : Says(m, source)
  PROVE  AsksTheQuestion'
<1>1. CASE Still /\ call' = call
  BY <1>1 DEF Still, AsksTheQuestion
<1>2. CASE Climbs
  BY <1>2 DEF Climbs, Still, AsksTheQuestion
<1>3. CASE call' = NoCall
  BY <1>3 DEF AsksTheQuestion, NoCall
<1>4. CASE Begins
  <2>1. PICK asked : Classified(asked) /\ call'.asked = asked /\ history' = history
    BY <1>4 DEF Begins, Starts
  <2>2. CASE asked = <<>>
    BY <2>1, <2>2 DEF AsksTheQuestion
  <2>3. CASE asked # <<>>
    <3>1. PICK q \in Seq(Strings), n \in Nat : asked = ClassifierInput(Fronted(history, q), n)
      BY <2>1, <2>3 DEF Classified
    <3>2. \E i \in DOMAIN asked :
             asked[i].role = "user" /\ asked[i] = history[LastQuestion(history)]
      BY <2>3, <3>1, ClassifierSees
    <3>. QED  BY <2>1, <3>2 DEF AsksTheQuestion
  <2>. QED  BY <2>2, <2>3
<1>. QED  BY <1>1, <1>2, <1>3, <1>4 DEF Asks, Finishes, Says, Grows

-----------------------------------------------------------------------------
(* The invariant holds.                                                    *)

\* The first state has it.
LEMMA InvInit == Init => Inv
<1> SUFFICES ASSUME Init PROVE Inv
  OBVIOUS
<1>. DEFINE K == Len(caller.system)
<1>1. caller \in Callers /\ todo = {} /\ posts = 0 /\ call = NoCall /\ said = <<>>
      /\ history = [i \in DOMAIN caller.system |-> Message("system", caller.system[i], <<>>)]
  BY DEF Init
<1>2. caller.system \in Seq(TextValues)
  BY <1>1, ConversationAssumption
<1>3. K \in Nat /\ DOMAIN caller.system = 1 .. K /\ \A i \in 1 .. K : caller.system[i] \in TextValues
  BY <1>2
<1>4. ASSUME NEW i \in 1 .. K
      PROVE  /\ Message("system", caller.system[i], <<>>) \in Messages
             /\ Message("system", caller.system[i], <<>>).role = "system"
             /\ Message("system", caller.system[i], <<>>).calls = <<>>
  <2>1. <<>> \in Seq(Calls)
    BY EmptySeq
  <2>2. Message("system", caller.system[i], <<>>) \in Messages
    BY <1>3, <2>1, MessageType
  <2>. QED  BY <2>2 DEF Message
<1>5. /\ history \in Seq(Messages) /\ Len(history) = K
      /\ \A i \in 1 .. K : /\ history[i] = Message("system", caller.system[i], <<>>)
                           /\ history[i].role = "system" /\ history[i].calls = <<>>
  <2>1. history \in [1 .. K -> Messages]
    BY <1>1, <1>3, <1>4
  <2>2. history \in Seq(Messages)
    <3>. HIDE DEF K
    <3>. QED  BY <1>3, <2>1, FunctionIsSeq
  <2>3. Len(history) = K
    BY <1>3, <2>1
  <2>4. \A i \in 1 .. K : history[i] = Message("system", caller.system[i], <<>>)
    BY <1>1, <1>3
  <2>. QED  BY <2>2, <2>3, <2>4, <1>4
<1>. HIDE DEF K
<1>6. TypeOK
  <2>1. posts \in 0 .. MaxPosts
    <3>1. MaxPosts \in Nat
      BY ConversationAssumption
    <3>. QED  BY <1>1, <3>1
  <2>2. <<>> \in Seq(Messages) /\ <<>> \in Seq(Strings) /\ <<>> \in Seq(Sources)
    BY EmptySeq
  <2>3. NoCall.messages = <<>> /\ NoCall.asked = <<>> /\ NoCall.prompts = <<>>
        /\ NoCall.stream = FALSE /\ NoCall.think = FALSE
    BY DEF NoCall
  <2>. QED  BY <1>1, <1>5, <2>1, <2>2, <2>3 DEF TypeOK
<1>7. SystemFirst
  BY <1>3, <1>5 DEF SystemFirst, K
<1>8. Pending
  BY <1>1 DEF Pending
<1>9. Underway /\ AsksTheQuestion
  BY <1>1 DEF Underway, AsksTheQuestion, NoCall
<1>10. Remembered
  <2>. DEFINE e == [k \in 1 .. 0 |-> 0]
  <2>1. AssistantPlaces(history) = {} /\ Len(said) = 0
    BY <1>1, <1>5 DEF AssistantPlaces
  <2>2. Lists(e, Len(said), AssistantPlaces(history)) /\ 1 .. Len(said) = {}
    BY <2>1 DEF Lists
  <2>. HIDE DEF e
  <2>. QED  BY <2>2 DEF Remembered
<1>11. Results
  BY <1>5 DEF Results
<1>12. Complete
  BY <1>5 DEF Complete
<1>13. IdsDiffer
  BY <1>5 DEF IdsDiffer, Apart
<1>. QED  BY <1>6, <1>7, <1>8, <1>9, <1>10, <1>11, <1>12, <1>13 DEF Inv

\* Every step keeps it.
LEMMA InvNext == Inv /\ [Next]_vars => Inv'
<1> SUFFICES ASSUME Inv, [Next]_vars PROVE Inv'
  OBVIOUS
<1>. USE DEF Inv
<1>1. TypeOK'
  BY TypeStep
<1>2. \/ Still /\ call' = call
      \/ Climbs
      \/ Begins
      \/ \E m : Asks(m)
      \/ \E m, t, k : Finishes(m, t, k)
      \/ \E m, source : Says(m, source)
  BY Kinds
<1>3. \/ Still
      \/ \E m : Asks(m)
      \/ \E m, t, k : Finishes(m, t, k)
      \/ \E m, source : Says(m, source)
  BY <1>2 DEF Climbs, Begins, Starts, Still
<1>4. Still \/ \E m : Grows(m)
  BY <1>3 DEF Asks, Finishes, Says
<1>5. SystemFirst'
  BY <1>4, SystemFirstStep
<1>6. Pending' /\ Remembered' /\ Results' /\ Complete' /\ IdsDiffer'
  BY <1>3, PendingStep, RememberedStep, ResultsStep, CompleteStep, IdsDifferStep
<1>7. Underway' /\ AsksTheQuestion'
  BY <1>2, UnderwayStep, AsksStep
<1>. QED  BY <1>1, <1>5, <1>6, <1>7

\* The invariant holds in every reachable state.
THEOREM Invariance == Spec => []Inv
BY InvInit, InvNext, PTL DEF Spec

\* Histories, calls and sources stay of their types, whatever is asked and
\* answered, and on whatever rungs.
THEOREM ConversationTypeCorrect == Spec => []TypeOK
<1>1. Inv => TypeOK
  BY DEF Inv
<1>. QED  BY <1>1, Invariance, PTL

\* A classifier that is asked at all is shown the question being answered:
\* build_classifier_input keeps the newest messages that say something.
THEOREM ClassifierAsksTheQuestion == Spec => []AsksTheQuestion
<1>1. Inv => AsksTheQuestion
  BY DEF Inv
<1>. QED  BY <1>1, Invariance, PTL
-----------------------------------------------------------------------------
(* What a backend is shown.                                                *)

\* No adapter overrides what the client set.
LEMMA ClientWins == Inv => CallerWins
<1> SUFFICES ASSUME Inv, call # NoCall
             PROVE  LET seen == Shown(call)
                    IN  \A f \in DOMAIN caller.fields :
                          \/ f \in DOMAIN seen.fields /\ seen.fields[f] = caller.fields[f]
                          \/ seen.endpoint = "messages" /\ f \notin TopLevel
                          \/ f = "think" /\ call.think
  BY DEF CallerWins, Inv, Underway, OptionsKept
<1>. DEFINE seen == Shown(call)
            F == Over(call.fields, KeepAlive)
            G == Over(F, Defaults)
            T == [f \in DOMAIN call.fields \intersect TopLevel |-> call.fields[f]]
            H == Over(T, [max_tokens |-> "8192"])
<1>1. \/ seen.fields = call.fields
      \/ seen.fields = G
      \/ seen.endpoint = "messages" /\ seen.fields = H
  <2>1. call.prov \in Providers /\ call.how \in {"chat", "native", "tools"}
    BY DEF Inv, TypeOK
  <2>2. CASE Adapter(call.prov) = "openai"
    BY <2>2 DEF Shown, Posted
  <2>3. CASE Adapter(call.prov) = "anthropic"
    BY <2>3 DEF Shown, ToAnthropic
  <2>4. CASE Adapter(call.prov) = "ollama"
    <3>1. \/ Shown(call) = ToOllamaChat(call.messages, call.fields)
          \/ Shown(call) = ToOllamaNative(call.messages, call.fields)
          \/ Shown(call) = ToOllamaTools(call.messages, call.fields)
      BY <2>1, <2>4 DEF Shown
    <3>. QED  BY <3>1 DEF ToOllamaChat, ToOllamaNative, ToOllamaTools, Posted, WithDefaults
  <2>. QED  BY <2>1, <2>2, <2>3, <2>4 DEF Adapter, Providers
<1>. HIDE DEF seen
<1>2. ASSUME NEW f \in DOMAIN caller.fields, ~ (f = "think" /\ call.think)
      PROVE  \/ f \in DOMAIN seen.fields /\ seen.fields[f] = caller.fields[f]
             \/ seen.endpoint = "messages" /\ f \notin TopLevel
  <2>1. f \in DOMAIN call.fields /\ call.fields[f] = caller.fields[f]
    BY <1>2 DEF Inv, Underway, FieldsKept
  <2>2. f \in DOMAIN G /\ G[f] = call.fields[f]
    <3>1. f \in DOMAIN F /\ F[f] = call.fields[f]
      BY <2>1, OverKeeps
    <3>. QED  BY <3>1, OverKeeps
  <2>3. f \in TopLevel => f \in DOMAIN H /\ H[f] = call.fields[f]
    <3>1. ASSUME f \in TopLevel PROVE f \in DOMAIN T /\ T[f] = call.fields[f]
      BY <2>1, <3>1
    <3>. HIDE DEF T
    <3>. QED  BY <3>1, OverKeeps
  <2>. HIDE DEF G, H
  <2>. QED  BY <1>1, <2>1, <2>2, <2>3
<1>. QED  BY <1>2 DEF seen

\* apply_default_options, think and the adapters never override what the
\* client, or the gateway's own classification, set.
THEOREM CallerAlwaysWins == Spec => []CallerWins
BY ClientWins, Invariance, PTL

-----------------------------------------------------------------------------
(* System messages and the others.                                         *)

\* A run of elements.
LEMMA ExtractRun ==
  ASSUME NEW V, NEW s \in Seq(V), NEW a \in Nat, NEW n \in Nat, a + n <= Len(s)
  PROVE  Extract(s, a + 1 .. a + n) = [k \in 1 .. n |-> s[a + k]]
<1>. DEFINE e == [k \in 1 .. n |-> a + k]
            I == a + 1 .. a + n
<1>1. I \in SUBSET (1 .. Len(s))
  OBVIOUS
<1>2. Lists(e, n, I)
  <2>1. e \in [1 .. n -> I]
    OBVIOUS
  <2>2. ASSUME NEW i \in I PROVE \E k \in 1 .. n : e[k] = i
    <3>1. i - a \in 1 .. n /\ e[i - a] = i
      OBVIOUS
    <3>. QED  BY <3>1
  <2>. QED  BY <2>1, <2>2 DEF Lists
<1>3. Extract(s, I) = [k \in 1 .. n |-> s[e[k]]]
  <2>. HIDE DEF I, e
  <2>. QED  BY <1>1, <1>2, ExtractAlong
<1>. QED  BY <1>3

\* The system messages are those in front, ...
LEMMA SystemsFirst ==
  ASSUME NEW ns \in Seq(Messages), NEW n \in 0 .. Len(ns),
         \A i \in 1 .. n : ns[i].role = "system",
         \A i \in n + 1 .. Len(ns) : ns[i].role # "system"
  PROVE  OfRole(ns, {"system"}) = [k \in 1 .. n |-> ns[k]]
<1>1. {i \in DOMAIN ns : ns[i].role \in {"system"}} = 0 + 1 .. 0 + n
  OBVIOUS
<1>2. Extract(ns, 0 + 1 .. 0 + n) = [k \in 1 .. n |-> ns[0 + k]]
  <2>1. 0 \in Nat /\ n \in Nat /\ 0 + n <= Len(ns)
    OBVIOUS
  <2>. QED  BY <2>1, ExtractRun
<1>3. [k \in 1 .. n |-> ns[0 + k]] = [k \in 1 .. n |-> ns[k]]
  OBVIOUS
<1>. QED  BY <1>1, <1>2, <1>3 DEF OfRole

\* ... and the others follow.
LEMMA OthersLast ==
  ASSUME NEW ns \in Seq(Messages), NEW n \in 0 .. Len(ns),
         \A i \in 1 .. n : ns[i].role = "system",
         \A i \in n + 1 .. Len(ns) : ns[i].role # "system"
  PROVE  OfRole(ns, {"user", "assistant", "tool"}) = [k \in 1 .. Len(ns) - n |-> ns[n + k]]
<1>1. \A i \in 1 .. Len(ns) : ns[i].role \in {"system", "user", "assistant", "tool"}
  <2>1. \A i \in 1 .. Len(ns) : ns[i] \in Messages
    OBVIOUS
  <2>. QED  BY <2>1 DEF Messages
<1>2. {i \in DOMAIN ns : ns[i].role \in {"user", "assistant", "tool"}} = n + 1 .. n + (Len(ns) - n)
  BY <1>1
<1>3. Extract(ns, n + 1 .. n + (Len(ns) - n)) = [k \in 1 .. Len(ns) - n |-> ns[n + k]]
  <2>1. n \in Nat /\ Len(ns) - n \in Nat /\ n + (Len(ns) - n) <= Len(ns)
    OBVIOUS
  <2>. QED  BY <2>1, ExtractRun
<1>. QED  BY <1>2, <1>3 DEF OfRole

\* The system text of messages, and the client's own behind q, in one reading.
ReadAll(ms, strict) == FlattenSeq([i \in DOMAIN ms |-> Read(ms[i].text, strict)])
ReadOwn(i, q, strict) == Read(caller.system[i], strict \/ (i = 1 /\ q # <<>>))
OwnRead(q, strict) == FlattenSeq([i \in DOMAIN caller.system |-> ReadOwn(i, q, strict)])

\* It is text.
LEMMA OwnReadType ==
  ASSUME TypeOK, NEW q, NEW strict \in BOOLEAN
  PROVE  LET s == [i \in DOMAIN caller.system |-> ReadOwn(i, q, strict)]
         IN  /\ s \in Seq(Seq(Strings)) /\ Len(s) = Len(caller.system)
             /\ OwnRead(q, strict) \in Seq(Strings)
             /\ Len(caller.system) = 0 => OwnRead(q, strict) = <<>>
<1>. DEFINE s == [i \in DOMAIN caller.system |-> ReadOwn(i, q, strict)]
            K == Len(caller.system)
<1>1. caller.system \in Seq(TextValues) /\ DOMAIN caller.system = 1 .. K /\ K \in Nat
  <2>1. caller.system \in Seq(TextValues)
    BY ConversationAssumption DEF TypeOK
  <2>. QED  BY <2>1
<1>2. \A i \in 1 .. K : ReadOwn(i, q, strict) \in Seq(Strings)
  <2>1. \A i \in 1 .. K : caller.system[i] \in TextValues
    BY <1>1
  <2>2. \A i \in 1 .. K : (strict \/ (i = 1 /\ q # <<>>)) \in BOOLEAN
    OBVIOUS
  <2>. QED  BY <2>1, <2>2, ReadType DEF ReadOwn
<1>3. s \in [1 .. K -> Seq(Strings)]
  BY <1>1, <1>2
<1>4. s \in Seq(Seq(Strings)) /\ Len(s) = K
  <2>. HIDE DEF s, K
  <2>1. s \in Seq(Seq(Strings))
    BY <1>1, <1>3, FunctionIsSeq
  <2>. QED  BY <1>1, <1>3, <2>1
<1>5. OwnRead(q, strict) = FlattenSeq(s)
  BY DEF OwnRead
<1>6. FlattenSeq(s) \in Seq(Strings) /\ (K = 0 => FlattenSeq(s) = <<>>)
  <2>. HIDE DEF s
  <2>1. PICK f \in [0 .. Len(s) -> Seq(Strings)] : f[0] = <<>> /\ FlattenSeq(s) = f[Len(s)]
    BY <1>4, FlattenSteps
  <2>. QED  BY <1>1, <1>4, <2>1
<1>. QED  BY <1>4, <1>5, <1>6, Zenon

\* The system text of the history with prompts in front.
LEMMA FrontedTexts ==
  ASSUME TypeOK, SystemFirst, NEW q \in Seq(Strings), NEW strict \in BOOLEAN,
         NEW d, Shifted(Fronted(history, q), d)
  PROVE  ReadAll([k \in 1 .. Len(caller.system) + d |-> Fronted(history, q)[k]], strict) =
           q \o OwnRead(q, strict)
<1>. DEFINE K == Len(caller.system)
            ns == Fronted(history, q)
            x == [k \in 1 .. K + d |-> ns[k]]
            s == [i \in DOMAIN caller.system |-> ReadOwn(i, q, strict)]
            t == [i \in DOMAIN x |-> Read(x[i].text, strict)]
<1>1. /\ K \in Nat /\ DOMAIN caller.system = 1 .. K /\ K <= Len(history)
      /\ history \in Seq(Messages) /\ Len(history) \in Nat
  BY SystemLen DEF SystemFirst
<1>3. s \in Seq(Seq(Strings)) /\ Len(s) = K /\ \A i \in 1 .. K : s[i] = ReadOwn(i, q, strict)
  BY <1>1, OwnReadType
<1>4. \A i \in 1 .. K : Read(history[i].text, strict \/ (i = 1 /\ q # <<>>)) = s[i]
  <2>1. \A text : Message("system", text, <<>>).text = text
    BY DEF Message
  <2>. HIDE DEF s
  <2>. QED  BY <1>3, <2>1 DEF SystemFirst, ReadOwn
<1>5. OwnRead(q, strict) = FlattenSeq(s)
  BY DEF OwnRead
<1>6. OwnRead(q, strict) \in Seq(Strings) /\ (K = 0 => OwnRead(q, strict) = <<>>)
  BY OwnReadType
<1>7. ReadAll(x, strict) = FlattenSeq(t)
  BY DEF ReadAll
<1>8. d \in {0, 1} /\ Len(ns) = Len(history) + d
  BY DEF Shifted
<1>9. DOMAIN t = 1 .. K + d /\ \A i \in 1 .. K + d : t[i] = Read(ns[i].text, strict)
  OBVIOUS
<1>. HIDE DEF s, t, x
<1>10. CASE q = <<>>
  <2>1. ns = history
    BY <1>10 DEF Fronted
  <2>2. d = 0
    BY <1>1, <1>8, <2>1
  <2>3. t = s
    <3>. HIDE DEF ns, K
    <3>1. DOMAIN s = 1 .. K
      BY <1>3
    <3>2. ASSUME NEW i \in 1 .. K PROVE t[i] = s[i]
      <4>1. t[i] = Read(history[i].text, strict)
        BY <1>1, <1>9, <2>1, <2>2
      <4>2. (strict \/ (i = 1 /\ q # <<>>)) = strict
        BY <1>10
      <4>. QED  BY <1>4, <4>1, <4>2
    <3>3. DOMAIN t = 1 .. K /\ t = [i \in 1 .. K |-> t[i]]
      BY <1>1, <1>9, <2>2 DEF t
    <3>4. s = [i \in 1 .. K |-> s[i]]
      BY <1>3
    <3>. QED  BY <3>1, <3>2, <3>3, <3>4
  <2>4. q \o OwnRead(q, strict) = OwnRead(q, strict)
    BY <1>6, <1>10, ConcatEmptySeq
  <2>. QED  BY <1>5, <1>7, <2>3, <2>4 DEF x
<1>11. CASE q # <<>> /\ K # 0
  <2>1. history # <<>> /\ 1 \in 1 .. K /\ 1 \in 1 .. Len(history)
    BY <1>1, <1>11
  <2>2. history[1] \in Messages /\ history[1].role = "system"
    BY <1>1, <2>1, SystemLeads
  <2>3. ns = [history EXCEPT ![1] = Retold(history[1], q)]
    BY <1>11, <2>1, <2>2 DEF Fronted
  <2>4. d = 0 /\ ns[1] = Retold(history[1], q) /\ \A i \in 1 .. K : i # 1 => ns[i] = history[i]
    BY <1>1, <1>8, <2>1, <2>3
  <2>5. Read(ns[1].text, strict) = q \o s[1]
    <3>1. Read(Retold(history[1], q).text, strict) = q \o AsStr(history[1].text)
      BY <2>2, RetoldType
    <3>2. s[1] = AsStr(history[1].text)
      <4>. HIDE DEF ns, K
      <4>1. s[1] = Read(history[1].text, strict \/ (1 = 1 /\ q # <<>>))
        BY <1>4, <2>1
      <4>. QED  BY <1>11, <4>1 DEF Read
    <3>. QED  BY <2>4, <3>1, <3>2
  <2>6. t = [s EXCEPT ![1] = q \o s[1]]
    <3>. DEFINE u == [s EXCEPT ![1] = q \o s[1]]
    <3>. HIDE DEF ns, K
    <3>1. DOMAIN u = 1 .. K /\ u[1] = q \o s[1] /\ \A i \in 1 .. K : i # 1 => u[i] = s[i]
      BY <1>1, <1>3, <2>1
    <3>2. ASSUME NEW i \in 1 .. K PROVE t[i] = u[i]
      <4>1. t[i] = Read(ns[i].text, strict)
        BY <1>1, <1>9, <2>4
      <4>2. CASE i = 1
        BY <2>5, <3>1, <4>1, <4>2
      <4>3. CASE i # 1
        <5>1. ns[i] = history[i] /\ u[i] = s[i]
          BY <2>4, <3>1, <4>3
        <5>2. (strict \/ (i = 1 /\ q # <<>>)) = strict
          BY <4>3
        <5>3. Read(history[i].text, strict) = s[i]
          BY <1>4, <5>2
        <5>. QED  BY <4>1, <5>1, <5>3
      <4>. QED  BY <4>2, <4>3
    <3>3. t = [i \in 1 .. K |-> t[i]]
      BY <1>1, <1>9, <2>4 DEF t
    <3>4. u = [i \in 1 .. K |-> u[i]]
      BY <1>3, <3>1
    <3>. QED  BY <3>2, <3>3, <3>4
  <2>7. s # <<>>
    BY <1>1, <1>3, <1>11
  <2>. QED  BY <1>3, <1>5, <1>7, <2>6, <2>7, FlattenFronted DEF x
<1>12. CASE q # <<>> /\ K = 0
  <2>1. ~ (history # <<>> /\ history[1].role = "system")
    BY <1>1, <1>12 DEF SystemFirst
  <2>2. ns = <<SystemMessage(q)>> \o history
    BY <1>12, <2>1 DEF Fronted
  <2>3. SystemMessage(q) \in Messages /\ Read(SystemMessage(q).text, strict) = q
    BY SystemMessageType
  <2>4. d = 1 /\ ns[1] = SystemMessage(q)
    BY <1>1, <1>8, <2>2, <2>3
  <2>5. t = <<q>>
    <3>. HIDE DEF ns, K
    <3>1. DOMAIN t = 1 .. 1 /\ t[1] = q
      BY <1>9, <1>12, <2>3, <2>4
    <3>2. t = [i \in 1 .. 1 |-> t[i]]
      BY <1>9, <1>12, <2>4 DEF t
    <3>. QED  BY <3>1, <3>2
  <2>6. FlattenSeq(<<q>>) = q
    <3>1. <<q>> \in Seq(Seq(Strings)) /\ Len(<<q>>) = 1
      OBVIOUS
    <3>2. PICK f \in [0 .. 1 -> Seq(Strings)] :
              /\ f[0] = <<>>
              /\ \A n \in 0 .. 1 - 1 : f[n + 1] = f[n] \o <<q>>[n + 1]
              /\ FlattenSeq(<<q>>) = f[1]
      <4>1. PICK f \in [0 .. Len(<<q>>) -> Seq(Strings)] :
              /\ f[0] = <<>>
              /\ \A n \in 0 .. Len(<<q>>) - 1 : f[n + 1] = f[n] \o <<q>>[n + 1]
              /\ FlattenSeq(<<q>>) = f[Len(<<q>>)]
        BY <3>1, FlattenSteps
      <4>. QED  BY <3>1, <4>1
    <3>3. f[0 + 1] = f[0] \o <<q>>[0 + 1]
      BY <3>2
    <3>4. <<q>>[0 + 1] = q /\ 0 + 1 = 1
      OBVIOUS
    <3>. QED  BY <3>2, <3>3, <3>4, ConcatEmptySeq
  <2>7. q \o OwnRead(q, strict) = q
    BY <1>6, <1>12, ConcatEmptySeq
  <2>. QED  BY <1>7, <2>5, <2>6, <2>7 DEF x
<1>. QED  BY <1>1, <1>10, <1>11, <1>12

\* What OwnText says of the client's own text is the reading the endpoint has.
LEMMA OwnTextIs ==
  ASSUME TypeOK, NEW seen
  PROVE  OwnText(seen) = OwnRead(call.prompts, seen.endpoint = "messages")
<1>. DEFINE strict == seen.endpoint = "messages"
            Own(i) == IF Lost(i, seen) THEN <<>> ELSE Words(caller.system[i])
<1>1. \A i \in DOMAIN caller.system : caller.system[i] \in TextValues
  <2>1. caller.system \in Seq(TextValues)
    BY ConversationAssumption DEF TypeOK
  <2>. QED  BY <2>1
<1>2. \A i \in DOMAIN caller.system : caller.system[i].form \in {"str", "parts", "null"}
  BY <1>1 DEF TextValues
<1>3. ASSUME NEW i \in DOMAIN caller.system PROVE Own(i) = ReadOwn(i, call.prompts, strict)
  BY <1>2 DEF Lost, ReadOwn, Read, Words, AsStr
<1>4. [i \in DOMAIN caller.system |-> Own(i)] =
        [i \in DOMAIN caller.system |-> ReadOwn(i, call.prompts, strict)]
  <2>. HIDE DEF Own, strict
  <2>. QED  BY <1>3
<1>. QED  BY <1>4 DEF OwnText, OwnRead

-----------------------------------------------------------------------------
(* Every format carries the conversation.                                  *)

\* m is what an endpoint is shown of h.
Carried(m, h, endpoint) ==
    /\ m.role = h.role /\ m.of = h.of /\ m.text = h.text
    /\ Len(m.calls) = Len(h.calls)
    /\ \A k \in DOMAIN h.calls :
          m.calls[k].name = h.calls[k].name /\ m.calls[k].args.val = h.calls[k].args.val
    /\ \/ m = h /\ (endpoint = "native" => caller.api = "ollama")
       \/ /\ endpoint = "native"
          /\ h.role = "assistant" =>
               \A k \in DOMAIN h.calls :
                  h.calls[k].args.val # Broken => m.calls[k].args.form = "object"

\* seen shows the history, d places on, behind some system messages.
Carries(seen, d) ==
    /\ seen.endpoint \in {"compat", "native", "messages"}
    /\ seen.messages \in Seq(Messages) /\ d \in Int
    /\ Len(caller.system) + d \in Nat
    /\ Len(seen.messages) = Len(history) + d
    /\ \A i \in Len(caller.system) + 1 .. Len(history) :
          Carried(seen.messages[i + d], history[i], seen.endpoint)
    /\ \A i \in 1 .. Len(caller.system) + d :
          seen.messages[i].role = "system" /\ seen.messages[i].calls = <<>>

\* Ollama's tool format keeps what was said, with arguments as objects.
LEMMA NativeCarried ==
  ASSUME NEW h \in Messages
  PROVE  /\ Native(h) \in Messages
         /\ Carried(Native(h), h, "native")
         /\ h.role = "system" => Native(h) = h
<1>. DEFINE calls == [k \in DOMAIN h.calls |-> [h.calls[k] EXCEPT !.args = Decoded(@), !.id = NoId]]
<1>1. h.calls \in Seq(Calls) /\ DOMAIN h.calls = 1 .. Len(h.calls) /\ Len(h.calls) \in Nat
  BY DEF Messages
<1>2. NoId \in Ids
  BY DEF NoId, Id, Ids
<1>3. CASE h.role = "assistant"
  <2>1. Native(h) = [h EXCEPT !.calls = calls]
    BY <1>3 DEF Native
  <2>2. ASSUME NEW x \in Calls
        PROVE  LET y == [x EXCEPT !.args = Decoded(x.args), !.id = NoId]
               IN  /\ y \in Calls /\ y.name = x.name /\ y.args.val = x.args.val
                   /\ x.args.val # Broken => y.args.form = "object"
    BY <1>2 DEF Calls, Decoded, Args
  <2>3. ASSUME NEW k \in DOMAIN h.calls
        PROVE  /\ calls[k] \in Calls
               /\ calls[k].name = h.calls[k].name /\ calls[k].args.val = h.calls[k].args.val
               /\ h.calls[k].args.val # Broken => calls[k].args.form = "object"
    <3>1. h.calls[k] \in Calls
      BY <1>1
    <3>2. calls[k] = [h.calls[k] EXCEPT !.args = Decoded(h.calls[k].args), !.id = NoId]
      OBVIOUS
    <3>. HIDE DEF calls
    <3>. QED  BY <2>2, <3>1, <3>2
  <2>4. calls \in Seq(Calls) /\ Len(calls) = Len(h.calls)
    <3>1. calls \in [1 .. Len(h.calls) -> Calls]
      BY <1>1, <2>3
    <3>2. calls \in Seq(Calls)
      <4>. HIDE DEF calls
      <4>. QED  BY <1>1, <3>1, FunctionIsSeq
    <3>3. Len(calls) = Len(h.calls)
      <4>. HIDE DEF calls
      <4>. QED  BY <1>1, <3>1
    <3>. QED  BY <3>2, <3>3
  <2>. HIDE DEF calls
  <2>5. Native(h) \in Messages /\ Native(h).calls = calls
        /\ Native(h).role = h.role /\ Native(h).of = h.of /\ Native(h).text = h.text
    BY <2>1, <2>4 DEF Messages
  <2>. QED  BY <1>3, <2>3, <2>4, <2>5 DEF Carried
<1>4. CASE h.role = "tool"
  <2>1. Native(h) = [h EXCEPT !.id = NoId]
    BY <1>4 DEF Native
  <2>2. Native(h) \in Messages /\ Native(h).calls = h.calls
        /\ Native(h).role = h.role /\ Native(h).of = h.of /\ Native(h).text = h.text
    BY <1>2, <2>1 DEF Messages
  <2>. QED  BY <1>4, <2>2 DEF Carried
<1>5. CASE h.role \notin {"assistant", "tool"}
  <2>1. Native(h) = h
    BY <1>5 DEF Native
  <2>. QED  BY <1>5, <2>1 DEF Carried
<1>. QED  BY <1>3, <1>4, <1>5

\* The three formats.
LEMMA ShownForms ==
  ASSUME Inv, call # NoCall
  PROVE  LET seen == Shown(call)
             ns == call.messages
         IN  \/ /\ seen.messages = ns /\ seen.system = <<>>
                /\ seen.endpoint = "compat" \/ (seen.endpoint = "native" /\ caller.api = "ollama")
             \/ /\ seen.messages = [i \in DOMAIN ns |-> Native(ns[i])]
                /\ seen.system = <<>> /\ seen.endpoint = "native"
             \/ /\ seen.messages = OfRole(ns, {"user", "assistant", "tool"})
                /\ seen.system = Texts(OfRole(ns, {"system"})) /\ seen.endpoint = "messages"
<1>1. call.prov \in Providers /\ call.how \in {"chat", "native", "tools"}
      /\ (call.how = "native" => caller.api = "ollama")
  BY DEF Inv, TypeOK, Underway
<1>2. CASE Adapter(call.prov) = "openai"
  BY <1>2 DEF Shown, Posted
<1>3. CASE Adapter(call.prov) = "anthropic"
  BY <1>3 DEF Shown, ToAnthropic
<1>4. CASE Adapter(call.prov) = "ollama" /\ call.how = "chat"
  BY <1>4 DEF Shown, ToOllamaChat, Posted
<1>5. CASE Adapter(call.prov) = "ollama" /\ call.how = "native"
  BY <1>1, <1>5 DEF Shown, ToOllamaNative, Posted
<1>6. CASE Adapter(call.prov) = "ollama" /\ call.how = "tools"
  BY <1>6 DEF Shown, ToOllamaTools, Posted
<1>. QED  BY <1>1, <1>2, <1>3, <1>4, <1>5, <1>6 DEF Adapter, Providers

\* What a backend is shown carries the history, behind the prompts and the
\* client's own system text.
LEMMA ShownCarries ==
  ASSUME Inv, call # NoCall
  PROVE  /\ \E d : Carries(Shown(call), d)
         /\ SystemText(Shown(call)) = call.prompts \o OwnText(Shown(call))
<1>. DEFINE seen == Shown(call)
            ms == seen.messages
            ns == Fronted(history, call.prompts)
            K == Len(caller.system)
<1>1. TypeOK /\ SystemFirst /\ call.messages = ns /\ call.prompts \in Seq(Strings)
  BY DEF Inv, Underway, TypeOK
<1>2. PICK d : Shifted(ns, d)
  BY <1>1, FrontedShifted
<1>3. /\ K \in Nat /\ history \in Seq(Messages) /\ Len(history) \in Nat /\ K <= Len(history)
  BY <1>1, SystemLen DEF SystemFirst
<1>4. /\ ns \in Seq(Messages) /\ d \in {0, 1} /\ Len(ns) = Len(history) + d /\ DOMAIN ns = 1 .. Len(ns)
      /\ \A i \in K + 1 .. Len(history) : ns[i + d] = history[i]
      /\ \A i \in 1 .. K + d : ns[i].role = "system" /\ ns[i].calls = <<>>
  BY <1>2 DEF Shifted
<1>5. \A i \in K + 1 .. Len(history) : history[i] \in Messages /\ history[i].role # "system"
  BY <1>1, <1>3 DEF SystemFirst
<1>. DEFINE x == [k \in 1 .. K + d |-> ns[k]]
            SystemsIn(zs) == /\ zs \in Seq(Messages) /\ K + d \in 0 .. Len(zs)
                             /\ \A i \in 1 .. K + d : zs[i].role = "system" /\ zs[i] = ns[i]
                             /\ \A i \in K + d + 1 .. Len(zs) : zs[i].role # "system"
            Own(strict) == call.prompts \o OwnRead(call.prompts, strict)
<1>6. \A strict \in BOOLEAN : ReadAll(x, strict) = Own(strict)
  BY <1>1, <1>2, FrontedTexts
<1>7. \A h \in Messages : Len(h.calls) = Len(h.calls) /\ Carried(h, h, "compat")
        /\ Carried(h, h, "messages") /\ (caller.api = "ollama" => Carried(h, h, "native"))
  BY DEF Carried
<1>8. \A strict \in BOOLEAN : <<>> \o Own(strict) = Own(strict) /\ Own(strict) \o <<>> = Own(strict)
  <2>1. \A strict \in BOOLEAN : OwnRead(call.prompts, strict) \in Seq(Strings)
    BY <1>1, OwnReadType
  <2>2. \A strict \in BOOLEAN : Own(strict) \in Seq(Strings)
    BY <1>1, <2>1, ConcatProperties
  <2>. HIDE DEF Own
  <2>. QED  BY <2>2, ConcatEmptySeq
<1>9. ASSUME NEW zs, SystemsIn(zs) PROVE OfRole(zs, {"system"}) = x
  <2>1. OfRole(zs, {"system"}) = [k \in 1 .. K + d |-> zs[k]]
    <3>. HIDE DEF K, ns
    <3>. QED  BY <1>3, <1>4, <1>9, SystemsFirst
  <2>2. [k \in 1 .. K + d |-> zs[k]] = x
    <3>. HIDE DEF K, ns
    <3>. QED  BY <1>9
  <2>. QED  BY <2>1, <2>2
<1>sys. \A zs : SystemsIn(zs) => SystemWords(zs) = Own(FALSE)
  <2>1. ReadAll(x, FALSE) = FlattenSeq([i \in DOMAIN x |-> Words(x[i].text)])
    BY DEF ReadAll, Read
  <2>2. \A zs : SystemsIn(zs) => SystemWords(zs) = FlattenSeq([i \in DOMAIN x |-> Words(x[i].text)])
    <3>. HIDE DEF x, SystemsIn
    <3>. QED  BY <1>9 DEF SystemWords
  <2>. HIDE DEF SystemsIn, x, Own
  <2>. QED  BY <1>6, <2>1, <2>2
<1>own. Own(seen.endpoint = "messages") = call.prompts \o OwnText(seen)
  BY <1>1, OwnTextIs
<1>10. SystemsIn(ns)
  <2>1. \A i \in K + d + 1 .. Len(ns) : i - d \in K + 1 .. Len(history) /\ (i - d) + d = i
    BY <1>3, <1>4
  <2>2. K + d \in 0 .. Len(ns)
    BY <1>3, <1>4
  <2>. HIDE DEF ns, K
  <2>3. ASSUME NEW i \in K + d + 1 .. Len(ns) PROVE ns[i].role # "system"
    <3>1. ns[i] = history[i - d] /\ i - d \in K + 1 .. Len(history)
      BY <1>4, <2>1
    <3>. QED  BY <1>5, <3>1
  <2>. QED  BY <1>4, <2>2, <2>3
<1>. HIDE DEF seen, ns, K, x, Own
<1>11. CASE /\ ms = ns /\ seen.system = <<>>
            /\ seen.endpoint = "compat" \/ (seen.endpoint = "native" /\ caller.api = "ollama")
  <2>1. Carries(seen, d)
    BY <1>3, <1>4, <1>5, <1>7, <1>11 DEF Carries, K
  <2>2. SystemText(seen) = <<>> \o Own(FALSE) /\ Own(FALSE) = call.prompts \o OwnText(seen)
    <3>1. SystemWords(ns) = Own(FALSE)
      <4>. HIDE DEF SystemsIn
      <4>. QED  BY <1>sys, <1>10
    <3>2. (seen.endpoint = "messages") = FALSE
      BY <1>11
    <3>. QED  BY <1>11, <1>own, <3>1, <3>2 DEF SystemText
  <2>. QED  BY <1>8, <2>1, <2>2 DEF seen
<1>12. CASE ms = [i \in DOMAIN ns |-> Native(ns[i])] /\ seen.system = <<>> /\ seen.endpoint = "native"
  <2>1. \A i \in 1 .. Len(ns) : ns[i] \in Messages
    BY <1>4
  <2>2. ms \in Seq(Messages) /\ Len(ms) = Len(ns) /\ \A i \in 1 .. Len(ns) : ms[i] = Native(ns[i])
    <3>1. \A i \in 1 .. Len(ns) : Native(ns[i]) \in Messages
      BY <2>1, NativeCarried
    <3>2. Len(ns) \in Nat /\ ms \in [1 .. Len(ns) -> Messages]
      BY <1>4, <1>12, <3>1
    <3>3. ms \in Seq(Messages)
      BY <3>2, FunctionIsSeq
    <3>. QED  BY <1>4, <1>12, <3>2, <3>3
  <2>3. \A i \in 1 .. K + d : i \in 1 .. Len(ns) /\ ms[i] = ns[i]
    <3>1. \A i \in 1 .. K + d : i \in 1 .. Len(ns) /\ ns[i].role = "system"
      BY <1>3, <1>4
    <3>. QED  BY <2>1, <2>2, <3>1, NativeCarried
  <2>4. \A i \in K + 1 .. Len(history) : Carried(ms[i + d], history[i], "native")
    <3>1. \A i \in K + 1 .. Len(history) : i + d \in 1 .. Len(ns) /\ ns[i + d] = history[i]
      BY <1>3, <1>4
    <3>. QED  BY <1>5, <2>2, <3>1, NativeCarried
  <2>5. Carries(seen, d)
    <3>1. d \in Int /\ K + d \in Nat /\ Len(ms) = Len(history) + d
      BY <1>3, <1>4, <2>2
    <3>2. \A i \in 1 .. K + d : ms[i].role = "system" /\ ms[i].calls = <<>>
      BY <1>4, <2>3
    <3>. QED  BY <1>12, <2>2, <2>4, <3>1, <3>2 DEF Carries, K
  <2>6. SystemsIn(ms)
    <3>1. \A i \in 1 .. Len(ns) : ms[i].role = ns[i].role
      BY <2>1, <2>2, NativeCarried DEF Carried
    <3>2. K + d \in 0 .. Len(ms)
      BY <1>10, <2>2
    <3>3. \A i \in 1 .. K + d : ms[i].role = "system" /\ ms[i] = ns[i]
      BY <1>4, <2>3
    <3>4. ASSUME NEW i \in K + d + 1 .. Len(ms) PROVE ms[i].role # "system"
      <4>1. i \in 1 .. Len(ns) /\ i \in K + d + 1 .. Len(ns)
        BY <1>3, <1>4, <2>2
      <4>. QED  BY <1>10, <3>1, <4>1
    <3>. QED  BY <2>2, <3>2, <3>3, <3>4
  <2>7. SystemText(seen) = <<>> \o Own(FALSE) /\ Own(FALSE) = call.prompts \o OwnText(seen)
    <3>1. SystemWords(ms) = Own(FALSE)
      <4>. HIDE DEF SystemsIn
      <4>. QED  BY <1>sys, <2>6
    <3>2. (seen.endpoint = "messages") = FALSE
      BY <1>12
    <3>. QED  BY <1>12, <1>own, <3>1, <3>2 DEF SystemText
  <2>. QED  BY <1>8, <2>5, <2>7 DEF seen
<1>13. CASE /\ ms = OfRole(ns, {"user", "assistant", "tool"})
            /\ seen.system = Texts(OfRole(ns, {"system"})) /\ seen.endpoint = "messages"
  <2>1. K + d \in 0 .. Len(ns) /\ Len(ns) - (K + d) = Len(history) - K /\ Len(history) - K \in Nat
    BY <1>3, <1>4
  <2>2. ms = [k \in 1 .. Len(history) - K |-> ns[(K + d) + k]]
    <3>1. OfRole(ns, {"user", "assistant", "tool"}) = [k \in 1 .. Len(ns) - (K + d) |-> ns[(K + d) + k]]
      BY <1>10, OthersLast
    <3>. QED  BY <1>13, <2>1, <3>1
  <2>3. \A k \in 1 .. Len(history) - K :
           K + k \in K + 1 .. Len(history) /\ (K + d) + k = (K + k) + d
    BY <1>3, <1>4
  <2>4. \A k \in 1 .. Len(history) - K : ns[(K + d) + k] = history[K + k] /\ history[K + k] \in Messages
    BY <1>4, <1>5, <2>3
  <2>5. ms \in Seq(Messages) /\ Len(ms) = Len(history) - K
        /\ \A k \in 1 .. Len(history) - K : ms[k] = history[K + k]
    <3>1. ms \in [1 .. Len(history) - K -> Messages]
      BY <2>2, <2>4
    <3>2. ms \in Seq(Messages)
      BY <2>1, <3>1, FunctionIsSeq
    <3>. QED  BY <2>1, <2>2, <2>4, <3>2
  <2>6. \A i \in K + 1 .. Len(history) : ms[i + (0 - K)] = history[i]
    <3>1. \A i \in K + 1 .. Len(history) : i + (0 - K) \in 1 .. Len(history) - K /\ K + (i + (0 - K)) = i
      BY <1>3
    <3>. QED  BY <2>5, <3>1
  <2>7. Carries(seen, 0 - K)
    <3>1. K + (0 - K) = 0 /\ 0 - K \in Int /\ Len(ms) = Len(history) + (0 - K)
      BY <1>3, <2>5
    <3>2. \A i \in K + 1 .. Len(history) : Carried(ms[i + (0 - K)], history[i], seen.endpoint)
      BY <1>5, <1>7, <1>13, <2>6
    <3>. QED  BY <1>13, <2>5, <3>1, <3>2 DEF Carries, K
  <2>8. SystemText(seen) = Own(TRUE) \o <<>> /\ Own(TRUE) = call.prompts \o OwnText(seen)
    <3>1. OfRole(ms, {"system"}) = [k \in 1 .. 0 |-> ms[k]]
      <4>1. \A i \in 0 + 1 .. Len(ms) : ms[i].role # "system"
        BY <1>5, <2>3, <2>5
      <4>2. 0 \in 0 .. Len(ms) /\ \A i \in 1 .. 0 : ms[i].role = "system"
        BY <2>5
      <4>. QED  BY <2>5, <4>1, <4>2, SystemsFirst
    <3>2. OfRole(ms, {"system"}) = <<>>
      BY <3>1
    <3>3. SystemWords(ms) = <<>>
      BY <3>2 DEF SystemWords, FlattenSeq
    <3>4. seen.system = Own(TRUE)
      <4>1. ReadAll(x, TRUE) = Texts(x)
        BY DEF ReadAll, Read, Texts
      <4>2. OfRole(ns, {"system"}) = x
        BY <1>9, <1>10
      <4>. QED  BY <1>6, <1>13, <4>1, <4>2
    <3>5. (seen.endpoint = "messages") = TRUE
      BY <1>13
    <3>. QED  BY <1>own, <3>3, <3>4, <3>5 DEF SystemText
  <2>. QED  BY <1>8, <2>7, <2>8 DEF seen
<1>14. \/ /\ ms = ns /\ seen.system = <<>>
          /\ seen.endpoint = "compat" \/ (seen.endpoint = "native" /\ caller.api = "ollama")
       \/ ms = [i \in DOMAIN ns |-> Native(ns[i])] /\ seen.system = <<>> /\ seen.endpoint = "native"
       \/ /\ ms = OfRole(ns, {"user", "assistant", "tool"})
          /\ seen.system = Texts(OfRole(ns, {"system"})) /\ seen.endpoint = "messages"
  BY <1>1, ShownForms DEF seen
<1>. QED  BY <1>11, <1>12, <1>13, <1>14

\* The prompts of this request come once and first, then the client's own
\* system text, through every adapter and after any number of requests.
THEOREM PromptsAlwaysFirst == Spec => []PromptsFirst
<1>1. Inv => PromptsFirst
  BY ShownCarries DEF PromptsFirst
<1>. QED  BY <1>1, Invariance, PTL

-----------------------------------------------------------------------------
(* What was said is shown.                                                 *)

\* The places of the answers, in what a backend is shown.
LEMMA ToldIs ==
  ASSUME Inv, NEW seen, NEW d, Carries(seen, d),
         NEW N, NEW e, Lists(e, N, AssistantPlaces(history))
  PROVE  /\ Assistant(seen.messages) = [k \in 1 .. N |-> seen.messages[e[k] + d]]
         /\ N \in Nat
         /\ \A k \in 1 .. N : /\ e[k] \in Len(caller.system) + 1 .. Len(history)
                              /\ history[e[k]].role = "assistant"
<1>. DEFINE K == Len(caller.system)
            ms == seen.messages
            I == {i \in DOMAIN ms : ms[i].role \in {"assistant"}}
            g == [k \in 1 .. N |-> e[k] + d]
<1>1. /\ K \in Nat /\ history \in Seq(Messages) /\ Len(history) \in Nat /\ K <= Len(history)
      /\ \A i \in 1 .. K : history[i].role = "system"
  BY SystemLen, SystemLeads DEF Inv, SystemFirst
<1>2. /\ ms \in Seq(Messages) /\ d \in Int /\ K + d \in Nat /\ Len(ms) = Len(history) + d
      /\ \A i \in K + 1 .. Len(history) : ms[i + d].role = history[i].role
      /\ \A i \in 1 .. K + d : ms[i].role = "system"
      /\ DOMAIN ms = 1 .. Len(ms)
  BY DEF Carries, Carried
<1>3. /\ N \in Nat /\ e \in [1 .. N -> AssistantPlaces(history)]
      /\ \A i \in AssistantPlaces(history) : \E k \in 1 .. N : e[k] = i
      /\ \A j, k \in 1 .. N : j < k => e[j] < e[k]
  BY DEF Lists
<1>. HIDE DEF K, ms
<1>4. \A k \in 1 .. N : e[k] \in AssistantPlaces(history)
  BY <1>3
<1>5. \A i \in AssistantPlaces(history) :
        i \in K + 1 .. Len(history) /\ i \in Nat /\ history[i].role = "assistant"
  BY <1>1 DEF AssistantPlaces
<1>6. I \in SUBSET (1 .. Len(ms))
  BY <1>2
<1>7. Lists(g, N, I)
  <2>1. g \in [1 .. N -> I]
    <3>1. ASSUME NEW k \in 1 .. N PROVE e[k] + d \in I
      <4>1. e[k] \in K + 1 .. Len(history) /\ history[e[k]].role = "assistant"
        BY <1>4, <1>5
      <4>2. e[k] + d \in 1 .. Len(ms)
        BY <1>1, <1>2, <4>1
      <4>. QED  BY <1>2, <4>1, <4>2
    <3>. HIDE DEF I
    <3>. QED  BY <3>1
  <2>2. ASSUME NEW i \in I PROVE \E k \in 1 .. N : g[k] = i
    <3>1. i \in 1 .. Len(ms) /\ ms[i].role = "assistant"
      BY <1>2
    <3>2. ~ (i \in 1 .. K + d)
      BY <1>2, <3>1
    <3>3. i - d \in K + 1 .. Len(history) /\ (i - d) + d = i
      BY <1>1, <1>2, <3>1, <3>2
    <3>4. i - d \in AssistantPlaces(history)
      BY <1>1, <1>2, <3>1, <3>3 DEF AssistantPlaces
    <3>5. PICK k \in 1 .. N : e[k] = i - d
      BY <1>3, <3>4
    <3>. QED  BY <3>3, <3>5
  <2>3. ASSUME NEW j \in 1 .. N, NEW k \in 1 .. N, j < k PROVE g[j] < g[k]
    BY <1>2, <1>3, <1>4, <1>5, <2>3
  <2>. HIDE DEF g, I
  <2>. QED  BY <1>3, <2>1, <2>2, <2>3 DEF Lists
<1>8. Assistant(ms) = [k \in 1 .. N |-> ms[g[k]]]
  <2>1. Assistant(ms) = Extract(ms, I)
    BY DEF Assistant, OfRole
  <2>. HIDE DEF I, g
  <2>. QED  BY <1>2, <1>6, <1>7, <2>1, ExtractAlong
<1>9. [k \in 1 .. N |-> ms[g[k]]] = [k \in 1 .. N |-> ms[e[k] + d]]
  OBVIOUS
<1>. HIDE DEF g
<1>. QED  BY <1>3, <1>4, <1>5, <1>8, <1>9 DEF K, ms

\* Each answer that is shown is its source's.
LEMMA EchoHolds == Inv => Echo
<1> SUFFICES ASSUME Inv, call # NoCall PROVE Echo
  BY DEF Echo
<1>. DEFINE seen == Shown(call)
            ms == seen.messages
            told == Assistant(ms)
            N == Len(said)
<1>1. PICK d : Carries(seen, d)
  BY ShownCarries
<1>2. PICK e : /\ Lists(e, N, AssistantPlaces(history))
               /\ \A k \in 1 .. N : Repeats(history[e[k]], said[k], caller.api)
  BY DEF Inv, Remembered
<1>3. /\ told = [k \in 1 .. N |-> ms[e[k] + d]]
      /\ N \in Nat
      /\ \A k \in 1 .. N : /\ e[k] \in Len(caller.system) + 1 .. Len(history)
                           /\ history[e[k]].role = "assistant"
  BY <1>1, <1>2, ToldIs
<1>4. Len(told) = N /\ DOMAIN told = 1 .. N /\ \A k \in 1 .. N : told[k] = ms[e[k] + d]
  <2>. HIDE DEF told, ms, N
  <2>. QED  BY <1>3
<1>5. seen.endpoint \in {"compat", "native", "messages"}
  BY <1>1 DEF Carries
<1>6. \A k \in 1 .. N : said[k] \in Sources
  BY DEF Inv, TypeOK
<1>7. caller.api \in {"openai", "ollama"}
  BY ConversationAssumption DEF Inv, TypeOK
<1>. HIDE DEF told, ms, seen, N
<1>8. ASSUME NEW i \in 1 .. N
      PROVE  LET made == Made(said[i])
             IN  /\ ~ByTools(said[i]) \/ made = <<>> =>
                       AsStr(told[i].text) = Taken(said[i].text, said[i].prov, said[i].stream)
                 /\ seen.endpoint # "messages" =>
                       /\ Len(told[i].calls) = Len(made)
                       /\ \A k \in DOMAIN made :
                             /\ told[i].calls[k].name = made[k].name
                             /\ SameArgs(told[i].calls[k].args, made[k].val, seen.endpoint)
  <2>. DEFINE h == history[e[i]]
              m == told[i]
              made == Made(said[i])
  <2>1. Carried(m, h, seen.endpoint) /\ h.role = "assistant"
    BY <1>1, <1>3, <1>4 DEF Carries, ms
  <2>2. Repeats(h, said[i], caller.api)
    BY <1>2
  <2>3. h.calls \in Seq(Calls) /\ made \in Seq(SaidCalls)
    <3>1. h \in Messages
      BY <1>3, SystemLen DEF Inv
    <3>2. made \in Seq(SaidCalls)
      BY <1>6, MadeType
    <3>. QED  BY <3>1, <3>2 DEF Messages
  <2>. HIDE DEF h, m, made
  <2>4. Len(h.calls) = Len(made) /\ Len(m.calls) = Len(h.calls) /\ DOMAIN h.calls = DOMAIN made
    <3>1. Len(h.calls) = Len(made) /\ Len(m.calls) = Len(h.calls)
      BY <2>1, <2>2 DEF Carried, Repeats, Matches, made
    <3>. QED  BY <2>3, <3>1
  <2>5. ASSUME NEW k \in DOMAIN made, seen.endpoint # "messages"
        PROVE  /\ m.calls[k].name = made[k].name
               /\ SameArgs(m.calls[k].args, made[k].val, seen.endpoint)
    <3>1. /\ h.calls[k].name = made[k].name
          /\ Gives(h.calls[k].args, made[k].val, OwnForm(caller.api))
      BY <2>2 DEF Repeats, Matches, made
    <3>2. m.calls[k].name = h.calls[k].name /\ m.calls[k].args.val = h.calls[k].args.val
      BY <2>1, <2>4 DEF Carried
    <3>3. /\ Form["compat"] = "string" /\ Form["native"] = "object"
          /\ seen.endpoint \in {"compat", "native"}
      BY <1>5, <2>5 DEF Form
    <3>4. \/ m = h /\ (seen.endpoint = "native" => caller.api = "ollama")
          \/ /\ seen.endpoint = "native"
             /\ h.calls[k].args.val # Broken => m.calls[k].args.form = "object"
      BY <2>1, <2>4 DEF Carried
    <3>5. SameArgs(m.calls[k].args, made[k].val, seen.endpoint)
      <4>1. \/ m.calls[k].args.val = made[k].val
            \/ caller.api = "ollama" /\ made[k].val = Broken /\ m.calls[k].args.val = "{}"
        BY <1>7, <3>1, <3>2 DEF Gives, OwnForm
      <4>2. CASE seen.endpoint = "compat"
        BY <1>7, <3>1, <3>3, <3>4, <4>1, <4>2 DEF SameArgs, Gives, OwnForm
      <4>3. CASE seen.endpoint = "native"
        BY <1>7, <3>1, <3>3, <3>4, <4>1, <4>3 DEF SameArgs, Gives, OwnForm
      <4>. QED  BY <3>3, <4>2, <4>3
    <3>. QED  BY <3>1, <3>2, <3>5
  <2>6. ~ByTools(said[i]) \/ made = <<>> =>
           AsStr(m.text) = Taken(said[i].text, said[i].prov, said[i].stream)
    <3>1. m.text = h.text
      BY <2>1 DEF Carried
    <3>. QED  BY <2>2, <3>1 DEF Repeats, made
  <2>. QED  BY <2>4, <2>5, <2>6 DEF m, made
<1>. QED  BY <1>4, <1>8 DEF Echo, seen, ms, told, N

\* Every backend sees the calls and texts of all answers so far, whichever
\* backends and adapters they came through.
THEOREM EveryoneSeesWhatWasSaid == Spec => []Echo
BY EchoHolds, Invariance, PTL

-----------------------------------------------------------------------------
(* Results and the calls they are results of.                              *)

\* A result of the message at t is a result of no other.
LEMMA AnsweredHere ==
  ASSUME Inv, NEW t \in 1 .. Len(history), NEW i \in t + 1 .. Len(history), Result(history, i, t)
  PROVE  Answered(history, i, t)
<1>1. Len(history) \in Nat /\ i \in 1 .. Len(history) /\ history[i].role = "tool"
  BY SystemLen DEF Inv, Result
<1>2. PICK u : Answered(history, i, u)
  BY <1>1 DEF Inv, Results
<1>3. u \in 1 .. i - 1 /\ Result(history, i, u) /\ history[u].calls # <<>> /\ history[t].calls # <<>>
  BY <1>2 DEF Answered, Result
<1>4. ~ (u < t) /\ ~ (t < u)
  <2>1. ASSUME u < t PROVE FALSE
    <3>1. t \in u + 1 .. i
      BY <1>1, <1>3, <2>1
    <3>. QED  BY <1>3, <3>1 DEF Result
  <2>2. ASSUME t < u PROVE FALSE
    <3>1. u \in t + 1 .. i
      BY <1>1, <1>3, <2>2
    <3>. QED  BY <1>3, <3>1 DEF Result
  <2>. QED  BY <2>1, <2>2
<1>5. u = t
  BY <1>1, <1>3, <1>4
<1>. QED  BY <1>2, <1>5

\* In a finished turn with its results in order, each stands in its place.
LEMMA OrderIsPlace ==
  ASSUME Inv, todo = {},
         NEW t \in 1 .. Len(history), NEW i \in t + 1 .. Len(history), Result(history, i, t),
         \A j, k \in t + 1 .. Len(history) :
            Result(history, j, t) /\ Result(history, k, t) /\ j < k => history[j].of < history[k].of
  PROVE  history[i].of = i - t
<1>. DEFINE of(j) == history[j].of
            S == {j \in t + 1 .. i : of(j) # j - t}
<1>1. Len(history) \in Nat /\ t \in Nat /\ i \in Nat /\ history \in Seq(Messages)
  BY SystemLen DEF Inv
<1>2. \A j \in t + 1 .. i : j \in t + 1 .. Len(history) /\ Result(history, j, t)
  BY <1>1 DEF Result
<1>3. ASSUME NEW j \in t + 1 .. Len(history), Result(history, j, t)
      PROVE  of(j) \in 1 .. Len(history[t].calls)
  <2>1. of(j) \in DOMAIN history[t].calls
    BY <1>3, AnsweredHere DEF Answered
  <2>2. history[t].calls \in Seq(Calls)
    <3>1. history[t] \in Messages
      BY <1>1
    <3>. QED  BY <3>1 DEF Messages
  <2>. QED  BY <2>1, <2>2
<1>4. S = {}
  <2>1. ASSUME S # {} PROVE FALSE
    <3>1. PICK j \in S : \A k \in S : j <= k
      <4>1. S \in SUBSET Nat
        BY <1>1
      <4>. QED  BY <2>1, <4>1, LeastNatural
    <3>2. j \in t + 1 .. i /\ of(j) # j - t /\ \A k \in t + 1 .. j - 1 : of(k) = k - t
      <4>1. j \in t + 1 .. i /\ of(j) # j - t
        BY <3>1
      <4>2. ASSUME NEW k \in t + 1 .. j - 1, of(k) # k - t PROVE FALSE
        <5>1. k \in S
          BY <1>1, <4>1, <4>2
        <5>2. j <= k
          BY <3>1, <5>1
        <5>. QED  BY <1>1, <4>1, <5>2
      <4>. QED  BY <4>1, <4>2
    <3>. HIDE DEF S
    <3>3. j \in t + 1 .. Len(history) /\ Result(history, j, t) /\ of(j) \in 1 .. Len(history[t].calls)
      BY <1>2, <1>3, <3>2
    <3>4. of(j) > j - t
      <4>1. CASE j = t + 1
        BY <1>1, <3>2, <3>3, <4>1
      <4>2. CASE j # t + 1
        <5>1. j - 1 \in t + 1 .. i /\ j - 1 \in t + 1 .. j - 1 /\ j - 1 < j
          BY <1>1, <3>2, <4>2
        <5>2. of(j - 1) = (j - 1) - t /\ Result(history, j - 1, t) /\ j - 1 \in t + 1 .. Len(history)
          BY <1>2, <3>2, <5>1
        <5>3. of(j - 1) < of(j)
          BY <3>3, <5>1, <5>2
        <5>. QED  BY <1>1, <3>2, <3>3, <5>2, <5>3
      <4>. QED  BY <4>1, <4>2
    <3>5. j - t \in DOMAIN history[t].calls
      <4>1. history[t].calls \in Seq(Calls)
        <5>1. history[t] \in Messages
          BY <1>1
        <5>. QED  BY <5>1 DEF Messages
      <4>. QED  BY <1>1, <3>2, <3>3, <3>4, <4>1
    <3>6. HasResult(history, t, j - t)
      BY <3>5 DEF Inv, Complete
    <3>7. PICK k \in t + 1 .. Len(history) : Result(history, k, t) /\ of(k) = j - t
      BY <3>6 DEF HasResult
    <3>8. CASE k < j
      <4>1. k \in t + 1 .. j - 1
        BY <1>1, <3>2, <3>8
      <4>. QED  BY <1>1, <3>2, <3>7, <4>1, <3>8
    <3>9. CASE k = j
      BY <3>2, <3>7, <3>9
    <3>10. CASE k > j
      <4>1. of(j) < of(k)
        BY <3>3, <3>7, <3>10
      <4>. QED  BY <1>1, <3>2, <3>3, <3>4, <3>7, <4>1
    <3>. QED  BY <1>1, <3>2, <3>8, <3>9, <3>10
  <2>. QED  BY <2>1
<1>. QED  BY <1>1, <1>4

\* Where a backend is shown the turn of a result.
LEMMA TurnShown ==
  ASSUME Inv, NEW seen, NEW d, Carries(seen, d),
         NEW t \in 1 .. Len(history), NEW i \in t + 1 .. Len(history), Result(history, i, t)
  PROVE  /\ Turn(seen.messages, i + d) = t + d
         /\ t \in Len(caller.system) + 1 .. Len(history)
         /\ t + d \in 1 .. i + d
<1>. DEFINE K == Len(caller.system)
            ms == seen.messages
<1>1. /\ K \in Nat /\ history \in Seq(Messages) /\ Len(history) \in Nat /\ K <= Len(history)
      /\ \A j \in 1 .. K : history[j].calls = <<>>
  BY SystemLen, SystemLeads DEF Inv, SystemFirst
<1>2. /\ ms \in Seq(Messages) /\ d \in Int /\ K + d \in Nat /\ Len(ms) = Len(history) + d
      /\ \A j \in K + 1 .. Len(history) : Len(ms[j + d].calls) = Len(history[j].calls)
  BY DEF Carries, Carried
<1>3. history[t].calls # <<>> /\ \A j \in t + 1 .. i : history[j].calls = <<>>
  BY DEF Result
<1>. HIDE DEF K, ms
<1>4. t \in K + 1 .. Len(history)
  BY <1>1, <1>3
<1>5. \A m \in Messages : m.calls \in Seq(Calls)
  BY DEF Messages
<1>6. \A j \in K + 1 .. Len(history) : ms[j + d].calls = <<>> <=> history[j].calls = <<>>
  <2>1. ASSUME NEW j \in K + 1 .. Len(history)
        PROVE  ms[j + d].calls = <<>> <=> history[j].calls = <<>>
    <3>1. j + d \in 1 .. Len(ms) /\ j \in 1 .. Len(history)
      BY <1>1, <1>2
    <3>2. ms[j + d] \in Messages /\ history[j] \in Messages
      BY <1>1, <1>2, <3>1
    <3>3. ms[j + d].calls \in Seq(Calls) /\ history[j].calls \in Seq(Calls)
      BY <1>5, <3>2
    <3>. QED  BY <1>2, <3>3, EmptySeq
  <2>. QED  BY <2>1
<1>7. IsTurn(ms, t + d, i + d)
  <2>1. t + d \in 1 .. i + d
    BY <1>1, <1>2, <1>4
  <2>2. ms[t + d].calls # <<>>
    BY <1>3, <1>4, <1>6
  <2>3. ASSUME NEW j \in t + d + 1 .. i + d PROVE ms[j].calls = <<>>
    <3>1. j - d \in t + 1 .. i /\ j - d \in K + 1 .. Len(history) /\ (j - d) + d = j
      BY <1>1, <1>2, <1>4
    <3>. QED  BY <1>3, <1>6, <3>1
  <2>. QED  BY <2>1, <2>2, <2>3 DEF IsTurn
<1>8. i + d \in Nat
  BY <1>1, <1>2, <1>4
<1>9. Turn(ms, i + d) = t + d
  BY <1>7, <1>8, TurnIs
<1>. QED  BY <1>4, <1>7, <1>9 DEF IsTurn, ms, K

\* By its id, or by its place, a result belongs to the call it answers.
LEMMA PairedHolds == Inv => Paired
<1> SUFFICES ASSUME Inv, call # NoCall,
                    NEW x \in DOMAIN Shown(call).messages, Shown(call).messages[x].role = "tool"
             PROVE  LET ms == Shown(call).messages
                    IN  IF Shown(call).endpoint = "native"
                        THEN InOrder(ms, x) => ByPlace(ms, x) = {ms[x].of}
                        ELSE caller.api = "openai" => ById(ms, x) = {ms[x].of}
  BY DEF Paired
<1>. DEFINE seen == Shown(call)
            ms == seen.messages
            K == Len(caller.system)
<1>1. PICK d : Carries(seen, d)
  BY ShownCarries
<1>. DEFINE i == x - d
<1>2. /\ K \in Nat /\ history \in Seq(Messages) /\ Len(history) \in Nat /\ K <= Len(history)
  BY SystemLen DEF Inv, SystemFirst
<1>3. /\ ms \in Seq(Messages) /\ d \in Int /\ K + d \in Nat /\ Len(ms) = Len(history) + d
      /\ DOMAIN ms = 1 .. Len(ms)
      /\ \A j \in K + 1 .. Len(history) : Carried(ms[j + d], history[j], seen.endpoint)
      /\ \A j \in 1 .. K + d : ms[j].role = "system"
  BY <1>1 DEF Carries
<1>. HIDE DEF seen, ms, K
<1>4. i \in K + 1 .. Len(history) /\ i + d = x
  <2>1. x \in 1 .. Len(ms) /\ ms[x].role = "tool"
    BY <1>3 DEF ms, seen
  <2>2. ~ (x \in 1 .. K + d)
    BY <1>3, <2>1
  <2>. QED  BY <1>2, <1>3, <2>1, <2>2
<1>5. Carried(ms[x], history[i], seen.endpoint) /\ history[i].role = "tool"
  <2>1. Carried(ms[x], history[i], seen.endpoint)
    BY <1>3, <1>4
  <2>. QED  BY <2>1 DEF Carried, ms, seen
<1>6. PICK t : Answered(history, i, t)
  BY <1>2, <1>4, <1>5 DEF Inv, Results
<1>7. t \in 1 .. Len(history) /\ i \in t + 1 .. Len(history) /\ Result(history, i, t)
  BY <1>2, <1>4, <1>6 DEF Answered
<1>. HIDE DEF i
<1>8. Turn(ms, x) = t + d /\ t \in K + 1 .. Len(history)
  BY <1>1, <1>4, <1>7, TurnShown DEF ms, K
<1>9. ms[x].of = history[i].of
  BY <1>5 DEF Carried
<1>10. CASE seen.endpoint = "native"
  <2>1. ASSUME InOrder(ms, x) PROVE ByPlace(ms, x) = {ms[x].of}
    <3>1. ASSUME NEW j \in t + 1 .. Len(history), Result(history, j, t)
          PROVE  /\ j + d \in DOMAIN ms /\ ms[j + d].role = "tool" /\ Turn(ms, j + d) = t + d
                 /\ ms[j + d].of = history[j].of
      <4>1. j \in K + 1 .. Len(history) /\ j + d \in DOMAIN ms
        BY <1>2, <1>3, <1>8
      <4>2. Carried(ms[j + d], history[j], seen.endpoint)
        BY <1>3, <4>1
      <4>3. history[j].role = "tool"
        BY <1>7, <3>1 DEF Result
      <4>4. Turn(ms, j + d) = t + d
        BY <1>1, <1>7, <3>1, TurnShown DEF ms
      <4>. QED  BY <4>1, <4>2, <4>3, <4>4 DEF Carried
    <3>2. ASSUME NEW j \in t + 1 .. Len(history), NEW k \in t + 1 .. Len(history),
                 Result(history, j, t), Result(history, k, t), j < k
          PROVE  history[j].of < history[k].of
      <4>1. j + d < k + d
        BY <1>2, <1>3, <1>7, <3>2
      <4>2. /\ j + d \in {z \in DOMAIN ms : ms[z].role = "tool" /\ Turn(ms, z) = Turn(ms, x)}
            /\ k + d \in {z \in DOMAIN ms : ms[z].role = "tool" /\ Turn(ms, z) = Turn(ms, x)}
        BY <1>8, <3>1, <3>2
      <4>3. ms[j + d].of < ms[k + d].of
        BY <2>1, <4>1, <4>2 DEF InOrder
      <4>. QED  BY <3>1, <3>2, <4>3
    <3>3. todo = {}
      BY DEF Inv, Underway
    <3>4. history[i].of = i - t
      BY <1>7, <3>2, <3>3, OrderIsPlace
    <3>5. x - Turn(ms, x) = i - t
      BY <1>2, <1>3, <1>4, <1>7, <1>8
    <3>. QED  BY <1>9, <3>4, <3>5 DEF ByPlace
  <2>. QED  BY <1>10, <2>1 DEF ms, seen
<1>11. CASE seen.endpoint # "native"
  <2>1. ASSUME caller.api = "openai" PROVE ById(ms, x) = {ms[x].of}
    <3>1. ms[x] = history[i] /\ ms[t + d] = history[t]
      <4>1. Carried(ms[t + d], history[t], seen.endpoint)
        BY <1>3, <1>8
      <4>. QED  BY <1>5, <1>11, <4>1 DEF Carried
    <3>2. /\ history[i].of \in DOMAIN history[t].calls
          /\ history[i].id = history[t].calls[history[i].of].id
      BY <1>6 DEF Answered
    <3>3. Apart(history[t].calls)
      BY <1>7, <2>1 DEF Inv, IdsDiffer
    <3>4. {k \in DOMAIN history[t].calls : history[t].calls[k].id = history[i].id} = {history[i].of}
      BY <3>2, <3>3 DEF Apart
    <3>. QED  BY <1>8, <1>9, <3>1, <3>4 DEF ById
  <2>. QED  BY <1>11, <2>1 DEF ms, seen
<1>. QED  BY <1>10, <1>11

\* A tool result is taken for that of the call it answers, by its id or, when
\* the client keeps the order of the calls, by its place.
THEOREM ResultsArePaired == Spec => []Paired
BY PairedHolds, Invariance, PTL
=============================================================================
