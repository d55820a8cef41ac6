--------------------------- MODULE StreamingProofs ---------------------------
(***************************************************************************)
(* Proofs about Streaming, for all scripts, all ways of cutting a body     *)
(* into chunks, and any capacity of the channel.                           *)
(***************************************************************************)
EXTENDS Streaming, SequenceTheorems, WellFoundedInduction, TLAPS

-----------------------------------------------------------------------------
(* Induction, and functions defined by recursion over the places of a      *)
(* sequence.                                                               *)

\* Every nonempty set of naturals has a least element.
LEMMA LeastNatural ==
  ASSUME NEW S \in SUBSET Nat, S # {}
  PROVE  \E n \in S : \A m \in S : n <= m
<1>1. PICK n \in S : \A m \in S : ~ (<<m, n>> \in OpToRel(<, Nat))
  BY WFMin, NatLessThanWellFounded
<1>2. ASSUME NEW m \in S PROVE n <= m
  <2>1. <<m, n>> \in Nat \X Nat /\ <<m, n>>[1] = m /\ <<m, n>>[2] = n
    OBVIOUS
  <2>2. ~ (m < n)
    BY <1>1, <2>1 DEF OpToRel
  <2>. QED  BY <2>2
<1>. QED  BY <1>2

\* What holds at 0 and goes from each number to the next holds up to N.
LEMMA UpTo ==
  ASSUME NEW N \in Nat, NEW S, 0 \in S, \A n \in 0 .. N - 1 : n \in S => n + 1 \in S
  PROVE  \A n \in 0 .. N : n \in S
<1> SUFFICES ASSUME NEW n \in 0 .. N, n \notin S
             PROVE  FALSE
  OBVIOUS
<1>. DEFINE T == (0 .. N) \ S
<1>1. PICK m \in T : \A k \in T : m <= k
  <2>1. T \in SUBSET Nat /\ T # {}
    OBVIOUS
  <2>. QED  BY <2>1, LeastNatural
<1>2. m - 1 \in 0 .. N - 1 /\ m - 1 \in S
  BY <1>1
<1>. QED  BY <1>1, <1>2

\* Steps on V, one for each of the places 1 .. N, and the functions that
\* follow such steps from a start.
Steps(N, V) == [1 .. N -> [V -> V]]
Follows(f, N, a, G) == f[0] = a /\ \A n \in 1 .. N : f[n] = G[n][f[n - 1]]
Fits(N, V, a, G) == {f \in [0 .. N -> V] : Follows(f, N, a, G)}

\* Steps always give a function on 0 .. N.
LEMMA Recursion ==
  ASSUME NEW N \in Nat, NEW V, NEW a \in V, NEW G \in Steps(N, V)
  PROVE  \E f : f \in Fits(N, V, a, G)
<1>. USE DEF Steps, Follows, Fits
<1>. DEFINE Good(f, n) == f[0] = a /\ \A m \in 1 .. n : f[m] = G[m][f[m - 1]]
            S == {n \in 0 .. N : \E f \in [0 .. N -> V] : Good(f, n)}
<1>1. 0 \in S
  <2>. DEFINE z == [n \in 0 .. N |-> a]
  <2>1. z \in [0 .. N -> V] /\ z[0] = a
    OBVIOUS
  <2>2. Good(z, 0)
    BY <2>1
  <2>3. \E f \in [0 .. N -> V] : Good(f, 0)
    <3>. HIDE DEF z, Good
    <3>. QED  BY <2>1, <2>2
  <2>. QED  BY <2>3
<1>2. ASSUME NEW n \in 0 .. N - 1, n \in S PROVE n + 1 \in S
  <2>1. PICK f \in [0 .. N -> V] : Good(f, n)
    BY <1>2
  <2>. DEFINE g == [f EXCEPT ![n + 1] = G[n + 1][f[n]]]
  <2>2. g \in [0 .. N -> V] /\ \A m \in 0 .. n : g[m] = f[m]
    OBVIOUS
  <2>3. g[n + 1] = G[n + 1][g[n]]
    BY <2>2
  <2>4. Good(g, n + 1)
    <3>1. g[0] = a
      BY <2>1, <2>2
    <3>2. ASSUME NEW m \in 1 .. n + 1 PROVE g[m] = G[m][g[m - 1]]
      <4>1. CASE m = n + 1
        BY <4>1, <2>3
      <4>2. CASE m # n + 1
        BY <4>2, <2>1, <2>2
      <4>. QED  BY <4>1, <4>2
    <3>. QED  BY <3>1, <3>2
  <2>5. \E h \in [0 .. N -> V] : Good(h, n + 1)
    <3>. HIDE DEF g, Good
    <3>. QED  BY <2>2, <2>4
  <2>. QED  BY <2>5
<1>3. \A n \in 0 .. N : n \in S
  <2>. HIDE DEF S
  <2>. QED  BY <1>1, <1>2, UpTo
<1>. QED  BY <1>3

-----------------------------------------------------------------------------
(* Sequences of sequences, one after the other.                            *)

\* What FlattenSeq computes, place by place.
LEMMA FlattenSteps ==
  ASSUME NEW V, NEW s \in Seq(Seq(V))
  PROVE  \E f \in [0 .. Len(s) -> Seq(V)] :
            /\ f[0] = <<>>
            /\ \A n \in 0 .. Len(s) - 1 : f[n + 1] = f[n] \o s[n + 1]
            /\ FlattenSeq(s) = f[Len(s)]
<1>. DEFINE N == Len(s)
            W == Seq(V)
            e == <<>>
            G == [n \in 1 .. N |-> [v \in W |-> v \o s[n]]]
            F(f) == [i \in 1 .. N |-> IF i = 1 THEN s[i] ELSE f[i - 1] \o s[i]]
            c == CHOOSE f : f = F(f)
<1>0. N \in Nat /\ e \in W /\ G \in Steps(N, W) /\ \A n \in 1 .. N : s[n] \in W
  BY DEF Steps
<1>1. PICK f \in [0 .. N -> W] : f[0] = e /\ \A n \in 1 .. N : f[n] = G[n][f[n - 1]]
  <2>. HIDE DEF G, N, W, e
  <2>1. PICK f : f \in Fits(N, W, e, G)
    BY <1>0, Recursion
  <2>. QED  BY <2>1 DEF Fits, Follows
<1>2. \A m \in 1 .. N, n \in 0 .. N - 1 : m = n + 1 => f[m] = f[n] \o s[m]
  <2>1. ASSUME NEW m \in 1 .. N, NEW n \in 0 .. N - 1, m = n + 1
        PROVE  f[m] = f[n] \o s[m]
    <3>1. n = m - 1 /\ n \in 0 .. N
      BY <1>0, <2>1
    <3>2. f[n] \in W /\ f[m] = G[m][f[n]]
      <4>. HIDE DEF G, W
      <4>. QED  BY <1>1, <3>1
    <3>3. G[m][f[n]] = f[n] \o s[m]
      <4>. HIDE DEF W
      <4>. QED  BY <3>2
    <3>. QED  BY <3>2, <3>3
  <2>. QED  BY <2>1
<1>3. N # 0 => f[1] = s[1]
  <2>1. ASSUME N # 0 PROVE f[1] = s[1]
    <3>1. 1 \in 1 .. N /\ 0 \in 0 .. N - 1 /\ 1 = 0 + 1
      BY <1>0, <2>1
    <3>2. ASSUME NEW m \in 1 .. N, NEW n \in 0 .. N - 1, m = 1, n = 0
          PROVE  f[m] = f[n] \o s[m] /\ s[m] \in Seq(V)
      <4>1. m = n + 1
        BY <3>2
      <4>. QED  BY <4>1, <1>0, <1>2
    <3>3. f[1] = f[0] \o s[1] /\ s[1] \in Seq(V)
      BY <3>1, <3>2
    <3>. QED  BY <1>1, <3>3, ConcatEmptySeq
  <2>. QED  BY <2>1
<1>4. N # 0 => c = F(c)
  <2>. DEFINE g == [n \in 1 .. N |-> f[n]]
  <2>1. ASSUME NEW n \in 1 .. N PROVE g[n] = F(g)[n]
    <3>1. CASE n = 1
      BY <1>3, <3>1
    <3>2. CASE n # 1
      <4>1. n - 1 \in 1 .. N /\ g[n - 1] = f[n - 1]
        BY <1>0, <3>2
      <4>2. n - 1 \in 0 .. N - 1 /\ n = (n - 1) + 1
        BY <1>0, <3>2
      <4>3. f[n] = f[n - 1] \o s[n]
        BY <4>2, <1>2
      <4>. QED  BY <4>1, <4>3, <3>2
    <3>. QED  BY <3>1, <3>2
  <2>2. g = F(g)
    BY <2>1
  <2>. HIDE DEF F, g
  <2>. QED  BY <2>2
<1>5. N # 0 => FlattenSeq(s) = c[N]
  BY DEF FlattenSeq
<1>6. ASSUME N # 0, NEW m \in 0 .. N, m # 0 PROVE c[m] = f[m]
  <2>. DEFINE S == {n \in 0 .. N : n # 0 => c[n] = f[n]}
  <2>. HIDE DEF c
  <2>step. ASSUME NEW k \in 1 .. N, NEW j \in 0 .. N, k = j + 1
        PROVE  c[k] = IF j = 0 THEN s[k] ELSE c[j] \o s[k]
    <3>1. c[k] = F(c)[k]
      <4>. HIDE DEF F
      <4>. QED  BY <1>4, <1>6
    <3>2. c[k] = IF k = 1 THEN s[k] ELSE c[k - 1] \o s[k]
      BY <3>1
    <3>. QED  BY <2>step, <3>2, <1>0
  <2>1. 0 \in S
    BY <1>0
  <2>2. ASSUME NEW n \in 0 .. N - 1, n \in S PROVE n + 1 \in S
    <3>1. n + 1 \in 1 .. N /\ n + 1 \in 0 .. N
      BY <1>0
    <3>2. c[n + 1] = IF n = 0 THEN s[n + 1] ELSE c[n] \o s[n + 1]
      <4>1. n \in 0 .. N
        BY <1>0
      <4>. QED  BY <2>step, <3>1, <4>1
    <3>3. CASE n = 0
      <4>1. c[1] = s[1]
        BY <3>1, <3>2, <3>3
      <4>. QED  BY <4>1, <1>3, <1>6, <3>1, <3>3
    <3>4. CASE n # 0
      <4>1. c[n] = f[n]
        BY <2>2, <3>4
      <4>2. c[n + 1] = c[n] \o s[n + 1]
        BY <3>2, <3>4
      <4>3. f[n + 1] = f[n] \o s[n + 1]
        BY <1>2, <3>1
      <4>. QED  BY <3>1, <4>1, <4>2, <4>3
    <3>. QED  BY <3>3, <3>4
  <2>. HIDE DEF S
  <2>3. \A n \in 0 .. N : n \in S
    BY <1>0, <2>1, <2>2, UpTo
  <2>. QED  BY <2>3, <1>6 DEF S
<1>7. FlattenSeq(s) = f[N]
  <2>1. CASE N = 0
    <3>1. s = <<>> /\ FlattenSeq(s) = s
      BY <2>1 DEF FlattenSeq
    <3>. QED  BY <3>1, <2>1, <1>1
  <2>2. CASE N # 0
    <3>1. N \in 0 .. N
      BY <1>0
    <3>. HIDE DEF N, c
    <3>. QED  BY <2>2, <3>1, <1>5, <1>6
  <2>. QED  BY <2>1, <2>2
<1>8. \A n \in 0 .. N - 1 : f[n + 1] = f[n] \o s[n + 1]
  <2>1. \A n \in 0 .. N - 1 : n + 1 \in 1 .. N
    BY <1>0
  <2>. QED  BY <1>2, <2>1
<1>. QED  BY <1>1, <1>7, <1>8

\* The same along the sequence, for every beginning of it.
LEMMA FlattenRun ==
  ASSUME NEW V, NEW s \in Seq(Seq(V))
  PROVE  \E f \in [0 .. Len(s) -> Seq(V)] :
            /\ f[0] = <<>>
            /\ \A n \in 0 .. Len(s) - 1 : f[n + 1] = f[n] \o s[n + 1]
            /\ \A k \in 0 .. Len(s) : FlattenSeq(SubSeq(s, 1, k)) = f[k]
            /\ FlattenSeq(s) = f[Len(s)]
<1>1. PICK f \in [0 .. Len(s) -> Seq(V)] :
        /\ f[0] = <<>>
        /\ \A n \in 0 .. Len(s) - 1 : f[n + 1] = f[n] \o s[n + 1]
        /\ FlattenSeq(s) = f[Len(s)]
  BY FlattenSteps
<1>2. ASSUME NEW k \in 0 .. Len(s) PROVE FlattenSeq(SubSeq(s, 1, k)) = f[k]
  <2>. DEFINE t == SubSeq(s, 1, k)
  <2>1. t \in Seq(Seq(V)) /\ Len(t) = k /\ \A n \in 1 .. k : t[n] = s[n]
    OBVIOUS
  <2>. HIDE DEF t
  <2>2. PICK g \in [0 .. Len(t) -> Seq(V)] :
          /\ g[0] = <<>>
          /\ \A n \in 0 .. Len(t) - 1 : g[n + 1] = g[n] \o t[n + 1]
          /\ FlattenSeq(t) = g[Len(t)]
    BY <2>1, FlattenSteps
  <2>. DEFINE S == {n \in 0 .. k : g[n] = f[n]}
  <2>3. 0 \in S
    BY <1>1, <2>2
  <2>4. ASSUME NEW n \in 0 .. k - 1, n \in S PROVE n + 1 \in S
    <3>1. n + 1 \in 1 .. k /\ n \in 0 .. Len(s) - 1 /\ n \in 0 .. Len(t) - 1 /\ n + 1 \in 0 .. k
      BY <2>1
    <3>2. g[n + 1] = g[n] \o t[n + 1] /\ f[n + 1] = f[n] \o s[n + 1] /\ t[n + 1] = s[n + 1] /\ g[n] = f[n]
      BY <1>1, <2>1, <2>2, <2>4, <3>1
    <3>. QED  BY <3>1, <3>2
  <2>5. \A n \in 0 .. k : n \in S
    <3>. HIDE DEF S
    <3>1. k \in Nat
      OBVIOUS
    <3>. QED  BY <2>3, <2>4, <3>1, UpTo
  <2>6. k \in S
    BY <2>5
  <2>7. FlattenSeq(t) = f[k]
    BY <2>1, <2>2, <2>6
  <2>. QED  BY <2>7 DEF t
<1>. QED  BY <1>1, <1>2

\* Where each sequence ends, and what is between two ends.
Ends(s) == [k \in 0 .. Len(s) |-> Len(FlattenSeq(SubSeq(s, 1, k)))]
Laid(S, s) ==
    /\ Ends(s) \in [0 .. Len(s) -> Nat]
    /\ Ends(s)[0] = 0 /\ Ends(s)[Len(s)] = Len(S)
    /\ \A k \in 1 .. Len(s) : Ends(s)[k] = Ends(s)[k - 1] + Len(s[k])
    /\ \A j, k \in 0 .. Len(s) : j <= k => Ends(s)[j] <= Ends(s)[k]
    /\ \A k \in 1 .. Len(s) : \A j \in 1 .. Len(s[k]) : S[Ends(s)[k - 1] + j] = s[k][j]
    /\ \A k \in 0 .. Len(s) : FlattenSeq(SubSeq(s, 1, k)) = SubSeq(S, 1, Ends(s)[k])

\* What follows a sequence leaves it as it is.
LEMMA ConcatKeeps ==
  ASSUME NEW V, NEW x \in Seq(V), NEW y \in Seq(V)
  PROVE  /\ x \o y \in Seq(V) /\ Len(x \o y) = Len(x) + Len(y)
         /\ \A i \in 1 .. Len(x) : (x \o y)[i] = x[i]
         /\ \A j \in 1 .. Len(y) : (x \o y)[Len(x) + j] = y[j]
         /\ SubSeq(x \o y, 1, Len(x)) = x
OBVIOUS

\* FlattenSeq lays its sequences out one after the other.
LEMMA LaidOut ==
  ASSUME NEW V, NEW s \in Seq(Seq(V))
  PROVE  FlattenSeq(s) \in Seq(V) /\ Laid(FlattenSeq(s), s)
<1>. DEFINE N == Len(s)
            E == Ends(s)
            S == FlattenSeq(s)
<1>1. PICK f \in [0 .. N -> Seq(V)] :
            /\ f[0] = <<>>
            /\ \A n \in 0 .. N - 1 : f[n + 1] = f[n] \o s[n + 1]
            /\ \A k \in 0 .. N : FlattenSeq(SubSeq(s, 1, k)) = f[k]
            /\ S = f[N]
  BY FlattenRun
<1>2. N \in Nat /\ \A k \in 1 .. N : s[k] \in Seq(V) /\ Len(s[k]) \in Nat
  OBVIOUS
<1>3. \A k \in 0 .. N : f[k] \in Seq(V) /\ Len(f[k]) \in Nat /\ E[k] = Len(f[k])
  BY <1>1 DEF Ends
<1>. HIDE DEF N, E, S
<1>4. ASSUME NEW k \in 1 .. N, NEW m \in 0 .. N, k = m + 1
      PROVE  /\ f[k] = f[m] \o s[k] /\ f[m] \in Seq(V) /\ s[k] \in Seq(V)
             /\ f[k] \in Seq(V) /\ Len(f[m]) \in Nat /\ Len(s[k]) \in Nat /\ Len(f[k]) \in Nat
             /\ E[k] = Len(f[k]) /\ E[m] = Len(f[m])
  <2>1. m \in 0 .. N - 1 /\ k \in 0 .. N
    BY <1>2, <1>4
  <2>2. f[m + 1] = f[m] \o s[m + 1]
    BY <1>1, <2>1
  <2>3. f[k] = f[m] \o s[k]
    BY <2>2, <1>4
  <2>. QED  BY <1>2, <1>3, <2>1, <2>3
<1>5. ASSUME NEW k \in 1 .. N, NEW m \in 0 .. N, k = m + 1
      PROVE  /\ Len(f[k]) = Len(f[m]) + Len(s[k])
             /\ \A i \in 1 .. Len(f[m]) : f[k][i] = f[m][i]
             /\ \A j \in 1 .. Len(s[k]) : f[k][Len(f[m]) + j] = s[k][j]
  <2>1. f[m] \in Seq(V) /\ s[k] \in Seq(V) /\ f[k] = f[m] \o s[k]
    BY <1>4, <1>5
  <2>2. /\ Len(f[m] \o s[k]) = Len(f[m]) + Len(s[k])
        /\ \A i \in 1 .. Len(f[m]) : (f[m] \o s[k])[i] = f[m][i]
        /\ \A j \in 1 .. Len(s[k]) : (f[m] \o s[k])[Len(f[m]) + j] = s[k][j]
    BY <2>1, ConcatKeeps
  <2>. QED  BY <2>1, <2>2
<1>. DEFINE Over(k) == \A j \in 0 .. k : /\ Len(f[j]) <= Len(f[k])
                                         /\ \A i \in 1 .. Len(f[j]) : f[k][i] = f[j][i]
            R == {k \in 0 .. N : Over(k)}
<1>6. \A k \in 0 .. N : k \in R
  <2>1. 0 \in R
    BY <1>2, <1>3
  <2>2. ASSUME NEW n \in 0 .. N - 1, n \in R PROVE n + 1 \in R
    <3>1. n + 1 \in 1 .. N /\ n + 1 \in 0 .. N /\ n \in 0 .. N
      BY <1>2
    <3>2. /\ Len(f[n + 1]) = Len(f[n]) + Len(s[n + 1])
          /\ \A i \in 1 .. Len(f[n]) : f[n + 1][i] = f[n][i]
      BY <3>1, <1>5
    <3>3. Len(f[n]) \in Nat /\ Len(s[n + 1]) \in Nat /\ Len(f[n + 1]) \in Nat
      BY <3>1, <1>2, <1>3
    <3>4. ASSUME NEW j \in 0 .. n + 1
          PROVE  Len(f[j]) <= Len(f[n + 1]) /\ \A i \in 1 .. Len(f[j]) : f[n + 1][i] = f[j][i]
      <4>1. CASE j = n + 1
        BY <4>1, <3>3
      <4>2. CASE j # n + 1
        <5>1. j \in 0 .. n /\ Len(f[j]) \in Nat
          BY <4>2, <3>1, <1>3
        <5>2. Len(f[j]) <= Len(f[n]) /\ \A i \in 1 .. Len(f[j]) : f[n][i] = f[j][i]
          BY <2>2, <5>1
        <5>3. \A i \in 1 .. Len(f[j]) : i \in 1 .. Len(f[n])
          BY <3>3, <5>1, <5>2
        <5>4. Len(f[j]) <= Len(f[n + 1])
          <6>1. Len(f[n + 1]) = Len(f[n]) + Len(s[n + 1]) /\ Len(f[j]) <= Len(f[n])
            BY <3>2, <5>2
          <6>2. \A a, b, c, d \in Nat : a = b + c /\ d <= b => d <= a
            OBVIOUS
          <6>3. Len(f[j]) \in Nat /\ Len(f[n]) \in Nat /\ Len(s[n + 1]) \in Nat /\ Len(f[n + 1]) \in Nat
            BY <3>3, <5>1
          <6>. QED  BY <6>1, <6>2, <6>3
        <5>. QED  BY <3>2, <5>2, <5>3, <5>4
      <4>. QED  BY <4>1, <4>2
    <3>. QED  BY <3>1, <3>4
  <2>. HIDE DEF R
  <2>. QED  BY <1>2, <2>1, <2>2, UpTo
<1>7. \A k \in 0 .. N : Over(k)
  BY <1>6
<1>. HIDE DEF Over, R
<1>8. \A j, k \in 0 .. N : j <= k => E[j] <= E[k]
  <2>1. ASSUME NEW j \in 0 .. N, NEW k \in 0 .. N, j <= k PROVE E[j] <= E[k]
    <3>1. j \in 0 .. k /\ Over(k)
      BY <1>7, <2>1
    <3>. QED  BY <3>1, <1>3 DEF Over
  <2>. QED  BY <2>1
<1>9. ASSUME NEW k \in 1 .. N, NEW j \in 1 .. Len(s[k]) PROVE S[E[k - 1] + j] = s[k][j]
  <2>1. PICK m \in 0 .. N : k = m + 1
    <3>1. k - 1 \in 0 .. N /\ k = (k - 1) + 1
      BY <1>2
    <3>. QED  BY <3>1
  <2>2. /\ E[m] = Len(f[m]) /\ Len(f[m]) \in Nat /\ Len(f[k]) = Len(f[m]) + Len(s[k])
        /\ f[k][Len(f[m]) + j] = s[k][j]
    BY <1>4, <1>5, <2>1
  <2>3. k \in 0 .. N /\ N \in 0 .. N /\ Over(N)
    BY <1>2, <1>7
  <2>4. Len(f[m]) + j \in 1 .. Len(f[k]) /\ k - 1 = m
    <3>1. k - 1 = m
      BY <1>2, <2>1
    <3>2. Len(s[k]) \in Nat /\ j \in 1 .. Len(s[k])
      BY <1>2
    <3>. QED  BY <2>2, <3>1, <3>2
  <2>5. S[Len(f[m]) + j] = f[k][Len(f[m]) + j]
    BY <1>1, <2>3, <2>4 DEF Over
  <2>. QED  BY <2>2, <2>4, <2>5
<1>10. ASSUME NEW k \in 0 .. N PROVE FlattenSeq(SubSeq(s, 1, k)) = SubSeq(S, 1, E[k])
  <2>1. f[k] \in Seq(V) /\ S \in Seq(V) /\ E[k] = Len(f[k]) /\ FlattenSeq(SubSeq(s, 1, k)) = f[k]
    BY <1>1, <1>2, <1>3
  <2>2. Len(f[k]) <= Len(S) /\ \A i \in 1 .. Len(f[k]) : S[i] = f[k][i]
    BY <1>1, <1>2, <1>7 DEF Over
  <2>3. f[k] = SubSeq(S, 1, Len(f[k]))
    BY <2>1, <2>2
  <2>. QED  BY <2>1, <2>3
<1>11. /\ E \in [0 .. N -> Nat] /\ E[0] = 0 /\ E[N] = Len(S)
       /\ \A k \in 1 .. N : E[k] = E[k - 1] + Len(s[k])
  <2>1. E = [k \in 0 .. N |-> Len(FlattenSeq(SubSeq(s, 1, k)))]
    BY DEF E, Ends, N
  <2>2. E \in [0 .. N -> Nat]
    <3>1. \A k \in 0 .. N : Len(FlattenSeq(SubSeq(s, 1, k))) \in Nat
      BY <1>1, <1>3
    <3>. QED  BY <2>1, <3>1
  <2>3. E[0] = 0 /\ E[N] = Len(S)
    BY <1>1, <1>2, <1>3
  <2>4. \A k \in 1 .. N : E[k] = E[k - 1] + Len(s[k])
    <3>1. ASSUME NEW k \in 1 .. N PROVE E[k] = E[k - 1] + Len(s[k])
      <4>1. PICK m \in 0 .. N : m = k - 1 /\ k = m + 1
        <5>1. k - 1 \in 0 .. N /\ k = (k - 1) + 1
          BY <1>2
        <5>. QED  BY <5>1
      <4>2. Len(f[k]) = Len(f[m]) + Len(s[k]) /\ E[k] = Len(f[k]) /\ E[m] = Len(f[m])
        BY <1>4, <1>5, <4>1
      <4>. QED  BY <4>1, <4>2
    <3>. QED  BY <3>1
  <2>. QED  BY <2>2, <2>3, <2>4
<1>12. S \in Seq(V)
  BY <1>1, <1>2
<1>13. \A k \in 1 .. N : \A j \in 1 .. Len(s[k]) : S[E[k - 1] + j] = s[k][j]
  BY <1>9
<1>14. \A k \in 0 .. N : FlattenSeq(SubSeq(s, 1, k)) = SubSeq(S, 1, E[k])
  BY <1>10
<1>. QED  BY <1>8, <1>11, <1>12, <1>13, <1>14, Zenon DEF Laid, N, E, S

-----------------------------------------------------------------------------
(* What garbling a character changes.                                      *)

\* A word as it may arrive once a chunk has ended inside a character.
Seen(c, w) == IF c /\ w \in {"e1", "e2"} THEN "?" ELSE w
Alike(c, x, y) == Len(x) = Len(y) /\ \A i \in 1 .. Len(x) : Seen(c, x[i]) = Seen(c, y[i])

\* Everything is like itself.
LEMMA AlikeSelf == ASSUME NEW c, NEW x PROVE Alike(c, x, x)
BY DEF Alike

\* Without a cut, alike is equal.
LEMMA AlikeExact ==
  ASSUME NEW V, NEW x \in Seq(V), NEW y \in Seq(V), Alike(FALSE, x, y)
  PROVE  x = y
BY DEF Alike, Seen

\* A cut makes nothing unlike that was alike.
LEMMA AlikeLater ==
  ASSUME NEW c \in BOOLEAN, NEW d \in BOOLEAN, c => d, NEW x, NEW y, Alike(c, x, y)
  PROVE  Alike(d, x, y)
<1>1. CASE c = d
  BY <1>1
<1>2. CASE ~c /\ d
  BY <1>2 DEF Alike, Seen
<1>. QED  BY <1>1, <1>2

\* It is symmetric and transitive.
LEMMA AlikeBack == ASSUME NEW c, NEW x, NEW y, Alike(c, x, y) PROVE Alike(c, y, x)
BY DEF Alike

\* What is like the same is alike.
LEMMA AlikeOver ==
  ASSUME NEW c, NEW x, NEW y, NEW z, Alike(c, x, y), Alike(c, y, z)
  PROVE  Alike(c, x, z)
BY DEF Alike

\* It goes through concatenation,
LEMMA AlikeConcat ==
  ASSUME NEW c, NEW V, NEW x \in Seq(V), NEW y \in Seq(V), NEW u \in Seq(V), NEW v \in Seq(V),
         Alike(c, x, y), Alike(c, u, v)
  PROVE  Alike(c, x \o u, y \o v)
<1>. DEFINE K == Len(x)
            L == Len(u)
<1>1. K \in Nat /\ L \in Nat /\ Len(y) = K /\ Len(v) = L
  BY DEF Alike
<1>2. /\ Len(x \o u) = K + L /\ Len(y \o v) = K + L
      /\ \A i \in 1 .. K : (x \o u)[i] = x[i] /\ (y \o v)[i] = y[i]
      /\ \A j \in 1 .. L : (x \o u)[K + j] = u[j] /\ (y \o v)[K + j] = v[j]
  <2>1. /\ Len(x \o u) = Len(x) + Len(u)
        /\ \A i \in 1 .. Len(x) : (x \o u)[i] = x[i]
        /\ \A j \in 1 .. Len(u) : (x \o u)[Len(x) + j] = u[j]
    BY ConcatKeeps
  <2>2. /\ Len(y \o v) = Len(y) + Len(v)
        /\ \A i \in 1 .. Len(y) : (y \o v)[i] = y[i]
        /\ \A j \in 1 .. Len(v) : (y \o v)[Len(y) + j] = v[j]
    BY ConcatKeeps
  <2>. QED  BY <1>1, <2>1, <2>2
<1>3. /\ \A i \in 1 .. K : Seen(c, x[i]) = Seen(c, y[i])
      /\ \A j \in 1 .. L : Seen(c, u[j]) = Seen(c, v[j])
  BY DEF Alike
<1>. HIDE DEF K, L
<1>4. ASSUME NEW i \in 1 .. K + L PROVE Seen(c, (x \o u)[i]) = Seen(c, (y \o v)[i])
  <2>1. CASE i \in 1 .. K
    BY <1>2, <1>3, <2>1
  <2>2. CASE i \notin 1 .. K
    <3>1. i - K \in 1 .. L /\ i = K + (i - K)
      BY <1>1, <2>2
    <3>2. PICK j \in 1 .. L : i = K + j
      BY <3>1
    <3>. QED  BY <1>2, <1>3, <3>2
  <2>. QED  BY <2>1, <2>2
<1>. QED  BY <1>2, <1>4 DEF Alike

\* and to what lies between two places.
LEMMA AlikeSub ==
  ASSUME NEW c, NEW V, NEW x \in Seq(V), NEW y \in Seq(V), Alike(c, x, y),
         NEW a \in Nat, NEW b \in Nat, 1 <= a, b <= Len(x)
  PROVE  Alike(c, SubSeq(x, a, b), SubSeq(y, a, b))
<1>1. Len(y) = Len(x) /\ \A i \in 1 .. Len(x) : Seen(c, x[i]) = Seen(c, y[i])
  BY DEF Alike
<1>2. /\ Len(SubSeq(x, a, b)) = Len(SubSeq(y, a, b))
      /\ \A i \in 1 .. Len(SubSeq(x, a, b)) :
            /\ a + i - 1 \in 1 .. Len(x)
            /\ SubSeq(x, a, b)[i] = x[a + i - 1] /\ SubSeq(y, a, b)[i] = y[a + i - 1]
  BY <1>1
<1>. QED  BY <1>1, <1>2 DEF Alike

\* Words that are no text are never garbled, and text stays text.
LEMMA SeenIs ==
  ASSUME NEW c \in BOOLEAN, NEW v, NEW w, Seen(c, v) = Seen(c, w)
  PROVE  /\ (v \notin Text \/ w \notin Text) => v = w
         /\ v \in Text <=> w \in Text
         /\ v \in Tools <=> w \in Tools
<1>1. {"e1", "e2", "?"} \subseteq Text
  BY StreamingAssumption
<1>2. v = w \/ (v \in {"e1", "e2", "?"} /\ w \in {"e1", "e2", "?"})
  <2>. DEFINE a == Seen(c, v)
              b == Seen(c, w)
  <2>1. a = v \/ (v \in {"e1", "e2"} /\ a = "?")
    <3>1. CASE c
      BY <3>1 DEF Seen
    <3>2. CASE ~c
      BY <3>2 DEF Seen
    <3>. QED  BY <3>1, <3>2
  <2>2. b = w \/ (w \in {"e1", "e2"} /\ b = "?")
    <3>1. CASE c
      BY <3>1 DEF Seen
    <3>2. CASE ~c
      BY <3>2 DEF Seen
    <3>. QED  BY <3>1, <3>2
  <2>3. a = b
    OBVIOUS
  <2>. HIDE DEF a, b
  <2>. QED  BY <2>1, <2>2, <2>3
<1>3. Text \intersect Tools = {}
  BY StreamingAssumption
<1>. QED  BY <1>1, <1>2, <1>3

-----------------------------------------------------------------------------
(* The words of one kind.                                                  *)

\* What Only gathers of them, one by one.
Sieve(data, kind) == [i \in DOMAIN data |-> IF data[i] \in kind THEN <<data[i]>> ELSE <<>>]

\* The sieve of a sequence of words, in its types; Only is what it flattens to.
LEMMA SieveType ==
  ASSUME NEW data \in Seq(Words), NEW kind
  PROVE  /\ Sieve(data, kind) \in Seq(Seq(Words)) /\ Len(Sieve(data, kind)) = Len(data)
         /\ \A i \in 1 .. Len(data) :
               Sieve(data, kind)[i] = IF data[i] \in kind THEN <<data[i]>> ELSE <<>>
         /\ Only(data, kind) = FlattenSeq(Sieve(data, kind))
         /\ Only(data, kind) \in Seq(Words)
<1>1. DOMAIN data = 1 .. Len(data) /\ Len(data) \in Nat /\ \A i \in 1 .. Len(data) : data[i] \in Words
  OBVIOUS
<1>2. \A w \in Words : <<w>> \in Seq(Words)
  OBVIOUS
<1>3. <<>> \in Seq(Words)
  OBVIOUS
<1>4. Sieve(data, kind) \in [1 .. Len(data) -> Seq(Words)]
  BY <1>1, <1>2, <1>3 DEF Sieve
<1>5. Sieve(data, kind) \in Seq(Seq(Words)) /\ Len(Sieve(data, kind)) = Len(data)
  BY <1>1, <1>4
<1>6. Only(data, kind) = FlattenSeq(Sieve(data, kind))
  BY DEF Only, Sieve
<1>7. FlattenSeq(Sieve(data, kind)) \in Seq(Words)
  BY <1>5, LaidOut
<1>8. \A i \in 1 .. Len(data) :
         Sieve(data, kind)[i] = IF data[i] \in kind THEN <<data[i]>> ELSE <<>>
  BY <1>1 DEF Sieve
<1>. QED  BY <1>5, <1>6, <1>7, <1>8

\* From alike data alike words are gathered.
LEMMA OnlyAlike ==
  ASSUME NEW c, NEW x \in Seq(Words), NEW y \in Seq(Words), NEW kind, Len(x) = Len(y),
         \A i \in 1 .. Len(x) : /\ x[i] \in kind <=> y[i] \in kind
                                /\ x[i] \in kind => Seen(c, x[i]) = Seen(c, y[i])
  PROVE  Alike(c, Only(x, kind), Only(y, kind))
<1>. DEFINE N == Len(x)
            s == Sieve(x, kind)
            t == Sieve(y, kind)
<1>1. /\ N \in Nat /\ s \in Seq(Seq(Words)) /\ t \in Seq(Seq(Words)) /\ Len(s) = N /\ Len(t) = N
      /\ Only(x, kind) = FlattenSeq(s) /\ Only(y, kind) = FlattenSeq(t)
      /\ \A i \in 1 .. N : s[i] = IF x[i] \in kind THEN <<x[i]>> ELSE <<>>
      /\ \A i \in 1 .. N : t[i] = IF y[i] \in kind THEN <<y[i]>> ELSE <<>>
  <2>1. /\ s \in Seq(Seq(Words)) /\ Len(s) = Len(x) /\ Only(x, kind) = FlattenSeq(s)
        /\ \A i \in 1 .. Len(x) : s[i] = IF x[i] \in kind THEN <<x[i]>> ELSE <<>>
    BY SieveType
  <2>2. /\ t \in Seq(Seq(Words)) /\ Len(t) = Len(y) /\ Only(y, kind) = FlattenSeq(t)
        /\ \A i \in 1 .. Len(y) : t[i] = IF y[i] \in kind THEN <<y[i]>> ELSE <<>>
    BY SieveType
  <2>3. N \in Nat
    OBVIOUS
  <2>. HIDE DEF s, t
  <2>. QED  BY <2>1, <2>2, <2>3
<1>2. \A i \in 1 .. N : s[i] \in Seq(Words) /\ t[i] \in Seq(Words)
  BY <1>1
<1>. HIDE DEF s, t
<1>3. PICK f \in [0 .. N -> Seq(Words)] :
        /\ f[0] = <<>> /\ FlattenSeq(s) = f[N]
        /\ \A n \in 0 .. N - 1 : f[n + 1] = f[n] \o s[n + 1]
  <2>1. PICK f \in [0 .. Len(s) -> Seq(Words)] :
          /\ f[0] = <<>>
          /\ \A n \in 0 .. Len(s) - 1 : f[n + 1] = f[n] \o s[n + 1]
          /\ FlattenSeq(s) = f[Len(s)]
    BY <1>1, FlattenSteps
  <2>. QED  BY <1>1, <2>1
<1>4. PICK g \in [0 .. N -> Seq(Words)] :
        /\ g[0] = <<>> /\ FlattenSeq(t) = g[N]
        /\ \A n \in 0 .. N - 1 : g[n + 1] = g[n] \o t[n + 1]
  <2>1. PICK g \in [0 .. Len(t) -> Seq(Words)] :
          /\ g[0] = <<>>
          /\ \A n \in 0 .. Len(t) - 1 : g[n + 1] = g[n] \o t[n + 1]
          /\ FlattenSeq(t) = g[Len(t)]
    BY <1>1, FlattenSteps
  <2>. QED  BY <1>1, <2>1
<1>5. \A i \in 1 .. N : Alike(c, s[i], t[i])
  <2>1. ASSUME NEW i \in 1 .. N PROVE Alike(c, s[i], t[i])
    <3>1. CASE x[i] \in kind
      <4>1. s[i] = <<x[i]>> /\ t[i] = <<y[i]>> /\ Seen(c, x[i]) = Seen(c, y[i])
        BY <1>1, <3>1
      <4>. QED  BY <4>1 DEF Alike
    <3>2. CASE x[i] \notin kind
      <4>1. s[i] = <<>> /\ t[i] = <<>>
        BY <1>1, <3>2
      <4>. QED  BY <4>1, AlikeSelf
    <3>. QED  BY <3>1, <3>2
  <2>. QED  BY <2>1
<1>. HIDE DEF N
<1>. DEFINE S == {n \in 0 .. N : Alike(c, f[n], g[n])}
<1>6. 0 \in S
  BY <1>1, <1>3, <1>4, AlikeSelf
<1>7. ASSUME NEW n \in 0 .. N - 1, n \in S PROVE n + 1 \in S
  <2>1. n + 1 \in 1 .. N /\ n + 1 \in 0 .. N /\ n \in 0 .. N
    BY <1>1
  <2>2. /\ f[n] \in Seq(Words) /\ g[n] \in Seq(Words)
        /\ s[n + 1] \in Seq(Words) /\ t[n + 1] \in Seq(Words)
        /\ Alike(c, f[n], g[n]) /\ Alike(c, s[n + 1], t[n + 1])
    BY <1>2, <1>3, <1>4, <1>5, <1>7, <2>1
  <2>3. Alike(c, f[n] \o s[n + 1], g[n] \o t[n + 1])
    BY <2>2, AlikeConcat
  <2>. QED  BY <1>3, <1>4, <2>1, <2>3
<1>8. \A n \in 0 .. N : n \in S
  <2>. HIDE DEF S
  <2>. QED  BY <1>1, <1>6, <1>7, UpTo
<1>9. N \in 0 .. N
  BY <1>1
<1>. QED  BY <1>1, <1>3, <1>4, <1>8, <1>9

\* So what is read of garbled data is garbled text and the same pieces of calls.
LEMMA SpokenAlike ==
  ASSUME NEW c \in BOOLEAN, NEW x \in Seq(Words), NEW y \in Seq(Words), Alike(c, x, y)
  PROVE  /\ ToolPart(x) = ToolPart(y) /\ ToolPart(x) \in Seq(Words)
         /\ Alike(c, Spoken(x), Spoken(y)) /\ Spoken(x) \in Seq(Words) /\ Spoken(y) \in Seq(Words)
<1>1. Len(x) = Len(y) /\ \A i \in 1 .. Len(x) : Seen(c, x[i]) = Seen(c, y[i])
  BY DEF Alike
<1>2. \A i \in 1 .. Len(x) : x[i] \in Text <=> y[i] \in Text
  BY <1>1, SeenIs
<1>3. \A i \in 1 .. Len(x) : x[i] \in Tools <=> y[i] \in Tools
  BY <1>1, SeenIs
<1>4. \A i \in 1 .. Len(x) : x[i] \in Tools => x[i] = y[i]
  <2>1. Text \intersect Tools = {}
    BY StreamingAssumption
  <2>2. ASSUME NEW i \in 1 .. Len(x), x[i] \in Tools PROVE x[i] = y[i]
    <3>1. x[i] \notin Text /\ Seen(c, x[i]) = Seen(c, y[i])
      BY <1>1, <2>1, <2>2
    <3>. QED  BY <3>1, SeenIs
  <2>. QED  BY <2>2
<1>5. /\ Only(x, Tools) \in Seq(Words) /\ Only(y, Tools) \in Seq(Words)
      /\ Only(x, Text) \in Seq(Words) /\ Only(y, Text) \in Seq(Words)
  BY SieveType
<1>6. Alike(FALSE, Only(x, Tools), Only(y, Tools))
  <2>1. \A i \in 1 .. Len(x) : /\ x[i] \in Tools <=> y[i] \in Tools
                               /\ x[i] \in Tools => Seen(FALSE, x[i]) = Seen(FALSE, y[i])
    BY <1>3, <1>4
  <2>. QED  BY <1>1, <2>1, OnlyAlike
<1>7. Only(x, Tools) = Only(y, Tools)
  BY <1>5, <1>6, AlikeExact
<1>8. Alike(c, Only(x, Text), Only(y, Text))
  <2>1. \A i \in 1 .. Len(x) : /\ x[i] \in Text <=> y[i] \in Text
                               /\ x[i] \in Text => Seen(c, x[i]) = Seen(c, y[i])
    BY <1>1, <1>2
  <2>. QED  BY <1>1, <2>1, OnlyAlike
<1>9. <<>> \in Seq(Words) /\ Alike(c, <<>>, <<>>)
  BY AlikeSelf
<1>. QED  BY <1>5, <1>7, <1>8, <1>9 DEF ToolPart, Spoken

\* Data without words of a kind.
LEMMA OnlyNone ==
  ASSUME NEW x \in Seq(Words), Len(x) = 1, NEW kind, x[1] \notin kind
  PROVE  Only(x, kind) = <<>>
<1>. DEFINE s == Sieve(x, kind)
<1>1. s \in Seq(Seq(Words)) /\ Len(s) = 1 /\ s[1] = <<>> /\ Only(x, kind) = FlattenSeq(s)
  BY SieveType
<1>. HIDE DEF s
<1>2. Laid(FlattenSeq(s), s) /\ FlattenSeq(s) \in Seq(Words)
  BY <1>1, LaidOut
<1>3. Ends(s)[0] = 0 /\ Ends(s)[1] = Ends(s)[0] + Len(s[1]) /\ Ends(s)[1] = Len(FlattenSeq(s))
  <2>1. 1 \in 1 .. Len(s) /\ 1 - 1 = 0
    BY <1>1
  <2>. QED  BY <1>1, <1>2, <2>1 DEF Laid
<1>4. Len(FlattenSeq(s)) = 0
  BY <1>1, <1>3
<1>. QED  BY <1>1, <1>2, <1>4

\* Half a character is garbled, everything else is decoded as it is.
LEMMA LossyIs ==
  ASSUME NEW chunk \in Seq(Words)
  PROVE  /\ Lossy(chunk) \in Seq(Words) /\ Alike(TRUE, Lossy(chunk), chunk)
         /\ Whole(chunk) => Lossy(chunk) = chunk
<1>1. DOMAIN chunk = 1 .. Len(chunk) /\ Len(chunk) \in Nat
  OBVIOUS
<1>2. "?" \in Words
  BY StreamingAssumption
<1>3. Lossy(chunk) \in [1 .. Len(chunk) -> Words]
  BY <1>1, <1>2 DEF Lossy
<1>4. Lossy(chunk) \in Seq(Words) /\ Len(Lossy(chunk)) = Len(chunk)
  BY <1>1, <1>3
<1>. DEFINE Half(i) == \/ chunk[i] = "e1" /\ ~(i < Len(chunk) /\ chunk[i + 1] = "e2")
                       \/ chunk[i] = "e2" /\ ~(i > 1 /\ chunk[i - 1] = "e1")
<1>half. \A i \in 1 .. Len(chunk) : Lossy(chunk)[i] = IF Half(i) THEN "?" ELSE chunk[i]
  <2>1. Lossy(chunk) = [i \in DOMAIN chunk |-> IF Half(i) THEN "?" ELSE chunk[i]]
    BY DEF Lossy
  <2>. HIDE DEF Half
  <2>. QED  BY <1>1, <2>1
<1>5. \A i \in 1 .. Len(chunk) :
         Lossy(chunk)[i] = chunk[i] \/ (Lossy(chunk)[i] = "?" /\ chunk[i] \in {"e1", "e2"})
  <2>1. \A i \in 1 .. Len(chunk) : Half(i) => chunk[i] \in {"e1", "e2"}
    OBVIOUS
  <2>. HIDE DEF Half
  <2>2. ASSUME NEW i \in 1 .. Len(chunk)
        PROVE  Lossy(chunk)[i] = chunk[i] \/ (Lossy(chunk)[i] = "?" /\ chunk[i] \in {"e1", "e2"})
    <3>1. Lossy(chunk)[i] = IF Half(i) THEN "?" ELSE chunk[i]
      BY <1>half
    <3>2. CASE Half(i)
      BY <2>1, <3>1, <3>2, Zenon
    <3>3. CASE ~Half(i)
      BY <3>1, <3>3
    <3>. QED  BY <3>2, <3>3
  <2>. QED  BY <2>2
<1>6. Alike(TRUE, Lossy(chunk), chunk)
  BY <1>4, <1>5 DEF Alike, Seen
<1>7. ASSUME Whole(chunk), NEW i \in 1 .. Len(chunk) PROVE Lossy(chunk)[i] = chunk[i]
  <2>1. ~Half(i)
    BY <1>1, <1>7 DEF Whole
  <2>2. Lossy(chunk)[i] = IF Half(i) THEN "?" ELSE chunk[i]
    BY <1>half
  <2>. QED  BY <2>1, <2>2, Zenon
<1>8. Whole(chunk) => Lossy(chunk) = chunk
  BY <1>4, <1>7
<1>. QED  BY <1>4, <1>6, <1>8

\* FlattenSeq goes through concatenation.
LEMMA FlattenConcat ==
  ASSUME NEW V, NEW s \in Seq(Seq(V)), NEW t \in Seq(Seq(V))
  PROVE  FlattenSeq(s \o t) = FlattenSeq(s) \o FlattenSeq(t)
<1>. DEFINE u == s \o t
            K == Len(s)
            L == Len(t)
<1>1. /\ K \in Nat /\ L \in Nat /\ u \in Seq(Seq(V)) /\ Len(u) = K + L
      /\ \A i \in 1 .. L : u[K + i] = t[i] /\ t[i] \in Seq(V)
      /\ SubSeq(u, 1, K) = s
  OBVIOUS
<1>. HIDE DEF u, K, L
<1>2. PICK f \in [0 .. K + L -> Seq(V)] :
        /\ \A n \in 0 .. (K + L) - 1 : f[n + 1] = f[n] \o u[n + 1]
        /\ \A k \in 0 .. K + L : FlattenSeq(SubSeq(u, 1, k)) = f[k]
        /\ FlattenSeq(u) = f[K + L]
  <2>1. PICK f \in [0 .. Len(u) -> Seq(V)] :
            /\ f[0] = <<>>
            /\ \A n \in 0 .. Len(u) - 1 : f[n + 1] = f[n] \o u[n + 1]
            /\ \A k \in 0 .. Len(u) : FlattenSeq(SubSeq(u, 1, k)) = f[k]
            /\ FlattenSeq(u) = f[Len(u)]
    BY <1>1, FlattenRun
  <2>. QED  BY <1>1, <2>1
<1>3. PICK g \in [0 .. L -> Seq(V)] :
        /\ g[0] = <<>> /\ FlattenSeq(t) = g[L]
        /\ \A n \in 0 .. L - 1 : g[n + 1] = g[n] \o t[n + 1]
  <2>1. PICK g \in [0 .. Len(t) -> Seq(V)] :
          /\ g[0] = <<>>
          /\ \A n \in 0 .. Len(t) - 1 : g[n + 1] = g[n] \o t[n + 1]
          /\ FlattenSeq(t) = g[Len(t)]
    BY FlattenSteps
  <2>. QED  BY <2>1 DEF L
<1>. DEFINE a == f[K]
            S == {n \in 0 .. L : f[K + n] = a \o g[n]}
<1>4. a \in Seq(V) /\ FlattenSeq(s) = a
  <2>1. K \in 0 .. K + L
    BY <1>1
  <2>. QED  BY <1>1, <1>2, <2>1
<1>5. 0 \in S
  <2>1. K + 0 = K /\ 0 \in 0 .. L
    BY <1>1
  <2>2. a \o g[0] = a
    BY <1>3, <1>4, ConcatEmptySeq
  <2>. QED  BY <2>1, <2>2
<1>6. ASSUME NEW n \in 0 .. L - 1, n \in S PROVE n + 1 \in S
  <2>1. n + 1 \in 1 .. L /\ n + 1 \in 0 .. L /\ n \in 0 .. L /\ K + n \in 0 .. (K + L) - 1
        /\ K + (n + 1) = (K + n) + 1
    BY <1>1
  <2>2. f[(K + n) + 1] = f[K + n] \o u[(K + n) + 1]
    BY <1>2, <2>1
  <2>3. u[K + (n + 1)] = t[n + 1] /\ t[n + 1] \in Seq(V) /\ g[n] \in Seq(V)
    BY <1>1, <1>3, <2>1
  <2>4. f[K + (n + 1)] = (a \o g[n]) \o t[n + 1]
    BY <1>6, <2>1, <2>2, <2>3
  <2>5. (a \o g[n]) \o t[n + 1] = a \o (g[n] \o t[n + 1])
    <3>1. \A v, w \in Seq(V) : (a \o v) \o w = a \o (v \o w)
      <4>. HIDE DEF a
      <4>. QED  BY <1>4, ConcatAssociative
    <3>. HIDE DEF a
    <3>. QED  BY <2>3, <3>1
  <2>6. g[n + 1] = g[n] \o t[n + 1]
    BY <1>3
  <2>. QED  BY <2>1, <2>4, <2>5, <2>6
<1>7. \A n \in 0 .. L : n \in S
  <2>. HIDE DEF S
  <2>. QED  BY <1>1, <1>5, <1>6, UpTo
<1>8. f[K + L] = a \o g[L]
  <2>1. L \in 0 .. L
    BY <1>1
  <2>. QED  BY <1>7, <2>1
<1>. QED  BY <1>2, <1>3, <1>4, <1>8 DEF u

\* FlattenSeq of one more.
LEMMA FlattenNext ==
  ASSUME NEW V, NEW s \in Seq(Seq(V)), NEW k \in 1 .. Len(s), NEW m \in 0 .. Len(s), k = m + 1
  PROVE  /\ FlattenSeq(SubSeq(s, 1, k)) = FlattenSeq(SubSeq(s, 1, m)) \o s[k]
         /\ FlattenSeq(SubSeq(s, 1, m)) \in Seq(V) /\ s[k] \in Seq(V)
<1>1. PICK f \in [0 .. Len(s) -> Seq(V)] :
            /\ f[0] = <<>>
            /\ \A n \in 0 .. Len(s) - 1 : f[n + 1] = f[n] \o s[n + 1]
            /\ \A j \in 0 .. Len(s) : FlattenSeq(SubSeq(s, 1, j)) = f[j]
            /\ FlattenSeq(s) = f[Len(s)]
  BY FlattenRun
<1>2. m \in 0 .. Len(s) - 1 /\ k \in 0 .. Len(s) /\ s[k] \in Seq(V)
  OBVIOUS
<1>3. f[m + 1] = f[m] \o s[m + 1] /\ f[m] \in Seq(V)
  BY <1>1, <1>2
<1>4. FlattenSeq(SubSeq(s, 1, k)) = f[k] /\ FlattenSeq(SubSeq(s, 1, m)) = f[m]
  BY <1>1, <1>2
<1>. QED  BY <1>2, <1>3, <1>4

-----------------------------------------------------------------------------
(* A part of a sequence as it has arrived, and the first newline in it.    *)

\* x is what has arrived of W between the places p and n.
Window(c, x, W, p, n) ==
    x \in Seq(Words) /\ Len(x) = n - p /\ \A i \in 1 .. Len(x) : Seen(c, x[i]) = Seen(c, W[p + i])

\* Between a place and itself nothing has arrived.
LEMMA WindowEmpty ==
  ASSUME NEW c, NEW W, NEW p \in Nat PROVE Window(c, <<>>, W, p, p)
BY DEF Window

\* A cut makes no window false.
LEMMA WindowLater ==
  ASSUME NEW c \in BOOLEAN, NEW d \in BOOLEAN, c => d, NEW x, NEW W, NEW p, NEW n, Window(c, x, W, p, n)
  PROVE  Window(d, x, W, p, n)
<1>1. CASE c = d
  BY <1>1
<1>2. CASE ~c /\ d
  BY <1>2 DEF Window, Seen
<1>. QED  BY <1>1, <1>2

\* Two windows that meet are one.
LEMMA WindowConcat ==
  ASSUME NEW c, NEW W, NEW p \in Nat, NEW n \in Nat, NEW r \in Nat, NEW x, NEW y,
         Window(c, x, W, p, n), Window(c, y, W, n, r)
  PROVE  Window(c, x \o y, W, p, r)
<1>. DEFINE K == Len(x)
            L == Len(y)
<1>0. x \in Seq(Words) /\ y \in Seq(Words) /\ Len(x) = n - p /\ Len(y) = r - n
  BY DEF Window
<1>1. K \in Nat /\ L \in Nat /\ K = n - p /\ L = r - n
  BY <1>0
<1>2. /\ x \o y \in Seq(Words) /\ Len(x \o y) = K + L
      /\ \A i \in 1 .. K : (x \o y)[i] = x[i]
      /\ \A j \in 1 .. L : (x \o y)[K + j] = y[j]
  <2>1. ASSUME NEW u \in Seq(Words), NEW v \in Seq(Words)
        PROVE  /\ u \o v \in Seq(Words) /\ Len(u \o v) = Len(u) + Len(v)
               /\ \A i \in 1 .. Len(u) : (u \o v)[i] = u[i]
               /\ \A j \in 1 .. Len(v) : (u \o v)[Len(u) + j] = v[j]
    BY ConcatKeeps
  <2>. QED  BY <1>0, <2>1
<1>3. /\ \A i \in 1 .. K : Seen(c, x[i]) = Seen(c, W[p + i])
      /\ \A j \in 1 .. L : Seen(c, y[j]) = Seen(c, W[n + j])
  BY DEF Window
<1>. HIDE DEF K, L
<1>4. ASSUME NEW i \in 1 .. K + L PROVE Seen(c, (x \o y)[i]) = Seen(c, W[p + i])
  <2>1. CASE i \in 1 .. K
    BY <1>2, <1>3, <2>1
  <2>2. CASE i \notin 1 .. K
    <3>1. i - K \in 1 .. L /\ i = K + (i - K)
      BY <1>1, <2>2
    <3>2. PICK j \in 1 .. L : i = K + j
      BY <3>1
    <3>3. p + i = n + j
      BY <1>1, <3>2
    <3>. QED  BY <1>2, <1>3, <3>2, <3>3
  <2>. QED  BY <2>1, <2>2
<1>5. K + L = r - p
  BY <1>1
<1>. QED  BY <1>2, <1>4, <1>5 DEF Window

\* What comes before a place of a window and after it.
LEMMA WindowSplit ==
  ASSUME NEW c, NEW W, NEW p \in Nat, NEW n \in Nat, NEW x, Window(c, x, W, p, n), NEW i \in 0 .. Len(x)
  PROVE  /\ Window(c, SubSeq(x, 1, i), W, p, p + i)
         /\ Window(c, After(x, i), W, p + i, n)
<1>1. /\ x \in Seq(Words) /\ Len(x) = n - p
      /\ \A j \in 1 .. Len(x) : Seen(c, x[j]) = Seen(c, W[p + j])
  BY DEF Window
<1>2. /\ SubSeq(x, 1, i) \in Seq(Words) /\ Len(SubSeq(x, 1, i)) = i
      /\ \A j \in 1 .. i : SubSeq(x, 1, i)[j] = x[j]
  BY <1>1
<1>3. /\ After(x, i) \in Seq(Words) /\ Len(After(x, i)) = Len(x) - i
      /\ \A j \in 1 .. Len(x) - i : After(x, i)[j] = x[i + j]
  BY <1>1 DEF After
<1>4. Window(c, SubSeq(x, 1, i), W, p, p + i)
  <2>1. i = (p + i) - p /\ \A j \in 1 .. i : j \in 1 .. Len(x)
    BY <1>1
  <2>. QED  BY <1>1, <1>2, <2>1 DEF Window
<1>5. Window(c, After(x, i), W, p + i, n)
  <2>1. Len(x) - i = n - (p + i) /\ \A j \in 1 .. Len(x) - i : i + j \in 1 .. Len(x) /\ p + (i + j) = (p + i) + j
    BY <1>1
  <2>2. \A j \in 1 .. Len(x) - i : Seen(c, x[i + j]) = Seen(c, W[(p + i) + j])
    BY <1>1, <2>1
  <2>. QED  BY <1>3, <2>1, <2>2 DEF Window
<1>. QED  BY <1>4, <1>5

\* Words that are no text have arrived as they are.
LEMMA WindowExact ==
  ASSUME NEW c \in BOOLEAN, NEW W, NEW p \in Nat, NEW n \in Nat, NEW x, Window(c, x, W, p, n),
         NEW i \in 1 .. Len(x), x[i] \notin Text \/ W[p + i] \notin Text
  PROVE  x[i] = W[p + i]
<1>1. Seen(c, x[i]) = Seen(c, W[p + i])
  BY DEF Window
<1>. QED  BY <1>1, SeenIs

\* What arrives is what was sent, or text in place of text.
LEMMA WindowText ==
  ASSUME NEW c \in BOOLEAN, NEW W, NEW p \in Nat, NEW n \in Nat, NEW x, Window(c, x, W, p, n)
  PROVE  \A i \in 1 .. Len(x) : x[i] = W[p + i] \/ (x[i] \in Text /\ W[p + i] \in Text)
<1>1. ASSUME NEW i \in 1 .. Len(x) PROVE x[i] = W[p + i] \/ (x[i] \in Text /\ W[p + i] \in Text)
  <2>1. (x[i] \notin Text \/ W[p + i] \notin Text) => x[i] = W[p + i]
    BY WindowExact
  <2>. QED  BY <2>1
<1>. QED  BY <1>1

\* The words that mark up a stream are no text, and are words.
LEMMA NotText ==
  /\ Text \cap {"nl", "data:", "event:", "[DONE]"} = {}
  /\ {"nl", "data:", "event:", "[DONE]", "", "hm", "role", "finish", "error", "e1", "e2", "?"} \subseteq Words
BY StreamingAssumption DEF Markup

\* The least of a set of naturals is its first.
LEMMA FirstIs ==
  ASSUME NEW S \in SUBSET Nat, NEW n \in S, \A m \in S : n <= m
  PROVE  First(S) = n
<1>. DEFINE Least(i) == i \in S /\ \A j \in S : i <= j
<1>1. Least(n)
  OBVIOUS
<1>2. \A i : Least(i) => i = n
  OBVIOUS
<1>3. First(S) = CHOOSE i : Least(i)
  BY DEF First
<1>. HIDE DEF Least
<1>4. Least(CHOOSE i : Least(i))
  BY <1>1
<1>. QED  BY <1>2, <1>3, <1>4

\* A newline of W is found in the window once it is in it, and only then.
LEMMA FirstNewline ==
  ASSUME NEW c \in BOOLEAN, NEW W, NEW p \in Nat, NEW n \in Nat, NEW x, Window(c, x, W, p, n),
         NEW q \in Nat, p < q, q <= n => W[q] = "nl",
         \A i \in p + 1 .. q - 1 : i <= n => W[i] # "nl"
  PROVE  /\ Newlines(x) # {} <=> q <= n
         /\ q <= n => First(Newlines(x)) = q - p
<1>1. x \in Seq(Words) /\ Len(x) = n - p
  BY DEF Window
<1>2. \A i \in 1 .. Len(x) : x[i] = "nl" <=> W[p + i] = "nl"
  <2>1. ASSUME NEW i \in 1 .. Len(x) PROVE x[i] = "nl" <=> W[p + i] = "nl"
    <3>1. (x[i] \notin Text \/ W[p + i] \notin Text) => x[i] = W[p + i]
      BY WindowExact
    <3>. QED  BY <3>1, NotText
  <2>. QED  BY <2>1
<1>3. \A i \in 1 .. Len(x) : p + i < q => x[i] # "nl"
  <2>1. ASSUME NEW i \in 1 .. Len(x), p + i < q PROVE x[i] # "nl"
    <3>1. p + i \in p + 1 .. q - 1 /\ p + i <= n
      BY <1>1, <2>1
    <3>. QED  BY <1>2, <3>1
  <2>. QED  BY <2>1
<1>4. Newlines(x) = {i \in 1 .. Len(x) : x[i] = "nl"}
  BY <1>1 DEF Newlines
<1>5. ASSUME q <= n PROVE q - p \in Newlines(x) /\ First(Newlines(x)) = q - p
  <2>1. q - p \in 1 .. Len(x) /\ p + (q - p) = q
    BY <1>1, <1>5
  <2>2. q - p \in Newlines(x)
    BY <1>2, <1>4, <1>5, <2>1
  <2>3. \A i \in Newlines(x) : q - p <= i
    BY <1>1, <1>3, <1>4
  <2>4. Newlines(x) \in SUBSET Nat
    BY <1>1, <1>4
  <2>. QED  BY <2>2, <2>3, <2>4, FirstIs
<1>6. ASSUME ~(q <= n) PROVE Newlines(x) = {}
  <2>1. \A i \in 1 .. Len(x) : p + i < q
    BY <1>1, <1>6
  <2>. QED  BY <1>3, <1>4, <2>1
<1>. QED  BY <1>5, <1>6

\* The same of two newlines in a row, where none is before them.
LEMMA FirstBreak ==
  ASSUME NEW c \in BOOLEAN, NEW W, NEW p \in Nat, NEW n \in Nat, NEW x, Window(c, x, W, p, n),
         NEW q \in Nat, p < q, q <= n => W[q] = "nl", q + 1 <= n => W[q + 1] = "nl",
         \A i \in p + 1 .. q - 1 : i <= n => W[i] # "nl"
  PROVE  /\ Breaks(x) # {} <=> q + 1 <= n
         /\ q + 1 <= n => First(Breaks(x)) = q - p
<1>1. x \in Seq(Words) /\ Len(x) = n - p
  BY DEF Window
<1>2. \A i \in 1 .. Len(x) : x[i] = "nl" <=> W[p + i] = "nl"
  <2>1. ASSUME NEW i \in 1 .. Len(x) PROVE x[i] = "nl" <=> W[p + i] = "nl"
    <3>1. (x[i] \notin Text \/ W[p + i] \notin Text) => x[i] = W[p + i]
      BY WindowExact
    <3>. QED  BY <3>1, NotText
  <2>. QED  BY <2>1
<1>3. \A i \in 1 .. Len(x) : p + i < q => x[i] # "nl"
  <2>1. ASSUME NEW i \in 1 .. Len(x), p + i < q PROVE x[i] # "nl"
    <3>1. p + i \in p + 1 .. q - 1 /\ p + i <= n
      BY <1>1, <2>1
    <3>. QED  BY <1>2, <3>1
  <2>. QED  BY <2>1
<1>4. Breaks(x) = {i \in 1 .. Len(x) : x[i] = "nl" /\ i + 1 \in 1 .. Len(x) /\ x[i + 1] = "nl"}
  BY <1>1 DEF Newlines, Breaks
<1>5. ASSUME q + 1 <= n PROVE q - p \in Breaks(x) /\ First(Breaks(x)) = q - p
  <2>1. /\ q - p \in 1 .. Len(x) /\ p + (q - p) = q
        /\ (q - p) + 1 \in 1 .. Len(x) /\ p + ((q - p) + 1) = q + 1 /\ q <= n
    BY <1>1, <1>5
  <2>2. x[q - p] = "nl" /\ x[(q - p) + 1] = "nl"
    BY <1>2, <1>5, <2>1
  <2>3. q - p \in Breaks(x)
    BY <1>4, <2>1, <2>2
  <2>4. \A i \in Breaks(x) : q - p <= i
    BY <1>1, <1>3, <1>4
  <2>5. Breaks(x) \in SUBSET Nat
    BY <1>1, <1>4
  <2>. QED  BY <2>3, <2>4, <2>5, FirstIs
<1>6. ASSUME ~(q + 1 <= n) PROVE Breaks(x) = {}
  <2>1. \A i \in 1 .. Len(x) : i + 1 \in 1 .. Len(x) => p + i < q
    BY <1>1, <1>6
  <2>. QED  BY <1>3, <1>4, <2>1
<1>. QED  BY <1>5, <1>6

-----------------------------------------------------------------------------
(* How the payloads of an answer lie in its bytes.                         *)

\* P in S, each after h symbols of prefix and before t newlines, and E where
\* they end; an error may follow.
Framed(S, E, P, h, t) ==
    /\ E \in [0 .. Len(P) -> Nat] /\ E[0] = 0 /\ E[Len(P)] <= Len(S)
    /\ \A j, k \in 0 .. Len(P) : j <= k => E[j] <= E[k]
    /\ \A m \in 0 .. Len(P) - 1 :
          /\ E[m + 1] = E[m] + h + Len(P[m + 1]) + t
          /\ \A j \in 1 .. h : S[E[m] + j] = "data:"
          /\ \A j \in 1 .. Len(P[m + 1]) : S[E[m] + h + j] = P[m + 1][j]
          /\ \A j \in 1 .. t : S[E[m] + h + Len(P[m + 1]) + j] = "nl"
    /\ \A i \in E[Len(P)] + 1 .. Len(S) : S[i] = "error"

\* Payloads are not empty, of one line, and nothing follows Done.
Clean(P) ==
    /\ P \in Seq(Seq(Words))
    /\ \A k \in 1 .. Len(P) :
          /\ P[k] # <<>> /\ "nl" \notin ToSet(P[k])
          /\ "[DONE]" \in ToSet(P[k]) => k = Len(P) /\ P[k] = Done

HeadLen == IF source = "native" THEN 0 ELSE 1
TailLen == IF source = "native" THEN 1 ELSE 2

\* What stands before and after a payload has a length, and some line end is after it.
LEMMA LensAre == HeadLen \in Nat /\ TailLen \in Nat /\ TailLen > 0
<1>1. CASE source = "native"
  BY <1>1 DEF HeadLen, TailLen
<1>2. CASE source # "native"
  BY <1>2 DEF HeadLen, TailLen
<1>. QED  BY <1>1, <1>2

\* A payload on the wire: its prefix, itself, and the ends of its lines.
LEMMA PutIs ==
  ASSUME NEW p \in Seq(Words)
  PROVE  /\ Put(p) \in Seq(Words) /\ Len(Put(p)) = HeadLen + Len(p) + TailLen
         /\ \A j \in 1 .. HeadLen : Put(p)[j] = "data:"
         /\ \A j \in 1 .. Len(p) : Put(p)[HeadLen + j] = p[j]
         /\ \A j \in 1 .. TailLen : Put(p)[HeadLen + Len(p) + j] = "nl"
<1>1. CASE source = "native"
  <2>1. Put(p) = p \o <<"nl">>
    BY <1>1 DEF Put, Ndline
  <2>2. HeadLen = 0 /\ TailLen = 1
    BY <1>1 DEF HeadLen, TailLen
  <2>3. "nl" \in Words
    BY NotText
  <2>. QED  BY <2>1, <2>2, <2>3
<1>2. CASE source # "native"
  <2>1. Put(p) = <<"data:">> \o p \o <<"nl", "nl">>
    BY <1>2 DEF Put, Sse
  <2>2. HeadLen = 1 /\ TailLen = 2
    BY <1>2 DEF HeadLen, TailLen
  <2>3. "nl" \in Words /\ "data:" \in Words
    BY NotText
  <2>. QED  BY <2>1, <2>2, <2>3
<1>. QED  BY <1>1, <1>2

\* Payloads put on the wire one after the other are framed.
LEMMA PutsFrame ==
  ASSUME NEW P \in Seq(Seq(Words)), NEW s \in Seq(Seq(Words)), Len(s) = Len(P),
         \A k \in 1 .. Len(P) : s[k] = Put(P[k])
  PROVE  Framed(FlattenSeq(s), Ends(s), P, HeadLen, TailLen)
<1>. DEFINE E == Ends(s)
            S == FlattenSeq(s)
            N == Len(P)
<1>1. Laid(S, s) /\ N \in Nat /\ Len(s) = N
  BY LaidOut
<1>. HIDE DEF E, S, N
<1>2. /\ E \in [0 .. N -> Nat] /\ E[0] = 0 /\ E[N] = Len(S)
      /\ \A k \in 1 .. N : E[k] = E[k - 1] + Len(s[k])
      /\ \A j, k \in 0 .. N : j <= k => E[j] <= E[k]
      /\ \A k \in 1 .. N : \A j \in 1 .. Len(s[k]) : S[E[k - 1] + j] = s[k][j]
  BY <1>1 DEF Laid, E
<1>3. ASSUME NEW m \in 0 .. N - 1
      PROVE  /\ E[m + 1] = E[m] + HeadLen + Len(P[m + 1]) + TailLen
             /\ \A j \in 1 .. HeadLen : S[E[m] + j] = "data:"
             /\ \A j \in 1 .. Len(P[m + 1]) : S[E[m] + HeadLen + j] = P[m + 1][j]
             /\ \A j \in 1 .. TailLen : S[E[m] + HeadLen + Len(P[m + 1]) + j] = "nl"
  <2>. DEFINE p == P[m + 1]
              u == s[m + 1]
  <2>1. m + 1 \in 1 .. N /\ (m + 1) - 1 = m /\ m \in 0 .. N
    BY <1>1
  <2>2. p \in Seq(Words) /\ u = Put(p)
    BY <2>1 DEF N
  <2>3. E[m + 1] = E[m] + Len(u) /\ \A j \in 1 .. Len(u) : S[E[m] + j] = u[j]
    BY <1>2, <2>1
  <2>. HIDE DEF p, u
  <2>4. /\ Len(u) = HeadLen + Len(p) + TailLen
        /\ \A j \in 1 .. HeadLen : u[j] = "data:"
        /\ \A j \in 1 .. Len(p) : u[HeadLen + j] = p[j]
        /\ \A j \in 1 .. TailLen : u[HeadLen + Len(p) + j] = "nl"
    BY <2>2, PutIs
  <2>5. HeadLen \in Nat /\ TailLen \in Nat /\ Len(p) \in Nat /\ E[m] \in Nat
    <3>1. Len(p) \in Nat
      BY <2>2
    <3>2. E[m] \in Nat
      BY <1>2, <2>1
    <3>. QED  BY <3>1, <3>2, LensAre
  <2>6. E[m + 1] = E[m] + HeadLen + Len(p) + TailLen
    BY <2>3, <2>4, <2>5
  <2>7. /\ \A j \in 1 .. HeadLen : j \in 1 .. Len(u)
        /\ \A j \in 1 .. Len(p) : HeadLen + j \in 1 .. Len(u) /\ E[m] + HeadLen + j = E[m] + (HeadLen + j)
        /\ \A j \in 1 .. TailLen : /\ HeadLen + Len(p) + j \in 1 .. Len(u)
                                   /\ E[m] + HeadLen + Len(p) + j = E[m] + (HeadLen + Len(p) + j)
    BY <2>4, <2>5
  <2>8. \A j \in 1 .. HeadLen : S[E[m] + j] = "data:"
    BY <2>3, <2>4, <2>7
  <2>9. \A j \in 1 .. Len(p) : S[E[m] + HeadLen + j] = p[j]
    BY <2>3, <2>4, <2>7
  <2>10. \A j \in 1 .. TailLen : S[E[m] + HeadLen + Len(p) + j] = "nl"
    BY <2>3, <2>4, <2>7
  <2>. QED  BY <2>6, <2>8, <2>9, <2>10 DEF p
<1>4. /\ E[N] <= Len(S) /\ \A i \in E[N] + 1 .. Len(S) : S[i] = "error"
  <2>1. N \in 0 .. N
    BY <1>1
  <2>2. E[N] \in Nat /\ E[N] = Len(S)
    BY <1>2, <2>1
  <2>. QED  BY <2>2
<1>. QED  BY <1>2, <1>3, <1>4 DEF Framed, N, E, S

\* What follows the last payload changes nothing before it.
LEMMA FramedError ==
  ASSUME NEW S \in Seq(Words), NEW E, NEW P \in Seq(Seq(Words)), NEW h \in Nat, NEW t \in Nat,
         Framed(S, E, P, h, t), E[Len(P)] = Len(S)
  PROVE  Framed(S \o <<"error">>, E, P, h, t)
<1>. DEFINE T == S \o <<"error">>
            N == Len(P)
            L == Len(S)
<1>0. N \in Nat /\ L \in Nat
  OBVIOUS
<1>1. Len(T) = L + 1 /\ \A i \in 1 .. L : T[i] = S[i]
  OBVIOUS
<1>2. T[L + 1] = "error"
  OBVIOUS
<1>. HIDE DEF T, N, L
<1>3. /\ E \in [0 .. N -> Nat] /\ E[0] = 0 /\ E[N] = L
      /\ \A j, k \in 0 .. N : j <= k => E[j] <= E[k]
      /\ \A m \in 0 .. N - 1 :
            /\ E[m + 1] = E[m] + h + Len(P[m + 1]) + t
            /\ \A j \in 1 .. h : S[E[m] + j] = "data:"
            /\ \A j \in 1 .. Len(P[m + 1]) : S[E[m] + h + j] = P[m + 1][j]
            /\ \A j \in 1 .. t : S[E[m] + h + Len(P[m + 1]) + j] = "nl"
  BY DEF Framed, N, L
<1>4. ASSUME NEW m \in 0 .. N - 1
      PROVE  /\ \A j \in 1 .. h : T[E[m] + j] = "data:"
             /\ \A j \in 1 .. Len(P[m + 1]) : T[E[m] + h + j] = P[m + 1][j]
             /\ \A j \in 1 .. t : T[E[m] + h + Len(P[m + 1]) + j] = "nl"
  <2>1. m + 1 \in 0 .. N /\ m \in 0 .. N /\ N \in 0 .. N /\ m + 1 <= N /\ m + 1 \in 1 .. N
    BY <1>0
  <2>2. E[m] \in Nat /\ E[m + 1] <= L /\ E[m + 1] = E[m] + h + Len(P[m + 1]) + t
    BY <1>3, <2>1
  <2>. DEFINE K == Len(P[m + 1])
  <2>3. K \in Nat
    BY <2>1 DEF N
  <2>. HIDE DEF K
  <2>4. /\ \A j \in 1 .. h : E[m] + j \in 1 .. L
        /\ \A j \in 1 .. K : E[m] + h + j \in 1 .. L
        /\ \A j \in 1 .. t : E[m] + h + K + j \in 1 .. L
    <3>. DEFINE e == E[m]
                f == E[m + 1]
    <3>1. e \in Nat /\ f <= L /\ f = e + h + K + t /\ e <= f
      BY <2>2, <2>3 DEF K
    <3>2. /\ \A j \in 1 .. h : e + j \in 1 .. L
          /\ \A j \in 1 .. K : e + h + j \in 1 .. L
          /\ \A j \in 1 .. t : e + h + K + j \in 1 .. L
      <4>. HIDE DEF e, f
      <4>. QED  BY <3>1, <2>3, <1>0
    <3>. QED  BY <3>2
  <2>5. /\ \A j \in 1 .. h : S[E[m] + j] = "data:"
        /\ \A j \in 1 .. K : S[E[m] + h + j] = P[m + 1][j]
        /\ \A j \in 1 .. t : S[E[m] + h + K + j] = "nl"
    BY <1>3 DEF K
  <2>6. /\ \A j \in 1 .. h : T[E[m] + j] = "data:"
        /\ \A j \in 1 .. K : T[E[m] + h + j] = P[m + 1][j]
        /\ \A j \in 1 .. t : T[E[m] + h + K + j] = "nl"
    BY <1>1, <2>4, <2>5
  <2>. QED  BY <2>6 DEF K
<1>5. E[N] <= Len(T) /\ \A i \in E[N] + 1 .. Len(T) : T[i] = "error"
  BY <1>0, <1>1, <1>2, <1>3
<1>. QED  BY <1>3, <1>4, <1>5 DEF Framed, N, T

\* Of two ends the later one is behind the whole next payload.
LEMMA FramedBefore ==
  ASSUME NEW S, NEW E, NEW P \in Seq(Seq(Words)), NEW h \in Nat, NEW t \in Nat, Framed(S, E, P, h, t), t > 0,
         NEW j \in 0 .. Len(P), NEW k \in 0 .. Len(P)
  PROVE  /\ E[j] < E[k] <=> j < k
         /\ E[j] <= E[k] <=> j <= k
         /\ E[j] \in Nat /\ E[k] \in Nat
<1>1. ASSUME NEW a \in 0 .. Len(P), NEW b \in 0 .. Len(P), a < b PROVE E[a] < E[b]
  <2>1. a \in 0 .. Len(P) - 1 /\ a + 1 \in 0 .. Len(P) /\ a + 1 <= b /\ a + 1 \in 1 .. Len(P)
    BY <1>1
  <2>2. E[a + 1] = E[a] + h + Len(P[a + 1]) + t /\ E[a + 1] <= E[b]
    BY <2>1 DEF Framed
  <2>3. E[a] \in Nat /\ E[b] \in Nat /\ E[a + 1] \in Nat
    BY <2>1 DEF Framed
  <2>4. Len(P[a + 1]) \in Nat
    BY <2>1
  <2>5. \A u, v, w, l \in Nat : u = v + h + l + t /\ u <= w => v < w
    OBVIOUS
  <2>. QED  BY <2>2, <2>3, <2>4, <2>5
<1>2. E[j] \in Nat /\ E[k] \in Nat
  BY DEF Framed
<1>3. j < k => E[j] < E[k]
  BY <1>1
<1>4. k < j => E[k] < E[j]
  BY <1>1
<1>. QED  BY <1>2, <1>3, <1>4

\* The next complete event of a buffer that begins where one does.
LEMMA NextEvent ==
  ASSUME NEW S, NEW E, NEW P, Clean(P), Framed(S, E, P, 1, 2), NEW c \in BOOLEAN,
         NEW d \in 0 .. Len(P), NEW m \in Nat, m <= Len(S), E[d] <= m, NEW x, Window(c, x, S, E[d], m)
  PROVE  /\ Breaks(x) # {} <=> (d < Len(P) /\ E[d + 1] <= m)
         /\ Breaks(x) # {} => First(Breaks(x)) = Len(P[d + 1]) + 2 /\ First(Breaks(x)) + 1 <= Len(x)
<1>0. P \in Seq(Seq(Words)) /\ Len(P) \in Nat /\ E[d] \in Nat /\ Len(x) = m - E[d] /\ x \in Seq(Words)
  BY DEF Clean, Framed, Window
<1>1. CASE d < Len(P)
  <2>. DEFINE L == Len(P[d + 1])
              e == E[d]
              q == e + L + 2
  <2>1. d \in 0 .. Len(P) - 1 /\ d + 1 \in 1 .. Len(P)
    BY <1>0, <1>1
  <2>2. P[d + 1] \in Seq(Words) /\ L \in Nat /\ e \in Nat /\ "nl" \notin ToSet(P[d + 1])
    BY <1>0, <2>1 DEF Clean
  <2>3. /\ E[d + 1] = e + 1 + L + 2
        /\ \A j \in 1 .. 1 : S[e + j] = "data:"
        /\ \A j \in 1 .. L : S[e + 1 + j] = P[d + 1][j]
        /\ \A j \in 1 .. 2 : S[e + 1 + L + j] = "nl"
    BY <2>1 DEF Framed
  <2>4. \A j \in 1 .. L : P[d + 1][j] # "nl"
    BY <2>2 DEF ToSet
  <2>. HIDE DEF L, e
  <2>5. S[e + 1] = "data:" /\ S[q] = "nl" /\ S[q + 1] = "nl" /\ q \in Nat /\ e < q /\ E[d + 1] = q + 1
    <3>1. q = e + 1 + L + 1 /\ q + 1 = e + 1 + L + 2 /\ q \in Nat /\ e < q
      BY <2>2
    <3>. QED  BY <2>3, <3>1
  <2>6. \A i \in e + 1 .. q - 1 : S[i] # "nl"
    <3>1. ASSUME NEW i \in e + 1 .. q - 1 PROVE S[i] # "nl"
      <4>1. CASE i = e + 1
        BY <2>5, <4>1
      <4>2. CASE i # e + 1
        <5>1. i - (e + 1) \in 1 .. L /\ i = e + 1 + (i - (e + 1))
          BY <2>2, <4>2
        <5>2. PICK j \in 1 .. L : i = e + 1 + j
          BY <5>1
        <5>. QED  BY <2>3, <2>4, <5>2
      <4>. QED  BY <4>1, <4>2
    <3>. QED  BY <3>1
  <2>. HIDE DEF q
  <2>7. Window(c, x, S, e, m)
    BY DEF e
  <2>8. /\ Breaks(x) # {} <=> q + 1 <= m
        /\ q + 1 <= m => First(Breaks(x)) = q - e
    BY <2>2, <2>5, <2>6, <2>7, FirstBreak
  <2>9. q - e = L + 2 /\ (q + 1 <= m => (q - e) + 1 <= Len(x))
    <3>1. Len(x) = m - e
      BY <1>0 DEF e
    <3>. QED  BY <3>1, <2>2 DEF q
  <2>. QED  BY <1>1, <2>5, <2>8, <2>9 DEF L
<1>2. CASE d = Len(P)
  <2>1. \A i \in E[d] + 1 .. Len(S) : S[i] = "error"
    BY <1>2 DEF Framed
  <2>2. Breaks(x) = {}
    <3>1. ASSUME NEW i \in 1 .. Len(x) PROVE x[i] # "nl"
      <4>1. E[d] + i \in E[d] + 1 .. Len(S)
        <5>1. Len(S) \in Int \/ Len(S) \notin Int
          OBVIOUS
        <5>. QED  BY <1>0, <3>1
      <4>2. S[E[d] + i] = "error"
        BY <2>1, <4>1
      <4>3. (x[i] \notin Text \/ S[E[d] + i] \notin Text) => x[i] = S[E[d] + i]
        BY <1>0, WindowExact
      <4>. QED  BY <4>2, <4>3, NotText
    <3>2. Breaks(x) \subseteq {i \in 1 .. Len(x) : x[i] = "nl"}
      BY <1>0 DEF Breaks, Newlines
    <3>. QED  BY <3>1, <3>2
  <2>. QED  BY <1>0, <1>2, <2>2
<1>. QED  BY <1>0, <1>1, <1>2

-----------------------------------------------------------------------------
(* What a script says, and in how many payloads.                           *)

\* A place in a sequence of sequences is a place in one of them.
LEMMA Located ==
  ASSUME NEW V, NEW s \in Seq(Seq(V)), NEW i \in 1 .. Len(FlattenSeq(s))
  PROVE  \E m \in 0 .. Len(s) - 1 : \E j \in 1 .. Len(s[m + 1]) : i = Ends(s)[m] + j
<1>. DEFINE E == Ends(s)
            N == Len(s)
            S == {k \in 0 .. N : i <= E[k]}
<1>1. /\ N \in Nat /\ E \in [0 .. N -> Nat] /\ E[0] = 0 /\ E[N] = Len(FlattenSeq(s))
      /\ \A k \in 1 .. N : E[k] = E[k - 1] + Len(s[k]) /\ Len(s[k]) \in Nat
  <2>1. Laid(FlattenSeq(s), s)
    BY LaidOut
  <2>2. \A k \in 1 .. N : Len(s[k]) \in Nat
    OBVIOUS
  <2>3. N \in Nat
    OBVIOUS
  <2>4. E \in [0 .. N -> Nat] /\ E[0] = 0 /\ E[N] = Len(FlattenSeq(s))
    BY <2>1 DEF Laid
  <2>5. \A k \in 1 .. N : E[k] = E[k - 1] + Len(s[k])
    BY <2>1 DEF Laid
  <2>. HIDE DEF E, N
  <2>. QED  BY <2>2, <2>3, <2>4, <2>5
<1>. HIDE DEF E, N
<1>2. N \in S /\ S \in SUBSET Nat
  BY <1>1
<1>3. PICK k \in S : \A l \in S : k <= l
  <2>. HIDE DEF S
  <2>. QED  BY <1>2, LeastNatural
<1>4. k # 0 /\ k \in 1 .. N /\ i <= E[k]
  BY <1>1, <1>3
<1>5. PICK m \in 0 .. N - 1 : k = m + 1 /\ m = k - 1
  <2>1. k - 1 \in 0 .. N - 1 /\ k = (k - 1) + 1
    BY <1>1, <1>4
  <2>. QED  BY <2>1
<1>6. E[m] \in Nat /\ E[m] < i /\ E[k] = E[m] + Len(s[k]) /\ Len(s[k]) \in Nat
  <2>1. m \in 0 .. N /\ m \notin S
    BY <1>1, <1>3, <1>5
  <2>2. E[m] \in Nat /\ ~(i <= E[m])
    BY <1>1, <2>1
  <2>. QED  BY <1>1, <1>4, <1>5, <2>2
<1>7. i - E[m] \in 1 .. Len(s[k]) /\ i = E[m] + (i - E[m])
  BY <1>4, <1>6
<1>. QED  BY <1>5, <1>7 DEF N, E

Said == IF source = "relay" THEN AnthropicScripts ELSE UntypedScripts

\* What does not change: the stream's kind, and what the backend has to say.
Fed ==
    /\ source \in {"relay", "direct", "native", "tools", "reply"}
    /\ sink \in {"verbatim", "ndjson"} /\ prefix \in BOOLEAN
    /\ sink = "ndjson" => source \notin {"native", "tools"}
    /\ \/ script \in Said /\ wire = Body(script)
       \/ source \in {"direct", "native"} /\ script = <<>> /\ wire = <<"error">>

\* The events of a script are what the schema of its backend allows.
LEMMA ScriptIs ==
  ASSUME Fed
  PROVE  /\ script \in Seq(Events) /\ Len(script) \in Nat /\ DOMAIN script = 1 .. Len(script)
         /\ \A k \in 1 .. Len(script) :
               /\ script[k].type \in Words /\ script[k].data \in Seq(Words)
               /\ script[k].data # <<>> /\ "nl" \notin ToSet(script[k].data) /\ Whole(script[k].data)
               /\ source = "relay" => script[k].type \notin Text \union {"", "nl"}
               /\ source # "relay" => script[k].type = ""
               /\ source # "relay" /\ "[DONE]" \in ToSet(script[k].data)
                     => k = Len(script) /\ script[k].data = Done
<1>1. CASE script = <<>>
  BY <1>1
<1>2. CASE script # <<>>
  <2>1. script \in Said
    BY <1>2 DEF Fed
  <2>2. script \in Seq(Events)
    <3>1. CASE source = "relay"
      BY <2>1, <3>1, ScriptAssumption DEF Said
    <3>2. CASE source # "relay"
      BY <2>1, <3>2, ScriptAssumption DEF Said
    <3>. QED  BY <3>1, <3>2
  <2>3. Len(script) \in Nat /\ DOMAIN script = 1 .. Len(script)
    BY <2>2
  <2>4. ASSUME NEW k \in 1 .. Len(script)
        PROVE  /\ EventOK(script[k])
               /\ source = "relay" => script[k].type \notin Text \union {"", "nl"}
               /\ source # "relay" => script[k].type = ""
               /\ source # "relay" /\ "[DONE]" \in ToSet(script[k].data)
                     => k = Len(script) /\ script[k].data = Done
    <3>1. CASE source = "relay"
      BY <2>1, <2>3, <3>1, ScriptAssumption DEF Said
    <3>2. CASE source # "relay"
      BY <2>1, <2>3, <3>2, ScriptAssumption DEF Said
    <3>. QED  BY <3>1, <3>2
  <2>. QED  BY <2>2, <2>3, <2>4 DEF EventOK, Events
<1>. QED  BY <1>1, <1>2

\* An event of Anthropic's becomes the text of a delta, a mark or nothing.
LEMMA TranslateIs ==
  ASSUME NEW type, NEW data \in Seq(Words)
  PROVE  /\ Translate(type, data) \in Seq(Words)
         /\ Translate(type, data) \in {<<"role">>, <<"finish">>, <<>>}
            \/ (Translate(type, data) = data /\ ToSet(data) \subseteq Text)
<1>1. <<"role">> \in Seq(Words) /\ <<"finish">> \in Seq(Words) /\ <<>> \in Seq(Words)
  <2>1. "role" \in Words /\ "finish" \in Words
    BY NotText
  <2>. QED  BY <2>1
<1>2. CASE type = "message_start"
  BY <1>1, <1>2 DEF Translate
<1>3. CASE type = "content_block_delta" /\ ToSet(data) \subseteq Text
  BY <1>1, <1>3 DEF Translate
<1>4. CASE type = "message_delta"
  BY <1>1, <1>4 DEF Translate
<1>5. CASE ~(type = "message_start") /\ ~(type = "content_block_delta" /\ ToSet(data) \subseteq Text)
           /\ ~(type = "message_delta")
  <2>1. Translate(type, data) = <<>>
    BY <1>5 DEF Translate
  <2>. QED  BY <1>1, <2>1
<1>. QED  BY <1>2, <1>3, <1>4, <1>5

\* An event becomes one line at most; [DONE] is never among those the relay translates.
LEMMA ChunkedIs ==
  ASSUME Fed, NEW k \in 1 .. Len(script)
  PROVE  /\ Chunked(script[k]) \in Seq(Words) /\ "nl" \notin ToSet(Chunked(script[k]))
         /\ source = "relay" => "[DONE]" \notin ToSet(Chunked(script[k]))
         /\ source # "relay" => Chunked(script[k]) = script[k].data /\ Chunked(script[k]) # <<>>
<1>. DEFINE type == script[k].type
            data == script[k].data
<1>1. /\ data \in Seq(Words) /\ data # <<>> /\ "nl" \notin ToSet(data)
  BY ScriptIs
<1>2. CASE source = "relay"
  <2>1. Chunked(script[k]) = Translate(type, data)
    BY <1>2 DEF Chunked
  <2>. DEFINE x == Translate(type, data)
  <2>2. x \in Seq(Words) /\ (x \in {<<"role">>, <<"finish">>, <<>>} \/ (x = data /\ ToSet(data) \subseteq Text))
    <3>. HIDE DEF type, data
    <3>. QED  BY <1>1, TranslateIs
  <2>. HIDE DEF x, type, data
  <2>3. "nl" \notin ToSet(x) /\ "[DONE]" \notin ToSet(x)
    <3>1. CASE x \in {<<"role">>, <<"finish">>, <<>>}
      BY <3>1 DEF ToSet
    <3>2. CASE x = data /\ ToSet(data) \subseteq Text
      BY <3>2, NotText
    <3>. QED  BY <2>2, <3>1, <3>2
  <2>. QED  BY <1>2, <2>1, <2>2, <2>3 DEF x
<1>3. CASE source # "relay"
  <2>1. Chunked(script[k]) = data
    BY <1>3 DEF Chunked
  <2>. QED  BY <1>1, <1>3, <2>1
<1>. QED  BY <1>2, <1>3

\* The chunk of each event, if it has one, and how many there are of the first k.
Carved == [k \in DOMAIN script |->
              IF Chunked(script[k]) = <<>> THEN <<>> ELSE <<Chunked(script[k])>>]
Count == Ends(Carved)

\* Each event has one chunk or none.
LEMMA CarvedIs ==
  ASSUME Fed
  PROVE  /\ Carved \in Seq(Seq(Seq(Words))) /\ Len(Carved) = Len(script)
         /\ \A k \in 1 .. Len(script) :
               Carved[k] = IF Chunked(script[k]) = <<>> THEN <<>> ELSE <<Chunked(script[k])>>
<1>1. Len(script) \in Nat /\ DOMAIN script = 1 .. Len(script)
  BY ScriptIs
<1>2. \A k \in 1 .. Len(script) :
         Carved[k] = IF Chunked(script[k]) = <<>> THEN <<>> ELSE <<Chunked(script[k])>>
  BY <1>1 DEF Carved
<1>3. \A k \in 1 .. Len(script) : Chunked(script[k]) \in Seq(Words)
  BY ChunkedIs
<1>4. \A x \in Seq(Words) : <<x>> \in Seq(Seq(Words))
  OBVIOUS
<1>5. \A k \in 1 .. Len(script) : Carved[k] \in Seq(Seq(Words))
  <2>1. <<>> \in Seq(Seq(Words))
    OBVIOUS
  <2>. QED  BY <1>2, <1>3, <1>4, <2>1
<1>6. Carved = [k \in 1 .. Len(script) |-> Carved[k]]
  BY <1>1 DEF Carved
<1>7. Carved \in [1 .. Len(script) -> Seq(Seq(Words))]
  BY <1>5, <1>6
<1>8. Carved \in Seq(Seq(Seq(Words))) /\ Len(Carved) = Len(script)
  BY <1>1, <1>7
<1>. QED  BY <1>2, <1>8

\* The chunks of the first events are the first chunks.
LEMMA ChunksAre ==
  ASSUME Fed
  PROVE  /\ Chunks(script) = FlattenSeq(Carved) /\ Chunks(script) \in Seq(Seq(Words))
         /\ Laid(Chunks(script), Carved)
         /\ \A k \in 0 .. Len(script) : Chunks(SubSeq(script, 1, k)) = SubSeq(Chunks(script), 1, Count[k])
<1>1. script \in Seq(Events) /\ Len(script) \in Nat /\ DOMAIN script = 1 .. Len(script)
  BY ScriptIs
<1>2. /\ Carved \in Seq(Seq(Seq(Words))) /\ Len(Carved) = Len(script)
      /\ \A k \in 1 .. Len(script) :
            Carved[k] = IF Chunked(script[k]) = <<>> THEN <<>> ELSE <<Chunked(script[k])>>
  BY CarvedIs
<1>3. Chunks(script) = FlattenSeq(Carved)
  BY DEF Chunks, Carved
<1>4. FlattenSeq(Carved) \in Seq(Seq(Words)) /\ Laid(FlattenSeq(Carved), Carved)
  BY <1>2, LaidOut
<1>5. ASSUME NEW k \in 0 .. Len(script)
      PROVE  Chunks(SubSeq(script, 1, k)) = SubSeq(Chunks(script), 1, Count[k])
  <2>. DEFINE u == SubSeq(script, 1, k)
  <2>1. DOMAIN u = 1 .. k /\ \A j \in 1 .. k : u[j] = script[j] /\ j \in 1 .. Len(script)
    BY <1>1
  <2>. HIDE DEF u
  <2>2. Chunks(u) = FlattenSeq([j \in 1 .. k |-> IF Chunked(u[j]) = <<>> THEN <<>> ELSE <<Chunked(u[j])>>])
    BY <2>1 DEF Chunks
  <2>3. [j \in 1 .. k |-> IF Chunked(u[j]) = <<>> THEN <<>> ELSE <<Chunked(u[j])>>] = [j \in 1 .. k |-> Carved[j]]
    BY <1>2, <2>1
  <2>4. SubSeq(Carved, 1, k) = [j \in 1 .. k |-> Carved[j]]
    BY <1>1, <1>2
  <2>5. Chunks(u) = FlattenSeq(SubSeq(Carved, 1, k))
    BY <2>2, <2>3, <2>4
  <2>6. FlattenSeq(SubSeq(Carved, 1, k)) = SubSeq(FlattenSeq(Carved), 1, Ends(Carved)[k])
    BY <1>2, <1>4 DEF Laid
  <2>. QED  BY <1>3, <2>5, <2>6 DEF u, Count
<1>. QED  BY <1>3, <1>4, <1>5

\* How many chunks there are after one more event, and which is the last of them.
LEMMA Carving ==
  ASSUME Fed
  PROVE  /\ Count \in [0 .. Len(script) -> Nat] /\ Count[0] = 0
         /\ Count[Len(script)] = Len(Chunks(script)) /\ Len(Chunks(script)) \in Nat
         /\ \A j, k \in 0 .. Len(script) : j <= k => Count[j] <= Count[k]
         /\ \A m \in 0 .. Len(script) - 1 :
               LET x == Chunked(script[m + 1])
               IN  /\ x = <<>> => Count[m + 1] = Count[m]
                   /\ x # <<>> => Count[m + 1] = Count[m] + 1 /\ Chunks(script)[Count[m] + 1] = x
<1>1. /\ Laid(Chunks(script), Carved) /\ Len(Carved) = Len(script) /\ Chunks(script) \in Seq(Seq(Words))
      /\ Len(script) \in Nat
      /\ \A k \in 1 .. Len(script) :
            Carved[k] = IF Chunked(script[k]) = <<>> THEN <<>> ELSE <<Chunked(script[k])>>
  BY ChunksAre, CarvedIs, ScriptIs
<1>2. /\ Count \in [0 .. Len(script) -> Nat]
      /\ Count[0] = 0 /\ Count[Len(script)] = Len(Chunks(script))
      /\ \A k \in 1 .. Len(script) : Count[k] = Count[k - 1] + Len(Carved[k])
      /\ \A j, k \in 0 .. Len(script) : j <= k => Count[j] <= Count[k]
      /\ \A k \in 1 .. Len(script) :
            \A j \in 1 .. Len(Carved[k]) : Chunks(script)[Count[k - 1] + j] = Carved[k][j]
  BY <1>1 DEF Laid, Count
<1>3. ASSUME NEW m \in 0 .. Len(script) - 1
      PROVE  LET x == Chunked(script[m + 1])
             IN  /\ x = <<>> => Count[m + 1] = Count[m]
                 /\ x # <<>> => Count[m + 1] = Count[m] + 1 /\ Chunks(script)[Count[m] + 1] = x
  <2>. DEFINE x == Chunked(script[m + 1])
  <2>1. m + 1 \in 1 .. Len(script) /\ (m + 1) - 1 = m /\ m \in 0 .. Len(script)
    BY <1>1
  <2>2. /\ Count[m + 1] = Count[m] + Len(Carved[m + 1]) /\ Count[m] \in Nat
        /\ \A j \in 1 .. Len(Carved[m + 1]) : Chunks(script)[Count[m] + j] = Carved[m + 1][j]
        /\ Carved[m + 1] = IF x = <<>> THEN <<>> ELSE <<x>>
    BY <1>1, <1>2, <2>1
  <2>. HIDE DEF x
  <2>3. CASE x = <<>>
    BY <2>2, <2>3 DEF x
  <2>4. CASE x # <<>>
    <3>1. Carved[m + 1] = <<x>> /\ Len(<<x>>) = 1 /\ <<x>>[1] = x
      BY <2>2, <2>4
    <3>. QED  BY <2>2, <2>4, <3>1 DEF x
  <2>. QED  BY <2>3, <2>4 DEF x
<1>. QED  BY <1>1, <1>2, <1>3

\* Every chunk is that of an event.
LEMMA ChunkFrom ==
  ASSUME Fed, NEW i \in 1 .. Len(Chunks(script))
  PROVE  \E m \in 0 .. Len(script) - 1 :
            i = Count[m] + 1 /\ Chunked(script[m + 1]) # <<>> /\ Chunks(script)[i] = Chunked(script[m + 1])
<1>1. /\ Chunks(script) = FlattenSeq(Carved) /\ Carved \in Seq(Seq(Seq(Words)))
      /\ Len(Carved) = Len(script) /\ Len(script) \in Nat
      /\ \A k \in 1 .. Len(script) :
            Carved[k] = IF Chunked(script[k]) = <<>> THEN <<>> ELSE <<Chunked(script[k])>>
  BY ChunksAre, CarvedIs, ScriptIs
<1>2. PICK m \in 0 .. Len(script) - 1 : \E j \in 1 .. Len(Carved[m + 1]) : i = Count[m] + j
  <2>1. i \in 1 .. Len(FlattenSeq(Carved))
    BY <1>1
  <2>2. \E m \in 0 .. Len(Carved) - 1 : \E j \in 1 .. Len(Carved[m + 1]) : i = Ends(Carved)[m] + j
    BY <1>1, <2>1, Located
  <2>. QED  BY <1>1, <2>2 DEF Count
<1>3. m + 1 \in 1 .. Len(script)
  BY <1>1
<1>4. Chunked(script[m + 1]) # <<>> /\ Len(Carved[m + 1]) = 1
  <2>. DEFINE x == Chunked(script[m + 1])
  <2>1. Carved[m + 1] = IF x = <<>> THEN <<>> ELSE <<x>>
    BY <1>1, <1>3
  <2>. HIDE DEF x
  <2>. QED  BY <1>2, <2>1 DEF x
<1>5. i = Count[m] + 1
  BY <1>2, <1>4
<1>6. Chunks(script)[Count[m] + 1] = Chunked(script[m + 1])
  BY <1>4, Carving
<1>. QED  BY <1>4, <1>5, <1>6

\* Where nothing is translated every event is a chunk.
LEMMA Straight ==
  ASSUME Fed, source # "relay"
  PROVE  /\ Len(Chunks(script)) = Len(script)
         /\ \A k \in 0 .. Len(script) : Count[k] = k
         /\ \A k \in 1 .. Len(script) : Chunks(script)[k] = script[k].data
<1>1. /\ Count[0] = 0 /\ Len(script) \in Nat /\ Count[Len(script)] = Len(Chunks(script))
      /\ \A m \in 0 .. Len(script) - 1 :
               LET x == Chunked(script[m + 1])
               IN  /\ x = <<>> => Count[m + 1] = Count[m]
                   /\ x # <<>> => Count[m + 1] = Count[m] + 1 /\ Chunks(script)[Count[m] + 1] = x
  BY Carving, ScriptIs
<1>2. \A m \in 0 .. Len(script) - 1 : m + 1 \in 1 .. Len(script)
  BY <1>1
<1>3. ASSUME NEW m \in 0 .. Len(script) - 1
      PROVE  Count[m + 1] = Count[m] + 1 /\ Chunks(script)[Count[m] + 1] = script[m + 1].data
  <2>1. Chunked(script[m + 1]) = script[m + 1].data /\ Chunked(script[m + 1]) # <<>>
    BY <1>2, ChunkedIs
  <2>. QED  BY <1>1, <2>1
<1>. DEFINE S == {k \in 0 .. Len(script) : Count[k] = k}
<1>4. 0 \in S
  BY <1>1
<1>5. ASSUME NEW n \in 0 .. Len(script) - 1, n \in S PROVE n + 1 \in S
  BY <1>1, <1>3, <1>5
<1>6. \A k \in 0 .. Len(script) : k \in S
  <2>. HIDE DEF S
  <2>. QED  BY <1>1, <1>4, <1>5, UpTo
<1>7. ASSUME NEW k \in 1 .. Len(script) PROVE Chunks(script)[k] = script[k].data
  <2>1. PICK m \in 0 .. Len(script) - 1 : k = m + 1
    <3>1. k - 1 \in 0 .. Len(script) - 1 /\ k = (k - 1) + 1
      BY <1>1
    <3>. QED  BY <3>1
  <2>2. Count[m] = m
    BY <1>1, <1>6
  <2>. QED  BY <1>3, <2>1, <2>2
<1>8. Len(script) \in 0 .. Len(script)
  BY <1>1
<1>. QED  BY <1>1, <1>6, <1>7, <1>8

-----------------------------------------------------------------------------
(* The whole answer: its payloads in OpenAI's schema, and its bytes.       *)

Finish == IF source = "relay" THEN <<Done>> ELSE <<>>
Payloads == Thinking \o Chunks(script) \o Finish
Puts == [k \in DOMAIN Payloads |-> Put(Payloads[k])]
Mark == Ends(Puts)
Preface == FlattenSeq([i \in DOMAIN Thinking |-> Put(Thinking[i])])
Stream == IF source = "relay" THEN FlattenSeq(Puts) ELSE Preface \o wire

\* How much of the body the first events are.
Bodies == [i \in DOMAIN script |-> Bytes(script[i])]
BodyEnd == Ends(Bodies)

\* The payloads are the thinking message, the chunks, and the relay's own [DONE].
LEMMA PayloadsAre ==
  ASSUME Fed
  PROVE  /\ Payloads \in Seq(Seq(Words))
         /\ Len(Payloads) = Len(Thinking) + Len(Chunks(script)) + Len(Finish)
         /\ Len(Thinking) \in 0 .. 1 /\ Len(Finish) = (IF source = "relay" THEN 1 ELSE 0)
         /\ \A i \in 1 .. Len(Thinking) : Payloads[i] = <<"hm">>
         /\ \A i \in 1 .. Len(Chunks(script)) : Payloads[Len(Thinking) + i] = Chunks(script)[i]
         /\ source = "relay" => Payloads[Len(Payloads)] = Done
         /\ SubSeq(Payloads, 1, Len(Thinking)) = Thinking
<1>. DEFINE T == Thinking
            C == Chunks(script)
            F == Finish
<1>1. T \in Seq(Seq(Words)) /\ Len(T) \in 0 .. 1 /\ \A i \in 1 .. Len(T) : T[i] = <<"hm">>
  <2>1. "hm" \in Words
    BY NotText
  <2>2. <<"hm">> \in Seq(Words)
    BY <2>1
  <2>3. CASE prefix
    <3>1. T = << <<"hm">> >>
      BY <2>3 DEF Thinking
    <3>. QED  BY <2>2, <3>1
  <2>4. CASE ~prefix
    <3>1. T = <<>>
      BY <2>4 DEF Thinking
    <3>. QED  BY <3>1
  <2>. QED  BY <2>3, <2>4
<1>2. /\ F \in Seq(Seq(Words)) /\ Len(F) = (IF source = "relay" THEN 1 ELSE 0)
      /\ source = "relay" => F[1] = Done
  <2>1. "[DONE]" \in Words
    BY NotText
  <2>2. Done \in Seq(Words)
    BY <2>1 DEF Done
  <2>3. CASE source = "relay"
    <3>1. F = <<Done>>
      BY <2>3 DEF Finish
    <3>. QED  BY <2>2, <2>3, <3>1
  <2>4. CASE source # "relay"
    <3>1. F = <<>>
      BY <2>4 DEF Finish
    <3>. QED  BY <2>4, <3>1
  <2>. QED  BY <2>3, <2>4
<1>3. C \in Seq(Seq(Words))
  BY ChunksAre
<1>4. Payloads = T \o C \o F
  BY DEF Payloads
<1>. HIDE DEF T, C, F
<1>. DEFINE U == T \o C
<1>5. /\ U \in Seq(Seq(Words)) /\ Len(U) = Len(T) + Len(C)
      /\ \A i \in 1 .. Len(T) : U[i] = T[i]
      /\ \A i \in 1 .. Len(C) : U[Len(T) + i] = C[i]
  BY <1>1, <1>3
<1>. HIDE DEF U
<1>6. /\ Payloads \in Seq(Seq(Words)) /\ Len(Payloads) = Len(U) + Len(F)
      /\ \A i \in 1 .. Len(U) : Payloads[i] = U[i]
      /\ \A i \in 1 .. Len(F) : Payloads[Len(U) + i] = F[i]
  <2>1. Payloads = U \o F
    BY <1>4 DEF U
  <2>2. ASSUME NEW u \in Seq(Seq(Words)), NEW v \in Seq(Seq(Words))
        PROVE  /\ u \o v \in Seq(Seq(Words)) /\ Len(u \o v) = Len(u) + Len(v)
               /\ \A i \in 1 .. Len(u) : (u \o v)[i] = u[i]
               /\ \A j \in 1 .. Len(v) : (u \o v)[Len(u) + j] = v[j]
    BY ConcatKeeps
  <2>3. F \in Seq(Seq(Words)) /\ U \in Seq(Seq(Words))
    BY <1>2, <1>5
  <2>. QED  BY <2>1, <2>2, <2>3
<1>7. /\ \A i \in 1 .. Len(T) : i \in 1 .. Len(U)
      /\ \A i \in 1 .. Len(C) : Len(T) + i \in 1 .. Len(U)
      /\ Len(T) \in Nat /\ Len(C) \in Nat /\ Len(U) \in Nat
  <2>1. Len(T) \in Nat
    BY <1>1
  <2>2. Len(C) \in Nat
    BY <1>3
  <2>. QED  BY <2>1, <2>2, <1>5
<1>8. \A i \in 1 .. Len(T) : Payloads[i] = T[i]
  BY <1>5, <1>6, <1>7
<1>9. \A i \in 1 .. Len(C) : Payloads[Len(T) + i] = C[i]
  <2>1. \A i \in 1 .. Len(C) : U[Len(T) + i] = C[i] /\ Len(T) + i \in 1 .. Len(U)
    <3>1. \A i \in 1 .. Len(C) : Len(T) + i \in 1 .. Len(U)
      BY <1>7
    <3>2. \A i \in 1 .. Len(C) : U[Len(T) + i] = C[i]
      BY <1>5
    <3>. QED  BY <3>1, <3>2
  <2>. QED  BY <1>6, <2>1
<1>10. source = "relay" => Payloads[Len(Payloads)] = Done
  <2>1. ASSUME source = "relay" PROVE Payloads[Len(Payloads)] = Done
    <3>1. Len(F) = 1 /\ 1 \in 1 .. Len(F) /\ F[1] = Done
      BY <1>2, <2>1
    <3>. QED  BY <1>6, <3>1
  <2>. QED  BY <2>1
<1>11. SubSeq(Payloads, 1, Len(T)) = T
  <2>1. Len(T) <= Len(Payloads)
    BY <1>2, <1>5, <1>6, <1>7
  <2>. QED  BY <1>1, <1>6, <1>7, <1>8, <2>1
<1>12. Len(Payloads) = Len(T) + Len(C) + Len(F)
  BY <1>5, <1>6
<1>. QED  BY <1>1, <1>2, <1>6, <1>8, <1>9, <1>10, <1>11, <1>12 DEF T, C, F

\* Payloads are not empty, of one line, and only the last is [DONE].
LEMMA PayloadsClean ==
  ASSUME Fed
  PROVE  Clean(Payloads)
<1>. DEFINE P == Payloads
            T == Len(Thinking)
            C == Chunks(script)
            N == Len(P)
            F == Len(Finish)
<1>1. /\ P \in Seq(Seq(Words)) /\ N = T + Len(C) + F
      /\ T \in 0 .. 1 /\ F = (IF source = "relay" THEN 1 ELSE 0)
      /\ \A i \in 1 .. T : P[i] = <<"hm">>
      /\ \A i \in 1 .. Len(C) : P[T + i] = C[i]
      /\ source = "relay" => P[N] = Done
  BY PayloadsAre
<1>2. C \in Seq(Seq(Words)) /\ Len(C) \in Nat
  BY ChunksAre, Carving
<1>3. ASSUME NEW i \in 1 .. Len(C)
      PROVE  C[i] # <<>> /\ "nl" \notin ToSet(C[i]) /\ ("[DONE]" \in ToSet(C[i]) => T + i = N /\ C[i] = Done)
  <2>1. PICK m \in 0 .. Len(script) - 1 :
           i = Count[m] + 1 /\ Chunked(script[m + 1]) # <<>> /\ C[i] = Chunked(script[m + 1])
    BY <1>3, ChunkFrom
  <2>2. m + 1 \in 1 .. Len(script) /\ Len(script) \in Nat /\ m \in 0 .. Len(script)
    <3>1. Len(script) \in Nat
      BY ScriptIs
    <3>. QED  BY <3>1
  <2>3. /\ source = "relay" => "[DONE]" \notin ToSet(C[i])
        /\ source # "relay" => C[i] = script[m + 1].data
    BY <2>1, <2>2, ChunkedIs
  <2>4. ASSUME "[DONE]" \in ToSet(C[i]) PROVE T + i = N /\ C[i] = Done
    <3>1. source # "relay" /\ C[i] = script[m + 1].data
      BY <2>3, <2>4
    <3>2. m + 1 = Len(script) /\ script[m + 1].data = Done
      BY <2>2, <2>4, <3>1, ScriptIs
    <3>3. Count[m] = m /\ Len(C) = Len(script)
      BY <2>2, <3>1, Straight
    <3>4. i = Len(C)
      BY <2>1, <3>2, <3>3
    <3>5. N = T + Len(C)
      <4>1. F = 0
        BY <1>1, <3>1
      <4>2. T \in Nat
        BY <1>1
      <4>. QED  BY <1>1, <1>2, <4>1, <4>2
    <3>. HIDE DEF N, T
    <3>. QED  BY <3>1, <3>2, <3>4, <3>5
  <2>5. "nl" \notin ToSet(C[i])
    BY <2>1, <2>2, ChunkedIs
  <2>. HIDE DEF N, T
  <2>. QED  BY <2>1, <2>4, <2>5
<1>. HIDE DEF P, C, T, N, F
<1>4. ASSUME NEW k \in 1 .. N
      PROVE  P[k] # <<>> /\ "nl" \notin ToSet(P[k]) /\ ("[DONE]" \in ToSet(P[k]) => k = N /\ P[k] = Done)
  <2>1. CASE k \in 1 .. T
    <3>1. P[k] = <<"hm">>
      BY <1>1, <2>1
    <3>. QED  BY <3>1 DEF ToSet
  <2>2. CASE k \in T + 1 .. T + Len(C)
    <3>1. k - T \in 1 .. Len(C) /\ k = T + (k - T)
      BY <1>1, <1>2, <2>2
    <3>2. PICK i \in 1 .. Len(C) : k = T + i
      BY <3>1
    <3>3. P[k] = C[i]
      BY <1>1, <3>2
    <3>. QED  BY <1>3, <3>2, <3>3
  <2>3. CASE ~(k \in 1 .. T) /\ ~(k \in T + 1 .. T + Len(C))
    <3>1. source = "relay" /\ k = N
      BY <1>1, <1>2, <2>3
    <3>2. P[k] = Done
      BY <1>1, <3>1
    <3>. QED  BY <3>1, <3>2 DEF Done, ToSet
  <2>. QED  BY <2>1, <2>2, <2>3
<1>. QED  BY <1>1, <1>4 DEF Clean, P, N

\* On the wire the payloads stand framed between their marks.
LEMMA PutsAre ==
  ASSUME Fed
  PROVE  /\ Puts \in Seq(Seq(Words)) /\ Len(Puts) = Len(Payloads)
         /\ \A k \in 1 .. Len(Payloads) : Puts[k] = Put(Payloads[k])
         /\ FlattenSeq(Puts) \in Seq(Words)
         /\ Framed(FlattenSeq(Puts), Mark, Payloads, HeadLen, TailLen)
         /\ Mark[Len(Payloads)] = Len(FlattenSeq(Puts))
<1>1. Payloads \in Seq(Seq(Words)) /\ Len(Payloads) \in Nat /\ DOMAIN Payloads = 1 .. Len(Payloads)
  BY PayloadsAre
<1>2. \A k \in 1 .. Len(Payloads) : Puts[k] = Put(Payloads[k])
  BY <1>1 DEF Puts
<1>3. \A k \in 1 .. Len(Payloads) : Put(Payloads[k]) \in Seq(Words)
  BY <1>1, PutIs
<1>4. Puts \in [1 .. Len(Payloads) -> Seq(Words)]
  <2>1. Puts = [k \in 1 .. Len(Payloads) |-> Put(Payloads[k])]
    BY <1>1 DEF Puts
  <2>. QED  BY <1>3, <2>1
<1>5. Puts \in Seq(Seq(Words)) /\ Len(Puts) = Len(Payloads)
  BY <1>1, <1>4
<1>6. FlattenSeq(Puts) \in Seq(Words) /\ Laid(FlattenSeq(Puts), Puts)
  BY <1>5, LaidOut
<1>7. Framed(FlattenSeq(Puts), Mark, Payloads, HeadLen, TailLen)
  BY <1>1, <1>2, <1>5, PutsFrame DEF Mark
<1>8. Mark[Len(Payloads)] = Len(FlattenSeq(Puts))
  BY <1>5, <1>6 DEF Laid, Mark
<1>. QED  BY <1>2, <1>5, <1>6, <1>7, <1>8

\* The body of the first events ends where the next event begins.
LEMMA BodiesAre ==
  ASSUME Fed
  PROVE  /\ Bodies \in Seq(Seq(Words)) /\ Len(Bodies) = Len(script)
         /\ \A k \in 1 .. Len(script) : Bodies[k] = Bytes(script[k]) /\ Bytes(script[k]) \in Seq(Words)
         /\ Body(script) = FlattenSeq(Bodies) /\ Body(script) \in Seq(Words)
         /\ \A k \in 0 .. Len(script) : Body(SubSeq(script, 1, k)) = FlattenSeq(SubSeq(Bodies, 1, k))
         /\ \A k \in 0 .. Len(script) : BodyEnd[k] = Len(Body(SubSeq(script, 1, k)))
<1>1. /\ script \in Seq(Events) /\ Len(script) \in Nat /\ DOMAIN script = 1 .. Len(script)
      /\ \A k \in 1 .. Len(script) : script[k].type \in Words /\ script[k].data \in Seq(Words)
  BY ScriptIs
<1>2. ASSUME NEW k \in 1 .. Len(script) PROVE Bytes(script[k]) \in Seq(Words)
  <2>. DEFINE e == script[k]
              h == IF e.type = "" THEN <<>> ELSE <<"event:", e.type, "nl">>
  <2>1. e.type \in Words /\ Put(e.data) \in Seq(Words)
    BY <1>1, PutIs
  <2>2. "event:" \in Words /\ "nl" \in Words
    BY NotText
  <2>3. h \in Seq(Words)
    <3>1. CASE e.type = ""
      <4>1. h = <<>>
        BY <3>1
      <4>. HIDE DEF h, e
      <4>. QED  BY <4>1
    <3>2. CASE e.type # ""
      <4>1. h = <<"event:", e.type, "nl">>
        BY <3>2
      <4>. HIDE DEF h, e
      <4>. QED  BY <2>1, <2>2, <4>1
    <3>. QED  BY <3>1, <3>2
  <2>4. Bytes(e) = h \o Put(e.data)
    BY DEF Bytes
  <2>. HIDE DEF h, e
  <2>5. Bytes(e) \in Seq(Words)
    BY <2>1, <2>3, <2>4
  <2>. QED  BY <2>5 DEF e
<1>3. Bodies = [k \in 1 .. Len(script) |-> Bytes(script[k])]
  BY <1>1 DEF Bodies
<1>4. Bodies \in Seq(Seq(Words)) /\ Len(Bodies) = Len(script)
      /\ \A k \in 1 .. Len(script) : Bodies[k] = Bytes(script[k])
  <2>1. Bodies \in [1 .. Len(script) -> Seq(Words)]
    BY <1>2, <1>3
  <2>. QED  BY <1>1, <1>3, <2>1
<1>5. Body(script) = FlattenSeq(Bodies) /\ FlattenSeq(Bodies) \in Seq(Words)
  BY <1>4, LaidOut DEF Body, Bodies
<1>6. ASSUME NEW k \in 0 .. Len(script)
      PROVE  Body(SubSeq(script, 1, k)) = FlattenSeq(SubSeq(Bodies, 1, k))
  <2>. DEFINE u == SubSeq(script, 1, k)
  <2>1. DOMAIN u = 1 .. k /\ \A j \in 1 .. k : u[j] = script[j] /\ j \in 1 .. Len(script)
    BY <1>1
  <2>. HIDE DEF u
  <2>2. Body(u) = FlattenSeq([j \in 1 .. k |-> Bytes(u[j])])
    BY <2>1 DEF Body
  <2>3. [j \in 1 .. k |-> Bytes(u[j])] = [j \in 1 .. k |-> Bodies[j]]
    BY <1>4, <2>1
  <2>4. SubSeq(Bodies, 1, k) = [j \in 1 .. k |-> Bodies[j]]
    BY <1>1, <1>4
  <2>. QED  BY <2>2, <2>3, <2>4 DEF u
<1>7. \A k \in 0 .. Len(script) : BodyEnd[k] = Len(Body(SubSeq(script, 1, k)))
  BY <1>4, <1>6 DEF BodyEnd, Ends
<1>. QED  BY <1>2, <1>4, <1>5, <1>6, <1>7

\* The prefix of the stream is what its first payloads are put as.
LEMMA PrefaceIs ==
  ASSUME Fed
  PROVE  /\ Preface \in Seq(Words) /\ Preface = FlattenSeq(SubSeq(Puts, 1, Len(Thinking)))
         /\ Mark[Len(Thinking)] = Len(Preface)
<1>. DEFINE T == Len(Thinking)
<1>1. /\ T \in 0 .. 1 /\ T <= Len(Payloads) /\ SubSeq(Payloads, 1, T) = Thinking
      /\ Payloads \in Seq(Seq(Words)) /\ Len(Payloads) \in Nat
  <2>1. /\ Len(Payloads) = T + Len(Chunks(script)) + Len(Finish) /\ T \in 0 .. 1
        /\ Len(Finish) = (IF source = "relay" THEN 1 ELSE 0) /\ Payloads \in Seq(Seq(Words))
        /\ SubSeq(Payloads, 1, T) = Thinking
    BY PayloadsAre
  <2>2. Len(Chunks(script)) \in Nat
    BY Carving
  <2>3. Len(Finish) \in Nat
    BY <2>1
  <2>. HIDE DEF T
  <2>. QED  BY <2>1, <2>2, <2>3
<1>2. DOMAIN Thinking = 1 .. T /\ \A i \in 1 .. T : Thinking[i] = Payloads[i] /\ i \in 1 .. Len(Payloads)
  <2>. DEFINE u == SubSeq(Payloads, 1, T)
  <2>1. DOMAIN u = 1 .. T /\ \A i \in 1 .. T : u[i] = Payloads[i] /\ i \in 1 .. Len(Payloads)
    <3>. HIDE DEF T
    <3>. QED  BY <1>1
  <2>. HIDE DEF u
  <2>. QED  BY <1>1, <2>1 DEF u
<1>. HIDE DEF T
<1>3. Preface = FlattenSeq([i \in 1 .. T |-> Put(Thinking[i])])
  BY <1>2 DEF Preface
<1>4. /\ Puts \in Seq(Seq(Words)) /\ Len(Puts) = Len(Payloads)
      /\ \A k \in 1 .. Len(Payloads) : Puts[k] = Put(Payloads[k])
  BY PutsAre
<1>5. [i \in 1 .. T |-> Put(Thinking[i])] = [i \in 1 .. T |-> Puts[i]]
  BY <1>2, <1>4
<1>6. SubSeq(Puts, 1, T) = [i \in 1 .. T |-> Puts[i]] /\ SubSeq(Puts, 1, T) \in Seq(Seq(Words))
  BY <1>1, <1>4
<1>7. Preface = FlattenSeq(SubSeq(Puts, 1, T))
  BY <1>3, <1>5, <1>6
<1>8. T \in 0 .. Len(Puts)
  BY <1>1, <1>4
<1>9. Preface \in Seq(Words)
  BY <1>6, <1>7, LaidOut
<1>. QED  BY <1>7, <1>8, <1>9 DEF T, Mark, Ends

\* A body that is not translated lies in the stream as it is.
LEMMA DirectBody ==
  ASSUME Fed, source # "relay", script \in Said, wire = Body(script)
  PROVE  /\ FlattenSeq(Puts) = Preface \o wire
         /\ \A k \in 0 .. Len(script) : Mark[Len(Thinking) + k] = Len(Preface) + BodyEnd[k]
         /\ Len(Payloads) = Len(Thinking) + Len(script)
<1>. DEFINE T == Len(Thinking)
            N == Len(script)
            s == SubSeq(Puts, 1, T)
<1>1. /\ T \in Nat /\ N \in Nat /\ Len(Payloads) = T + N /\ Payloads \in Seq(Seq(Words))
      /\ \A k \in 1 .. N : Payloads[T + k] = script[k].data /\ script[k].type = ""
  <2>1. N \in Nat /\ \A k \in 1 .. N : script[k].type = ""
    BY ScriptIs
  <2>2. Len(Chunks(script)) = N /\ \A k \in 1 .. N : Chunks(script)[k] = script[k].data
    BY Straight
  <2>3. /\ Len(Payloads) = T + Len(Chunks(script)) + Len(Finish) /\ T \in 0 .. 1
        /\ Payloads \in Seq(Seq(Words)) /\ Len(Finish) = (IF source = "relay" THEN 1 ELSE 0)
        /\ \A i \in 1 .. Len(Chunks(script)) : Payloads[T + i] = Chunks(script)[i]
    BY PayloadsAre
  <2>4. Len(Finish) = 0
    BY <2>3
  <2>. HIDE DEF T, N
  <2>5. T \in Nat /\ Len(Payloads) = T + N
    <3>0. T \in Nat
      BY <2>3
    <3>1. T \in Nat /\ Len(Chunks(script)) = N /\ N \in Nat
      BY <2>1, <2>2, <3>0
    <3>2. Len(Payloads) = T + Len(Chunks(script)) + Len(Finish)
      BY <2>3
    <3>. QED  BY <2>4, <3>1, <3>2
  <2>6. \A k \in 1 .. N : Payloads[T + k] = script[k].data
    BY <2>2, <2>3
  <2>. QED  BY <2>1, <2>3, <2>5, <2>6
<1>nat. T \in Nat /\ N \in Nat
  BY <1>1
<1>len. Len(Payloads) = T + N
  BY <1>1
<1>2. /\ Puts \in Seq(Seq(Words)) /\ Len(Puts) = T + N
      /\ \A k \in 1 .. T + N : Puts[k] = Put(Payloads[k])
  BY <1>len, PutsAre
<1>3. /\ Bodies \in Seq(Seq(Words)) /\ Len(Bodies) = N
      /\ \A k \in 1 .. N : Bodies[k] = Bytes(script[k])
      /\ wire = FlattenSeq(Bodies)
      /\ \A k \in 0 .. N : BodyEnd[k] = Len(FlattenSeq(SubSeq(Bodies, 1, k)))
  <2>1. \A k \in 0 .. Len(Bodies) : BodyEnd[k] = Len(FlattenSeq(SubSeq(Bodies, 1, k)))
    BY DEF BodyEnd, Ends
  <2>. QED  BY <2>1, BodiesAre
<1>4. Preface \in Seq(Words) /\ Preface = FlattenSeq(s)
  BY PrefaceIs
<1>. HIDE DEF T, N
<1>5. ASSUME NEW k \in 1 .. N PROVE Puts[T + k] = Bodies[k]
  <2>1. T + k \in 1 .. T + N
    BY <1>nat
  <2>2. Puts[T + k] = Put(script[k].data)
    BY <1>1, <1>2, <1>nat, <2>1
  <2>3. Put(script[k].data) \in Seq(Words)
    <3>1. script[k].data \in Seq(Words)
      BY ScriptIs DEF N
    <3>. QED  BY <3>1, PutIs
  <2>4. Bytes(script[k]) = <<>> \o Put(script[k].data)
    BY <1>1 DEF Bytes
  <2>5. Bytes(script[k]) = Put(script[k].data)
    BY <2>3, <2>4, ConcatEmptySeq
  <2>. QED  BY <1>3, <2>2, <2>5
<1>6. s \in Seq(Seq(Words)) /\ Len(s) = T /\ \A i \in 1 .. T : s[i] = Puts[i]
  BY <1>nat, <1>2
<1>. HIDE DEF s
<1>7. ASSUME NEW k \in 0 .. N
      PROVE  /\ SubSeq(Puts, 1, T + k) = s \o SubSeq(Bodies, 1, k)
             /\ SubSeq(Bodies, 1, k) \in Seq(Seq(Words))
  <2>. DEFINE u == SubSeq(Puts, 1, T + k)
              b == SubSeq(Bodies, 1, k)
  <2>1. /\ u \in Seq(Seq(Words)) /\ Len(u) = T + k /\ \A i \in 1 .. T + k : u[i] = Puts[i]
    BY <1>nat, <1>2
  <2>2. /\ b \in Seq(Seq(Words)) /\ Len(b) = k /\ \A i \in 1 .. k : b[i] = Bodies[i]
    BY <1>nat, <1>3
  <2>. HIDE DEF u, b
  <2>3. /\ s \o b \in Seq(Seq(Words)) /\ Len(s \o b) = T + k
        /\ \A i \in 1 .. T : (s \o b)[i] = s[i]
        /\ \A j \in 1 .. k : (s \o b)[T + j] = b[j]
    <3>1. ASSUME NEW x \in Seq(Seq(Words)), NEW y \in Seq(Seq(Words))
          PROVE  /\ x \o y \in Seq(Seq(Words)) /\ Len(x \o y) = Len(x) + Len(y)
                 /\ \A i \in 1 .. Len(x) : (x \o y)[i] = x[i]
                 /\ \A j \in 1 .. Len(y) : (x \o y)[Len(x) + j] = y[j]
      BY ConcatKeeps
    <3>. QED  BY <1>6, <2>2, <3>1
  <2>4. ASSUME NEW i \in 1 .. T + k PROVE u[i] = (s \o b)[i]
    <3>1. CASE i \in 1 .. T
      BY <1>6, <2>1, <2>3, <3>1
    <3>2. CASE i \notin 1 .. T
      <4>1. i - T \in 1 .. k /\ i = T + (i - T)
        BY <1>nat, <3>2
      <4>2. PICK j \in 1 .. k : i = T + j
        BY <4>1
      <4>3. j \in 1 .. N
        BY <1>nat
      <4>. QED  BY <1>5, <2>1, <2>2, <2>3, <4>2, <4>3
    <3>. QED  BY <3>1, <3>2
  <2>5. u = s \o b
    <3>. DEFINE z == s \o b
    <3>1. /\ z \in Seq(Seq(Words)) /\ Len(z) = Len(u) /\ Len(u) \in Nat
          /\ \A i \in 1 .. Len(u) : u[i] = z[i]
      BY <1>nat, <2>1, <2>3, <2>4
    <3>. HIDE DEF z
    <3>2. u = z
      BY <2>1, <3>1
    <3>. QED  BY <3>2 DEF z
  <2>. QED  BY <2>2, <2>5 DEF u, b
<1>8. ASSUME NEW k \in 0 .. N
      PROVE  /\ FlattenSeq(SubSeq(Puts, 1, T + k)) = Preface \o FlattenSeq(SubSeq(Bodies, 1, k))
             /\ Mark[T + k] = Len(Preface) + BodyEnd[k]
  <2>1. FlattenSeq(SubSeq(Puts, 1, T + k)) = FlattenSeq(s) \o FlattenSeq(SubSeq(Bodies, 1, k))
    BY <1>6, <1>7, FlattenConcat
  <2>2. FlattenSeq(SubSeq(Bodies, 1, k)) \in Seq(Words)
    BY <1>7, LaidOut
  <2>3. Mark[T + k] = Len(FlattenSeq(SubSeq(Puts, 1, T + k)))
    <3>1. T + k \in 0 .. Len(Puts)
      BY <1>nat, <1>2
    <3>. QED  BY <3>1 DEF Mark, Ends
  <2>4. \A x, y \in Seq(Words) : Len(x \o y) = Len(x) + Len(y)
    OBVIOUS
  <2>. QED  BY <1>3, <1>4, <2>1, <2>2, <2>3, <2>4
<1>9. FlattenSeq(Puts) = Preface \o wire
  <2>1. N \in 0 .. N /\ SubSeq(Puts, 1, T + N) = Puts /\ SubSeq(Bodies, 1, N) = Bodies
    BY <1>nat, <1>2, <1>3
  <2>. QED  BY <1>3, <1>8, <2>1
<1>. QED  BY <1>1, <1>8, <1>9 DEF T, N

\* What the sink is to receive: framed payloads, behind a preface if nobody relays.
LEMMA StreamIs ==
  ASSUME Fed
  PROVE  /\ Stream \in Seq(Words) /\ wire \in Seq(Words)
         /\ Framed(Stream, Mark, Payloads, HeadLen, TailLen)
         /\ source # "relay" => Stream = Preface \o wire
         /\ source = "relay" => Mark[Len(Payloads)] = Len(Stream) /\ wire = Body(script)
<1>1. /\ FlattenSeq(Puts) \in Seq(Words) /\ Mark[Len(Payloads)] = Len(FlattenSeq(Puts))
      /\ Framed(FlattenSeq(Puts), Mark, Payloads, HeadLen, TailLen)
  BY PutsAre
<1>2. Body(script) \in Seq(Words)
  BY BodiesAre
<1>3. CASE source = "relay"
  BY <1>1, <1>2, <1>3 DEF Stream, Fed
<1>4. CASE source # "relay" /\ script \in Said /\ wire = Body(script)
  <2>1. FlattenSeq(Puts) = Preface \o wire
    BY <1>4, DirectBody
  <2>. QED  BY <1>1, <1>2, <1>4, <2>1 DEF Stream
<1>5. CASE source # "relay" /\ script = <<>> /\ wire = <<"error">>
  <2>1. Stream = Preface \o <<"error">>
    BY <1>5 DEF Stream
  <2>2. Len(script) = 0 /\ Len(Chunks(script)) = 0
    <3>1. Len(script) = 0
      BY <1>5
    <3>. QED  BY <1>5, <3>1, Straight
  <2>3. Len(Payloads) = Len(Thinking)
    <3>1. /\ Len(Payloads) = Len(Thinking) + Len(Chunks(script)) + Len(Finish) /\ Len(Thinking) \in 0 .. 1
          /\ Len(Finish) = (IF source = "relay" THEN 1 ELSE 0)
      BY PayloadsAre
    <3>2. Len(Finish) = 0
      BY <1>5, <3>1
    <3>. QED  BY <2>2, <3>1, <3>2
  <2>4. FlattenSeq(Puts) = Preface
    <3>1. Puts \in Seq(Seq(Words)) /\ Len(Puts) = Len(Thinking)
      BY <2>3, PutsAre
    <3>2. SubSeq(Puts, 1, Len(Thinking)) = Puts
      BY <3>1
    <3>. QED  BY <3>2, PrefaceIs
  <2>5. "error" \in Words
    BY NotText
  <2>6. Framed(Preface \o <<"error">>, Mark, Payloads, HeadLen, TailLen)
    BY <1>1, <2>4, FramedError, PayloadsAre, LensAre
  <2>7. <<"error">> \in Seq(Words) /\ Preface \o <<"error">> \in Seq(Words)
    BY <1>1, <2>4, <2>5
  <2>. QED  BY <1>5, <2>1, <2>6, <2>7
<1>. QED  BY <1>3, <1>4, <1>5 DEF Fed

-----------------------------------------------------------------------------
(* Characters in the body.                                                 *)

\* What consists of whole characters is so together.
LEMMA WholeConcat ==
  ASSUME NEW x \in Seq(Words), NEW y \in Seq(Words), Whole(x), Whole(y)
  PROVE  Whole(x \o y)
<1>. DEFINE K == Len(x)
            L == Len(y)
            z == x \o y
<1>1. /\ K \in Nat /\ L \in Nat /\ DOMAIN x = 1 .. K /\ DOMAIN y = 1 .. L /\ DOMAIN z = 1 .. K + L
      /\ \A i \in 1 .. K : z[i] = x[i]
      /\ \A j \in 1 .. L : z[K + j] = y[j]
  OBVIOUS
<1>. HIDE DEF K, L, z
<1>2. ASSUME NEW i \in 1 .. K + L
      PROVE  /\ z[i] = "e1" => i + 1 \in 1 .. K + L /\ z[i + 1] = "e2"
             /\ z[i] = "e2" => i - 1 \in 1 .. K + L /\ z[i - 1] = "e1"
  <2>1. CASE i \in 1 .. K
    <3>1. /\ x[i] = "e1" => i + 1 \in 1 .. K /\ x[i + 1] = "e2"
          /\ x[i] = "e2" => i - 1 \in 1 .. K /\ x[i - 1] = "e1"
      BY <1>1, <2>1 DEF Whole
    <3>. QED  BY <1>1, <2>1, <3>1
  <2>2. CASE i \notin 1 .. K
    <3>1. i - K \in 1 .. L /\ i = K + (i - K)
      BY <1>1, <2>2
    <3>2. PICK j \in 1 .. L : i = K + j
      BY <3>1
    <3>3. /\ y[j] = "e1" => j + 1 \in 1 .. L /\ y[j + 1] = "e2"
          /\ y[j] = "e2" => j - 1 \in 1 .. L /\ y[j - 1] = "e1"
      BY <1>1 DEF Whole
    <3>4. i + 1 = K + (j + 1) /\ i - 1 = K + (j - 1)
      BY <1>1, <3>2
    <3>5. z[i] = y[j]
      BY <1>1, <3>2
    <3>6. ASSUME z[i] = "e1" PROVE i + 1 \in 1 .. K + L /\ z[i + 1] = "e2"
      BY <1>1, <3>2, <3>3, <3>4, <3>5, <3>6
    <3>7. ASSUME z[i] = "e2" PROVE i - 1 \in 1 .. K + L /\ z[i - 1] = "e1"
      BY <1>1, <3>2, <3>3, <3>4, <3>5, <3>7
    <3>. QED  BY <3>6, <3>7
  <2>. QED  BY <2>1, <2>2
<1>. QED  BY <1>1, <1>2 DEF Whole, z

Plain(x) == \A i \in 1 .. Len(x) : x[i] \notin {"e1", "e2"}

\* What has no character of two bytes is whole.
LEMMA WholePlain ==
  ASSUME NEW x \in Seq(Words), Plain(x)
  PROVE  Whole(x)
<1>1. DOMAIN x = 1 .. Len(x)
  OBVIOUS
<1>. QED  BY <1>1 DEF Whole, Plain

\* One word of markup is plain.
LEMMA PlainOne ==
  ASSUME NEW a, a \notin {"e1", "e2"} PROVE Plain(<<a>>)
BY DEF Plain

\* Putting a payload on the wire splits no character.
LEMMA WholePut ==
  ASSUME NEW p \in Seq(Words), Whole(p)
  PROVE  Whole(Put(p))
<1>1. "nl" \in Words /\ "data:" \in Words
  BY NotText
<1>2. <<"nl">> \in Seq(Words) /\ <<"nl", "nl">> \in Seq(Words) /\ <<"data:">> \in Seq(Words)
  BY <1>1
<1>3. Whole(<<"nl">>) /\ Whole(<<"nl", "nl">>) /\ Whole(<<"data:">>)
  <2>. DEFINE z == <<"nl", "nl">>
  <2>1. Whole(<<"nl">>)
    <3>1. Plain(<<"nl">>)
      BY PlainOne
    <3>. QED  BY <1>2, <3>1, WholePlain
  <2>2. Whole(z)
    <3>1. Len(z) = 2 /\ z[1] = "nl" /\ z[2] = "nl"
      OBVIOUS
    <3>. HIDE DEF z
    <3>2. Plain(z)
      BY <3>1 DEF Plain
    <3>. QED  BY <1>2, <3>2, WholePlain DEF z
  <2>3. Whole(<<"data:">>)
    <3>1. Plain(<<"data:">>)
      BY PlainOne
    <3>. QED  BY <1>2, <3>1, WholePlain
  <2>. QED  BY <2>1, <2>2, <2>3
<1>4. CASE source = "native"
  <2>1. Put(p) = p \o <<"nl">>
    BY <1>4 DEF Put, Ndline
  <2>. QED  BY <1>2, <1>3, <2>1, WholeConcat
<1>5. CASE source # "native"
  <2>1. Put(p) = (<<"data:">> \o p) \o <<"nl", "nl">>
    BY <1>5 DEF Put, Sse
  <2>2. Whole(<<"data:">> \o p) /\ <<"data:">> \o p \in Seq(Words)
    BY <1>2, <1>3, WholeConcat
  <2>. QED  BY <1>2, <1>3, <2>1, <2>2, WholeConcat
<1>. QED  BY <1>4, <1>5

\* No character of the body is broken.
LEMMA WholeWire ==
  ASSUME Fed
  PROVE  Whole(wire)
<1>1. CASE wire = <<"error">>
  <2>1. "error" \in Words
    BY NotText
  <2>2. <<"error">> \in Seq(Words) /\ Plain(<<"error">>)
    BY <2>1, PlainOne
  <2>. QED  BY <1>1, <2>2, WholePlain
<1>2. CASE wire = Body(script)
  <2>1. /\ Bodies \in Seq(Seq(Words)) /\ Len(Bodies) = Len(script) /\ wire = FlattenSeq(Bodies)
        /\ \A k \in 1 .. Len(script) : Bodies[k] = Bytes(script[k])
    BY <1>2, BodiesAre
  <2>2. ASSUME NEW k \in 1 .. Len(script) PROVE Whole(Bytes(script[k])) /\ Bytes(script[k]) \in Seq(Words)
    <3>. DEFINE e == script[k]
                h == IF e.type = "" THEN <<>> ELSE <<"event:", e.type, "nl">>
    <3>1. /\ e.type \in Words /\ e.data \in Seq(Words) /\ Whole(e.data)
          /\ e.type = "" \/ e.type \notin Text
      BY ScriptIs
    <3>2. "event:" \in Words /\ "nl" \in Words /\ "e1" \in Text /\ "e2" \in Text
      BY NotText, StreamingAssumption
    <3>3. Bytes(e) = h \o Put(e.data)
      BY DEF Bytes
    <3>4. h \in Seq(Words) /\ Whole(h)
      <4>1. CASE e.type = ""
        <5>1. h = <<>>
          BY <4>1
        <5>. HIDE DEF h, e
        <5>2. h \in Seq(Words) /\ Len(h) = 0
          BY <5>1
        <5>3. Plain(h)
          BY <5>2 DEF Plain
        <5>. QED  BY <5>2, <5>3, WholePlain
      <4>2. CASE e.type # ""
        <5>1. h = <<"event:", e.type, "nl">>
          BY <4>2
        <5>. HIDE DEF h
        <5>2. e.type \notin {"e1", "e2"}
          BY <3>1, <3>2, <4>2
        <5>. HIDE DEF e
        <5>. DEFINE type == e.type
        <5>. HIDE DEF type
        <5>3. /\ h \in Seq(Words) /\ Len(h) = 3
              /\ h[1] = "event:" /\ h[2] = type /\ h[3] = "nl"
          <6>1. type \in Words /\ h = <<"event:", type, "nl">>
            BY <3>1, <5>1 DEF type
          <6>. QED  BY <3>2, <6>1
        <5>4. Plain(h)
          BY <5>2, <5>3 DEF Plain, type
        <5>. QED  BY <5>3, <5>4, WholePlain
      <4>. QED  BY <4>1, <4>2
    <3>5. Put(e.data) \in Seq(Words) /\ Whole(Put(e.data))
      BY <3>1, PutIs, WholePut
    <3>. HIDE DEF e, h
    <3>6. Whole(Bytes(e)) /\ Bytes(e) \in Seq(Words)
      <4>1. Whole(h \o Put(e.data)) /\ h \o Put(e.data) \in Seq(Words)
        BY <3>4, <3>5, WholeConcat
      <4>. QED  BY <3>3, <4>1
    <3>. QED  BY <3>6 DEF e
  <2>. DEFINE N == Len(script)
  <2>3. PICK f \in [0 .. N -> Seq(Words)] :
          /\ f[0] = <<>> /\ FlattenSeq(Bodies) = f[N]
          /\ \A n \in 0 .. N - 1 : f[n + 1] = f[n] \o Bodies[n + 1]
    <3>1. PICK f \in [0 .. Len(Bodies) -> Seq(Words)] :
            /\ f[0] = <<>>
            /\ \A n \in 0 .. Len(Bodies) - 1 : f[n + 1] = f[n] \o Bodies[n + 1]
            /\ FlattenSeq(Bodies) = f[Len(Bodies)]
      BY <2>1, FlattenSteps
    <3>. QED  BY <2>1, <3>1
  <2>4. N \in Nat
    BY ScriptIs
  <2>. HIDE DEF N
  <2>. DEFINE S == {n \in 0 .. N : Whole(f[n])}
  <2>5. 0 \in S
    <3>1. Whole(<<>>)
      <4>1. <<>> \in Seq(Words) /\ Plain(<<>>)
        BY DEF Plain
      <4>. QED  BY WholePlain, <4>1
    <3>. QED  BY <2>3, <2>4, <3>1
  <2>6. ASSUME NEW n \in 0 .. N - 1, n \in S PROVE n + 1 \in S
    <3>1. n + 1 \in 1 .. N /\ n \in 0 .. N /\ n + 1 \in 0 .. N
      BY <2>4
    <3>2. f[n] \in Seq(Words) /\ Whole(f[n]) /\ f[n + 1] = f[n] \o Bodies[n + 1]
      BY <2>3, <2>6, <3>1
    <3>3. Bodies[n + 1] \in Seq(Words) /\ Whole(Bodies[n + 1])
      BY <2>1, <2>2, <3>1 DEF N
    <3>4. Whole(f[n] \o Bodies[n + 1])
      BY <3>2, <3>3, WholeConcat
    <3>. QED  BY <3>1, <3>2, <3>4
  <2>7. \A n \in 0 .. N : n \in S
    <3>. HIDE DEF S
    <3>. QED  BY <2>4, <2>5, <2>6, UpTo
  <2>8. N \in 0 .. N
    BY <2>4
  <2>. QED  BY <2>1, <2>3, <2>7, <2>8
<1>. QED  BY <1>1, <1>2 DEF Fed

\* A chunk is decoded as it is unless it is cut inside a character.
Split(n) == n \in 1 .. Len(wire) - 1 /\ wire[n] = "e1" /\ wire[n + 1] = "e2"

\* A chunk arrives as it was sent; decoded on its own, but for a character it cuts.
LEMMA ChunkRead ==
  ASSUME Fed, at \in 0 .. Len(wire), NEW n \in 1 .. Len(wire), at + n <= Len(wire), cut \in BOOLEAN,
         ~cut => ~Split(at)
  PROVE  /\ Chunk(n) \in Seq(Words) /\ \A c \in BOOLEAN : Window(c, Chunk(n), wire, at, at + n)
         /\ Window(cut \/ Cuts(n), Lossy(Chunk(n)), wire, at, at + n)
         /\ ~(cut \/ Cuts(n)) => ~Split(at + n)
<1>. DEFINE x == Chunk(n)
<1>1. wire \in Seq(Words) /\ Len(wire) \in Nat /\ at \in Nat /\ n \in Nat
  BY StreamIs
<1>2. x \in Seq(Words) /\ Len(x) = n /\ \A i \in 1 .. n : x[i] = wire[at + i]
  BY <1>1 DEF Chunk
<1>. HIDE DEF x
<1>3. n = (at + n) - at
  BY <1>1
<1>4. ASSUME NEW c PROVE Window(c, x, wire, at, at + n)
  BY <1>2, <1>3 DEF Window
<1>5. Lossy(x) \in Seq(Words) /\ Alike(TRUE, Lossy(x), x) /\ (Whole(x) => Lossy(x) = x)
  BY <1>2, LossyIs
<1>6. CASE cut \/ Cuts(n)
  <2>1. Len(Lossy(x)) = n /\ \A i \in 1 .. n : Seen(TRUE, Lossy(x)[i]) = Seen(TRUE, x[i])
    BY <1>2, <1>5 DEF Alike
  <2>2. \A i \in 1 .. n : Seen(TRUE, x[i]) = Seen(TRUE, wire[at + i])
    BY <1>2
  <2>3. Window(TRUE, Lossy(x), wire, at, at + n)
    BY <1>3, <1>5, <2>1, <2>2 DEF Window
  <2>4. (cut \/ Cuts(n)) = TRUE
    BY <1>6
  <2>5. Window(cut \/ Cuts(n), Lossy(x), wire, at, at + n)
    BY <2>3, <2>4
  <2>. QED  BY <1>2, <1>4, <1>6, <2>5 DEF x
<1>7. CASE ~(cut \/ Cuts(n))
  <2>1. Whole(wire) /\ DOMAIN wire = 1 .. Len(wire) /\ DOMAIN x = 1 .. n
    BY <1>1, <1>2, WholeWire
  <2>2. ~Split(at) /\ ~Cuts(n)
    BY <1>7
  <2>3. ASSUME NEW i \in 1 .. n
        PROVE  /\ x[i] = "e1" => i + 1 \in 1 .. n /\ x[i + 1] = "e2"
               /\ x[i] = "e2" => i - 1 \in 1 .. n /\ x[i - 1] = "e1"
    <3>1. at + i \in 1 .. Len(wire) /\ (at + i) + 1 = at + (i + 1) /\ (at + i) - 1 = at + (i - 1)
      BY <1>1
    <3>2. /\ wire[at + i] = "e1" => at + (i + 1) \in 1 .. Len(wire) /\ wire[at + (i + 1)] = "e2"
          /\ wire[at + i] = "e2" => at + (i - 1) \in 1 .. Len(wire) /\ wire[at + (i - 1)] = "e1"
      BY <2>1, <3>1 DEF Whole
    <3>3. ASSUME x[i] = "e1" PROVE i + 1 \in 1 .. n /\ x[i + 1] = "e2"
      <4>1. wire[at + i] = "e1" /\ at + (i + 1) \in 1 .. Len(wire) /\ wire[at + (i + 1)] = "e2"
        BY <1>2, <3>2, <3>3
      <4>2. i # n
        <5>1. SUFFICES ASSUME i = n PROVE FALSE
          OBVIOUS
        <5>2. at + n < Len(wire) /\ wire[at + n] = "e1" /\ wire[at + n + 1] = "e2"
          BY <1>1, <4>1, <5>1
        <5>. QED  BY <2>2, <5>2 DEF Cuts
      <4>3. i + 1 \in 1 .. n
        BY <1>1, <4>2
      <4>. QED  BY <1>2, <4>1, <4>3
    <3>4. ASSUME x[i] = "e2" PROVE i - 1 \in 1 .. n /\ x[i - 1] = "e1"
      <4>1. wire[at + i] = "e2" /\ at + (i - 1) \in 1 .. Len(wire) /\ wire[at + (i - 1)] = "e1"
        BY <1>2, <3>2, <3>4
      <4>2. i # 1
        <5>1. SUFFICES ASSUME i = 1 PROVE FALSE
          OBVIOUS
        <5>2. at \in 1 .. Len(wire) - 1 /\ wire[at] = "e1" /\ wire[at + 1] = "e2"
          BY <1>1, <4>1, <5>1
        <5>. QED  BY <2>2, <5>2 DEF Split
      <4>3. i - 1 \in 1 .. n
        BY <1>1, <4>2
      <4>. QED  BY <1>2, <4>1, <4>3
    <3>. QED  BY <3>3, <3>4
  <2>4. Whole(x)
    BY <2>1, <2>3 DEF Whole
  <2>5. Window(cut \/ Cuts(n), Lossy(x), wire, at, at + n)
    BY <1>4, <1>5, <2>4
  <2>6. ~Split(at + n)
    BY <1>1, <2>2 DEF Split, Cuts
  <2>. QED  BY <1>2, <1>4, <2>5, <2>6 DEF x
<1>. QED  BY <1>6, <1>7

-----------------------------------------------------------------------------
(* How the events of Anthropic's schema lie in a body, line by line.       *)

BodyFramed ==
    /\ BodyEnd \in [0 .. Len(script) -> Nat] /\ BodyEnd[0] = 0 /\ BodyEnd[Len(script)] = Len(wire)
    /\ \A j, k \in 0 .. Len(script) : j <= k => BodyEnd[j] <= BodyEnd[k]
    /\ \A m \in 0 .. Len(script) - 1 :
          /\ BodyEnd[m + 1] = BodyEnd[m] + Len(script[m + 1].data) + 6
          /\ wire[BodyEnd[m] + 1] = "event:" /\ wire[BodyEnd[m] + 2] = script[m + 1].type
          /\ wire[BodyEnd[m] + 3] = "nl" /\ wire[BodyEnd[m] + 4] = "data:"
          /\ \A j \in 1 .. Len(script[m + 1].data) : wire[BodyEnd[m] + 4 + j] = script[m + 1].data[j]
          /\ wire[BodyEnd[m] + Len(script[m + 1].data) + 5] = "nl"
          /\ wire[BodyEnd[m] + Len(script[m + 1].data) + 6] = "nl"

Typed(b, type, data) == b = <<"event:", type, "nl">> \o Put(data)

\* An event of Anthropic's on the wire: its type on one line, its data on the next.
LEMMA BytesAre ==
  ASSUME source = "relay", NEW type \in Words, NEW data \in Seq(Words), NEW b, Typed(b, type, data)
  PROVE  /\ b \in Seq(Words) /\ Len(b) = Len(data) + 6
         /\ b[1] = "event:" /\ b[2] = type /\ b[3] = "nl" /\ b[4] = "data:"
         /\ \A j \in 1 .. Len(data) : b[4 + j] = data[j]
         /\ b[Len(data) + 5] = "nl" /\ b[Len(data) + 6] = "nl"
<1>. DEFINE h == <<"event:", type, "nl">>
            p == Put(data)
            L == Len(data)
<1>1. b = h \o p
  BY DEF Typed
<1>2. /\ h \in Seq(Words) /\ Len(h) = 3 /\ h[1] = "event:" /\ h[2] = type /\ h[3] = "nl"
  <2>1. "event:" \in Words /\ "nl" \in Words
    BY NotText
  <2>2. h = <<"event:", type, "nl">>
    OBVIOUS
  <2>. HIDE DEF h
  <2>. QED  BY <2>1, <2>2
<1>nat. L \in Nat
  OBVIOUS
<1>. HIDE DEF h
<1>3. /\ p \in Seq(Words) /\ Len(p) = L + 3
      /\ p[1] = "data:" /\ p[L + 2] = "nl" /\ p[L + 3] = "nl"
      /\ \A j \in 1 .. L : p[1 + j] = data[j]
  <2>1. /\ p \in Seq(Words) /\ Len(p) = HeadLen + L + TailLen
        /\ \A j \in 1 .. HeadLen : p[j] = "data:"
        /\ \A j \in 1 .. L : p[HeadLen + j] = data[j]
        /\ \A j \in 1 .. TailLen : p[HeadLen + L + j] = "nl"
    BY PutIs
  <2>2. HeadLen = 1 /\ TailLen = 2
    BY DEF HeadLen, TailLen
  <2>. HIDE DEF p, L
  <2>3. /\ p \in Seq(Words) /\ Len(p) = 1 + L + 2
        /\ \A j \in 1 .. 1 : p[j] = "data:"
        /\ \A j \in 1 .. L : p[1 + j] = data[j]
        /\ \A j \in 1 .. 2 : p[1 + L + j] = "nl"
    BY <2>1, <2>2
  <2>4. 1 + L + 1 = L + 2 /\ 1 + L + 2 = L + 3
    BY <1>nat
  <2>5. p[1 + L + 1] = "nl" /\ p[1 + L + 2] = "nl" /\ p[1] = "data:"
    BY <2>3
  <2>. QED  BY <2>3, <2>4, <2>5
<1>. HIDE DEF p, L
<1>4. /\ b \in Seq(Words) /\ Len(b) = Len(h) + Len(p)
      /\ \A i \in 1 .. Len(h) : b[i] = h[i]
      /\ \A j \in 1 .. Len(p) : b[Len(h) + j] = p[j]
  <2>1. ASSUME NEW u \in Seq(Words), NEW v \in Seq(Words)
        PROVE  /\ u \o v \in Seq(Words) /\ Len(u \o v) = Len(u) + Len(v)
               /\ \A i \in 1 .. Len(u) : (u \o v)[i] = u[i]
               /\ \A j \in 1 .. Len(v) : (u \o v)[Len(u) + j] = v[j]
    BY ConcatKeeps
  <2>2. /\ h \o p \in Seq(Words) /\ Len(h \o p) = Len(h) + Len(p)
        /\ \A i \in 1 .. Len(h) : (h \o p)[i] = h[i]
        /\ \A j \in 1 .. Len(p) : (h \o p)[Len(h) + j] = p[j]
    BY <1>2, <1>3, <2>1
  <2>. QED  BY <1>1, <2>2
<1>5. b[1] = "event:" /\ b[2] = type /\ b[3] = "nl" /\ Len(b) = L + 6
  BY <1>2, <1>3, <1>4, <1>nat
<1>6. \A j \in 1 .. L + 3 : b[3 + j] = p[j]
  BY <1>2, <1>3, <1>4
<1>7. b[4] = "data:" /\ b[L + 5] = "nl" /\ b[L + 6] = "nl"
  <2>1. 4 = 3 + 1 /\ L + 5 = 3 + (L + 2) /\ L + 6 = 3 + (L + 3) /\ 1 \in 1 .. L + 3 /\ L + 2 \in 1 .. L + 3
        /\ L + 3 \in 1 .. L + 3
    BY <1>nat
  <2>. QED  BY <1>3, <1>6, <2>1
<1>8. \A j \in 1 .. L : b[4 + j] = data[j]
  <2>1. \A j \in 1 .. L : 4 + j = 3 + (1 + j) /\ 1 + j \in 1 .. L + 3
    BY <1>nat
  <2>. QED  BY <1>3, <1>6, <2>1
<1>. QED  BY <1>4, <1>5, <1>7, <1>8 DEF L

\* The relay's body is its events, each on two lines and an empty one.
LEMMA WireFramed ==
  ASSUME Fed, source = "relay"
  PROVE  BodyFramed
<1>. DEFINE N == Len(script)
<1>1. /\ Bodies \in Seq(Seq(Words)) /\ Len(Bodies) = N /\ N \in Nat
      /\ \A k \in 1 .. N : Bodies[k] = Bytes(script[k])
      /\ wire = FlattenSeq(Bodies)
  BY BodiesAre, StreamIs, ScriptIs
<1>2. Laid(wire, Bodies)
  BY <1>1, LaidOut
<1>. HIDE DEF N
<1>3. /\ BodyEnd \in [0 .. N -> Nat] /\ BodyEnd[0] = 0 /\ BodyEnd[N] = Len(wire)
      /\ \A k \in 1 .. N : BodyEnd[k] = BodyEnd[k - 1] + Len(Bodies[k])
      /\ \A j, k \in 0 .. N : j <= k => BodyEnd[j] <= BodyEnd[k]
      /\ \A k \in 1 .. N : \A j \in 1 .. Len(Bodies[k]) : wire[BodyEnd[k - 1] + j] = Bodies[k][j]
  BY <1>1, <1>2 DEF Laid, BodyEnd
<1>4. ASSUME NEW m \in 0 .. N - 1
      PROVE  /\ BodyEnd[m + 1] = BodyEnd[m] + Len(script[m + 1].data) + 6
             /\ wire[BodyEnd[m] + 1] = "event:" /\ wire[BodyEnd[m] + 2] = script[m + 1].type
             /\ wire[BodyEnd[m] + 3] = "nl" /\ wire[BodyEnd[m] + 4] = "data:"
             /\ \A j \in 1 .. Len(script[m + 1].data) : wire[BodyEnd[m] + 4 + j] = script[m + 1].data[j]
             /\ wire[BodyEnd[m] + Len(script[m + 1].data) + 5] = "nl"
             /\ wire[BodyEnd[m] + Len(script[m + 1].data) + 6] = "nl"
  <2>. DEFINE e == script[m + 1]
              type == e.type
              data == e.data
              b == Bytes(e)
              L == Len(data)
              o == BodyEnd[m]
  <2>1. m + 1 \in 1 .. N /\ (m + 1) - 1 = m /\ m \in 0 .. N
    BY <1>1
  <2>2. type \in Words /\ data \in Seq(Words) /\ type # ""
    BY <2>1, ScriptIs DEF N
  <2>3. o \in Nat /\ BodyEnd[m + 1] = o + Len(b) /\ \A j \in 1 .. Len(b) : wire[o + j] = b[j]
    BY <1>1, <1>3, <2>1
  <2>4. /\ Len(b) = L + 6
        /\ b[1] = "event:" /\ b[2] = type /\ b[3] = "nl" /\ b[4] = "data:"
        /\ \A j \in 1 .. L : b[4 + j] = data[j]
        /\ b[L + 5] = "nl" /\ b[L + 6] = "nl"
    <3>1. Typed(b, type, data)
      BY <2>2 DEF Bytes, Typed
    <3>2. type \in Words /\ data \in Seq(Words) /\ source = "relay"
      BY <2>2
    <3>. HIDE DEF type, data, b
    <3>3. /\ Len(b) = Len(data) + 6
          /\ b[1] = "event:" /\ b[2] = type /\ b[3] = "nl" /\ b[4] = "data:"
          /\ \A j \in 1 .. Len(data) : b[4 + j] = data[j]
          /\ b[Len(data) + 5] = "nl" /\ b[Len(data) + 6] = "nl"
      BY <3>1, <3>2, BytesAre
    <3>. QED  BY <3>3
  <2>5. L \in Nat
    <3>1. data \in Seq(Words)
      BY <2>2
    <3>. HIDE DEF data
    <3>. QED  BY <3>1
  <2>. HIDE DEF e, type, data, b, L, o
  <2>6. wire[o + 1] = "event:" /\ wire[o + 2] = type /\ wire[o + 3] = "nl" /\ wire[o + 4] = "data:"
    BY <2>3, <2>4, <2>5
  <2>7. wire[o + L + 5] = "nl" /\ wire[o + L + 6] = "nl"
    <3>1. o + L + 5 = o + (L + 5) /\ o + L + 6 = o + (L + 6) /\ L + 5 \in 1 .. L + 6 /\ L + 6 \in 1 .. L + 6
      BY <2>3, <2>5
    <3>. QED  BY <2>3, <2>4, <3>1
  <2>8. \A j \in 1 .. L : wire[o + 4 + j] = data[j]
    <3>1. \A j \in 1 .. L : 4 + j \in 1 .. L + 6 /\ o + 4 + j = o + (4 + j)
      BY <2>3, <2>5
    <3>. QED  BY <2>3, <2>4, <3>1
  <2>9. BodyEnd[m + 1] = o + L + 6
    BY <2>3, <2>4, <2>5
  <2>. QED  BY <2>6, <2>7, <2>8, <2>9 DEF e, type, data, L, o
<1>. QED  BY <1>3, <1>4 DEF BodyFramed, N

\* The first line of an event names its type.
LEMMA LineOfType ==
  ASSUME Fed, source = "relay", NEW c \in BOOLEAN, NEW n \in 0 .. Len(wire), NEW k \in 0 .. Len(script),
         NEW x, Window(c, x, wire, BodyEnd[k], n)
  PROVE  /\ Newlines(x) # {} <=> (k < Len(script) /\ BodyEnd[k] + 3 <= n)
         /\ Newlines(x) # {} => /\ First(Newlines(x)) = 3
                                /\ SubSeq(x, 1, 2) = <<"event:", script[k + 1].type>>
                                /\ Window(c, After(x, 3), wire, BodyEnd[k] + 3, n)
<1>. DEFINE o == BodyEnd[k]
<1>0. Len(script) \in Nat /\ Len(wire) \in Nat
  <2>1. wire \in Seq(Words)
    BY StreamIs
  <2>2. Len(script) \in Nat
    BY ScriptIs
  <2>. QED  BY <2>1, <2>2
<1>1. /\ Len(script) \in Nat /\ o \in Nat /\ n \in Nat /\ Len(wire) \in Nat
      /\ BodyEnd[Len(script)] = Len(wire)
  <2>1. BodyFramed
    BY WireFramed
  <2>. QED  BY <1>0, <2>1 DEF BodyFramed
<1>2. CASE k < Len(script)
  <2>. DEFINE type == script[k + 1].type
  <2>1. k \in 0 .. Len(script) - 1 /\ k + 1 \in 1 .. Len(script)
    BY <1>1, <1>2
  <2>2. wire[o + 1] = "event:" /\ wire[o + 2] = type /\ wire[o + 3] = "nl"
    BY <2>1, WireFramed DEF BodyFramed
  <2>3. type \notin Text /\ type # "nl"
    BY <2>1, ScriptIs
  <2>4. Window(c, x, wire, o, n)
    OBVIOUS
  <2>. HIDE DEF o, type
  <2>5. \A i \in o + 1 .. (o + 3) - 1 : wire[i] # "nl"
    <3>1. \A i \in o + 1 .. (o + 3) - 1 : i = o + 1 \/ i = o + 2
      BY <1>1
    <3>. QED  BY <2>2, <2>3, <3>1
  <2>6. /\ Newlines(x) # {} <=> o + 3 <= n
        /\ o + 3 <= n => First(Newlines(x)) = (o + 3) - o
    <3>1. o + 3 \in Nat /\ o < o + 3
      BY <1>1
    <3>. QED  BY <1>1, <2>2, <2>4, <2>5, <3>1, FirstNewline
  <2>7. ASSUME o + 3 <= n
        PROVE  SubSeq(x, 1, 2) = <<"event:", type>> /\ Window(c, After(x, 3), wire, o + 3, n)
    <3>1. x \in Seq(Words) /\ Len(x) = n - o
      BY <2>4 DEF Window
    <3>2. 3 <= Len(x) /\ 3 \in 0 .. Len(x) /\ 1 \in 1 .. Len(x) /\ 2 \in 1 .. Len(x) /\ Len(x) \in Nat
      BY <1>1, <2>7, <3>1
    <3>0. \A i \in 1 .. Len(x) : x[i] = wire[o + i] \/ (x[i] \in Text /\ wire[o + i] \in Text)
      BY <1>1, <2>4, WindowText
    <3>3. x[1] = "event:"
      BY <2>2, <3>0, <3>2, NotText
    <3>4. x[2] = type
      BY <2>2, <2>3, <3>0, <3>2
    <3>5. SubSeq(x, 1, 2) = <<x[1], x[2]>>
      <4>. DEFINE y == SubSeq(x, 1, 2)
      <4>1. Len(y) = 2 /\ y[1] = x[1] /\ y[2] = x[2] /\ y \in Seq(Words)
        BY <3>1, <3>2
      <4>. HIDE DEF y
      <4>2. y = <<y[1], y[2]>>
        BY <4>1
      <4>. QED  BY <4>1, <4>2 DEF y
    <3>6. Window(c, After(x, 3), wire, o + 3, n)
      BY <1>1, <2>4, <3>2, WindowSplit
    <3>. QED  BY <3>3, <3>4, <3>5, <3>6
  <2>8. (o + 3) - o = 3
    BY <1>1
  <2>. QED  BY <1>2, <2>6, <2>7, <2>8 DEF o, type
<1>3. CASE ~(k < Len(script))
  <2>1. k = Len(script) /\ o = Len(wire)
    BY <1>1, <1>3
  <2>2. x \in Seq(Words) /\ Len(x) = n - o
    BY DEF Window
  <2>3. Len(x) = 0
    BY <1>1, <2>1, <2>2
  <2>4. Newlines(x) = {}
    BY <2>2, <2>3 DEF Newlines
  <2>. QED  BY <1>3, <2>4
<1>. QED  BY <1>2, <1>3

\* Its second line carries its data.
LEMMA LineOfData ==
  ASSUME Fed, source = "relay", NEW c \in BOOLEAN, NEW n \in 0 .. Len(wire), NEW k \in 0 .. Len(script) - 1,
         NEW x, Window(c, x, wire, BodyEnd[k] + 3, n)
  PROVE  LET L == Len(script[k + 1].data)
             line == SubSeq(x, 1, L + 1)
         IN  /\ BodyEnd[k + 1] = BodyEnd[k] + L + 6 /\ L \in Nat
             /\ Newlines(x) # {} <=> BodyEnd[k + 1] - 1 <= n
             /\ Newlines(x) # {} => /\ First(Newlines(x)) = L + 2
                                    /\ line # <<>> /\ line[1] = "data:" /\ Tail(line) \in Seq(Words)
                                    /\ Alike(c, Tail(line), script[k + 1].data)
                                    /\ Window(c, After(x, L + 2), wire, BodyEnd[k + 1] - 1, n)
<1>. DEFINE b == BodyEnd[k]
            data == script[k + 1].data
            L == Len(data)
            line == SubSeq(x, 1, L + 1)
            o == b + 3
            q == o + L + 2
<1>0. /\ Len(script) \in Nat /\ n \in Nat /\ Len(wire) \in Nat
      /\ k + 1 \in 1 .. Len(script) /\ k \in 0 .. Len(script) - 1 /\ k \in 0 .. Len(script)
  <2>1. wire \in Seq(Words)
    BY StreamIs
  <2>2. Len(script) \in Nat
    BY ScriptIs
  <2>. QED  BY <2>1, <2>2
<1>1. /\ b \in Nat /\ BodyEnd[k + 1] = b + L + 6
      /\ wire[b + 3] = "nl" /\ wire[b + 4] = "data:"
      /\ \A j \in 1 .. L : wire[b + 4 + j] = data[j]
      /\ wire[b + L + 5] = "nl"
  BY <1>0, WireFramed DEF BodyFramed
<1>2. data \in Seq(Words) /\ L \in Nat /\ "nl" \notin ToSet(data)
  <2>1. data \in Seq(Words) /\ "nl" \notin ToSet(data)
    BY <1>0, ScriptIs
  <2>. HIDE DEF data
  <2>. QED  BY <2>1
<1>3. \A j \in 1 .. L : data[j] # "nl"
  BY <1>2 DEF ToSet
<1>4. Window(c, x, wire, o, n)
  OBVIOUS
<1>. HIDE DEF b, data, L
<1>5. /\ o \in Nat /\ q \in Nat /\ o < q /\ BodyEnd[k + 1] - 1 = q /\ q - o = L + 2
      /\ b + 4 = o + 1 /\ b + L + 5 = q
  BY <1>1, <1>2
<1>6. wire[o + 1] = "data:" /\ wire[q] = "nl" /\ \A j \in 1 .. L : wire[o + 1 + j] = data[j]
  <2>1. \A j \in 1 .. L : b + 4 + j = o + 1 + j
    BY <1>5
  <2>. QED  BY <1>1, <1>5, <2>1
<1>. HIDE DEF o, q
<1>7. \A i \in o + 1 .. q - 1 : wire[i] # "nl"
  <2>1. ASSUME NEW i \in o + 1 .. q - 1 PROVE wire[i] # "nl"
    <3>1. CASE i = o + 1
      BY <1>6, <3>1
    <3>2. CASE i # o + 1
      <4>1. i - (o + 1) \in 1 .. L /\ i = o + 1 + (i - (o + 1))
        BY <1>2, <1>5, <3>2
      <4>2. PICK j \in 1 .. L : i = o + 1 + j
        BY <4>1
      <4>. QED  BY <1>3, <1>6, <4>2
    <3>. QED  BY <3>1, <3>2
  <2>. QED  BY <2>1
<1>8. /\ Newlines(x) # {} <=> q <= n
      /\ q <= n => First(Newlines(x)) = q - o
  BY <1>0, <1>4, <1>5, <1>6, <1>7, FirstNewline
<1>9. ASSUME q <= n
      PROVE  /\ line # <<>> /\ line[1] = "data:" /\ Tail(line) \in Seq(Words)
             /\ Alike(c, Tail(line), data)
             /\ Window(c, After(x, L + 2), wire, q, n)
  <2>1. x \in Seq(Words) /\ Len(x) = n - o /\ \A i \in 1 .. Len(x) : Seen(c, x[i]) = Seen(c, wire[o + i])
    BY <1>4 DEF Window
  <2>2. L + 2 \in 0 .. Len(x) /\ 1 \in 1 .. Len(x) /\ Len(x) \in Nat /\ L + 1 <= Len(x) /\ o + (L + 2) = q
    BY <1>0, <1>2, <1>5, <1>9, <2>1
  <2>3. /\ line \in Seq(Words) /\ Len(line) = L + 1 /\ \A i \in 1 .. L + 1 : line[i] = x[i]
    BY <1>2, <2>1, <2>2
  <2>4. x[1] = "data:"
    <3>1. \A i \in 1 .. Len(x) : x[i] = wire[o + i] \/ (x[i] \in Text /\ wire[o + i] \in Text)
      BY <1>0, <1>4, <1>5, WindowText
    <3>. QED  BY <1>6, <2>2, <3>1, NotText
  <2>. HIDE DEF line
  <2>5. line # <<>> /\ line[1] = "data:"
    BY <1>2, <2>3, <2>4
  <2>6. Tail(line) \in Seq(Words) /\ Len(Tail(line)) = L /\ \A j \in 1 .. L : Tail(line)[j] = line[j + 1]
    BY <1>2, <2>3, <2>5
  <2>7. ASSUME NEW j \in 1 .. L PROVE Seen(c, Tail(line)[j]) = Seen(c, data[j])
    <3>1. j + 1 \in 1 .. L + 1 /\ j + 1 \in 1 .. Len(x) /\ o + (j + 1) = o + 1 + j
      BY <1>2, <1>5, <2>2
    <3>2. Seen(c, x[j + 1]) = Seen(c, wire[o + (j + 1)])
      BY <2>1, <3>1
    <3>3. Tail(line)[j] = x[j + 1] /\ wire[o + (j + 1)] = data[j]
      BY <1>6, <2>3, <2>6, <3>1
    <3>. QED  BY <3>2, <3>3
  <2>8. Alike(c, Tail(line), data)
    BY <2>6, <2>7 DEF Alike, L
  <2>9. Window(c, After(x, L + 2), wire, q, n)
    BY <1>0, <1>4, <1>5, <2>2, WindowSplit
  <2>. QED  BY <2>5, <2>6, <2>8, <2>9
<1>. QED  BY <1>1, <1>2, <1>5, <1>8, <1>9 DEF b, L, data

\* Its third one is empty.
LEMMA LineOfNone ==
  ASSUME Fed, source = "relay", NEW c \in BOOLEAN, NEW n \in 0 .. Len(wire), NEW k \in 1 .. Len(script),
         NEW x, Window(c, x, wire, BodyEnd[k] - 1, n)
  PROVE  /\ BodyEnd[k] - 1 \in Nat
         /\ Newlines(x) # {} <=> BodyEnd[k] <= n
         /\ Newlines(x) # {} => /\ First(Newlines(x)) = 1 /\ SubSeq(x, 1, 0) = <<>>
                                /\ Window(c, After(x, 1), wire, BodyEnd[k], n)
<1>. DEFINE o == BodyEnd[k] - 1
            q == BodyEnd[k]
<1>0. Len(script) \in Nat /\ n \in Nat
  <2>1. wire \in Seq(Words)
    BY StreamIs
  <2>2. Len(script) \in Nat
    BY ScriptIs
  <2>. QED  BY <2>1, <2>2
<1>1. PICK m \in 0 .. Len(script) - 1 : k = m + 1
  <2>1. k - 1 \in 0 .. Len(script) - 1 /\ k = (k - 1) + 1
    BY <1>0
  <2>. QED  BY <2>1
<1>2. /\ BodyEnd[m] \in Nat /\ BodyEnd[m + 1] = BodyEnd[m] + Len(script[m + 1].data) + 6
      /\ wire[BodyEnd[m] + Len(script[m + 1].data) + 6] = "nl"
  <2>1. m \in 0 .. Len(script)
    BY <1>0
  <2>. QED  BY <2>1, WireFramed DEF BodyFramed
<1>3. Len(script[m + 1].data) \in Nat
  <2>1. script[m + 1].data \in Seq(Words)
    BY <1>1, ScriptIs
  <2>. QED  BY <2>1
<1>4. o \in Nat /\ q \in Nat /\ q = o + 1 /\ wire[q] = "nl" /\ q - o = 1
  <2>. DEFINE L == Len(script[m + 1].data)
              b == BodyEnd[m]
  <2>1. q = b + L + 6 /\ wire[b + L + 6] = "nl" /\ b \in Nat /\ L \in Nat
    BY <1>1, <1>2, <1>3
  <2>. HIDE DEF L, b
  <2>. QED  BY <2>1
<1>5. Window(c, x, wire, o, n)
  OBVIOUS
<1>. HIDE DEF o, q
<1>6. /\ Newlines(x) # {} <=> q <= n
      /\ q <= n => First(Newlines(x)) = q - o
  <2>1. \A i \in o + 1 .. q - 1 : FALSE
    BY <1>4
  <2>2. o < q
    BY <1>4
  <2>. QED  BY <1>0, <1>4, <1>5, <2>1, <2>2, FirstNewline
<1>7. ASSUME q <= n PROVE Window(c, After(x, 1), wire, q, n)
  <2>1. x \in Seq(Words) /\ Len(x) = n - o
    BY <1>5 DEF Window
  <2>2. 1 \in 0 .. Len(x)
    BY <1>0, <1>4, <1>7, <2>1
  <2>. QED  BY <1>0, <1>4, <1>5, <2>2, WindowSplit
<1>8. SubSeq(x, 1, 0) = <<>>
  <2>1. x \in Seq(Words)
    BY <1>5 DEF Window
  <2>. QED  BY <2>1
<1>. QED  BY <1>4, <1>6, <1>7, <1>8 DEF o, q

-----------------------------------------------------------------------------
(* What is said and called by the first payloads, and the lines for them.  *)

\* Line by line alike: the same flags and calls, and texts that are alike.
SameLines(c, x, y) ==
    /\ x \in Seq(NdjsonLines) /\ y \in Seq(NdjsonLines) /\ Len(x) = Len(y)
    /\ \A i \in 1 .. Len(x) :
          x[i].done = y[i].done /\ x[i].tools = y[i].tools /\ Alike(c, x[i].text, y[i].text)

LinesTo(P, d) == FlattenSeq([k \in 1 .. d |-> Lines(P, k)])

\* A sequence of sequences gathered up to one more place.
LEMMA GatherNext ==
  ASSUME NEW V, NEW s \in Seq(Seq(V)), NEW n \in 0 .. Len(s) - 1
  PROVE  /\ FlattenSeq([j \in 1 .. n |-> s[j]]) \in Seq(V) /\ s[n + 1] \in Seq(V)
         /\ FlattenSeq([j \in 1 .. n + 1 |-> s[j]]) = FlattenSeq([j \in 1 .. n |-> s[j]]) \o s[n + 1]
<1>1. n + 1 \in 1 .. Len(s) /\ n \in 0 .. Len(s)
  OBVIOUS
<1>2. /\ FlattenSeq(SubSeq(s, 1, n + 1)) = FlattenSeq(SubSeq(s, 1, n)) \o s[n + 1]
      /\ FlattenSeq(SubSeq(s, 1, n)) \in Seq(V) /\ s[n + 1] \in Seq(V)
  BY <1>1, FlattenNext
<1>3. SubSeq(s, 1, n) = [j \in 1 .. n |-> s[j]]
  OBVIOUS
<1>4. SubSeq(s, 1, n + 1) = [j \in 1 .. n + 1 |-> s[j]]
  OBVIOUS
<1>. QED  BY <1>2, <1>3, <1>4

\* Of no sequences nothing comes.
LEMMA FlattenNone == ASSUME NEW f PROVE FlattenSeq([j \in 1 .. 0 |-> f[j]]) = <<>>
<1>1. [j \in 1 .. 0 |-> f[j]] = <<>>
  OBVIOUS
<1>2. FlattenSeq(<<>>) = <<>>
  BY DEF FlattenSeq
<1>. QED  BY <1>1, <1>2

\* What a payload says and calls are words.
LEMMA SpokenIs ==
  ASSUME NEW x \in Seq(Words) PROVE Spoken(x) \in Seq(Words) /\ ToolPart(x) \in Seq(Words)
<1>1. Alike(FALSE, x, x)
  BY AlikeSelf
<1>. QED  BY <1>1, SpokenAlike

\* More is said by more payloads.
LEMMA SaidNext ==
  ASSUME NEW P \in Seq(Seq(Words)), NEW n \in 0 .. Len(P) - 1
  PROVE  /\ SpokenBy(P, n) \in Seq(Words) /\ SpokenBy(P, n + 1) = SpokenBy(P, n) \o Spoken(P[n + 1])
         /\ CalledBy(P, n) \in Seq(Words) /\ CalledBy(P, n + 1) = CalledBy(P, n) \o ToolPart(P[n + 1])
<1>. DEFINE N == Len(P)
            s == [j \in 1 .. N |-> Spoken(P[j])]
            t == [j \in 1 .. N |-> ToolPart(P[j])]
<1>1. N \in Nat /\ n + 1 \in 1 .. N /\ \A j \in 1 .. N : P[j] \in Seq(Words)
  OBVIOUS
<1>2. \A j \in 1 .. N : Spoken(P[j]) \in Seq(Words) /\ ToolPart(P[j]) \in Seq(Words)
  BY <1>1, SpokenIs
<1>. HIDE DEF N
<1>3. s \in Seq(Seq(Words)) /\ Len(s) = N /\ t \in Seq(Seq(Words)) /\ Len(t) = N
  <2>1. s \in [1 .. N -> Seq(Words)] /\ t \in [1 .. N -> Seq(Words)]
    BY <1>2
  <2>. HIDE DEF s, t
  <2>. QED  BY <1>1, <2>1
<1>4. ASSUME NEW k \in 0 .. N
      PROVE  /\ SpokenBy(P, k) = FlattenSeq([j \in 1 .. k |-> s[j]])
             /\ CalledBy(P, k) = FlattenSeq([j \in 1 .. k |-> t[j]])
  <2>1. \A j \in 1 .. k : j \in 1 .. N
    BY <1>1
  <2>2. [j \in 1 .. k |-> s[j]] = [j \in 1 .. k |-> Spoken(P[j])]
    BY <2>1
  <2>3. [j \in 1 .. k |-> t[j]] = [j \in 1 .. k |-> ToolPart(P[j])]
    BY <2>1
  <2>. QED  BY <2>2, <2>3 DEF SpokenBy, CalledBy
<1>5. s[n + 1] = Spoken(P[n + 1]) /\ t[n + 1] = ToolPart(P[n + 1])
  BY <1>1
<1>. HIDE DEF s, t
<1>6. /\ FlattenSeq([j \in 1 .. n |-> s[j]]) \in Seq(Words)
      /\ FlattenSeq([j \in 1 .. n + 1 |-> s[j]]) = FlattenSeq([j \in 1 .. n |-> s[j]]) \o s[n + 1]
  <2>1. n \in 0 .. Len(s) - 1
    BY <1>3 DEF N
  <2>. QED  BY <1>3, <2>1, GatherNext
<1>7. /\ FlattenSeq([j \in 1 .. n |-> t[j]]) \in Seq(Words)
      /\ FlattenSeq([j \in 1 .. n + 1 |-> t[j]]) = FlattenSeq([j \in 1 .. n |-> t[j]]) \o t[n + 1]
  <2>1. n \in 0 .. Len(t) - 1
    BY <1>3 DEF N
  <2>. QED  BY <1>3, <2>1, GatherNext
<1>8. n \in 0 .. N /\ n + 1 \in 0 .. N
  BY <1>1 DEF N
<1>. QED  BY <1>4, <1>5, <1>6, <1>7, <1>8

\* What the first payloads say and call are words.
LEMMA SaidType ==
  ASSUME NEW P \in Seq(Seq(Words)), NEW n \in 0 .. Len(P)
  PROVE  SpokenBy(P, n) \in Seq(Words) /\ CalledBy(P, n) \in Seq(Words)
<1>1. CASE n = 0
  <2>. DEFINE s == [j \in 1 .. 0 |-> Spoken(P[j])]
              t == [j \in 1 .. 0 |-> ToolPart(P[j])]
  <2>1. s = <<>> /\ t = <<>>
    OBVIOUS
  <2>2. FlattenSeq(<<>>) = <<>> /\ <<>> \in Seq(Words)
    BY DEF FlattenSeq
  <2>3. SpokenBy(P, n) = FlattenSeq(s) /\ CalledBy(P, n) = FlattenSeq(t)
    BY <1>1 DEF SpokenBy, CalledBy
  <2>. HIDE DEF s, t
  <2>. QED  BY <2>1, <2>2, <2>3
<1>2. CASE n # 0
  <2>1. PICK m \in 0 .. Len(P) - 1 : n = m + 1
    <3>1. n - 1 \in 0 .. Len(P) - 1 /\ n = (n - 1) + 1
      BY <1>2
    <3>. QED  BY <3>1
  <2>2. /\ SpokenBy(P, m) \in Seq(Words) /\ SpokenBy(P, n) = SpokenBy(P, m) \o Spoken(P[n])
        /\ CalledBy(P, m) \in Seq(Words) /\ CalledBy(P, n) = CalledBy(P, m) \o ToolPart(P[n])
    BY <2>1, SaidNext
  <2>3. P[n] \in Seq(Words)
    BY <2>1
  <2>4. Spoken(P[n]) \in Seq(Words) /\ ToolPart(P[n]) \in Seq(Words)
    BY <2>3, SpokenIs
  <2>. QED  BY <2>2, <2>4
<1>. QED  BY <1>1, <1>2

\* The fields of an NDJSON line.
LEMMA LineIs ==
  ASSUME NEW said \in Seq(Words), NEW called \in Seq(Words)
  PROVE  /\ Closing(said, called) \in NdjsonLines /\ Saying(said) \in NdjsonLines
         /\ Closing(said, called).done = TRUE /\ Closing(said, called).text = said
         /\ Closing(said, called).tools = called
         /\ Saying(said).done = FALSE /\ Saying(said).text = said /\ Saying(said).tools = <<>>
<1>1. <<>> \in Seq(Words)
  OBVIOUS
<1>. QED  BY <1>1 DEF Closing, Saying, NdjsonLines

\* A payload becomes one line at most.
LEMMA LinesType ==
  ASSUME NEW P \in Seq(Seq(Words)), NEW k \in 1 .. Len(P)
  PROVE  Lines(P, k) \in Seq(NdjsonLines) /\ Len(Lines(P, k)) \in 0 .. 1
<1>1. k - 1 \in 0 .. Len(P) /\ P[k] \in Seq(Words)
  OBVIOUS
<1>2. SpokenBy(P, k - 1) \in Seq(Words) /\ CalledBy(P, k - 1) \in Seq(Words) /\ Spoken(P[k]) \in Seq(Words)
  BY <1>1, SaidType, SpokenIs
<1>3. /\ Closing(SpokenBy(P, k - 1), CalledBy(P, k - 1)) \in NdjsonLines
      /\ Saying(Spoken(P[k])) \in NdjsonLines
  BY <1>2, LineIs
<1>4. ASSUME NEW l \in NdjsonLines PROVE <<l>> \in Seq(NdjsonLines) /\ Len(<<l>>) \in 0 .. 1
  OBVIOUS
<1>5. <<>> \in Seq(NdjsonLines) /\ Len(<<>>) \in 0 .. 1
  OBVIOUS
<1>6. CASE P[k] = Done
  <2>1. Lines(P, k) = <<Closing(SpokenBy(P, k - 1), CalledBy(P, k - 1))>>
    BY <1>6 DEF Lines
  <2>. QED  BY <1>3, <1>4, <2>1
<1>7. CASE P[k] # Done /\ Spoken(P[k]) = <<>>
  <2>1. Lines(P, k) = <<>>
    BY <1>7 DEF Lines
  <2>. QED  BY <1>5, <2>1
<1>8. CASE P[k] # Done /\ Spoken(P[k]) # <<>>
  <2>1. Lines(P, k) = <<Saying(Spoken(P[k]))>>
    BY <1>8 DEF Lines
  <2>. QED  BY <1>3, <1>4, <2>1
<1>. QED  BY <1>6, <1>7, <1>8

\* The lines of one more payload are its own after those before.
LEMMA LinesNext ==
  ASSUME NEW P \in Seq(Seq(Words)), NEW n \in 0 .. Len(P) - 1
  PROVE  /\ LinesTo(P, n) \in Seq(NdjsonLines)
         /\ LinesTo(P, n + 1) = LinesTo(P, n) \o Lines(P, n + 1)
<1>. DEFINE N == Len(P)
            s == [j \in 1 .. N |-> Lines(P, j)]
<1>1. N \in Nat /\ n + 1 \in 1 .. N /\ n \in 0 .. N /\ n + 1 \in 0 .. N
  OBVIOUS
<1>2. \A j \in 1 .. N : Lines(P, j) \in Seq(NdjsonLines)
  BY LinesType
<1>. HIDE DEF N
<1>3. s \in Seq(Seq(NdjsonLines)) /\ Len(s) = N
  <2>1. s \in [1 .. N -> Seq(NdjsonLines)]
    BY <1>2
  <2>. HIDE DEF s
  <2>. QED  BY <1>1, <2>1
<1>4. ASSUME NEW k \in 0 .. N PROVE LinesTo(P, k) = FlattenSeq([j \in 1 .. k |-> s[j]])
  <2>1. \A j \in 1 .. k : j \in 1 .. N
    BY <1>1
  <2>2. [j \in 1 .. k |-> s[j]] = [j \in 1 .. k |-> Lines(P, j)]
    BY <2>1
  <2>. QED  BY <2>2 DEF LinesTo
<1>5. s[n + 1] = Lines(P, n + 1)
  BY <1>1
<1>. HIDE DEF s
<1>6. /\ FlattenSeq([j \in 1 .. n |-> s[j]]) \in Seq(NdjsonLines)
      /\ FlattenSeq([j \in 1 .. n + 1 |-> s[j]]) = FlattenSeq([j \in 1 .. n |-> s[j]]) \o s[n + 1]
  <2>1. n \in 0 .. Len(s) - 1
    BY <1>3 DEF N
  <2>. QED  BY <1>3, <2>1, GatherNext
<1>. QED  BY <1>1, <1>4, <1>5, <1>6

\* Of no payloads nothing is said, called or written.
LEMMA LinesNone ==
  ASSUME NEW P \in Seq(Seq(Words))
  PROVE  /\ LinesTo(P, 0) = <<>> /\ SpokenBy(P, 0) = <<>> /\ CalledBy(P, 0) = <<>>
<1>. DEFINE r == [j \in 1 .. 0 |-> Lines(P, j)]
            s == [j \in 1 .. 0 |-> Spoken(P[j])]
            t == [j \in 1 .. 0 |-> ToolPart(P[j])]
<1>1. s = <<>> /\ t = <<>> /\ r = <<>>
  OBVIOUS
<1>2. FlattenSeq(<<>>) = <<>>
  BY DEF FlattenSeq
<1>3. LinesTo(P, 0) = FlattenSeq(r) /\ SpokenBy(P, 0) = FlattenSeq(s) /\ CalledBy(P, 0) = FlattenSeq(t)
  BY DEF LinesTo, SpokenBy, CalledBy
<1>. HIDE DEF r, s, t
<1>. QED  BY <1>1, <1>2, <1>3

\* One line more.
LEMMA SameAppend ==
  ASSUME NEW c, NEW x, NEW y, SameLines(c, x, y), NEW k \in NdjsonLines, NEW l \in NdjsonLines,
         k.done = l.done, k.tools = l.tools, Alike(c, k.text, l.text)
  PROVE  SameLines(c, Append(x, k), y \o <<l>>)
<1>. DEFINE a == Append(x, k)
            b == y \o <<l>>
            N == Len(x)
<1>1. /\ x \in Seq(NdjsonLines) /\ y \in Seq(NdjsonLines) /\ Len(y) = N
      /\ \A i \in 1 .. N : x[i].done = y[i].done /\ x[i].tools = y[i].tools /\ Alike(c, x[i].text, y[i].text)
  BY DEF SameLines
<1>2. N \in Nat /\ a \in Seq(NdjsonLines) /\ Len(a) = N + 1 /\ a[N + 1] = k /\ \A i \in 1 .. N : a[i] = x[i]
  BY <1>1
<1>3. b \in Seq(NdjsonLines) /\ Len(b) = N + 1 /\ b[N + 1] = l /\ \A i \in 1 .. N : b[i] = y[i]
  BY <1>1
<1>. HIDE DEF a, b, N
<1>4. ASSUME NEW i \in 1 .. N + 1
      PROVE  a[i].done = b[i].done /\ a[i].tools = b[i].tools /\ Alike(c, a[i].text, b[i].text)
  <2>1. CASE i = N + 1
    BY <1>2, <1>3, <2>1
  <2>2. CASE i # N + 1
    <3>1. i \in 1 .. N
      BY <1>2, <2>2
    <3>. QED  BY <1>1, <1>2, <1>3, <3>1
  <2>. QED  BY <2>1, <2>2
<1>. QED  BY <1>2, <1>3, <1>4 DEF SameLines, a, b

\* [DONE] is a payload that says and calls nothing.
LEMMA DoneIs ==
  /\ Done \in Seq(Words) /\ Len(Done) = 1 /\ Done[1] = "[DONE]"
  /\ Spoken(Done) = <<>> /\ ToolPart(Done) = <<>>
<1>1. "[DONE]" \in Words /\ "[DONE]" \notin Text /\ "[DONE]" \notin Tools
  BY StreamingAssumption DEF Markup
<1>2. Done \in Seq(Words) /\ Len(Done) = 1 /\ Done[1] = "[DONE]"
  BY <1>1 DEF Done
<1>3. Only(Done, Text) = <<>> /\ Only(Done, Tools) = <<>>
  BY <1>1, <1>2, OnlyNone
<1>4. ToolPart(Done) = <<>>
  BY <1>3 DEF ToolPart
<1>. QED  BY <1>2, <1>3, <1>4 DEF Spoken

-----------------------------------------------------------------------------
(* One event translated.                                                   *)

\* What a buffer's next complete event is, as TranslateEvent reads it.
LineOf(b) == SubSeq(b, 1, First(Breaks(b)) - 1)
DataOf(b) == IF LineOf(b) # <<>> /\ LineOf(b)[1] = "data:" THEN Tail(LineOf(b)) ELSE LineOf(b)
Closes(b) == LineOf(b) # <<>> /\ IsDone(DataOf(b))

\* Nothing else is like Done.
LEMMA AlikeDone ==
  ASSUME NEW c \in BOOLEAN, NEW u \in Seq(Words), NEW v \in Seq(Words), Alike(c, u, v), u = Done
  PROVE  v = Done
<1>1. Len(u) = 1 /\ u[1] = "[DONE]" /\ Len(Done) = 1 /\ Done[1] = "[DONE]" /\ Done \in Seq(Words)
  BY DoneIs
<1>2. Len(v) = 1 /\ Seen(c, u[1]) = Seen(c, v[1])
  <2>1. Len(u) = Len(v) /\ \A i \in 1 .. Len(u) : Seen(c, u[i]) = Seen(c, v[i])
    BY DEF Alike
  <2>2. Len(u) = Len(v)
    BY DEF Alike
  <2>3. Len(v) = 1
    BY <1>1, <2>2
  <2>4. 1 \in 1 .. Len(u)
    BY <1>1
  <2>. QED  BY <2>1, <2>3, <2>4
<1>3. v[1] = u[1]
  <2>1. u[1] \notin Text
    BY <1>1, NotText
  <2>. QED  BY <1>2, <2>1, SeenIs
<1>4. \A x \in Seq(Words), y \in Seq(Words) : Len(x) = 1 /\ Len(y) = 1 /\ x[1] = y[1] => x = y
  OBVIOUS
<1>. QED  BY <1>1, <1>2, <1>3, <1>4

\* The next event of a buffer that begins where one does is the next payload.
LEMMA EventIs ==
  ASSUME NEW S, NEW E, NEW P, Clean(P), Framed(S, E, P, 1, 2), NEW c \in BOOLEAN,
         NEW d \in 0 .. Len(P) - 1, NEW m \in Nat, m <= Len(S), E[d] <= m, NEW x,
         Window(c, x, S, E[d], m), Breaks(x) # {}
  PROVE  /\ E[d + 1] <= m /\ Window(c, After(x, First(Breaks(x)) + 1), S, E[d + 1], m)
         /\ DataOf(x) \in Seq(Words) /\ Alike(c, DataOf(x), P[d + 1])
         /\ Closes(x) <=> P[d + 1] = Done
<1>. DEFINE L == Len(P[d + 1])
            e == E[d]
            p == P[d + 1]
            line == LineOf(x)
<1>1. /\ d \in 0 .. Len(P) /\ d + 1 \in 1 .. Len(P) /\ d < Len(P) /\ Len(P) \in Nat
  BY DEF Clean
<1>2. p \in Seq(Words) /\ L \in Nat /\ p # <<>> /\ L > 0 /\ e \in Nat
  <2>1. p \in Seq(Words) /\ p # <<>>
    BY <1>1 DEF Clean
  <2>2. e \in Nat
    BY <1>1 DEF Framed
  <2>. HIDE DEF p, e
  <2>. QED  BY <2>1, <2>2 DEF p
<1>3. E[d + 1] = e + 1 + L + 2 /\ S[e + 1] = "data:" /\ \A j \in 1 .. L : S[e + 1 + j] = p[j]
  BY DEF Framed
<1>4. E[d + 1] <= m /\ First(Breaks(x)) = L + 2 /\ L + 3 <= Len(x)
  <2>1. /\ Breaks(x) # {} <=> (d < Len(P) /\ E[d + 1] <= m)
        /\ Breaks(x) # {} => First(Breaks(x)) = L + 2 /\ First(Breaks(x)) + 1 <= Len(x)
    BY <1>1, NextEvent
  <2>. HIDE DEF L
  <2>. QED  BY <1>2, <2>1
<1>5. Window(c, x, S, e, m)
  OBVIOUS
<1>6. "[DONE]" \in ToSet(p) => p = Done
  BY <1>1 DEF Clean
<1>. HIDE DEF e, L, p
<1>7. x \in Seq(Words) /\ Len(x) = m - e /\ \A i \in 1 .. Len(x) : Seen(c, x[i]) = Seen(c, S[e + i])
  BY <1>5 DEF Window
<1>8. L + 2 \in 0 .. Len(x) /\ L + 3 \in 0 .. Len(x) /\ 1 \in 1 .. Len(x) /\ L + 1 <= Len(x) /\ Len(x) \in Nat
  BY <1>2, <1>4, <1>7
<1>9. line \in Seq(Words) /\ Len(line) = L + 1 /\ \A i \in 1 .. L + 1 : line[i] = x[i]
  <2>1. line = SubSeq(x, 1, L + 1)
    BY <1>2, <1>4 DEF LineOf
  <2>. HIDE DEF line
  <2>. QED  BY <1>2, <1>7, <1>8, <2>1
<1>10. x[1] = "data:"
  <2>1. \A i \in 1 .. Len(x) : x[i] = S[e + i] \/ (x[i] \in Text /\ S[e + i] \in Text)
    BY <1>2, <1>5, WindowText
  <2>. QED  BY <1>3, <1>8, <2>1, NotText
<1>. HIDE DEF line
<1>11. line # <<>> /\ line[1] = "data:"
  BY <1>2, <1>9, <1>10
<1>12. /\ DataOf(x) = Tail(line) /\ DataOf(x) \in Seq(Words) /\ Len(DataOf(x)) = L
       /\ \A j \in 1 .. L : DataOf(x)[j] = x[j + 1]
  <2>1. DataOf(x) = Tail(line)
    BY <1>11 DEF DataOf, line
  <2>2. Tail(line) \in Seq(Words) /\ Len(Tail(line)) = L /\ \A j \in 1 .. L : Tail(line)[j] = line[j + 1]
    BY <1>2, <1>9
  <2>3. \A j \in 1 .. L : j + 1 \in 1 .. L + 1
    BY <1>2
  <2>. QED  BY <1>9, <2>1, <2>2, <2>3
<1>13. Alike(c, DataOf(x), p)
  <2>1. ASSUME NEW j \in 1 .. L PROVE Seen(c, DataOf(x)[j]) = Seen(c, p[j])
    <3>1. j + 1 \in 1 .. Len(x) /\ e + (j + 1) = e + 1 + j
      BY <1>2, <1>8
    <3>2. Seen(c, x[j + 1]) = Seen(c, S[e + (j + 1)])
      BY <1>7, <3>1
    <3>. QED  BY <1>3, <1>12, <3>1, <3>2
  <2>2. Len(p) = L
    BY DEF p, L
  <2>. QED  BY <1>12, <2>1, <2>2 DEF Alike
<1>14. Window(c, After(x, First(Breaks(x)) + 1), S, E[d + 1], m)
  <2>1. First(Breaks(x)) + 1 = L + 3 /\ E[d + 1] = e + (L + 3)
    BY <1>2, <1>3, <1>4
  <2>2. Window(c, After(x, L + 3), S, e + (L + 3), m)
    BY <1>2, <1>5, <1>8, WindowSplit
  <2>. QED  BY <2>1, <2>2
<1>15. Closes(x) <=> p = Done
  <2>1. DataOf(x) # <<>>
    BY <1>2, <1>12
  <2>2. Closes(x) <=> DataOf(x) = Done
    BY <1>11, <2>1 DEF Closes, IsDone, line
  <2>4. ASSUME DataOf(x) = Done PROVE p = Done
    BY <1>2, <1>12, <1>13, <2>4, AlikeDone
  <2>5. ASSUME p = Done PROVE DataOf(x) = Done
    <3>1. Alike(c, p, DataOf(x))
      BY <1>13, AlikeBack
    <3>. QED  BY <1>2, <1>12, <2>5, <3>1, AlikeDone
  <2>. QED  BY <2>2, <2>4, <2>5
<1>. QED  BY <1>4, <1>12, <1>13, <1>14, <1>15 DEF p

\* What the translation holds after d payloads, m symbols having arrived.
Told(c, P, S, E, d, m, b, tx, tl, o) ==
    /\ E[d] <= m /\ Window(c, b, S, E[d], m)
    /\ tx \in Seq(Words) /\ Alike(c, tx, SpokenBy(P, d))
    /\ tl = CalledBy(P, d)
    /\ SameLines(c, o, LinesTo(P, d))

\* What TranslateEvent makes of what it holds.
NextTools(b, tl) == IF Closes(b) THEN tl ELSE tl \o ToolPart(DataOf(b))
NextText(b, tx) == IF Closes(b) THEN tx ELSE tx \o Spoken(DataOf(b))
NextOut(b, tx, tl, o) ==
    IF Closes(b) THEN Append(o, Closing(tx, tl))
    ELSE IF Spoken(DataOf(b)) # <<>> THEN Append(o, Saying(Spoken(DataOf(b))))
    ELSE o

\* Taking the line of a payload brings the translation one payload further.
LEMMA Translating ==
  ASSUME NEW S, NEW E, NEW P, Clean(P), Framed(S, E, P, 1, 2), NEW c \in BOOLEAN,
         NEW d \in 0 .. Len(P), NEW m \in Nat, m <= Len(S), NEW b, NEW tx, NEW tl, NEW o,
         Told(c, P, S, E, d, m, b, tx, tl, o), Breaks(b) # {}
  PROVE  /\ d + 1 \in 0 .. Len(P)
         /\ Told(c, P, S, E, d + 1, m, After(b, First(Breaks(b)) + 1),
                 NextText(b, tx), NextTools(b, tl), NextOut(b, tx, tl, o))
<1>. DEFINE p == P[d + 1]
            data == DataOf(b)
<1>1. /\ E[d] <= m /\ Window(c, b, S, E[d], m) /\ tx \in Seq(Words) /\ Alike(c, tx, SpokenBy(P, d))
      /\ tl = CalledBy(P, d) /\ SameLines(c, o, LinesTo(P, d))
  BY DEF Told
<1>2. d \in 0 .. Len(P) - 1 /\ d + 1 \in 0 .. Len(P) /\ d + 1 \in 1 .. Len(P)
  <2>1. d < Len(P)
    BY <1>1, NextEvent
  <2>2. Len(P) \in Nat
    BY DEF Clean
  <2>. QED  BY <2>1, <2>2
<1>3. /\ E[d + 1] <= m /\ Window(c, After(b, First(Breaks(b)) + 1), S, E[d + 1], m)
      /\ data \in Seq(Words) /\ Alike(c, data, p)
      /\ Closes(b) <=> p = Done
  BY <1>1, <1>2, EventIs
<1>4. P \in Seq(Seq(Words)) /\ p \in Seq(Words)
  BY <1>2 DEF Clean
<1>5. /\ SpokenBy(P, d) \in Seq(Words) /\ SpokenBy(P, d + 1) = SpokenBy(P, d) \o Spoken(p)
      /\ CalledBy(P, d) \in Seq(Words) /\ CalledBy(P, d + 1) = CalledBy(P, d) \o ToolPart(p)
  BY <1>2, <1>4, SaidNext
<1>6. LinesTo(P, d) \in Seq(NdjsonLines) /\ LinesTo(P, d + 1) = LinesTo(P, d) \o Lines(P, d + 1)
  BY <1>2, <1>4, LinesNext
<1>7. \A k \in NdjsonLines, l \in NdjsonLines :
         k.done = l.done /\ k.tools = l.tools /\ Alike(c, k.text, l.text)
            => SameLines(c, Append(o, k), LinesTo(P, d) \o <<l>>)
  BY <1>1, SameAppend
<1>8. (d + 1) - 1 = d
  BY <1>2
<1>. HIDE DEF p, data
<1>9. /\ NextText(b, tx) \in Seq(Words) /\ Alike(c, NextText(b, tx), SpokenBy(P, d + 1))
      /\ NextTools(b, tl) = CalledBy(P, d + 1)
      /\ SameLines(c, NextOut(b, tx, tl, o), LinesTo(P, d + 1))
  <2>1. CASE p = Done
    <3>1. Spoken(p) = <<>> /\ ToolPart(p) = <<>>
      BY <2>1, DoneIs
    <3>2. SpokenBy(P, d + 1) = SpokenBy(P, d) /\ CalledBy(P, d + 1) = CalledBy(P, d)
      BY <1>5, <3>1
    <3>3. Lines(P, d + 1) = <<Closing(SpokenBy(P, d), CalledBy(P, d))>>
      BY <1>8, <2>1 DEF Lines, p
    <3>4. SameLines(c, Append(o, Closing(tx, tl)), LinesTo(P, d) \o <<Closing(SpokenBy(P, d), CalledBy(P, d))>>)
      <4>1. /\ Closing(tx, tl) \in NdjsonLines /\ Closing(SpokenBy(P, d), CalledBy(P, d)) \in NdjsonLines
            /\ Closing(tx, tl).done = Closing(SpokenBy(P, d), CalledBy(P, d)).done
            /\ Closing(tx, tl).tools = Closing(SpokenBy(P, d), CalledBy(P, d)).tools
            /\ Closing(tx, tl).text = tx
            /\ Closing(SpokenBy(P, d), CalledBy(P, d)).text = SpokenBy(P, d)
        <5>1. tl \in Seq(Words) /\ tl = CalledBy(P, d) /\ tx \in Seq(Words)
          BY <1>1, <1>5
        <5>2. /\ Closing(tx, tl) \in NdjsonLines /\ Closing(tx, tl).done = TRUE
              /\ Closing(tx, tl).text = tx /\ Closing(tx, tl).tools = tl
          BY <5>1, LineIs
        <5>3. /\ Closing(SpokenBy(P, d), CalledBy(P, d)) \in NdjsonLines
              /\ Closing(SpokenBy(P, d), CalledBy(P, d)).done = TRUE
              /\ Closing(SpokenBy(P, d), CalledBy(P, d)).text = SpokenBy(P, d)
              /\ Closing(SpokenBy(P, d), CalledBy(P, d)).tools = CalledBy(P, d)
          BY <1>5, LineIs
        <5>. QED  BY <5>1, <5>2, <5>3
      <4>. QED  BY <1>1, <1>7, <4>1
    <3>. QED  BY <1>1, <1>3, <1>6, <2>1, <3>2, <3>3, <3>4 DEF NextText, NextTools, NextOut
  <2>2. CASE p # Done
    <3>1. /\ ToolPart(data) = ToolPart(p) /\ Alike(c, Spoken(data), Spoken(p))
          /\ Spoken(data) \in Seq(Words) /\ Spoken(p) \in Seq(Words)
      BY <1>3, <1>4, SpokenAlike
    <3>2. NextText(b, tx) = tx \o Spoken(data) /\ NextTools(b, tl) = tl \o ToolPart(data)
      BY <1>3, <2>2 DEF NextText, NextTools, data
    <3>3. NextText(b, tx) \in Seq(Words) /\ Alike(c, NextText(b, tx), SpokenBy(P, d + 1))
      <4>1. Alike(c, tx \o Spoken(data), SpokenBy(P, d) \o Spoken(p))
        BY <1>1, <1>5, <3>1, AlikeConcat
      <4>2. tx \o Spoken(data) \in Seq(Words)
        BY <1>1, <3>1
      <4>. QED  BY <1>5, <3>2, <4>1, <4>2
    <3>4. NextTools(b, tl) = CalledBy(P, d + 1)
      BY <1>1, <1>5, <3>1, <3>2
    <3>5. CASE Spoken(p) = <<>>
      <4>1. Spoken(data) = <<>>
        BY <3>1, <3>5 DEF Alike
      <4>2. NextOut(b, tx, tl, o) = o
        BY <1>3, <2>2, <4>1 DEF NextOut, data
      <4>3. Lines(P, d + 1) = <<>>
        BY <2>2, <3>5 DEF Lines, p
      <4>4. LinesTo(P, d + 1) = LinesTo(P, d)
        BY <1>6, <4>3
      <4>. QED  BY <1>1, <3>3, <3>4, <4>2, <4>4
    <3>6. CASE Spoken(p) # <<>>
      <4>1. Spoken(data) # <<>>
        BY <3>1, <3>6 DEF Alike
      <4>2. NextOut(b, tx, tl, o) = Append(o, Saying(Spoken(data)))
        BY <1>3, <2>2, <4>1 DEF NextOut, data
      <4>3. Lines(P, d + 1) = <<Saying(Spoken(p))>>
        BY <2>2, <3>6 DEF Lines, p
      <4>4. /\ Saying(Spoken(data)) \in NdjsonLines /\ Saying(Spoken(p)) \in NdjsonLines
            /\ Saying(Spoken(data)).done = Saying(Spoken(p)).done
            /\ Saying(Spoken(data)).tools = Saying(Spoken(p)).tools
            /\ Saying(Spoken(data)).text = Spoken(data) /\ Saying(Spoken(p)).text = Spoken(p)
        BY <3>1, LineIs
      <4>5. SameLines(c, Append(o, Saying(Spoken(data))), LinesTo(P, d) \o <<Saying(Spoken(p))>>)
        BY <1>7, <3>1, <4>4
      <4>. QED  BY <1>6, <3>3, <3>4, <4>2, <4>3, <4>5
    <3>. QED  BY <3>5, <3>6
  <2>. QED  BY <2>1, <2>2
<1>. QED  BY <1>2, <1>3, <1>9 DEF Told

-----------------------------------------------------------------------------
(* How much of the answer has been said, and how it lies in the stream.    *)

\* What is counted and where it ends.
LEMMA Numbers ==
  ASSUME Fed
  PROVE  /\ Len(script) \in Nat /\ Len(wire) \in Nat /\ Len(Stream) \in Nat /\ Len(Preface) \in Nat
         /\ Len(Thinking) \in Nat /\ Len(Chunks(script)) \in Nat /\ Len(Payloads) \in Nat
         /\ Len(Payloads) = Len(Thinking) + Len(Chunks(script)) + Len(Finish)
         /\ Len(Finish) = (IF source = "relay" THEN 1 ELSE 0)
         /\ \A k \in 0 .. Len(Payloads) : Mark[k] \in Nat /\ Mark[k] <= Len(Stream)
         /\ \A j, k \in 0 .. Len(Payloads) : j <= k <=> Mark[j] <= Mark[k]
         /\ Mark[0] = 0 /\ Mark[Len(Thinking)] = Len(Preface)
         /\ \A k \in 0 .. Len(script) : BodyEnd[k] \in Nat
         /\ \A j, k \in 0 .. Len(script) : j <= k => BodyEnd[j] <= BodyEnd[k]
         /\ BodyEnd[0] = 0 /\ BodyEnd[Len(script)] <= Len(wire)
         /\ \A k \in 0 .. Len(script) : Count[k] \in Nat
         /\ \A j, k \in 0 .. Len(script) : j <= k => Count[j] <= Count[k]
         /\ Count[0] = 0 /\ Count[Len(script)] = Len(Chunks(script))
<1>1. Len(script) \in Nat
  BY ScriptIs
<1>2. /\ Len(Payloads) = Len(Thinking) + Len(Chunks(script)) + Len(Finish) /\ Len(Thinking) \in 0 .. 1
      /\ Len(Finish) = (IF source = "relay" THEN 1 ELSE 0) /\ Payloads \in Seq(Seq(Words))
  BY PayloadsAre
<1>3. /\ Count \in [0 .. Len(script) -> Nat] /\ Count[0] = 0
      /\ Count[Len(script)] = Len(Chunks(script)) /\ Len(Chunks(script)) \in Nat
      /\ \A j, k \in 0 .. Len(script) : j <= k => Count[j] <= Count[k]
  BY Carving
<1>4. Stream \in Seq(Words) /\ wire \in Seq(Words) /\ Framed(Stream, Mark, Payloads, HeadLen, TailLen)
  BY StreamIs
<1>5. Preface \in Seq(Words) /\ Mark[Len(Thinking)] = Len(Preface)
  BY PrefaceIs
<1>6. /\ Mark \in [0 .. Len(Payloads) -> Nat] /\ Mark[0] = 0 /\ Mark[Len(Payloads)] <= Len(Stream)
      /\ \A j, k \in 0 .. Len(Payloads) : j <= k => Mark[j] <= Mark[k]
  BY <1>4 DEF Framed
<1>7. \A j, k \in 0 .. Len(Payloads) : j <= k <=> Mark[j] <= Mark[k]
  <2>1. ASSUME NEW j \in 0 .. Len(Payloads), NEW k \in 0 .. Len(Payloads)
        PROVE  Mark[j] <= Mark[k] <=> j <= k
    BY <1>2, <1>4, LensAre, FramedBefore
  <2>. QED  BY <2>1
<1>8. /\ BodyEnd \in [0 .. Len(script) -> Nat] /\ BodyEnd[0] = 0
      /\ BodyEnd[Len(script)] = Len(Body(script))
      /\ \A j, k \in 0 .. Len(script) : j <= k => BodyEnd[j] <= BodyEnd[k]
  <2>1. Bodies \in Seq(Seq(Words)) /\ Len(Bodies) = Len(script) /\ Body(script) = FlattenSeq(Bodies)
    BY BodiesAre
  <2>2. Laid(FlattenSeq(Bodies), Bodies)
    BY <2>1, LaidOut
  <2>. QED  BY <2>1, <2>2 DEF Laid, BodyEnd
<1>9. BodyEnd[Len(script)] <= Len(wire)
  <2>1. CASE wire = Body(script)
    <3>1. Len(wire) \in Nat
      BY <1>4
    <3>. QED  BY <1>8, <2>1, <3>1
  <2>2. CASE wire # Body(script)
    <3>1. Len(script) = 0 /\ Len(wire) \in Nat
      BY <1>4, <2>2 DEF Fed
    <3>. QED  BY <1>8, <3>1
  <2>. QED  BY <2>1, <2>2
<1>10. /\ Len(wire) \in Nat /\ Len(Stream) \in Nat /\ Len(Preface) \in Nat /\ Len(Payloads) \in Nat
       /\ Len(Thinking) \in Nat
  <2>1. Len(Thinking) \in Nat
    BY <1>2
  <2>2. Len(Payloads) \in Nat
    BY <1>2
  <2>. QED  BY <1>4, <1>5, <2>1, <2>2
<1>11. \A k \in 0 .. Len(Payloads) : Mark[k] \in Nat /\ Mark[k] <= Len(Stream)
  <2>1. ASSUME NEW k \in 0 .. Len(Payloads) PROVE Mark[k] \in Nat /\ Mark[k] <= Len(Stream)
    <3>1. k <= Len(Payloads) /\ Len(Payloads) \in 0 .. Len(Payloads)
      BY <1>10
    <3>2. Mark[k] <= Mark[Len(Payloads)] /\ Mark[k] \in Nat /\ Mark[Len(Payloads)] \in Nat
      BY <1>6, <3>1
    <3>. QED  BY <1>6, <1>10, <3>2
  <2>. QED  BY <2>1
<1>12. \A k \in 0 .. Len(script) : BodyEnd[k] \in Nat /\ Count[k] \in Nat
  BY <1>3, <1>8
<1>. QED  BY <1>1, <1>2, <1>3, <1>5, <1>6, <1>7, <1>8, <1>9, <1>10, <1>11, <1>12

\* Among the places of a beginning the last one with a property that goes down.
LEMMA LastPlace ==
  ASSUME NEW N \in Nat, NEW S \in SUBSET (0 .. N), 0 \in S,
         \A j, k \in 0 .. N : j <= k /\ k \in S => j \in S
  PROVE  /\ Max(S) \in 0 .. N
         /\ \A k \in 0 .. N : k \in S <=> k <= Max(S)
<1>. DEFINE T == {n \in Nat : \A k \in S : k <= n}
<1>1. N \in T
  OBVIOUS
<1>2. PICK n \in T : \A m \in T : n <= m
  <2>1. T \in SUBSET Nat /\ T # {}
    BY <1>1
  <2>. HIDE DEF T
  <2>. QED  BY <2>1, LeastNatural
<1>3. n \in S
  <2>1. SUFFICES ASSUME n \notin S PROVE FALSE
    OBVIOUS
  <2>2. n \in Nat /\ \A k \in S : k <= n /\ k # n /\ k \in Nat
    BY <2>1
  <2>3. n # 0
    BY <2>2
  <2>4. n - 1 \in T
    BY <2>2, <2>3
  <2>. QED  BY <1>2, <2>2, <2>4
<1>4. n \in S /\ \A k \in S : n >= k
  BY <1>3
<1>5. Max(S) = n
  <2>1. Max(S) \in S /\ \A k \in S : Max(S) >= k
    BY <1>4 DEF Max
  <2>2. Max(S) >= n /\ n >= Max(S)
    BY <1>4, <2>1
  <2>3. Max(S) \in Nat /\ n \in Nat
    <3>1. \A k \in S : k \in Nat
      OBVIOUS
    <3>. QED  BY <1>4, <2>1, <3>1
  <2>. QED  BY <2>2, <2>3
<1>. QED  BY <1>4, <1>5

\* How many events have arrived within the first n symbols.
Slack == IF source = "relay" THEN 1 ELSE 0
Kept(n) == Max({k \in 0 .. Len(script) : BodyEnd[k] <= n + Slack})

\* How many events have arrived: all whose body ends within what was read.
LEMMA KeptIs ==
  ASSUME Fed, NEW n \in Nat
  PROVE  /\ Kept(n) \in 0 .. Len(script) /\ Arrived(n) = SubSeq(script, 1, Kept(n))
         /\ \A k \in 0 .. Len(script) : BodyEnd[k] <= n + Slack <=> k <= Kept(n)
         /\ n = Len(wire) => Kept(n) = Len(script)
<1>. DEFINE S == {k \in 0 .. Len(script) : BodyEnd[k] <= n + Slack}
<1>1. /\ Len(script) \in Nat /\ Slack \in Nat /\ Len(wire) \in Nat
      /\ \A k \in 0 .. Len(script) : BodyEnd[k] \in Nat
      /\ \A j, k \in 0 .. Len(script) : j <= k => BodyEnd[j] <= BodyEnd[k]
      /\ BodyEnd[0] = 0 /\ BodyEnd[Len(script)] <= Len(wire)
  BY Numbers DEF Slack
<1>2. 0 \in S
  BY <1>1
<1>3. \A j, k \in 0 .. Len(script) : j <= k /\ k \in S => j \in S
  BY <1>1
<1>4. \A k \in 0 .. Len(script) : k \in S <=> BodyEnd[k] <= n + Slack
  OBVIOUS
<1>5. S = {k \in 0 .. Len(script) :
              Len(Body(SubSeq(script, 1, k))) <= n + (IF source = "relay" THEN 1 ELSE 0)}
  <2>1. \A k \in 0 .. Len(script) : BodyEnd[k] = Len(Body(SubSeq(script, 1, k)))
    BY BodiesAre
  <2>. QED  BY <2>1 DEF Slack
<1>6. Kept(n) = Max(S) /\ Arrived(n) = SubSeq(script, 1, Max(S))
  BY <1>5 DEF Kept, Arrived
<1>7. S \in SUBSET (0 .. Len(script))
  OBVIOUS
<1>. HIDE DEF S
<1>8. Max(S) \in 0 .. Len(script) /\ \A k \in 0 .. Len(script) : k \in S <=> k <= Max(S)
  BY <1>1, <1>2, <1>3, <1>7, LastPlace
<1>9. n = Len(wire) => Kept(n) = Len(script)
  <2>1. SUFFICES ASSUME n = Len(wire) PROVE Max(S) = Len(script)
    BY <1>6
  <2>2. Len(script) \in 0 .. Len(script) /\ BodyEnd[Len(script)] <= n + Slack
    BY <1>1, <2>1
  <2>3. Len(script) <= Max(S)
    BY <1>4, <1>8, <2>2
  <2>. QED  BY <1>1, <1>8, <2>3
<1>. QED  BY <1>4, <1>6, <1>8, <1>9

\* The lines of a beginning do not depend on what follows it.
LEMMA NdjsonIs ==
  ASSUME NEW P \in Seq(Seq(Words)), NEW d \in 0 .. Len(P)
  PROVE  Ndjson(SubSeq(P, 1, d)) = LinesTo(P, d)
<1>. DEFINE u == SubSeq(P, 1, d)
<1>1. DOMAIN u = 1 .. d /\ \A j \in 1 .. d : u[j] = P[j]
  OBVIOUS
<1>. HIDE DEF u
<1>2. ASSUME NEW k \in 1 .. d PROVE Lines(u, k) = Lines(P, k)
  <2>1. \A j \in 1 .. k - 1 : u[j] = P[j]
    BY <1>1
  <2>2. [j \in 1 .. k - 1 |-> Spoken(u[j])] = [j \in 1 .. k - 1 |-> Spoken(P[j])]
    BY <2>1
  <2>3. [j \in 1 .. k - 1 |-> ToolPart(u[j])] = [j \in 1 .. k - 1 |-> ToolPart(P[j])]
    BY <2>1
  <2>4. SpokenBy(u, k - 1) = SpokenBy(P, k - 1) /\ CalledBy(u, k - 1) = CalledBy(P, k - 1)
    BY <2>2, <2>3 DEF SpokenBy, CalledBy
  <2>5. u[k] = P[k]
    BY <1>1
  <2>. QED  BY <2>4, <2>5 DEF Lines
<1>3. [k \in 1 .. d |-> Lines(u, k)] = [k \in 1 .. d |-> Lines(P, k)]
  BY <1>2
<1>4. Ndjson(u) = FlattenSeq([k \in 1 .. d |-> Lines(u, k)])
  BY <1>1 DEF Ndjson
<1>. QED  BY <1>3, <1>4 DEF LinesTo, u

\* What is owed of the first n symbols, in payloads.
HowMany(n, ended) == Len(Thinking) + Count[Kept(n)] + (IF ended THEN Len(Finish) ELSE 0)
Due(n, ended) ==
    Thinking \o Chunks(Arrived(n)) \o (IF ended /\ source = "relay" THEN <<Done>> ELSE <<>>)

\* What is due of what was read is a beginning of the payloads, in the end all.
LEMMA DueIs ==
  ASSUME Fed, NEW n \in 0 .. Len(wire), NEW ended \in BOOLEAN, ended => n = Len(wire)
  PROVE  /\ HowMany(n, ended) \in 0 .. Len(Payloads)
         /\ Due(n, ended) = SubSeq(Payloads, 1, HowMany(n, ended))
         /\ ended => HowMany(n, ended) = Len(Payloads)
<1>. DEFINE K == Kept(n)
            T == Len(Thinking)
            C == Chunks(script)
            F == Len(Finish)
            N == Count[K]
            W == HowMany(n, ended)
<1>1. /\ Len(script) \in Nat /\ T \in Nat /\ Len(C) \in Nat /\ Len(Payloads) \in Nat
      /\ Len(Payloads) = T + Len(C) + F /\ F = (IF source = "relay" THEN 1 ELSE 0)
      /\ Count[Len(script)] = Len(C)
      /\ \A k \in 0 .. Len(script) : Count[k] \in Nat
      /\ \A j, k \in 0 .. Len(script) : j <= k => Count[j] <= Count[k]
  BY Numbers
<1>2. n \in Nat
  OBVIOUS
<1>3. K \in 0 .. Len(script) /\ Arrived(n) = SubSeq(script, 1, K) /\ (n = Len(wire) => K = Len(script))
  BY <1>2, KeptIs
<1>4. Chunks(Arrived(n)) = SubSeq(C, 1, N) /\ C \in Seq(Seq(Words))
  BY <1>3, ChunksAre
<1>5. /\ Payloads \in Seq(Seq(Words))
      /\ \A i \in 1 .. Len(C) : Payloads[T + i] = C[i]
      /\ SubSeq(Payloads, 1, T) = Thinking
  BY PayloadsAre
<1>6. W = T + N + (IF ended THEN F ELSE 0)
  BY DEF HowMany
<1>. HIDE DEF K, N, W
<1>7. K <= Len(script) /\ Len(script) \in 0 .. Len(script)
  BY <1>1, <1>3
<1>8. N \in Nat /\ N <= Len(C) /\ (ended => N = Len(C))
  BY <1>1, <1>3, <1>7 DEF N
<1>. HIDE DEF C, T, F
<1>9. W \in 0 .. Len(Payloads) /\ (ended => W = Len(Payloads))
  <2>1. F \in Nat
    BY <1>1
  <2>2. CASE ended
    <3>1. W = T + N + F /\ N = Len(C)
      BY <1>6, <1>8, <2>2
    <3>. QED  BY <1>1, <2>1, <3>1
  <2>3. CASE ~ended
    BY <1>1, <1>6, <1>8, <2>1, <2>3
  <2>. QED  BY <2>2, <2>3
<1>10. Due(n, ended) = SubSeq(Payloads, 1, W)
  <2>1. CASE ended
    <3>1. SubSeq(C, 1, Len(C)) = C
      BY <1>4
    <3>2. Due(n, ended) = Thinking \o C \o Finish
      BY <1>4, <1>8, <2>1, <3>1 DEF Due, Finish
    <3>3. SubSeq(Payloads, 1, Len(Payloads)) = Payloads
      BY <1>5
    <3>. QED  BY <1>9, <2>1, <3>2, <3>3 DEF Payloads, C
  <2>2. CASE ~ended
    <3>. DEFINE A == SubSeq(C, 1, N)
    <3>1. A \in Seq(Seq(Words)) /\ Len(A) = N /\ \A i \in 1 .. N : A[i] = C[i] /\ i \in 1 .. Len(C)
      BY <1>1, <1>4, <1>8
    <3>2. Thinking \in Seq(Seq(Words)) /\ Len(Thinking) = T /\ \A i \in 1 .. T : Thinking[i] = Payloads[i]
      <4>. DEFINE u == SubSeq(Payloads, 1, T)
      <4>1. T <= Len(Payloads)
        BY <1>1, <1>6, <1>8, <1>9
      <4>2. u \in Seq(Seq(Words)) /\ Len(u) = T /\ \A i \in 1 .. T : u[i] = Payloads[i]
        BY <1>1, <1>5, <4>1
      <4>. HIDE DEF u
      <4>. QED  BY <1>5, <4>2 DEF u
    <3>. HIDE DEF A
    <3>3. Due(n, ended) = Thinking \o A
      <4>1. Due(n, ended) = (Thinking \o A) \o <<>>
        BY <1>4, <2>2 DEF Due, A
      <4>2. Thinking \o A \in Seq(Seq(Words))
        BY <3>1, <3>2
      <4>. QED  BY <4>1, <4>2, ConcatEmptySeq
    <3>. DEFINE y == Thinking \o A
                z == SubSeq(Payloads, 1, W)
    <3>4. /\ y \in Seq(Seq(Words)) /\ Len(y) = T + N
          /\ \A i \in 1 .. T : y[i] = Thinking[i]
          /\ \A i \in 1 .. N : y[T + i] = A[i]
      <4>1. ASSUME NEW u \in Seq(Seq(Words)), NEW v \in Seq(Seq(Words))
            PROVE  /\ u \o v \in Seq(Seq(Words)) /\ Len(u \o v) = Len(u) + Len(v)
                   /\ \A i \in 1 .. Len(u) : (u \o v)[i] = u[i]
                   /\ \A j \in 1 .. Len(v) : (u \o v)[Len(u) + j] = v[j]
        BY ConcatKeeps
      <4>. QED  BY <3>1, <3>2, <4>1
    <3>5. W = T + N
      BY <1>1, <1>6, <1>8, <2>2
    <3>6. /\ z \in Seq(Seq(Words)) /\ Len(z) = T + N /\ \A i \in 1 .. T + N : z[i] = Payloads[i]
      <4>1. T + N <= Len(Payloads) /\ T + N \in Nat
        BY <1>1, <1>8, <1>9, <3>5
      <4>2. \A q \in Nat : q <= Len(Payloads) => /\ SubSeq(Payloads, 1, q) \in Seq(Seq(Words))
                                                /\ Len(SubSeq(Payloads, 1, q)) = q
                                                /\ \A i \in 1 .. q : SubSeq(Payloads, 1, q)[i] = Payloads[i]
        BY <1>1, <1>5
      <4>. QED  BY <3>5, <4>1, <4>2
    <3>. HIDE DEF y, z
    <3>7. ASSUME NEW i \in 1 .. T + N PROVE y[i] = z[i]
      <4>1. CASE i <= T
        <5>1. i \in 1 .. T
          BY <1>1, <4>1
        <5>. QED  BY <3>2, <3>4, <3>6, <5>1
      <4>2. CASE i > T
        <5>1. i - T \in 1 .. N /\ i = T + (i - T)
          BY <1>1, <1>8, <4>2
        <5>2. PICK j \in 1 .. N : i = T + j
          BY <5>1
        <5>3. j \in 1 .. Len(C) /\ A[j] = C[j]
          BY <3>1
        <5>. QED  BY <1>5, <3>4, <3>6, <5>2, <5>3
      <4>. QED  BY <1>1, <4>1, <4>2
    <3>8. y = z
      BY <3>4, <3>6, <3>7
    <3>. QED  BY <3>3, <3>8 DEF y, z
  <2>. QED  BY <2>1, <2>2
<1>. QED  BY <1>9, <1>10 DEF W

\* And as the client receives it.
LEMMA OwedIs ==
  ASSUME Fed, NEW n \in 0 .. Len(wire), NEW ended \in BOOLEAN, ended => n = Len(wire)
  PROVE  /\ sink = "ndjson" => Owed(n, ended) = LinesTo(Payloads, HowMany(n, ended))
         /\ sink = "verbatim" /\ source = "relay" => Owed(n, ended) = SubSeq(Stream, 1, Mark[HowMany(n, ended)])
         /\ sink = "verbatim" /\ source # "relay" => Owed(n, ended) = SubSeq(Stream, 1, Len(Preface) + n)
<1>. DEFINE W == HowMany(n, ended)
            D == Due(n, ended)
<1>1. W \in 0 .. Len(Payloads) /\ D = SubSeq(Payloads, 1, W)
  BY DueIs
<1>2. Payloads \in Seq(Seq(Words)) /\ Len(Payloads) \in Nat
  BY PayloadsAre
<1>. HIDE DEF W, D
<1>3. ASSUME sink = "ndjson" PROVE Owed(n, ended) = LinesTo(Payloads, W)
  <2>1. Owed(n, ended) = Ndjson(D)
    BY <1>3 DEF Owed, D, Due
  <2>. QED  BY <1>1, <1>2, <2>1, NdjsonIs
<1>4. ASSUME sink = "verbatim", source = "relay" PROVE Owed(n, ended) = SubSeq(Stream, 1, Mark[W])
  <2>1. Owed(n, ended) = FlattenSeq([k \in DOMAIN D |-> Sse(D[k])])
    BY <1>4 DEF Owed, D, Due
  <2>2. DOMAIN D = 1 .. W /\ \A k \in 1 .. W : D[k] = Payloads[k] /\ k \in 1 .. Len(Payloads)
    BY <1>1, <1>2
  <2>3. /\ Puts \in Seq(Seq(Words)) /\ Len(Puts) = Len(Payloads)
        /\ \A k \in 1 .. Len(Payloads) : Puts[k] = Put(Payloads[k])
    BY PutsAre
  <2>4. \A k \in 1 .. W : Sse(D[k]) = Puts[k]
    BY <1>4, <2>2, <2>3 DEF Put
  <2>5. [k \in 1 .. W |-> Sse(D[k])] = [k \in 1 .. W |-> Puts[k]]
    BY <2>4
  <2>6. SubSeq(Puts, 1, W) = [k \in 1 .. W |-> Puts[k]]
    BY <1>1, <1>2, <2>3
  <2>7. Owed(n, ended) = FlattenSeq(SubSeq(Puts, 1, W))
    BY <2>1, <2>2, <2>5, <2>6
  <2>8. FlattenSeq(SubSeq(Puts, 1, W)) = SubSeq(FlattenSeq(Puts), 1, Mark[W])
    BY <1>1, <2>3, LaidOut DEF Laid, Mark
  <2>. QED  BY <1>4, <2>7, <2>8 DEF Stream
<1>5. ASSUME sink = "verbatim", source # "relay" PROVE Owed(n, ended) = SubSeq(Stream, 1, Len(Preface) + n)
  <2>1. Owed(n, ended) = Preface \o SubSeq(wire, 1, n)
    BY <1>5 DEF Owed, Preface
  <2>2. Preface \in Seq(Words) /\ wire \in Seq(Words) /\ Stream = Preface \o wire
    BY <1>5, PrefaceIs, StreamIs
  <2>3. ASSUME NEW x \in Seq(Words), NEW y \in Seq(Words), NEW i \in 0 .. Len(y)
        PROVE  x \o SubSeq(y, 1, i) = SubSeq(x \o y, 1, Len(x) + i)
    <3>. DEFINE u == SubSeq(y, 1, i)
                v == x \o y
                w == SubSeq(v, 1, Len(x) + i)
                q == x \o u
    <3>1. Len(x) \in Nat /\ Len(y) \in Nat
      OBVIOUS
    <3>2. u \in Seq(Words) /\ Len(u) = i /\ \A j \in 1 .. i : u[j] = y[j] /\ j \in 1 .. Len(y)
      OBVIOUS
    <3>. HIDE DEF u
    <3>3. /\ v \in Seq(Words) /\ Len(v) = Len(x) + Len(y)
          /\ \A j \in 1 .. Len(x) : v[j] = x[j]
          /\ \A j \in 1 .. Len(y) : v[Len(x) + j] = y[j]
      BY ConcatKeeps
    <3>4. /\ q \in Seq(Words) /\ Len(q) = Len(x) + i
          /\ \A j \in 1 .. Len(x) : q[j] = x[j]
          /\ \A j \in 1 .. i : q[Len(x) + j] = u[j]
      <4>1. ASSUME NEW a \in Seq(Words), NEW b \in Seq(Words)
            PROVE  /\ a \o b \in Seq(Words) /\ Len(a \o b) = Len(a) + Len(b)
                   /\ \A k \in 1 .. Len(a) : (a \o b)[k] = a[k]
                   /\ \A k \in 1 .. Len(b) : (a \o b)[Len(a) + k] = b[k]
        BY ConcatKeeps
      <4>. QED  BY <3>2, <4>1
    <3>. HIDE DEF v, q
    <3>5. w \in Seq(Words) /\ Len(w) = Len(x) + i /\ \A j \in 1 .. Len(x) + i : w[j] = v[j]
      BY <3>1, <3>3
    <3>. HIDE DEF w
    <3>6. ASSUME NEW j \in 1 .. Len(x) + i PROVE q[j] = w[j]
      <4>1. CASE j <= Len(x)
        <5>1. j \in 1 .. Len(x)
          BY <3>1, <4>1
        <5>. QED  BY <3>3, <3>4, <3>5, <5>1
      <4>2. CASE j > Len(x)
        <5>1. j - Len(x) \in 1 .. i /\ j = Len(x) + (j - Len(x))
          BY <3>1, <4>2
        <5>2. PICK k \in 1 .. i : j = Len(x) + k
          BY <5>1
        <5>3. k \in 1 .. Len(y) /\ u[k] = y[k]
          BY <3>2
        <5>. QED  BY <3>3, <3>4, <3>5, <5>2, <5>3
      <4>. QED  BY <3>1, <4>1, <4>2
    <3>7. q = w
      BY <3>4, <3>5, <3>6
    <3>. QED  BY <3>7 DEF q, w, u, v
  <2>. QED  BY <2>1, <2>2, <2>3
<1>. QED  BY <1>3, <1>4, <1>5 DEF W

-----------------------------------------------------------------------------
(* What reaches the sink.                                                  *)

\* A payload that has arrived garbled is put where the payload lies.
LEMMA Framing ==
  ASSUME Fed, source = "relay", NEW c \in BOOLEAN, NEW g \in 0 .. Len(Payloads) - 1,
         NEW x \in Seq(Words), Alike(c, x, Payloads[g + 1])
  PROVE  Window(c, Sse(x), Stream, Mark[g], Mark[g + 1])
<1>. DEFINE p == Payloads[g + 1]
            L == Len(p)
            y == Sse(x)
            e == Mark[g]
<1>1. Framed(Stream, Mark, Payloads, 1, 2)
  <2>1. Framed(Stream, Mark, Payloads, HeadLen, TailLen)
    BY StreamIs
  <2>. QED  BY <2>1 DEF HeadLen, TailLen
<1>2. p \in Seq(Words) /\ L \in Nat /\ e \in Nat
  <2>1. Payloads \in Seq(Seq(Words)) /\ Len(Payloads) \in Nat /\ \A k \in 0 .. Len(Payloads) : Mark[k] \in Nat
    BY PayloadsAre, Numbers
  <2>2. p \in Seq(Words) /\ e \in Nat
    BY <2>1
  <2>. HIDE DEF p
  <2>. QED  BY <2>2
<1>3. /\ Mark[g + 1] = e + 1 + L + 2
      /\ \A j \in 1 .. 1 : Stream[e + j] = "data:"
      /\ \A j \in 1 .. L : Stream[e + 1 + j] = p[j]
      /\ \A j \in 1 .. 2 : Stream[e + 1 + L + j] = "nl"
  BY <1>1 DEF Framed
<1>4. Len(x) = L /\ \A j \in 1 .. L : Seen(c, x[j]) = Seen(c, p[j])
  BY DEF Alike
<1>5. /\ y \in Seq(Words) /\ Len(y) = 1 + L + 2
      /\ \A j \in 1 .. 1 : y[j] = "data:"
      /\ \A j \in 1 .. L : y[1 + j] = x[j]
      /\ \A j \in 1 .. 2 : y[1 + L + j] = "nl"
  <2>1. /\ Put(x) \in Seq(Words) /\ Len(Put(x)) = HeadLen + Len(x) + TailLen
        /\ \A j \in 1 .. HeadLen : Put(x)[j] = "data:"
        /\ \A j \in 1 .. Len(x) : Put(x)[HeadLen + j] = x[j]
        /\ \A j \in 1 .. TailLen : Put(x)[HeadLen + Len(x) + j] = "nl"
    BY PutIs
  <2>2. HeadLen = 1 /\ TailLen = 2 /\ Put(x) = y
    BY DEF HeadLen, TailLen, Put
  <2>. HIDE DEF y, L
  <2>. QED  BY <1>4, <2>1, <2>2
<1>. HIDE DEF p, L, y, e
<1>6. ASSUME NEW i \in 1 .. Len(y) PROVE Seen(c, y[i]) = Seen(c, Stream[e + i])
  <2>1. CASE i = 1
    BY <1>3, <1>5, <2>1
  <2>2. CASE i \in 2 .. L + 1
    <3>1. i - 1 \in 1 .. L /\ i = 1 + (i - 1)
      BY <1>2, <2>2
    <3>2. PICK j \in 1 .. L : i = 1 + j
      BY <3>1
    <3>3. e + i = e + 1 + j
      BY <1>2, <3>2
    <3>4. y[i] = x[j] /\ Stream[e + i] = p[j]
      BY <1>3, <1>5, <3>2, <3>3
    <3>. QED  BY <1>4, <3>4
  <2>3. CASE i \in L + 2 .. L + 3
    <3>1. i - (1 + L) \in 1 .. 2 /\ i = 1 + L + (i - (1 + L))
      BY <1>2, <2>3
    <3>2. PICK j \in 1 .. 2 : i = 1 + L + j
      BY <3>1
    <3>3. e + i = e + 1 + L + j
      BY <1>2, <3>2
    <3>4. y[i] = "nl" /\ Stream[e + i] = "nl"
      BY <1>3, <1>5, <3>2, <3>3
    <3>. QED  BY <3>4
  <2>4. i = 1 \/ i \in 2 .. L + 1 \/ i \in L + 2 .. L + 3
    BY <1>2, <1>5
  <2>. QED  BY <2>1, <2>2, <2>3, <2>4
<1>7. Len(y) = Mark[g + 1] - e
  BY <1>2, <1>3, <1>5
<1>8. Window(c, y, Stream, e, Mark[g + 1])
  BY <1>5, <1>6, <1>7 DEF Window
<1>. QED  BY <1>8 DEF y, e

\* The prefix goes out as it lies in the stream,
LEMMA PrefaceWindow ==
  ASSUME Fed, NEW c \in BOOLEAN
  PROVE  Window(c, Preface, Stream, 0, Len(Preface)) /\ Len(Preface) \in Nat
<1>1. Preface \in Seq(Words) /\ Preface = FlattenSeq(SubSeq(Puts, 1, Len(Thinking)))
      /\ Mark[Len(Thinking)] = Len(Preface)
  BY PrefaceIs
<1>2. ASSUME NEW i \in 1 .. Len(Preface) PROVE Stream[i] = Preface[i]
  <2>1. CASE source = "relay"
    <3>1. /\ Len(Thinking) \in 0 .. Len(Payloads) /\ Mark[Len(Thinking)] \in Nat
          /\ Mark[Len(Thinking)] <= Len(Stream) /\ Len(Stream) \in Nat
      <4>1. Len(Thinking) \in 0 .. Len(Payloads)
        <5>1. /\ Len(Payloads) = Len(Thinking) + Len(Chunks(script)) + Len(Finish)
              /\ Len(Finish) = 1 /\ Len(Chunks(script)) \in Nat /\ Len(Thinking) \in Nat
          BY <2>1, Numbers
        <5>. QED  BY <5>1
      <4>. QED  BY <4>1, Numbers
    <3>2. Stream = FlattenSeq(Puts) /\ Stream \in Seq(Words)
      BY <2>1, StreamIs DEF Stream
    <3>3. Puts \in Seq(Seq(Words)) /\ Len(Puts) = Len(Payloads)
      BY PutsAre
    <3>4. Preface = SubSeq(Stream, 1, Mark[Len(Thinking)])
      BY <1>1, <3>1, <3>2, <3>3, LaidOut DEF Laid, Mark
    <3>. QED  BY <1>1, <1>2, <3>1, <3>2, <3>4
  <2>2. CASE source # "relay"
    <3>1. Stream = Preface \o wire /\ wire \in Seq(Words)
      BY <2>2, StreamIs
    <3>. QED  BY <1>1, <3>1, ConcatKeeps
  <2>. QED  BY <2>1, <2>2
<1>3. Len(Preface) \in Nat
  BY <1>1
<1>4. Len(Preface) = Len(Preface) - 0 /\ \A i \in 1 .. Len(Preface) : 0 + i = i
  BY <1>3
<1>. QED  BY <1>1, <1>2, <1>3, <1>4 DEF Window

\* and after it a body that is not relayed.
LEMMA Shifted ==
  ASSUME Fed, source # "relay", NEW c \in BOOLEAN, NEW p \in Nat, NEW n \in 0 .. Len(wire), NEW x,
         Window(c, x, wire, p, n)
  PROVE  Window(c, x, Stream, Len(Preface) + p, Len(Preface) + n)
<1>1. Stream = Preface \o wire /\ wire \in Seq(Words) /\ Preface \in Seq(Words)
  BY StreamIs, PrefaceIs
<1>2. \A j \in 1 .. Len(wire) : Stream[Len(Preface) + j] = wire[j]
  BY <1>1, ConcatKeeps
<1>3. x \in Seq(Words) /\ Len(x) = n - p /\ \A i \in 1 .. Len(x) : Seen(c, x[i]) = Seen(c, wire[p + i])
  BY DEF Window
<1>4. Len(Preface) \in Nat /\ Len(wire) \in Nat
  BY <1>1
<1>5. Len(x) = (Len(Preface) + n) - (Len(Preface) + p)
  BY <1>3, <1>4
<1>6. ASSUME NEW i \in 1 .. Len(x) PROVE Seen(c, x[i]) = Seen(c, Stream[Len(Preface) + p + i])
  <2>1. p + i \in 1 .. Len(wire) /\ Len(Preface) + p + i = Len(Preface) + (p + i)
    BY <1>3, <1>4
  <2>. QED  BY <1>2, <1>3, <2>1
<1>. QED  BY <1>3, <1>5, <1>6 DEF Window

\* A cut makes no lines unlike that were alike.
LEMMA SameLinesLater ==
  ASSUME NEW c \in BOOLEAN, NEW d \in BOOLEAN, c => d, NEW x, NEW y, SameLines(c, x, y)
  PROVE  SameLines(d, x, y)
<1>1. /\ x \in Seq(NdjsonLines) /\ y \in Seq(NdjsonLines) /\ Len(x) = Len(y)
      /\ \A i \in 1 .. Len(x) :
            x[i].done = y[i].done /\ x[i].tools = y[i].tools /\ Alike(c, x[i].text, y[i].text)
  BY DEF SameLines
<1>2. \A i \in 1 .. Len(x) : Alike(d, x[i].text, y[i].text)
  BY <1>1, AlikeLater
<1>. QED  BY <1>1, <1>2 DEF SameLines

\* What the sink holds of the first m symbols of the stream.
Sinking(c, m, b, tx, tl, o) ==
    IF sink = "verbatim" THEN Window(c, o, Stream, 0, m)
    ELSE \E d \in 0 .. Len(Payloads) : Told(c, Payloads, Stream, Mark, d, m, b, tx, tl, o)

\* More of the stream, as it arrives.
LEMMA Delivered ==
  ASSUME Fed, NEW c \in BOOLEAN, NEW g \in BOOLEAN, c => g, NEW m \in Nat, NEW n \in Nat,
         NEW b, NEW tx, NEW tl, NEW o, Sinking(c, m, b, tx, tl, o),
         NEW x, Window(g, x, Stream, m, n)
  PROVE  /\ sink = "verbatim" => Sinking(g, n, b, tx, tl, o \o x)
         /\ sink # "verbatim" => Sinking(g, n, b \o x, tx, tl, o)
<1>1. CASE sink = "verbatim"
  <2>1. Window(c, o, Stream, 0, m)
    BY <1>1 DEF Sinking
  <2>2. Window(g, o, Stream, 0, m)
    BY <2>1, WindowLater
  <2>3. Window(g, o \o x, Stream, 0, n)
    BY <2>2, WindowConcat
  <2>. QED  BY <1>1, <2>3 DEF Sinking
<1>2. CASE sink # "verbatim"
  <2>1. PICK d \in 0 .. Len(Payloads) : Told(c, Payloads, Stream, Mark, d, m, b, tx, tl, o)
    BY <1>2 DEF Sinking
  <2>2. /\ Mark[d] <= m /\ Window(c, b, Stream, Mark[d], m)
        /\ tx \in Seq(Words) /\ Alike(c, tx, SpokenBy(Payloads, d))
        /\ tl = CalledBy(Payloads, d) /\ SameLines(c, o, LinesTo(Payloads, d))
    BY <2>1 DEF Told
  <2>3. Mark[d] \in Nat
    BY Numbers
  <2>4. Window(g, b \o x, Stream, Mark[d], n)
    <3>1. Window(g, b, Stream, Mark[d], m)
      BY <2>2, WindowLater
    <3>. QED  BY <2>3, <3>1, WindowConcat
  <2>5. Alike(g, tx, SpokenBy(Payloads, d)) /\ SameLines(g, o, LinesTo(Payloads, d))
    BY <2>2, AlikeLater, SameLinesLater
  <2>6. Mark[d] <= n
    <3>1. Len(x) = n - m /\ x \in Seq(Words)
      BY DEF Window
    <3>2. Len(x) \in Nat
      BY <3>1
    <3>. QED  BY <2>2, <2>3, <3>1, <3>2
  <2>7. Told(g, Payloads, Stream, Mark, d, n, b \o x, tx, tl, o)
    BY <2>2, <2>4, <2>5, <2>6 DEF Told
  <2>. QED  BY <1>2, <2>7 DEF Sinking
<1>. QED  BY <1>1, <1>2

\* Or nothing more.
LEMMA SinkingLater ==
  ASSUME Fed, NEW c \in BOOLEAN, NEW g \in BOOLEAN, c => g, NEW m,
         NEW b, NEW tx, NEW tl, NEW o, Sinking(c, m, b, tx, tl, o)
  PROVE  Sinking(g, m, b, tx, tl, o)
<1>1. CASE sink = "verbatim"
  <2>1. Window(c, o, Stream, 0, m)
    BY <1>1 DEF Sinking
  <2>2. Window(g, o, Stream, 0, m)
    BY <2>1, WindowLater
  <2>. QED  BY <1>1, <2>2 DEF Sinking
<1>2. CASE sink # "verbatim"
  <2>1. PICK d \in 0 .. Len(Payloads) : Told(c, Payloads, Stream, Mark, d, m, b, tx, tl, o)
    BY <1>2 DEF Sinking
  <2>2. /\ Mark[d] <= m /\ Window(c, b, Stream, Mark[d], m)
        /\ tx \in Seq(Words) /\ Alike(c, tx, SpokenBy(Payloads, d))
        /\ tl = CalledBy(Payloads, d) /\ SameLines(c, o, LinesTo(Payloads, d))
    BY <2>1 DEF Told
  <2>3. Window(g, b, Stream, Mark[d], m)
    BY <2>2, WindowLater
  <2>4. Alike(g, tx, SpokenBy(Payloads, d)) /\ SameLines(g, o, LinesTo(Payloads, d))
    BY <2>2, AlikeLater, SameLinesLater
  <2>5. Told(g, Payloads, Stream, Mark, d, m, b, tx, tl, o)
    BY <2>2, <2>3, <2>4 DEF Told
  <2>. QED  BY <1>2, <2>5 DEF Sinking
<1>. QED  BY <1>1, <1>2

\* The translation is fed OpenAI's schema: one word before a payload, two newlines after it.
LEMMA NdjsonFramed ==
  ASSUME Fed, sink # "verbatim"
  PROVE  Framed(Stream, Mark, Payloads, 1, 2) /\ Clean(Payloads)
<1>1. Framed(Stream, Mark, Payloads, HeadLen, TailLen) /\ Clean(Payloads)
  BY StreamIs, PayloadsClean
<1>2. source # "native"
  BY DEF Fed
<1>. QED  BY <1>1, <1>2 DEF HeadLen, TailLen

-----------------------------------------------------------------------------
(* How far the relay has read the body.                                    *)

\* Place p of the body is at the end of k events, or behind the name or the
\* data of one, whose type the relay then remembers.
Between(p, k, event) ==
    \/ p = BodyEnd[k] /\ event = ""
    \/ k < Len(script) /\ p = BodyEnd[k] + 3 /\ event = script[k + 1].type
    \/ k > 0 /\ p = BodyEnd[k] - 1 /\ event = script[k].type

\* The buffer is what has arrived from such a place on.
Parsed(c, k, n, b, event) == \E p \in 0 .. n : Window(c, b, wire, p, n) /\ Between(p, k, event)

\* Reading on keeps the relay's place in the script.
LEMMA ParsedMore ==
  ASSUME NEW c \in BOOLEAN, NEW g \in BOOLEAN, c => g, NEW k, NEW n \in Nat, NEW q \in Nat, NEW b, NEW event,
         Parsed(c, k, n, b, event), NEW x, Window(g, x, wire, n, q)
  PROVE  Parsed(g, k, q, b \o x, event)
<1>1. PICK p \in 0 .. n : Window(c, b, wire, p, n) /\ Between(p, k, event)
  BY DEF Parsed
<1>2. Window(g, b, wire, p, n)
  BY <1>1, WindowLater
<1>3. Window(g, b \o x, wire, p, q)
  BY <1>2, WindowConcat
<1>4. p \in 0 .. q
  <2>1. Len(x) = q - n /\ x \in Seq(Words)
    BY DEF Window
  <2>2. Len(x) \in Nat
    BY <2>1
  <2>. QED  BY <2>1, <2>2
<1>. QED  BY <1>1, <1>3, <1>4 DEF Parsed

\* How many events have arrived, and how many of them have been read.
LEMMA ParsedKept ==
  ASSUME Fed, source = "relay", NEW c \in BOOLEAN, NEW k \in 0 .. Len(script), NEW n \in 0 .. Len(wire),
         NEW b, NEW event, Parsed(c, k, n, b, event)
  PROVE  k <= Kept(n) /\ (Newlines(b) = {} => Kept(n) = k)
<1>1. PICK p \in 0 .. n : Window(c, b, wire, p, n) /\ Between(p, k, event)
  BY DEF Parsed
<1>2. /\ Len(script) \in Nat /\ Len(wire) \in Nat /\ \A j \in 0 .. Len(script) : BodyEnd[j] \in Nat
      /\ \A i, j \in 0 .. Len(script) : i <= j => BodyEnd[i] <= BodyEnd[j]
  BY Numbers
<1>3. n \in Nat /\ Slack = 1
  BY <1>2 DEF Slack
<1>4. /\ Kept(n) \in 0 .. Len(script)
      /\ \A j \in 0 .. Len(script) : BodyEnd[j] <= n + 1 <=> j <= Kept(n)
  BY <1>3, KeptIs
<1>5. BodyEnd[k] <= n + 1
  <2>1. p = BodyEnd[k] \/ p = BodyEnd[k] + 3 \/ p = BodyEnd[k] - 1
    BY <1>1 DEF Between
  <2>2. p \in Nat /\ p <= n /\ BodyEnd[k] \in Nat
    BY <1>2
  <2>. QED  BY <1>3, <2>1, <2>2
<1>6. k <= Kept(n)
  BY <1>4, <1>5
<1>7. ASSUME Newlines(b) = {}, k < Len(script) PROVE BodyEnd[k + 1] > n + 1
  <2>1. k \in 0 .. Len(script) - 1 /\ k + 1 \in 0 .. Len(script)
    BY <1>2, <1>7
  <2>2. PICK L \in Nat : BodyEnd[k + 1] = BodyEnd[k] + L + 6
    <3>1. k + 1 \in 1 .. Len(script)
      BY <2>1, <1>2
    <3>2. script[k + 1].data \in Seq(Words)
      BY <3>1, ScriptIs
    <3>3. BodyEnd[k + 1] = BodyEnd[k] + Len(script[k + 1].data) + 6
      BY <2>1, WireFramed DEF BodyFramed
    <3>4. Len(script[k + 1].data) \in Nat
      BY <3>2
    <3>. QED  BY <3>3, <3>4
  <2>3. BodyEnd[k] \in Nat /\ BodyEnd[k + 1] \in Nat
    BY <1>2, <2>1
  <2>4. CASE p = BodyEnd[k] /\ event = ""
    <3>1. Window(c, b, wire, BodyEnd[k], n)
      BY <1>1, <2>4
    <3>2. ~(BodyEnd[k] + 3 <= n)
      BY <1>7, <3>1, LineOfType
    <3>. QED  BY <1>3, <2>2, <2>3, <3>2
  <2>5. CASE p = BodyEnd[k] + 3
    <3>1. Window(c, b, wire, BodyEnd[k] + 3, n)
      BY <1>1, <2>5
    <3>2. ~(BodyEnd[k + 1] - 1 <= n)
      BY <1>7, <2>1, <3>1, LineOfData
    <3>3. BodyEnd[k + 1] # n + 1
      BY <1>3, <2>3, <3>2
    <3>. QED  BY <1>3, <2>3, <3>2
  <2>6. CASE k > 0 /\ p = BodyEnd[k] - 1
    <3>1. Window(c, b, wire, BodyEnd[k] - 1, n) /\ k \in 1 .. Len(script)
      BY <1>1, <2>6
    <3>2. ~(BodyEnd[k] <= n)
      BY <1>7, <3>1, LineOfNone
    <3>. QED  BY <1>3, <2>2, <2>3, <3>2
  <2>. QED  BY <1>1, <2>4, <2>5, <2>6 DEF Between
<1>8. ASSUME Newlines(b) = {} PROVE Kept(n) = k
  <2>1. CASE k = Len(script)
    BY <1>2, <1>4, <1>6, <2>1
  <2>2. CASE k < Len(script)
    <3>1. BodyEnd[k + 1] > n + 1 /\ k + 1 \in 0 .. Len(script) /\ BodyEnd[k + 1] \in Nat
      BY <1>2, <1>7, <1>8, <2>2
    <3>2. ~(BodyEnd[k + 1] <= n + 1)
      BY <1>3, <3>1
    <3>3. ~(k + 1 <= Kept(n))
      BY <1>4, <3>1, <3>2
    <3>. QED  BY <1>4, <1>6, <3>3
  <2>. QED  BY <1>2, <2>1, <2>2
<1>. QED  BY <1>6, <1>8

\* What the next line is, and where the relay is behind it.
Rest(b) == After(b, First(Newlines(b)))
Head1(b) == SubSeq(b, 1, First(Newlines(b)) - 1)

\* The relay's next line is an empty one, the type of the next event, or its data.
LEMMA ParsedLine ==
  ASSUME Fed, source = "relay", NEW c \in BOOLEAN, NEW k \in 0 .. Len(script), NEW n \in 0 .. Len(wire),
         NEW b, NEW event, Parsed(c, k, n, b, event), Newlines(b) # {}
  PROVE  \/ Head1(b) = <<>> /\ Parsed(c, k, n, Rest(b), "")
         \/ /\ k < Len(script) /\ Head1(b) = <<"event:", script[k + 1].type>>
            /\ Parsed(c, k, n, Rest(b), script[k + 1].type)
         \/ /\ k < Len(script) /\ event = script[k + 1].type
            /\ Head1(b) # <<>> /\ Head1(b)[1] = "data:"
            /\ Tail(Head1(b)) \in Seq(Words) /\ Alike(c, Tail(Head1(b)), script[k + 1].data)
            /\ Parsed(c, k + 1, n, Rest(b), event)
<1>1. PICK p \in 0 .. n : Window(c, b, wire, p, n) /\ Between(p, k, event)
  BY DEF Parsed
<1>2. /\ Len(script) \in Nat /\ Len(wire) \in Nat /\ \A j \in 0 .. Len(script) : BodyEnd[j] \in Nat
  BY Numbers
<1>3. CASE p = BodyEnd[k] /\ event = ""
  <2>1. Window(c, b, wire, BodyEnd[k], n)
    BY <1>1, <1>3
  <2>2. /\ k < Len(script) /\ BodyEnd[k] + 3 <= n /\ First(Newlines(b)) = 3
        /\ SubSeq(b, 1, 2) = <<"event:", script[k + 1].type>>
        /\ Window(c, After(b, 3), wire, BodyEnd[k] + 3, n)
    BY <2>1, LineOfType
  <2>3. Head1(b) = <<"event:", script[k + 1].type>> /\ Window(c, Rest(b), wire, BodyEnd[k] + 3, n)
    BY <2>2 DEF Head1, Rest
  <2>4. BodyEnd[k] + 3 \in 0 .. n
    BY <1>2, <2>2
  <2>5. Between(BodyEnd[k] + 3, k, script[k + 1].type)
    BY <2>2 DEF Between
  <2>. QED  BY <2>2, <2>3, <2>4, <2>5 DEF Parsed
<1>4. CASE k < Len(script) /\ p = BodyEnd[k] + 3 /\ event = script[k + 1].type
  <2>1. Window(c, b, wire, BodyEnd[k] + 3, n) /\ k \in 0 .. Len(script) - 1
    BY <1>1, <1>2, <1>4
  <2>. DEFINE L == Len(script[k + 1].data)
              line == SubSeq(b, 1, L + 1)
  <2>2. /\ BodyEnd[k + 1] = BodyEnd[k] + L + 6 /\ L \in Nat
        /\ BodyEnd[k + 1] - 1 <= n /\ First(Newlines(b)) = L + 2
        /\ line # <<>> /\ line[1] = "data:" /\ Tail(line) \in Seq(Words)
        /\ Alike(c, Tail(line), script[k + 1].data)
        /\ Window(c, After(b, L + 2), wire, BodyEnd[k + 1] - 1, n)
    BY <2>1, LineOfData
  <2>. HIDE DEF L
  <2>3. Head1(b) = line /\ Rest(b) = After(b, L + 2)
    BY <2>2 DEF Head1, Rest
  <2>. HIDE DEF line
  <2>4. BodyEnd[k + 1] - 1 \in 0 .. n /\ k + 1 > 0
    <3>1. BodyEnd[k] \in Nat
      BY <1>2
    <3>. QED  BY <2>2, <3>1, <1>2
  <2>5. Between(BodyEnd[k + 1] - 1, k + 1, event)
    BY <1>4, <2>4 DEF Between
  <2>6. Parsed(c, k + 1, n, Rest(b), event)
    BY <2>2, <2>3, <2>4, <2>5 DEF Parsed
  <2>. QED  BY <1>4, <2>2, <2>3, <2>6
<1>5. CASE k > 0 /\ p = BodyEnd[k] - 1 /\ event = script[k].type
  <2>1. Window(c, b, wire, BodyEnd[k] - 1, n) /\ k \in 1 .. Len(script)
    BY <1>1, <1>2, <1>5
  <2>2. /\ BodyEnd[k] <= n /\ First(Newlines(b)) = 1 /\ SubSeq(b, 1, 0) = <<>>
        /\ Window(c, After(b, 1), wire, BodyEnd[k], n)
    BY <2>1, LineOfNone
  <2>3. Head1(b) = <<>> /\ Rest(b) = After(b, 1)
    BY <2>2 DEF Head1, Rest
  <2>4. BodyEnd[k] \in 0 .. n /\ Between(BodyEnd[k], k, "")
    BY <1>2, <2>2 DEF Between
  <2>5. Parsed(c, k, n, Rest(b), "")
    BY <2>2, <2>3, <2>4 DEF Parsed
  <2>. QED  BY <2>3, <2>5
<1>. QED  BY <1>1, <1>3, <1>4, <1>5 DEF Between

\* Alike data is translated alike.
LEMMA TranslateAlike ==
  ASSUME NEW c \in BOOLEAN, NEW x \in Seq(Words), NEW y \in Seq(Words), Alike(c, x, y), NEW type
  PROVE  /\ Alike(c, Translate(type, x), Translate(type, y))
         /\ Translate(type, x) \in Seq(Words) /\ Translate(type, y) \in Seq(Words)
         /\ Translate(type, x) = <<>> <=> Translate(type, y) = <<>>
<1>1. Translate(type, x) \in Seq(Words) /\ Translate(type, y) \in Seq(Words)
  BY TranslateIs
<1>2. ToSet(x) \subseteq Text <=> ToSet(y) \subseteq Text
  <2>1. Len(x) = Len(y) /\ \A i \in 1 .. Len(x) : Seen(c, x[i]) = Seen(c, y[i])
    BY DEF Alike
  <2>2. \A i \in 1 .. Len(x) : x[i] \in Text <=> y[i] \in Text
    BY <2>1, SeenIs
  <2>3. DOMAIN x = 1 .. Len(x) /\ DOMAIN y = 1 .. Len(x)
    BY <2>1
  <2>. QED  BY <2>2, <2>3 DEF ToSet
<1>3. Alike(c, Translate(type, x), Translate(type, y))
  <2>1. CASE type = "message_start"
    <3>1. Translate(type, x) = Translate(type, y)
      BY <2>1 DEF Translate
    <3>. QED  BY <3>1, AlikeSelf
  <2>2. CASE type = "message_delta"
    <3>1. Translate(type, x) = Translate(type, y)
      BY <2>2 DEF Translate
    <3>. QED  BY <3>1, AlikeSelf
  <2>3. CASE type # "message_start" /\ type # "message_delta"
    <3>1. CASE type = "content_block_delta" /\ ToSet(x) \subseteq Text
      <4>1. Translate(type, x) = x /\ Translate(type, y) = y
        BY <1>2, <3>1 DEF Translate
      <4>. QED  BY <4>1
    <3>2. CASE ~(type = "content_block_delta" /\ ToSet(x) \subseteq Text)
      <4>1. Translate(type, x) = <<>> /\ Translate(type, y) = <<>>
        BY <1>2, <2>3, <3>2 DEF Translate
      <4>. QED  BY <4>1, AlikeSelf
    <3>. QED  BY <3>1, <3>2
  <2>. QED  BY <2>1, <2>2, <2>3
<1>4. \A u \in Seq(Words), v \in Seq(Words) : Alike(c, u, v) => (u = <<>> <=> v = <<>>)
  BY DEF Alike
<1>. QED  BY <1>1, <1>3, <1>4

\* No chunk of an event is mistaken for the end.
LEMMA ChunkIsNotLast ==
  ASSUME NEW type, NEW x \in Seq(Words), Translate(type, x) # <<>>
  PROVE  ~IsLast(Item(Sse(Translate(type, x))))
<1>. DEFINE t == Translate(type, x)
<1>1. t \in Seq(Words) /\ (t \in {<<"role">>, <<"finish">>, <<>>} \/ (t = x /\ ToSet(x) \subseteq Text))
  BY TranslateIs
<1>. HIDE DEF t
<1>2. Item(Sse(t)).err = FALSE /\ ErrItem.err = TRUE /\ Item(Sse(t)).bytes = Sse(t)
      /\ Item(Sse(Done)).bytes = Sse(Done)
  BY DEF Item, ErrItem
<1>3. Sse(t) # Sse(Done)
  <2>1. SUFFICES ASSUME Sse(t) = Sse(Done) PROVE FALSE
    OBVIOUS
  <2>2. t # <<>>
    BY DEF t
  <2>3. Len(t) \in Nat /\ Len(t) > 0 /\ 1 \in 1 .. Len(t)
    BY <1>1, <2>2
  <2>4. ASSUME NEW p \in Seq(Words), Len(p) > 0 PROVE Sse(p)[2] = p[1]
    <3>. DEFINE z == p \o <<"nl", "nl">>
    <3>1. z \in Seq(Words) /\ z[1] = p[1] /\ Len(z) > 0
      <4>1. "nl" \in Words
        BY NotText
      <4>2. <<"nl", "nl">> \in Seq(Words)
        BY <4>1
      <4>. QED  BY <2>4, <4>2
    <3>2. Sse(p) = <<"data:">> \o z
      <4>1. "nl" \in Words /\ "data:" \in Words
        BY NotText
      <4>2. <<"data:">> \in Seq(Words) /\ <<"nl", "nl">> \in Seq(Words)
        BY <4>1
      <4>. QED  BY <4>2, ConcatAssociative DEF Sse
    <3>. HIDE DEF z
    <3>3. "data:" \in Words
      BY NotText
    <3>. QED  BY <3>1, <3>2, <3>3
  <2>5. t[1] = "[DONE]"
    <3>1. Sse(t)[2] = t[1] /\ Sse(Done)[2] = Done[1]
      <4>1. Len(Done) > 0 /\ Done \in Seq(Words)
        BY DoneIs
      <4>. QED  BY <1>1, <2>3, <2>4, <4>1
    <3>. QED  BY <2>1, <3>1, DoneIs
  <2>6. CASE t = x /\ ToSet(x) \subseteq Text
    <3>1. t[1] \in Text
      BY <1>1, <2>3, <2>6 DEF ToSet
    <3>. QED  BY <2>5, <3>1, NotText
  <2>7. CASE t \in {<<"role">>, <<"finish">>, <<>>}
    BY <2>2, <2>5, <2>7
  <2>. QED  BY <1>1, <2>6, <2>7
<1>. QED  BY <1>2, <1>3 DEF IsLast, t

-----------------------------------------------------------------------------
(* What is on its way from the relay to the client.                        *)

\* The items that carry the payloads from the (D+1)st on; an error is the last.
Carrying(c, q, broken, D) ==
    /\ q \in Seq(Items)
    /\ \A i \in 0 .. Len(q) - 1 :
          IF broken /\ i + 1 = Len(q) THEN q[i + 1].err
          ELSE ~q[i + 1].err /\ Window(c, q[i + 1].bytes, Stream, Mark[D + i], Mark[D + i + 1])

\* A cut changes nothing in what is carried but what may be garbled.
LEMMA CarryLater ==
  ASSUME NEW c \in BOOLEAN, NEW g \in BOOLEAN, c => g, NEW q, NEW broken \in BOOLEAN, NEW D,
         Carrying(c, q, broken, D)
  PROVE  Carrying(g, q, broken, D)
<1>1. ASSUME NEW x, NEW p, NEW n, Window(c, x, Stream, p, n) PROVE Window(g, x, Stream, p, n)
  BY <1>1, WindowLater
<1>. QED  BY <1>1 DEF Carrying

\* Nothing is on its way in an empty channel.
LEMMA CarryNone ==
  ASSUME NEW c, NEW D, NEW broken PROVE Carrying(c, <<>>, broken, D)
BY DEF Carrying

\* The next payload may be sent behind those on their way.
LEMMA CarryMore ==
  ASSUME NEW c \in BOOLEAN, NEW q, NEW D \in Nat, Carrying(c, q, FALSE, D), NEW item \in Items, ~item.err,
         NEW e, e = D + Len(q), Window(c, item.bytes, Stream, Mark[e], Mark[e + 1])
  PROVE  Carrying(c, Append(q, item), FALSE, D)
<1>. DEFINE N == Len(q)
            z == Append(q, item)
<1>1. q \in Seq(Items) /\ N \in Nat
  BY DEF Carrying
<1>2. \A i \in 0 .. N - 1 :
         ~q[i + 1].err /\ Window(c, q[i + 1].bytes, Stream, Mark[D + i], Mark[D + i + 1])
  BY DEF Carrying
<1>3. z \in Seq(Items) /\ Len(z) = N + 1 /\ z[N + 1] = item /\ \A i \in 0 .. N - 1 : z[i + 1] = q[i + 1]
  BY <1>1
<1>4. Window(c, item.bytes, Stream, Mark[D + N], Mark[D + N + 1])
  OBVIOUS
<1>. HIDE DEF z, N
<1>5. ASSUME NEW i \in 0 .. Len(z) - 1
      PROVE  ~z[i + 1].err /\ Window(c, z[i + 1].bytes, Stream, Mark[D + i], Mark[D + i + 1])
  <2>1. CASE i = N
    BY <1>3, <1>4, <2>1
  <2>2. CASE i # N
    <3>1. i \in 0 .. N - 1
      BY <1>1, <1>3, <2>2
    <3>. QED  BY <1>2, <1>3, <3>1
  <2>. QED  BY <2>1, <2>2
<1>. QED  BY <1>3, <1>5 DEF Carrying, z

\* So may the error, after which nothing comes.
LEMMA CarryError ==
  ASSUME NEW c \in BOOLEAN, NEW q, NEW D \in Nat, Carrying(c, q, FALSE, D)
  PROVE  Carrying(c, Append(q, ErrItem), TRUE, D)
<1>. DEFINE N == Len(q)
            z == Append(q, ErrItem)
<1>1. q \in Seq(Items) /\ N \in Nat
  BY DEF Carrying
<1>2. \A i \in 0 .. N - 1 :
         ~q[i + 1].err /\ Window(c, q[i + 1].bytes, Stream, Mark[D + i], Mark[D + i + 1])
  BY DEF Carrying
<1>3. ErrItem \in Items /\ ErrItem.err
  BY EmptySeq DEF ErrItem, Items
<1>4. z \in Seq(Items) /\ Len(z) = N + 1 /\ z[N + 1] = ErrItem /\ \A i \in 0 .. N - 1 : z[i + 1] = q[i + 1]
  BY <1>1, <1>3
<1>. HIDE DEF z, N
<1>5. ASSUME NEW i \in 0 .. Len(z) - 1
      PROVE  IF TRUE /\ i + 1 = Len(z) THEN z[i + 1].err
             ELSE ~z[i + 1].err /\ Window(c, z[i + 1].bytes, Stream, Mark[D + i], Mark[D + i + 1])
  <2>1. CASE i = N
    BY <1>1, <1>3, <1>4, <2>1
  <2>2. CASE i # N
    <3>1. i \in 0 .. N - 1 /\ i + 1 # Len(z)
      BY <1>1, <1>4, <2>2
    <3>2. z[i + 1] = q[i + 1]
      BY <1>4, <3>1
    <3>. QED  BY <1>2, <3>1, <3>2
  <2>. QED  BY <2>1, <2>2
<1>. QED  BY <1>4, <1>5 DEF Carrying, z

\* The client takes the next of them.
LEMMA CarryNext ==
  ASSUME NEW c \in BOOLEAN, NEW q, NEW D \in Nat, NEW broken \in BOOLEAN, Carrying(c, q, broken, D),
         Len(q) > 0, ~q[1].err
  PROVE  /\ Window(c, q[1].bytes, Stream, Mark[D], Mark[D + 1])
         /\ Carrying(c, Tail(q), broken, D + 1) /\ Len(Tail(q)) = Len(q) - 1
         /\ broken => Len(q) > 1
<1>. DEFINE N == Len(q)
            z == Tail(q)
<1>1. q \in Seq(Items) /\ N \in Nat /\ N > 0
  BY DEF Carrying
<1>2. \A i \in 0 .. N - 1 :
          IF broken /\ i + 1 = N THEN q[i + 1].err
          ELSE ~q[i + 1].err /\ Window(c, q[i + 1].bytes, Stream, Mark[D + i], Mark[D + i + 1])
  BY DEF Carrying
<1>3. z \in Seq(Items) /\ Len(z) = N - 1 /\ \A i \in 0 .. N - 2 : z[i + 1] = q[(i + 1) + 1]
  BY <1>1
<1>. HIDE DEF z, N
<1>4. 0 \in 0 .. N - 1 /\ 0 + 1 = 1 /\ D + 0 = D /\ D + 0 + 1 = D + 1
  BY <1>1
<1>5. ~(broken /\ 1 = N) /\ Window(c, q[1].bytes, Stream, Mark[D], Mark[D + 1])
  <2>1. IF broken /\ 0 + 1 = N THEN q[0 + 1].err
        ELSE ~q[0 + 1].err /\ Window(c, q[0 + 1].bytes, Stream, Mark[D + 0], Mark[D + 0 + 1])
    BY <1>2, <1>4
  <2>. QED  BY <1>4, <2>1
<1>6. ASSUME NEW i \in 0 .. Len(z) - 1
      PROVE  IF broken /\ i + 1 = Len(z) THEN z[i + 1].err
             ELSE ~z[i + 1].err /\ Window(c, z[i + 1].bytes, Stream, Mark[D + 1 + i], Mark[D + 1 + i + 1])
  <2>1. /\ i \in 0 .. N - 2 /\ i + 1 \in 0 .. N - 1 /\ D + (i + 1) = D + 1 + i /\ D + (i + 1) + 1 = D + 1 + i + 1
        /\ i + 1 = Len(z) <=> (i + 1) + 1 = N
    BY <1>1, <1>3
  <2>2. IF broken /\ (i + 1) + 1 = N THEN q[(i + 1) + 1].err
        ELSE ~q[(i + 1) + 1].err
             /\ Window(c, q[(i + 1) + 1].bytes, Stream, Mark[D + (i + 1)], Mark[D + (i + 1) + 1])
    BY <1>2, <2>1
  <2>3. z[i + 1] = q[(i + 1) + 1]
    BY <1>3, <2>1
  <2>. QED  BY <2>1, <2>2, <2>3
<1>7. broken => N > 1
  BY <1>1, <1>5
<1>. QED  BY <1>3, <1>5, <1>6, <1>7 DEF Carrying, z, N

-----------------------------------------------------------------------------
(* The inductive invariant.                                                *)

\* What the client is owed, in payloads.
Owing(n, up) == Len(Thinking) + Count[Kept(n)] + (IF up = "closed" THEN Len(Finish) ELSE 0)

\* What is owed, in payloads, in lines and in symbols.
LEMMA OwingIs ==
  ASSUME Fed, NEW n \in 0 .. Len(wire), NEW up, up = "closed" => n = Len(wire)
  PROVE  /\ Owing(n, up) \in 0 .. Len(Payloads) /\ (up = "closed" => Owing(n, up) = Len(Payloads))
         /\ sink = "ndjson" => Owed(n, up = "closed") = LinesTo(Payloads, Owing(n, up))
         /\ sink = "verbatim" /\ source = "relay" => Owed(n, up = "closed") = SubSeq(Stream, 1, Mark[Owing(n, up)])
         /\ sink = "verbatim" /\ source # "relay" => Owed(n, up = "closed") = SubSeq(Stream, 1, Len(Preface) + n)
<1>1. CASE up = "closed"
  <2>1. Owing(n, up) = HowMany(n, TRUE) /\ Owed(n, up = "closed") = Owed(n, TRUE)
    BY <1>1 DEF Owing, HowMany
  <2>. QED  BY <1>1, <2>1, DueIs, OwedIs
<1>2. CASE up # "closed"
  <2>1. Owing(n, up) = HowMany(n, FALSE) /\ Owed(n, up = "closed") = Owed(n, FALSE)
    BY <1>2 DEF Owing, HowMany
  <2>. QED  BY <1>2, <2>1, DueIs, OwedIs
<1>. QED  BY <1>1, <1>2

\* How much is owed is a number, and no less than the preface.
LEMMA OwingNat ==
  ASSUME Fed, NEW n \in 0 .. Len(wire), NEW up
  PROVE  /\ Owing(n, up) \in Nat /\ Len(Thinking) <= Owing(n, up) /\ Len(Thinking) \in Nat
         /\ Kept(n) \in 0 .. Len(script) /\ Count[Kept(n)] \in Nat
<1>. DEFINE T == Len(Thinking)
            a == Count[Kept(n)]
            f == IF up = "closed" THEN Len(Finish) ELSE 0
<1>1. Len(wire) \in Nat /\ T \in Nat /\ Len(Finish) \in Nat
  <2>1. Len(Finish) = (IF source = "relay" THEN 1 ELSE 0) /\ Len(wire) \in Nat /\ T \in Nat
    BY Numbers
  <2>. QED  BY <2>1
<1>2. Kept(n) \in 0 .. Len(script)
  <2>1. n \in Nat
    BY <1>1
  <2>. QED  BY <2>1, KeptIs
<1>3. a \in Nat
  BY <1>2, Numbers
<1>4. f \in Nat
  BY <1>1
<1>5. Owing(n, up) = T + a + f
  BY DEF Owing
<1>. HIDE DEF T, a, f
<1>6. Owing(n, up) \in Nat /\ T <= Owing(n, up)
  BY <1>1, <1>3, <1>4, <1>5
<1>. QED  BY <1>1, <1>2, <1>3, <1>6 DEF T, a

\* It never grows less.
LEMMA OwingGrows ==
  ASSUME Fed, NEW n \in 0 .. Len(wire), NEW q \in 0 .. Len(wire), n <= q, NEW up, NEW uq,
         up = "closed" => uq = "closed"
  PROVE  Owing(n, up) <= Owing(q, uq) /\ Owing(n, up) \in Nat /\ Owing(q, uq) \in Nat
<1>. DEFINE a == Count[Kept(n)]
            b == Count[Kept(q)]
            T == Len(Thinking)
            F == Len(Finish)
<1>1. /\ Len(script) \in Nat /\ Slack \in Nat /\ Len(wire) \in Nat /\ T \in Nat
      /\ F = (IF source = "relay" THEN 1 ELSE 0)
      /\ \A k \in 0 .. Len(script) : BodyEnd[k] \in Nat /\ Count[k] \in Nat
      /\ \A j, k \in 0 .. Len(script) : j <= k => Count[j] <= Count[k]
  BY Numbers DEF Slack
<1>2. n \in Nat /\ q \in Nat /\ F \in Nat
  BY <1>1
<1>3. /\ Kept(n) \in 0 .. Len(script) /\ Kept(q) \in 0 .. Len(script)
      /\ \A k \in 0 .. Len(script) : BodyEnd[k] <= n + Slack <=> k <= Kept(n)
      /\ \A k \in 0 .. Len(script) : BodyEnd[k] <= q + Slack <=> k <= Kept(q)
  BY <1>2, KeptIs
<1>4. Kept(n) <= Kept(q)
  <2>1. Kept(n) <= Kept(n)
    BY <1>1, <1>3
  <2>2. BodyEnd[Kept(n)] <= n + Slack /\ BodyEnd[Kept(n)] \in Nat
    BY <1>1, <1>3, <2>1
  <2>3. BodyEnd[Kept(n)] <= q + Slack
    BY <1>1, <1>2, <2>2
  <2>. QED  BY <1>3, <2>3
<1>5. a <= b /\ a \in Nat /\ b \in Nat
  BY <1>1, <1>3, <1>4
<1>6. Owing(n, up) = T + a + (IF up = "closed" THEN F ELSE 0) /\ Owing(q, uq) = T + b + (IF uq = "closed" THEN F ELSE 0)
  BY DEF Owing
<1>. HIDE DEF a, b, T, F
<1>7. T \in Nat /\ F \in Nat
  BY <1>1, <1>2
<1>8. CASE up = "closed"
  <2>1. Owing(n, up) = T + a + F /\ Owing(q, uq) = T + b + F
    BY <1>6, <1>8
  <2>. QED  BY <1>5, <1>7, <2>1
<1>9. CASE up # "closed" /\ uq = "closed"
  <2>1. Owing(n, up) = T + a + 0 /\ Owing(q, uq) = T + b + F
    BY <1>6, <1>9
  <2>. QED  BY <1>5, <1>7, <2>1
<1>10. CASE up # "closed" /\ uq # "closed"
  <2>1. Owing(n, up) = T + a + 0 /\ Owing(q, uq) = T + b + 0
    BY <1>6, <1>10
  <2>. QED  BY <1>5, <1>7, <2>1
<1>. QED  BY <1>8, <1>9, <1>10

\* The relay's program counter, item and upstream fit together.
InStep(n, up, r) ==
    /\ r.pc = "reading" => Newlines(r.buf) = {}
    /\ r.pc \in {"none", "reading", "scanning"} => up = "open"
    /\ r.pc = "sending" => r.item \in Items /\ (up = "open" <=> ~IsLast(r.item))
    /\ up = "closed" => n = Len(wire) /\ Newlines(r.buf) = {}

\* While the client reads, what it has not received is on its way.
Pending(ch, r) == IF r.pc = "sending" THEN Append(ch, r.item) ELSE ch
Piped(c, k, D, up, r, ch) ==
    /\ r.pc # "none" /\ (up = "open" => r.pc # "done")
    /\ D + Len(Pending(ch, r)) = Len(Thinking) + Count[k] + (IF up = "open" THEN 0 ELSE 1)
    /\ up = "broken" => Len(Pending(ch, r)) > 0
    /\ Carrying(c, Pending(ch, r), up = "broken", D)

\* The relay has read k events, and the client's side has got D payloads.
Relaying(c, m, n, up, r, ch, cl) ==
    \E k \in 0 .. Len(script) :
        /\ Parsed(c, k, n, r.buf, r.event)
        /\ InStep(n, up, r)
        /\ \E D \in 0 .. Owing(n, up) :
              /\ m = Mark[D]
              /\ cl = "reading" => Piped(c, k, D, up, r, ch)
              /\ cl = "ended" => up = "closed" /\ D = Len(Payloads)

\* Without a relay the client's side has got what has been read.
Pulling(m, n, up, cl) ==
    /\ m <= Len(Preface) + n
    /\ cl \in {"reading", "ended"} => m = Len(Preface) + n
    /\ up = "closed" => n = Len(wire)
    /\ cl = "ended" => up = "closed"

Flowing(c, n, up, r, ch, cl, b, tx, tl, o) ==
    \E m \in 0 .. Len(Stream) :
        /\ Sinking(c, m, b, tx, tl, o)
        /\ cl = "ended" /\ sink # "verbatim" => Breaks(b) = {}
        /\ source = "relay" => Relaying(c, m, n, up, r, ch, cl)
        /\ source # "relay" => Pulling(m, n, up, cl)

Flow == Flowing(cut, at, upstream, relay, chan, client, buf, text, tools, out)

Unopened ==
    /\ at = 0 /\ upstream = "open" /\ relay = Idle0 /\ chan = <<>> /\ ~cut
    /\ buf = <<>> /\ text = <<>> /\ tools = <<>> /\ out = <<>>

\* Nothing is relayed of another stream.
Unrelayed(r, ch) == source # "relay" => r.pc = "none" /\ ch = <<>>

Sound ==
    /\ TypeOK /\ Fed
    /\ ~cut => ~Split(at)
    /\ Unrelayed(relay, chan)
    /\ client \in {"opening", "refused"} => Unopened
    /\ client \notin {"opening", "refused"} => Flow

\* As long as the stream is the same, so is what is said of it.
LEMMA Unmoved ==
  ASSUME UNCHANGED upVars
  PROVE  /\ source' = source /\ sink' = sink /\ prefix' = prefix /\ script' = script /\ wire' = wire
         /\ Thinking' = Thinking /\ Finish' = Finish /\ Payloads' = Payloads /\ Preface' = Preface
         /\ Mark' = Mark /\ Stream' = Stream /\ BodyEnd' = BodyEnd /\ Count' = Count /\ Slack' = Slack
         /\ Fed => Fed'
<1>1. /\ source' = source /\ sink' = sink /\ prefix' = prefix /\ script' = script /\ wire' = wire
  BY DEF upVars
<1>2. Thinking' = Thinking /\ Finish' = Finish /\ Slack' = Slack
  BY <1>1 DEF Thinking, Finish, Slack
<1>3. Chunks(script)' = Chunks(script)
  BY <1>1 DEF Chunks, Chunked
<1>4. Payloads' = Payloads
  BY <1>2, <1>3 DEF Payloads
<1>5. Preface' = Preface
  BY <1>1, <1>2 DEF Preface, Put
<1>6. Puts' = Puts
  BY <1>1, <1>4 DEF Puts, Put
<1>7. Mark' = Mark
  BY <1>6 DEF Mark
<1>8. Stream' = Stream
  BY <1>1, <1>5, <1>6 DEF Stream
<1>9. Bodies' = Bodies
  BY <1>1 DEF Bodies, Bytes, Put
<1>10. BodyEnd' = BodyEnd
  BY <1>9 DEF BodyEnd
<1>11. Carved' = Carved
  BY <1>1 DEF Carved, Chunked
<1>12. Count' = Count
  BY <1>11 DEF Count
<1>13. Fed => Fed'
  <2>1. Body(script)' = Body(script)
    BY <1>1 DEF Body, Bytes, Put
  <2>2. Said' = Said
    BY <1>1 DEF Said
  <2>. QED  BY <1>1, <2>1, <2>2 DEF Fed
<1>. QED  BY <1>1, <1>2, <1>4, <1>5, <1>7, <1>8, <1>10, <1>12, <1>13

\* The flow of the new values is the new flow.
LEMMA FlowNext ==
  ASSUME UNCHANGED upVars, Flowing(cut', at', upstream', relay', chan', client', buf', text', tools', out')
  PROVE  Flow'
<1>1. /\ source' = source /\ sink' = sink /\ script' = script /\ wire' = wire
      /\ Thinking' = Thinking /\ Finish' = Finish /\ Payloads' = Payloads /\ Preface' = Preface
      /\ Mark' = Mark /\ Stream' = Stream /\ BodyEnd' = BodyEnd /\ Count' = Count /\ Slack' = Slack
  BY Unmoved
<1>2. ASSUME NEW n, NEW up PROVE Owing(n, up)' = Owing(n, up)
  BY <1>1 DEF Owing, Kept
<1>3. ASSUME NEW c, NEW m, NEW b, NEW tx, NEW tl, NEW o, Sinking(c, m, b, tx, tl, o)
      PROVE  Sinking(c, m, b, tx, tl, o)'
  BY <1>1, <1>3 DEF Sinking
<1>4. ASSUME NEW c, NEW k, NEW n, NEW b, NEW event, Parsed(c, k, n, b, event)
      PROVE  Parsed(c, k, n, b, event)'
  BY <1>1, <1>4 DEF Parsed, Between
<1>5. ASSUME NEW n, NEW up, NEW r, InStep(n, up, r) PROVE InStep(n, up, r)'
  BY <1>1, <1>5 DEF InStep
<1>6. ASSUME NEW c, NEW k, NEW D, NEW up, NEW r, NEW ch, Piped(c, k, D, up, r, ch)
      PROVE  Piped(c, k, D, up, r, ch)'
  <2>1. Carrying(c, Pending(ch, r), up = "broken", D) => Carrying(c, Pending(ch, r), up = "broken", D)'
    BY <1>1 DEF Carrying
  <2>. QED  BY <1>1, <1>6, <2>1 DEF Piped
<1>7. ASSUME NEW c, NEW m, NEW n, NEW up, NEW r, NEW ch, NEW cl, Relaying(c, m, n, up, r, ch, cl)
      PROVE  Relaying(c, m, n, up, r, ch, cl)'
  BY <1>1, <1>2, <1>4, <1>5, <1>6, <1>7 DEF Relaying
<1>8. ASSUME NEW m, NEW n, NEW up, NEW cl, Pulling(m, n, up, cl) PROVE Pulling(m, n, up, cl)'
  BY <1>1, <1>8 DEF Pulling
<1>. QED  BY <1>1, <1>3, <1>7, <1>8 DEF Flow, Flowing

-----------------------------------------------------------------------------
(* Every step keeps it.                                                    *)

RelayStates == [pc : {"none", "reading", "scanning", "sending", "done"}, buf : Seq(Words),
                event : Words, item : Items \union {<<>>}]
Outputs == IF sink = "ndjson" THEN Seq(NdjsonLines) ELSE Seq(Words)

\* What a step has to keep once the client's stream is open.
LEMMA SoundNext ==
  ASSUME Sound, UNCHANGED upVars, at' \in 0 .. Len(wire), upstream' \in {"open", "closed", "broken"},
         relay' \in RelayStates, chan' \in Seq(Items), client' \in {"reading", "ended", "aborted", "gone"},
         buf' \in Seq(Words), text' \in Seq(Words), tools' \in Seq(Words), out' \in Outputs,
         cut' \in BOOLEAN, ~cut' => ~Split(at'), Unrelayed(relay', chan'),
         Flowing(cut', at', upstream', relay', chan', client', buf', text', tools', out')
  PROVE  Sound'
<1>1. TypeOK /\ Fed
  BY DEF Sound
<1>2. /\ source' = source /\ sink' = sink /\ prefix' = prefix /\ script' = script /\ wire' = wire
      /\ Fed'
  BY <1>1, Unmoved
<1>3. TypeOK'
  BY <1>1, <1>2 DEF TypeOK, RelayStates, Outputs
<1>4. Flow'
  BY FlowNext
<1>5. (~cut => ~Split(at))'
  BY <1>2 DEF Split
<1>6. (Unrelayed(relay, chan))'
  BY <1>2 DEF Unrelayed
<1>. QED  BY <1>2, <1>3, <1>4, <1>5, <1>6 DEF Sound

\* What holds before a step of an open stream.
LEMMA SoundIs ==
  ASSUME Sound
  PROVE  /\ Fed /\ at \in 0 .. Len(wire) /\ upstream \in {"open", "closed", "broken"}
         /\ relay \in RelayStates /\ chan \in Seq(Items)
         /\ client \in {"opening", "refused", "reading", "ended", "aborted", "gone"}
         /\ buf \in Seq(Words) /\ text \in Seq(Words) /\ tools \in Seq(Words) /\ out \in Outputs
         /\ cut \in BOOLEAN /\ (~cut => ~Split(at)) /\ Unrelayed(relay, chan)
         /\ client \in {"opening", "refused"} => Unopened
         /\ client \notin {"opening", "refused"} =>
               Flowing(cut, at, upstream, relay, chan, client, buf, text, tools, out)
BY DEF Sound, TypeOK, RelayStates, Outputs, Flow

\* Nothing has been received at the start.
LEMMA Fresh ==
  ASSUME Fed PROVE Sinking(FALSE, 0, <<>>, <<>>, <<>>, <<>>)
<1>1. CASE sink = "verbatim"
  BY <1>1, WindowEmpty DEF Sinking
<1>2. CASE sink # "verbatim"
  <2>1. 0 \in 0 .. Len(Payloads) /\ Mark[0] = 0
    BY Numbers
  <2>2. Window(FALSE, <<>>, Stream, Mark[0], 0)
    BY <2>1, WindowEmpty
  <2>3. LinesTo(Payloads, 0) = <<>> /\ SpokenBy(Payloads, 0) = <<>> /\ CalledBy(Payloads, 0) = <<>>
    BY PayloadsAre, LinesNone
  <2>4. Alike(FALSE, <<>>, <<>>) /\ SameLines(FALSE, <<>>, <<>>) /\ <<>> \in Seq(Words)
    <3>1. <<>> \in Seq(NdjsonLines) /\ <<>> \in Seq(Words)
      OBVIOUS
    <3>. QED  BY <3>1, AlikeSelf DEF SameLines
  <2>5. Told(FALSE, Payloads, Stream, Mark, 0, 0, <<>>, <<>>, <<>>, <<>>)
    <3>1. Alike(FALSE, <<>>, SpokenBy(Payloads, 0)) /\ <<>> = CalledBy(Payloads, 0)
      BY <2>3, <2>4
    <3>2. SameLines(FALSE, <<>>, LinesTo(Payloads, 0))
      BY <2>3, <2>4
    <3>3. Mark[0] <= 0
      BY <2>1
    <3>4. <<>> \in Seq(Words)
      OBVIOUS
    <3>. QED  BY <2>2, <3>1, <3>2, <3>3, <3>4 DEF Told
  <2>. QED  BY <1>2, <2>1, <2>5 DEF Sinking
<1>. QED  BY <1>1, <1>2

\* A relay that has read nothing stands before the first event.
LEMMA Begun ==
  ASSUME Fed PROVE 0 \in 0 .. Len(script) /\ 0 \in 0 .. Len(wire) /\ Parsed(FALSE, 0, 0, <<>>, "")
<1>1. BodyEnd[0] = 0 /\ 0 \in 0 .. Len(script) /\ 0 \in 0 .. Len(wire)
  BY Numbers
<1>2. Window(FALSE, <<>>, wire, 0, 0) /\ Between(0, 0, "") /\ 0 \in 0 .. 0
  <2>1. Window(FALSE, <<>>, wire, 0, 0)
    BY WindowEmpty
  <2>2. Between(0, 0, "")
    BY <1>1 DEF Between
  <2>3. 0 \in 0 .. 0
    OBVIOUS
  <2>. QED  BY <2>1, <2>2, <2>3
<1>3. \E p \in 0 .. 0 : Window(FALSE, <<>>, wire, p, 0) /\ Between(p, 0, "")
  BY <1>2
<1>. QED  BY <1>1, <1>3 DEF Parsed

\* What Deliver does.
LEMMA DeliverIs ==
  ASSUME Sound, NEW x, Deliver(x), NEW m \in Nat, NEW n \in Nat, cut' \in BOOLEAN, cut => cut',
         Sinking(cut, m, buf, text, tools, out), Window(cut', x, Stream, m, n)
  PROVE  /\ Sinking(cut', n, buf', text', tools', out')
         /\ buf' \in Seq(Words) /\ text' \in Seq(Words) /\ tools' \in Seq(Words) /\ out' \in Outputs
<1>1. /\ Fed /\ cut \in BOOLEAN
      /\ buf \in Seq(Words) /\ text \in Seq(Words) /\ tools \in Seq(Words) /\ out \in Outputs
  BY SoundIs
<1>2. x \in Seq(Words)
  BY DEF Window
<1>3. \A u \in Seq(Words), v \in Seq(Words) : u \o v \in Seq(Words)
  OBVIOUS
<1>4. CASE sink = "verbatim"
  <2>1. out' = out \o x /\ buf' = buf /\ text' = text /\ tools' = tools
    BY <1>4 DEF Deliver
  <2>2. Sinking(cut', n, buf, text, tools, out \o x)
    BY <1>1, <1>4, Delivered
  <2>3. Outputs = Seq(Words)
    BY <1>4 DEF Outputs
  <2>. QED  BY <1>1, <1>2, <1>3, <2>1, <2>2, <2>3
<1>5. CASE sink # "verbatim"
  <2>1. buf' = buf \o x /\ out' = out /\ text' = text /\ tools' = tools
    BY <1>5 DEF Deliver
  <2>2. Sinking(cut', n, buf \o x, text, tools, out)
    BY <1>1, <1>5, Delivered
  <2>. QED  BY <1>1, <1>2, <1>3, <2>1, <2>2
<1>. QED  BY <1>4, <1>5

\* A client that no longer reads is owed nothing.
LEMMA LetGo ==
  ASSUME NEW c, NEW n, NEW up, NEW r, NEW ch, NEW cl, NEW b, NEW tx, NEW tl, NEW o,
         Flowing(c, n, up, r, ch, cl, b, tx, tl, o), NEW ch2, NEW cl2, cl2 \notin {"reading", "ended"}
  PROVE  Flowing(c, n, up, r, ch2, cl2, b, tx, tl, o)
<1>1. PICK m \in 0 .. Len(Stream) :
        /\ Sinking(c, m, b, tx, tl, o)
        /\ source = "relay" => Relaying(c, m, n, up, r, ch, cl)
        /\ source # "relay" => Pulling(m, n, up, cl)
  BY DEF Flowing
<1>2. source = "relay" => Relaying(c, m, n, up, r, ch2, cl2)
  BY <1>1 DEF Relaying
<1>3. source # "relay" => Pulling(m, n, up, cl2)
  BY <1>1 DEF Pulling
<1>. QED  BY <1>1, <1>2, <1>3 DEF Flowing

\* The client may leave at any time: nothing it had got changes.
LEMMA LeaveSound == ASSUME Sound, Leave PROVE Sound'
<1>1. /\ client \in {"opening", "reading"} /\ client' = "gone" /\ UNCHANGED upVars
      /\ at' = at /\ upstream' = upstream /\ relay' = relay /\ chan' = chan /\ cut' = cut
      /\ buf' = buf /\ text' = text /\ tools' = tools /\ out' = out
  BY DEF Leave, sinkVars
<1>2. /\ Fed /\ at \in 0 .. Len(wire) /\ upstream \in {"open", "closed", "broken"}
      /\ relay \in RelayStates /\ chan \in Seq(Items)
      /\ buf \in Seq(Words) /\ text \in Seq(Words) /\ tools \in Seq(Words) /\ out \in Outputs
      /\ cut \in BOOLEAN /\ (~cut => ~Split(at)) /\ Unrelayed(relay, chan)
  BY SoundIs
<1>3. Flowing(cut, at, upstream, relay, chan, "gone", buf, text, tools, out)
  <2>1. CASE client = "reading"
    <3>1. Flowing(cut, at, upstream, relay, chan, client, buf, text, tools, out)
      BY <2>1, SoundIs
    <3>. QED  BY <3>1, LetGo
  <2>2. CASE client = "opening"
    <3>1. Unopened
      BY <2>2, SoundIs
    <3>2. /\ at = 0 /\ upstream = "open" /\ relay = Idle0 /\ chan = <<>> /\ cut = FALSE
          /\ buf = <<>> /\ text = <<>> /\ tools = <<>> /\ out = <<>>
      BY <1>2, <3>1 DEF Unopened
    <3>3. Sinking(FALSE, 0, <<>>, <<>>, <<>>, <<>>) /\ Mark[0] = 0 /\ 0 \in 0 .. Len(Stream)
      <4>1. Mark[0] = 0 /\ Len(Stream) \in Nat
        BY <1>2, Numbers
      <4>2. 0 \in 0 .. Len(Stream)
        BY <4>1
      <4>. QED  BY <1>2, <4>1, <4>2, Fresh
    <3>4. 0 \in 0 .. Len(script) /\ Parsed(FALSE, 0, 0, <<>>, "") /\ 0 \in 0 .. Len(wire)
      BY <1>2, Begun
    <3>5. Idle0.pc = "none" /\ Idle0.buf = <<>> /\ Idle0.event = ""
      BY DEF Idle0
    <3>6. 0 \in 0 .. Owing(0, "open")
      <4>1. Owing(0, "open") \in Nat
        BY <1>2, <3>4, OwingNat
      <4>. QED  BY <4>1
    <3>7. Relaying(FALSE, 0, 0, "open", Idle0, <<>>, "gone")
      <4>1. InStep(0, "open", Idle0)
        BY <3>5 DEF InStep
      <4>. QED  BY <3>3, <3>4, <3>5, <3>6, <4>1 DEF Relaying
    <3>8. Pulling(0, 0, "open", "gone")
      <4>1. Len(Preface) \in Nat
        BY <1>2, Numbers
      <4>. QED  BY <4>1 DEF Pulling
    <3>9. Flowing(FALSE, 0, "open", Idle0, <<>>, "gone", <<>>, <<>>, <<>>, <<>>)
      BY <3>3, <3>7, <3>8 DEF Flowing
    <3>. QED  BY <3>2, <3>9
  <2>. QED  BY <1>1, <2>1, <2>2
<1>4. Flowing(cut', at', upstream', relay', chan', client', buf', text', tools', out')
  BY <1>1, <1>3
<1>. QED  BY <1>1, <1>2, <1>4, SoundNext

\* A refused request gets nothing.
LEMMA RefuseSound == ASSUME Sound, Refuse PROVE Sound'
<1>1. /\ client = "opening" /\ client' = "refused" /\ UNCHANGED upVars
      /\ at' = at /\ upstream' = upstream /\ relay' = relay /\ chan' = chan /\ cut' = cut
      /\ buf' = buf /\ text' = text /\ tools' = tools /\ out' = out
  BY DEF Refuse, sinkVars
<1>2. TypeOK /\ Fed /\ Unopened /\ (~cut => ~Split(at))
  BY <1>1 DEF Sound
<1>3. source' = source /\ sink' = sink /\ prefix' = prefix /\ script' = script /\ wire' = wire /\ Fed'
  BY <1>1, <1>2, Unmoved
<1>4. TypeOK'
  BY <1>1, <1>2, <1>3 DEF TypeOK
<1>5. Unopened'
  BY <1>1, <1>2 DEF Unopened, Idle0
<1>6. (~cut => ~Split(at))'
  BY <1>1, <1>2, <1>3 DEF Split
<1>7. (Unrelayed(relay, chan))'
  BY <1>1, <1>3 DEF Unrelayed, Sound
<1>. QED  BY <1>1, <1>3, <1>4, <1>5, <1>6, <1>7 DEF Sound

\* When the response opens, the preface is all the client gets.
LEMMA OpenSound == ASSUME Sound, Open PROVE Sound'
<1>. DEFINE r == IF source = "relay" THEN [relay EXCEPT !.pc = "reading"] ELSE relay
            n == Len(Preface)
<1>1. /\ client = "opening" /\ client' = "reading" /\ UNCHANGED upVars /\ relay' = r /\ Deliver(Preface)
      /\ at' = at /\ upstream' = upstream /\ chan' = chan /\ cut' = cut
  BY DEF Open, Starts, Preface
<1>2. /\ Fed /\ at \in 0 .. Len(wire) /\ upstream \in {"open", "closed", "broken"}
      /\ relay \in RelayStates /\ chan \in Seq(Items)
      /\ cut \in BOOLEAN /\ (~cut => ~Split(at)) /\ Unopened /\ Unrelayed(relay, chan)
  BY <1>1, SoundIs
<1>3. /\ at = 0 /\ upstream = "open" /\ relay = Idle0 /\ chan = <<>> /\ cut = FALSE
      /\ buf = <<>> /\ text = <<>> /\ tools = <<>> /\ out = <<>>
  BY <1>2 DEF Unopened
<1>4. Window(FALSE, Preface, Stream, 0, n) /\ n \in Nat
  BY <1>2, PrefaceWindow
<1>5. Sinking(cut, 0, buf, text, tools, out)
  BY <1>2, <1>3, Fresh
<1>6. /\ Sinking(cut', n, buf', text', tools', out')
      /\ buf' \in Seq(Words) /\ text' \in Seq(Words) /\ tools' \in Seq(Words) /\ out' \in Outputs
  <2>1. cut' \in BOOLEAN /\ (cut => cut') /\ Window(cut', Preface, Stream, 0, n)
    BY <1>1, <1>3, <1>4
  <2>. HIDE DEF n
  <2>. QED  BY <1>1, <1>4, <1>5, <2>1, DeliverIs
<1>7. 0 \in 0 .. Len(script) /\ Parsed(FALSE, 0, 0, <<>>, "") /\ 0 \in 0 .. Len(wire)
  BY <1>2, Begun
<1>8. /\ Mark[Len(Thinking)] = n /\ Count[0] = 0 /\ Len(Thinking) \in Nat
      /\ n \in 0 .. Len(Stream) /\ Len(Thinking) \in 0 .. Owing(0, "open")
  <2>1. Len(Thinking) \in 0 .. Len(Payloads)
    <3>1. /\ Len(Payloads) = Len(Thinking) + Len(Chunks(script)) + Len(Finish)
          /\ Len(Finish) = (IF source = "relay" THEN 1 ELSE 0)
          /\ Len(Chunks(script)) \in Nat /\ Len(Thinking) \in Nat
      BY <1>2, Numbers
    <3>2. Len(Finish) \in Nat
      BY <3>1
    <3>. QED  BY <3>1, <3>2
  <2>2. Mark[Len(Thinking)] = n /\ Count[0] = 0 /\ Len(Thinking) \in Nat /\ Len(Stream) \in Nat
    BY <1>2, Numbers
  <2>3. n <= Len(Stream)
    BY <1>2, <2>1, <2>2, Numbers
  <2>4. Owing(0, "open") \in Nat /\ Len(Thinking) <= Owing(0, "open")
    BY <1>2, <1>7, OwingNat
  <2>5. n \in 0 .. Len(Stream)
    <3>. HIDE DEF n
    <3>. QED  BY <1>4, <2>2, <2>3
  <2>6. Len(Thinking) \in 0 .. Owing(0, "open")
    BY <2>2, <2>4
  <2>. QED  BY <2>2, <2>5, <2>6
<1>9. relay' \in RelayStates
  <2>1. \A x \in RelayStates : [x EXCEPT !.pc = "reading"] \in RelayStates
    BY DEF RelayStates
  <2>. QED  BY <1>1, <1>2, <2>1
<1>. HIDE DEF n
<1>10. source = "relay" => Relaying(FALSE, n, 0, "open", r, <<>>, "reading")
  <2>1. SUFFICES ASSUME source = "relay" PROVE Relaying(FALSE, n, 0, "open", r, <<>>, "reading")
    OBVIOUS
  <2>2. r.pc = "reading" /\ r.buf = <<>> /\ r.event = ""
    BY <1>3, <2>1 DEF Idle0
  <2>. HIDE DEF r
  <2>3. InStep(0, "open", r)
    <3>1. Newlines(<<>>) = {}
      BY DEF Newlines
    <3>. QED  BY <2>2, <3>1 DEF InStep
  <2>4. Piped(FALSE, 0, Len(Thinking), "open", r, <<>>)
    <3>1. Pending(<<>>, r) = <<>> /\ Len(<<>>) = 0
      BY <2>2 DEF Pending
    <3>2. Carrying(FALSE, <<>>, FALSE, Len(Thinking))
      BY CarryNone
    <3>3. Carrying(FALSE, Pending(<<>>, r), "open" = "broken", Len(Thinking))
      BY <3>1, <3>2
    <3>4. Len(Thinking) + 0 = Len(Thinking) + Count[0] + 0
      <4>1. Count[0] = 0 /\ Len(Thinking) \in Nat
        BY <1>8
      <4>. QED  BY <4>1
    <3>5. Len(Thinking) + Len(Pending(<<>>, r)) = Len(Thinking) + Count[0] + 0
      BY <3>1, <3>4
    <3>. QED  BY <2>2, <3>3, <3>5 DEF Piped
  <2>. QED  BY <1>7, <1>8, <2>2, <2>3, <2>4 DEF Relaying
<1>11. Pulling(n, 0, "open", "reading")
  <2>1. n = Len(Preface) /\ n \in Nat
    BY <1>4 DEF n
  <2>. QED  BY <2>1 DEF Pulling
<1>12. Flowing(cut', 0, "open", r, <<>>, "reading", buf', text', tools', out')
  <2>1. n \in 0 .. Len(Stream)
    BY <1>8
  <2>2. cut' = FALSE
    BY <1>1, <1>3
  <2>. HIDE DEF r
  <2>. QED  BY <1>6, <1>10, <1>11, <2>1, <2>2 DEF Flowing
<1>13. Flowing(cut', at', upstream', relay', chan', client', buf', text', tools', out')
  BY <1>1, <1>3, <1>12
<1>14. at' \in 0 .. Len(wire) /\ upstream' \in {"open", "closed", "broken"} /\ chan' \in Seq(Items)
       /\ client' \in {"reading", "ended", "aborted", "gone"} /\ cut' \in BOOLEAN /\ (~cut' => ~Split(at'))
  BY <1>1, <1>2
<1>15. UNCHANGED upVars
  BY <1>1
<1>16. Unrelayed(relay', chan')
  BY <1>1, <1>2 DEF Unrelayed
<1>. QED  BY <1>6, <1>9, <1>13, <1>14, <1>15, <1>16, SoundNext

\* Of any stream: where it begins, and that its prefix comes first.
LEMMA Beginning ==
  Fed => /\ Payloads \in Seq(Seq(Words)) /\ Mark[0] = 0 /\ Len(Payloads) \in Nat
         /\ Len(Stream) \in Nat /\ Len(Preface) <= Len(Stream) /\ Len(Preface) \in Nat
         /\ Preface \in Seq(Words)
         /\ Window(FALSE, Preface, Stream, 0, Len(Preface))
<1>. SUFFICES ASSUME Fed
              PROVE  /\ Payloads \in Seq(Seq(Words)) /\ Mark[0] = 0 /\ Len(Payloads) \in Nat
                     /\ Len(Stream) \in Nat /\ Len(Preface) <= Len(Stream) /\ Len(Preface) \in Nat
                     /\ Preface \in Seq(Words)
                     /\ Window(FALSE, Preface, Stream, 0, Len(Preface))
  OBVIOUS
<1>1. Payloads \in Seq(Seq(Words)) /\ Preface \in Seq(Words)
  BY PayloadsAre, PrefaceIs
<1>2. Mark[0] = 0 /\ Len(Payloads) \in Nat /\ Len(Stream) \in Nat /\ Len(Preface) \in Nat
  BY Numbers
<1>3. Len(Preface) <= Len(Stream)
  <2>1. Len(Thinking) \in 0 .. Len(Payloads)
    <3>1. /\ Len(Payloads) = Len(Thinking) + Len(Chunks(script)) + Len(Finish)
          /\ Len(Finish) = (IF source = "relay" THEN 1 ELSE 0)
          /\ Len(Chunks(script)) \in Nat /\ Len(Thinking) \in Nat
      BY Numbers
    <3>2. Len(Finish) \in Nat
      BY <3>1
    <3>. QED  BY <3>1, <3>2
  <2>2. Mark[Len(Thinking)] = Len(Preface)
    BY Numbers
  <2>. QED  BY <2>1, <2>2, Numbers
<1>4. Window(FALSE, Preface, Stream, 0, Len(Preface))
  BY PrefaceWindow
<1>. QED  BY <1>1, <1>2, <1>3, <1>4

\* An error body is a stream that says nothing else.
LEMMA OpenErrorSound == ASSUME Sound, OpenError PROVE Sound'
<1>1. /\ client = "opening" /\ client' = "reading" /\ source \in {"direct", "native"}
      /\ relay' = relay /\ Deliver(Preface) /\ script' = <<>> /\ wire' = <<"error">>
      /\ source' = source /\ sink' = sink /\ prefix' = prefix
      /\ at' = at /\ upstream' = upstream /\ chan' = chan /\ cut' = cut
  BY DEF OpenError, Starts, Preface
<1>2. TypeOK /\ Fed /\ Unopened
  BY <1>1 DEF Sound
<1>3. /\ at = 0 /\ upstream = "open" /\ relay = Idle0 /\ chan = <<>> /\ cut = FALSE
      /\ buf = <<>> /\ text = <<>> /\ tools = <<>> /\ out = <<>>
  BY <1>2 DEF Unopened, TypeOK
<1>4. Fed'
  BY <1>1, <1>2 DEF Fed
<1>5. /\ Payloads' \in Seq(Seq(Words)) /\ Mark'[0] = 0 /\ Len(Payloads') \in Nat
      /\ Len(Stream') \in Nat /\ Len(Preface') <= Len(Stream') /\ Len(Preface') \in Nat
      /\ Preface' \in Seq(Words)
      /\ Window(FALSE, Preface', Stream', 0, Len(Preface'))
  <2>1. (Fed => /\ Payloads \in Seq(Seq(Words)) /\ Mark[0] = 0 /\ Len(Payloads) \in Nat
                /\ Len(Stream) \in Nat /\ Len(Preface) <= Len(Stream) /\ Len(Preface) \in Nat
                /\ Preface \in Seq(Words)
                /\ Window(FALSE, Preface, Stream, 0, Len(Preface)))'
    BY Beginning, PTL
  <2>. QED  BY <1>4, <2>1
<1>6. Preface' = Preface
  <2>1. Thinking' = Thinking
    BY <1>1 DEF Thinking
  <2>. QED  BY <1>1, <2>1 DEF Preface, Put
<1>7. ASSUME NEW u \in Seq(Words) PROVE <<>> \o u = u
  OBVIOUS
<1>8. IF sink = "verbatim" THEN out' = Preface /\ buf' = <<>> ELSE buf' = Preface /\ out' = <<>>
  <2>1. <<>> \o Preface = Preface
    BY <1>5, <1>6, <1>7
  <2>2. CASE sink = "verbatim"
    <3>1. out' = out \o Preface /\ buf' = buf
      BY <1>1, <2>2 DEF Deliver
    <3>. QED  BY <1>3, <2>1, <2>2, <3>1
  <2>3. CASE sink # "verbatim"
    <3>1. buf' = buf \o Preface /\ out' = out
      BY <1>1, <2>3 DEF Deliver
    <3>. QED  BY <1>3, <2>1, <2>3, <3>1
  <2>. QED  BY <2>2, <2>3
<1>9. text' = <<>> /\ tools' = <<>>
  BY <1>1, <1>3 DEF Deliver
<1>10. TypeOK'
  <2>1. <<>> \in Seq(Words) /\ <<>> \in Seq(Events) /\ <<>> \in Seq(NdjsonLines) /\ Preface \in Seq(Words)
    BY <1>5, <1>6
  <2>2. <<"error">> \in Seq(Words) /\ Len(<<"error">>) = 1
    <3>1. "error" \in Words
      BY NotText
    <3>. QED  BY <3>1
  <2>3. 0 \in 0 .. Len(<<"error">>)
    BY <2>2
  <2>4. buf' \in Seq(Words) /\ text' \in Seq(Words) /\ tools' \in Seq(Words)
    BY <1>8, <1>9, <2>1
  <2>5. (out \in IF sink = "ndjson" THEN Seq(NdjsonLines) ELSE Seq(Words))'
    BY <1>1, <1>2, <1>8, <2>1 DEF TypeOK
  <2>. QED  BY <1>1, <1>2, <1>3, <2>1, <2>2, <2>3, <2>4, <2>5 DEF TypeOK
<1>11. (~cut => ~Split(at))'
  BY <1>1, <1>3 DEF Split
<1>12. Flow'
  <2>0. PICK n \in Nat : n = Len(Preface')
    BY <1>5
  <2>1. n \in Nat /\ n \in 0 .. Len(Stream')
    BY <1>5, <2>0
  <2>2. (Sinking(cut, n, buf, text, tools, out))'
    <3>1. CASE sink = "verbatim"
      <4>1. Window(FALSE, out', Stream', 0, n)
        BY <1>5, <1>6, <1>8, <2>0, <3>1
      <4>. QED  BY <1>1, <1>3, <3>1, <4>1 DEF Sinking
    <3>2. CASE sink # "verbatim"
      <4>1. Window(FALSE, buf', Stream', Mark'[0], n)
        BY <1>5, <1>6, <1>8, <2>0, <3>2
      <4>2. /\ LinesTo(Payloads', 0) = <<>> /\ SpokenBy(Payloads', 0) = <<>>
            /\ CalledBy(Payloads', 0) = <<>>
        BY <1>5, LinesNone
      <4>3. Alike(FALSE, <<>>, <<>>) /\ SameLines(FALSE, <<>>, <<>>) /\ <<>> \in Seq(Words)
        <5>1. <<>> \in Seq(NdjsonLines) /\ <<>> \in Seq(Words)
          OBVIOUS
        <5>. QED  BY <5>1, AlikeSelf DEF SameLines
      <4>4. text' \in Seq(Words) /\ Alike(FALSE, text', SpokenBy(Payloads', 0))
        BY <1>9, <4>2, <4>3
      <4>5. tools' = CalledBy(Payloads', 0)
        BY <1>9, <4>2
      <4>6. SameLines(FALSE, out', LinesTo(Payloads', 0))
        BY <1>8, <3>2, <4>2, <4>3
      <4>7. Mark'[0] <= n
        BY <1>5, <2>1
      <4>8. Told(FALSE, Payloads', Stream', Mark', 0, n, buf', text', tools', out')
        BY <4>1, <4>4, <4>5, <4>6, <4>7 DEF Told
      <4>9. 0 \in 0 .. Len(Payloads') /\ sink' # "verbatim" /\ cut' = FALSE
        BY <1>1, <1>3, <1>5, <3>2
      <4>. QED  BY <4>8, <4>9 DEF Sinking
    <3>. QED  BY <3>1, <3>2
  <2>3. (Pulling(n, at, upstream, client))'
    <3>1. n = Len(Preface') + 0 /\ n <= Len(Preface') + 0
      BY <2>0, <2>1
    <3>. QED  BY <1>1, <1>3, <3>1 DEF Pulling
  <2>4. source' # "relay" /\ client' = "reading"
    BY <1>1
  <2>. QED  BY <2>1, <2>2, <2>3, <2>4 DEF Flow, Flowing
<1>13. (Unrelayed(relay, chan))'
  BY <1>1 DEF Unrelayed, Sound
<1>. QED  BY <1>1, <1>4, <1>10, <1>11, <1>12, <1>13 DEF Sound

\* What holds of an open stream that is not relayed.
LEMMA PullIs ==
  ASSUME Sound, client = "reading", source # "relay"
  PROVE  /\ Len(Preface) \in Nat /\ Len(Preface) + at \in 0 .. Len(Stream)
         /\ Len(Stream) = Len(Preface) + Len(wire) /\ Len(wire) \in Nat
         /\ Sinking(cut, Len(Preface) + at, buf, text, tools, out)
         /\ upstream = "closed" => at = Len(wire)
<1>1. Fed /\ Flowing(cut, at, upstream, relay, chan, client, buf, text, tools, out)
  BY SoundIs
<1>2. PICK m \in 0 .. Len(Stream) :
        Sinking(cut, m, buf, text, tools, out) /\ Pulling(m, at, upstream, client)
  BY <1>1 DEF Flowing
<1>3. m = Len(Preface) + at /\ (upstream = "closed" => at = Len(wire))
  BY <1>2 DEF Pulling
<1>4. Preface \in Seq(Words) /\ wire \in Seq(Words) /\ Stream = Preface \o wire
  BY <1>1, PrefaceIs, StreamIs
<1>5. Len(Preface) \in Nat /\ Len(wire) \in Nat /\ Len(Stream) = Len(Preface) + Len(wire)
  BY <1>4
<1>. QED  BY <1>2, <1>3, <1>5

\* Without a relay a chunk goes straight to the sink.
LEMMA PullSound == ASSUME Sound, NEW n \in 1 .. Len(wire), Pull(n) PROVE Sound'
<1>. DEFINE x == IF sink = "ndjson" THEN Lossy(Chunk(n)) ELSE Chunk(n)
            m == Len(Preface) + at
            q == Len(Preface) + (at + n)
<1>1. /\ client = "reading" /\ source # "relay" /\ at + n <= Len(wire)
      /\ Deliver(x) /\ at' = at + n /\ cut' = (cut \/ Cuts(n))
      /\ UNCHANGED upVars /\ upstream' = upstream /\ relay' = relay /\ chan' = chan /\ client' = client
  BY DEF Pull, Wants
<1>2. /\ Fed /\ at \in 0 .. Len(wire) /\ upstream \in {"open", "closed", "broken"}
      /\ relay \in RelayStates /\ chan \in Seq(Items) /\ cut \in BOOLEAN /\ (~cut => ~Split(at))
      /\ Unrelayed(relay, chan)
  BY SoundIs
<1>3. /\ Len(Preface) \in Nat /\ m \in 0 .. Len(Stream) /\ Len(Stream) = Len(Preface) + Len(wire)
      /\ Len(wire) \in Nat /\ Sinking(cut, m, buf, text, tools, out)
      /\ upstream = "closed" => at = Len(wire)
  BY <1>1, PullIs
<1>4. cut' \in BOOLEAN /\ (cut => cut')
  BY <1>1, <1>2
<1>5. /\ \A c \in BOOLEAN : Window(c, Chunk(n), wire, at, at + n)
      /\ Window(cut', Lossy(Chunk(n)), wire, at, at + n)
      /\ ~cut' => ~Split(at + n)
  BY <1>1, <1>2, ChunkRead
<1>6. Window(cut', x, wire, at, at + n)
  BY <1>4, <1>5
<1>. HIDE DEF x
<1>7. at \in Nat /\ at + n \in 0 .. Len(wire) /\ q \in Nat /\ m \in Nat /\ q \in 0 .. Len(Stream)
  BY <1>1, <1>2, <1>3
<1>8. Window(cut', x, Stream, m, q)
  BY <1>1, <1>2, <1>4, <1>6, <1>7, Shifted
<1>. HIDE DEF m, q
<1>9. /\ Sinking(cut', q, buf', text', tools', out')
      /\ buf' \in Seq(Words) /\ text' \in Seq(Words) /\ tools' \in Seq(Words) /\ out' \in Outputs
  BY <1>1, <1>3, <1>4, <1>7, <1>8, DeliverIs
<1>10. Pulling(q, at + n, upstream, "reading")
  <2>1. upstream = "closed" => at + n = Len(wire)
    <3>1. upstream # "closed"
      BY <1>1, <1>3, <1>7
    <3>. QED  BY <3>1
  <2>2. q = Len(Preface) + (at + n) /\ q <= Len(Preface) + (at + n)
    BY <1>7 DEF q
  <2>. QED  BY <2>1, <2>2 DEF Pulling
<1>11. Flowing(cut', at + n, upstream, relay, chan, "reading", buf', text', tools', out')
  BY <1>1, <1>7, <1>9, <1>10 DEF Flowing
<1>12. Flowing(cut', at', upstream', relay', chan', client', buf', text', tools', out')
  BY <1>1, <1>11
<1>. QED  BY <1>1, <1>2, <1>4, <1>5, <1>7, <1>9, <1>12, SoundNext

\* The end of such a body ends the response, everything read having been passed on.
LEMMA PullEndSound == ASSUME Sound, PullEnd PROVE Sound'
<1>. DEFINE m == Len(Preface) + at
<1>1. /\ client = "reading" /\ (sink = "ndjson" => Breaks(buf) = {}) /\ source # "relay" /\ at = Len(wire)
      /\ upstream' = "closed" /\ client' = "ended" /\ UNCHANGED upVars /\ at' = at
      /\ relay' = relay /\ chan' = chan /\ cut' = cut
      /\ buf' = buf /\ text' = text /\ tools' = tools /\ out' = out
  BY DEF PullEnd, Wants, sinkVars
<1>2. /\ Fed /\ at \in 0 .. Len(wire) /\ relay \in RelayStates /\ chan \in Seq(Items)
      /\ buf \in Seq(Words) /\ text \in Seq(Words) /\ tools \in Seq(Words) /\ out \in Outputs
      /\ cut \in BOOLEAN /\ (~cut => ~Split(at))
      /\ Unrelayed(relay, chan)
  BY SoundIs
<1>3. m \in 0 .. Len(Stream) /\ Sinking(cut, m, buf, text, tools, out)
  BY <1>1, PullIs
<1>4. Pulling(m, at, "closed", "ended")
  <2>1. m <= Len(Preface) + at
    BY <1>3
  <2>. QED  BY <1>1, <2>1 DEF Pulling
<1>5. sink # "verbatim" => Breaks(buf) = {}
  BY <1>1, <1>2 DEF Fed
<1>. HIDE DEF m
<1>6. Flowing(cut, at, "closed", relay, chan, "ended", buf, text, tools, out)
  BY <1>1, <1>3, <1>4, <1>5 DEF Flowing
<1>7. Flowing(cut', at', upstream', relay', chan', client', buf', text', tools', out')
  BY <1>1, <1>6
<1>. QED  BY <1>1, <1>2, <1>7, SoundNext

\* A body that breaks aborts the response.
LEMMA PullBrokenSound == ASSUME Sound, PullBroken PROVE Sound'
<1>. DEFINE m == Len(Preface) + at
<1>1. /\ client = "reading" /\ source # "relay"
      /\ upstream' = "broken" /\ client' = "aborted" /\ UNCHANGED upVars /\ at' = at
      /\ relay' = relay /\ chan' = chan /\ cut' = cut
      /\ buf' = buf /\ text' = text /\ tools' = tools /\ out' = out
  BY DEF PullBroken, Wants, sinkVars
<1>2. /\ Fed /\ at \in 0 .. Len(wire) /\ relay \in RelayStates /\ chan \in Seq(Items)
      /\ buf \in Seq(Words) /\ text \in Seq(Words) /\ tools \in Seq(Words) /\ out \in Outputs
      /\ cut \in BOOLEAN /\ (~cut => ~Split(at))
      /\ Unrelayed(relay, chan)
  BY SoundIs
<1>3. m \in 0 .. Len(Stream) /\ Sinking(cut, m, buf, text, tools, out)
  BY <1>1, PullIs
<1>4. Pulling(m, at, "broken", "aborted")
  <2>1. m <= Len(Preface) + at
    BY <1>3
  <2>. QED  BY <2>1 DEF Pulling
<1>. HIDE DEF m
<1>5. Flowing(cut, at, "broken", relay, chan, "aborted", buf, text, tools, out)
  BY <1>1, <1>3, <1>4 DEF Flowing
<1>6. Flowing(cut', at', upstream', relay', chan', client', buf', text', tools', out')
  BY <1>1, <1>5
<1>. QED  BY <1>1, <1>2, <1>6, SoundNext

\* What holds of a stream that is relayed.
LEMMA RelayIs ==
  ASSUME Sound, relay.pc # "none"
  PROVE  /\ source = "relay" /\ client \in {"reading", "ended", "aborted", "gone"}
         /\ Fed /\ Flowing(cut, at, upstream, relay, chan, client, buf, text, tools, out)
<1>1. /\ client \in {"opening", "refused", "reading", "ended", "aborted", "gone"} /\ Unrelayed(relay, chan) /\ Fed
      /\ client \in {"opening", "refused"} => Unopened
      /\ client \notin {"opening", "refused"} =>
            Flowing(cut, at, upstream, relay, chan, client, buf, text, tools, out)
  BY SoundIs
<1>2. source = "relay"
  BY <1>1 DEF Unrelayed
<1>3. client \notin {"opening", "refused"}
  <2>1. Idle0.pc = "none"
    BY DEF Idle0
  <2>. QED  BY <1>1, <2>1 DEF Unopened
<1>. QED  BY <1>1, <1>2, <1>3

\* The relay goes on: wherever the client's side is, it goes on from there.
GoesOn(c, n, up, r, ch, cl, g, q, uq, s, cs) ==
    \A m \in 0 .. Len(Stream) : Relaying(c, m, n, up, r, ch, cl) => Relaying(g, m, q, uq, s, cs, cl)

\* If the relay goes on, for any place of the sink, then so does the flow.
LEMMA RelayFlow ==
  ASSUME Fed, source = "relay", NEW c \in BOOLEAN, NEW g \in BOOLEAN, c => g,
         NEW n, NEW up, NEW r, NEW ch, NEW cl, NEW b, NEW tx, NEW tl, NEW o,
         Flowing(c, n, up, r, ch, cl, b, tx, tl, o),
         NEW q, NEW uq, NEW s, NEW cs, GoesOn(c, n, up, r, ch, cl, g, q, uq, s, cs)
  PROVE  Flowing(g, q, uq, s, cs, cl, b, tx, tl, o)
<1>1. PICK m \in 0 .. Len(Stream) :
        /\ Sinking(c, m, b, tx, tl, o)
        /\ cl = "ended" /\ sink # "verbatim" => Breaks(b) = {}
        /\ source = "relay" => Relaying(c, m, n, up, r, ch, cl)
  BY DEF Flowing
<1>2. Sinking(g, m, b, tx, tl, o)
  BY <1>1, SinkingLater
<1>3. Relaying(g, m, q, uq, s, cs, cl)
  BY <1>1 DEF GoesOn
<1>. QED  BY <1>1, <1>2, <1>3 DEF Flowing

\* A step of the relay that goes on and leaves the sink alone is sound.
LEMMA RelayStep ==
  ASSUME Sound, relay.pc # "none", UNCHANGED upVars, UNCHANGED sinkVars, client' = client,
         at' \in 0 .. Len(wire), upstream' \in {"open", "closed", "broken"},
         relay' \in RelayStates, chan' \in Seq(Items), cut' \in BOOLEAN, cut => cut', ~cut' => ~Split(at'),
         GoesOn(cut, at, upstream, relay, chan, client, cut', at', upstream', relay', chan')
  PROVE  Sound'
<1>1. /\ source = "relay" /\ client \in {"reading", "ended", "aborted", "gone"}
      /\ Fed /\ Flowing(cut, at, upstream, relay, chan, client, buf, text, tools, out)
  BY RelayIs
<1>2. /\ buf \in Seq(Words) /\ text \in Seq(Words) /\ tools \in Seq(Words) /\ out \in Outputs /\ cut \in BOOLEAN
  BY SoundIs
<1>3. buf' = buf /\ text' = text /\ tools' = tools /\ out' = out
  BY DEF sinkVars
<1>4. Flowing(cut', at', upstream', relay', chan', client, buf, text, tools, out)
  BY <1>1, <1>2, RelayFlow
<1>5. Flowing(cut', at', upstream', relay', chan', client', buf', text', tools', out')
  BY <1>3, <1>4
<1>6. Unrelayed(relay', chan')
  BY <1>1 DEF Unrelayed
<1>. QED  BY <1>1, <1>2, <1>3, <1>5, <1>6, SoundNext

\* One step of the relay's states.
LEMMA RelayStateIs ==
  ASSUME NEW r \in RelayStates
  PROVE  /\ r.pc \in {"none", "reading", "scanning", "sending", "done"} /\ r.buf \in Seq(Words)
         /\ r.event \in Words /\ r.item \in Items \union {<<>>}
         /\ \A p \in {"none", "reading", "scanning", "sending", "done"} : [r EXCEPT !.pc = p] \in RelayStates
         /\ \A b \in Seq(Words) : [r EXCEPT !.buf = b] \in RelayStates
         /\ \A e \in Words : [r EXCEPT !.event = e] \in RelayStates
         /\ \A i \in Items : [r EXCEPT !.item = i] \in RelayStates
BY DEF RelayStates

\* The relay reads: its buffer grows by what arrived.
LEMMA RelayReadSound == ASSUME Sound, NEW n \in 1 .. Len(wire), RelayRead(n) PROVE Sound'
<1>. DEFINE x == Lossy(Chunk(n))
<1>1. /\ relay.pc = "reading" /\ at + n <= Len(wire)
      /\ relay' = [relay EXCEPT !.pc = "scanning", !.buf = relay.buf \o x]
      /\ at' = at + n /\ cut' = (cut \/ Cuts(n)) /\ upstream' = upstream /\ chan' = chan /\ client' = client
      /\ UNCHANGED upVars /\ UNCHANGED sinkVars
  BY DEF RelayRead
<1>2. /\ Fed /\ at \in 0 .. Len(wire) /\ upstream \in {"open", "closed", "broken"}
      /\ relay \in RelayStates /\ chan \in Seq(Items) /\ cut \in BOOLEAN /\ (~cut => ~Split(at))
  BY SoundIs
<1>3. source = "relay" /\ Len(wire) \in Nat
  BY <1>1, <1>2, RelayIs, Numbers
<1>4. cut' \in BOOLEAN /\ (cut => cut')
  BY <1>1, <1>2
<1>5. Window(cut', x, wire, at, at + n) /\ (~cut' => ~Split(at + n))
  BY <1>1, <1>2, ChunkRead
<1>. HIDE DEF x
<1>6. x \in Seq(Words)
  BY <1>5 DEF Window
<1>7. relay' \in RelayStates /\ relay'.pc = "scanning" /\ relay'.buf = relay.buf \o x /\ relay'.event = relay.event
  <2>1. relay.buf \o x \in Seq(Words)
    <3>1. \A u \in Seq(Words), v \in Seq(Words) : u \o v \in Seq(Words)
      OBVIOUS
    <3>. QED  BY <1>2, <1>6, <3>1, RelayStateIs
  <2>. QED  BY <1>1, <1>2, <2>1 DEF RelayStates
<1>8. at \in Nat /\ at + n \in 0 .. Len(wire) /\ at + n \in Nat /\ at <= at + n
  BY <1>1, <1>2, <1>3
<1>9. GoesOn(cut, at, upstream, relay, chan, client, cut', at + n, upstream, relay', chan)
  <2>1. SUFFICES ASSUME NEW m \in 0 .. Len(Stream), Relaying(cut, m, at, upstream, relay, chan, client)
                 PROVE  Relaying(cut', m, at + n, upstream, relay', chan, client)
    BY DEF GoesOn
  <2>2. PICK k \in 0 .. Len(script) :
          /\ Parsed(cut, k, at, relay.buf, relay.event) /\ InStep(at, upstream, relay)
          /\ \E D \in 0 .. Owing(at, upstream) :
                /\ m = Mark[D]
                /\ client = "reading" => Piped(cut, k, D, upstream, relay, chan)
                /\ client = "ended" => upstream = "closed" /\ D = Len(Payloads)
    BY <2>1 DEF Relaying
  <2>3. PICK D \in 0 .. Owing(at, upstream) :
          /\ m = Mark[D]
          /\ client = "reading" => Piped(cut, k, D, upstream, relay, chan)
          /\ client = "ended" => upstream = "closed" /\ D = Len(Payloads)
    BY <2>2
  <2>4. upstream = "open" /\ client # "ended"
    BY <1>1, <2>2, <2>3 DEF InStep
  <2>5. Parsed(cut', k, at + n, relay'.buf, relay'.event)
    <3>1. Parsed(cut', k, at + n, relay.buf \o x, relay.event)
      BY <1>2, <1>4, <1>5, <1>8, <2>2, ParsedMore
    <3>. QED  BY <1>7, <3>1
  <2>6. InStep(at + n, upstream, relay')
    BY <1>7, <2>4 DEF InStep
  <2>7. D \in 0 .. Owing(at + n, upstream)
    <3>1. Owing(at, upstream) <= Owing(at + n, upstream) /\ Owing(at, upstream) \in Nat /\ Owing(at + n, upstream) \in Nat
      BY <1>2, <1>8, OwingGrows
    <3>. QED  BY <3>1
  <2>8. client = "reading" => Piped(cut', k, D, upstream, relay', chan)
    <3>1. SUFFICES ASSUME client = "reading" PROVE Piped(cut', k, D, upstream, relay', chan)
      OBVIOUS
    <3>2. Pending(chan, relay) = chan /\ Pending(chan, relay') = chan
      BY <1>1, <1>7 DEF Pending
    <3>3. Piped(cut, k, D, upstream, relay, chan)
      BY <2>3, <3>1
    <3>4. Carrying(cut, chan, upstream = "broken", D) /\ D + Len(chan) = Len(Thinking) + Count[k] + (IF upstream = "open" THEN 0 ELSE 1)
      BY <3>2, <3>3 DEF Piped
    <3>5. Carrying(cut', chan, upstream = "broken", D)
      <4>1. (upstream = "broken") \in BOOLEAN
        OBVIOUS
      <4>. QED  BY <1>2, <1>4, <3>4, <4>1, CarryLater
    <3>. QED  BY <1>7, <2>4, <3>2, <3>4, <3>5 DEF Piped
  <2>. QED  BY <2>3, <2>4, <2>5, <2>6, <2>7, <2>8 DEF Relaying
<1>. QED  BY <1>1, <1>2, <1>4, <1>5, <1>7, <1>8, <1>9, RelayStep

\* The upstream breaks: the relay's last item is the error.
LEMMA RelayBrokenSound == ASSUME Sound, RelayBroken PROVE Sound'
<1>1. /\ relay.pc = "reading" /\ upstream' = "broken"
      /\ relay' = [relay EXCEPT !.pc = "sending", !.item = ErrItem]
      /\ at' = at /\ cut' = cut /\ chan' = chan /\ client' = client
      /\ UNCHANGED upVars /\ UNCHANGED sinkVars
  BY DEF RelayBroken, Sends
<1>2. /\ Fed /\ at \in 0 .. Len(wire) /\ relay \in RelayStates /\ chan \in Seq(Items)
      /\ cut \in BOOLEAN /\ (~cut => ~Split(at))
  BY SoundIs
<1>3. ErrItem \in Items /\ IsLast(ErrItem)
  BY EmptySeq DEF ErrItem, Items, IsLast
<1>4. relay' \in RelayStates /\ relay'.pc = "sending" /\ relay'.item = ErrItem
      /\ relay'.buf = relay.buf /\ relay'.event = relay.event
  BY <1>1, <1>2, <1>3 DEF RelayStates
<1>5. GoesOn(cut, at, upstream, relay, chan, client, cut, at, "broken", relay', chan)
  <2>1. SUFFICES ASSUME NEW m \in 0 .. Len(Stream), Relaying(cut, m, at, upstream, relay, chan, client)
                 PROVE  Relaying(cut, m, at, "broken", relay', chan, client)
    BY DEF GoesOn
  <2>2. PICK k \in 0 .. Len(script) :
          /\ Parsed(cut, k, at, relay.buf, relay.event) /\ InStep(at, upstream, relay)
          /\ \E D \in 0 .. Owing(at, upstream) :
                /\ m = Mark[D]
                /\ client = "reading" => Piped(cut, k, D, upstream, relay, chan)
                /\ client = "ended" => upstream = "closed" /\ D = Len(Payloads)
    BY <2>1 DEF Relaying
  <2>3. PICK D \in 0 .. Owing(at, upstream) :
          /\ m = Mark[D]
          /\ client = "reading" => Piped(cut, k, D, upstream, relay, chan)
          /\ client = "ended" => upstream = "closed" /\ D = Len(Payloads)
    BY <2>2
  <2>4. upstream = "open" /\ client # "ended"
    BY <1>1, <2>2, <2>3 DEF InStep
  <2>5. Parsed(cut, k, at, relay'.buf, relay'.event)
    BY <1>4, <2>2
  <2>6. InStep(at, "broken", relay')
    BY <1>3, <1>4 DEF InStep
  <2>7. D \in 0 .. Owing(at, "broken")
    <3>1. Owing(at, upstream) = Owing(at, "broken")
      BY <2>4 DEF Owing
    <3>. QED  BY <3>1
  <2>8. client = "reading" => Piped(cut, k, D, "broken", relay', chan)
    <3>1. SUFFICES ASSUME client = "reading" PROVE Piped(cut, k, D, "broken", relay', chan)
      OBVIOUS
    <3>2. Pending(chan, relay) = chan /\ Pending(chan, relay') = Append(chan, ErrItem)
      BY <1>1, <1>4 DEF Pending
    <3>3. Piped(cut, k, D, upstream, relay, chan)
      BY <2>3, <3>1
    <3>4. Carrying(cut, chan, FALSE, D) /\ D + Len(chan) = Len(Thinking) + Count[k] + 0
      <4>1. (upstream = "broken") = FALSE
        BY <2>4
      <4>. QED  BY <2>4, <3>2, <3>3, <4>1 DEF Piped
    <3>5. D \in Nat /\ Len(chan) \in Nat /\ Len(Thinking) \in Nat /\ Count[k] \in Nat
      <4>1. Owing(at, upstream) \in Nat
        BY <1>2, OwingNat
      <4>2. D \in Nat
        BY <4>1
      <4>3. Len(chan) \in Nat
        BY <1>2
      <4>. QED  BY <1>2, <4>2, <4>3, Numbers
    <3>6. Carrying(cut, Append(chan, ErrItem), TRUE, D)
      BY <1>2, <3>4, <3>5, CarryError
    <3>7. Len(Append(chan, ErrItem)) = Len(chan) + 1
      BY <1>2, <1>3
    <3>8. D + (Len(chan) + 1) = Len(Thinking) + Count[k] + 1 /\ Len(chan) + 1 > 0
      BY <3>4, <3>5
    <3>9. Carrying(cut, Pending(chan, relay'), "broken" = "broken", D)
      <4>1. ("broken" = "broken") = TRUE
        OBVIOUS
      <4>. QED  BY <3>2, <3>6, <4>1
    <3>10. relay'.pc # "none"
      BY <1>4
    <3>. QED  BY <3>2, <3>7, <3>8, <3>9, <3>10 DEF Piped
  <2>. QED  BY <2>3, <2>4, <2>5, <2>6, <2>7, <2>8 DEF Relaying
<1>. QED  BY <1>1, <1>2, <1>4, <1>5, RelayStep

\* At the end of the body the relay has read every event.
LEMMA AllRead ==
  ASSUME Fed, source = "relay", NEW c \in BOOLEAN, NEW k \in 0 .. Len(script), NEW n \in 0 .. Len(wire),
         NEW b, NEW event, Parsed(c, k, n, b, event), Newlines(b) = {}, n = Len(wire)
  PROVE  k = Len(script) /\ Count[k] = Len(Chunks(script)) /\ Len(Payloads) = Len(Thinking) + Count[k] + 1
<1>1. n \in Nat
  BY Numbers
<1>2. k = Len(script)
  BY <1>1, ParsedKept, KeptIs
<1>. QED  BY <1>2, Numbers

\* The body has ended: what is left is [DONE].
LEMMA RelayEofSound == ASSUME Sound, RelayEof PROVE Sound'
<1>. DEFINE item == Item(Sse(Done))
<1>1. /\ relay.pc = "reading" /\ upstream' = "closed" /\ at = Len(wire)
      /\ relay' = [relay EXCEPT !.pc = "sending", !.item = item]
      /\ at' = at /\ cut' = cut /\ chan' = chan /\ client' = client
      /\ UNCHANGED upVars /\ UNCHANGED sinkVars
  BY DEF RelayEof, Sends
<1>2. /\ Fed /\ at \in 0 .. Len(wire) /\ relay \in RelayStates /\ chan \in Seq(Items)
      /\ cut \in BOOLEAN /\ (~cut => ~Split(at))
  BY SoundIs
<1>3. source = "relay"
  BY <1>1, RelayIs
<1>4. Done \in Seq(Words)
  BY DoneIs
<1>5. Sse(Done) \in Seq(Words)
  <2>1. source # "native" /\ Put(Done) = Sse(Done)
    BY <1>3 DEF Put
  <2>. QED  BY <1>4, <2>1, PutIs
<1>6. item \in Items /\ ~item.err /\ item.bytes = Sse(Done) /\ IsLast(item)
  <2>1. item \in Items /\ ~item.err /\ item.bytes = Sse(Done)
    BY <1>5 DEF Item, Items
  <2>. QED  BY <2>1 DEF IsLast
<1>. HIDE DEF item
<1>7. relay' \in RelayStates /\ relay'.pc = "sending" /\ relay'.item = item
      /\ relay'.buf = relay.buf /\ relay'.event = relay.event
  BY <1>1, <1>2, <1>6 DEF RelayStates
<1>8. GoesOn(cut, at, upstream, relay, chan, client, cut, at, "closed", relay', chan)
  <2>1. SUFFICES ASSUME NEW m \in 0 .. Len(Stream), Relaying(cut, m, at, upstream, relay, chan, client)
                 PROVE  Relaying(cut, m, at, "closed", relay', chan, client)
    BY DEF GoesOn
  <2>2. PICK k \in 0 .. Len(script) :
          /\ Parsed(cut, k, at, relay.buf, relay.event) /\ InStep(at, upstream, relay)
          /\ \E D \in 0 .. Owing(at, upstream) :
                /\ m = Mark[D]
                /\ client = "reading" => Piped(cut, k, D, upstream, relay, chan)
                /\ client = "ended" => upstream = "closed" /\ D = Len(Payloads)
    BY <2>1 DEF Relaying
  <2>3. PICK D \in 0 .. Owing(at, upstream) :
          /\ m = Mark[D]
          /\ client = "reading" => Piped(cut, k, D, upstream, relay, chan)
          /\ client = "ended" => upstream = "closed" /\ D = Len(Payloads)
    BY <2>2
  <2>4. upstream = "open" /\ client # "ended" /\ Newlines(relay.buf) = {}
    BY <1>1, <2>2, <2>3 DEF InStep
  <2>5. Parsed(cut, k, at, relay'.buf, relay'.event)
    BY <1>7, <2>2
  <2>6. InStep(at, "closed", relay')
    BY <1>1, <1>6, <1>7, <2>4 DEF InStep
  <2>7. D \in 0 .. Owing(at, "closed")
    <3>1. Owing(at, upstream) <= Owing(at, "closed") /\ Owing(at, upstream) \in Nat /\ Owing(at, "closed") \in Nat
      <4>1. at <= at
        BY <1>2, Numbers
      <4>. QED  BY <1>2, <4>1, OwingGrows
    <3>. QED  BY <3>1
  <2>8. Len(Payloads) = Len(Thinking) + Count[k] + 1
    BY <1>1, <1>2, <1>3, <2>2, <2>4, AllRead
  <2>9. client = "reading" => Piped(cut, k, D, "closed", relay', chan)
    <3>1. SUFFICES ASSUME client = "reading" PROVE Piped(cut, k, D, "closed", relay', chan)
      OBVIOUS
    <3>2. Pending(chan, relay) = chan /\ Pending(chan, relay') = Append(chan, item)
      BY <1>1, <1>7 DEF Pending
    <3>3. Piped(cut, k, D, upstream, relay, chan)
      BY <2>3, <3>1
    <3>4. Carrying(cut, chan, FALSE, D) /\ D + Len(chan) = Len(Thinking) + Count[k] + 0
      <4>1. (upstream = "broken") = FALSE
        BY <2>4
      <4>. QED  BY <2>4, <3>2, <3>3, <4>1 DEF Piped
    <3>5. D \in Nat /\ Len(chan) \in Nat /\ Len(Thinking) \in Nat /\ Count[k] \in Nat /\ Len(Payloads) \in Nat
      <4>1. Owing(at, upstream) \in Nat
        BY <1>2, OwingNat
      <4>2. D \in Nat
        BY <4>1
      <4>3. Len(chan) \in Nat
        BY <1>2
      <4>. QED  BY <1>2, <4>2, <4>3, Numbers
    <3>6. PICK e \in Nat : e = D + Len(chan)
      BY <3>5
    <3>7. e \in 0 .. Len(Payloads) - 1 /\ e + 1 = Len(Payloads)
      BY <2>8, <3>4, <3>5, <3>6
    <3>8. Window(cut, item.bytes, Stream, Mark[e], Mark[e + 1])
      <4>1. Payloads[e + 1] = Done
        BY <1>2, <1>3, <3>7, PayloadsAre
      <4>2. Alike(cut, Done, Payloads[e + 1])
        BY <4>1, AlikeSelf
      <4>. QED  BY <1>2, <1>3, <1>4, <1>6, <3>7, <4>2, Framing
    <3>9. Carrying(cut, Append(chan, item), FALSE, D)
      BY <1>2, <1>6, <3>4, <3>5, <3>6, <3>8, CarryMore
    <3>10. Len(Append(chan, item)) = Len(chan) + 1
      BY <1>2, <1>6
    <3>11. D + (Len(chan) + 1) = Len(Thinking) + Count[k] + 1
      BY <3>4, <3>5
    <3>12. Carrying(cut, Pending(chan, relay'), "closed" = "broken", D)
      <4>1. ("closed" = "broken") = FALSE
        OBVIOUS
      <4>. QED  BY <3>2, <3>9, <4>1
    <3>13. relay'.pc # "none"
      BY <1>7
    <3>. QED  BY <3>2, <3>10, <3>11, <3>12, <3>13 DEF Piped
  <2>. QED  BY <2>3, <2>4, <2>5, <2>6, <2>7, <2>9 DEF Relaying
<1>. QED  BY <1>1, <1>2, <1>7, <1>8, RelayStep

\* No line end is left in the buffer: the relay reads on.
LEMMA RelayScannedSound == ASSUME Sound, RelayScanned PROVE Sound'
<1>1. /\ relay.pc = "scanning" /\ Newlines(relay.buf) = {}
      /\ relay' = [relay EXCEPT !.pc = "reading"]
      /\ at' = at /\ upstream' = upstream /\ cut' = cut /\ chan' = chan /\ client' = client
      /\ UNCHANGED upVars /\ UNCHANGED sinkVars
  BY DEF RelayScanned
<1>2. /\ Fed /\ at \in 0 .. Len(wire) /\ upstream \in {"open", "closed", "broken"}
      /\ relay \in RelayStates /\ chan \in Seq(Items) /\ cut \in BOOLEAN /\ (~cut => ~Split(at))
  BY SoundIs
<1>3. /\ relay' \in RelayStates /\ relay'.pc = "reading" /\ relay'.item = relay.item
      /\ relay'.buf = relay.buf /\ relay'.event = relay.event
  BY <1>1, <1>2 DEF RelayStates
<1>4. GoesOn(cut, at, upstream, relay, chan, client, cut, at, upstream, relay', chan)
  <2>1. InStep(at, upstream, relay) => InStep(at, upstream, relay')
    BY <1>1, <1>3 DEF InStep
  <2>2. Pending(chan, relay') = Pending(chan, relay)
    BY <1>1, <1>3 DEF Pending
  <2>3. ASSUME NEW k, NEW D, Piped(cut, k, D, upstream, relay, chan) PROVE Piped(cut, k, D, upstream, relay', chan)
    BY <1>3, <2>2, <2>3 DEF Piped
  <2>. QED  BY <1>3, <2>1, <2>3 DEF GoesOn, Relaying
<1>. QED  BY <1>1, <1>2, <1>3, <1>4, RelayStep

\* An item goes from the relay's hand to the channel's end.
LEMMA RelaySendSound == ASSUME Sound, RelaySend PROVE Sound'
<1>. DEFINE p == IF IsLast(relay.item) THEN "done" ELSE "scanning"
<1>1. /\ relay.pc = "sending" /\ client = "reading"
      /\ relay' = [relay EXCEPT !.pc = p] /\ chan' = Append(chan, relay.item)
      /\ at' = at /\ upstream' = upstream /\ cut' = cut /\ client' = client
      /\ UNCHANGED upVars /\ UNCHANGED sinkVars
  BY DEF RelaySend
<1>2. /\ Fed /\ at \in 0 .. Len(wire) /\ upstream \in {"open", "closed", "broken"}
      /\ relay \in RelayStates /\ chan \in Seq(Items) /\ cut \in BOOLEAN /\ (~cut => ~Split(at))
  BY SoundIs
<1>3. p \in {"done", "scanning"} /\ (p = "done" <=> IsLast(relay.item))
  OBVIOUS
<1>. HIDE DEF p
<1>4. /\ relay' \in RelayStates /\ relay'.pc = p /\ relay'.item = relay.item
      /\ relay'.buf = relay.buf /\ relay'.event = relay.event
  BY <1>1, <1>2, <1>3 DEF RelayStates
<1>5. Flowing(cut, at, upstream, relay, chan, client, buf, text, tools, out) /\ source = "relay"
  BY <1>1, RelayIs
<1>6. PICK m0 \in 0 .. Len(Stream) : Relaying(cut, m0, at, upstream, relay, chan, client)
  BY <1>5 DEF Flowing
<1>7. InStep(at, upstream, relay)
  BY <1>6 DEF Relaying
<1>8. relay.item \in Items /\ (upstream = "open" <=> p # "done")
  BY <1>1, <1>3, <1>7 DEF InStep
<1>9. chan' \in Seq(Items)
  BY <1>1, <1>2, <1>8
<1>10. GoesOn(cut, at, upstream, relay, chan, client, cut, at, upstream, relay', chan')
  <2>1. InStep(at, upstream, relay')
    <3>1. p \notin {"reading", "none", "sending"} /\ (p = "scanning" => upstream = "open")
      BY <1>3, <1>8
    <3>. QED  BY <1>4, <1>7, <3>1 DEF InStep
  <2>2. Pending(chan', relay') = Pending(chan, relay)
    BY <1>1, <1>3, <1>4 DEF Pending
  <2>3. ASSUME NEW k, NEW D, Piped(cut, k, D, upstream, relay, chan) PROVE Piped(cut, k, D, upstream, relay', chan')
    BY <1>3, <1>4, <1>8, <2>2, <2>3 DEF Piped
  <2>. QED  BY <1>4, <2>1, <2>3 DEF GoesOn, Relaying
<1>. QED  BY <1>1, <1>2, <1>4, <1>9, <1>10, RelayStep

\* The client has gone: the relay ends.
LEMMA RelayGoneSound == ASSUME Sound, RelayGone PROVE Sound'
<1>1. /\ relay.pc = "sending" /\ client # "reading"
      /\ relay' = [relay EXCEPT !.pc = "done"]
      /\ at' = at /\ upstream' = upstream /\ cut' = cut /\ chan' = chan /\ client' = client
      /\ UNCHANGED upVars /\ UNCHANGED sinkVars
  BY DEF RelayGone
<1>2. /\ Fed /\ at \in 0 .. Len(wire) /\ upstream \in {"open", "closed", "broken"}
      /\ relay \in RelayStates /\ chan \in Seq(Items) /\ cut \in BOOLEAN /\ (~cut => ~Split(at))
  BY SoundIs
<1>3. /\ relay' \in RelayStates /\ relay'.pc = "done"
      /\ relay'.buf = relay.buf /\ relay'.event = relay.event
  BY <1>1, <1>2 DEF RelayStates
<1>4. GoesOn(cut, at, upstream, relay, chan, client, cut, at, upstream, relay', chan)
  <2>1. InStep(at, upstream, relay) => InStep(at, upstream, relay')
    BY <1>1, <1>3 DEF InStep
  <2>. QED  BY <1>1, <1>3, <2>1 DEF GoesOn, Relaying
<1>. QED  BY <1>1, <1>2, <1>3, <1>4, RelayStep

\* Where the relay is behind a line it has read.
LEMMA LineRead ==
  ASSUME Fed, source = "relay", NEW c \in BOOLEAN, NEW m, NEW n \in 0 .. Len(wire), NEW up,
         NEW r \in RelayStates, NEW ch \in Seq(Items), NEW cl, r.pc = "scanning", Newlines(r.buf) # {},
         Relaying(c, m, n, up, r, ch, cl), NEW s, s = Reads(Head1(r.buf), [r EXCEPT !.buf = Rest(r.buf)])
  PROVE  Relaying(c, m, n, up, s, ch, cl) /\ s \in RelayStates
<1>. DEFINE line == Head1(r.buf)
            rest == Rest(r.buf)
            r1 == [r EXCEPT !.buf = rest]
<1>1. PICK k \in 0 .. Len(script) :
        /\ Parsed(c, k, n, r.buf, r.event) /\ InStep(n, up, r)
        /\ \E D \in 0 .. Owing(n, up) :
              /\ m = Mark[D]
              /\ cl = "reading" => Piped(c, k, D, up, r, ch)
              /\ cl = "ended" => up = "closed" /\ D = Len(Payloads)
  BY DEF Relaying
<1>2. PICK D \in 0 .. Owing(n, up) :
        /\ m = Mark[D]
        /\ cl = "reading" => Piped(c, k, D, up, r, ch)
        /\ cl = "ended" => up = "closed" /\ D = Len(Payloads)
  BY <1>1
<1>3. up = "open" /\ cl # "ended"
  BY <1>1, <1>2 DEF InStep
<1>4. rest \in Seq(Words)
  <2>1. r.buf \in Seq(Words)
    BY RelayStateIs
  <2>2. First(Newlines(r.buf)) \in Nat
    <3>1. Newlines(r.buf) \in SUBSET Nat
      BY <2>1 DEF Newlines
    <3>2. PICK i \in Newlines(r.buf) : \A j \in Newlines(r.buf) : i <= j
      BY <3>1, LeastNatural
    <3>3. First(Newlines(r.buf)) = i
      BY <3>1, <3>2, FirstIs
    <3>. QED  BY <3>1, <3>3
  <2>3. ASSUME NEW u \in Seq(Words), NEW i \in Nat PROVE After(u, i) \in Seq(Words)
    BY DEF After
  <2>. QED  BY <2>1, <2>2, <2>3 DEF Rest
<1>5. /\ r1 \in RelayStates /\ r1.pc = "scanning" /\ r1.buf = rest /\ r1.event = r.event /\ r1.item = r.item
  BY <1>4 DEF RelayStates
<1>6. s = Reads(line, r1)
  OBVIOUS
<1>7. \/ line = <<>> /\ Parsed(c, k, n, rest, "")
      \/ /\ k < Len(script) /\ line = <<"event:", script[k + 1].type>>
         /\ Parsed(c, k, n, rest, script[k + 1].type)
      \/ /\ k < Len(script) /\ r.event = script[k + 1].type
         /\ line # <<>> /\ line[1] = "data:"
         /\ Tail(line) \in Seq(Words) /\ Alike(c, Tail(line), script[k + 1].data)
         /\ Parsed(c, k + 1, n, rest, r.event)
  BY <1>1, ParsedLine
<1>. HIDE DEF line, rest, r1
<1>8. ASSUME NEW j \in 0 .. Len(script), NEW t \in RelayStates, t.pc = "scanning", Count[j] = Count[k],
             Parsed(c, j, n, t.buf, t.event)
      PROVE  Relaying(c, m, n, up, t, ch, cl)
  <2>1. InStep(n, up, t)
    BY <1>3, <1>8 DEF InStep
  <2>2. cl = "reading" => Piped(c, j, D, up, t, ch)
    <3>1. Pending(ch, t) = Pending(ch, r)
      BY <1>8 DEF Pending
    <3>. QED  BY <1>2, <1>3, <1>8, <3>1 DEF Piped
  <2>. QED  BY <1>2, <1>3, <1>8, <2>1, <2>2 DEF Relaying
<1>9. CASE line = <<>> /\ Parsed(c, k, n, rest, "")
  <2>1. s = [r1 EXCEPT !.event = ""]
    BY <1>6, <1>9 DEF Reads
  <2>2. s \in RelayStates /\ s.pc = "scanning" /\ s.buf = rest /\ s.event = ""
    <3>1. "" \in Words
      BY NotText
    <3>. QED  BY <1>5, <2>1, <3>1 DEF RelayStates
  <2>. QED  BY <1>8, <1>9, <2>2
<1>10. CASE /\ k < Len(script) /\ line = <<"event:", script[k + 1].type>>
            /\ Parsed(c, k, n, rest, script[k + 1].type)
  <2>1. s = [r1 EXCEPT !.event = script[k + 1].type]
    <3>1. line # <<>> /\ line[1] = "event:" /\ line[2] = script[k + 1].type
      BY <1>10
    <3>. QED  BY <1>6, <3>1 DEF Reads
  <2>2. script[k + 1].type \in Words
    <3>1. k + 1 \in 1 .. Len(script)
      <4>1. Len(script) \in Nat
        BY Numbers
      <4>. QED  BY <1>10, <4>1
    <3>. QED  BY <3>1, ScriptIs
  <2>3. s \in RelayStates /\ s.pc = "scanning" /\ s.buf = rest /\ s.event = script[k + 1].type
    BY <1>5, <2>1, <2>2 DEF RelayStates
  <2>. QED  BY <1>8, <1>10, <2>3
<1>11. CASE /\ k < Len(script) /\ r.event = script[k + 1].type
            /\ line # <<>> /\ line[1] = "data:"
            /\ Tail(line) \in Seq(Words) /\ Alike(c, Tail(line), script[k + 1].data)
            /\ Parsed(c, k + 1, n, rest, r.event)
  <2>. DEFINE chunk == Translate(r.event, Tail(line))
              x == Chunked(script[k + 1])
              item == Item(Sse(chunk))
  <2>1. Len(script) \in Nat
    BY Numbers
  <2>2. k + 1 \in 1 .. Len(script) /\ k + 1 \in 0 .. Len(script) /\ k \in 0 .. Len(script) - 1
    BY <1>11, <2>1
  <2>3. x = Translate(script[k + 1].type, script[k + 1].data) /\ script[k + 1].data \in Seq(Words)
    BY <2>2, ScriptIs DEF Chunked
  <2>4. /\ Alike(c, chunk, x) /\ chunk \in Seq(Words) /\ x \in Seq(Words)
        /\ chunk = <<>> <=> x = <<>>
    <3>1. x = Translate(r.event, script[k + 1].data)
      BY <1>11, <2>3
    <3>2. ASSUME NEW u \in Seq(Words), NEW v \in Seq(Words), Alike(c, u, v)
          PROVE  /\ Alike(c, Translate(r.event, u), Translate(r.event, v))
                 /\ Translate(r.event, u) \in Seq(Words) /\ Translate(r.event, v) \in Seq(Words)
                 /\ Translate(r.event, u) = <<>> <=> Translate(r.event, v) = <<>>
      BY <3>2, TranslateAlike
    <3>. DEFINE u == Tail(line)
                v == script[k + 1].data
    <3>3. Alike(c, u, v) /\ u \in Seq(Words) /\ v \in Seq(Words)
      BY <1>11, <2>3
    <3>4. chunk = Translate(r.event, u) /\ x = Translate(r.event, v)
      BY <3>1
    <3>. HIDE DEF x, chunk, u, v
    <3>. QED  BY <3>2, <3>3, <3>4
  <2>5. s = (IF chunk = <<>> THEN r1 ELSE [r1 EXCEPT !.pc = "sending", !.item = item])
    <3>1. line[1] # "event:"
      BY <1>11
    <3>. QED  BY <1>5, <1>6, <1>11, <3>1 DEF Reads
  <2>6. /\ x = <<>> => Count[k + 1] = Count[k]
        /\ x # <<>> => Count[k + 1] = Count[k] + 1 /\ Chunks(script)[Count[k] + 1] = x
    BY <2>2, Carving
  <2>. HIDE DEF x
  <2>7. CASE chunk = <<>>
    <3>1. s = r1 /\ Count[k + 1] = Count[k]
      BY <2>4, <2>5, <2>6, <2>7
    <3>2. Parsed(c, k + 1, n, s.buf, s.event)
      BY <1>5, <1>11, <3>1
    <3>. QED  BY <1>5, <1>8, <2>2, <3>1, <3>2
  <2>8. CASE chunk # <<>>
    <3>1. s = [r1 EXCEPT !.pc = "sending", !.item = item]
      BY <2>5, <2>8
    <3>2. ~IsLast(item)
      BY <1>11, <2>8, ChunkIsNotLast
    <3>. HIDE DEF chunk
    <3>3. Sse(chunk) \in Seq(Words)
      <4>1. Put(chunk) = Sse(chunk)
        BY DEF Put
      <4>. QED  BY <2>4, <4>1, PutIs
    <3>4. item \in Items /\ ~item.err /\ item.bytes = Sse(chunk)
      BY <3>3 DEF Item, Items
    <3>. HIDE DEF item
    <3>5. s \in RelayStates /\ s.pc = "sending" /\ s.item = item /\ s.buf = rest /\ s.event = r.event
      BY <1>5, <3>1, <3>4 DEF RelayStates
    <3>6. InStep(n, up, s)
      BY <1>3, <3>2, <3>4, <3>5 DEF InStep
    <3>7. cl = "reading" => Piped(c, k + 1, D, up, s, ch)
      <4>1. SUFFICES ASSUME cl = "reading" PROVE Piped(c, k + 1, D, up, s, ch)
        OBVIOUS
      <4>2. Pending(ch, r) = ch /\ Pending(ch, s) = Append(ch, item)
        BY <3>5 DEF Pending
      <4>3. Piped(c, k, D, up, r, ch)
        BY <1>2, <4>1
      <4>4. Carrying(c, ch, FALSE, D) /\ D + Len(ch) = Len(Thinking) + Count[k] + 0
        <5>1. (up = "broken") = FALSE
          BY <1>3
        <5>. QED  BY <1>3, <4>2, <4>3, <5>1 DEF Piped
      <4>5. /\ D \in Nat /\ Len(ch) \in Nat /\ Len(Thinking) \in Nat /\ Count[k] \in Nat
            /\ Len(Chunks(script)) \in Nat /\ Count[k + 1] \in Nat /\ Len(Finish) = 1
            /\ Count[k + 1] <= Len(Chunks(script))
            /\ Len(Payloads) = Len(Thinking) + Len(Chunks(script)) + Len(Finish)
        <5>1. Owing(n, up) \in Nat
          BY OwingNat
        <5>2. D \in Nat
          BY <5>1
        <5>3. Len(ch) \in Nat
          OBVIOUS
        <5>4. Count[k + 1] <= Count[Len(script)] /\ Count[Len(script)] = Len(Chunks(script))
          <6>1. k + 1 <= Len(script) /\ Len(script) \in 0 .. Len(script)
            BY <2>1, <2>2
          <6>. QED  BY <2>2, <6>1, Numbers
        <5>. QED  BY <2>2, <5>2, <5>3, <5>4, Numbers
      <4>6. PICK e \in Nat : e = D + Len(ch)
        BY <4>5
      <4>7. Count[k + 1] = Count[k] + 1 /\ Chunks(script)[Count[k] + 1] = x
        BY <2>4, <2>6, <2>8
      <4>8. /\ e \in 0 .. Len(Payloads) - 1 /\ Count[k] + 1 \in 1 .. Len(Chunks(script))
            /\ e + 1 = Len(Thinking) + (Count[k] + 1)
        <5>. DEFINE a == Count[k]
                    b == Count[k + 1]
                    T == Len(Thinking)
                    N == Len(Payloads)
                    L == Len(Chunks(script))
                    l == Len(ch)
        <5>1. b = a + 1 /\ D + l = T + a + 0 /\ e = D + l
          BY <4>4, <4>6, <4>7
        <5>2. /\ D \in Nat /\ l \in Nat /\ T \in Nat /\ a \in Nat /\ L \in Nat /\ b \in Nat /\ b <= L
              /\ N = T + L + 1
          BY <4>5
        <5>. HIDE DEF a, b, T, N, L, l
        <5>3. ASSUME NEW i \in Nat, NEW j \in Nat, NEW t \in Nat, NEW o \in Nat, NEW z \in Nat, j <= z, i = t + o, j = o + 1
              PROVE  i \in 0 .. (t + z + 1) - 1 /\ o + 1 \in 1 .. z /\ i + 1 = t + (o + 1)
          BY <5>3
        <5>4. e = T + a /\ b = a + 1 /\ b <= L
          BY <5>1, <5>2
        <5>5. e \in 0 .. N - 1 /\ a + 1 \in 1 .. L /\ e + 1 = T + (a + 1)
          BY <5>2, <5>3, <5>4
        <5>. QED  BY <5>5 DEF a, T, N, L
      <4>9. Payloads[e + 1] = x
        <5>1. Payloads[Len(Thinking) + (Count[k] + 1)] = Chunks(script)[Count[k] + 1]
          BY <4>8, PayloadsAre
        <5>. QED  BY <4>7, <4>8, <5>1
      <4>10. Window(c, item.bytes, Stream, Mark[e], Mark[e + 1])
        <5>1. Alike(c, chunk, Payloads[e + 1])
          BY <2>4, <4>9
        <5>. QED  BY <2>4, <3>4, <4>8, <5>1, Framing
      <4>11. Carrying(c, Append(ch, item), FALSE, D)
        BY <3>4, <4>4, <4>5, <4>6, <4>10, CarryMore
      <4>12. Len(Append(ch, item)) = Len(ch) + 1
        BY <3>4
      <4>13. D + (Len(ch) + 1) = Len(Thinking) + Count[k + 1] + 0
        <5>. DEFINE a == Count[k]
                    b == Count[k + 1]
                    T == Len(Thinking)
                    l == Len(ch)
        <5>1. b = a + 1 /\ D + l = T + a + 0
          BY <4>4, <4>7
        <5>2. D \in Nat /\ l \in Nat /\ T \in Nat /\ a \in Nat
          BY <4>5
        <5>. HIDE DEF a, b, T, l
        <5>3. D + (l + 1) = T + b + 0
          BY <5>1, <5>2
        <5>. QED  BY <5>3 DEF b, T, l
      <4>14. Carrying(c, Pending(ch, s), up = "broken", D)
        <5>1. (up = "broken") = FALSE
          BY <1>3
        <5>. QED  BY <4>2, <4>11, <5>1
      <4>15. s.pc # "none" /\ s.pc # "done"
        BY <3>5
      <4>. QED  BY <1>3, <4>2, <4>12, <4>13, <4>14, <4>15 DEF Piped
    <3>8. Parsed(c, k + 1, n, s.buf, s.event)
      BY <1>11, <3>5
    <3>. QED  BY <1>2, <1>3, <2>2, <3>5, <3>6, <3>7, <3>8 DEF Relaying
  <2>. QED  BY <2>7, <2>8
<1>. QED  BY <1>7, <1>9, <1>10, <1>11

\* The relay takes a line: an item to send if it was the data of an event that says something.
LEMMA RelayLineSound == ASSUME Sound, RelayLine PROVE Sound'
<1>1. /\ relay.pc = "scanning" /\ Newlines(relay.buf) # {}
      /\ relay' = Reads(Head1(relay.buf), [relay EXCEPT !.buf = Rest(relay.buf)])
      /\ at' = at /\ upstream' = upstream /\ cut' = cut /\ chan' = chan /\ client' = client
      /\ UNCHANGED upVars /\ UNCHANGED sinkVars
  BY DEF RelayLine, Line, LineEnd, Head1, Rest
<1>2. /\ Fed /\ at \in 0 .. Len(wire) /\ upstream \in {"open", "closed", "broken"}
      /\ relay \in RelayStates /\ chan \in Seq(Items) /\ cut \in BOOLEAN /\ (~cut => ~Split(at))
  BY SoundIs
<1>3. /\ source = "relay" /\ Flowing(cut, at, upstream, relay, chan, client, buf, text, tools, out)
  BY <1>1, RelayIs
<1>4. ASSUME NEW m, Relaying(cut, m, at, upstream, relay, chan, client)
      PROVE  Relaying(cut, m, at, upstream, relay', chan, client) /\ relay' \in RelayStates
  BY <1>1, <1>2, <1>3, <1>4, LineRead
<1>5. relay' \in RelayStates
  <2>1. PICK m \in 0 .. Len(Stream) : Relaying(cut, m, at, upstream, relay, chan, client)
    BY <1>3 DEF Flowing
  <2>. QED  BY <1>4, <2>1
<1>6. GoesOn(cut, at, upstream, relay, chan, client, cut, at, upstream, relay', chan)
  BY <1>4 DEF GoesOn
<1>. QED  BY <1>1, <1>2, <1>5, <1>6, RelayStep

\* The client's side takes the next payload.
LEMMA TakeNext ==
  ASSUME Fed, source = "relay", NEW c \in BOOLEAN, NEW n \in 0 .. Len(wire), NEW up \in {"open", "closed", "broken"},
         NEW r \in RelayStates, NEW ch \in Seq(Items), ch # <<>>, ~Head(ch).err,
         NEW m, Relaying(c, m, n, up, r, ch, "reading")
  PROVE  \E q \in 0 .. Len(Stream) :
            Window(c, Head(ch).bytes, Stream, m, q) /\ Relaying(c, q, n, up, r, Tail(ch), "reading")
<1>1. PICK k \in 0 .. Len(script) :
        /\ Parsed(c, k, n, r.buf, r.event) /\ InStep(n, up, r)
        /\ \E D \in 0 .. Owing(n, up) : m = Mark[D] /\ Piped(c, k, D, up, r, ch)
  BY DEF Relaying
<1>2. PICK D \in 0 .. Owing(n, up) : m = Mark[D] /\ Piped(c, k, D, up, r, ch)
  BY <1>1
<1>. DEFINE q == Pending(ch, r)
            z == Pending(Tail(ch), r)
            T == Len(Thinking)
            a == Count[k]
            more == IF up = "open" THEN 0 ELSE 1
<1>3. /\ r.pc # "none" /\ (up = "open" => r.pc # "done")
      /\ D + Len(q) = T + a + more
      /\ up = "broken" => Len(q) > 0
      /\ Carrying(c, q, up = "broken", D)
  BY <1>2 DEF Piped
<1>4. q \in Seq(Items) /\ Len(q) > 0 /\ q[1] = Head(ch) /\ z = Tail(q) /\ Len(q) \in Nat
  <2>1. CASE r.pc = "sending"
    <3>1. r.item \in Items /\ q = Append(ch, r.item) /\ z = Append(Tail(ch), r.item)
      BY <1>1, <2>1 DEF InStep, Pending
    <3>. HIDE DEF q, z
    <3>. QED  BY <3>1
  <2>2. CASE r.pc # "sending"
    <3>1. q = ch /\ z = Tail(ch)
      BY <2>2 DEF Pending
    <3>. HIDE DEF q, z
    <3>. QED  BY <3>1
  <2>. QED  BY <2>1, <2>2
<1>5. D \in Nat /\ T \in Nat /\ a \in Nat /\ Owing(n, up) \in Nat /\ n \in Nat
  <2>1. Owing(n, up) \in Nat
    BY OwingNat
  <2>2. D \in Nat
    BY <2>1
  <2>. QED  BY <2>1, <2>2, Numbers
<1>. HIDE DEF q, z
<1>6. /\ Window(c, q[1].bytes, Stream, Mark[D], Mark[D + 1])
      /\ Carrying(c, Tail(q), up = "broken", D + 1) /\ Len(Tail(q)) = Len(q) - 1
      /\ up = "broken" => Len(q) > 1
  <2>1. (up = "broken") \in BOOLEAN
    OBVIOUS
  <2>2. ~q[1].err
    BY <1>4
  <2>. QED  BY <1>3, <1>4, <1>5, <2>1, <2>2, CarryNext
<1>7. D + 1 \in 0 .. Owing(n, up)
  <2>. DEFINE w == Count[Kept(n)]
  <2>1. k <= Kept(n) /\ Kept(n) \in 0 .. Len(script)
    BY <1>1, <1>5, ParsedKept, KeptIs
  <2>2. a <= w /\ w \in Nat
    BY <2>1, Numbers
  <2>3. Len(Finish) = 1
    BY Numbers
  <2>4. Owing(n, up) = T + w + (IF up = "closed" THEN 1 ELSE 0)
    BY <2>3 DEF Owing
  <2>. HIDE DEF w, T, a
  <2>5. CASE up = "open"
    <3>1. D + Len(q) = T + a /\ Owing(n, up) = T + w
      BY <1>3, <1>5, <2>2, <2>4, <2>5
    <3>. QED  BY <1>4, <1>5, <2>2, <3>1
  <2>6. CASE up = "closed"
    <3>1. D + Len(q) = T + a + 1 /\ Owing(n, up) = T + w + 1
      BY <1>3, <1>5, <2>2, <2>4, <2>6
    <3>. QED  BY <1>4, <1>5, <2>2, <3>1
  <2>7. CASE up = "broken"
    <3>1. D + Len(q) = T + a + 1 /\ Owing(n, up) = T + w /\ Len(q) > 1
      BY <1>3, <1>5, <1>6, <2>2, <2>4, <2>7
    <3>. QED  BY <1>4, <1>5, <2>2, <3>1
  <2>. QED  BY <2>5, <2>6, <2>7
<1>8. Owing(n, up) \in 0 .. Len(Payloads)
  <2>1. up = "closed" => n = Len(wire)
    BY <1>1 DEF InStep
  <2>. QED  BY <2>1, OwingIs
<1>9. Mark[D + 1] \in 0 .. Len(Stream)
  <2>1. D + 1 \in 0 .. Len(Payloads)
    <3>1. Len(Payloads) \in Nat
      BY Numbers
    <3>. QED  BY <1>5, <1>7, <1>8, <3>1
  <2>2. Mark[D + 1] \in Nat /\ Mark[D + 1] <= Len(Stream) /\ Len(Stream) \in Nat
    BY <2>1, Numbers
  <2>. QED  BY <2>2
<1>10. Piped(c, k, D + 1, up, r, Tail(ch))
  <2>1. (D + 1) + Len(z) = T + a + more
    <3>1. Len(z) = Len(q) - 1
      BY <1>4, <1>6
    <3>2. D + Len(q) = T + a + more /\ more \in Nat
      BY <1>3
    <3>3. Len(q) \in Nat
      BY <1>4
    <3>. HIDE DEF T, a, more
    <3>. QED  BY <1>5, <3>1, <3>2, <3>3
  <2>2. up = "broken" => Len(z) > 0
    BY <1>4, <1>6
  <2>3. Carrying(c, z, up = "broken", D + 1)
    BY <1>4, <1>6
  <2>. QED  BY <1>3, <2>1, <2>2, <2>3 DEF Piped, z
<1>11. Relaying(c, Mark[D + 1], n, up, r, Tail(ch), "reading")
  BY <1>1, <1>7, <1>10 DEF Relaying
<1>12. Window(c, Head(ch).bytes, Stream, m, Mark[D + 1])
  BY <1>2, <1>4, <1>6
<1>. QED  BY <1>9, <1>11, <1>12

\* The response takes the first item of the channel: it is the next payload.
LEMMA ReceiveSound == ASSUME Sound, Receive PROVE Sound'
<1>1. /\ client = "reading" /\ chan # <<>> /\ chan' = Tail(chan)
      /\ UNCHANGED upVars /\ at' = at /\ upstream' = upstream /\ relay' = relay /\ cut' = cut
  BY DEF Receive, Wants
<1>2. IF Head(chan).err THEN client' = "aborted" /\ UNCHANGED sinkVars
      ELSE Deliver(Head(chan).bytes) /\ client' = client
  BY DEF Receive
<1>3. /\ Fed /\ at \in 0 .. Len(wire) /\ upstream \in {"open", "closed", "broken"}
      /\ relay \in RelayStates /\ chan \in Seq(Items)
      /\ buf \in Seq(Words) /\ text \in Seq(Words) /\ tools \in Seq(Words) /\ out \in Outputs
      /\ cut \in BOOLEAN /\ (~cut => ~Split(at)) /\ Unrelayed(relay, chan)
  BY SoundIs
<1>4. Flowing(cut, at, upstream, relay, chan, "reading", buf, text, tools, out)
  BY <1>1, SoundIs
<1>5. source = "relay"
  BY <1>1, <1>3 DEF Unrelayed
<1>6. Tail(chan) \in Seq(Items)
  BY <1>1, <1>3
<1>7. Unrelayed(relay', chan')
  BY <1>5 DEF Unrelayed
<1>8. CASE Head(chan).err
  <2>1. client' = "aborted" /\ buf' = buf /\ text' = text /\ tools' = tools /\ out' = out
    BY <1>2, <1>8 DEF sinkVars
  <2>2. Flowing(cut, at, upstream, relay, Tail(chan), "aborted", buf, text, tools, out)
    BY <1>4, LetGo
  <2>3. Flowing(cut', at', upstream', relay', chan', client', buf', text', tools', out')
    BY <1>1, <2>1, <2>2
  <2>. QED  BY <1>1, <1>3, <1>6, <1>7, <2>1, <2>3, SoundNext
<1>9. CASE ~Head(chan).err
  <2>1. Deliver(Head(chan).bytes) /\ client' = client
    BY <1>2, <1>9
  <2>2. PICK m \in 0 .. Len(Stream) :
          Sinking(cut, m, buf, text, tools, out) /\ Relaying(cut, m, at, upstream, relay, chan, "reading")
    BY <1>4, <1>5 DEF Flowing
  <2>3. PICK q \in 0 .. Len(Stream) :
          /\ Window(cut, Head(chan).bytes, Stream, m, q)
          /\ Relaying(cut, q, at, upstream, relay, Tail(chan), "reading")
    BY <1>1, <1>3, <1>5, <1>9, <2>2, TakeNext
  <2>4. m \in Nat /\ q \in Nat
    <3>1. Len(Stream) \in Nat
      BY <1>3, Numbers
    <3>. QED  BY <3>1
  <2>5. /\ Sinking(cut', q, buf', text', tools', out')
        /\ buf' \in Seq(Words) /\ text' \in Seq(Words) /\ tools' \in Seq(Words) /\ out' \in Outputs
    <3>1. cut' \in BOOLEAN /\ (cut => cut') /\ Window(cut', Head(chan).bytes, Stream, m, q)
      BY <1>1, <1>3, <2>3
    <3>. QED  BY <2>1, <2>2, <2>4, <3>1, DeliverIs
  <2>6. Flowing(cut', at, upstream, relay, Tail(chan), "reading", buf', text', tools', out')
    BY <1>1, <1>5, <2>3, <2>5 DEF Flowing
  <2>7. Flowing(cut', at', upstream', relay', chan', client', buf', text', tools', out')
    BY <1>1, <2>1, <2>6
  <2>. QED  BY <1>1, <1>3, <1>6, <1>7, <2>1, <2>5, <2>7, SoundNext
<1>. QED  BY <1>8, <1>9

\* Once the channel is empty and the relay gone, everything has been taken.
LEMMA AllTaken ==
  ASSUME Fed, source = "relay", NEW c \in BOOLEAN, NEW n \in 0 .. Len(wire), NEW up \in {"open", "closed", "broken"},
         NEW r, r.pc = "done", NEW m, Relaying(c, m, n, up, r, <<>>, "reading")
  PROVE  Relaying(c, m, n, up, r, <<>>, "ended")
<1>1. PICK k \in 0 .. Len(script) :
        /\ Parsed(c, k, n, r.buf, r.event) /\ InStep(n, up, r)
        /\ \E D \in 0 .. Owing(n, up) : m = Mark[D] /\ Piped(c, k, D, up, r, <<>>)
  BY DEF Relaying
<1>2. PICK D \in 0 .. Owing(n, up) : m = Mark[D] /\ Piped(c, k, D, up, r, <<>>)
  BY <1>1
<1>3. Pending(<<>>, r) = <<>> /\ Len(<<>>) = 0
  BY DEF Pending
<1>4. up = "closed"
  BY <1>2, <1>3 DEF Piped
<1>5. D + 0 = Len(Thinking) + Count[k] + 1
  BY <1>2, <1>3, <1>4 DEF Piped
<1>6. n = Len(wire) /\ Newlines(r.buf) = {}
  BY <1>1, <1>4 DEF InStep
<1>7. Len(Payloads) = Len(Thinking) + Count[k] + 1
  BY <1>1, <1>6, AllRead
<1>8. D = Len(Payloads)
  <2>1. Owing(n, up) \in Nat
    BY OwingNat
  <2>2. D \in Nat
    BY <2>1
  <2>. QED  BY <1>5, <1>7, <2>2
<1>. QED  BY <1>1, <1>2, <1>4, <1>8 DEF Relaying

\* The channel is empty and the relay done: all payloads were received.
LEMMA ReceiveEndSound == ASSUME Sound, ReceiveEnd PROVE Sound'
<1>1. /\ client = "reading" /\ (sink = "ndjson" => Breaks(buf) = {})
      /\ source = "relay" /\ relay.pc = "done" /\ chan = <<>> /\ client' = "ended"
      /\ UNCHANGED upVars /\ at' = at /\ upstream' = upstream /\ relay' = relay /\ chan' = chan /\ cut' = cut
      /\ buf' = buf /\ text' = text /\ tools' = tools /\ out' = out
  BY DEF ReceiveEnd, Wants, sinkVars
<1>2. /\ Fed /\ at \in 0 .. Len(wire) /\ upstream \in {"open", "closed", "broken"}
      /\ relay \in RelayStates /\ chan \in Seq(Items)
      /\ buf \in Seq(Words) /\ text \in Seq(Words) /\ tools \in Seq(Words) /\ out \in Outputs
      /\ cut \in BOOLEAN /\ (~cut => ~Split(at)) /\ Unrelayed(relay, chan)
  BY SoundIs
<1>3. Flowing(cut, at, upstream, relay, <<>>, "reading", buf, text, tools, out)
  BY <1>1, SoundIs
<1>4. PICK m \in 0 .. Len(Stream) :
        Sinking(cut, m, buf, text, tools, out) /\ Relaying(cut, m, at, upstream, relay, <<>>, "reading")
  BY <1>1, <1>3 DEF Flowing
<1>5. Relaying(cut, m, at, upstream, relay, <<>>, "ended")
  BY <1>1, <1>2, <1>4, AllTaken
<1>6. sink # "verbatim" => Breaks(buf) = {}
  BY <1>1, <1>2 DEF Fed
<1>7. Flowing(cut, at, upstream, relay, <<>>, "ended", buf, text, tools, out)
  BY <1>1, <1>4, <1>5, <1>6 DEF Flowing
<1>8. Flowing(cut', at', upstream', relay', chan', client', buf', text', tools', out')
  BY <1>1, <1>7
<1>. QED  BY <1>1, <1>2, <1>8, SoundNext

\* The translator takes a line of what it has received.
LEMMA TranslateEventSound == ASSUME Sound, TranslateEvent PROVE Sound'
<1>1. /\ client = "reading" /\ sink = "ndjson" /\ Breaks(buf) # {}
      /\ UNCHANGED upVars /\ at' = at /\ upstream' = upstream /\ relay' = relay /\ chan' = chan
      /\ client' = client /\ cut' = cut
  BY DEF TranslateEvent
<1>2. /\ buf' = After(buf, First(Breaks(buf)) + 1)
      /\ text' = NextText(buf, text) /\ tools' = NextTools(buf, tools) /\ out' = NextOut(buf, text, tools, out)
  BY DEF TranslateEvent, NextText, NextTools, NextOut, Closes, DataOf, LineOf
<1>3. /\ Fed /\ at \in 0 .. Len(wire) /\ upstream \in {"open", "closed", "broken"}
      /\ relay \in RelayStates /\ chan \in Seq(Items)
      /\ cut \in BOOLEAN /\ (~cut => ~Split(at)) /\ Unrelayed(relay, chan)
  BY SoundIs
<1>4. Flowing(cut, at, upstream, relay, chan, "reading", buf, text, tools, out)
  BY <1>1, SoundIs
<1>5. PICK m \in 0 .. Len(Stream) :
        /\ Sinking(cut, m, buf, text, tools, out)
        /\ source = "relay" => Relaying(cut, m, at, upstream, relay, chan, "reading")
        /\ source # "relay" => Pulling(m, at, upstream, "reading")
  BY <1>4 DEF Flowing
<1>6. PICK d \in 0 .. Len(Payloads) : Told(cut, Payloads, Stream, Mark, d, m, buf, text, tools, out)
  BY <1>1, <1>5 DEF Sinking
<1>7. Framed(Stream, Mark, Payloads, 1, 2) /\ Clean(Payloads)
  BY <1>1, <1>3, NdjsonFramed
<1>8. m \in Nat /\ m <= Len(Stream)
  <2>1. Len(Stream) \in Nat
    BY <1>3, Numbers
  <2>. QED  BY <2>1
<1>9. /\ d + 1 \in 0 .. Len(Payloads)
      /\ Told(cut, Payloads, Stream, Mark, d + 1, m, buf', text', tools', out')
  BY <1>1, <1>2, <1>3, <1>6, <1>7, <1>8, Translating
<1>10. Sinking(cut, m, buf', text', tools', out')
  BY <1>1, <1>9 DEF Sinking
<1>11. buf' \in Seq(Words) /\ text' \in Seq(Words) /\ tools' \in Seq(Words) /\ out' \in Outputs
  <2>1. Window(cut, buf', Stream, Mark[d + 1], m) /\ text' \in Seq(Words) /\ tools' = CalledBy(Payloads, d + 1)
        /\ SameLines(cut, out', LinesTo(Payloads, d + 1))
    BY <1>9 DEF Told
  <2>2. buf' \in Seq(Words)
    BY <2>1 DEF Window
  <2>3. CalledBy(Payloads, d + 1) \in Seq(Words)
    BY <1>3, <1>9, PayloadsAre, SaidType
  <2>4. out' \in Seq(NdjsonLines)
    BY <2>1 DEF SameLines
  <2>. QED  BY <1>1, <2>1, <2>2, <2>3, <2>4 DEF Outputs
<1>12. Flowing(cut, at, upstream, relay, chan, "reading", buf', text', tools', out')
  BY <1>5, <1>10 DEF Flowing
<1>13. Flowing(cut', at', upstream', relay', chan', client', buf', text', tools', out')
  BY <1>1, <1>12
<1>. QED  BY <1>1, <1>3, <1>11, <1>13, SoundNext

\* Before anything is read the stream is sound.
LEMMA InitSound == ASSUME Init PROVE Sound
<1>1. /\ at = 0 /\ upstream = "open" /\ relay = Idle0 /\ chan = <<>> /\ client = "opening"
      /\ buf = <<>> /\ text = <<>> /\ tools = <<>> /\ out = <<>> /\ cut = FALSE
  BY DEF Init
<1>2. Fed
  <2>1. /\ source \in {"relay", "direct", "native", "tools", "reply"} /\ sink \in {"verbatim", "ndjson"}
        /\ prefix \in BOOLEAN /\ wire = Body(script)
    BY DEF Init
  <2>2. sink = "ndjson" => source \notin {"native", "tools"}
    BY DEF Init
  <2>3. script \in Said
    BY DEF Init, Said, UntypedScripts
  <2>. QED  BY <2>1, <2>2, <2>3 DEF Fed
<1>3. Unopened /\ Unrelayed(relay, chan) /\ ~Split(at)
  <2>1. Idle0.pc = "none"
    BY DEF Idle0
  <2>. QED  BY <1>1, <2>1 DEF Unopened, Unrelayed, Split
<1>4. TypeOK
  <2>1. script \in Seq(Events) /\ wire \in Seq(Words)
    BY <1>2, ScriptIs, StreamIs
  <2>2. <<>> \in Seq(Words) /\ <<>> \in Seq(NdjsonLines) /\ <<>> \in Seq(Items) /\ "" \in Words
    <3>1. "" \in Words
      BY NotText
    <3>2. <<>> \in Seq(Words) /\ <<>> \in Seq(NdjsonLines) /\ <<>> \in Seq(Items)
      OBVIOUS
    <3>. QED  BY <3>1, <3>2
  <2>3. 0 \in 0 .. Len(wire)
    BY <2>1
  <2>4. Idle0 \in RelayStates
    BY <2>2 DEF Idle0, RelayStates
  <2>5. out \in IF sink = "ndjson" THEN Seq(NdjsonLines) ELSE Seq(Words)
    BY <1>1, <2>2
  <2>. QED  BY <1>1, <1>2, <2>1, <2>2, <2>3, <2>4, <2>5 DEF TypeOK, Fed, RelayStates
<1>. QED  BY <1>1, <1>2, <1>3, <1>4 DEF Sound

\* So it stays when nothing changes.
LEMMA StutterSound == ASSUME Sound, UNCHANGED vars PROVE Sound'
<1>1. /\ UNCHANGED upVars /\ client' = client
      /\ at' = at /\ upstream' = upstream /\ relay' = relay /\ chan' = chan /\ cut' = cut
      /\ buf' = buf /\ text' = text /\ tools' = tools /\ out' = out
  BY DEF vars, sinkVars
<1>2. TypeOK /\ Fed /\ (~cut => ~Split(at)) /\ Unrelayed(relay, chan)
  BY DEF Sound
<1>3. source' = source /\ sink' = sink /\ prefix' = prefix /\ script' = script /\ wire' = wire /\ Fed'
  BY <1>1, <1>2, Unmoved
<1>4. CASE client \in {"opening", "refused"}
  <2>1. TypeOK'
    BY <1>1, <1>2, <1>3 DEF TypeOK
  <2>2. Unopened'
    BY <1>1, <1>4 DEF Unopened, Idle0, Sound
  <2>3. (~cut => ~Split(at))'
    BY <1>1, <1>2, <1>3 DEF Split
  <2>4. (Unrelayed(relay, chan))'
    BY <1>1, <1>2, <1>3 DEF Unrelayed
  <2>. QED  BY <1>1, <1>3, <1>4, <2>1, <2>2, <2>3, <2>4 DEF Sound
<1>5. CASE client \notin {"opening", "refused"}
  <2>1. /\ at \in 0 .. Len(wire) /\ upstream \in {"open", "closed", "broken"}
        /\ relay \in RelayStates /\ chan \in Seq(Items)
        /\ client \in {"opening", "refused", "reading", "ended", "aborted", "gone"}
        /\ buf \in Seq(Words) /\ text \in Seq(Words) /\ tools \in Seq(Words) /\ out \in Outputs
        /\ cut \in BOOLEAN
        /\ Flowing(cut, at, upstream, relay, chan, client, buf, text, tools, out)
    BY <1>5, SoundIs
  <2>2. Flowing(cut', at', upstream', relay', chan', client', buf', text', tools', out')
    BY <1>1, <2>1
  <2>. QED  BY <1>1, <1>2, <1>5, <2>1, <2>2, SoundNext
<1>. QED  BY <1>4, <1>5

\* Every step keeps the stream sound.
LEMMA NextSound == ASSUME Sound, [Next]_vars PROVE Sound'
<1>1. CASE RelayLine
  BY <1>1, RelayLineSound
<1>2. CASE RelayScanned
  BY <1>2, RelayScannedSound
<1>3. CASE RelaySend
  BY <1>3, RelaySendSound
<1>4. CASE RelayGone
  BY <1>4, RelayGoneSound
<1>5. CASE TranslateEvent
  BY <1>5, TranslateEventSound
<1>6. CASE Receive
  BY <1>6, ReceiveSound
<1>7. CASE ReceiveEnd
  BY <1>7, ReceiveEndSound
<1>8. CASE Open
  BY <1>8, OpenSound
<1>9. CASE Refuse
  BY <1>9, RefuseSound
<1>10. CASE OpenError
  BY <1>10, OpenErrorSound
<1>11. CASE RelayBroken
  BY <1>11, RelayBrokenSound
<1>12. CASE RelayEof
  BY <1>12, RelayEofSound
<1>13. CASE PullBroken
  BY <1>13, PullBrokenSound
<1>14. CASE PullEnd
  BY <1>14, PullEndSound
<1>15. CASE \E n \in 1 .. Len(wire) : RelayRead(n) \/ Pull(n)
  <2>1. PICK n \in 1 .. Len(wire) : RelayRead(n) \/ Pull(n)
    BY <1>15
  <2>. QED  BY <2>1, RelayReadSound, PullSound
<1>16. CASE Leave
  BY <1>16, LeaveSound
<1>17. CASE UNCHANGED vars
  BY <1>17, StutterSound
<1>. QED  BY <1>1, <1>2, <1>3, <1>4, <1>5, <1>6, <1>7, <1>8, <1>9, <1>10, <1>11, <1>12, <1>13, <1>14,
              <1>15, <1>16, <1>17 DEF Next, Runs, Backend

\* In every state reached the stream is sound: what the client's side has got,
\* what is in the channel and what the relay holds make up, in order, a
\* beginning of the answer the backend gives.
THEOREM Soundness == Spec => []Sound
<1>1. Init => Sound
  BY InitSound
<1>2. Sound /\ [Next]_vars => Sound'
  BY NextSound
<1>. QED  BY <1>1, <1>2, PTL DEF Spec

\* The variables of a stream keep their types, the relay's channel included.
THEOREM StreamingTypeCorrect == Spec => []TypeOK
<1>1. Sound => TypeOK
  BY DEF Sound
<1>. QED  BY <1>1, Soundness, PTL

-----------------------------------------------------------------------------
(* What the client is owed.                                                *)

\* In symbols of the stream.
Reached(n, up) == IF source = "relay" THEN Mark[Owing(n, up)] ELSE Len(Preface) + n

\* Where the payloads lie in a stream that is not relayed.
LEMMA StraightMarks ==
  ASSUME Fed, source # "relay"
  PROVE  /\ \A j \in 0 .. Len(script) : Mark[Len(Thinking) + j] = Len(Preface) + BodyEnd[j]
         /\ Len(Payloads) = Len(Thinking) + Len(script)
<1>1. CASE script \in Said /\ wire = Body(script)
  BY <1>1, DirectBody
<1>2. CASE script = <<>>
  <2>1. Len(script) = 0 /\ Len(Preface) \in Nat /\ Len(Thinking) \in Nat
    BY <1>2, Numbers
  <2>2. Mark[Len(Thinking)] = Len(Preface) /\ BodyEnd[0] = 0
    BY Numbers
  <2>3. Len(Chunks(script)) = Len(script) /\ Len(Finish) = 0
    BY Straight, Numbers
  <2>4. Len(Payloads) = Len(Thinking) + Len(Chunks(script)) + Len(Finish)
    BY Numbers
  <2>5. ASSUME NEW j \in 0 .. Len(script) PROVE Mark[Len(Thinking) + j] = Len(Preface) + BodyEnd[j]
    <3>1. j = 0 /\ Len(Thinking) + 0 = Len(Thinking) /\ Len(Preface) + 0 = Len(Preface)
      BY <2>1
    <3>. QED  BY <2>2, <3>1
  <2>. QED  BY <2>1, <2>3, <2>4, <2>5
<1>. QED  BY <1>1, <1>2 DEF Fed

\* The payloads that lie within what is owed are those that are owed.
LEMMA ReachedIs ==
  ASSUME Fed, NEW n \in 0 .. Len(wire), NEW up, up = "closed" => n = Len(wire)
  PROVE  /\ Reached(n, up) \in 0 .. Len(Stream) /\ Owing(n, up) \in 0 .. Len(Payloads)
         /\ \A d \in 0 .. Len(Payloads) : Mark[d] <= Reached(n, up) <=> d <= Owing(n, up)
         /\ sink = "verbatim" => Owed(n, up = "closed") = SubSeq(Stream, 1, Reached(n, up))
         /\ sink # "verbatim" => Owed(n, up = "closed") = LinesTo(Payloads, Owing(n, up))
<1>1. /\ Owing(n, up) \in 0 .. Len(Payloads)
      /\ sink = "ndjson" => Owed(n, up = "closed") = LinesTo(Payloads, Owing(n, up))
      /\ sink = "verbatim" /\ source = "relay" => Owed(n, up = "closed") = SubSeq(Stream, 1, Mark[Owing(n, up)])
      /\ sink = "verbatim" /\ source # "relay" => Owed(n, up = "closed") = SubSeq(Stream, 1, Len(Preface) + n)
  BY OwingIs
<1>2. sink \in {"verbatim", "ndjson"}
  BY DEF Fed
<1>3. CASE source = "relay"
  <2>1. Reached(n, up) = Mark[Owing(n, up)]
    BY <1>3 DEF Reached
  <2>2. Mark[Owing(n, up)] \in Nat /\ Mark[Owing(n, up)] <= Len(Stream) /\ Len(Stream) \in Nat
    BY <1>1, Numbers
  <2>3. Mark[Owing(n, up)] \in 0 .. Len(Stream)
    BY <2>2
  <2>4. ASSUME NEW d \in 0 .. Len(Payloads) PROVE Mark[d] <= Mark[Owing(n, up)] <=> d <= Owing(n, up)
    BY <1>1, Numbers
  <2>. QED  BY <1>1, <1>2, <1>3, <2>1, <2>3, <2>4
<1>4. CASE source # "relay"
  <2>. DEFINE T == Len(Thinking)
              L == Len(script)
              e == Kept(n)
              P == Len(Preface)
  <2>1. Reached(n, up) = P + n
    BY <1>4 DEF Reached
  <2>2. /\ P \in Nat /\ T \in Nat /\ L \in Nat /\ Len(wire) \in Nat /\ Len(Finish) = 0
        /\ Len(Payloads) = T + L /\ Mark[T] = P
        /\ \A j \in 0 .. L : BodyEnd[j] \in Nat
    BY <1>4, Numbers, StraightMarks
  <2>3. n \in Nat /\ n <= Len(wire)
    BY <2>2
  <2>4. Len(Stream) = P + Len(wire)
    <3>1. Stream = Preface \o wire /\ wire \in Seq(Words) /\ Preface \in Seq(Words)
      BY <1>4, StreamIs, PrefaceIs
    <3>. QED  BY <3>1
  <2>5. P + n \in 0 .. Len(Stream)
    <3>. HIDE DEF P
    <3>. QED  BY <2>2, <2>3, <2>4
  <2>6. /\ e \in 0 .. L
        /\ \A k \in 0 .. L : BodyEnd[k] <= n + 0 <=> k <= e
    <3>1. Slack = 0
      BY <1>4 DEF Slack
    <3>. QED  BY <2>3, <3>1, KeptIs
  <2>7. Owing(n, up) = T + e
    <3>1. Owing(n, up) = T + Count[e] + (IF up = "closed" THEN Len(Finish) ELSE 0)
      BY DEF Owing
    <3>2. Count[e] = e
      BY <1>4, <2>6, Straight
    <3>. HIDE DEF T, e
    <3>3. e \in Nat
      BY <2>2, <2>6
    <3>. QED  BY <2>2, <3>1, <3>2, <3>3
  <2>8. ASSUME NEW d \in 0 .. Len(Payloads) PROVE Mark[d] <= P + n <=> d <= T + e
    <3>1. CASE d <= T
      <4>1. Mark[d] <= Mark[T] /\ Mark[d] \in Nat
        <5>1. T \in 0 .. Len(Payloads)
          BY <2>2
        <5>. QED  BY <3>1, <5>1, Numbers
      <4>2. e \in Nat /\ d \in Nat
        BY <2>2, <2>6
      <4>. HIDE DEF T, P, e
      <4>3. Mark[d] <= P + n
        BY <2>2, <2>3, <4>1
      <4>4. d <= T + e
        BY <2>2, <3>1, <4>2
      <4>. QED  BY <4>3, <4>4
    <3>2. CASE d > T
      <4>1. PICK j \in 0 .. L : d = T + j
        <5>1. d - T \in 0 .. L /\ d = T + (d - T)
          BY <2>2, <3>2
        <5>. QED  BY <5>1
      <4>2. Mark[d] = P + BodyEnd[j]
        BY <1>4, <4>1, StraightMarks
      <4>3. BodyEnd[j] \in Nat /\ j \in Nat /\ e \in Nat
        BY <2>2, <2>6, <4>1
      <4>4. BodyEnd[j] <= n + 0 <=> j <= e
        BY <2>6, <4>1
      <4>. HIDE DEF T, P, e
      <4>5. Mark[d] <= P + n <=> BodyEnd[j] <= n + 0
        BY <2>2, <2>3, <4>2, <4>3
      <4>6. d <= T + e <=> j <= e
        BY <2>2, <4>1, <4>3
      <4>. QED  BY <4>4, <4>5, <4>6
    <3>3. d <= T \/ d > T
      BY <2>2
    <3>. QED  BY <3>1, <3>2, <3>3
  <2>. QED  BY <1>1, <1>2, <1>4, <2>1, <2>5, <2>7, <2>8
<1>. QED  BY <1>3, <1>4

\* Everything owed has been delivered where everyone waits for the backend, and
\* at the end.
Idling(r, ch, cl) == cl = "ended" \/ (cl = "reading" /\ ch = <<>> /\ r.pc \in {"none", "reading"})

\* How far the sink is behind what the relay was given; a relay that waits leaves nothing.
LEMMA RelayReached ==
  ASSUME Fed, source = "relay", NEW c \in BOOLEAN, NEW m, NEW n \in 0 .. Len(wire),
         NEW up \in {"open", "closed", "broken"}, NEW r, NEW ch, NEW cl, Relaying(c, m, n, up, r, ch, cl)
  PROVE  /\ up = "closed" => n = Len(wire)
         /\ m <= Reached(n, up)
         /\ Idling(r, ch, cl) => m = Reached(n, up)
<1>1. PICK k \in 0 .. Len(script) :
        /\ Parsed(c, k, n, r.buf, r.event) /\ InStep(n, up, r)
        /\ \E D \in 0 .. Owing(n, up) :
              /\ m = Mark[D]
              /\ cl = "reading" => Piped(c, k, D, up, r, ch)
              /\ cl = "ended" => up = "closed" /\ D = Len(Payloads)
  BY DEF Relaying
<1>2. PICK D \in 0 .. Owing(n, up) :
        /\ m = Mark[D]
        /\ cl = "reading" => Piped(c, k, D, up, r, ch)
        /\ cl = "ended" => up = "closed" /\ D = Len(Payloads)
  BY <1>1
<1>3. up = "closed" => n = Len(wire)
  BY <1>1 DEF InStep
<1>4. /\ Reached(n, up) = Mark[Owing(n, up)] /\ Owing(n, up) \in 0 .. Len(Payloads)
      /\ up = "closed" => Owing(n, up) = Len(Payloads)
  BY <1>3, OwingIs DEF Reached
<1>5. Len(Payloads) \in Nat /\ D \in 0 .. Len(Payloads) /\ D <= Owing(n, up)
  <2>1. Len(Payloads) \in Nat
    BY Numbers
  <2>. QED  BY <1>4, <2>1
<1>6. m <= Reached(n, up)
  BY <1>2, <1>4, <1>5, Numbers
<1>7. CASE cl = "ended"
  BY <1>2, <1>3, <1>4, <1>6, <1>7
<1>8. CASE cl = "reading" /\ ch = <<>> /\ r.pc \in {"none", "reading"}
  <2>1. Piped(c, k, D, up, r, <<>>)
    BY <1>2, <1>8
  <2>2. r.pc = "reading"
    BY <1>8, <2>1 DEF Piped
  <2>3. up = "open" /\ Newlines(r.buf) = {}
    BY <1>1, <2>2 DEF InStep
  <2>4. Pending(<<>>, r) = <<>> /\ Len(<<>>) = 0
    BY <2>2 DEF Pending
  <2>5. D + 0 = Len(Thinking) + Count[k] + 0
    BY <2>1, <2>3, <2>4 DEF Piped
  <2>6. k = Kept(n)
    BY <1>1, <2>3, ParsedKept
  <2>7. Owing(n, up) = Len(Thinking) + Count[k] + 0
    BY <2>3, <2>6 DEF Owing
  <2>8. D = Owing(n, up)
    <3>1. D \in Nat
      BY <1>5
    <3>. QED  BY <2>5, <2>7, <3>1
  <2>. QED  BY <1>2, <1>3, <1>4, <1>6, <2>8
<1>9. CASE ~Idling(r, ch, cl)
  BY <1>3, <1>6, <1>9
<1>. QED  BY <1>7, <1>8, <1>9 DEF Idling

\* So it is wherever the stream has got.
LEMMA Delivering ==
  ASSUME Sound, client \notin {"opening", "refused"}
  PROVE  /\ Fed /\ at \in 0 .. Len(wire) /\ cut \in BOOLEAN /\ (upstream = "closed" => at = Len(wire))
         /\ \E m \in 0 .. Reached(at, upstream) :
               /\ m \in Nat /\ m <= Len(Stream)
               /\ Sinking(cut, m, buf, text, tools, out)
               /\ client = "ended" /\ sink # "verbatim" => Breaks(buf) = {}
               /\ Idling(relay, chan, client) => m = Reached(at, upstream)
<1>1. /\ Fed /\ at \in 0 .. Len(wire) /\ upstream \in {"open", "closed", "broken"} /\ cut \in BOOLEAN
      /\ Flowing(cut, at, upstream, relay, chan, client, buf, text, tools, out)
  BY SoundIs
<1>2. PICK m \in 0 .. Len(Stream) :
        /\ Sinking(cut, m, buf, text, tools, out)
        /\ client = "ended" /\ sink # "verbatim" => Breaks(buf) = {}
        /\ source = "relay" => Relaying(cut, m, at, upstream, relay, chan, client)
        /\ source # "relay" => Pulling(m, at, upstream, client)
  BY <1>1 DEF Flowing
<1>3. /\ upstream = "closed" => at = Len(wire)
      /\ m <= Reached(at, upstream)
      /\ Idling(relay, chan, client) => m = Reached(at, upstream)
  <2>1. CASE source = "relay"
    BY <1>1, <1>2, <2>1, RelayReached
  <2>2. CASE source # "relay"
    BY <1>2, <2>2 DEF Pulling, Reached, Idling
  <2>. QED  BY <2>1, <2>2
<1>4. m \in Nat /\ m <= Len(Stream) /\ m \in 0 .. Reached(at, upstream)
  <2>1. Len(Stream) \in Nat
    BY <1>1, Numbers
  <2>2. Reached(at, upstream) \in 0 .. Len(Stream)
    BY <1>1, <1>3, ReachedIs
  <2>. QED  BY <1>3, <2>1, <2>2
<1>. QED  BY <1>1, <1>2, <1>3, <1>4

-----------------------------------------------------------------------------
(* What a stream promises.                                                 *)

\* A sequence that agrees with a longer one as far as it goes begins it.
LEMMA PrefixIs ==
  ASSUME NEW V, NEW x \in Seq(V), NEW y \in Seq(V), Len(x) <= Len(y),
         \A i \in 1 .. Len(x) : x[i] = y[i]
  PROVE  IsPrefix(x, y)
<1>1. Len(x) \in Nat /\ Len(y) \in Nat
  OBVIOUS
<1>2. SubSeq(x, 1, Len(x)) = SubSeq(y, 1, Len(x))
  <2>1. /\ SubSeq(x, 1, Len(x)) = [i \in 1 .. Len(x) |-> x[i]]
        /\ SubSeq(y, 1, Len(x)) = [i \in 1 .. Len(x) |-> y[i]]
    BY <1>1
  <2>. QED  BY <2>1
<1>. QED  BY <1>2 DEF IsPrefix

\* The lines of more payloads begin with those of fewer.
LEMMA LinesPrefix ==
  ASSUME NEW P \in Seq(Seq(Words)), NEW d \in 0 .. Len(P), NEW e \in 0 .. Len(P), d <= e
  PROVE  /\ LinesTo(P, d) \in Seq(NdjsonLines) /\ LinesTo(P, e) \in Seq(NdjsonLines)
         /\ Len(LinesTo(P, d)) <= Len(LinesTo(P, e))
         /\ \A i \in 1 .. Len(LinesTo(P, d)) : LinesTo(P, d)[i] = LinesTo(P, e)[i]
<1>. DEFINE s == [k \in 1 .. e |-> Lines(P, k)]
            S == LinesTo(P, e)
<1>1. Len(P) \in Nat /\ d \in Nat /\ e \in Nat /\ e <= Len(P)
  OBVIOUS
<1>2. s \in Seq(Seq(NdjsonLines)) /\ Len(s) = e /\ \A k \in 1 .. e : s[k] = Lines(P, k)
  <2>1. \A k \in 1 .. e : Lines(P, k) \in Seq(NdjsonLines)
    BY <1>1, LinesType
  <2>2. s \in [1 .. e -> Seq(NdjsonLines)]
    BY <2>1
  <2>3. s \in Seq(Seq(NdjsonLines)) /\ Len(s) = e
    <3>. HIDE DEF s
    <3>. QED  BY <1>1, <2>2
  <2>. QED  BY <2>3
<1>3. S = FlattenSeq(s)
  BY DEF LinesTo
<1>4. LinesTo(P, d) = FlattenSeq(SubSeq(s, 1, d))
  <2>1. SubSeq(s, 1, d) = [k \in 1 .. d |-> s[k]]
    <3>. HIDE DEF s
    <3>. QED  BY <1>1, <1>2
  <2>2. [k \in 1 .. d |-> s[k]] = [k \in 1 .. d |-> Lines(P, k)]
    <3>1. \A k \in 1 .. d : k \in 1 .. e
      BY <1>1
    <3>. QED  BY <1>2, <3>1
  <2>. QED  BY <2>1, <2>2 DEF LinesTo
<1>. HIDE DEF s, S
<1>5. S \in Seq(NdjsonLines) /\ Laid(S, s)
  BY <1>2, <1>3, LaidOut
<1>6. PICK n \in Nat : n = Ends(s)[d] /\ n <= Len(S) /\ LinesTo(P, d) = SubSeq(S, 1, n)
  <2>1. d \in 0 .. Len(s) /\ e \in 0 .. Len(s) /\ e = Len(s)
    BY <1>1, <1>2
  <2>2. Ends(s)[d] \in Nat /\ Ends(s)[d] <= Ends(s)[e] /\ Ends(s)[e] = Len(S)
    BY <1>5, <2>1 DEF Laid
  <2>3. FlattenSeq(SubSeq(s, 1, d)) = SubSeq(S, 1, Ends(s)[d])
    BY <1>5, <2>1 DEF Laid
  <2>. QED  BY <1>4, <2>2, <2>3
<1>7. /\ SubSeq(S, 1, n) \in Seq(NdjsonLines) /\ Len(SubSeq(S, 1, n)) = n
      /\ \A i \in 1 .. n : SubSeq(S, 1, n)[i] = S[i]
  BY <1>5, <1>6
<1>. QED  BY <1>5, <1>6, <1>7 DEF S

\* Lines alike without a cut are the same, and with one the same once blurred.
BlurLine(l) == [l EXCEPT !.text = Blur(@)]

\* Lines that are alike are equal, once blurred if there was a cut.
LEMMA LinesSame ==
  ASSUME NEW k \in NdjsonLines, NEW l \in NdjsonLines, k.done = l.done, k.tools = l.tools, NEW c \in BOOLEAN,
         Alike(c, k.text, l.text)
  PROVE  IF c THEN BlurLine(k) = BlurLine(l) ELSE k = l
<1>1. k.text \in Seq(Words) /\ l.text \in Seq(Words)
  BY DEF NdjsonLines
<1>2. CASE c
  <2>1. Blur(k.text) = Blur(l.text)
    <3>1. Len(k.text) = Len(l.text) /\ \A i \in 1 .. Len(k.text) : Seen(TRUE, k.text[i]) = Seen(TRUE, l.text[i])
      BY <1>2 DEF Alike
    <3>2. DOMAIN k.text = 1 .. Len(k.text) /\ DOMAIN l.text = 1 .. Len(k.text)
      BY <1>1, <3>1
    <3>3. /\ Blur(k.text) = [i \in 1 .. Len(k.text) |-> Seen(TRUE, k.text[i])]
          /\ Blur(l.text) = [i \in 1 .. Len(k.text) |-> Seen(TRUE, l.text[i])]
      BY <3>2 DEF Blur, Seen
    <3>. QED  BY <3>1, <3>3
  <2>2. BlurLine(k) = [done |-> k.done, text |-> Blur(k.text), tools |-> k.tools]
    BY DEF BlurLine, NdjsonLines
  <2>3. BlurLine(l) = [done |-> l.done, text |-> Blur(l.text), tools |-> l.tools]
    BY DEF BlurLine, NdjsonLines
  <2>. QED  BY <1>2, <2>1, <2>2, <2>3
<1>3. CASE ~c
  <2>1. k.text = l.text
    <3>1. Alike(FALSE, k.text, l.text)
      BY <1>3
    <3>. QED  BY <1>1, <3>1, AlikeExact
  <2>2. k = l
    BY <2>1 DEF NdjsonLines
  <2>. QED  BY <1>3, <2>2
<1>. QED  BY <1>2, <1>3

\* Whatever the chunks, at every moment the client has received a beginning of
\* what the backend said so far, translated event by event, nothing lost,
\* repeated or out of order; only characters cut by a chunk's end are garbled.
THEOREM AlwaysFaithful == Spec => []Faithful
<1>1. ASSUME Sound, client \notin {"opening", "refused"}
      PROVE  IF cut THEN IsPrefix(Blurred(out), Blurred(OwedNow)) ELSE IsPrefix(out, OwedNow)
  <2>. DEFINE y == OwedNow
              R == Reached(at, upstream)
  <2>1. Fed /\ at \in 0 .. Len(wire) /\ cut \in BOOLEAN /\ (upstream = "closed" => at = Len(wire))
    BY <1>1, Delivering
  <2>2. PICK m \in 0 .. R : m \in Nat /\ m <= Len(Stream) /\ Sinking(cut, m, buf, text, tools, out)
    BY <1>1, Delivering
  <2>3. /\ R \in 0 .. Len(Stream) /\ Owing(at, upstream) \in 0 .. Len(Payloads)
        /\ \A d \in 0 .. Len(Payloads) : Mark[d] <= R <=> d <= Owing(at, upstream)
        /\ sink = "verbatim" => y = SubSeq(Stream, 1, R)
        /\ sink # "verbatim" => y = LinesTo(Payloads, Owing(at, upstream))
    BY <2>1, ReachedIs DEF OwedNow
  <2>4. Stream \in Seq(Words) /\ Payloads \in Seq(Seq(Words)) /\ Len(Stream) \in Nat /\ R \in Nat
    <3>1. Stream \in Seq(Words) /\ Payloads \in Seq(Seq(Words)) /\ Len(Stream) \in Nat
      BY <2>1, StreamIs, PayloadsAre, Numbers
    <3>. HIDE DEF R
    <3>. QED  BY <2>3, <3>1
  <2>5. m <= R
    BY <2>2, <2>4
  <2>. HIDE DEF y, R
  <2>6. CASE sink = "verbatim"
    <3>1. out \in Seq(Words) /\ Len(out) = m /\ \A i \in 1 .. m : Seen(cut, out[i]) = Seen(cut, Stream[i])
      <4>1. out \in Seq(Words) /\ Len(out) = m - 0 /\ \A i \in 1 .. Len(out) : Seen(cut, out[i]) = Seen(cut, Stream[0 + i])
        BY <2>2, <2>6 DEF Sinking, Window
      <4>2. m - 0 = m /\ \A i \in 1 .. m : 0 + i = i
        BY <2>2
      <4>. QED  BY <4>1, <4>2
    <3>2. y \in Seq(Words) /\ Len(y) = R /\ \A i \in 1 .. R : y[i] = Stream[i]
      <4>1. ASSUME NEW u \in Seq(Words), NEW n \in 0 .. Len(u)
            PROVE  /\ SubSeq(u, 1, n) \in Seq(Words) /\ Len(SubSeq(u, 1, n)) = n
                   /\ \A i \in 1 .. n : SubSeq(u, 1, n)[i] = u[i]
        OBVIOUS
      <4>2. y = SubSeq(Stream, 1, R) /\ Stream \in Seq(Words) /\ R \in 0 .. Len(Stream)
        BY <2>3, <2>4, <2>6
      <4>. QED  BY <4>1, <4>2
    <3>3. \A i \in 1 .. m : i \in 1 .. R /\ Seen(cut, out[i]) = Seen(cut, y[i])
      BY <2>4, <2>5, <3>1, <3>2
    <3>4. CASE cut
      <4>0. ASSUME NEW n \in Nat, NEW f \in [1 .. n -> Words] PROVE f \in Seq(Words) /\ Len(f) = n
        OBVIOUS
      <4>1. DOMAIN out = 1 .. m /\ DOMAIN y = 1 .. R
        BY <3>1, <3>2
      <4>2. Blur(out) = [i \in 1 .. m |-> Seen(TRUE, out[i])] /\ Blur(y) = [i \in 1 .. R |-> Seen(TRUE, y[i])]
        BY <4>1 DEF Blur, Seen
      <4>3. /\ \A i \in 1 .. m : Seen(TRUE, out[i]) \in Words
            /\ \A i \in 1 .. R : Seen(TRUE, y[i]) \in Words
        <5>1. \A w \in Words : Seen(TRUE, w) \in Words
          BY NotText DEF Seen
        <5>2. /\ \A i \in 1 .. m : out[i] \in Words
              /\ \A i \in 1 .. R : y[i] \in Words
          BY <3>1, <3>2
        <5>. QED  BY <5>1, <5>2
      <4>4. Blur(out) \in Seq(Words) /\ Len(Blur(out)) = m /\ \A i \in 1 .. m : Blur(out)[i] = Seen(TRUE, out[i])
        <5>1. Blur(out) \in [1 .. m -> Words]
          BY <4>2, <4>3
        <5>2. Blur(out) \in Seq(Words) /\ Len(Blur(out)) = m
          BY <2>2, <4>0, <5>1
        <5>. QED  BY <4>2, <5>2
      <4>5. Blur(y) \in Seq(Words) /\ Len(Blur(y)) = R /\ \A i \in 1 .. R : Blur(y)[i] = Seen(TRUE, y[i])
        <5>1. Blur(y) \in [1 .. R -> Words]
          BY <4>2, <4>3
        <5>2. Blur(y) \in Seq(Words) /\ Len(Blur(y)) = R
          BY <2>4, <4>0, <5>1
        <5>. QED  BY <4>2, <5>2
      <4>6. \A i \in 1 .. m : Blur(out)[i] = Blur(y)[i]
        BY <3>3, <3>4, <4>4, <4>5
      <4>7. IsPrefix(Blur(out), Blur(y))
        BY <2>5, <4>4, <4>5, <4>6, PrefixIs
      <4>. QED  BY <2>6, <3>4, <4>7 DEF Blurred, y
    <3>5. CASE ~cut
      <4>1. \A i \in 1 .. m : out[i] = y[i]
        BY <3>3, <3>5 DEF Seen
      <4>2. IsPrefix(out, y)
        BY <2>5, <3>1, <3>2, <4>1, PrefixIs
      <4>. QED  BY <3>5, <4>2 DEF y
    <3>. QED  BY <3>4, <3>5
  <2>7. CASE sink # "verbatim"
    <3>0. sink = "ndjson"
      BY <2>1, <2>7 DEF Fed
    <3>1. PICK d \in 0 .. Len(Payloads) : Told(cut, Payloads, Stream, Mark, d, m, buf, text, tools, out)
      BY <2>2, <2>7 DEF Sinking
    <3>2. Mark[d] <= m /\ SameLines(cut, out, LinesTo(Payloads, d))
      BY <3>1 DEF Told
    <3>3. d <= Owing(at, upstream)
      <4>1. Mark[d] \in Nat
        BY <2>1, Numbers
      <4>2. Mark[d] <= R
        BY <2>2, <2>4, <2>5, <3>2, <4>1
      <4>. QED  BY <2>3, <4>2
    <3>. DEFINE x == LinesTo(Payloads, d)
    <3>4. /\ x \in Seq(NdjsonLines) /\ y \in Seq(NdjsonLines) /\ Len(x) <= Len(y)
          /\ \A i \in 1 .. Len(x) : x[i] = y[i]
      BY <2>3, <2>4, <2>7, <3>3, LinesPrefix
    <3>5. /\ out \in Seq(NdjsonLines) /\ Len(out) = Len(x)
          /\ \A i \in 1 .. Len(out) :
                out[i].done = x[i].done /\ out[i].tools = x[i].tools /\ Alike(cut, out[i].text, x[i].text)
      BY <3>2 DEF SameLines
    <3>. HIDE DEF x
    <3>6. Len(out) \in Nat /\ Len(y) \in Nat /\ Len(out) <= Len(y)
      BY <3>4, <3>5
    <3>7. ASSUME NEW i \in 1 .. Len(out)
          PROVE  i \in 1 .. Len(y) /\ (IF cut THEN BlurLine(out[i]) = BlurLine(y[i]) ELSE out[i] = y[i])
      <4>1. i \in 1 .. Len(x) /\ i \in 1 .. Len(y)
        BY <3>5, <3>6
      <4>2. out[i] \in NdjsonLines /\ y[i] \in NdjsonLines /\ x[i] = y[i]
        BY <3>4, <3>5, <4>1
      <4>. QED  BY <2>1, <3>5, <4>1, <4>2, LinesSame
    <3>8. CASE cut
      <4>1. DOMAIN out = 1 .. Len(out) /\ DOMAIN y = 1 .. Len(y)
        BY <3>4, <3>5
      <4>2. /\ Blurred(out) = [k \in 1 .. Len(out) |-> BlurLine(out[k])]
            /\ Blurred(y) = [k \in 1 .. Len(y) |-> BlurLine(y[k])]
        BY <3>0, <4>1 DEF Blurred, BlurLine
      <4>. DEFINE V == {BlurLine(out[k]) : k \in 1 .. Len(out)} \union {BlurLine(y[k]) : k \in 1 .. Len(y)}
      <4>3. /\ Blurred(out) \in [1 .. Len(out) -> V] /\ Blurred(y) \in [1 .. Len(y) -> V]
            /\ \A i \in 1 .. Len(out) : Blurred(out)[i] = BlurLine(out[i])
            /\ \A i \in 1 .. Len(y) : Blurred(y)[i] = BlurLine(y[i])
        BY <4>2
      <4>. HIDE DEF V
      <4>4. Blurred(out) \in Seq(V) /\ Len(Blurred(out)) = Len(out)
        BY <3>6, <4>3
      <4>5. Blurred(y) \in Seq(V) /\ Len(Blurred(y)) = Len(y)
        BY <3>6, <4>3
      <4>6. \A i \in 1 .. Len(Blurred(out)) : Blurred(out)[i] = Blurred(y)[i]
        BY <3>7, <3>8, <4>3, <4>4
      <4>7. IsPrefix(Blurred(out), Blurred(y))
        BY <3>6, <4>4, <4>5, <4>6, PrefixIs
      <4>. QED  BY <3>8, <4>7 DEF y
    <3>9. CASE ~cut
      <4>1. \A i \in 1 .. Len(out) : out[i] = y[i]
        BY <3>7, <3>9
      <4>2. IsPrefix(out, y)
        BY <3>4, <3>5, <3>6, <4>1, PrefixIs
      <4>. QED  BY <3>9, <4>2 DEF y
    <3>. QED  BY <2>1, <3>8, <3>9
  <2>. QED  BY <2>6, <2>7
<1>2. Sound => Faithful
  BY <1>1 DEF Faithful
<1>. QED  BY <1>2, Soundness, PTL

\* When everyone waits for the backend, and when the response has ended, nothing
\* that has arrived is held back: not in the relay's buffer or its channel, and
\* not in the translation's buffer.
THEOREM AlwaysPrompt == Spec => []Prompt
<1>1. ASSUME Sound, Waiting \/ client = "ended" PROVE Len(out) = Len(OwedNow)
  <2>. DEFINE R == Reached(at, upstream)
  <2>1. /\ client \in {"reading", "ended"} /\ Idling(relay, chan, client)
        /\ client = "reading" /\ sink = "ndjson" => Breaks(buf) = {}
    BY <1>1 DEF Waiting, Wants, Idling
  <2>2. client \notin {"opening", "refused"}
    BY <2>1
  <2>3. Fed /\ at \in 0 .. Len(wire) /\ cut \in BOOLEAN /\ (upstream = "closed" => at = Len(wire))
    BY <1>1, <2>2, Delivering
  <2>4. PICK m \in 0 .. R :
          /\ m \in Nat /\ m <= Len(Stream) /\ Sinking(cut, m, buf, text, tools, out) /\ m = R
          /\ client = "ended" /\ sink # "verbatim" => Breaks(buf) = {}
    BY <1>1, <2>1, <2>2, Delivering
  <2>5. /\ R \in 0 .. Len(Stream) /\ Owing(at, upstream) \in 0 .. Len(Payloads)
        /\ \A d \in 0 .. Len(Payloads) : Mark[d] <= R <=> d <= Owing(at, upstream)
        /\ sink = "verbatim" => OwedNow = SubSeq(Stream, 1, R)
        /\ sink # "verbatim" => OwedNow = LinesTo(Payloads, Owing(at, upstream))
    BY <2>3, ReachedIs DEF OwedNow
  <2>6. Stream \in Seq(Words) /\ Len(Payloads) \in Nat
    BY <2>3, StreamIs, Numbers
  <2>. HIDE DEF R
  <2>7. CASE sink = "verbatim"
    <3>1. Len(out) = m - 0
      BY <2>4, <2>7 DEF Sinking, Window
    <3>2. ASSUME NEW u \in Seq(Words), NEW n \in 0 .. Len(u) PROVE Len(SubSeq(u, 1, n)) = n
      OBVIOUS
    <3>3. Len(OwedNow) = R
      BY <2>5, <2>6, <2>7, <3>2
    <3>. QED  BY <2>4, <3>1, <3>3
  <2>8. CASE sink # "verbatim"
    <3>1. PICK d \in 0 .. Len(Payloads) : Told(cut, Payloads, Stream, Mark, d, m, buf, text, tools, out)
      BY <2>4, <2>8 DEF Sinking
    <3>2. Mark[d] <= m /\ Window(cut, buf, Stream, Mark[d], m) /\ SameLines(cut, out, LinesTo(Payloads, d))
      BY <3>1 DEF Told
    <3>3. Breaks(buf) = {}
      BY <2>1, <2>3, <2>4, <2>8 DEF Fed
    <3>4. ~(d < Len(Payloads) /\ Mark[d + 1] <= m)
      <4>1. Framed(Stream, Mark, Payloads, 1, 2) /\ Clean(Payloads)
        BY <2>3, <2>8, NdjsonFramed
      <4>2. Breaks(buf) # {} <=> (d < Len(Payloads) /\ Mark[d + 1] <= m)
        BY <2>3, <2>4, <3>2, <4>1, NextEvent
      <4>. QED  BY <3>3, <4>2
    <3>5. d <= Owing(at, upstream)
      BY <2>4, <2>5, <3>2
    <3>6. d = Owing(at, upstream)
      <4>1. CASE d < Len(Payloads)
        <5>1. d + 1 \in 0 .. Len(Payloads)
          BY <2>6, <4>1
        <5>2. ~(d + 1 <= Owing(at, upstream))
          BY <2>4, <2>5, <3>4, <4>1, <5>1
        <5>3. Owing(at, upstream) \in Nat /\ d \in Nat
          BY <2>5, <2>6
        <5>. QED  BY <3>5, <5>2, <5>3
      <4>2. CASE ~(d < Len(Payloads))
        <5>1. Owing(at, upstream) \in Nat /\ d \in Nat /\ d <= Len(Payloads) /\ Owing(at, upstream) <= Len(Payloads)
          BY <2>5, <2>6
        <5>. QED  BY <2>6, <3>5, <4>2, <5>1
      <4>. QED  BY <4>1, <4>2
    <3>7. Len(out) = Len(LinesTo(Payloads, d))
      BY <3>2 DEF SameLines
    <3>. QED  BY <2>5, <2>8, <3>6, <3>7
  <2>. QED  BY <2>7, <2>8
<1>2. Sound => Prompt
  BY <1>1 DEF Prompt
<1>. QED  BY <1>2, Soundness, PTL

\* What is owed of the whole body: everything.
LEMMA OwedAll ==
  ASSUME Fed
  PROVE  /\ sink = "verbatim" => Len(Owed(Len(wire), TRUE)) = Len(Stream)
         /\ sink # "verbatim" => Owed(Len(wire), TRUE) = LinesTo(Payloads, Len(Payloads))
<1>1. Len(wire) \in 0 .. Len(wire) /\ Len(wire) \in Nat
  <2>1. Len(wire) \in Nat
    BY Numbers
  <2>. QED  BY <2>1
<1>2. /\ Reached(Len(wire), "closed") \in 0 .. Len(Stream)
      /\ sink = "verbatim" => Owed(Len(wire), "closed" = "closed") = SubSeq(Stream, 1, Reached(Len(wire), "closed"))
      /\ sink # "verbatim" => Owed(Len(wire), "closed" = "closed") = LinesTo(Payloads, Owing(Len(wire), "closed"))
  BY <1>1, ReachedIs
<1>3. Owing(Len(wire), "closed") = Len(Payloads)
  BY <1>1, OwingIs
<1>4. ("closed" = "closed") = TRUE
  OBVIOUS
<1>5. Reached(Len(wire), "closed") = Len(Stream)
  <2>1. CASE source = "relay"
    BY <1>3, <2>1, StreamIs DEF Reached
  <2>2. CASE source # "relay"
    <3>1. Stream = Preface \o wire /\ wire \in Seq(Words) /\ Preface \in Seq(Words)
      BY <2>2, StreamIs, PrefaceIs
    <3>2. Len(Stream) = Len(Preface) + Len(wire)
      BY <3>1
    <3>. QED  BY <2>2, <3>2 DEF Reached
  <2>. QED  BY <2>1, <2>2
<1>6. Len(SubSeq(Stream, 1, Len(Stream))) = Len(Stream)
  <2>1. Stream \in Seq(Words)
    BY StreamIs
  <2>. QED  BY <2>1
<1>. QED  BY <1>2, <1>3, <1>4, <1>5, <1>6

\* A suffix of one word and what follows it.
LEMMA SuffixWord ==
  ASSUME NEW x \in Seq(Words), NEW y \in Seq(Words), IsSuffix(x, y), NEW i \in 1 .. Len(x)
  PROVE  Len(x) <= Len(y) /\ y[Len(y) - Len(x) + i] = x[i]
<1>. DEFINE a == Reverse(x)
            b == Reverse(y)
            k == (Len(x) - i) + 1
<1>1. Len(x) \in Nat /\ Len(y) \in Nat
  OBVIOUS
<1>2. /\ a \in [1 .. Len(x) -> Words] /\ \A j \in 1 .. Len(x) : a[j] = x[(Len(x) - j) + 1]
      /\ b \in [1 .. Len(y) -> Words] /\ \A j \in 1 .. Len(y) : b[j] = y[(Len(y) - j) + 1]
  <2>1. \A j \in 1 .. Len(x) : (Len(x) - j) + 1 \in 1 .. Len(x)
    BY <1>1
  <2>2. \A j \in 1 .. Len(y) : (Len(y) - j) + 1 \in 1 .. Len(y)
    BY <1>1
  <2>3. \A j \in 1 .. Len(x) : x[(Len(x) - j) + 1] \in Words
    BY <2>1
  <2>4. \A j \in 1 .. Len(y) : y[(Len(y) - j) + 1] \in Words
    BY <2>2
  <2>. QED  BY <2>3, <2>4 DEF Reverse
<1>3. IsPrefix(a, b)
  BY DEF IsSuffix
<1>. HIDE DEF a, b
<1>4. a \in Seq(Words) /\ b \in Seq(Words) /\ Len(a) = Len(x) /\ Len(b) = Len(y)
  <2>1. ASSUME NEW n \in Nat, NEW f \in [1 .. n -> Words] PROVE f \in Seq(Words) /\ Len(f) = n
    OBVIOUS
  <2>2. a \in [1 .. Len(x) -> Words] /\ b \in [1 .. Len(y) -> Words]
    BY <1>2
  <2>. QED  BY <1>1, <2>1, <2>2
<1>5. Len(x) <= Len(y) /\ SubSeq(a, 1, Len(x)) = SubSeq(b, 1, Len(x))
  BY <1>3, <1>4 DEF IsPrefix
<1>6. k \in 1 .. Len(x) /\ k \in 1 .. Len(y) /\ (Len(x) - k) + 1 = i /\ (Len(y) - k) + 1 = Len(y) - Len(x) + i
  BY <1>1, <1>5
<1>7. a[k] = b[k]
  <2>1. SubSeq(a, 1, Len(x)) = [j \in 1 .. Len(x) |-> a[j]] /\ SubSeq(b, 1, Len(x)) = [j \in 1 .. Len(x) |-> b[j]]
    BY <1>1
  <2>2. [j \in 1 .. Len(x) |-> a[j]][k] = a[k] /\ [j \in 1 .. Len(x) |-> b[j]][k] = b[k]
    BY <1>6
  <2>. QED  BY <1>5, <2>1, <2>2
<1>8. a[k] = x[(Len(x) - k) + 1] /\ b[k] = y[(Len(y) - k) + 1]
  BY <1>2, <1>6
<1>. QED  BY <1>5, <1>6, <1>7, <1>8

\* Done is in the stream only as its last payload.
LEMMA DoneIsLast ==
  ASSUME Fed, NEW i \in 1 .. Len(Stream), Stream[i] = "[DONE]"
  PROVE  i + TailLen = Len(Stream)
<1>. DEFINE P == Payloads
            N == Len(P)
            S == {g \in 0 .. N : Mark[g] < i}
<1>1. Framed(Stream, Mark, P, HeadLen, TailLen) /\ Clean(P)
  BY StreamIs, PayloadsClean
<1>2. /\ N \in Nat /\ Len(Stream) \in Nat
      /\ \A k \in 0 .. N : Mark[k] \in Nat /\ Mark[k] <= Len(Stream)
      /\ \A j, k \in 0 .. N : j <= k <=> Mark[j] <= Mark[k]
      /\ Mark[0] = 0
  BY Numbers
<1>3. i \in Nat /\ i > 0
  BY <1>2
<1>. HIDE DEF N
<1>4. PICK g \in 0 .. N : \A k \in 0 .. N : k \in S <=> k <= g
  <2>1. S \in SUBSET (0 .. N) /\ 0 \in S
    BY <1>2, <1>3
  <2>2. \A j, k \in 0 .. N : j <= k /\ k \in S => j \in S
    <3>1. SUFFICES ASSUME NEW j \in 0 .. N, NEW k \in 0 .. N, j <= k, k \in S PROVE j \in S
      OBVIOUS
    <3>2. Mark[j] <= Mark[k] /\ Mark[k] < i /\ Mark[j] \in Nat /\ Mark[k] \in Nat
      BY <1>2, <3>1
    <3>3. Mark[j] < i
      BY <1>3, <3>2
    <3>. QED  BY <3>3
  <2>. HIDE DEF S
  <2>. QED  BY <1>2, <2>1, <2>2, LastPlace
<1>5. Mark[g] < i /\ Mark[g] \in Nat /\ (g < N => i <= Mark[g + 1])
  <2>1. g \in Nat /\ g <= g /\ g <= N
    BY <1>2
  <2>2. g \in S
    BY <1>4, <2>1
  <2>3. ASSUME g < N PROVE i <= Mark[g + 1]
    <3>1. g + 1 \in 0 .. N /\ ~(g + 1 <= g)
      BY <1>2, <2>1, <2>3
    <3>2. g + 1 \notin S
      BY <1>4, <3>1
    <3>3. ~(Mark[g + 1] < i) /\ Mark[g + 1] \in Nat
      BY <1>2, <3>1, <3>2
    <3>. QED  BY <1>3, <3>3
  <2>. QED  BY <1>2, <2>2, <2>3
<1>. HIDE DEF S
<1>6. g < N
  <2>1. SUFFICES ASSUME g = N PROVE FALSE
    BY <1>2
  <2>2. i \in Mark[N] + 1 .. Len(Stream)
    BY <1>2, <1>3, <1>5, <2>1
  <2>3. Stream[i] = "error"
    BY <1>1, <2>2 DEF Framed, N
  <2>. QED  BY <2>3
<1>. DEFINE p == P[g + 1]
            L == Len(p)
            e == Mark[g]
<1>7. g \in 0 .. N - 1 /\ g + 1 \in 1 .. N
  BY <1>2, <1>6
<1>8. /\ Mark[g + 1] = e + HeadLen + L + TailLen
      /\ \A j \in 1 .. HeadLen : Stream[e + j] = "data:"
      /\ \A j \in 1 .. L : Stream[e + HeadLen + j] = p[j]
      /\ \A j \in 1 .. TailLen : Stream[e + HeadLen + L + j] = "nl"
  BY <1>1, <1>7 DEF Framed, N
<1>9. /\ p \in Seq(Words) /\ "nl" \notin ToSet(p)
      /\ "[DONE]" \in ToSet(p) => g + 1 = N /\ p = Done
  BY <1>1, <1>7 DEF Clean, N
<1>10. L \in Nat /\ e \in Nat /\ HeadLen \in Nat /\ TailLen \in Nat
  BY <1>5, <1>9, LensAre
<1>. HIDE DEF p, L, e
<1>11. i <= e + HeadLen + L + TailLen /\ e < i
  BY <1>5, <1>6, <1>8 DEF e
<1>12. PICK j \in 1 .. L : i = e + HeadLen + j
  <2>1. CASE i <= e + HeadLen
    <3>1. PICK j \in 1 .. HeadLen : i = e + j
      <4>1. i - e \in 1 .. HeadLen /\ i = e + (i - e)
        BY <1>3, <1>10, <1>11, <2>1
      <4>. QED  BY <4>1
    <3>. QED  BY <1>8, <3>1
  <2>2. CASE i > e + HeadLen + L
    <3>1. PICK j \in 1 .. TailLen : i = e + HeadLen + L + j
      <4>1. i - (e + HeadLen + L) \in 1 .. TailLen /\ i = e + HeadLen + L + (i - (e + HeadLen + L))
        BY <1>3, <1>10, <1>11, <2>2
      <4>. QED  BY <4>1
    <3>. QED  BY <1>8, <3>1
  <2>3. CASE e + HeadLen < i /\ i <= e + HeadLen + L
    <3>1. i - (e + HeadLen) \in 1 .. L /\ i = e + HeadLen + (i - (e + HeadLen))
      BY <1>3, <1>10, <2>3
    <3>. QED  BY <3>1
  <2>4. i <= e + HeadLen \/ i > e + HeadLen + L \/ (e + HeadLen < i /\ i <= e + HeadLen + L)
    BY <1>3, <1>10
  <2>. QED  BY <2>1, <2>2, <2>3, <2>4
<1>13. g + 1 = N /\ p = Done
  <2>1. p[j] = "[DONE]"
    BY <1>8, <1>12
  <2>2. j \in DOMAIN p
    BY <1>9 DEF L
  <2>3. "[DONE]" \in ToSet(p)
    BY <2>1, <2>2 DEF ToSet
  <2>. QED  BY <1>9, <2>3
<1>14. L = 1 /\ j = 1
  <2>1. L = 1
    BY <1>13, DoneIs DEF L
  <2>. QED  BY <2>1
<1>15. i + TailLen = Mark[N]
  <2>1. Mark[N] = e + HeadLen + L + TailLen
    BY <1>8, <1>13
  <2>. QED  BY <1>10, <1>12, <1>14, <2>1
<1>16. Mark[N] = Len(Stream)
  <2>1. CASE source = "relay"
    BY <2>1, StreamIs DEF N
  <2>2. CASE source # "relay"
    <3>1. CASE script \in Said /\ wire = Body(script)
      <4>. DEFINE T == Len(Thinking)
                  l == Len(script)
      <4>1. N = T + l /\ l \in 0 .. l /\ l \in Nat
        <5>1. N = T + l /\ l \in Nat
          BY <2>2, StraightMarks, Numbers DEF N
        <5>. QED  BY <5>1
      <4>2. Mark[T + l] = Len(Preface) + BodyEnd[l]
        BY <2>2, <4>1, StraightMarks
      <4>3. BodyEnd[l] = Len(wire)
        <5>1. Bodies \in Seq(Seq(Words)) /\ Len(Bodies) = l /\ Body(script) = FlattenSeq(Bodies)
          BY BodiesAre
        <5>2. Laid(FlattenSeq(Bodies), Bodies)
          BY <5>1, LaidOut
        <5>. QED  BY <3>1, <5>1, <5>2 DEF Laid, BodyEnd
      <4>4. Len(Stream) = Len(Preface) + Len(wire)
        <5>1. Stream = Preface \o wire /\ wire \in Seq(Words) /\ Preface \in Seq(Words)
          BY <2>2, StreamIs, PrefaceIs
        <5>. QED  BY <5>1
      <4>. QED  BY <4>1, <4>2, <4>3, <4>4
    <3>2. CASE script = <<>>
      <4>1. Len(P) = Len(Thinking) + 0 /\ Len(Thinking) \in Nat
        <5>1. Len(script) = 0
          BY <3>2
        <5>. QED  BY <2>2, <5>1, StraightMarks, Numbers
      <4>2. g + 1 \in 1 .. Len(Thinking)
        BY <1>7, <4>1 DEF N
      <4>3. p = <<"hm">>
        BY <4>2, PayloadsAre DEF p
      <4>4. p[1] = "hm" /\ Done[1] = "[DONE]"
        BY <4>3, DoneIs
      <4>5. "hm" \in Text /\ "[DONE]" \notin Text
        BY StreamingAssumption, NotText
      <4>. QED  BY <1>13, <4>4, <4>5
    <3>. QED  BY <3>1, <3>2 DEF Fed
  <2>. QED  BY <2>1, <2>2
<1>. QED  BY <1>15, <1>16

\* A line that is done is the last of all.
LEMMA DoneLine ==
  ASSUME NEW P, Clean(P), NEW d \in 0 .. Len(P), NEW k \in 1 .. Len(LinesTo(P, d)), LinesTo(P, d)[k].done
  PROVE  d = Len(P)
<1>. DEFINE s == [j \in 1 .. d |-> Lines(P, j)]
<1>1. P \in Seq(Seq(Words)) /\ Len(P) \in Nat /\ d \in Nat /\ d <= Len(P)
  <2>1. P \in Seq(Seq(Words))
    BY DEF Clean
  <2>. QED  BY <2>1
<1>2. s \in Seq(Seq(NdjsonLines)) /\ Len(s) = d /\ \A j \in 1 .. d : s[j] = Lines(P, j)
  <2>1. \A j \in 1 .. d : j \in 1 .. Len(P)
    BY <1>1
  <2>2. \A j \in 1 .. d : Lines(P, j) \in Seq(NdjsonLines)
    BY <1>1, <2>1, LinesType
  <2>3. s \in [1 .. d -> Seq(NdjsonLines)]
    BY <2>2
  <2>4. s \in Seq(Seq(NdjsonLines)) /\ Len(s) = d
    <3>. HIDE DEF s
    <3>. QED  BY <1>1, <2>3
  <2>. QED  BY <2>4
<1>3. LinesTo(P, d) = FlattenSeq(s)
  BY DEF LinesTo
<1>. HIDE DEF s
<1>4. PICK m \in 0 .. d - 1 : \E j \in 1 .. Len(s[m + 1]) : k = Ends(s)[m] + j
  <2>1. k \in 1 .. Len(FlattenSeq(s))
    BY <1>3
  <2>2. s \in Seq(Seq(NdjsonLines)) /\ Len(s) = d
    BY <1>2
  <2>3. \E m \in 0 .. Len(s) - 1 : \E j \in 1 .. Len(s[m + 1]) : k = Ends(s)[m] + j
    BY <2>1, <2>2, Located
  <2>. QED  BY <2>2, <2>3
<1>5. PICK j \in 1 .. Len(s[m + 1]) : k = Ends(s)[m] + j
  BY <1>4
<1>6. m + 1 \in 1 .. d /\ m + 1 \in 1 .. Len(P) /\ (m + 1) - 1 = m /\ m \in 0 .. Len(P)
  BY <1>1
<1>7. LinesTo(P, d)[k] = Lines(P, m + 1)[j] /\ j \in 1 .. Len(Lines(P, m + 1))
  <2>1. Laid(FlattenSeq(s), s)
    BY <1>2, LaidOut
  <2>2. \A n \in 1 .. d : \A i \in 1 .. Len(s[n]) : FlattenSeq(s)[Ends(s)[n - 1] + i] = s[n][i]
    BY <1>2, <2>1 DEF Laid
  <2>3. FlattenSeq(s)[Ends(s)[m] + j] = s[m + 1][j]
    BY <1>5, <1>6, <2>2
  <2>. QED  BY <1>2, <1>3, <1>5, <1>6, <2>3
<1>8. j = 1
  <2>1. Len(Lines(P, m + 1)) \in 0 .. 1
    BY <1>1, <1>6, LinesType
  <2>. QED  BY <1>7, <2>1
<1>9. P[m + 1] = Done
  <2>1. SUFFICES ASSUME P[m + 1] # Done PROVE FALSE
    OBVIOUS
  <2>2. Spoken(P[m + 1]) \in Seq(Words)
    BY <1>1, <1>6, SpokenIs
  <2>3. CASE Spoken(P[m + 1]) = <<>>
    <3>1. Lines(P, m + 1) = <<>>
      BY <2>1, <2>3 DEF Lines
    <3>. QED  BY <1>7, <3>1
  <2>4. CASE Spoken(P[m + 1]) # <<>>
    <3>1. Lines(P, m + 1) = <<Saying(Spoken(P[m + 1]))>>
      BY <2>1, <2>4 DEF Lines
    <3>2. Lines(P, m + 1)[1] = Saying(Spoken(P[m + 1]))
      BY <3>1
    <3>3. Saying(Spoken(P[m + 1])).done = FALSE
      BY <2>2, LineIs
    <3>. QED  BY <1>7, <1>8, <3>2, <3>3
  <2>. QED  BY <2>3, <2>4
<1>10. m + 1 = Len(P)
  <2>1. "[DONE]" \in ToSet(Done)
    <3>1. Done[1] = "[DONE]" /\ 1 \in DOMAIN Done
      BY DoneIs
    <3>. QED  BY <3>1 DEF ToSet
  <2>. QED  BY <1>6, <1>9, <2>1 DEF Clean
<1>. QED  BY <1>1, <1>6, <1>10

\* A client is told that the answer is complete only once it has received all of
\* it: [DONE], or the closing line, comes once and last, and never from a relay
\* whose backend broke off.
THEOREM DoneIsComplete == Spec => []DoneMeansComplete
<1>1. ASSUME Sound, ToldDone PROVE Len(out) = Len(Owed(Len(wire), TRUE))
  <2>1. client \notin {"opening", "refused"}
    <3>1. SUFFICES ASSUME client \in {"opening", "refused"} PROVE FALSE
      OBVIOUS
    <3>2. out = <<>>
      BY <1>1, <3>1, SoundIs DEF Unopened
    <3>3. CASE sink = "ndjson"
      <4>1. \E k \in DOMAIN out : out[k].done
        BY <1>1, <3>3 DEF ToldDone
      <4>. QED  BY <3>2, <4>1
    <3>4. CASE sink # "ndjson"
      <4>1. IsSuffix(Put(Done), out)
        BY <1>1, <3>4 DEF ToldDone
      <4>2. Put(Done) \in Seq(Words) /\ Len(Put(Done)) = HeadLen + 1 + TailLen
        BY DoneIs, PutIs
      <4>3. Len(Put(Done)) > 0 /\ Len(Put(Done)) \in Nat
        BY <4>2, LensAre
      <4>4. 1 \in 1 .. Len(Put(Done))
        BY <4>3
      <4>5. <<>> \in Seq(Words) /\ Len(<<>>) = 0
        OBVIOUS
      <4>6. Len(Put(Done)) <= 0
        BY <3>2, <4>1, <4>2, <4>4, <4>5, SuffixWord
      <4>. QED  BY <4>3, <4>6
    <3>. QED  BY <3>3, <3>4
  <2>2. Fed /\ at \in 0 .. Len(wire) /\ cut \in BOOLEAN
    BY <1>1, <2>1, Delivering
  <2>3. PICK m \in Nat : m <= Len(Stream) /\ Sinking(cut, m, buf, text, tools, out)
    BY <1>1, <2>1, Delivering
  <2>4. /\ sink = "verbatim" => Len(Owed(Len(wire), TRUE)) = Len(Stream)
        /\ sink # "verbatim" => Owed(Len(wire), TRUE) = LinesTo(Payloads, Len(Payloads))
    BY <2>2, OwedAll
  <2>5. CASE sink = "verbatim"
    <3>. DEFINE x == Put(Done)
                i == HeadLen + 1
                q == Len(out) - Len(x) + i
    <3>1. IsSuffix(x, out)
      BY <1>1, <2>5 DEF ToldDone
    <3>2. x \in Seq(Words) /\ Len(x) = HeadLen + 1 + TailLen /\ x[i] = "[DONE]"
      <4>1. Len(Done) = 1 /\ Done \in Seq(Words) /\ Done[1] = "[DONE]" /\ 1 \in 1 .. Len(Done)
        BY DoneIs
      <4>. QED  BY <4>1, PutIs
    <3>3. Window(cut, out, Stream, 0, m)
      BY <2>3, <2>5 DEF Sinking
    <3>4. out \in Seq(Words) /\ Len(out) = m
      <4>1. out \in Seq(Words) /\ Len(out) = m - 0
        BY <3>3 DEF Window
      <4>. QED  BY <2>3, <4>1
    <3>. HIDE DEF x
    <3>5. HeadLen \in Nat /\ TailLen \in Nat /\ i \in 1 .. Len(x)
      BY <3>2, LensAre
    <3>6. Len(x) <= Len(out) /\ out[q] = "[DONE]"
      <4>1. Len(x) <= Len(out) /\ out[q] = x[i]
        BY <3>1, <3>2, <3>4, <3>5, SuffixWord
      <4>. QED  BY <3>2, <4>1
    <3>7. q \in 1 .. Len(out) /\ q + TailLen = m /\ 0 + q = q
      BY <2>3, <3>2, <3>4, <3>5, <3>6
    <3>. HIDE DEF q
    <3>8. Stream[q] = "[DONE]"
      <4>1. out[q] = Stream[0 + q]
        <5>1. out[q] \notin Text
          BY <3>6, NotText
        <5>. QED  BY <2>2, <2>3, <3>3, <3>7, <5>1, WindowExact
      <4>. QED  BY <3>6, <3>7, <4>1
    <3>9. q \in 1 .. Len(Stream)
      <4>1. Len(Stream) \in Nat
        BY <2>2, Numbers
      <4>. QED  BY <2>3, <3>4, <3>7, <4>1
    <3>10. q + TailLen = Len(Stream)
      BY <2>2, <3>8, <3>9, DoneIsLast
    <3>. QED  BY <2>4, <2>5, <3>4, <3>7, <3>10
  <2>6. CASE sink # "verbatim"
    <3>0. sink = "ndjson"
      BY <2>2, <2>6 DEF Fed
    <3>1. PICK d \in 0 .. Len(Payloads) : Told(cut, Payloads, Stream, Mark, d, m, buf, text, tools, out)
      BY <2>3, <2>6 DEF Sinking
    <3>2. SameLines(cut, out, LinesTo(Payloads, d))
      BY <3>1 DEF Told
    <3>3. PICK k \in DOMAIN out : out[k].done
      BY <1>1, <3>0 DEF ToldDone
    <3>4. k \in 1 .. Len(LinesTo(Payloads, d)) /\ LinesTo(Payloads, d)[k].done /\ Len(out) = Len(LinesTo(Payloads, d))
      BY <3>2, <3>3 DEF SameLines
    <3>5. d = Len(Payloads)
      <4>1. Clean(Payloads)
        BY <2>2, PayloadsClean
      <4>. QED  BY <3>4, <4>1, DoneLine
    <3>. QED  BY <2>4, <2>6, <3>4, <3>5
  <2>. QED  BY <2>5, <2>6
<1>2. Sound => DoneMeansComplete
  BY <1>1 DEF DoneMeansComplete
<1>. QED  BY <1>2, Soundness, PTL
=============================================================================
