----------------------------- MODULE NamesProofs -----------------------------
(***************************************************************************)
(* What the pure parts of the tools compute, proved for every alphabet,    *)
(* public suffix list and text: of Names, that a host survives what was    *)
(* pasted around it and that a canonical name stands for itself; of        *)
(* Suggest, what a request expands to and that its order is one.           *)
(***************************************************************************)
EXTENDS Suggest, SequenceTheorems, FiniteSetTheorems, WellFoundedInduction, TLAPS

(* Numbers and orders *)

\* The least number of a set is one of it.
LEMMA LeastIsLeast ==
    \A S : S \subseteq Nat /\ S # {} => Min(S) \in S /\ \A k \in S : Min(S) <= k
<1>. SUFFICES ASSUME NEW S, S \subseteq Nat, S # {}
              PROVE  Min(S) \in S /\ \A k \in S : Min(S) <= k
  OBVIOUS
<1>1. PICK m \in S : \A k \in S : ~(<<k, m>> \in OpToRel(<, Nat))
  BY NatLessThanWellFounded, WFMin
<1>2. \A k \in S : ~(k < m)
  BY <1>1 DEF OpToRel
<1>3. \A k \in S : m <= k
  BY <1>2
<1>. QED  BY <1>3 DEF Min

\* The greatest number of a bounded set is one of it.
LEMMA GreatestIsGreatest ==
    \A n \in Nat : \A S : S \subseteq 0 .. n /\ S # {} =>
        Max(S) \in S /\ \A k \in S : k <= Max(S)
<1>. SUFFICES ASSUME NEW n \in Nat, NEW S, S \subseteq 0 .. n, S # {}
              PROVE  Max(S) \in S /\ \A k \in S : k <= Max(S)
  OBVIOUS
<1>. DEFINE T == {n - k : k \in S}
<1>1. T \subseteq Nat /\ T # {}
  <2>1. \A k \in S : n - k \in Nat
    OBVIOUS
  <2>. QED  BY <2>1
<1>2. Min(T) \in T /\ \A k \in T : Min(T) <= k
  <2>. HIDE DEF T
  <2>. QED  BY <1>1, LeastIsLeast
<1>3. PICK m \in S : Min(T) = n - m
  BY <1>2
<1>4. \A k \in S : n - k \in T /\ k \in Int /\ m \in Int
  OBVIOUS
<1>5. \A k \in S : m >= k
  <2>. HIDE DEF T
  <2>. QED  BY <1>2, <1>3, <1>4
<1>6. \E x \in S : \A y \in S : x >= y
  BY <1>5
<1>7. Max(S) \in S /\ \A k \in S : Max(S) >= k
  BY <1>6 DEF Max
<1>. QED  BY <1>7

\* Induction up to n, with the set of the numbers that are good.
LEMMA UpTo ==
    \A n \in Nat : \A B : 0 \in B /\ (\A k \in 1 .. n : k - 1 \in B => k \in B) => 0 .. n \subseteq B
<1>. SUFFICES ASSUME NEW n \in Nat, NEW B, 0 \in B,
                     \A k \in 1 .. n : k - 1 \in B => k \in B,
                     NEW bad \in 0 .. n, bad \notin B
              PROVE  FALSE
  OBVIOUS
<1>. DEFINE S == {k \in 0 .. n : k \notin B}
<1>1. S \subseteq Nat /\ S # {}
  OBVIOUS
<1>2. Min(S) \in S /\ \A k \in S : Min(S) <= k
  <2>. HIDE DEF S
  <2>. QED  BY <1>1, LeastIsLeast
<1>. DEFINE m == Min(S)
<1>3. m \in 0 .. n /\ m \notin B /\ m # 0
  BY <1>2
<1>. HIDE DEF m
<1>4. m - 1 \in 0 .. n /\ m - 1 \notin S /\ m \in 1 .. n
  BY <1>2, <1>3 DEF m
<1>5. m - 1 \in B
  BY <1>4
<1>. QED  BY <1>3, <1>4, <1>5

\* before puts any two elements of S in one order, and that without cycles.
Orders(before, S) ==
    /\ \A x \in S : <<x, x>> \notin before
    /\ \A x, y \in S : x # y => <<x, y>> \in before \/ <<y, x>> \in before
    /\ \A x, y, z \in S : <<x, y>> \in before /\ <<y, z>> \in before => <<x, z>> \in before

\* InOrder lists each element of a set once, in the order given.
LEMMA Enumeration ==
    \A S, before : IsFiniteSet(S) /\ Orders(before, S) =>
        LET n == Cardinality(S)
            at == InOrder(S, before)
        IN  /\ n \in Nat
            /\ at \in [1 .. n -> S]
            /\ \A x \in S : \E k \in 1 .. n : at[k] = x
            /\ \A j, k \in 1 .. n : j < k => at[j] # at[k] /\ <<at[j], at[k]>> \in before
<1>. SUFFICES ASSUME NEW S, NEW before, IsFiniteSet(S), Orders(before, S)
              PROVE  LET n == Cardinality(S)
                         at == InOrder(S, before)
                     IN  /\ n \in Nat
                         /\ at \in [1 .. n -> S]
                         /\ \A x \in S : \E k \in 1 .. n : at[k] = x
                         /\ \A j, k \in 1 .. n : j < k => at[j] # at[k] /\ <<at[j], at[k]>> \in before
  OBVIOUS
<1>. DEFINE n == Cardinality(S)
            at == InOrder(S, before)
            Earlier(x) == {y \in S : <<y, x>> \in before}
            r == [x \in S |-> Cardinality(Earlier(x))]
<1>1. n \in Nat
  BY FS_CardinalityType
<1>2. \A x \in S : IsFiniteSet(Earlier(x)) /\ Cardinality(Earlier(x)) \in Nat
  <2>. TAKE x \in S
  <2>1. Earlier(x) \in SUBSET S
    OBVIOUS
  <2>. QED  BY <2>1, FS_Subset, FS_CardinalityType
<1>3. \A x \in S : r[x] \in 0 .. n - 1
  <2>. TAKE x \in S
  <2>1. Earlier(x) \in SUBSET S /\ x \notin Earlier(x)
    BY DEF Orders
  <2>2. Cardinality(Earlier(x)) <= n /\ Cardinality(Earlier(x)) # n
    <3>. HIDE DEF Earlier
    <3>. QED  BY <2>1, FS_Subset
  <2>. QED  BY <2>2, <1>1, <1>2
<1>4. \A x, y \in S : <<x, y>> \in before => r[x] < r[y]
  <2>. SUFFICES ASSUME NEW x \in S, NEW y \in S, <<x, y>> \in before
                PROVE  Cardinality(Earlier(x)) < Cardinality(Earlier(y))
    BY DEF r
  <2>1. x \notin Earlier(x) /\ Earlier(x) \cup {x} \in SUBSET Earlier(y)
    BY DEF Orders
  <2>2. Cardinality(Earlier(x) \cup {x}) = Cardinality(Earlier(x)) + 1
    <3>. HIDE DEF Earlier
    <3>. QED  BY <1>2, <2>1, FS_AddElement
  <2>3. Cardinality(Earlier(x) \cup {x}) <= Cardinality(Earlier(y))
    <3>. HIDE DEF Earlier
    <3>. QED  BY <1>2, <2>1, FS_Subset
  <2>. QED  BY <1>2, <2>2, <2>3
<1>5. \A x, y \in S : r[x] = r[y] => x = y
  <2>. SUFFICES ASSUME NEW x \in S, NEW y \in S, x # y PROVE r[x] # r[y]
    OBVIOUS
  <2>1. <<x, y>> \in before \/ <<y, x>> \in before
    BY DEF Orders
  <2>2. r[x] \in Int /\ r[y] \in Int
    BY <1>3
  <2>. HIDE DEF r
  <2>. QED  BY <1>4, <2>1, <2>2
<1>6. r \in Injection(S, 0 .. n - 1)
  BY <1>3, <1>5 DEF Injection, IsInjective
<1>7. IsFiniteSet(0 .. n - 1) /\ Cardinality(0 .. n - 1) = n
  <2>. HIDE DEF n
  <2>1. n - 1 \in Int /\ ~(0 > n - 1 /\ n # 0) /\ n - 1 - 0 + 1 = n
    BY <1>1
  <2>2. Cardinality(0 .. n - 1) = IF 0 > n - 1 THEN 0 ELSE n - 1 - 0 + 1
    BY <2>1, FS_Interval
  <2>3. IsFiniteSet(0 .. n - 1)
    BY <2>1, FS_Interval
  <2>. QED  BY <1>1, <2>1, <2>2, <2>3
<1>8. r \in Surjection(S, 0 .. n - 1)
  BY <1>6, <1>7, FS_Injection
<1>9. \A k \in 0 .. n - 1 : \E x \in S : r[x] = k
  BY <1>8 DEF Surjection
<1>10. DOMAIN at = 1 .. n /\ \A k \in 1 .. n :
          at[k] = CHOOSE x \in S : Cardinality(Earlier(x)) = k - 1
  BY DEF InOrder
<1>11. \A k \in 1 .. n : at[k] \in S /\ r[at[k]] = k - 1
  <2>. TAKE k \in 1 .. n
  <2>1. k - 1 \in 0 .. n - 1
    BY <1>1
  <2>2. \E x \in S : Cardinality(Earlier(x)) = k - 1
    BY <1>9, <2>1
  <2>3. at[k] \in S /\ Cardinality(Earlier(at[k])) = k - 1
    <3>. HIDE DEF at, Earlier
    <3>. QED  BY <2>2, <1>10
  <2>. QED  BY <2>3
<1>14. at \in [1 .. n -> S]
  <2>1. \A k \in 1 .. n : (CHOOSE x \in S : Cardinality(Earlier(x)) = k - 1) \in S
    <3>. HIDE DEF at, Earlier
    <3>. QED  BY <1>10, <1>11
  <2>. QED  BY <2>1 DEF InOrder
<1>. HIDE DEF at, r, n
<1>12. \A x \in S : \E k \in 1 .. n : at[k] = x
  <2>. TAKE x \in S
  <2>1. PICK k \in 1 .. n : k - 1 = r[x]
    <3>1. r[x] + 1 \in 1 .. n /\ r[x] + 1 - 1 = r[x]
      BY <1>3, <1>1
    <3>2. r[x] \in Int
      BY <1>3
    <3>. QED  BY <3>1, <3>2
  <2>2. at[k] \in S /\ r[at[k]] = r[x]
    BY <2>1, <1>11
  <2>. QED  BY <2>2, <1>5
<1>13. ASSUME NEW j \in 1 .. n, NEW k \in 1 .. n, j < k
       PROVE  at[j] # at[k] /\ <<at[j], at[k]>> \in before
  <2>1. at[j] \in S /\ at[k] \in S /\ r[at[j]] = j - 1 /\ r[at[k]] = k - 1
    BY <1>11
  <2>2. r[at[j]] < r[at[k]]
    <3>1. j - 1 < k - 1
      BY <1>1, <1>13
    <3>. QED  BY <2>1, <3>1
  <2>3. ~(r[at[k]] < r[at[j]]) /\ at[j] # at[k]
    BY <2>1, <2>2
  <2>4. <<at[k], at[j]>> \notin before
    BY <1>4, <2>1, <2>3
  <2>. QED  BY <2>1, <2>3, <2>4 DEF Orders
<1>. QED  BY <1>1, <1>14, <1>12, <1>13 DEF n, at

\* So it does with a set of indices, in increasing order.
LEMMA Indices ==
    \A N \in Nat : \A I : I \subseteq 1 .. N =>
        LET n == Cardinality(I)
            at == InOrder(I, Increasing(I))
        IN  /\ n \in Nat
            /\ at \in [1 .. n -> I]
            /\ \A i \in I : \E k \in 1 .. n : at[k] = i
            /\ \A j, k \in 1 .. n : j < k => at[j] < at[k]
<1>. SUFFICES ASSUME NEW N \in Nat, NEW I, I \subseteq 1 .. N
              PROVE  LET n == Cardinality(I)
                         at == InOrder(I, Increasing(I))
                     IN  /\ n \in Nat
                         /\ at \in [1 .. n -> I]
                         /\ \A i \in I : \E k \in 1 .. n : at[k] = i
                         /\ \A j, k \in 1 .. n : j < k => at[j] < at[k]
  OBVIOUS
<1>1. IsFiniteSet(I)
  <2>1. IsFiniteSet(1 .. N) /\ I \in SUBSET (1 .. N)
    BY FS_Interval
  <2>. QED  BY <2>1, FS_Subset
<1>2. Orders(Increasing(I), I)
  <2>1. I \subseteq Int
    OBVIOUS
  <2>2. \A i, j \in I : <<i, j>> \in Increasing(I) <=> i < j
    BY DEF Increasing
  <2>. QED  BY <2>1, <2>2 DEF Orders
<1>3. \A i, j \in I : <<i, j>> \in Increasing(I) => i < j
  BY DEF Increasing
<1>. DEFINE n == Cardinality(I)
            at == InOrder(I, Increasing(I))
<1>4. /\ n \in Nat
      /\ at \in [1 .. n -> I]
      /\ \A i \in I : \E k \in 1 .. n : at[k] = i
      /\ \A j, k \in 1 .. n : j < k => at[j] # at[k] /\ <<at[j], at[k]>> \in Increasing(I)
  BY <1>1, <1>2, Enumeration
<1>. HIDE DEF n, at
<1>5. \A j, k \in 1 .. n : j < k => at[j] < at[k]
  BY <1>3, <1>4
<1>. QED  BY <1>4, <1>5 DEF n, at

\* Kept returns exactly what the sequence has at those indices.
LEMMA WhatIsKept ==
    \A X : \A s \in Seq(X) : \A I : I \subseteq DOMAIN s =>
        /\ Kept(s, I) \in Seq(X)
        /\ Len(Kept(s, I)) = Cardinality(I)
        /\ ToSet(Kept(s, I)) = {s[i] : i \in I}
<1>. SUFFICES ASSUME NEW X, NEW s \in Seq(X), NEW I, I \subseteq DOMAIN s
              PROVE  /\ Kept(s, I) \in Seq(X)
                     /\ Len(Kept(s, I)) = Cardinality(I)
                     /\ ToSet(Kept(s, I)) = {s[i] : i \in I}
  OBVIOUS
<1>. DEFINE n == Cardinality(I)
            at == InOrder(I, Increasing(I))
<1>1. Len(s) \in Nat /\ I \subseteq 1 .. Len(s)
  OBVIOUS
<1>2. /\ n \in Nat
      /\ at \in [1 .. n -> I]
      /\ \A i \in I : \E k \in 1 .. n : at[k] = i
  <2>. HIDE DEF n, at
  <2>. QED  BY <1>1, Indices DEF n, at
<1>3. Kept(s, I) = [k \in 1 .. n |-> s[at[k]]]
  BY <1>2 DEF Kept
<1>. HIDE DEF n, at
<1>4. \A k \in 1 .. n : s[at[k]] \in X
  BY <1>1, <1>2
<1>5. Kept(s, I) \in Seq(X) /\ Len(Kept(s, I)) = n
  BY <1>2, <1>3, <1>4
<1>6. ToSet(Kept(s, I)) = {s[i] : i \in I}
  <2>1. \A k \in 1 .. n : \E i \in I : s[at[k]] = s[i]
    BY <1>2
  <2>2. \A i \in I : \E k \in 1 .. n : s[at[k]] = s[i]
    BY <1>2
  <2>3. ToSet(Kept(s, I)) = {s[at[k]] : k \in 1 .. n}
    BY <1>3 DEF ToSet
  <2>. QED  BY <2>1, <2>2, <2>3
<1>. QED  BY <1>5, <1>6 DEF n

\* A value that a step changes N times, and after how many it is which.
Repeats(f, N, A, base, step) ==
    /\ f \in [0 .. N -> A]
    /\ f[0] = base
    /\ \A k \in 1 .. N : f[k] = step[<<f[k - 1], k>>]

\* What a recursive definition on numbers needs: a function that satisfies it.
LEMMA Recursion ==
    ASSUME NEW N \in Nat, NEW A, NEW base \in A, NEW step \in [A \X (1 .. N) -> A]
    PROVE  \E f : Repeats(f, N, A, base, step)
<1>. DEFINE Good(n, f) == Repeats(f, n, A, base, step)
            B == {n \in 0 .. N : \E f : Good(n, f)}
<1>1. 0 \in B
  <2>1. Good(0, [k \in 0 .. 0 |-> base])
    BY DEF Repeats
  <2>2. \E f : Good(0, f)
    BY <2>1
  <2>. HIDE DEF Good
  <2>. QED  BY <2>2
<1>2. ASSUME NEW n \in 1 .. N, n - 1 \in B PROVE n \in B
  <2>1. PICK f : Good(n - 1, f)
    BY <1>2
  <2>. DEFINE g == [k \in 0 .. n |-> IF k = n THEN step[<<f[n - 1], n>>] ELSE f[k]]
  <2>2. n - 1 \in 0 .. n - 1 /\ f[n - 1] \in A
    BY <2>1 DEF Repeats
  <2>3. step[<<f[n - 1], n>>] \in A
    BY <2>2
  <2>4. \A k \in 0 .. n : k # n => k \in 0 .. n - 1 /\ f[k] \in A
    BY <2>1 DEF Repeats
  <2>5. g \in [0 .. n -> A] /\ g[0] = base
    BY <2>1, <2>3, <2>4 DEF Repeats
  <2>6. \A k \in 1 .. n : g[k] = step[<<g[k - 1], k>>]
    <3>. TAKE k \in 1 .. n
    <3>1. k - 1 \in 0 .. n /\ k - 1 # n /\ k \in 0 .. n
      OBVIOUS
    <3>2. g[k - 1] = f[k - 1]
      BY <3>1
    <3>3. CASE k = n
      <4>1. g[k] = step[<<f[n - 1], n>>]
        BY <3>1, <3>3
      <4>. QED  BY <4>1, <3>2, <3>3
    <3>4. CASE k # n
      <4>1. k \in 1 .. n - 1
        BY <3>4
      <4>2. g[k] = f[k]
        BY <3>1, <3>4
      <4>. QED  BY <4>1, <4>2, <2>1, <3>2 DEF Repeats
    <3>. QED  BY <3>3, <3>4
  <2>7. \E h : Good(n, h)
    <3>. HIDE DEF g
    <3>. QED  BY <2>5, <2>6 DEF Repeats
  <2>. HIDE DEF Good
  <2>. QED  BY <2>7
<1>3. N \in B
  <2>. HIDE DEF B
  <2>. QED  BY <1>1, <1>2, UpTo
<1>. QED  BY <1>3

\* A concatenation has the elements of both its parts.
LEMMA SetOfJoined ==
    ASSUME NEW X, NEW s \in Seq(X), NEW t \in Seq(X)
    PROVE  s \o t \in Seq(X) /\ ToSet(s \o t) = ToSet(s) \cup ToSet(t)
<1>. DEFINE u == s \o t
<1>1. /\ u \in Seq(X) /\ Len(u) = Len(s) + Len(t)
      /\ \A i \in 1 .. Len(s) + Len(t) : u[i] = IF i <= Len(s) THEN s[i] ELSE t[i - Len(s)]
  BY ConcatProperties
<1>2. /\ Len(s) \in Nat /\ Len(t) \in Nat
      /\ DOMAIN s = 1 .. Len(s) /\ DOMAIN t = 1 .. Len(t)
  OBVIOUS
<1>. HIDE DEF u
<1>3. DOMAIN u = 1 .. Len(s) + Len(t)
  BY <1>1
<1>4. ASSUME NEW i \in 1 .. Len(s) + Len(t) PROVE u[i] \in ToSet(s) \cup ToSet(t)
  <2>1. CASE i <= Len(s)
    <3>1. i \in DOMAIN s /\ u[i] = s[i]
      BY <1>1, <1>2, <2>1
    <3>. QED  BY <3>1 DEF ToSet
  <2>2. CASE ~(i <= Len(s))
    <3>1. i - Len(s) \in DOMAIN t /\ u[i] = t[i - Len(s)]
      BY <1>1, <1>2, <2>2
    <3>. QED  BY <3>1 DEF ToSet
  <2>. QED  BY <2>1, <2>2
<1>5. ASSUME NEW i \in DOMAIN s PROVE s[i] \in ToSet(u)
  <2>1. i \in DOMAIN u /\ u[i] = s[i]
    BY <1>1, <1>2, <1>3
  <2>. QED  BY <2>1 DEF ToSet
<1>6. ASSUME NEW i \in DOMAIN t PROVE t[i] \in ToSet(u)
  <2>. DEFINE k == Len(s) + i
  <2>1. k \in DOMAIN u /\ ~(k <= Len(s)) /\ k - Len(s) = i
    BY <1>2, <1>3
  <2>. HIDE DEF k
  <2>2. u[k] = t[i]
    BY <1>1, <1>3, <2>1
  <2>. QED  BY <2>1, <2>2 DEF ToSet
<1>7. ToSet(u) = ToSet(s) \cup ToSet(t)
  <2>1. ToSet(u) \subseteq ToSet(s) \cup ToSet(t)
    BY <1>3, <1>4 DEF ToSet
  <2>2. ToSet(s) \subseteq ToSet(u) /\ ToSet(t) \subseteq ToSet(u)
    BY <1>5, <1>6 DEF ToSet
  <2>. QED  BY <2>1, <2>2
<1>. QED  BY <1>1, <1>7 DEF u

\* FlattenSeq has the elements of each of the sequences.
LEMMA Flattened ==
    \A X : \A ss \in Seq(Seq(X)) :
        /\ FlattenSeq(ss) \in Seq(X)
        /\ ToSet(FlattenSeq(ss)) = UNION {ToSet(ss[i]) : i \in DOMAIN ss}
<1>. SUFFICES ASSUME NEW X, NEW ss \in Seq(Seq(X))
              PROVE  /\ FlattenSeq(ss) \in Seq(X)
                     /\ ToSet(FlattenSeq(ss)) = UNION {ToSet(ss[i]) : i \in DOMAIN ss}
  OBVIOUS
<1>. DEFINE N == Len(ss)
            Fits(f) == f = [i \in 1 .. N |-> IF i = 1 THEN ss[i] ELSE f[i - 1] \o ss[i]]
<1>1. CASE N = 0
  <2>1. ss = <<>> /\ FlattenSeq(ss) = <<>>
    BY <1>1 DEF FlattenSeq
  <2>2. ToSet(<<>>) = {} /\ DOMAIN ss = {} /\ <<>> \in Seq(X)
    BY <2>1 DEF ToSet
  <2>. QED  BY <2>1, <2>2
<1>2. CASE N # 0
  <2>1. \E f : Fits(f)
    <3>. DEFINE step == [p \in Seq(X) \X (1 .. N) |-> p[1] \o ss[p[2]]]
    <3>1. step \in [Seq(X) \X (1 .. N) -> Seq(X)]
      OBVIOUS
    <3>2. N \in Nat /\ <<>> \in Seq(X)
      OBVIOUS
    <3>3. PICK f : Repeats(f, N, Seq(X), <<>>, step)
      <4>. HIDE DEF step, N
      <4>. QED  BY <3>1, <3>2, Recursion
    <3>4. \A k \in 1 .. N : f[k] = f[k - 1] \o ss[k]
      <4>. TAKE k \in 1 .. N
      <4>1. k - 1 \in 0 .. N
        OBVIOUS
      <4>2. f[k - 1] \in Seq(X)
        BY <4>1, <3>3 DEF Repeats
      <4>3. <<f[k - 1], k>> \in Seq(X) \X (1 .. N)
        BY <4>2
      <4>. QED  BY <4>3, <3>3 DEF Repeats
    <3>. DEFINE g == [i \in 1 .. N |-> f[i]]
    <3>5. \A i \in 1 .. N : g[i] = IF i = 1 THEN ss[i] ELSE g[i - 1] \o ss[i]
      <4>. TAKE i \in 1 .. N
      <4>1. CASE i = 1
        <5>1. f[i] = f[i - 1] \o ss[i] /\ ss[i] \in Seq(X) /\ i - 1 = 0
          <6>1. ss[i] \in Seq(X)
            OBVIOUS
          <6>2. f[i] = f[i - 1] \o ss[i]
            BY <3>4
          <6>. QED  BY <4>1, <6>1, <6>2
        <5>2. f[i] = ss[i]
          <6>1. f[i] = <<>> \o ss[i]
            BY <5>1, <3>3 DEF Repeats
          <6>. QED  BY <5>1, <6>1, ConcatEmptySeq
        <5>. QED  BY <4>1, <5>2
      <4>2. CASE i # 1
        <5>1. i - 1 \in 1 .. N
          BY <4>2
        <5>2. g[i] = f[i] /\ g[i - 1] = f[i - 1]
          BY <5>1
        <5>. QED  BY <4>2, <5>2, <3>4
      <4>. QED  BY <4>1, <4>2
    <3>6. Fits(g)
      <4>1. g = [i \in 1 .. N |-> g[i]]
        OBVIOUS
      <4>. HIDE DEF g
      <4>. QED  BY <3>5, <4>1
    <3>. QED  BY <3>6
  <2>. DEFINE flat == CHOOSE f : Fits(f)
  <2>2. Fits(flat)
    BY <2>1
  <2>3. FlattenSeq(ss) = flat[N]
    BY <1>2 DEF FlattenSeq
  <2>. HIDE DEF flat
  <2>. DEFINE B == {0} \cup {k \in 1 .. N : /\ flat[k] \in Seq(X)
                               /\ ToSet(flat[k]) = UNION {ToSet(ss[i]) : i \in 1 .. k}}
  <2>4. \A k \in 1 .. N : flat[k] = IF k = 1 THEN ss[k] ELSE flat[k - 1] \o ss[k]
    BY <2>2
  <2>5. \A k \in 1 .. N : k - 1 \in B => k \in B
    <3>. SUFFICES ASSUME NEW k \in 1 .. N, k - 1 \in B
                  PROVE  /\ flat[k] \in Seq(X)
                         /\ ToSet(flat[k]) = UNION {ToSet(ss[i]) : i \in 1 .. k}
      OBVIOUS
    <3>1. ss[k] \in Seq(X)
      OBVIOUS
    <3>2. CASE k = 1
      <4>1. flat[k] = ss[k] /\ 1 .. k = {k}
        BY <2>4, <3>2
      <4>. QED  BY <4>1, <3>1
    <3>3. CASE k # 1
      <4>1. /\ flat[k - 1] \in Seq(X)
            /\ ToSet(flat[k - 1]) = UNION {ToSet(ss[i]) : i \in 1 .. k - 1}
        BY <3>3
      <4>2. flat[k] = flat[k - 1] \o ss[k]
        BY <2>4, <3>3
      <4>4. ToSet(flat[k]) = ToSet(flat[k - 1]) \cup ToSet(ss[k]) /\ flat[k] \in Seq(X)
        <5>. DEFINE u == flat[k - 1]
                    v == ss[k]
        <5>1. u \in Seq(X) /\ v \in Seq(X) /\ flat[k] = u \o v
          BY <4>1, <4>2, <3>1
        <5>. HIDE DEF u, v
        <5>2. u \o v \in Seq(X) /\ ToSet(u \o v) = ToSet(u) \cup ToSet(v)
          BY <5>1, SetOfJoined
        <5>. QED  BY <5>1, <5>2 DEF u, v
      <4>5. 1 .. k = (1 .. k - 1) \cup {k}
        OBVIOUS
      <4>. QED  BY <4>1, <4>4, <4>5
    <3>. QED  BY <3>2, <3>3
  <2>6. N \in B
    <3>1. N \in Nat /\ 0 \in B
      OBVIOUS
    <3>2. 0 .. N \subseteq B /\ N \in 0 .. N
      <4>. HIDE DEF B, N
      <4>1. N \in Nat
        BY <3>1
      <4>2. 0 .. N \subseteq B
        BY <4>1, <3>1, <2>5, UpTo
      <4>. QED  BY <4>1, <4>2
    <3>. QED  BY <3>2
  <2>7. /\ flat[N] \in Seq(X)
        /\ ToSet(flat[N]) = UNION {ToSet(ss[i]) : i \in 1 .. N}
    BY <2>6, <1>2
  <2>8. DOMAIN ss = 1 .. N
    OBVIOUS
  <2>. HIDE DEF N
  <2>. QED  BY <2>3, <2>7, <2>8
<1>. QED  BY <1>1, <1>2

-----------------------------------------------------------------------------
(* Parts of a text, by where in it they begin and end *)

Span(s, a, b) == a \in 1 .. Len(s) + 1 /\ b \in a - 1 .. Len(s)

Copies(t, s, a) == \A i \in 1 .. Len(t) : t[i] = s[a + i - 1]

\* A part of a text is a text, as long as its bounds say, that copies it.
LEMMA PartOfText ==
    ASSUME NEW X, NEW s \in Seq(X), NEW a, NEW b, Span(s, a, b)
    PROVE  /\ a \in Nat /\ b \in Nat /\ Len(s) \in Nat
           /\ SubSeq(s, a, b) \in Seq(X)
           /\ Len(SubSeq(s, a, b)) = b - a + 1
           /\ b - a + 1 \in Nat
           /\ Copies(SubSeq(s, a, b), s, a)
<1>1. a \in Nat /\ b \in Nat /\ Len(s) \in Nat /\ b - a + 1 \in Nat
  BY DEF Span
<1>2. \A i \in a .. b : s[i] \in X
  BY DEF Span
<1>. QED  BY <1>1, <1>2, SubSeqProperties DEF Span, Copies

\* c is where i is in a part that begins at a.
Lies(c, i, a) == c = a + i - 1

\* A part of a part is a part, with the bounds moved.
LEMMA PartOfPart ==
    ASSUME NEW X, NEW s \in Seq(X), NEW a, NEW b, Span(s, a, b),
           NEW i, NEW j, Span(SubSeq(s, a, b), i, j),
           NEW c, NEW d, Lies(c, i, a), Lies(d, j, a)
    PROVE  SubSeq(SubSeq(s, a, b), i, j) = SubSeq(s, c, d) /\ Span(s, c, d)
<1>. DEFINE t == SubSeq(s, a, b)
<1>1. /\ a \in Nat /\ b \in Nat /\ Len(s) \in Nat /\ b - a + 1 \in Nat
      /\ t \in Seq(X) /\ Len(t) = b - a + 1
      /\ Copies(t, s, a)
  BY PartOfText
<1>2. /\ i \in Nat /\ j \in Nat /\ j - i + 1 \in Nat
      /\ SubSeq(t, i, j) \in Seq(X) /\ Len(SubSeq(t, i, j)) = j - i + 1
      /\ Copies(SubSeq(t, i, j), t, i)
  <2>1. Span(t, i, j)
    OBVIOUS
  <2>. HIDE DEF t
  <2>. QED  BY <1>1, <2>1, PartOfText
<1>3. i >= 1 /\ j <= b - a + 1 /\ i <= b - a + 2
  BY <1>1, <1>2 DEF Span
<1>4. Span(s, c, d)
  BY <1>1, <1>2, <1>3 DEF Span, Lies
<1>. HIDE DEF t
<1>5. /\ SubSeq(s, c, d) \in Seq(X) /\ Len(SubSeq(s, c, d)) = d - c + 1
      /\ Copies(SubSeq(s, c, d), s, c)
  BY <1>4, PartOfText
<1>6. d - c + 1 = j - i + 1
  BY <1>1, <1>2 DEF Lies
<1>7. ASSUME NEW k \in 1 .. j - i + 1
      PROVE  SubSeq(t, i, j)[k] = SubSeq(s, c, d)[k]
  <2>1. i + k - 1 \in 1 .. b - a + 1
    BY <1>1, <1>2, <1>3
  <2>2. t[i + k - 1] = s[a + (i + k - 1) - 1]
    <3>. HIDE DEF t
    <3>. QED  BY <1>1, <2>1 DEF Copies
  <2>3. a + (i + k - 1) - 1 = c + k - 1
    BY <1>1, <1>2 DEF Lies
  <2>4. SubSeq(s, c, d)[k] = s[c + k - 1]
    BY <1>5, <1>6 DEF Copies
  <2>. QED  BY <1>2, <2>2, <2>3, <2>4 DEF Copies
<1>8. SubSeq(t, i, j) = SubSeq(s, c, d)
  <2>. HIDE DEF t
  <2>. QED  BY <1>2, <1>5, <1>6, <1>7, SeqEqual
<1>. QED  BY <1>4, <1>8 DEF t

\* A sequence of three is its three elements.
LEMMA Triple ==
    ASSUME NEW X, NEW t \in Seq(X), Len(t) = 3
    PROVE  t = <<t[1], t[2], t[3]>>
OBVIOUS

\* From its first to its last place, a part is the whole text.
LEMMA WholeText == \A X : \A s \in Seq(X) : Span(s, 1, Len(s)) /\ SubSeq(s, 1, Len(s)) = s
BY SubSeqFull DEF Span

\* The first and the last place where a text has a token.
LEMMA FirstPlace ==
    ASSUME NEW X, NEW s \in Seq(X), NEW x
    PROVE  \/ FirstOf(s, x) = 0 /\ \A i \in 1 .. Len(s) : s[i] # x
           \/ /\ FirstOf(s, x) \in 1 .. Len(s) /\ s[FirstOf(s, x)] = x
              /\ \A i \in 1 .. FirstOf(s, x) - 1 : s[i] # x
<1>. DEFINE I == {i \in 1 .. Len(s) : s[i] = x}
<1>1. I \subseteq Nat /\ I \subseteq 1 .. Len(s)
  OBVIOUS
<1>2. FirstOf(s, x) = IF I # {} THEN Min(I) ELSE 0
  BY DEF FirstOf, SelectInSeq
<1>3. CASE I = {}
  BY <1>2, <1>3
<1>4. CASE I # {}
  <2>1. FirstOf(s, x) \in I /\ \A k \in I : FirstOf(s, x) <= k
    <3>. HIDE DEF I
    <3>. QED  BY <1>1, <1>2, <1>4, LeastIsLeast
  <2>2. \A i \in 1 .. FirstOf(s, x) - 1 : i \in 1 .. Len(s) /\ i \notin I
    BY <2>1
  <2>. QED  BY <2>1, <2>2
<1>. QED  BY <1>3, <1>4

\* LastOf is the last place of x, or 0 if there is none.
LEMMA LastPlace ==
    ASSUME NEW X, NEW s \in Seq(X), NEW x
    PROVE  \/ LastOf(s, x) = 0 /\ \A i \in 1 .. Len(s) : s[i] # x
           \/ /\ LastOf(s, x) \in 1 .. Len(s) /\ s[LastOf(s, x)] = x
              /\ \A i \in LastOf(s, x) + 1 .. Len(s) : s[i] # x
<1>. DEFINE I == {i \in 1 .. Len(s) : s[i] = x}
<1>1. I \subseteq 0 .. Len(s) /\ Len(s) \in Nat
  OBVIOUS
<1>2. LastOf(s, x) = IF I # {} THEN Max(I) ELSE 0
  BY DEF LastOf, SelectLastInSeq
<1>3. CASE I = {}
  BY <1>2, <1>3
<1>4. CASE I # {}
  <2>1. LastOf(s, x) \in I /\ \A k \in I : k <= LastOf(s, x)
    <3>. HIDE DEF I
    <3>. QED  BY <1>1, <1>2, <1>4, GreatestIsGreatest
  <2>2. \A i \in LastOf(s, x) + 1 .. Len(s) : i \in 1 .. Len(s) /\ i \notin I
    BY <2>1
  <2>. QED  BY <2>1, <2>2
<1>. QED  BY <1>3, <1>4

\* Between a and b there is all that Trim leaves of s.
Leaves(s, x, a, b) ==
    /\ Span(s, a, b)
    /\ \A i \in 1 .. Len(s) : s[i] # x => i \in a .. b
    /\ a <= b => s[a] # x /\ s[b] # x
    /\ a > b => a = 1 /\ b = 0

\* Trim leaves what is between the first and the last token that is not x.
LEMMA Trimmed ==
    ASSUME NEW X, NEW s \in Seq(X), NEW x
    PROVE  \E a, b : Leaves(s, x, a, b) /\ Trim(s, x) = SubSeq(s, a, b)
<1>. DEFINE I == {i \in 1 .. Len(s) : s[i] # x}
<1>1. I \subseteq Nat /\ I \subseteq 0 .. Len(s) /\ Len(s) \in Nat
  OBVIOUS
<1>2. Trim(s, x) = IF (IF I # {} THEN Min(I) ELSE 0) = 0 THEN <<>>
                   ELSE SubSeq(s, IF I # {} THEN Min(I) ELSE 0, IF I # {} THEN Max(I) ELSE 0)
  BY DEF Trim, SelectInSeq, SelectLastInSeq
<1>3. CASE I = {}
  <2>1. Trim(s, x) = <<>> /\ SubSeq(s, 1, 0) = <<>>
    BY <1>2, <1>3, SubSeqEmpty
  <2>2. Span(s, 1, 0)
    BY <1>1 DEF Span
  <2>3. Leaves(s, x, 1, 0)
    BY <1>3, <2>2 DEF Leaves
  <2>. QED  BY <2>1, <2>3
<1>4. CASE I # {}
  <2>1. /\ Min(I) \in I /\ \A k \in I : Min(I) <= k
        /\ Max(I) \in I /\ \A k \in I : k <= Max(I)
    <3>. HIDE DEF I
    <3>. QED  BY <1>1, <1>4, LeastIsLeast, GreatestIsGreatest
  <2>2. \A i \in 1 .. Len(s) : s[i] # x => Min(I) <= i /\ i <= Max(I)
    BY <2>1
  <2>3. Min(I) \in 1 .. Len(s) /\ Max(I) \in 1 .. Len(s) /\ s[Min(I)] # x /\ s[Max(I)] # x
    BY <2>1
  <2>4. Min(I) <= Max(I)
    BY <2>1
  <2>5. Trim(s, x) = SubSeq(s, Min(I), Max(I))
    <3>1. Min(I) # 0
      BY <2>3
    <3>. HIDE DEF I
    <3>. QED  BY <1>2, <1>4, <3>1
  <2>. DEFINE a == Min(I)
              b == Max(I)
  <2>6. a \in 1 .. Len(s) /\ b \in 1 .. Len(s) /\ a <= b
    BY <2>3, <2>4
  <2>7. Span(s, a, b)
    <3>. HIDE DEF a, b
    <3>. QED  BY <1>1, <2>6 DEF Span
  <2>8. \A i \in 1 .. Len(s) : s[i] # x => i \in a .. b
    BY <2>2, <2>6
  <2>9. Leaves(s, x, a, b)
    <3>1. a \in Nat /\ b \in Nat /\ s[a] # x /\ s[b] # x
      BY <2>3, <2>6
    <3>. HIDE DEF a, b
    <3>. QED  BY <2>6, <2>7, <2>8, <3>1 DEF Leaves
  <2>. QED  BY <2>5, <2>9
<1>. QED  BY <1>3, <1>4

\* What is left of the part between a and b, without its scheme, its path, its
\* user and its port: the part that begins or ends at k instead.
MarkAt(s, i) == s[i] = ":" /\ s[i + 1] = "/" /\ s[i + 2] = "/"

AfterScheme(s, a, b, k) ==
    \/ k = a /\ \A i \in a .. b - 2 : ~MarkAt(s, i)
    \/ k \in a + 3 .. b + 1 /\ MarkAt(s, k - 3) /\ \A i \in a .. k - 4 : ~MarkAt(s, i)

BeforeTail(s, a, b, k) ==
    \/ k = b /\ \A i \in a .. b : s[i] # "/"
    \/ k \in a - 1 .. b - 1 /\ s[k + 1] = "/" /\ \A i \in a .. k : s[i] # "/"

AfterUser(s, a, b, k) ==
    \/ k = a /\ \A i \in a .. b : s[i] # "@"
    \/ k \in a + 1 .. b + 1 /\ s[k - 1] = "@" /\ \A i \in k .. b : s[i] # "@"

BeforePort(s, a, b, k) ==
    \/ k = b /\ ((\A i \in a .. b : s[i] # ":") \/ \E i \in a .. b : s[i] = "]")
    \/ /\ k \in a - 1 .. b - 1 /\ s[k + 1] = ":" /\ \A i \in k + 2 .. b : s[i] # ":"
       /\ \A i \in a .. b : s[i] # "]"

\* DropScheme cuts a part behind its first "://", if it has one.
LEMMA SchemeDropped ==
    ASSUME NEW X, NEW s \in Seq(X), NEW a, NEW b, Span(s, a, b)
    PROVE  \E k : /\ Span(s, k, b) /\ AfterScheme(s, a, b, k)
                  /\ DropScheme(SubSeq(s, a, b)) = SubSeq(s, k, b)
<1>. DEFINE t == SubSeq(s, a, b)
            I == {i \in 1 .. Len(t) - 2 : SubSeq(t, i, i + 2) = <<":", "/", "/">>}
<1>1. /\ a \in Nat /\ b \in Nat /\ Len(s) \in Nat /\ b - a + 1 \in Nat
      /\ t \in Seq(X) /\ Len(t) = b - a + 1
      /\ Copies(t, s, a)
  BY PartOfText
<1>2. a >= 1 /\ b <= Len(s)
  BY <1>1 DEF Span
<1>3. ASSUME NEW i \in 1 .. Len(t) - 2
      PROVE  i \in I <=> MarkAt(s, a + i - 1)
  <2>1. Span(t, i, i + 2)
    BY <1>1 DEF Span
  <2>. DEFINE u == SubSeq(t, i, i + 2)
  <2>2. /\ Len(u) = 3 /\ u \in Seq(X)
        /\ u[1] = t[i] /\ u[2] = t[i + 1] /\ u[3] = t[i + 2]
    <3>1. /\ i + 2 - i + 1 = 3 /\ 1 \in 1 .. 3 /\ 2 \in 1 .. 3 /\ 3 \in 1 .. 3
          /\ i + 1 - 1 = i /\ i + 2 - 1 = i + 1 /\ i + 3 - 1 = i + 2
      BY <1>1
    <3>. DEFINE j == i + 2
    <3>2. /\ u \in Seq(X) /\ Len(u) = j - i + 1
          /\ Copies(u, t, i)
      <4>1. Span(t, i, j) /\ u = SubSeq(t, i, j) /\ t \in Seq(X)
        BY <1>1, <2>1
      <4>. HIDE DEF t, j, u
      <4>. QED  BY <4>1, PartOfText
    <3>. HIDE DEF t, u
    <3>. QED  BY <3>1, <3>2 DEF Copies
  <2>3. u = <<t[i], t[i + 1], t[i + 2]>>
    <3>. HIDE DEF t, u
    <3>. QED  BY <2>2, Triple
  <2>4. t[i] = s[a + i - 1] /\ t[i + 1] = s[a + i - 1 + 1] /\ t[i + 2] = s[a + i - 1 + 2]
    <3>1. i \in 1 .. b - a + 1 /\ i + 1 \in 1 .. b - a + 1 /\ i + 2 \in 1 .. b - a + 1
      <4>. HIDE DEF t
      <4>. QED  BY <1>1
    <3>2. /\ a + (i + 1) - 1 = a + i - 1 + 1
          /\ a + (i + 2) - 1 = a + i - 1 + 2
      BY <1>1
    <3>. HIDE DEF t
    <3>. QED  BY <1>1, <3>1, <3>2 DEF Copies
  <2>. HIDE DEF t
  <2>. QED  BY <2>3, <2>4 DEF MarkAt
<1>4. DropScheme(t) = IF I = {} THEN t ELSE SubSeq(t, Min(I) + 2 + 1, Len(t))
  BY DEF DropScheme, Behind
<1>5. I \subseteq Nat
  OBVIOUS
<1>6. CASE I = {}
  <2>1. \A i \in a .. b - 2 : ~MarkAt(s, i)
    <3>. TAKE i \in a .. b - 2
    <3>1. i - a + 1 \in 1 .. Len(t) - 2 /\ a + (i - a + 1) - 1 = i
      <4>. HIDE DEF t
      <4>. QED  BY <1>1
    <3>. HIDE DEF I, t
    <3>. QED  BY <1>3, <1>6, <3>1
  <2>2. DropScheme(t) = t
    <3>. HIDE DEF I
    <3>. QED  BY <1>4, <1>6
  <2>. QED  BY <2>1, <2>2 DEF AfterScheme
<1>7. CASE I # {}
  <2>. DEFINE m == Min(I)
              k == a + m + 2
  <2>1. m \in I /\ \A i \in I : m <= i
    <3>. HIDE DEF I
    <3>. QED  BY <1>5, <1>7, LeastIsLeast
  <2>2. m \in 1 .. Len(t) - 2
    <3>. HIDE DEF m
    <3>. QED  BY <2>1
  <2>3. DropScheme(t) = SubSeq(t, m + 2 + 1, Len(t))
    <3>. HIDE DEF I
    <3>. QED  BY <1>4, <1>7
  <2>. HIDE DEF m, I
  <2>4. k \in a + 3 .. b + 1 /\ k - 3 = a + m - 1
    <3>. HIDE DEF t
    <3>. QED  BY <1>1, <2>2
  <2>5. MarkAt(s, k - 3)
    <3>. HIDE DEF k
    <3>. QED  BY <1>3, <2>1, <2>2, <2>4
  <2>6. \A i \in a .. k - 4 : ~MarkAt(s, i)
    <3>. TAKE i \in a .. k - 4
    <3>1. i - a + 1 \in 1 .. Len(t) - 2 /\ a + (i - a + 1) - 1 = i /\ i - a + 1 < m
      <4>. HIDE DEF t
      <4>. QED  BY <1>1, <2>2
    <3>2. i - a + 1 \notin I
      <4>1. i - a + 1 \in Int /\ m \in Int
        BY <1>1, <2>2
      <4>. QED  BY <2>1, <3>1, <4>1
    <3>. QED  BY <1>3, <3>1, <3>2
  <2>7. Span(t, m + 2 + 1, Len(t))
    <3>. HIDE DEF t
    <3>. QED  BY <1>1, <2>2 DEF Span
  <2>8. a + (m + 2 + 1) - 1 = k /\ a + Len(t) - 1 = b
    <3>. HIDE DEF t
    <3>. QED  BY <1>1, <2>2
  <2>9. SubSeq(t, m + 2 + 1, Len(t)) = SubSeq(s, k, b) /\ Span(s, k, b)
    <3>1. t = SubSeq(s, a, b)
      OBVIOUS
    <3>. DEFINE i == m + 2 + 1
                j == Len(t)
    <3>2. Span(SubSeq(s, a, b), i, j) /\ Lies(k, i, a) /\ Lies(b, j, a)
      <4>1. Span(t, i, j)
        BY <2>7
      <4>2. Lies(k, i, a) /\ Lies(b, j, a)
        <5>. HIDE DEF t
        <5>. QED  BY <1>1, <2>2 DEF Lies
      <4>. QED  BY <4>1, <4>2
    <3>3. SubSeq(t, i, j) = SubSeq(s, k, b) /\ Span(s, k, b)
      <4>1. SubSeq(SubSeq(s, a, b), i, j) = SubSeq(s, k, b) /\ Span(s, k, b)
        <5>. HIDE DEF k, i, j
        <5>. QED  BY <3>2, PartOfPart
      <4>. QED  BY <4>1
    <3>. QED  BY <3>3
  <2>10. AfterScheme(s, a, b, k)
    <3>. HIDE DEF k
    <3>. QED  BY <2>4, <2>5, <2>6 DEF AfterScheme
  <2>. QED  BY <2>3, <2>9, <2>10
<1>. QED  BY <1>6, <1>7

\* Where a part has a token first, or last, in terms of the text.
Free(s, a, b, x) == \A i \in a .. b : s[i] # x

\* A part is free of x where it does not contain it.
LEMMA FreePart ==
    ASSUME NEW X, NEW s \in Seq(X), NEW a, NEW b, Span(s, a, b), NEW x
    PROVE  Free(s, a, b, x) <=> ~Contains(SubSeq(s, a, b), x)
<1>. DEFINE t == SubSeq(s, a, b)
<1>1. /\ a \in Nat /\ b \in Nat /\ b - a + 1 \in Nat
      /\ Len(t) = b - a + 1 /\ Copies(t, s, a)
  BY PartOfText
<1>. HIDE DEF t
<1>2. ASSUME NEW i \in a .. b, s[i] = x PROVE Contains(t, x)
  <2>1. i - a + 1 \in 1 .. Len(t) /\ a + (i - a + 1) - 1 = i
    BY <1>1
  <2>2. t[i - a + 1] = x
    BY <1>1, <1>2, <2>1 DEF Copies
  <2>. QED  BY <2>1, <2>2 DEF Contains
<1>3. ASSUME NEW i \in 1 .. Len(t), t[i] = x PROVE a + i - 1 \in a .. b /\ s[a + i - 1] = x
  BY <1>1, <1>3 DEF Copies
<1>. QED  BY <1>2, <1>3 DEF Free, Contains, t

\* FirstOf finds the first place of x within a part.
LEMMA FirstInPart ==
    ASSUME NEW X, NEW s \in Seq(X), NEW a, NEW b, Span(s, a, b), NEW x, ~Free(s, a, b, x)
    PROVE  \E k : /\ k \in a .. b /\ s[k] = x /\ Free(s, a, k - 1, x)
                  /\ Lies(k, FirstOf(SubSeq(s, a, b), x), a)
<1>. DEFINE t == SubSeq(s, a, b)
            m == FirstOf(t, x)
            k == a + m - 1
<1>1. /\ a \in Nat /\ b \in Nat /\ b - a + 1 \in Nat
      /\ t \in Seq(X) /\ Len(t) = b - a + 1 /\ Copies(t, s, a)
  BY PartOfText
<1>2. Contains(t, x)
  BY FreePart
<1>. HIDE DEF t
<1>3. m \in 1 .. Len(t) /\ t[m] = x /\ \A i \in 1 .. m - 1 : t[i] # x
  BY <1>1, <1>2, FirstPlace DEF Contains
<1>. HIDE DEF m
<1>4. k \in a .. b /\ s[k] = x
  BY <1>1, <1>3 DEF Copies
<1>5. Free(s, a, k - 1, x)
  <2>. SUFFICES ASSUME NEW i \in a .. k - 1 PROVE s[i] # x
    BY DEF Free
  <2>1. i - a + 1 \in 1 .. m - 1 /\ i - a + 1 \in 1 .. Len(t) /\ a + (i - a + 1) - 1 = i
    BY <1>1, <1>3
  <2>2. t[i - a + 1] = s[i]
    BY <1>1, <2>1 DEF Copies
  <2>. QED  BY <1>3, <2>1, <2>2
<1>6. Lies(k, m, a)
  BY DEF Lies
<1>. HIDE DEF k
<1>. QED  BY <1>4, <1>5, <1>6 DEF m, t

\* LastOf finds the last place of x within a part.
LEMMA LastInPart ==
    ASSUME NEW X, NEW s \in Seq(X), NEW a, NEW b, Span(s, a, b), NEW x, ~Free(s, a, b, x)
    PROVE  \E k : /\ k \in a .. b /\ s[k] = x /\ Free(s, k + 1, b, x)
                  /\ Lies(k, LastOf(SubSeq(s, a, b), x), a)
<1>. DEFINE t == SubSeq(s, a, b)
            m == LastOf(t, x)
            k == a + m - 1
<1>1. /\ a \in Nat /\ b \in Nat /\ b - a + 1 \in Nat
      /\ t \in Seq(X) /\ Len(t) = b - a + 1 /\ Copies(t, s, a)
  BY PartOfText
<1>2. Contains(t, x)
  BY FreePart
<1>. HIDE DEF t
<1>3. m \in 1 .. Len(t) /\ t[m] = x /\ \A i \in m + 1 .. Len(t) : t[i] # x
  BY <1>1, <1>2, LastPlace DEF Contains
<1>. HIDE DEF m
<1>4. k \in a .. b /\ s[k] = x
  BY <1>1, <1>3 DEF Copies
<1>5. Free(s, k + 1, b, x)
  <2>. SUFFICES ASSUME NEW i \in k + 1 .. b PROVE s[i] # x
    BY DEF Free
  <2>1. i - a + 1 \in m + 1 .. Len(t) /\ i - a + 1 \in 1 .. Len(t) /\ a + (i - a + 1) - 1 = i
    BY <1>1, <1>3
  <2>2. t[i - a + 1] = s[i]
    BY <1>1, <2>1 DEF Copies
  <2>. QED  BY <1>3, <2>1, <2>2
<1>6. Lies(k, m, a)
  BY DEF Lies
<1>. HIDE DEF k
<1>. QED  BY <1>4, <1>5, <1>6 DEF m, t

\* DropTail cuts a part before its first "/".
LEMMA TailDropped ==
    ASSUME NEW X, NEW s \in Seq(X), NEW a, NEW b, Span(s, a, b)
    PROVE  \E k : /\ Span(s, a, k) /\ BeforeTail(s, a, b, k)
                  /\ DropTail(SubSeq(s, a, b)) = SubSeq(s, a, k)
<1>. DEFINE t == SubSeq(s, a, b)
<1>1. /\ a \in Nat /\ b \in Nat /\ Len(s) \in Nat /\ b - a + 1 \in Nat
      /\ t \in Seq(X) /\ Len(t) = b - a + 1 /\ b <= Len(s) /\ a >= 1
  BY PartOfText DEF Span
<1>2. CASE Free(s, a, b, "/")
  <2>1. DropTail(t) = t
    BY <1>2, FreePart DEF DropTail
  <2>. QED  BY <1>2, <2>1 DEF BeforeTail, Free
<1>3. CASE ~Free(s, a, b, "/")
  <2>. DEFINE m == FirstOf(t, "/")
  <2>1. PICK p : p \in a .. b /\ s[p] = "/" /\ Free(s, a, p - 1, "/") /\ Lies(p, m, a)
    BY <1>3, FirstInPart
  <2>. DEFINE k == p - 1
              j == m - 1
  <2>2. m \in 1 .. Len(t)
    <3>1. m \in 1 .. Len(t) \/ m = 0
      <4>. HIDE DEF t
      <4>. QED  BY <1>1, FirstPlace
    <3>. HIDE DEF t, m
    <3>. QED  BY <1>1, <2>1, <3>1 DEF Lies
  <2>3. DropTail(t) = SubSeq(t, 1, j)
    BY <1>3, FreePart DEF DropTail, Before
  <2>4. Span(t, 1, j) /\ Lies(a, 1, a) /\ Lies(k, j, a)
    <3>. HIDE DEF t, m
    <3>. QED  BY <1>1, <2>1, <2>2 DEF Span, Lies
  <2>5. SubSeq(t, 1, j) = SubSeq(s, a, k) /\ Span(s, a, k)
    <3>. HIDE DEF j, k
    <3>. QED  BY <2>4, PartOfPart
  <2>6. BeforeTail(s, a, b, k)
    <3>1. k + 1 = p /\ k \in a - 1 .. b - 1
      BY <1>1, <2>1
    <3>. QED  BY <2>1, <3>1 DEF BeforeTail, Free
  <2>. HIDE DEF k, j
  <2>. QED  BY <2>3, <2>5, <2>6
<1>. QED  BY <1>2, <1>3

\* DropUser cuts a part behind its last "@".
LEMMA UserDropped ==
    ASSUME NEW X, NEW s \in Seq(X), NEW a, NEW b, Span(s, a, b)
    PROVE  \E k : /\ Span(s, k, b) /\ AfterUser(s, a, b, k)
                  /\ DropUser(SubSeq(s, a, b)) = SubSeq(s, k, b)
<1>. DEFINE t == SubSeq(s, a, b)
            m == LastOf(t, "@")
<1>1. /\ a \in Nat /\ b \in Nat /\ Len(s) \in Nat /\ b - a + 1 \in Nat
      /\ t \in Seq(X) /\ Len(t) = b - a + 1 /\ b <= Len(s) /\ a >= 1
  BY PartOfText DEF Span
<1>4. (m \in 1 .. Len(t) /\ t[m] = "@") \/ m = 0
  <2>. HIDE DEF t
  <2>. QED  BY <1>1, LastPlace
<1>2. CASE Free(s, a, b, "@")
  <2>1. ~Contains(t, "@")
    BY <1>2, FreePart
  <2>2. m = 0
    <3>. HIDE DEF t, m
    <3>. QED  BY <1>4, <2>1 DEF Contains
  <2>3. DropUser(t) = SubSeq(t, 1, Len(t))
    <3>. HIDE DEF t
    <3>. QED  BY <2>2 DEF DropUser, Behind
  <2>4. DropUser(t) = t
    <3>. HIDE DEF t
    <3>. QED  BY <1>1, <2>3, WholeText
  <2>. QED  BY <1>2, <2>4 DEF AfterUser, Free
<1>3. CASE ~Free(s, a, b, "@")
  <2>1. PICK p : p \in a .. b /\ s[p] = "@" /\ Free(s, p + 1, b, "@") /\ Lies(p, m, a)
    BY <1>3, LastInPart
  <2>. DEFINE k == p + 1
              i == m + 1
              j == Len(t)
  <2>2. m \in 1 .. Len(t)
    <3>. HIDE DEF t, m
    <3>. QED  BY <1>1, <1>4, <2>1 DEF Lies
  <2>3. DropUser(t) = SubSeq(t, i, j)
    BY DEF DropUser, Behind
  <2>4. Span(t, i, j) /\ Lies(k, i, a) /\ Lies(b, j, a)
    <3>. HIDE DEF t, m
    <3>. QED  BY <1>1, <2>1, <2>2 DEF Span, Lies
  <2>5. SubSeq(t, i, j) = SubSeq(s, k, b) /\ Span(s, k, b)
    <3>. HIDE DEF i, j, k
    <3>. QED  BY <2>4, PartOfPart
  <2>6. AfterUser(s, a, b, k)
    <3>1. k - 1 = p /\ k \in a + 1 .. b + 1
      BY <1>1, <2>1
    <3>. QED  BY <2>1, <3>1 DEF AfterUser, Free
  <2>. HIDE DEF k, i, j
  <2>. QED  BY <2>3, <2>5, <2>6
<1>. QED  BY <1>2, <1>3

\* DropPort cuts a part before its last ":", unless it has a "]".
LEMMA PortDropped ==
    ASSUME NEW X, NEW s \in Seq(X), NEW a, NEW b, Span(s, a, b)
    PROVE  \E k : /\ Span(s, a, k) /\ BeforePort(s, a, b, k)
                  /\ DropPort(SubSeq(s, a, b)) = SubSeq(s, a, k)
<1>. DEFINE t == SubSeq(s, a, b)
<1>1. /\ a \in Nat /\ b \in Nat /\ Len(s) \in Nat /\ b - a + 1 \in Nat
      /\ t \in Seq(X) /\ Len(t) = b - a + 1 /\ b <= Len(s) /\ a >= 1
  BY PartOfText DEF Span
<1>2. CASE Free(s, a, b, ":") \/ ~Free(s, a, b, "]")
  <2>1. DropPort(t) = t
    BY <1>2, FreePart DEF DropPort
  <2>. QED  BY <1>2, <2>1 DEF BeforePort, Free
<1>3. CASE ~Free(s, a, b, ":") /\ Free(s, a, b, "]")
  <2>. DEFINE m == LastOf(t, ":")
  <2>1. PICK p : p \in a .. b /\ s[p] = ":" /\ Free(s, p + 1, b, ":") /\ Lies(p, m, a)
    BY <1>3, LastInPart
  <2>. DEFINE k == p - 1
              j == m - 1
  <2>2. m \in 1 .. Len(t)
    <3>1. m \in 1 .. Len(t) \/ m = 0
      <4>. HIDE DEF t
      <4>. QED  BY <1>1, LastPlace
    <3>. HIDE DEF t, m
    <3>. QED  BY <1>1, <2>1, <3>1 DEF Lies
  <2>3. DropPort(t) = SubSeq(t, 1, j)
    BY <1>3, FreePart DEF DropPort, Before
  <2>4. Span(t, 1, j) /\ Lies(a, 1, a) /\ Lies(k, j, a)
    <3>. HIDE DEF t, m
    <3>. QED  BY <1>1, <2>1, <2>2 DEF Span, Lies
  <2>5. SubSeq(t, 1, j) = SubSeq(s, a, k) /\ Span(s, a, k)
    <3>. HIDE DEF j, k
    <3>. QED  BY <2>4, PartOfPart
  <2>6. BeforePort(s, a, b, k)
    <3>1. k + 1 = p /\ k \in a - 1 .. b - 1 /\ k + 2 = p + 1
      BY <1>1, <2>1
    <3>. HIDE DEF k
    <3>. QED  BY <1>3, <2>1, <3>1 DEF BeforePort, Free
  <2>. HIDE DEF k, j
  <2>. QED  BY <2>3, <2>5, <2>6
<1>. QED  BY <1>2, <1>3

\* What Trim leaves of a part, in terms of the text: from f to l.
Remains(s, x, a, b, f, l) ==
    /\ f \in a .. b /\ l \in f .. b /\ s[f] # x /\ s[l] # x
    /\ \A i \in a .. b : s[i] # x => i \in f .. l

Blanks(s, x, a, b) == \A i \in a .. b : s[i] = x

\* What Trim leaves of a part, in the places of the whole text.
LEMMA PartTrimmed ==
    ASSUME NEW X, NEW s \in Seq(X), NEW a, NEW b, Span(s, a, b), NEW x
    PROVE  \/ Blanks(s, x, a, b) /\ Trim(SubSeq(s, a, b), x) = <<>>
           \/ \E f, l : /\ Remains(s, x, a, b, f, l)
                        /\ Trim(SubSeq(s, a, b), x) = SubSeq(s, f, l)
<1>. DEFINE t == SubSeq(s, a, b)
<1>1. /\ a \in Nat /\ b \in Nat /\ Len(s) \in Nat /\ b - a + 1 \in Nat
      /\ t \in Seq(X) /\ Len(t) = b - a + 1 /\ b <= Len(s) /\ a >= 1
      /\ Copies(t, s, a)
  BY PartOfText DEF Span
<1>2. PICK i, j : Leaves(t, x, i, j) /\ Trim(t, x) = SubSeq(t, i, j)
  <2>. HIDE DEF t
  <2>. QED  BY <1>1, Trimmed
<1>3. i \in 1 .. Len(t) + 1 /\ j \in i - 1 .. Len(t)
  BY <1>2 DEF Leaves, Span
<1>4. \A p \in a .. b : /\ p - a + 1 \in 1 .. Len(t)
                        /\ t[p - a + 1] = s[p]
  <2>. TAKE p \in a .. b
  <2>1. p - a + 1 \in 1 .. Len(t) /\ a + (p - a + 1) - 1 = p
    <3>. HIDE DEF t
    <3>. QED  BY <1>1
  <2>. HIDE DEF t
  <2>. QED  BY <1>1, <2>1 DEF Copies
<1>5. CASE i > j
  <2>1. i = 1 /\ j = 0
    BY <1>2, <1>5 DEF Leaves
  <2>2. Trim(t, x) = <<>>
    <3>. HIDE DEF t
    <3>. QED  BY <1>2, <2>1, SubSeqEmpty
  <2>3. Blanks(s, x, a, b)
    <3>. SUFFICES ASSUME NEW p \in a .. b, s[p] # x PROVE FALSE
      BY DEF Blanks
    <3>1. p - a + 1 \in 1 .. Len(t) /\ t[p - a + 1] # x
      BY <1>4
    <3>2. p - a + 1 \in 1 .. 0
      <4>. HIDE DEF t
      <4>. QED  BY <1>2, <2>1, <3>1 DEF Leaves
    <3>. QED  BY <3>2, <1>1
  <2>. QED  BY <2>2, <2>3
<1>6. CASE i <= j
  <2>. DEFINE f == a + i - 1
              l == a + j - 1
  <2>1. f \in a .. b /\ l \in f .. b /\ f - a + 1 = i /\ l - a + 1 = j
    <3>. HIDE DEF t
    <3>. QED  BY <1>1, <1>3, <1>6
  <2>2. s[f] # x /\ s[l] # x
    <3>1. t[i] # x /\ t[j] # x
      BY <1>2, <1>6 DEF Leaves
    <3>2. t[i] = s[f] /\ t[j] = s[l]
      <4>1. f \in a .. b /\ l \in a .. b
        BY <2>1, <1>1
      <4>. HIDE DEF f, l, t
      <4>. QED  BY <1>4, <2>1, <4>1
    <3>. QED  BY <3>1, <3>2
  <2>3. ASSUME NEW p \in a .. b, s[p] # x PROVE p \in f .. l
    <3>1. p - a + 1 \in i .. j
      <4>. HIDE DEF t
      <4>. QED  BY <1>2, <1>4, <2>3 DEF Leaves
    <3>. QED  BY <1>1, <1>3, <3>1
  <2>4. Remains(s, x, a, b, f, l)
    <3>. HIDE DEF f, l
    <3>. QED  BY <2>1, <2>2, <2>3 DEF Remains
  <2>5. Span(t, i, j) /\ Lies(f, i, a) /\ Lies(l, j, a)
    BY <1>2 DEF Leaves, Lies
  <2>6. SubSeq(SubSeq(s, a, b), i, j) = SubSeq(s, f, l) /\ Span(s, f, l)
    <3>1. Span(SubSeq(s, a, b), i, j)
      BY <2>5
    <3>2. Lies(f, i, a) /\ Lies(l, j, a)
      BY <2>5
    <3>. HIDE DEF f, l, t
    <3>. QED  BY <3>1, <3>2, PartOfPart
  <2>. HIDE DEF f, l
  <2>. QED  BY <1>2, <2>4, <2>6
<1>. QED  BY <1>3, <1>5, <1>6

\* Two parts are trimmed to the same if they differ by blanks alone.
LEMMA SameTrimmed ==
    ASSUME NEW X, NEW s \in Seq(X), NEW a, NEW b, NEW c, NEW d, NEW x,
           Span(s, a, b), Span(s, c, d),
           \A i \in 1 .. Len(s) : s[i] # x => (i \in a .. b <=> i \in c .. d)
    PROVE  Trim(SubSeq(s, a, b), x) = Trim(SubSeq(s, c, d), x)
<1>1. /\ a \in Nat /\ b \in Nat /\ c \in Nat /\ d \in Nat /\ Len(s) \in Nat
      /\ a >= 1 /\ c >= 1 /\ b <= Len(s) /\ d <= Len(s)
  BY DEF Span
<1>2. \A i : (i \in a .. b => i \in 1 .. Len(s)) /\ (i \in c .. d => i \in 1 .. Len(s))
  BY <1>1
<1>3. Blanks(s, x, a, b) <=> Blanks(s, x, c, d)
  BY <1>2 DEF Blanks
<1>4. \A f, l : Remains(s, x, a, b, f, l) => ~Blanks(s, x, a, b)
  BY <1>1 DEF Remains, Blanks
<1>5. \A f, l : Remains(s, x, c, d, f, l) => ~Blanks(s, x, c, d)
  BY <1>1 DEF Remains, Blanks
<1>6. CASE Blanks(s, x, a, b)
  BY <1>3, <1>4, <1>5, <1>6, PartTrimmed
<1>7. CASE ~Blanks(s, x, a, b)
  <2>1. PICK f, l : Remains(s, x, a, b, f, l) /\ Trim(SubSeq(s, a, b), x) = SubSeq(s, f, l)
    BY <1>7, PartTrimmed
  <2>2. PICK g, m : Remains(s, x, c, d, g, m) /\ Trim(SubSeq(s, c, d), x) = SubSeq(s, g, m)
    BY <1>3, <1>7, PartTrimmed
  <2>3. /\ f \in a .. b /\ l \in a .. b /\ s[f] # x /\ s[l] # x
        /\ g \in c .. d /\ m \in c .. d /\ s[g] # x /\ s[m] # x
    BY <1>1, <2>1, <2>2 DEF Remains
  <2>4. g \in f .. l /\ m \in f .. l
    BY <1>2, <2>1, <2>3 DEF Remains
  <2>5. f \in g .. m /\ l \in g .. m
    BY <1>2, <2>2, <2>3 DEF Remains
  <2>6. f = g /\ l = m
    BY <1>1, <2>3, <2>4, <2>5
  <2>. QED  BY <2>1, <2>2, <2>6
<1>. QED  BY <1>6, <1>7

-----------------------------------------------------------------------------
(* stripURLParts *)

Clean(input) == StripURLParts(Trim(input, Space))

\* What is cut away of s, one after the other: first the blanks around a .. b.
Cuts(s, a, b, k1, k2, k3, k4) ==
    /\ Leaves(s, Space, a, b)
    /\ AfterScheme(s, a, b, k1)
    /\ BeforeTail(s, k1, b, k2)
    /\ AfterUser(s, k1, k2, k3)
    /\ BeforePort(s, k3, k2, k4)
    /\ Span(s, k1, b) /\ Span(s, k1, k2) /\ Span(s, k3, k2) /\ Span(s, k3, k4)

\* Clean leaves a part of its input: its steps are cuts in the same text.
LEMMA Cleaned ==
    ASSUME NEW X, NEW s \in Seq(X)
    PROVE  \E a, b, k1, k2, k3, k4 :
              Cuts(s, a, b, k1, k2, k3, k4) /\ Clean(s) = Trim(SubSeq(s, k3, k4), Space)
<1>1. PICK a, b : Leaves(s, Space, a, b) /\ Trim(s, Space) = SubSeq(s, a, b)
  BY Trimmed
<1>2. Span(s, a, b)
  BY <1>1 DEF Leaves
<1>3. PICK k1 : /\ Span(s, k1, b) /\ AfterScheme(s, a, b, k1)
                /\ DropScheme(SubSeq(s, a, b)) = SubSeq(s, k1, b)
  BY <1>2, SchemeDropped
<1>4. PICK k2 : /\ Span(s, k1, k2) /\ BeforeTail(s, k1, b, k2)
                /\ DropTail(SubSeq(s, k1, b)) = SubSeq(s, k1, k2)
  BY <1>3, TailDropped
<1>5. PICK k3 : /\ Span(s, k3, k2) /\ AfterUser(s, k1, k2, k3)
                /\ DropUser(SubSeq(s, k1, k2)) = SubSeq(s, k3, k2)
  BY <1>4, UserDropped
<1>6. PICK k4 : /\ Span(s, k3, k4) /\ BeforePort(s, k3, k2, k4)
                /\ DropPort(SubSeq(s, k3, k2)) = SubSeq(s, k3, k4)
  BY <1>5, PortDropped
<1>7. Clean(s) = Trim(SubSeq(s, k3, k4), Space)
  BY <1>1, <1>3, <1>4, <1>5, <1>6 DEF Clean, StripURLParts
<1>8. Cuts(s, a, b, k1, k2, k3, k4)
  BY <1>1, <1>3, <1>4, <1>5, <1>6 DEF Cuts
<1>. QED  BY <1>7, <1>8

\* A text that is a host with something around it: a scheme up to c1, a user
\* up to c2, the host, a port from c3 on and a path or query from c4 on.
Around(s, c1, c2, c3, c4) ==
    /\ c1 \in 0 .. Len(s) /\ c2 \in c1 .. Len(s) /\ c3 \in c2 .. Len(s) /\ c4 \in c3 .. Len(s)
    /\ \/ \A i \in 1 .. c1 : s[i] = Space
       \/ c1 >= 3 /\ MarkAt(s, c1 - 2) /\ \A i \in 1 .. c1 - 3 : s[i] # ":"
    /\ c2 = c1 \/ s[c2] = "@"
    /\ \A i \in c1 + 1 .. c4 : s[i] # "/"
    /\ \A i \in c2 + 1 .. c4 : s[i] # "@" /\ s[i] # "]"
    /\ \A i \in c2 + 1 .. c3 : s[i] # ":"
    /\ \/ \A i \in c3 + 1 .. c4 : s[i] = Space
       \/ c4 > c3 + 1 /\ s[c3 + 1] = ":" /\ \A i \in c3 + 2 .. c4 : s[i] # ":"
    /\ c4 = Len(s) \/ s[c4 + 1] = "/"

\* It has no scheme within its path or query, unless it begins with one.
OneScheme(s, c1, c4) ==
    \/ c1 >= 3 /\ MarkAt(s, c1 - 2)
    \/ \A i \in c4 + 1 .. Len(s) - 2 : ~MarkAt(s, i)

\* Of the tokens that are no blanks, exactly those from c to d are in a .. b.
Within(s, a, b, c, d) ==
    \A i \in 1 .. Len(s) : s[i] # Space => (i \in a .. b <=> i \in c .. d)

\* Spaces and underscores are no punctuation of a URL.
LEMMA SpaceApart ==
    /\ Space \notin {".", "-", ":", "/", "@", "]"}
    /\ Underscore \notin {".", "-", ":", "/", "@", "]"}
BY Zenon DEF Space, Underscore

\* The cuts come to the host, but for spaces around it.
LEMMA HostLeft ==
    ASSUME NEW X, NEW s \in Seq(X), NEW c1, NEW c2, NEW c3, NEW c4,
           Around(s, c1, c2, c3, c4), OneScheme(s, c1, c4),
           NEW a, NEW b, NEW k1, NEW k2, NEW k3, NEW k4, Cuts(s, a, b, k1, k2, k3, k4)
    PROVE  Within(s, k3, k4, c2 + 1, c3)
<1>. USE SpaceApart
<1>. DEFINE n == Len(s)
<1>1. /\ n \in Nat /\ c1 \in 0 .. n /\ c2 \in c1 .. n /\ c3 \in c2 .. n /\ c4 \in c3 .. n
      /\ c1 \in Nat /\ c2 \in Nat /\ c3 \in Nat /\ c4 \in Nat
  BY DEF Around
<1>2. /\ a \in 1 .. n + 1 /\ b \in a - 1 .. n /\ a \in Nat /\ b \in Nat
      /\ \A i \in 1 .. n : s[i] # Space => i \in a .. b
      /\ k1 \in 1 .. n + 1 /\ k2 \in k1 - 1 .. n /\ k3 \in 1 .. n + 1 /\ k4 \in k3 - 1 .. n
      /\ k1 \in Nat /\ k2 \in Nat /\ k3 \in Nat /\ k4 \in Nat
  BY DEF Cuts, Leaves, Span
<1>. HIDE DEF n
<1>3. \A i \in 1 .. n : s[i] # Space => (i \in k1 .. b <=> i \in c1 + 1 .. n)
  <2>1. CASE c1 >= 3 /\ MarkAt(s, c1 - 2) /\ \A i \in 1 .. c1 - 3 : s[i] # ":"
    <3>1. c1 - 2 \in 1 .. n /\ c1 - 1 \in 1 .. n /\ c1 \in 1 .. n
      BY <1>1, <2>1
    <3>2. s[c1 - 2] # Space /\ s[c1] # Space
      <4>1. c1 - 2 + 2 = c1
        BY <1>1
      <4>. QED  BY <2>1, <4>1 DEF MarkAt
    <3>3. c1 - 2 \in a .. b - 2
      BY <1>1, <1>2, <3>1, <3>2
    <3>4. k1 \in a + 3 .. b + 1 /\ MarkAt(s, k1 - 3) /\ \A i \in a .. k1 - 4 : ~MarkAt(s, i)
      BY <2>1, <3>3 DEF Cuts, AfterScheme
    <3>5. k1 - 3 \in 1 .. n /\ s[k1 - 3] = ":"
      BY <1>1, <1>2, <3>4 DEF MarkAt
    <3>6. k1 = c1 + 1
      <4>1. k1 - 3 \notin 1 .. c1 - 3
        BY <2>1, <3>5
      <4>2. c1 - 2 \notin a .. k1 - 4
        BY <2>1, <3>4
      <4>. QED  BY <1>1, <1>2, <3>3, <3>4, <4>1, <4>2
    <3>. QED  BY <1>1, <1>2, <3>6
  <2>2. CASE \A i \in 1 .. c1 : s[i] = Space
    <3>1. \A i \in a .. b - 2 : ~MarkAt(s, i)
      <4>. SUFFICES ASSUME NEW i \in a .. b - 2, MarkAt(s, i) PROVE FALSE
        OBVIOUS
      <4>1. i \in 1 .. n /\ i + 1 \in 1 .. n /\ i + 2 \in 1 .. n
        BY <1>1, <1>2
      <4>2. s[i] = ":" /\ s[i + 1] = "/" /\ s[i + 2] = "/"
        BY DEF MarkAt
      <4>3. i > c1
        BY <1>1, <2>2, <4>1, <4>2
      <4>4. i >= c4
        <5>1. i + 1 \notin c1 + 1 .. c4
          BY <4>2 DEF Around
        <5>. QED  BY <1>1, <4>1, <4>3, <5>1
      <4>5. i # c4
        <5>. SUFFICES ASSUME i = c4 PROVE FALSE
          OBVIOUS
        <5>1. c4 # c3
          <6>. SUFFICES ASSUME c4 = c3 PROVE FALSE
            OBVIOUS
          <6>1. i \notin c2 + 1 .. c3
            BY <4>2 DEF Around
          <6>2. c2 = c4
            BY <1>1, <4>1, <6>1
          <6>3. c2 = c1 \/ s[c2] = "@"
            BY DEF Around
          <6>. QED  BY <4>2, <4>3, <1>1, <6>2, <6>3
        <5>2. \/ \A j \in c3 + 1 .. c4 : s[j] = Space
              \/ c4 > c3 + 1 /\ \A j \in c3 + 2 .. c4 : s[j] # ":"
          BY DEF Around
        <5>. QED  BY <1>1, <4>2, <5>1, <5>2
      <4>6. i \in c4 + 1 .. n - 2
        BY <1>1, <1>2, <4>1, <4>4, <4>5
      <4>7. c1 >= 3 /\ MarkAt(s, c1 - 2)
        BY <4>6 DEF OneScheme, n
      <4>8. c1 - 2 \in 1 .. c1 /\ s[c1 - 2] = ":"
        BY <1>1, <4>7 DEF MarkAt
      <4>. QED  BY <2>2, <4>8
    <3>2. k1 = a
      <4>1. \A i \in a .. b - 2 : ~MarkAt(s, i)
        BY <3>1
      <4>2. k1 \in a + 3 .. b + 1 => k1 - 3 \in a .. b - 2
        BY <1>2
      <4>. QED  BY <4>1, <4>2 DEF Cuts, AfterScheme
    <3>. QED  BY <1>1, <1>2, <2>2, <3>2
  <2>. QED  BY <2>1, <2>2 DEF Around
<1>4. \A i \in 1 .. n : s[i] # Space => (i \in k1 .. k2 <=> i \in c1 + 1 .. c4)
  <2>1. CASE c4 = n
    <3>1. \A i \in k1 .. b : s[i] # "/"
      <4>. SUFFICES ASSUME NEW i \in k1 .. b, s[i] = "/" PROVE FALSE
        OBVIOUS
      <4>1. i \in 1 .. n
        BY <1>1, <1>2
      <4>2. i \in c1 + 1 .. c4
        BY <1>3, <2>1, <4>1
      <4>. QED  BY <4>2 DEF Around
    <3>2. k2 = b
      <4>1. k2 \in k1 - 1 .. b - 1 => k2 + 1 \in k1 .. b
        BY <1>2
      <4>. QED  BY <3>1, <4>1 DEF Cuts, BeforeTail
    <3>. QED  BY <1>3, <2>1, <3>2
  <2>2. CASE c4 # n
    <3>1. s[c4 + 1] = "/"
      BY <2>2 DEF Around, n
    <3>2. c4 + 1 \in 1 .. n /\ c4 + 1 \in k1 .. b
      BY <1>1, <1>3, <2>2, <3>1
    <3>3. k2 \in k1 - 1 .. b - 1 /\ s[k2 + 1] = "/" /\ \A i \in k1 .. k2 : s[i] # "/"
      BY <3>1, <3>2 DEF Cuts, BeforeTail
    <3>4. k2 + 1 \in 1 .. n /\ k2 + 1 \in k1 .. b
      BY <1>1, <1>2, <3>3
    <3>5. k2 + 1 \in c1 + 1 .. n
      BY <1>3, <3>3, <3>4
    <3>6. k2 + 1 \notin c1 + 1 .. c4
      BY <3>3 DEF Around
    <3>7. c4 + 1 \notin k1 .. k2
      BY <3>1, <3>3
    <3>8. k2 = c4
      BY <1>1, <1>2, <3>2, <3>5, <3>6, <3>7
    <3>. QED  BY <1>1, <1>2, <1>3, <3>2, <3>8
  <2>. QED  BY <2>1, <2>2
<1>5. \A i \in 1 .. n : s[i] # Space => (i \in k3 .. k2 <=> i \in c2 + 1 .. c4)
  <2>1. \A i \in k1 .. k2 : s[i] = "@" => i \in c1 + 1 .. c2
    <3>. SUFFICES ASSUME NEW i \in k1 .. k2, s[i] = "@" PROVE i \in c1 + 1 .. c2
      OBVIOUS
    <3>1. i \in 1 .. n
      BY <1>1, <1>2
    <3>2. i \in c1 + 1 .. c4
      BY <1>4, <3>1
    <3>3. i \notin c2 + 1 .. c4
      BY DEF Around
    <3>. QED  BY <1>1, <3>2, <3>3
  <2>2. CASE c2 = c1
    <3>1. k3 = k1
      <4>1. k3 \in k1 + 1 .. k2 + 1 => k3 - 1 \in k1 .. k2
        BY <1>2
      <4>2. \A i \in k1 .. k2 : s[i] # "@"
        BY <1>1, <2>1, <2>2
      <4>. QED  BY <4>1, <4>2 DEF Cuts, AfterUser
    <3>. QED  BY <1>4, <2>2, <3>1
  <2>3. CASE c2 # c1
    <3>1. s[c2] = "@"
      BY <2>3 DEF Around
    <3>2. c2 \in 1 .. n /\ c2 \in k1 .. k2
      BY <1>1, <1>4, <2>3, <3>1
    <3>3. k3 \in k1 + 1 .. k2 + 1 /\ s[k3 - 1] = "@" /\ \A i \in k3 .. k2 : s[i] # "@"
      BY <3>1, <3>2 DEF Cuts, AfterUser
    <3>4. k3 - 1 \in k1 .. k2
      BY <1>2, <3>3
    <3>5. k3 - 1 \in c1 + 1 .. c2
      BY <2>1, <3>3, <3>4
    <3>6. c2 \notin k3 .. k2
      BY <3>1, <3>3
    <3>7. k3 = c2 + 1
      BY <1>1, <1>2, <3>2, <3>5, <3>6
    <3>. QED  BY <1>1, <1>2, <1>4, <3>2, <3>7
  <2>. QED  BY <2>2, <2>3
<1>6. \A i \in 1 .. n : s[i] # Space => (i \in k3 .. k4 <=> i \in c2 + 1 .. c3)
  <2>1. \A i \in k3 .. k2 : s[i] # Space => i \in 1 .. n /\ i \in c2 + 1 .. c4
    <3>. TAKE i \in k3 .. k2
    <3>1. i \in 1 .. n
      BY <1>1, <1>2
    <3>. QED  BY <1>5, <3>1
  <2>2. \A i \in k3 .. k2 : s[i] # "]"
    <3>1. \A i \in c2 + 1 .. c4 : s[i] # "]"
      BY DEF Around
    <3>. QED  BY <2>1, <3>1
  <2>3. \A i \in c2 + 1 .. c3 : s[i] # ":"
    BY DEF Around
  <2>4. CASE \A i \in c3 + 1 .. c4 : s[i] = Space
    <3>1. \A i \in k3 .. k2 : s[i] # ":"
      BY <1>1, <2>1, <2>3, <2>4
    <3>2. k4 = k2
      <4>1. k4 \in k3 - 1 .. k2 - 1 => k4 + 1 \in k3 .. k2
        BY <1>2
      <4>. QED  BY <3>1, <4>1 DEF Cuts, BeforePort
    <3>. QED  BY <1>1, <1>5, <2>4, <3>2
  <2>5. CASE c4 > c3 + 1 /\ s[c3 + 1] = ":" /\ \A i \in c3 + 2 .. c4 : s[i] # ":"
    <3>1. c3 + 1 \in 1 .. n /\ c3 + 1 \in k3 .. k2
      BY <1>1, <1>5, <2>5
    <3>2. k4 \in k3 - 1 .. k2 - 1 /\ s[k4 + 1] = ":" /\ \A i \in k4 + 2 .. k2 : s[i] # ":"
      BY <2>2, <2>5, <3>1 DEF Cuts, BeforePort
    <3>3. k4 + 1 \in k3 .. k2
      BY <1>2, <3>2
    <3>4. k4 + 1 \in c2 + 1 .. c4
      BY <2>1, <3>2, <3>3
    <3>5. k4 + 1 = c3 + 1
      <4>1. k4 + 1 \notin c2 + 1 .. c3 /\ k4 + 1 \notin c3 + 2 .. c4
        BY <2>3, <2>5, <3>2
      <4>. QED  BY <1>1, <1>2, <3>4, <4>1
    <3>6. k4 = c3
      BY <1>1, <1>2, <3>5
    <3>. QED  BY <1>1, <1>2, <1>5, <3>1, <3>6
  <2>. QED  BY <2>4, <2>5 DEF Around
<1>. QED  BY <1>6 DEF Within, n

\* Whatever is cut away, the host is left.
LEMMA HostCleaned ==
    ASSUME NEW X, NEW s \in Seq(X), NEW c1, NEW c2, NEW c3, NEW c4,
           Around(s, c1, c2, c3, c4), OneScheme(s, c1, c4)
    PROVE  Clean(s) = Trim(SubSeq(s, c2 + 1, c3), Space)
<1>1. PICK a, b, k1, k2, k3, k4 :
          Cuts(s, a, b, k1, k2, k3, k4) /\ Clean(s) = Trim(SubSeq(s, k3, k4), Space)
  BY Cleaned
<1>2. Within(s, k3, k4, c2 + 1, c3)
  BY <1>1, HostLeft
<1>. DEFINE from == c2 + 1
<1>3. Span(s, k3, k4) /\ Span(s, from, c3)
  BY <1>1 DEF Cuts, Around, Span
<1>4. \A i \in 1 .. Len(s) : s[i] # Space => (i \in k3 .. k4 <=> i \in from .. c3)
  BY <1>2 DEF Within
<1>. HIDE DEF from
<1>5. Trim(SubSeq(s, k3, k4), Space) = Trim(SubSeq(s, from, c3), Space)
  BY <1>3, <1>4, SameTrimmed
<1>. QED  BY <1>1, <1>5 DEF from

\* s has t after its first from tokens.
Has(s, t, from) == from + Len(t) <= Len(s) /\ \A i \in 1 .. Len(t) : s[from + i] = t[i]

\* A concatenation has its second part behind the first, and all that the first has.
LEMMA Joined ==
    ASSUME NEW X, NEW s \in Seq(X), NEW u \in Seq(X)
    PROVE  /\ s \o u \in Seq(X)
           /\ Has(s \o u, u, Len(s))
           /\ \A t \in Seq(X), from \in Nat : Has(s, t, from) => Has(s \o u, t, from)
<1>1. /\ s \o u \in Seq(X) /\ Len(s \o u) = Len(s) + Len(u)
      /\ \A i \in 1 .. Len(s) + Len(u) : (s \o u)[i] = IF i <= Len(s) THEN s[i] ELSE u[i - Len(s)]
  BY ConcatProperties
<1>2. Len(s) \in Nat /\ Len(u) \in Nat
  OBVIOUS
<1>. DEFINE v == s \o u
<1>3. Has(v, u, Len(s))
  <2>1. \A i \in 1 .. Len(u) : /\ Len(s) + i \in 1 .. Len(s) + Len(u) /\ ~(Len(s) + i <= Len(s))
                               /\ Len(s) + i - Len(s) = i
    BY <1>2
  <2>2. \A i \in 1 .. Len(u) : v[Len(s) + i] = u[i]
    <3>. TAKE i \in 1 .. Len(u)
    <3>. DEFINE k == Len(s) + i
    <3>1. k \in 1 .. Len(s) + Len(u) /\ ~(k <= Len(s)) /\ k - Len(s) = i
      BY <2>1
    <3>. HIDE DEF k
    <3>2. v[k] = u[k - Len(s)]
      BY <1>1, <3>1
    <3>. QED  BY <3>1, <3>2 DEF k
  <2>. HIDE DEF v
  <2>. QED  BY <1>1, <1>2, <2>2 DEF Has, v
<1>4. ASSUME NEW t \in Seq(X), NEW from \in Nat, Has(s, t, from) PROVE Has(v, t, from)
  <2>1. Len(t) \in Nat /\ from + Len(t) <= Len(s)
    BY <1>4 DEF Has
  <2>2. \A i \in 1 .. Len(t) : v[from + i] = t[i]
    <3>. TAKE i \in 1 .. Len(t)
    <3>. DEFINE k == from + i
    <3>1. k \in 1 .. Len(s) + Len(u) /\ k <= Len(s)
      BY <1>2, <2>1
    <3>2. s[k] = t[i]
      BY <1>4 DEF Has
    <3>. HIDE DEF k
    <3>3. v[k] = s[k]
      BY <1>1, <3>1
    <3>. QED  BY <3>2, <3>3 DEF k
  <2>3. from + Len(t) <= Len(v)
    BY <1>1, <1>2, <2>1
  <2>. QED  BY <2>2, <2>3 DEF Has
<1>. QED  BY <1>1, <1>3, <1>4 DEF v

\* What a text has is a part of it.
LEMMA PartThatItHas ==
    ASSUME NEW X, NEW s \in Seq(X), NEW t \in Seq(X), NEW from \in Nat, Has(s, t, from)
    PROVE  SubSeq(s, from + 1, from + Len(t)) = t
<1>. DEFINE a == from + 1
            b == from + Len(t)
            u == SubSeq(s, a, b)
<1>1. Len(t) \in Nat /\ Len(s) \in Nat /\ b <= Len(s)
  BY DEF Has
<1>2. Span(s, a, b) /\ b - a + 1 = Len(t)
  BY <1>1 DEF Span
<1>3. u \in Seq(X) /\ Len(u) = b - a + 1 /\ Copies(u, s, a)
  <2>. HIDE DEF a, b
  <2>. QED  BY <1>2, PartOfText
<1>. HIDE DEF u
<1>4. \A i \in 1 .. Len(t) : u[i] = t[i]
  <2>. TAKE i \in 1 .. Len(t)
  <2>1. a + i - 1 = from + i
    BY <1>1
  <2>2. u[i] = s[a + i - 1]
    <3>1. i \in 1 .. Len(u)
      BY <1>2, <1>3
    <3>. HIDE DEF a
    <3>. QED  BY <1>3, <3>1 DEF Copies
  <2>. QED  BY <2>1, <2>2 DEF Has
<1>5. Len(u) = Len(t)
  BY <1>2, <1>3
<1>6. u = t
  BY <1>3, <1>4, <1>5, SeqEqual
<1>. QED  BY <1>6 DEF u

Ends(t, s) == Len(s) <= Len(t) /\ Has(t, s, Len(t) - Len(s))

\* IsSuffix, by places.
LEMMA SuffixEnds ==
    ASSUME NEW X, NEW s \in Seq(X), NEW t \in Seq(X)
    PROVE  IsSuffix(s, t) <=> Ends(t, s)
<1>. DEFINE m == Len(s)
            n == Len(t)
            r == Reverse(s)
            q == Reverse(t)
<1>1. m \in Nat /\ n \in Nat
  OBVIOUS
<1>2. /\ r \in Seq(X) /\ Len(r) = m /\ \A i \in 1 .. m : r[i] = s[m - i + 1]
      /\ q \in Seq(X) /\ Len(q) = n /\ \A i \in 1 .. n : q[i] = t[n - i + 1]
  <2>1. \A i \in 1 .. m : m - i + 1 \in 1 .. m
    BY <1>1
  <2>2. \A i \in 1 .. n : n - i + 1 \in 1 .. n
    BY <1>1
  <2>. QED  BY <1>1, <2>1, <2>2 DEF Reverse
<1>3. IsSuffix(s, t) <=> m <= n /\ SubSeq(r, 1, m) = SubSeq(q, 1, m)
  <2>. HIDE DEF r, q
  <2>. QED  BY <1>2 DEF IsSuffix, IsPrefix, r, q
<1>. HIDE DEF r, q
<1>4. ASSUME m <= n
      PROVE  SubSeq(r, 1, m) = SubSeq(q, 1, m) <=> \A i \in 1 .. m : r[i] = q[i]
  <2>1. SubSeq(r, 1, m) = r
    BY <1>2, WholeText
  <2>2. Span(q, 1, m)
    BY <1>1, <1>2, <1>4 DEF Span
  <2>3. SubSeq(q, 1, m) \in Seq(X) /\ Len(SubSeq(q, 1, m)) = m - 1 + 1 /\ Copies(SubSeq(q, 1, m), q, 1)
    <3>. HIDE DEF m
    <3>. QED  BY <1>2, <2>2, PartOfText
  <2>. DEFINE u == SubSeq(q, 1, m)
  <2>4. Len(u) = m /\ u \in Seq(X) /\ \A i \in 1 .. m : u[i] = q[i]
    <3>1. \A i \in 1 .. m : 1 + i - 1 = i
      OBVIOUS
    <3>. HIDE DEF u
    <3>. QED  BY <1>1, <2>3, <3>1 DEF Copies, u
  <2>5. r = u <=> \A i \in 1 .. m : r[i] = q[i]
    <3>. HIDE DEF u
    <3>1. (\A i \in 1 .. m : r[i] = q[i]) => r = u
      BY <1>2, <2>4, SeqEqual
    <3>. QED  BY <2>4, <3>1
  <2>. QED  BY <2>1, <2>5
<1>5. ASSUME m <= n
      PROVE  (\A i \in 1 .. m : r[i] = q[i]) <=> \A i \in 1 .. m : t[n - m + i] = s[i]
  <2>1. \A i \in 1 .. m : r[i] = s[m - i + 1] /\ q[i] = t[n - i + 1]
    BY <1>1, <1>2, <1>5
  <2>2. ASSUME \A i \in 1 .. m : r[i] = q[i], NEW i \in 1 .. m PROVE t[n - m + i] = s[i]
    <3>1. m - i + 1 \in 1 .. m /\ m - (m - i + 1) + 1 = i /\ n - (m - i + 1) + 1 = n - m + i
      BY <1>1
    <3>. HIDE DEF m, n
    <3>. QED  BY <2>1, <2>2, <3>1
  <2>3. ASSUME \A i \in 1 .. m : t[n - m + i] = s[i], NEW i \in 1 .. m PROVE r[i] = q[i]
    <3>1. m - i + 1 \in 1 .. m /\ n - m + (m - i + 1) = n - i + 1
      BY <1>1
    <3>2. t[n - m + (m - i + 1)] = s[m - i + 1]
      BY <2>3, <3>1
    <3>. QED  BY <2>1, <3>1, <3>2
  <2>. QED  BY <2>2, <2>3
<1>. QED  BY <1>1, <1>3, <1>4, <1>5 DEF Ends, Has

\* What a text ends in follows on what is before it.
LEMMA EndsSplit ==
    ASSUME NEW X, NEW s \in Seq(X), NEW t \in Seq(X), Ends(t, s)
    PROVE  t = SubSeq(t, 1, Len(t) - Len(s)) \o s
<1>. DEFINE k == Len(t) - Len(s)
            u == SubSeq(t, 1, k)
            v == u \o s
<1>1. k \in Nat /\ Len(t) \in Nat /\ Len(s) \in Nat /\ k + Len(s) = Len(t)
  BY DEF Ends
<1>2. Span(t, 1, k)
  BY <1>1 DEF Span
<1>3. u \in Seq(X) /\ Len(u) = k /\ \A i \in 1 .. k : u[i] = t[i]
  <2>1. u \in Seq(X) /\ Len(u) = k - 1 + 1 /\ Copies(u, t, 1)
    <3>. HIDE DEF k
    <3>. QED  BY <1>2, PartOfText
  <2>. HIDE DEF u, k
  <2>2. Len(u) = k
    BY <1>1, <2>1
  <2>3. \A i \in 1 .. k : 1 + i - 1 = i
    OBVIOUS
  <2>4. \A i \in 1 .. k : u[i] = t[i]
    BY <2>1, <2>2, <2>3 DEF Copies
  <2>. QED  BY <2>1, <2>2, <2>4
<1>. HIDE DEF u
<1>4. /\ v \in Seq(X) /\ Len(v) = k + Len(s)
      /\ \A i \in 1 .. k + Len(s) : v[i] = IF i <= k THEN u[i] ELSE s[i - k]
  <2>. HIDE DEF k
  <2>. QED  BY <1>3, ConcatProperties
<1>5. \A i \in 1 .. Len(t) : t[i] = v[i]
  <2>. TAKE i \in 1 .. Len(t)
  <2>1. CASE i <= k
    <3>1. i \in 1 .. k /\ i \in 1 .. k + Len(s)
      BY <1>1, <2>1
    <3>. HIDE DEF v, k
    <3>. QED  BY <1>3, <1>4, <2>1, <3>1
  <2>2. CASE ~(i <= k)
    <3>1. i - k \in 1 .. Len(s) /\ k + (i - k) = i /\ i \in 1 .. k + Len(s)
      BY <1>1, <2>2
    <3>2. t[k + (i - k)] = s[i - k]
      BY <3>1 DEF Ends, Has
    <3>. HIDE DEF v, k
    <3>. QED  BY <1>4, <2>2, <3>1, <3>2
  <2>. QED  BY <2>1, <2>2
<1>6. t = v
  <2>. HIDE DEF v, k
  <2>. QED  BY <1>1, <1>4, <1>5, SeqEqual
<1>. QED  BY <1>6 DEF u

\* A concatenation ends in its second part.
LEMMA EndsJoined ==
    ASSUME NEW X, NEW u \in Seq(X), NEW s \in Seq(X)
    PROVE  Ends(u \o s, s)
<1>1. Has(u \o s, s, Len(u))
  BY Joined
<1>2. Len(u \o s) = Len(u) + Len(s) /\ Len(u) \in Nat /\ Len(s) \in Nat
  BY ConcatProperties
<1>3. Len(u \o s) - Len(s) = Len(u) /\ Len(s) <= Len(u \o s)
  BY <1>2
<1>. QED  BY <1>1, <1>3 DEF Ends

\* A text ends in what is behind any of its places.
LEMMA EndsBehind ==
    ASSUME NEW X, NEW s \in Seq(X), NEW k \in 0 .. Len(s)
    PROVE  /\ Behind(s, k) \in Seq(X)
           /\ Len(Behind(s, k)) = Len(s) - k
           /\ Has(s, Behind(s, k), k)
           /\ Ends(s, Behind(s, k))
<1>. DEFINE a == k + 1
            n == Len(s)
            u == SubSeq(s, a, n)
<1>1. n \in Nat /\ Behind(s, k) = u
  BY DEF Behind
<1>2. Span(s, a, n)
  BY <1>1 DEF Span
<1>3. u \in Seq(X) /\ Len(u) = n - a + 1 /\ Copies(u, s, a)
  <2>. HIDE DEF a, n
  <2>. QED  BY <1>2, PartOfText
<1>. HIDE DEF u
<1>4. Len(u) = n - k /\ n - Len(u) = k
  BY <1>1, <1>3
<1>5. \A i \in 1 .. Len(u) : s[k + i] = u[i]
  <2>1. \A i \in 1 .. Len(u) : a + i - 1 = k + i
    BY <1>1
  <2>2. \A i \in 1 .. Len(u) : u[i] = s[a + i - 1]
    BY <1>3 DEF Copies
  <2>. QED  BY <2>1, <2>2
<1>6. Has(s, u, k)
  BY <1>1, <1>4, <1>5 DEF Has
<1>7. Ends(s, u)
  BY <1>1, <1>4, <1>6 DEF Ends
<1>. QED  BY <1>1, <1>3, <1>4, <1>6, <1>7

\* Of two texts that another ends in, the longer one ends in the shorter one.
LEMMA EndsInShorter ==
    ASSUME NEW X, NEW s \in Seq(X), NEW t \in Seq(X), NEW u \in Seq(X),
           Ends(s, t), Ends(s, u), Len(u) <= Len(t)
    PROVE  Ends(t, u)
<1>. DEFINE n == Len(s)
            m == Len(t)
            l == Len(u)
<1>1. n \in Nat /\ m \in Nat /\ l \in Nat /\ l <= m /\ m <= n
  BY DEF Ends
<1>2. /\ \A i \in 1 .. m : s[n - m + i] = t[i]
      /\ \A i \in 1 .. l : s[n - l + i] = u[i]
  BY DEF Ends, Has
<1>. HIDE DEF n, m, l
<1>3. \A i \in 1 .. l : t[m - l + i] = u[i]
  <2>. TAKE i \in 1 .. l
  <2>1. m - l + i \in 1 .. m /\ n - m + (m - l + i) = n - l + i
    BY <1>1
  <2>2. s[n - m + (m - l + i)] = t[m - l + i]
    BY <1>2, <2>1
  <2>3. s[n - l + i] = u[i]
    BY <1>2
  <2>. QED  BY <2>1, <2>2, <2>3
<1>4. m - l + l <= m
  BY <1>1
<1>. QED  BY <1>1, <1>3, <1>4 DEF Ends, Has, m, l

-----------------------------------------------------------------------------
(* Names in their canonical form *)

Canonical == Seq(Pieces \cup {"-", "."})

\* A canonical name has no token that cleaning or conversion would change.
LEMMA CanonicalTokens ==
    /\ \A x \in Pieces \cup {"-", "."} : x \notin {Space, Underscore, ":", "/", "@", "]"}
    /\ \A x \in Pieces \cup {"-", "."} : x \in Typed => Ascii[x] = x
    /\ Pieces \cup {"-", "."} \subseteq Typed \cup Marks
    /\ "-" \notin Pieces /\ "." \notin Pieces
BY NamesAssumption, SpaceApart DEF Marks

\* A canonical name is a text.
LEMMA CanonicalTyped ==
    ASSUME NEW s \in Canonical
    PROVE  s \in Text /\ DOMAIN s = 1 .. Len(s) /\ Len(s) \in Nat
           /\ \A i \in 1 .. Len(s) : s[i] \in Pieces \cup {"-", "."}
BY CanonicalTokens DEF Canonical, Text

\* Canonical names can be joined, in any order of joining.
LEMMA CanonicalJoined ==
    \A a, b, c \in Canonical : a \o b \in Canonical /\ (a \o b) \o c = a \o (b \o c)
<1>1. \A a, b \in Canonical : a \o b \in Canonical
  BY ConcatProperties DEF Canonical
<1>2. \A a, b, c \in Canonical : (a \o b) \o c = a \o (b \o c)
  <2>. DEFINE X == Pieces \cup {"-", "."}
  <2>1. SUFFICES ASSUME NEW a \in Seq(X), NEW b \in Seq(X), NEW c \in Seq(X)
                 PROVE  (a \o b) \o c = a \o (b \o c)
    BY DEF Canonical
  <2>. HIDE DEF X
  <2>. QED  BY ConcatAssociative
<1>. QED  BY <1>1, <1>2

\* Cleaning leaves a canonical name as it is.
LEMMA CanonicalCleaned ==
    ASSUME NEW s \in Canonical
    PROVE  Clean(s) = s
<1>. DEFINE n == Len(s)
            none == 0
<1>1. /\ s \in Text /\ n \in Nat
      /\ \A i \in 1 .. n : s[i] \notin {Space, ":", "/", "@", "]"}
  BY CanonicalTyped, CanonicalTokens
<1>2. n \in none .. n /\ none \in 0 .. n /\ none \in none .. n /\ n \in n .. n /\ none + 1 = 1
  BY <1>1
<1>3. Around(s, none, none, n, n)
  <2>1. \A i : i \notin 1 .. 0
    OBVIOUS
  <2>2. \A i : i \notin n + 1 .. n
    BY <1>1
  <2>. QED  BY <1>1, <1>2, <2>1, <2>2 DEF Around
<1>4. OneScheme(s, none, n)
  <2>1. \A i : i \notin n + 1 .. n - 2
    BY <1>1
  <2>. QED  BY <2>1 DEF OneScheme
<1>5. Clean(s) = Trim(SubSeq(s, none + 1, n), Space)
  <2>. HIDE DEF none, n
  <2>. QED  BY <1>1, <1>3, <1>4, HostCleaned DEF Text
<1>6. SubSeq(s, 1, n) = s
  BY <1>1, WholeText DEF Text
<1>7. Trim(s, Space) = s
  <2>1. PICK a, b : Leaves(s, Space, a, b) /\ Trim(s, Space) = SubSeq(s, a, b)
    BY <1>1, Trimmed DEF Text
  <2>2. a \in 1 .. n + 1 /\ b \in a - 1 .. n /\ \A i \in 1 .. n : i \in a .. b
    BY <1>1, <2>1 DEF Leaves, Span
  <2>3. CASE n = 0
    <3>1. a = 1 /\ b = n
      BY <1>1, <2>1, <2>2, <2>3 DEF Leaves
    <3>. QED  BY <2>1, <3>1, <1>6
  <2>4. CASE n # 0
    <3>1. 1 \in a .. b /\ n \in a .. b
      BY <1>1, <2>2, <2>4
    <3>2. a = 1 /\ b = n
      BY <1>1, <2>2, <3>1
    <3>. QED  BY <2>1, <3>2, <1>6
  <2>. QED  BY <2>3, <2>4
<1>. QED  BY <1>2, <1>5, <1>6, <1>7

\* So does the conversion.
LEMMA CanonicalConverted ==
    ASSUME NEW s \in Canonical
    PROVE  Convert(s) = s
<1>1. DOMAIN s = 1 .. Len(s) /\ \A i \in DOMAIN s : s[i] \in Pieces \cup {"-", "."}
  BY CanonicalTyped
<1>2. \A i \in DOMAIN s : (IF s[i] \in Typed THEN Ascii[s[i]] ELSE s[i]) = s[i]
  BY <1>1, CanonicalTokens
<1>3. s = [i \in DOMAIN s |-> s[i]]
  BY DEF Canonical
<1>. QED  BY <1>2, <1>3 DEF Convert

Accepted(ascii) ==
    /\ ascii # <<>>
    /\ WellFormed(ascii)
    /\ Contains(ascii, ".")
    /\ SuffixOf(ascii) # ascii

\* What Parse looks at: the ascii form of what is left of its input.
Undotted(s) == IF IsSuffix(Dot, s) THEN Front(s) ELSE s

\* Parse depends on its input only by what cleaning leaves of it.
LEMMA ParseLooks ==
    \A x : Parse(x) = IF Accepted(Convert(Undotted(Clean(x))))
                      THEN NameOf(Convert(Undotted(Clean(x)))) ELSE Invalid
BY DEF Parse, Accepted, Undotted, Clean

\* Trimming a sequence leaves a sequence of the same tokens.
LEMMA TrimTyped ==
    ASSUME NEW X, NEW s \in Seq(X), NEW x
    PROVE  Trim(s, x) \in Seq(X)
<1>1. PICK a, b : Leaves(s, x, a, b) /\ Trim(s, x) = SubSeq(s, a, b)
  BY Trimmed
<1>2. Span(s, a, b)
  BY <1>1 DEF Leaves
<1>. QED  BY <1>1, <1>2, PartOfText

\* Cleaning a text leaves a text.
LEMMA CleanTyped ==
    ASSUME NEW s \in Text
    PROVE  Undotted(Clean(s)) \in Text
<1>1. PICK a, b, k1, k2, k3, k4 :
          Cuts(s, a, b, k1, k2, k3, k4) /\ Clean(s) = Trim(SubSeq(s, k3, k4), Space)
  BY Cleaned DEF Text
<1>2. SubSeq(s, k3, k4) \in Text
  BY <1>1, PartOfText DEF Cuts, Text
<1>3. Clean(s) \in Text
  BY <1>1, <1>2, TrimTyped DEF Text
<1>. DEFINE t == Clean(s)
<1>. HIDE DEF t
<1>4. t \in Text
  BY <1>3 DEF t
<1>5. CASE IsSuffix(Dot, t)
  <2>1. Dot \in Text /\ Len(Dot) = 1
    BY DEF Dot, Text, Marks
  <2>2. Ends(t, Dot)
    BY <1>4, <1>5, <2>1, SuffixEnds DEF Text
  <2>3. Len(t) >= 1 /\ Len(t) \in Nat
    BY <1>4, <2>1, <2>2 DEF Ends, Text
  <2>. DEFINE n == Len(t) - 1
  <2>4. Span(t, 1, n)
    BY <2>3 DEF Span
  <2>5. SubSeq(t, 1, n) \in Text
    <3>. HIDE DEF n
    <3>. QED  BY <1>4, <2>4, PartOfText DEF Text
  <2>. QED  BY <1>5, <2>5 DEF Undotted, Front, t
<1>. QED  BY <1>4, <1>5 DEF Undotted, t

\* What converts to accepted tokens is a canonical name.
LEMMA ConvertTyped ==
    ASSUME NEW s \in Text
    PROVE  /\ Convert(s) \in Text /\ Len(Convert(s)) = Len(s)
           /\ ToSet(Convert(s)) \subseteq Pieces \cup {"-", "."} => Convert(s) \in Canonical
<1>1. /\ Len(s) \in Nat /\ DOMAIN s = 1 .. Len(s)
      /\ \A i \in 1 .. Len(s) : s[i] \in Typed \cup Marks
  BY DEF Text
<1>. DEFINE c == Convert(s)
<1>2. /\ DOMAIN c = 1 .. Len(s)
      /\ c = [i \in 1 .. Len(s) |-> c[i]]
      /\ \A i \in 1 .. Len(s) : c[i] = IF s[i] \in Typed THEN Ascii[s[i]] ELSE s[i]
  BY <1>1 DEF Convert
<1>3. \A i \in 1 .. Len(s) : c[i] \in Typed \cup Marks
  BY <1>1, <1>2, NamesAssumption
<1>. HIDE DEF c
<1>4. c \in Text /\ Len(c) = Len(s)
  BY <1>1, <1>2, <1>3 DEF Text
<1>5. ASSUME ToSet(c) \subseteq Pieces \cup {"-", "."} PROVE c \in Canonical
  <2>1. \A i \in 1 .. Len(s) : c[i] \in Pieces \cup {"-", "."}
    BY <1>2, <1>5 DEF ToSet
  <2>. QED  BY <1>1, <1>2, <2>1 DEF Canonical
<1>. QED  BY <1>4, <1>5 DEF c

\* A name comes from an ascii form that is accepted ...
LEMMA ParseGives ==
    ASSUME NEW s \in Text, Parse(s) # Invalid
    PROVE  \E ascii \in Canonical : Accepted(ascii) /\ Parse(s) = NameOf(ascii)
<1>. DEFINE a == Convert(Undotted(Clean(s)))
<1>1. Accepted(a) /\ Parse(s) = NameOf(a)
  BY ParseLooks
<1>2. a \in Canonical
  <2>1. ToSet(a) \subseteq Pieces \cup {"-", "."}
    BY <1>1 DEF Accepted, WellFormed
  <2>. QED  BY <2>1, CleanTyped, ConvertTyped
<1>. QED  BY <1>1, <1>2

\* ... and that form stands for the name itself.
LEMMA ParseAccepted ==
    ASSUME NEW ascii \in Canonical, Accepted(ascii)
    PROVE  Parse(ascii) = NameOf(ascii) /\ NameOf(ascii) # Invalid
<1>1. ~IsSuffix(Dot, ascii)
  <2>1. Dot \in Canonical /\ Len(Dot) = 1 /\ Dot[1] = "."
    BY DEF Dot, Canonical
  <2>. SUFFICES ASSUME Ends(ascii, Dot) PROVE FALSE
    BY <2>1, SuffixEnds DEF Canonical
  <2>2. Len(ascii) \in Nat /\ Len(ascii) - 1 + 1 = Len(ascii) /\ Len(ascii) >= 1
    BY <2>1, CanonicalTyped DEF Ends
  <2>3. ascii[Len(ascii) - 1 + 1] = "."
    BY <2>1 DEF Ends, Has
  <2>4. Len(ascii) \in DOMAIN ascii /\ ascii[Len(ascii)] = "."
    BY <2>2, <2>3, CanonicalTyped
  <2>. QED  BY <2>4 DEF Accepted, WellFormed
<1>2. Convert(Undotted(Clean(ascii))) = ascii
  BY <1>1, CanonicalCleaned, CanonicalConverted DEF Undotted
<1>3. NameOf(ascii) # Invalid
  BY DEF NameOf, Invalid
<1>. QED  BY <1>2, <1>3, ParseLooks

\* A name with a dot before it.
LEMMA Dotted ==
    ASSUME NEW t \in Canonical
    PROVE  /\ Dot \in Canonical /\ Len(Dot) = 1 /\ Dot[1] = "."
           /\ Dot \o t \in Canonical /\ Len(Dot \o t) = 1 + Len(t) /\ Len(t) \in Nat
           /\ \A i \in 1 .. 1 + Len(t) : (Dot \o t)[i] = IF i <= 1 THEN Dot[i] ELSE t[i - 1]
<1>1. Dot \in Canonical /\ Len(Dot) = 1 /\ Dot[1] = "."
  BY DEF Dot, Canonical
<1>2. /\ Dot \o t \in Canonical /\ Len(Dot \o t) = Len(Dot) + Len(t) /\ Len(t) \in Nat
      /\ \A i \in 1 .. Len(Dot) + Len(t) : (Dot \o t)[i] = IF i <= Len(Dot) THEN Dot[i] ELSE t[i - Len(Dot)]
  <2>1. Dot \in Seq(Pieces \cup {"-", "."}) /\ t \in Seq(Pieces \cup {"-", "."})
    BY <1>1 DEF Canonical
  <2>. QED  BY <2>1, ConcatProperties DEF Canonical
<1>. QED  BY <1>1, <1>2

\* The suffix of a name follows on a dot.
LEMMA SuffixFollows ==
    ASSUME NEW s \in Canonical, Accepted(s)
    PROVE  /\ SuffixOf(s) \in Canonical
           /\ Dot \o SuffixOf(s) \in Canonical
           /\ Ends(s, Dot \o SuffixOf(s))
<1>. DEFINE listed == {t \in PublicSuffixes : t = s \/ IsSuffix(Dot \o t, s)}
            k == LastOf(s, ".")
<1>1. Dot \in Canonical /\ Len(Dot) = 1 /\ Dot[1] = "."
  BY DEF Dot, Canonical
<1>2. Len(s) \in Nat /\ k \in 1 .. Len(s) /\ s[k] = "."
  <2>1. (k \in 1 .. Len(s) /\ s[k] = ".") \/ \A i \in 1 .. Len(s) : s[i] # "."
    BY LastPlace DEF Canonical
  <2>. QED  BY <2>1, CanonicalTyped DEF Accepted, Contains
<1>3. CASE listed = {}
  <2>. DEFINE t == Behind(s, k)
  <2>1. SuffixOf(s) = t
    BY <1>3 DEF SuffixOf, LastLabel
  <2>2. t \in Canonical /\ Len(t) = Len(s) - k /\ Has(s, t, k)
    <3>1. k \in 0 .. Len(s)
      BY <1>2
    <3>. HIDE DEF k
    <3>. QED  BY <3>1, EndsBehind DEF Canonical
  <2>. HIDE DEF t
  <2>3. /\ Dot \o t \in Canonical /\ Len(Dot \o t) = 1 + Len(t)
        /\ \A i \in 1 .. 1 + Len(t) : (Dot \o t)[i] = IF i <= 1 THEN Dot[i] ELSE t[i - 1]
    BY <2>2, Dotted
  <2>4. Len(s) - (1 + Len(t)) = k - 1 /\ 1 + Len(t) <= Len(s) /\ Len(t) \in Nat
    BY <1>2, <2>2
  <2>5. \A i \in 1 .. 1 + Len(t) : s[k - 1 + i] = (Dot \o t)[i]
    <3>. TAKE i \in 1 .. 1 + Len(t)
    <3>1. CASE i = 1
      <4>1. k - 1 + i = k
        BY <1>2, <3>1
      <4>. QED  BY <1>1, <1>2, <2>3, <3>1, <4>1
    <3>2. CASE i # 1
      <4>1. i - 1 \in 1 .. Len(t) /\ k + (i - 1) = k - 1 + i /\ ~(i <= 1)
        BY <1>2, <2>4, <3>2
      <4>2. s[k + (i - 1)] = t[i - 1]
        BY <2>2, <4>1 DEF Has
      <4>. QED  BY <2>3, <4>1, <4>2
    <3>. QED  BY <3>1, <3>2
  <2>6. Ends(s, Dot \o t)
    <3>. DEFINE u == Dot \o t
    <3>1. Len(u) = 1 + Len(t)
      BY <2>3
    <3>2. \A i \in 1 .. Len(u) : s[Len(s) - Len(u) + i] = u[i]
      BY <2>4, <2>5, <3>1
    <3>3. Len(s) - Len(u) + Len(u) <= Len(s) /\ Len(u) <= Len(s)
      BY <1>2, <2>4, <3>1
    <3>. HIDE DEF u
    <3>4. Ends(s, u)
      BY <3>2, <3>3 DEF Ends, Has
    <3>. QED  BY <3>4 DEF u
  <2>. QED  BY <2>1, <2>2, <2>3, <2>6
<1>4. CASE listed # {}
  <2>1. \A t \in listed : t \in Canonical /\ Len(t) \in 0 .. Len(s)
    <3>. SUFFICES ASSUME NEW t \in listed PROVE t \in Canonical /\ Len(t) \in 0 .. Len(s)
      OBVIOUS
    <3>1. t \in Canonical
      BY NamesAssumption DEF Canonical
    <3>2. CASE t = s
      BY <1>2, <3>1, <3>2
    <3>3. CASE t # s
      <4>1. IsSuffix(Dot \o t, s)
        BY <3>3
      <4>2. Dot \o t \in Canonical /\ Len(Dot \o t) = 1 + Len(t) /\ Len(t) \in Nat
        BY <3>1, Dotted
      <4>3. Ends(s, Dot \o t)
        BY <4>1, <4>2, SuffixEnds DEF Canonical
      <4>. QED  BY <1>2, <3>1, <4>2, <4>3 DEF Ends
    <3>. QED  BY <3>2, <3>3
  <2>. DEFINE lens == {Len(t) : t \in listed}
  <2>2. Max(lens) \in lens /\ \A l \in lens : l <= Max(lens)
    <3>1. lens \subseteq 0 .. Len(s) /\ lens # {}
      BY <1>4, <2>1
    <3>. HIDE DEF lens
    <3>. QED  BY <1>2, <3>1, GreatestIsGreatest
  <2>3. \E t \in listed : \A u \in listed : Len(u) <= Len(t)
    <3>1. PICK t \in listed : Max(lens) = Len(t)
      BY <2>2
    <3>2. \A u \in listed : Len(u) <= Max(lens)
      BY <2>2
    <3>. QED  BY <3>1, <3>2
  <2>4. SuffixOf(s) = CHOOSE t \in listed : \A u \in listed : Len(u) <= Len(t)
    BY <1>4 DEF SuffixOf
  <2>5. SuffixOf(s) \in listed
    <3>. HIDE DEF listed
    <3>. QED  BY <2>3, <2>4
  <2>6. SuffixOf(s) \in Canonical /\ IsSuffix(Dot \o SuffixOf(s), s)
    <3>1. SuffixOf(s) # s
      BY DEF Accepted
    <3>. QED  BY <2>1, <2>5, <3>1
  <2>7. Dot \o SuffixOf(s) \in Canonical
    BY <2>6, Dotted
  <2>. QED  BY <2>6, <2>7, SuffixEnds DEF Canonical
<1>. QED  BY <1>3, <1>4

\* A name ends in its last label.
LEMMA LastLabelEnds ==
    ASSUME NEW s \in Canonical
    PROVE  LastLabel(s) \in Canonical /\ Ends(s, LastLabel(s))
<1>. DEFINE k == LastOf(s, ".")
<1>1. k \in 0 .. Len(s)
  <2>1. k \in 1 .. Len(s) \/ k = 0
    BY LastPlace DEF Canonical
  <2>. QED  BY <2>1, CanonicalTyped
<1>2. Behind(s, k) \in Canonical /\ Ends(s, Behind(s, k))
  <2>. HIDE DEF k
  <2>. QED  BY <1>1, EndsBehind DEF Canonical
<1>. QED  BY <1>2 DEF LastLabel

\* Of a name in its canonical form: its suffix follows on its label, and its
\* TLD is what its suffix ends in.
LEMMA NameHolds ==
    ASSUME NEW s \in Canonical, Accepted(s)
    PROVE  /\ IsSuffix(NameOf(s).sld \o Dot \o NameOf(s).suffix, s)
           /\ IsSuffix(NameOf(s).tld, NameOf(s).suffix)
<1>. DEFINE X == Pieces \cup {"-", "."}
            suffix == SuffixOf(s)
            m == Len(s) - Len(suffix) - 1
            u == SubSeq(s, 1, m)
            sld == LastLabel(u)
            tld == LastLabel(s)
            k == LastOf(s, ".")
<1>1. /\ suffix \in Canonical /\ Dot \o suffix \in Canonical /\ Ends(s, Dot \o suffix)
      /\ Dot \in Canonical /\ Dot[1] = "." /\ Len(Dot \o suffix) = 1 + Len(suffix)
      /\ Len(suffix) \in Nat /\ (Dot \o suffix)[1] = "."
  <2>1. suffix \in Canonical /\ Dot \o suffix \in Canonical /\ Ends(s, Dot \o suffix)
    BY SuffixFollows
  <2>. HIDE DEF suffix
  <2>2. /\ Dot \in Canonical /\ Len(Dot) = 1 /\ Dot[1] = "."
        /\ Len(Dot \o suffix) = 1 + Len(suffix) /\ Len(suffix) \in Nat
        /\ \A i \in 1 .. 1 + Len(suffix) : (Dot \o suffix)[i] = IF i <= 1 THEN Dot[i] ELSE suffix[i - 1]
    BY <2>1, Dotted
  <2>3. (Dot \o suffix)[1] = "."
    BY <2>2
  <2>. QED  BY <2>1, <2>2, <2>3
<1>2. Len(s) \in Nat /\ m \in Nat /\ m + 1 \in 1 .. Len(s) /\ Len(s) - Len(Dot \o suffix) = m
  BY <1>1, CanonicalTyped DEF Ends
<1>3. u \in Canonical
  <2>1. Span(s, 1, m)
    BY <1>2 DEF Span
  <2>. HIDE DEF m
  <2>. QED  BY <2>1, PartOfText DEF Canonical
<1>4. s = u \o (Dot \o suffix)
  <2>. DEFINE t == Dot \o suffix
  <2>1. t \in Canonical /\ Ends(s, t) /\ Len(s) - Len(t) = m
    BY <1>1, <1>2
  <2>. HIDE DEF t
  <2>2. s = SubSeq(s, 1, Len(s) - Len(t)) \o t
    BY <2>1, EndsSplit DEF Canonical
  <2>. QED  BY <2>1, <2>2 DEF t
<1>. HIDE DEF suffix, u
<1>5. sld \in Canonical /\ Ends(u, sld)
  BY <1>3, LastLabelEnds
<1>. HIDE DEF sld
<1>6. IsSuffix(sld \o Dot \o suffix, s)
  <2>. DEFINE v == SubSeq(u, 1, Len(u) - Len(sld))
              t == sld \o Dot \o suffix
  <2>1. u = v \o sld
    BY <1>3, <1>5, EndsSplit DEF Canonical
  <2>2. v \in Canonical
    <3>. DEFINE l == Len(u) - Len(sld)
    <3>1. Span(u, 1, l)
      BY <1>3, <1>5, CanonicalTyped DEF Span, Ends
    <3>. HIDE DEF l
    <3>2. SubSeq(u, 1, l) \in Canonical
      BY <1>3, <3>1, PartOfText DEF Canonical
    <3>. QED  BY <3>2 DEF l
  <2>. HIDE DEF v
  <2>3. \A a, b, c \in Canonical : a \o b \in Canonical /\ (a \o b) \o c = a \o (b \o c)
    BY CanonicalJoined
  <2>4. sld \o Dot \in Canonical /\ t \in Canonical
    BY <1>1, <1>5, <2>3
  <2>5. t = sld \o (Dot \o suffix)
    <3>1. \A a, b, c \in Canonical : (a \o b) \o c = a \o (b \o c)
      BY ConcatAssociative DEF Canonical
    <3>2. sld \in Canonical /\ Dot \in Canonical /\ suffix \in Canonical
      BY <1>1, <1>5
    <3>. QED  BY <3>1, <3>2, Zenon
  <2>6. (v \o sld) \o (Dot \o suffix) = v \o (sld \o (Dot \o suffix))
    BY <1>1, <1>5, <2>2, <2>3
  <2>7. s = v \o t
    BY <1>4, <2>1, <2>5, <2>6
  <2>. HIDE DEF t
  <2>8. Ends(s, t)
    BY <2>2, <2>4, <2>7, EndsJoined DEF Canonical
  <2>9. IsSuffix(t, s)
    BY <2>4, <2>8, SuffixEnds DEF Canonical
  <2>. QED  BY <2>9 DEF t
<1>7. Ends(s, suffix)
  <2>1. \A a, b, c \in Canonical : a \o b \in Canonical /\ (a \o b) \o c = a \o (b \o c)
    BY CanonicalJoined
  <2>2. s = (u \o Dot) \o suffix /\ u \o Dot \in Canonical
    BY <1>1, <1>3, <1>4, <2>1
  <2>. QED  BY <1>1, <2>2, EndsJoined DEF Canonical
<1>8. k \in 1 .. Len(s) /\ k >= m + 1
  <2>1. \/ k = 0 /\ \A i \in 1 .. Len(s) : s[i] # "."
        \/ k \in 1 .. Len(s) /\ \A i \in k + 1 .. Len(s) : s[i] # "."
    BY LastPlace DEF Canonical
  <2>2. s[m + 1] = "."
    <3>1. 1 \in 1 .. Len(Dot \o suffix)
      BY <1>1
    <3>2. s[Len(s) - Len(Dot \o suffix) + 1] = (Dot \o suffix)[1]
      BY <1>1, <3>1 DEF Ends, Has
    <3>. QED  BY <1>1, <1>2, <3>2
  <2>. HIDE DEF m, k
  <2>. QED  BY <1>2, <2>1, <2>2
<1>9. tld \in Canonical /\ Ends(s, tld) /\ Len(tld) <= Len(suffix)
  <2>1. tld \in Canonical /\ Ends(s, tld)
    BY LastLabelEnds
  <2>2. Len(tld) = Len(s) - k
    <3>1. k \in 0 .. Len(s)
      BY <1>8
    <3>. HIDE DEF k
    <3>2. Len(Behind(s, k)) = Len(s) - k
      BY <3>1, EndsBehind DEF Canonical
    <3>. QED  BY <3>2 DEF k, LastLabel
  <2>3. Len(s) - k <= Len(suffix)
    <3>. HIDE DEF k
    <3>. QED  BY <1>1, <1>2, <1>8
  <2>. QED  BY <2>1, <2>2, <2>3
<1>10. IsSuffix(tld, suffix)
  <2>. HIDE DEF tld
  <2>1. Ends(suffix, tld)
    BY <1>1, <1>7, <1>9, EndsInShorter DEF Canonical
  <2>. QED  BY <1>1, <1>9, <2>1, SuffixEnds DEF Canonical
<1>. QED  BY <1>6, <1>10 DEF NameOf, suffix, m, u, sld, tld

\* The name that Parse returns stands for itself and holds its parts.
LEMMA NameIsCanonical ==
    ASSUME NEW s \in Text, Parse(s) # Invalid
    PROVE  LET name == Parse(s)
           IN  /\ name.ascii \in Canonical
               /\ Parse(name.ascii) = name
               /\ IsSuffix(name.sld \o Dot \o name.suffix, name.ascii)
               /\ IsSuffix(name.tld, name.suffix)
<1>1. PICK ascii \in Canonical : Accepted(ascii) /\ Parse(s) = NameOf(ascii)
  BY ParseGives
<1>2. Parse(ascii) = NameOf(ascii) /\ NameOf(ascii).ascii = ascii
  BY <1>1, ParseAccepted DEF NameOf
<1>. QED  BY <1>1, <1>2, NameHolds

-----------------------------------------------------------------------------
(* What a request is made of *)

Undottable == (Typed \cup Marks) \ {"."}

\* A label is a text.
LEMMA UndottedIsText == Seq(Undottable) \subseteq Text
BY DEF Undottable, Text

\* NormalizeLabel leaves no dot in a label.
LEMMA LabelTyped ==
    ASSUME NEW s \in Text
    PROVE  NormalizeLabel(s) \in Seq(Undottable)
<1>. DEFINE I == {i \in DOMAIN s : s[i] \notin {Space, "."}}
            kept == Kept(s, I)
            c == [i \in DOMAIN kept |->
                     IF kept[i] = Underscore THEN "-"
                     ELSE IF kept[i] \in Typed THEN Lower[kept[i]] ELSE kept[i]]
<1>1. kept \in Text /\ ToSet(kept) = {s[i] : i \in I}
  <2>1. I \subseteq DOMAIN s
    OBVIOUS
  <2>. HIDE DEF I
  <2>. QED  BY <2>1, WhatIsKept DEF Text
<1>2. NormalizeLabel(s) = Trim(c, "-")
  BY DEF NormalizeLabel
<1>3. \A i \in DOMAIN kept : kept[i] \in (Typed \cup Marks) \ {"."}
  <2>1. \A i \in DOMAIN kept : kept[i] \in ToSet(kept)
    BY DEF ToSet
  <2>2. \A i \in I : s[i] # "." /\ s[i] \in Typed \cup Marks
    BY DEF Text
  <2>. HIDE DEF kept, I
  <2>. QED  BY <1>1, <2>1, <2>2
<1>. HIDE DEF kept
<1>4. DOMAIN kept = 1 .. Len(kept) /\ Len(kept) \in Nat
  BY <1>1 DEF Text
<1>5. \A i \in DOMAIN kept : c[i] \in Undottable
  <2>1. "-" \in Marks /\ "-" # "." /\ "." \in Marks
    BY DEF Marks
  <2>2. \A x \in Typed : Lower[x] \in Typed /\ x # "."
    BY NamesAssumption, <2>1
  <2>. QED  BY <1>3, <2>1, <2>2 DEF Undottable
<1>6. c \in Seq(Undottable)
  BY <1>4, <1>5
<1>. HIDE DEF c
<1>. QED  BY <1>2, <1>6, TrimTyped

\* NormalizeTLD returns a canonical name, or nothing.
LEMMA TldTyped ==
    ASSUME NEW s \in Text
    PROVE  NormalizeTLD(s) \in Canonical
<1>. DEFINE t == Trim(s, Space)
            u == IF IsPrefix(Dot, t) THEN Tail(t) ELSE t
<1>1. t \in Text
  BY TrimTyped DEF Text
<1>. HIDE DEF t
<1>2. u \in Text
  <2>1. IsPrefix(Dot, t) => t # <<>>
    <3>1. Len(Dot) = 1 /\ Len(<<>>) = 0
      BY DEF Dot
    <3>. QED  BY <3>1 DEF IsPrefix
  <2>2. t # <<>> => Tail(t) \in Text
    BY <1>1 DEF Text
  <2>. QED  BY <1>1, <2>1, <2>2
<1>. HIDE DEF u
<1>3. NormalizeTLD(s) = IF ToSet(Convert(u)) \subseteq Pieces \cup {"-", "."} THEN Convert(u) ELSE <<>>
  BY DEF NormalizeTLD, t, u
<1>4. <<>> \in Canonical
  BY DEF Canonical
<1>. QED  BY <1>2, <1>3, <1>4, ConvertTyped

\* No registry has a name with a hyphen at the end of a label.
LEMMA HyphenBeforeDot ==
    ASSUME NEW s \in Text, NEW q \in 2 .. Len(s), s[q - 1] = "-", s[q] = ".",
           \A i \in 1 .. Len(s) : s[i] = "." => i = q
    PROVE  Parse(s) = Invalid
<1>. DEFINE c == Clean(s)
            e == Undotted(c)
            d == Convert(e)
<1>1. PICK a, b, k1, k2, k3, k4 :
          Cuts(s, a, b, k1, k2, k3, k4) /\ c = Trim(SubSeq(s, k3, k4), Space)
  BY Cleaned DEF Text
<1>2. Span(s, k3, k4) /\ Len(s) \in Nat /\ k3 \in Nat /\ k4 \in Nat
  BY <1>1 DEF Cuts, Span, Text
<1>3. q \in k3 .. k4 => q - 1 \in k3 .. k4
  <2>. SUFFICES ASSUME q \in k3 .. k4, q = k3 PROVE FALSE
    BY <1>2
  <2>1. k3 = k1 \/ s[k3 - 1] = "@"
    BY <1>1 DEF Cuts, AfterUser
  <2>2. k1 = a \/ MarkAt(s, k1 - 3)
    BY <1>1 DEF Cuts, AfterScheme
  <2>3. MarkAt(s, q - 3) => s[q - 1] = "/"
    <3>1. q - 3 + 2 = q - 1
      OBVIOUS
    <3>. QED  BY <3>1 DEF MarkAt
  <2>4. q - 1 \in 1 .. Len(s) /\ s[q - 1] # Space
    BY SpaceApart, <1>2
  <2>5. q - 1 \in a .. b
    BY <1>1, <2>4 DEF Cuts, Leaves
  <2>6. a # q
    <3>1. a \in Nat
      BY <1>1, <1>2 DEF Cuts, Leaves, Span
    <3>. QED  BY <2>5, <3>1
  <2>. QED  BY <2>1, <2>2, <2>3, <2>6
<1>4. Parse(s) = IF Accepted(d) THEN NameOf(d) ELSE Invalid
  BY ParseLooks
<1>5. /\ e \in Text /\ d \in Text /\ Len(d) = Len(e) /\ Len(e) \in Nat
      /\ \A i \in 1 .. Len(e) : (e[i] = "." <=> d[i] = ".") /\ (e[i] = "-" => d[i] = "-")
  <2>1. e \in Text
    BY CleanTyped
  <2>. HIDE DEF e
  <2>2. d \in Text /\ Len(d) = Len(e)
    BY <2>1, ConvertTyped
  <2>3. \A i \in 1 .. Len(e) : d[i] = IF e[i] \in Typed THEN Ascii[e[i]] ELSE e[i]
    BY <2>1 DEF Convert, Text
  <2>4. "." \notin Typed /\ "-" \notin Typed /\ \A x \in Typed : Ascii[x] # "."
    BY NamesAssumption, CanonicalTokens DEF Marks
  <2>5. Len(e) \in Nat
    BY <2>1 DEF Text
  <2>. HIDE DEF d
  <2>. QED  BY <2>1, <2>2, <2>3, <2>4, <2>5
<1>. HIDE DEF d, e, c
<1>6. e = IF IsSuffix(Dot, c) THEN SubSeq(c, 1, Len(c) - 1) ELSE c
  BY DEF e, Undotted, Front
<1>7. CASE Blanks(s, Space, k3, k4) /\ c = <<>>
  <2>1. Len(Dot) = 1 /\ Len(<<>>) = 0 /\ Dot \in Text /\ <<>> \in Text
    BY DEF Dot, Text, Marks
  <2>2. ~Ends(<<>>, Dot)
    BY <2>1 DEF Ends
  <2>3. ~IsSuffix(Dot, c)
    BY <1>7, <2>1, <2>2, SuffixEnds DEF Text
  <2>4. d = <<>>
    BY <1>5, <1>6, <1>7, <2>1, <2>3 DEF Text
  <2>. QED  BY <1>4, <2>4 DEF Accepted
<1>8. CASE \E f, l : Remains(s, Space, k3, k4, f, l) /\ c = SubSeq(s, f, l)
  <2>1. PICK f, l : Remains(s, Space, k3, k4, f, l) /\ c = SubSeq(s, f, l)
    BY <1>8
  <2>2. f \in k3 .. k4 /\ l \in f .. k4 /\ f \in Nat /\ l \in Nat
    BY <1>2, <2>1 DEF Remains
  <2>3. Span(s, f, l)
    BY <1>2, <2>2 DEF Span
  <2>4. c \in Text /\ Len(c) = l - f + 1 /\ Copies(c, s, f)
    BY <2>1, <2>3, PartOfText DEF Text
  <2>5. /\ Len(e) <= Len(c) /\ Len(c) <= Len(e) + 1
        /\ \A i \in 1 .. Len(e) : e[i] = c[i] /\ i \in 1 .. Len(c)
    <3>1. CASE ~IsSuffix(Dot, c)
      BY <1>5, <1>6, <2>4, <3>1
    <3>2. CASE IsSuffix(Dot, c)
      <4>. DEFINE n == Len(c) - 1
      <4>1. Span(c, 1, n) /\ n \in Nat
        BY <2>2, <2>4 DEF Span
      <4>2. e = SubSeq(c, 1, n)
        BY <1>6, <3>2
      <4>. HIDE DEF n
      <4>3. Len(e) = n - 1 + 1 /\ Copies(e, c, 1)
        BY <2>4, <4>1, <4>2, PartOfText DEF Text
      <4>4. Len(e) = n
        BY <4>1, <4>3
      <4>5. \A i \in 1 .. Len(e) : 1 + i - 1 = i
        BY <4>1, <4>4
      <4>6. \A i \in 1 .. Len(e) : e[i] = c[i]
        BY <4>3, <4>5 DEF Copies
      <4>7. Len(e) = Len(c) - 1
        BY <4>4 DEF n
      <4>. QED  BY <2>2, <2>4, <4>6, <4>7
    <3>. QED  BY <3>1, <3>2
  <2>6. \A i \in 1 .. Len(e) : e[i] = s[f + i - 1]
    BY <2>4, <2>5 DEF Copies
  <2>7. CASE q \notin f .. l
    <3>1. \A i \in 1 .. Len(e) : e[i] # "."
      <4>. TAKE i \in 1 .. Len(e)
      <4>1. f + i - 1 \in f .. l /\ f + i - 1 \in 1 .. Len(s)
        BY <1>2, <1>5, <2>2, <2>3, <2>4, <2>5 DEF Span
      <4>2. f + i - 1 # q
        BY <2>7, <4>1
      <4>3. s[f + i - 1] # "."
        BY <4>1, <4>2
      <4>. QED  BY <2>6, <4>3
    <3>2. ~Contains(d, ".")
      BY <1>5, <3>1 DEF Contains
    <3>. QED  BY <1>4, <3>2 DEF Accepted
  <2>8. CASE q \in f .. l
    <3>1. q - 1 \in f .. l
      <4>1. q - 1 \in k3 .. k4
        BY <1>2, <1>3, <2>2, <2>8
      <4>2. s[q - 1] # Space
        BY SpaceApart
      <4>. QED  BY <2>1, <4>1, <4>2 DEF Remains
    <3>. DEFINE i == q - f
    <3>2. i \in 1 .. Len(c) - 1 /\ f + i - 1 = q - 1 /\ f + (i + 1) - 1 = q
      BY <2>2, <2>4, <2>8, <3>1
    <3>3. i \in 1 .. Len(e)
      BY <1>5, <2>2, <2>4, <2>5, <3>2
    <3>4. e[i] = "-"
      <4>1. e[i] = s[f + i - 1]
        BY <2>6, <3>3
      <4>. QED  BY <3>2, <4>1
    <3>5. d[i] = "-" /\ i \in DOMAIN d
      BY <1>5, <3>3, <3>4 DEF Text
    <3>6. i # Len(e) => d[i + 1] = "."
      <4>. SUFFICES ASSUME i # Len(e) PROVE d[i + 1] = "."
        OBVIOUS
      <4>1. i + 1 \in 1 .. Len(e)
        BY <1>5, <3>3
      <4>2. e[i + 1] = s[f + (i + 1) - 1]
        BY <2>6, <4>1
      <4>3. e[i + 1] = "."
        BY <3>2, <4>2
      <4>. QED  BY <1>5, <4>1, <4>3
    <3>. HIDE DEF i
    <3>7. ~WellFormed(d)
      BY <1>5, <3>5, <3>6 DEF WellFormed
    <3>. QED  BY <1>4, <3>7 DEF Accepted
  <2>. QED  BY <2>7, <2>8
<1>9. \/ Blanks(s, Space, k3, k4) /\ c = <<>>
      \/ \E f, l : Remains(s, Space, k3, k4, f, l) /\ c = SubSeq(s, f, l)
  BY <1>1, <1>2, PartTrimmed DEF Text
<1>. QED  BY <1>7, <1>8, <1>9

\* The bases of a request are labels without a dot.
LEMMA BasesTyped ==
    ASSUME NEW texts \in Seq(Text)
    PROVE  Bases(texts) \in Seq(Seq(Undottable))
<1>. DEFINE labels == [i \in DOMAIN texts |-> NormalizeLabel(texts[i])]
            I == {i \in DOMAIN labels : labels[i] # <<>>}
<1>1. \A i \in DOMAIN texts : NormalizeLabel(texts[i]) \in Seq(Undottable)
  BY LabelTyped
<1>2. labels \in Seq(Seq(Undottable)) /\ I \subseteq DOMAIN labels
  <2>1. DOMAIN texts = 1 .. Len(texts) /\ Len(texts) \in Nat
    OBVIOUS
  <2>. QED  BY <1>1, <2>1
<1>3. Bases(texts) = Kept(labels, I)
  BY DEF Bases, Usable
<1>. HIDE DEF labels, I
<1>. QED  BY <1>2, <1>3, WhatIsKept

\* The TLDs of a request are canonical names and none is empty.
LEMMA TldsTyped ==
    ASSUME NEW texts \in Seq(Text)
    PROVE  /\ Tlds(texts) \in Seq(Canonical)
           /\ \A i \in DOMAIN Tlds(texts) : Tlds(texts)[i] # <<>>
<1>. DEFINE tlds == [i \in DOMAIN texts |-> NormalizeTLD(texts[i])]
            I == {i \in DOMAIN tlds : tlds[i] # <<>> /\ \A j \in 1 .. i - 1 : tlds[j] # tlds[i]}
<1>1. \A i \in DOMAIN texts : NormalizeTLD(texts[i]) \in Canonical
  BY TldTyped
<1>2. tlds \in Seq(Canonical) /\ I \subseteq DOMAIN tlds /\ \A i \in I : tlds[i] # <<>>
  <2>1. DOMAIN texts = 1 .. Len(texts) /\ Len(texts) \in Nat
    OBVIOUS
  <2>. QED  BY <1>1, <2>1
<1>3. Tlds(texts) = Kept(tlds, I)
  BY DEF Tlds, Unique
<1>. HIDE DEF tlds, I
<1>4. Tlds(texts) \in Seq(Canonical) /\ ToSet(Tlds(texts)) = {tlds[i] : i \in I}
  BY <1>2, <1>3, WhatIsKept
<1>5. \A i \in DOMAIN Tlds(texts) : Tlds(texts)[i] \in {tlds[i_1] : i_1 \in I}
  BY <1>4 DEF ToSet
<1>. QED  BY <1>2, <1>4, <1>5

-----------------------------------------------------------------------------
(* What a request expands to *)

TryType == [label : Seq(Undottable), tld : Canonical, tldRank : Nat,
            exactBase : BOOLEAN, hyphenated : BOOLEAN]

\* What a try is tried by.
TextOf(try) == try.label \o Dot \o try.tld

\* The sequences of one and of no element.
LEMMA SetOfOne ==
    \A X : /\ \A x \in X : <<x>> \in Seq(X) /\ ToSet(<<x>>) = {x}
           /\ <<>> \in Seq(X) /\ ToSet(<<>>) = {}
BY DEF ToSet

\* What a try is tried by: its label under its TLD.
LEMMA TryTyped ==
    ASSUME NEW label \in Seq(Undottable), NEW tld \in Canonical, NEW rank \in Nat,
           NEW exactBase \in BOOLEAN, NEW hyphenated \in BOOLEAN
    PROVE  /\ Try(label, tld, rank, exactBase, hyphenated) \in TryType
           /\ TextOf(Try(label, tld, rank, exactBase, hyphenated)) = label \o Dot \o tld
BY DEF Try, TryType, TextOf

\* The labels that are tried for two that are joined.
Joints(first, second, hyphenate) ==
    {first \o second} \cup IF hyphenate THEN {first \o <<"-">> \o second} ELSE {}

Texts(tries) == {TextOf(try) : try \in ToSet(tries)}

Under(L, tld) == {l \o Dot \o tld : l \in L}

\* The names under a TLD of two sets of labels.
LEMMA UnderBoth ==
    ASSUME NEW L, NEW M, NEW tld
    PROVE  Under(L \cup M, tld) = Under(L, tld) \cup Under(M, tld)
<1>1. \A x, K : x \in Under(K, tld) <=> \E l \in K : x = l \o Dot \o tld
  BY DEF Under
<1>2. \A x : x \in Under(L \cup M, tld) <=> x \in Under(L, tld) \cup Under(M, tld)
  <2>. TAKE x
  <2>. DEFINE N == L \cup M
  <2>1. x \in Under(N, tld) <=> \E l \in N : x = l \o Dot \o tld
    BY <1>1
  <2>2. x \in Under(L, tld) <=> \E l \in L : x = l \o Dot \o tld
    BY <1>1
  <2>3. x \in Under(M, tld) <=> \E l \in M : x = l \o Dot \o tld
    BY <1>1
  <2>. QED  BY <2>1, <2>2, <2>3
<1>. QED  BY <1>2

\* The names under a TLD of any sets of labels.
LEMMA UnderAll ==
    ASSUME NEW S, NEW tld
    PROVE  Under(UNION S, tld) = UNION {Under(L, tld) : L \in S}
<1>1. \A x, K : x \in Under(K, tld) <=> \E l \in K : x = l \o Dot \o tld
  BY DEF Under
<1>2. \A x : x \in Under(UNION S, tld) <=> x \in UNION {Under(L, tld) : L \in S}
  <2>. TAKE x
  <2>1. x \in Under(UNION S, tld) <=> \E l \in UNION S : x = l \o Dot \o tld
    BY <1>1
  <2>2. x \in UNION {Under(L, tld) : L \in S} <=> \E L \in S : x \in Under(L, tld)
    OBVIOUS
  <2>3. x \in UNION {Under(L, tld) : L \in S} <=> \E L \in S : \E l \in L : x = l \o Dot \o tld
    BY <1>1, <2>2
  <2>. QED  BY <2>1, <2>3
<1>. QED  BY <1>2

\* An affixed label is tried plainly, and with a hyphen if that is asked for.
LEMMA AffixedTexts ==
    ASSUME NEW first \in Seq(Undottable), NEW second \in Seq(Undottable), NEW tld \in Canonical,
           NEW rank \in Nat, NEW hyphenate \in BOOLEAN
    PROVE  /\ Affixed(first, second, tld, rank, hyphenate) \in Seq(TryType)
           /\ Texts(Affixed(first, second, tld, rank, hyphenate))
                = Under(Joints(first, second, hyphenate), tld)
<1>. DEFINE plain == first \o second
            joined == first \o <<"-">> \o second
            one == Try(plain, tld, rank, FALSE, FALSE)
            two == Try(joined, tld, rank, FALSE, TRUE)
            more == IF hyphenate THEN <<two>> ELSE <<>>
<1>1. plain \in Seq(Undottable) /\ joined \in Seq(Undottable)
  <2>1. <<"-">> \in Seq(Undottable)
    BY DEF Undottable, Marks
  <2>. QED  BY <2>1, ConcatProperties
<1>2. Affixed(first, second, tld, rank, hyphenate) = <<one>> \o more
  BY DEF Affixed
<1>. HIDE DEF plain, joined
<1>3. /\ one \in TryType /\ TextOf(one) = plain \o Dot \o tld
      /\ two \in TryType /\ TextOf(two) = joined \o Dot \o tld
  BY <1>1, TryTyped
<1>. HIDE DEF one, two
<1>4. more \in Seq(TryType) /\ ToSet(more) = IF hyphenate THEN {two} ELSE {}
  BY <1>3, SetOfOne
<1>5. <<one>> \in Seq(TryType) /\ ToSet(<<one>>) = {one}
  BY <1>3, SetOfOne
<1>. HIDE DEF more
<1>6. <<one>> \o more \in Seq(TryType) /\ ToSet(<<one>> \o more) = {one} \cup ToSet(more)
  <2>. DEFINE ones == <<one>>
  <2>1. ones \in Seq(TryType) /\ more \in Seq(TryType) /\ ToSet(ones) = {one}
    BY <1>4, <1>5
  <2>. HIDE DEF ones
  <2>2. ones \o more \in Seq(TryType) /\ ToSet(ones \o more) = ToSet(ones) \cup ToSet(more)
    BY <2>1, SetOfJoined
  <2>3. ToSet(ones \o more) = {one} \cup ToSet(more)
    BY <2>1, <2>2
  <2>. QED  BY <2>2, <2>3 DEF ones
<1>7. {TextOf(try) : try \in {one} \cup ToSet(more)} = Under(Joints(first, second, hyphenate), tld)
  <2>1. CASE hyphenate
    BY <1>3, <1>4, <2>1 DEF Joints, Under, plain, joined
  <2>2. CASE ~hyphenate
    BY <1>3, <1>4, <2>2 DEF Joints, Under, plain, joined
  <2>. QED  BY <2>1, <2>2
<1>. QED  BY <1>2, <1>6, <1>7 DEF Texts

\* Two sequences of tries are tried by what each is tried by.
LEMMA TextsJoined ==
    ASSUME NEW s \in Seq(TryType), NEW t \in Seq(TryType)
    PROVE  s \o t \in Seq(TryType) /\ Texts(s \o t) = Texts(s) \cup Texts(t)
<1>1. s \o t \in Seq(TryType) /\ ToSet(s \o t) = ToSet(s) \cup ToSet(t)
  BY SetOfJoined
<1>. QED  BY <1>1 DEF Texts

\* So are any number of them.
LEMMA TextsFlattened ==
    ASSUME NEW ss \in Seq(Seq(TryType))
    PROVE  /\ FlattenSeq(ss) \in Seq(TryType)
           /\ Texts(FlattenSeq(ss)) = UNION {Texts(ss[i]) : i \in DOMAIN ss}
<1>1. /\ FlattenSeq(ss) \in Seq(TryType)
      /\ ToSet(FlattenSeq(ss)) = UNION {ToSet(ss[i]) : i \in DOMAIN ss}
  BY Flattened
<1>. QED  BY <1>1 DEF Texts

IsRequest(req) ==
    /\ req.names \in Seq(Text) /\ req.tlds \in Seq(Text)
    /\ req.prefixes \in Seq(Text) /\ req.suffixes \in Seq(Text)
    /\ req.hyphenate \in BOOLEAN /\ req.hacks \in BOOLEAN

\* The labels that are tried for a base.
Prefixed(base, prefixes, hyphenate) == UNION {Joints(p, base, hyphenate) : p \in ToSet(prefixes)}
Suffixed(base, suffixes, hyphenate) == UNION {Joints(base, s, hyphenate) : s \in ToSet(suffixes)}
LabelsOf(base, req) ==
    {base} \cup Prefixed(base, Bases(req.prefixes), req.hyphenate)
           \cup Suffixed(base, Bases(req.suffixes), req.hyphenate)

\* A base is tried by each of its labels, under the TLD of that rank.
LEMMA VariantsTexts ==
    ASSUME NEW req, IsRequest(req), NEW base \in Seq(Undottable), NEW tlds \in Seq(Canonical),
           NEW rank \in DOMAIN tlds
    PROVE  /\ Variants(base, tlds, rank, req) \in Seq(TryType)
           /\ Texts(Variants(base, tlds, rank, req)) = Under(LabelsOf(base, req), tlds[rank])
<1>. DEFINE prefixes == Bases(req.prefixes)
            suffixes == Bases(req.suffixes)
            tld == tlds[rank]
            h == req.hyphenate
            one == <<Try(base, tld, rank, TRUE, FALSE)>>
            before == [i \in DOMAIN prefixes |-> Affixed(prefixes[i], base, tld, rank, h)]
            behind == [i \in DOMAIN suffixes |-> Affixed(base, suffixes[i], tld, rank, h)]
<1>1. /\ prefixes \in Seq(Seq(Undottable)) /\ suffixes \in Seq(Seq(Undottable))
      /\ h \in BOOLEAN /\ tld \in Canonical /\ rank \in Nat
  BY BasesTyped DEF IsRequest
<1>2. Variants(base, tlds, rank, req) = (one \o FlattenSeq(before)) \o FlattenSeq(behind)
  BY DEF Variants
<1>3. LabelsOf(base, req) = {base} \cup Prefixed(base, prefixes, h) \cup Suffixed(base, suffixes, h)
  BY DEF LabelsOf
<1>. HIDE DEF prefixes, suffixes, tld, h
<1>4. one \in Seq(TryType) /\ Texts(one) = Under({base}, tld)
  <2>. DEFINE try == Try(base, tld, rank, TRUE, FALSE)
  <2>1. try \in TryType /\ TextOf(try) = base \o Dot \o tld
    BY <1>1, TryTyped
  <2>. HIDE DEF try
  <2>2. <<try>> \in Seq(TryType) /\ ToSet(<<try>>) = {try}
    BY <2>1, SetOfOne
  <2>. QED  BY <2>1, <2>2 DEF Texts, Under, try
<1>5. /\ \A i \in DOMAIN prefixes : prefixes[i] \in Seq(Undottable)
      /\ \A i \in DOMAIN suffixes : suffixes[i] \in Seq(Undottable)
      /\ DOMAIN prefixes = 1 .. Len(prefixes) /\ Len(prefixes) \in Nat
      /\ DOMAIN suffixes = 1 .. Len(suffixes) /\ Len(suffixes) \in Nat
  BY <1>1
<1>6. \A i \in DOMAIN prefixes :
          /\ before[i] \in Seq(TryType)
          /\ Texts(before[i]) = Under(Joints(prefixes[i], base, h), tld)
  <2>. TAKE i \in DOMAIN prefixes
  <2>. DEFINE p == prefixes[i]
  <2>1. p \in Seq(Undottable) /\ before[i] = Affixed(p, base, tld, rank, h)
    BY <1>5
  <2>. HIDE DEF p, before
  <2>2. /\ Affixed(p, base, tld, rank, h) \in Seq(TryType)
        /\ Texts(Affixed(p, base, tld, rank, h)) = Under(Joints(p, base, h), tld)
    BY <1>1, <2>1, AffixedTexts
  <2>. QED  BY <2>1, <2>2 DEF p
<1>7. \A i \in DOMAIN suffixes :
          /\ behind[i] \in Seq(TryType)
          /\ Texts(behind[i]) = Under(Joints(base, suffixes[i], h), tld)
  <2>. TAKE i \in DOMAIN suffixes
  <2>. DEFINE p == suffixes[i]
  <2>1. p \in Seq(Undottable) /\ behind[i] = Affixed(base, p, tld, rank, h)
    BY <1>5
  <2>. HIDE DEF p, behind
  <2>2. /\ Affixed(base, p, tld, rank, h) \in Seq(TryType)
        /\ Texts(Affixed(base, p, tld, rank, h)) = Under(Joints(base, p, h), tld)
    BY <1>1, <2>1, AffixedTexts
  <2>. QED  BY <2>1, <2>2 DEF p
<1>8. before \in Seq(Seq(TryType)) /\ DOMAIN before = DOMAIN prefixes
      /\ behind \in Seq(Seq(TryType)) /\ DOMAIN behind = DOMAIN suffixes
  BY <1>5, <1>6, <1>7
<1>. HIDE DEF before, behind, one
<1>9. /\ FlattenSeq(before) \in Seq(TryType)
      /\ Texts(FlattenSeq(before)) = UNION {Texts(before[i]) : i \in DOMAIN before}
      /\ FlattenSeq(behind) \in Seq(TryType)
      /\ Texts(FlattenSeq(behind)) = UNION {Texts(behind[i]) : i \in DOMAIN behind}
  BY <1>8, TextsFlattened
<1>10. /\ one \o FlattenSeq(before) \in Seq(TryType)
       /\ Texts(one \o FlattenSeq(before)) = Texts(one) \cup Texts(FlattenSeq(before))
  BY <1>4, <1>9, TextsJoined
<1>11. /\ (one \o FlattenSeq(before)) \o FlattenSeq(behind) \in Seq(TryType)
       /\ Texts((one \o FlattenSeq(before)) \o FlattenSeq(behind))
            = Texts(one \o FlattenSeq(before)) \cup Texts(FlattenSeq(behind))
  BY <1>9, <1>10, TextsJoined
<1>12. Texts(FlattenSeq(before)) = Under(Prefixed(base, prefixes, h), tld)
  <2>. DEFINE S == {Joints(p, base, h) : p \in ToSet(prefixes)}
  <2>1. {Texts(before[i]) : i \in DOMAIN before} = {Under(L, tld) : L \in S}
    BY <1>6, <1>8 DEF ToSet
  <2>. HIDE DEF S
  <2>2. Under(UNION S, tld) = UNION {Under(L, tld) : L \in S}
    BY UnderAll
  <2>. QED  BY <1>9, <2>1, <2>2 DEF S, Prefixed
<1>13. Texts(FlattenSeq(behind)) = Under(Suffixed(base, suffixes, h), tld)
  <2>. DEFINE S == {Joints(base, p, h) : p \in ToSet(suffixes)}
  <2>1. {Texts(behind[i]) : i \in DOMAIN behind} = {Under(L, tld) : L \in S}
    BY <1>7, <1>8 DEF ToSet
  <2>. HIDE DEF S
  <2>2. Under(UNION S, tld) = UNION {Under(L, tld) : L \in S}
    BY UnderAll
  <2>. QED  BY <1>9, <2>1, <2>2 DEF S, Suffixed
<1>14. Texts(Variants(base, tlds, rank, req)) = Under(LabelsOf(base, req), tld)
  <2>. DEFINE L == Prefixed(base, prefixes, h)
              M == Suffixed(base, suffixes, h)
  <2>1. LabelsOf(base, req) = {base} \cup L \cup M
    BY <1>3
  <2>2. Texts(Variants(base, tlds, rank, req)) = Under({base}, tld) \cup Under(L, tld) \cup Under(M, tld)
    BY <1>2, <1>4, <1>10, <1>11, <1>12, <1>13
  <2>. HIDE DEF L, M
  <2>3. Under({base} \cup L \cup M, tld) = Under({base}, tld) \cup Under(L, tld) \cup Under(M, tld)
    <3>. DEFINE N == {base} \cup L
    <3>1. Under(N \cup M, tld) = Under(N, tld) \cup Under(M, tld)
      <4>. HIDE DEF N
      <4>. QED  BY UnderBoth
    <3>2. Under(N, tld) = Under({base}, tld) \cup Under(L, tld)
      BY UnderBoth
    <3>. QED  BY <3>1, <3>2
  <2>. QED  BY <2>1, <2>2, <2>3
<1>. QED  BY <1>2, <1>11, <1>14 DEF tld

\* IsStrictSuffix, by places and lengths.
LEMMA StrictSuffix ==
    ASSUME NEW X, NEW s \in Seq(X), NEW t \in Seq(X)
    PROVE  IsStrictSuffix(t, s) <=> Ends(s, t) /\ Len(t) < Len(s)
<1>1. Len(s) \in Nat /\ Len(t) \in Nat
  OBVIOUS
<1>2. IsStrictSuffix(t, s) <=> Ends(s, t) /\ s # t
  BY SuffixEnds DEF IsStrictSuffix
<1>3. ASSUME Ends(s, t), Len(t) = Len(s) PROVE s = t
  <2>1. \A i \in 1 .. Len(t) : s[i] = t[i]
    <3>1. \A i \in 1 .. Len(t) : Len(s) - Len(t) + i = i
      BY <1>1, <1>3
    <3>2. \A i \in 1 .. Len(t) : s[Len(s) - Len(t) + i] = t[i]
      BY <1>3 DEF Ends, Has
    <3>. QED  BY <3>1, <3>2
  <2>. QED  BY <1>3, <2>1, SeqEqual
<1>. QED  BY <1>1, <1>2, <1>3 DEF Ends

\* The first places of a sequence.
LEMMA BeforeTyped ==
    ASSUME NEW X, NEW s \in Seq(X), NEW n \in 0 .. Len(s)
    PROVE  /\ SubSeq(s, 1, n) \in Seq(X) /\ Len(SubSeq(s, 1, n)) = n
           /\ \A i \in 1 .. n : SubSeq(s, 1, n)[i] = s[i]
<1>. DEFINE u == SubSeq(s, 1, n)
<1>1. Len(s) \in Nat /\ n \in Nat /\ n <= Len(s)
  OBVIOUS
<1>2. Span(s, 1, n)
  BY <1>1 DEF Span
<1>3. u \in Seq(X) /\ Len(u) = n - 1 + 1 /\ Copies(u, s, 1)
  BY <1>2, PartOfText
<1>. HIDE DEF u
<1>4. Len(u) = n
  BY <1>1, <1>3
<1>5. \A i \in 1 .. n : 1 + i - 1 = i
  BY <1>1
<1>6. \A i \in 1 .. n : u[i] = s[i]
  BY <1>3, <1>4, <1>5 DEF Copies
<1>. QED  BY <1>3, <1>4, <1>6 DEF u

\* The domain that a base is, with a dot in it.
Split(base, n) == SubSeq(base, 1, n) \o Dot \o SubSeq(base, n + 1, Len(base))

\* A split base has its one dot behind its first part, and ends in the second.
LEMMA SplitHas ==
    ASSUME NEW base \in Seq(Undottable), NEW n \in 1 .. Len(base) - 1
    PROVE  LET rest == SubSeq(base, n + 1, Len(base))
               s == Split(base, n)
           IN  /\ rest \in Seq(Undottable) /\ Len(rest) = Len(base) - n /\ Ends(base, rest)
               /\ s \in Text /\ Len(s) = Len(base) + 1 /\ Ends(s, rest)
               /\ s[n] = base[n] /\ \A i \in 1 .. Len(s) : s[i] = "." <=> i = n + 1
<1>. DEFINE u == SubSeq(base, 1, n)
            w == SubSeq(base, n + 1, Len(base))
            v == u \o Dot
            s == v \o w
<1>1. Len(base) \in Nat /\ n \in Nat /\ n \in 0 .. Len(base) /\ n \in 1 .. n /\ n < Len(base)
  OBVIOUS
<1>2. /\ u \in Seq(Undottable) /\ Len(u) = n /\ u[n] = base[n]
  BY <1>1, BeforeTyped
<1>3. /\ w \in Seq(Undottable) /\ Len(w) = Len(base) - n /\ Ends(base, w)
  BY <1>1, EndsBehind DEF Behind
<1>. HIDE DEF u, w
<1>4. u \in Text /\ w \in Text /\ Dot \in Text /\ Len(Dot) = 1 /\ Dot[1] = "."
  BY <1>2, <1>3, UndottedIsText DEF Dot, Text, Marks
<1>5. \A i \in 1 .. n : u[i] # "."
  BY <1>2 DEF Undottable
<1>6. \A i \in 1 .. Len(base) - n : w[i] # "."
  BY <1>3 DEF Undottable
<1>7. /\ v \in Text /\ Len(v) = n + 1
      /\ \A i \in 1 .. n + 1 : v[i] = IF i <= n THEN u[i] ELSE Dot[i - n]
  <2>1. /\ v \in Text /\ Len(v) = Len(u) + Len(Dot)
        /\ \A i \in 1 .. Len(u) + Len(Dot) : v[i] = IF i <= Len(u) THEN u[i] ELSE Dot[i - Len(u)]
    BY <1>4, ConcatProperties DEF Text
  <2>. HIDE DEF v
  <2>. QED  BY <1>2, <1>4, <2>1
<1>. HIDE DEF v
<1>8. /\ s \in Text /\ Len(s) = Len(v) + Len(w) /\ Ends(s, w)
      /\ \A i \in 1 .. Len(v) + Len(w) : s[i] = IF i <= Len(v) THEN v[i] ELSE w[i - Len(v)]
  <2>1. /\ v \o w \in Text /\ Len(v \o w) = Len(v) + Len(w)
        /\ \A i \in 1 .. Len(v) + Len(w) :
              (v \o w)[i] = IF i <= Len(v) THEN v[i] ELSE w[i - Len(v)]
    BY <1>4, <1>7, ConcatProperties DEF Text
  <2>2. Ends(v \o w, w)
    BY <1>4, <1>7, EndsJoined DEF Text
  <2>. QED  BY <2>1, <2>2
<1>. HIDE DEF s
<1>9. Len(s) = Len(base) + 1
  BY <1>1, <1>3, <1>7, <1>8
<1>10. s[n] = base[n]
  <2>1. n \in 1 .. Len(v) + Len(w) /\ n <= Len(v) /\ n \in 1 .. n + 1
    BY <1>1, <1>3, <1>7
  <2>2. s[n] = v[n] /\ v[n] = u[n]
    BY <1>7, <1>8, <2>1
  <2>. QED  BY <1>2, <2>2
<1>11. ASSUME NEW i \in 1 .. Len(s) PROVE s[i] = "." <=> i = n + 1
  <2>1. i \in 1 .. Len(v) + Len(w)
    BY <1>8
  <2>2. CASE i <= n
    <3>1. i \in 1 .. n /\ i \in 1 .. n + 1 /\ i <= Len(v) /\ i # n + 1
      BY <1>1, <1>7, <2>1, <2>2
    <3>2. s[i] = v[i] /\ v[i] = u[i]
      BY <1>7, <1>8, <2>1, <2>2, <3>1
    <3>. QED  BY <1>5, <3>1, <3>2
  <2>3. CASE i = n + 1
    <3>1. i <= Len(v) /\ i \in 1 .. n + 1 /\ ~(i <= n) /\ i - n = 1
      BY <1>1, <1>7, <2>1, <2>3
    <3>2. s[i] = v[i] /\ v[i] = Dot[i - n]
      BY <1>7, <1>8, <2>1, <3>1
    <3>. QED  BY <1>4, <2>3, <3>1, <3>2
  <2>4. CASE i > n + 1
    <3>1. ~(i <= Len(v)) /\ i - Len(v) \in 1 .. Len(base) - n /\ i # n + 1
      BY <1>1, <1>3, <1>7, <2>1, <2>4
    <3>2. s[i] = w[i - Len(v)]
      BY <1>8, <2>1, <3>1
    <3>. QED  BY <1>6, <3>1, <3>2
  <2>. QED  BY <1>1, <2>1, <2>2, <2>3, <2>4
<1>. QED  BY <1>3, <1>8, <1>9, <1>10, <1>11 DEF Split, s, v, u, w

\* A base that is split behind a hyphen is no domain name.
LEMMA SplitHyphen ==
    ASSUME NEW base \in Seq(Undottable), NEW n \in 1 .. Len(base) - 1, base[n] = "-"
    PROVE  Parse(Split(base, n)) = Invalid
<1>. DEFINE s == Split(base, n)
            q == n + 1
<1>1. /\ s \in Text /\ Len(s) = Len(base) + 1 /\ s[n] = base[n]
      /\ \A i \in 1 .. Len(s) : s[i] = "." <=> i = n + 1
  BY SplitHas
<1>. HIDE DEF s
<1>2. Len(base) \in Nat /\ q \in 2 .. Len(s) /\ q - 1 = n /\ q \in 1 .. Len(s)
  BY <1>1
<1>3. /\ s[q - 1] = "-" /\ s[q] = "."
      /\ \A i \in 1 .. Len(s) : s[i] = "." => i = q
  BY <1>1, <1>2
<1>. HIDE DEF q
<1>4. Parse(s) = Invalid
  BY <1>1, <1>2, <1>3, HyphenBeforeDot
<1>. QED  BY <1>4 DEF s

\* A hack splits its base where the TLD begins.
LEMMA HackSplits ==
    ASSUME NEW base \in Seq(Undottable), NEW tld \in Canonical, tld # <<>>,
           IsStrictSuffix(tld, base)
    PROVE  LET n == Len(base) - Len(tld)
           IN  /\ n \in 1 .. Len(base) - 1
               /\ SubSeq(base, 1, n) \o Dot \o tld = Split(base, n)
               /\ SubSeq(base, n + 1, Len(base)) = tld
<1>. DEFINE n == Len(base) - Len(tld)
<1>1. base \in Text /\ tld \in Text /\ Len(base) \in Nat /\ Len(tld) \in Nat /\ Len(tld) # 0
  BY UndottedIsText, CanonicalTyped DEF Canonical
<1>2. Ends(base, tld) /\ Len(tld) < Len(base)
  BY <1>1, StrictSuffix DEF Text
<1>3. n \in 1 .. Len(base) - 1 /\ n \in Nat /\ n + Len(tld) = Len(base)
  BY <1>1, <1>2
<1>4. SubSeq(base, n + 1, Len(base)) = tld
  <2>1. Has(base, tld, n)
    BY <1>2 DEF Ends
  <2>. HIDE DEF n
  <2>2. SubSeq(base, n + 1, n + Len(tld)) = tld
    BY <1>1, <1>3, <2>1, PartThatItHas DEF Text
  <2>. QED  BY <1>3, <2>2
<1>. HIDE DEF n
<1>5. Split(base, n) = SubSeq(base, 1, n) \o Dot \o tld
  BY <1>4 DEF Split
<1>. QED  BY <1>3, <1>4, <1>5 DEF n

\* Where the tail of a split base is a TLD, the base ends in it.
LEMMA SplitIsHack ==
    ASSUME NEW base \in Seq(Undottable), NEW n \in 1 .. Len(base) - 1
    PROVE  LET tail == SubSeq(base, n + 1, Len(base))
           IN  n = Len(base) - Len(tail) /\ IsStrictSuffix(tail, base)
<1>. DEFINE tail == SubSeq(base, n + 1, Len(base))
<1>1. tail \in Seq(Undottable) /\ Len(tail) = Len(base) - n /\ Ends(base, tail)
  BY SplitHas
<1>. HIDE DEF tail
<1>2. n = Len(base) - Len(tail) /\ Len(tail) < Len(base)
  <2>1. n \in Nat \ {0} /\ Len(base) \in Nat
    OBVIOUS
  <2>. QED  BY <1>1, <2>1
<1>3. IsStrictSuffix(tail, base)
  BY <1>1, <1>2, StrictSuffix
<1>. QED  BY <1>2, <1>3 DEF tail

\* What the hacks of a base are tried by.
Fits(tld, base) == IsStrictSuffix(tld, base) /\ base[Len(base) - Len(tld)] # "-"
HackTexts(base, tlds) ==
    {Split(base, Len(base) - Len(tld)) : tld \in {t \in ToSet(tlds) : Fits(t, base)}}

\* The hacks of a base are tried by its splits before the TLDs it ends in.
LEMMA HacksTexts ==
    ASSUME NEW base \in Seq(Undottable), NEW tlds \in Seq(Canonical),
           \A i \in DOMAIN tlds : tlds[i] # <<>>
    PROVE  /\ Hacks(base, tlds) \in Seq(TryType)
           /\ Texts(Hacks(base, tlds)) = HackTexts(base, tlds)
<1>. DEFINE I == {i \in DOMAIN tlds : Fits(tlds[i], base)}
            fitting == Kept(tlds, I)
            hack(t) == Try(SubSeq(base, 1, Len(base) - Len(t)), t, Len(tlds) + 1, FALSE, FALSE)
            hacks == [i \in DOMAIN fitting |-> hack(fitting[i])]
<1>1. Hacks(base, tlds) = hacks
  BY DEF Hacks, Fits
<1>2. I \subseteq DOMAIN tlds /\ Len(tlds) + 1 \in Nat
  OBVIOUS
<1>3. {tlds[i] : i \in I} = {t \in ToSet(tlds) : Fits(t, base)}
  BY DEF ToSet
<1>. HIDE DEF I
<1>4. fitting \in Seq(Canonical) /\ ToSet(fitting) = {tlds[i] : i \in I}
  BY <1>2, WhatIsKept
<1>. HIDE DEF fitting
<1>5. ASSUME NEW t \in ToSet(fitting)
      PROVE  hack(t) \in TryType /\ TextOf(hack(t)) = Split(base, Len(base) - Len(t))
  <2>. DEFINE u == SubSeq(base, 1, Len(base) - Len(t))
  <2>1. t \in Canonical /\ t # <<>> /\ Fits(t, base)
    <3>1. t \in ToSet(tlds) /\ Fits(t, base)
      BY <1>3, <1>4
    <3>. QED  BY <3>1 DEF ToSet
  <2>2. /\ Len(base) - Len(t) \in 1 .. Len(base) - 1
        /\ u \o Dot \o t = Split(base, Len(base) - Len(t))
    BY <2>1, HackSplits DEF Fits
  <2>3. u \in Seq(Undottable)
    <3>. DEFINE n == Len(base) - Len(t)
    <3>1. n \in 0 .. Len(base)
      BY <2>2
    <3>. HIDE DEF n
    <3>2. SubSeq(base, 1, n) \in Seq(Undottable)
      BY <3>1, BeforeTyped
    <3>. QED  BY <3>2 DEF n
  <2>. HIDE DEF u
  <2>4. /\ Try(u, t, Len(tlds) + 1, FALSE, FALSE) \in TryType
        /\ TextOf(Try(u, t, Len(tlds) + 1, FALSE, FALSE)) = u \o Dot \o t
    BY <1>2, <2>1, <2>3, TryTyped
  <2>. QED  BY <2>2, <2>4 DEF u
<1>. HIDE DEF hack
<1>6. \A i \in DOMAIN fitting : fitting[i] \in ToSet(fitting)
  BY DEF ToSet
<1>7. hacks \in Seq(TryType) /\ DOMAIN hacks = DOMAIN fitting
  <2>1. DOMAIN fitting = 1 .. Len(fitting) /\ Len(fitting) \in Nat
    BY <1>4
  <2>. QED  BY <1>5, <1>6, <2>1
<1>8. Texts(hacks) = {Split(base, Len(base) - Len(t)) : t \in ToSet(fitting)}
  <2>1. Texts(hacks) = {TextOf(hacks[i]) : i \in DOMAIN fitting}
    BY <1>7 DEF Texts, ToSet
  <2>2. \A i \in DOMAIN fitting :
            TextOf(hacks[i]) = Split(base, Len(base) - Len(fitting[i]))
    BY <1>5, <1>6
  <2>3. {Split(base, Len(base) - Len(t)) : t \in ToSet(fitting)}
          = {Split(base, Len(base) - Len(fitting[i])) : i \in DOMAIN fitting}
    BY DEF ToSet
  <2>. HIDE DEF hacks
  <2>. QED  BY <2>1, <2>2, <2>3
<1>. QED  BY <1>1, <1>3, <1>4, <1>7, <1>8 DEF HackTexts

\* What a request is tried by, base by base.
TextsFor(base, tlds, req) ==
    (UNION {Under(LabelsOf(base, req), t) : t \in ToSet(tlds)})
    \cup (IF req.hacks THEN HackTexts(base, tlds) ELSE {})

\* What a request is tried by: that of each of its bases.
LEMMA TriesTexts ==
    ASSUME NEW req, IsRequest(req)
    PROVE  /\ Tries(req) \in Seq(TryType)
           /\ Texts(Tries(req)) = UNION {TextsFor(b, Tlds(req.tlds), req) : b \in ToSet(Bases(req.names))}
<1>. DEFINE bases == Bases(req.names)
            tlds == Tlds(req.tlds)
            ranks(base) == [rank \in DOMAIN tlds |-> Variants(base, tlds, rank, req)]
            hacks(base) == IF req.hacks THEN Hacks(base, tlds) ELSE <<>>
            of(base) == FlattenSeq(ranks(base)) \o hacks(base)
            all == [b \in DOMAIN bases |-> of(bases[b])]
<1>1. Tries(req) = FlattenSeq(all)
  BY DEF Tries
<1>2. /\ bases \in Seq(Seq(Undottable)) /\ tlds \in Seq(Canonical)
      /\ \A i \in DOMAIN tlds : tlds[i] # <<>>
  BY BasesTyped, TldsTyped DEF IsRequest
<1>. HIDE DEF bases, tlds
<1>3. ASSUME NEW base \in Seq(Undottable)
      PROVE  of(base) \in Seq(TryType) /\ Texts(of(base)) = TextsFor(base, tlds, req)
  <2>1. ASSUME NEW rank \in DOMAIN tlds
        PROVE  /\ ranks(base)[rank] \in Seq(TryType)
               /\ Texts(ranks(base)[rank]) = Under(LabelsOf(base, req), tlds[rank])
    BY <1>2, VariantsTexts
  <2>2. ranks(base) \in Seq(Seq(TryType)) /\ DOMAIN ranks(base) = DOMAIN tlds
    <3>1. DOMAIN tlds = 1 .. Len(tlds) /\ Len(tlds) \in Nat
      BY <1>2
    <3>. QED  BY <2>1, <3>1
  <2>3. hacks(base) \in Seq(TryType) /\ Texts(hacks(base)) = IF req.hacks THEN HackTexts(base, tlds) ELSE {}
    <3>1. CASE req.hacks
      BY <1>2, <3>1, HacksTexts
    <3>2. CASE ~req.hacks
      <4>1. <<>> \in Seq(TryType) /\ ToSet(<<>>) = {}
        BY SetOfOne
      <4>2. Texts(<<>>) = {}
        BY <4>1 DEF Texts
      <4>. QED  BY <3>2, <4>1, <4>2
    <3>. QED  BY <3>1, <3>2
  <2>. DEFINE rs == ranks(base)
              hs == hacks(base)
              fs == FlattenSeq(rs)
  <2>4. {Texts(rs[i]) : i \in DOMAIN rs} = {Under(LabelsOf(base, req), t) : t \in ToSet(tlds)}
    BY <2>1, <2>2 DEF ToSet
  <2>. HIDE DEF rs, hs, ranks, hacks
  <2>5. fs \in Seq(TryType) /\ Texts(fs) = UNION {Texts(rs[i]) : i \in DOMAIN rs}
    BY <2>2, TextsFlattened DEF rs
  <2>6. hs \in Seq(TryType)
    BY <2>3 DEF hs
  <2>. HIDE DEF fs
  <2>7. fs \o hs \in Seq(TryType) /\ Texts(fs \o hs) = Texts(fs) \cup Texts(hs)
    BY <2>5, <2>6, TextsJoined
  <2>. QED  BY <2>3, <2>4, <2>5, <2>7 DEF TextsFor, fs, rs, hs
<1>. HIDE DEF of
<1>4. /\ DOMAIN bases = 1 .. Len(bases) /\ Len(bases) \in Nat
      /\ \A b \in DOMAIN bases : bases[b] \in Seq(Undottable)
  BY <1>2
<1>5. \A b \in DOMAIN bases :
          all[b] \in Seq(TryType) /\ Texts(all[b]) = TextsFor(bases[b], tlds, req)
  BY <1>3, <1>4
<1>6. all \in Seq(Seq(TryType)) /\ DOMAIN all = DOMAIN bases
  BY <1>4, <1>5
<1>. HIDE DEF all
<1>7. /\ FlattenSeq(all) \in Seq(TryType)
      /\ Texts(FlattenSeq(all)) = UNION {Texts(all[b]) : b \in DOMAIN all}
  BY <1>6, TextsFlattened
<1>8. {Texts(all[b]) : b \in DOMAIN all} = {TextsFor(b, tlds, req) : b \in ToSet(bases)}
  BY <1>5, <1>6 DEF ToSet
<1>. QED  BY <1>1, <1>7, <1>8 DEF bases, tlds

-----------------------------------------------------------------------------
(* The candidates *)

CandidateType == [domain : Canonical, tldRank : Nat, exactBase : BOOLEAN, hyphenated : BOOLEAN]

Registered(d) == Parse(d) # Invalid /\ Registrable(Parse(d))

\* No two candidates have one domain.
Apart(done) == \A i, j \in DOMAIN done : done[i].domain = done[j].domain => i = j

Domains(done) == {done[i].domain : i \in DOMAIN done}

\* What a try is tried by is a text.
LEMMA TryText ==
    ASSUME NEW try \in TryType
    PROVE  TextOf(try) \in Text
<1>. DEFINE l == try.label
            t == try.tld
<1>1. l \in Text /\ t \in Text /\ Dot \in Text
  BY UndottedIsText, CanonicalTyped, Dotted DEF TryType
<1>. HIDE DEF l, t
<1>2. \A b, c \in Text : b \o c \in Text
  BY ConcatProperties DEF Text
<1>3. l \o Dot \o t \in Text
  BY <1>1, <1>2
<1>. QED  BY <1>3 DEF TextOf, l, t

\* A try adds its domain, unless there is one.
LEMMA Added ==
    ASSUME NEW done \in Seq(CandidateType), NEW try \in TryType
    PROVE  /\ Add(done, try) \in Seq(CandidateType)
           /\ Apart(done) => Apart(Add(done, try))
           /\ Domains(Add(done, try))
                = Domains(done) \cup IF Registered(TextOf(try)) THEN {Parse(TextOf(try)).ascii} ELSE {}
<1>. DEFINE name == Parse(TextOf(try))
            c == Candidate(try, name)
<1>1. Add(done, try) = IF /\ name # Invalid
                          /\ Registrable(name)
                          /\ \A i \in DOMAIN done : done[i].domain # name.ascii
                       THEN Append(done, c) ELSE done
  BY DEF Add, TextOf
<1>2. Registered(TextOf(try)) <=> name # Invalid /\ Registrable(name)
  BY DEF Registered
<1>3. name # Invalid => c \in CandidateType /\ c.domain = name.ascii
  <2>. SUFFICES ASSUME name # Invalid PROVE c \in CandidateType /\ c.domain = name.ascii
    OBVIOUS
  <2>1. name.ascii \in Canonical
    BY TryText, NameIsCanonical
  <2>. HIDE DEF name
  <2>. QED  BY <2>1 DEF Candidate, CandidateType, TryType
<1>. HIDE DEF c, name
<1>4. CASE ~(name # Invalid /\ Registrable(name))
  <2>1. Add(done, try) = done
    BY <1>1, <1>4
  <2>. QED  BY <1>2, <1>4, <2>1
<1>5. CASE name # Invalid /\ Registrable(name) /\ \E i \in DOMAIN done : done[i].domain = name.ascii
  <2>1. Add(done, try) = done
    BY <1>1, <1>5
  <2>2. name.ascii \in Domains(done)
    BY <1>5 DEF Domains
  <2>. QED  BY <1>2, <1>5, <2>1, <2>2 DEF name
<1>6. CASE name # Invalid /\ Registrable(name) /\ \A i \in DOMAIN done : done[i].domain # name.ascii
  <2>. DEFINE new == Append(done, c)
              n == Len(done) + 1
  <2>1. Add(done, try) = new /\ c \in CandidateType /\ c.domain = name.ascii
    BY <1>1, <1>3, <1>6
  <2>2. /\ new \in Seq(CandidateType) /\ DOMAIN new = DOMAIN done \cup {n} /\ n \notin DOMAIN done
        /\ \A i \in DOMAIN done : new[i] = done[i]
        /\ new[n] = c
    BY <2>1
  <2>. HIDE DEF new, n
  <2>3. Apart(done) => Apart(new)
    BY <1>6, <2>1, <2>2 DEF Apart
  <2>4. Domains(new) = Domains(done) \cup {name.ascii}
    BY <2>1, <2>2 DEF Domains
  <2>. QED  BY <1>2, <1>6, <2>1, <2>2, <2>3, <2>4 DEF name
<1>. QED  BY <1>4, <1>5, <1>6

\* What the first tries come to.
Reached(tries, n) ==
    {Parse(TextOf(tries[i])).ascii : i \in {j \in 1 .. n : Registered(TextOf(tries[j]))}}

\* Expand comes to the domains of its tries that can be registered, once each.
LEMMA Expanded ==
    ASSUME NEW req, IsRequest(req)
    PROVE  /\ Expand(req) \in Seq(CandidateType)
           /\ Apart(Expand(req))
           /\ Domains(Expand(req)) = {Parse(d).ascii : d \in {e \in Texts(Tries(req)) : Registered(e)}}
<1>. DEFINE tries == Tries(req)
            N == Len(tries)
            A == Seq(CandidateType)
            done == CHOOSE f : f = [n \in 0 .. N |-> IF n = 0 THEN <<>> ELSE Add(f[n - 1], tries[n])]
            step == [p \in A \X (1 .. N) |-> Add(p[1], tries[p[2]])]
<1>1. Expand(req) = done[N]
  BY DEF Expand
<1>2. tries \in Seq(TryType) /\ N \in Nat
  BY TriesTexts
<1>. HIDE DEF tries
<1>3. step \in [A \X (1 .. N) -> A] /\ <<>> \in A
  <2>1. \A done_1 \in A, try \in TryType : Add(done_1, try) \in A
    BY Added
  <2>2. \A n \in 1 .. N : tries[n] \in TryType
    BY <1>2
  <2>3. <<>> \in A
    OBVIOUS
  <2>4. \A p \in A \X (1 .. N) : p[1] \in A /\ p[2] \in 1 .. N
    OBVIOUS
  <2>. HIDE DEF A, N
  <2>. QED  BY <2>1, <2>2, <2>3, <2>4
<1>. HIDE DEF N
<1>4. PICK f : Repeats(f, N, A, <<>>, step)
  <2>. HIDE DEF A, step
  <2>. QED  BY <1>2, <1>3, Recursion
<1>5. f = [n \in 0 .. N |-> IF n = 0 THEN <<>> ELSE Add(f[n - 1], tries[n])]
  <2>1. f \in [0 .. N -> A] /\ f[0] = <<>> /\ \A n \in 1 .. N : f[n] = step[<<f[n - 1], n>>]
    BY <1>4 DEF Repeats
  <2>2. \A n \in 1 .. N : n - 1 \in 0 .. N /\ f[n - 1] \in A
    BY <1>2, <2>1
  <2>. HIDE DEF A
  <2>3. \A n \in 1 .. N : f[n] = Add(f[n - 1], tries[n])
    BY <2>1, <2>2
  <2>. HIDE DEF step
  <2>4. \A n \in 0 .. N : n # 0 => n \in 1 .. N
    BY <1>2
  <2>. QED  BY <2>1, <2>3, <2>4
<1>6. done = [n \in 0 .. N |-> IF n = 0 THEN <<>> ELSE Add(done[n - 1], tries[n])]
  BY <1>5
<1>. HIDE DEF done, step
<1>. DEFINE Good(n) == /\ done[n] \in A
                       /\ Apart(done[n])
                       /\ Domains(done[n]) = Reached(tries, n)
            B == {n \in 0 .. N : Good(n)}
<1>7. 0 \in B
  <2>1. done[0] = <<>> /\ 0 \in 0 .. N
    BY <1>2, <1>6
  <2>2. <<>> \in A /\ Apart(<<>>) /\ Domains(<<>>) = {}
    BY DEF Apart, Domains
  <2>3. Reached(tries, 0) = {}
    BY DEF Reached
  <2>. QED  BY <2>1, <2>2, <2>3
<1>8. ASSUME NEW n \in 1 .. N, n - 1 \in B PROVE n \in B
  <2>. DEFINE try == tries[n]
              old == done[n - 1]
              m == n - 1
  <2>1. n \in 0 .. N /\ n # 0 /\ try \in TryType /\ m \in Nat /\ 1 .. n = (1 .. m) \cup {n}
    BY <1>2 DEF N
  <2>2. done[n] = Add(old, try)
    BY <1>6, <2>1
  <2>3. old \in Seq(CandidateType) /\ Apart(old) /\ Domains(old) = Reached(tries, m)
    BY <1>8
  <2>. HIDE DEF try, old, m
  <2>4. /\ Add(old, try) \in Seq(CandidateType)
        /\ Apart(old) => Apart(Add(old, try))
        /\ Domains(Add(old, try))
             = Domains(old) \cup IF Registered(TextOf(try)) THEN {Parse(TextOf(try)).ascii} ELSE {}
    BY <2>1, <2>3, Added
  <2>5. Reached(tries, n)
          = Reached(tries, m) \cup IF Registered(TextOf(try)) THEN {Parse(TextOf(try)).ascii} ELSE {}
    BY <2>1 DEF Reached, try
  <2>. QED  BY <2>1, <2>2, <2>3, <2>4, <2>5
<1>9. Good(N)
  <2>. HIDE DEF B
  <2>1. 0 .. N \subseteq B
    BY <1>2, <1>7, <1>8, UpTo
  <2>2. N \in 0 .. N
    BY <1>2
  <2>. QED  BY <2>1, <2>2 DEF B
<1>10. Reached(tries, N) = {Parse(d).ascii : d \in {e \in Texts(tries) : Registered(e)}}
  <2>1. Texts(tries) = {TextOf(tries[i]) : i \in 1 .. N}
    BY <1>2 DEF Texts, ToSet, N
  <2>. QED  BY <2>1 DEF Reached
<1>. QED  BY <1>1, <1>9, <1>10 DEF tries

-----------------------------------------------------------------------------
(* Their order *)

\* Tokens have different places in the alphabet.
LEMMA Codes ==
    /\ \A x \in Pieces \cup {"-", "."} : Code(x) \in Nat
    /\ \A x, y \in Pieces \cup {"-", "."} : Code(x) = Code(y) => x = y
<1>1. ASSUME NEW x \in Pieces \cup {"-", "."}
      PROVE  Code(x) \in Nat /\ Alphabet[Code(x)] = x
  <2>1. Alphabet \in Seq(Pieces \cup {"-", "."}) /\ \E i \in 1 .. Len(Alphabet) : Alphabet[i] = x
    <3>1. x \in ToSet(Alphabet) /\ Alphabet \in Seq(Pieces \cup {"-", "."})
      BY AlphabetAssumption
    <3>. QED  BY <3>1 DEF ToSet
  <2>2. \/ FirstOf(Alphabet, x) = 0 /\ \A i \in 1 .. Len(Alphabet) : Alphabet[i] # x
        \/ FirstOf(Alphabet, x) \in 1 .. Len(Alphabet) /\ Alphabet[FirstOf(Alphabet, x)] = x
    BY <2>1, FirstPlace
  <2>. QED  BY <2>1, <2>2 DEF Code
<1>. QED  BY <1>1

\* Strings of one length are in the order of the first place they differ at.
LEMMA LexOrders ==
    ASSUME NEW s \in Canonical, NEW t \in Canonical, Len(s) = Len(t)
    PROVE  /\ ~LexLess(s, s)
           /\ s # t => LexLess(s, t) \/ LexLess(t, s)
           /\ \A u \in Canonical : Len(u) = Len(t) /\ LexLess(s, t) /\ LexLess(t, u) => LexLess(s, u)
<1>. DEFINE n == Len(s)
<1>1. \A r \in Canonical : Len(r) = n => DOMAIN r = 1 .. n /\ \A i \in 1 .. n : Code(r[i]) \in Nat
  <2>1. \A r \in Canonical : DOMAIN r = 1 .. Len(r) /\ \A i \in 1 .. Len(r) : r[i] \in Pieces \cup {"-", "."}
    BY CanonicalTyped
  <2>. QED  BY <2>1, Codes
<1>2. n \in Nat
  BY CanonicalTyped
<1>. HIDE DEF n
<1>3. DOMAIN s = 1 .. n /\ DOMAIN t = 1 .. n
  BY <1>1 DEF n
<1>4. ~LexLess(s, s)
  BY <1>1, <1>3 DEF LexLess, n
<1>5. ASSUME s # t PROVE LexLess(s, t) \/ LexLess(t, s)
  <2>. DEFINE D == {i \in 1 .. n : s[i] # t[i]}
  <2>1. D # {}
    <3>1. ~\A i \in 1 .. n : s[i] = t[i]
      BY <1>3, <1>5, SeqEqual DEF Canonical, n
    <3>. QED  BY <3>1
  <2>2. D \subseteq Nat
    BY <1>2
  <2>3. Min(D) \in D /\ \A k \in D : Min(D) <= k
    <3>. HIDE DEF D
    <3>. QED  BY <2>1, <2>2, LeastIsLeast
  <2>. DEFINE m == Min(D)
  <2>. HIDE DEF m
  <2>4. m \in 1 .. n /\ s[m] # t[m] /\ \A j \in 1 .. m - 1 : s[j] = t[j]
    <3>1. m \in D /\ \A k \in D : m <= k
      BY <2>3 DEF m
    <3>2. \A j \in 1 .. m - 1 : j \notin D /\ j \in 1 .. n
      BY <1>2, <3>1
    <3>. QED  BY <3>1, <3>2
  <2>5. Code(s[m]) # Code(t[m]) /\ Code(s[m]) \in Nat /\ Code(t[m]) \in Nat
    <3>1. s[m] \in Pieces \cup {"-", "."} /\ t[m] \in Pieces \cup {"-", "."}
      BY <1>3, <2>4, CanonicalTyped DEF n
    <3>. QED  BY <2>4, <3>1, Codes
  <2>6. Code(s[m]) < Code(t[m]) \/ Code(t[m]) < Code(s[m])
    BY <2>5
  <2>7. m \in DOMAIN s /\ m \in DOMAIN t /\ \A j \in 1 .. m - 1 : s[j] = t[j] /\ t[j] = s[j]
    BY <1>3, <2>4
  <2>. QED  BY <2>6, <2>7 DEF LexLess
<1>6. ASSUME NEW u \in Canonical, Len(u) = Len(t), LexLess(s, t), LexLess(t, u) PROVE LexLess(s, u)
  <2>1. PICK i \in 1 .. n : Code(s[i]) < Code(t[i]) /\ \A j \in 1 .. i - 1 : s[j] = t[j]
    BY <1>3, <1>6 DEF LexLess
  <2>2. PICK k \in 1 .. n : Code(t[k]) < Code(u[k]) /\ \A j \in 1 .. k - 1 : t[j] = u[j]
    BY <1>3, <1>6 DEF LexLess
  <2>3. \A j \in 1 .. n : Code(s[j]) \in Nat /\ Code(t[j]) \in Nat /\ Code(u[j]) \in Nat
    BY <1>1, <1>6 DEF n
  <2>4. CASE i < k
    <3>1. u[i] = t[i] /\ \A j \in 1 .. i - 1 : s[j] = u[j]
      BY <1>2, <2>1, <2>2, <2>4
    <3>. QED  BY <1>3, <2>1, <3>1 DEF LexLess
  <2>5. CASE k < i
    <3>1. s[k] = t[k] /\ \A j \in 1 .. k - 1 : s[j] = u[j]
      BY <1>2, <2>1, <2>2, <2>5
    <3>. QED  BY <1>3, <2>2, <3>1 DEF LexLess
  <2>6. CASE i = k
    <3>1. Code(s[i]) < Code(u[i]) /\ \A j \in 1 .. i - 1 : s[j] = u[j]
      BY <2>1, <2>2, <2>3, <2>6
    <3>. QED  BY <1>3, <3>1 DEF LexLess
  <2>. QED  BY <1>2, <2>4, <2>5, <2>6
<1>. QED  BY <1>4, <1>5, <1>6

\* What candidates are ranked by, as numbers.
Plainness(c) == IF c.exactBase THEN 0 ELSE 1
Hyphens(c) == IF c.hyphenated THEN 1 ELSE 0

\* Less compares numbers, and then strings.
LEMMA LessByNumbers ==
    ASSUME NEW a \in CandidateType, NEW b \in CandidateType
    PROVE  Less(a, b) <=>
              \/ a.tldRank < b.tldRank
              \/ /\ a.tldRank = b.tldRank
                 /\ \/ Plainness(a) < Plainness(b)
                    \/ /\ Plainness(a) = Plainness(b)
                       /\ \/ Hyphens(a) < Hyphens(b)
                          \/ /\ Hyphens(a) = Hyphens(b)
                             /\ \/ Len(a.domain) < Len(b.domain)
                                \/ /\ Len(a.domain) = Len(b.domain)
                                   /\ LexLess(a.domain, b.domain)
<1>1. /\ a.tldRank \in Nat /\ b.tldRank \in Nat
      /\ a.exactBase \in BOOLEAN /\ b.exactBase \in BOOLEAN
      /\ a.hyphenated \in BOOLEAN /\ b.hyphenated \in BOOLEAN
      /\ Len(a.domain) \in Nat /\ Len(b.domain) \in Nat
  BY DEF CandidateType, Canonical
<1>2. /\ (Plainness(a) < Plainness(b)) <=> (a.exactBase /\ ~b.exactBase)
      /\ (Plainness(a) = Plainness(b)) <=> (a.exactBase <=> b.exactBase)
  BY <1>1 DEF Plainness
<1>3. /\ (Hyphens(a) < Hyphens(b)) <=> (~a.hyphenated /\ b.hyphenated)
      /\ (Hyphens(a) = Hyphens(b)) <=> (a.hyphenated <=> b.hyphenated)
  BY <1>1 DEF Hyphens
<1>4. /\ (a.tldRank < b.tldRank) => a.tldRank # b.tldRank
      /\ (Len(a.domain) < Len(b.domain)) => Len(a.domain) # Len(b.domain)
  BY <1>1
<1>5. /\ a.exactBase # b.exactBase <=> ~(a.exactBase <=> b.exactBase)
      /\ a.hyphenated # b.hyphenated <=> ~(a.hyphenated <=> b.hyphenated)
  BY <1>1
<1>. QED  BY <1>2, <1>3, <1>4, <1>5, ZenonT(60) DEF Less

\* Less is a strict order, and it is total where domains differ.
LEMMA LessOrders ==
    ASSUME NEW a \in CandidateType, NEW b \in CandidateType
    PROVE  /\ ~Less(a, a)
           /\ a.domain # b.domain => Less(a, b) \/ Less(b, a)
           /\ \A c \in CandidateType : Less(a, b) /\ Less(b, c) => Less(a, c)
<1>1. \A c \in CandidateType :
          /\ c.tldRank \in Nat /\ Plainness(c) \in Nat /\ Hyphens(c) \in Nat
          /\ Len(c.domain) \in Nat /\ c.domain \in Canonical
  BY DEF CandidateType, Canonical, Plainness, Hyphens
<1>2. ~Less(a, a)
  <2>1. ~LexLess(a.domain, a.domain)
    BY <1>1, LexOrders
  <2>. QED  BY <1>1, <2>1, LessByNumbers
<1>3. a.domain # b.domain => Less(a, b) \/ Less(b, a)
  <2>1. Len(a.domain) = Len(b.domain) /\ a.domain # b.domain =>
            LexLess(a.domain, b.domain) \/ LexLess(b.domain, a.domain)
    BY <1>1, LexOrders
  <2>. QED  BY <1>1, <2>1, LessByNumbers
<1>4. ASSUME NEW c \in CandidateType, Less(a, b), Less(b, c) PROVE Less(a, c)
  <2>1. /\ Len(a.domain) = Len(b.domain) /\ Len(c.domain) = Len(b.domain)
        /\ LexLess(a.domain, b.domain) /\ LexLess(b.domain, c.domain)
        => LexLess(a.domain, c.domain)
    BY <1>1, LexOrders
  <2>. DEFINE ab == LexLess(a.domain, b.domain)
              bc == LexLess(b.domain, c.domain)
              ac == LexLess(a.domain, c.domain)
              l == Len(a.domain)
              m == Len(b.domain)
              n == Len(c.domain)
  <2>2. l = m /\ n = m /\ ab /\ bc => ac
    BY <2>1
  <2>3. l \in Nat /\ m \in Nat /\ n \in Nat
    BY <1>1
  <2>4. /\ a.tldRank \in Nat /\ Plainness(a) \in Nat /\ Hyphens(a) \in Nat
        /\ b.tldRank \in Nat /\ Plainness(b) \in Nat /\ Hyphens(b) \in Nat
        /\ c.tldRank \in Nat /\ Plainness(c) \in Nat /\ Hyphens(c) \in Nat
    BY <1>1
  <2>5. \/ a.tldRank < b.tldRank
        \/ /\ a.tldRank = b.tldRank
           /\ \/ Plainness(a) < Plainness(b)
              \/ /\ Plainness(a) = Plainness(b)
                 /\ \/ Hyphens(a) < Hyphens(b)
                    \/ /\ Hyphens(a) = Hyphens(b)
                       /\ (l < m \/ (l = m /\ ab))
    BY <1>4, LessByNumbers
  <2>6. \/ b.tldRank < c.tldRank
        \/ /\ b.tldRank = c.tldRank
           /\ \/ Plainness(b) < Plainness(c)
              \/ /\ Plainness(b) = Plainness(c)
                 /\ \/ Hyphens(b) < Hyphens(c)
                    \/ /\ Hyphens(b) = Hyphens(c)
                       /\ (m < n \/ (m = n /\ bc))
    BY <1>4, LessByNumbers
  <2>7. /\ Less(a, c) <=>
              \/ a.tldRank < c.tldRank
              \/ /\ a.tldRank = c.tldRank
                 /\ \/ Plainness(a) < Plainness(c)
                    \/ /\ Plainness(a) = Plainness(c)
                       /\ \/ Hyphens(a) < Hyphens(c)
                          \/ /\ Hyphens(a) = Hyphens(c)
                             /\ (l < n \/ (l = n /\ ac))
    BY LessByNumbers
  <2>. HIDE DEF ab, bc, ac, l, m, n
  <2>. QED  BY <2>2, <2>3, <2>4, <2>5, <2>6, <2>7
<1>. QED  BY <1>2, <1>3, <1>4

\* So it puts any of the candidates of a request in one order.
LEMMA RankedOrders ==
    ASSUME NEW candidates \in Seq(CandidateType), Apart(candidates),
           NEW I, I \subseteq DOMAIN candidates
    PROVE  Orders(Ranked(candidates, I), I)
<1>1. \A i \in I : candidates[i] \in CandidateType
  OBVIOUS
<1>2. \A i, j \in I : <<i, j>> \in Ranked(candidates, I) <=> Less(candidates[i], candidates[j])
  BY DEF Ranked
<1>3. \A i \in I : ~Less(candidates[i], candidates[i])
  BY <1>1, LessOrders
<1>4. \A i, j \in I : i # j => Less(candidates[i], candidates[j]) \/ Less(candidates[j], candidates[i])
  <2>1. \A i, j \in I : i # j => candidates[i].domain # candidates[j].domain
    BY DEF Apart
  <2>. QED  BY <1>1, <2>1, LessOrders
<1>5. \A i, j, k \in I : Less(candidates[i], candidates[j]) /\ Less(candidates[j], candidates[k]) =>
          Less(candidates[i], candidates[k])
  BY <1>1, LessOrders
<1>. QED  BY <1>2, <1>3, <1>4, <1>5 DEF Orders

\* The ranking takes the best of what is wanted, best first.
Best(at, W, I, candidates) ==
    /\ at \in [I -> W]
    /\ \A j, k \in I : j < k => at[j] # at[k] /\ Less(candidates[at[j]], candidates[at[k]])
    /\ \A k \in I, i \in W : (\A j \in I : at[j] # i) => Less(candidates[at[k]], candidates[i])

Fewer(m, n) == IF m < n THEN m ELSE n

TakesBest(results, n, checks, W, candidates) ==
    /\ n \in Nat /\ Len(results) = n
    /\ \E at : /\ Best(at, W, 1 .. n, candidates)
               /\ \A k \in 1 .. n : results[k] = checks[at[k]]

\* Rank returns the answers on the best of the candidates that are wanted.
LEMMA RankTakesBest ==
    ASSUME NEW X, NEW checks \in Seq(X), NEW candidates \in Seq(CandidateType), Apart(candidates),
           Len(checks) <= Len(candidates), NEW onlyAvailable, NEW limit \in Nat \ {0}
    PROVE  TakesBest(Rank(checks, candidates, onlyAvailable, limit),
                     Fewer(limit, Cardinality(Wanted(checks, onlyAvailable))),
                     checks, Wanted(checks, onlyAvailable), candidates)
<1>. DEFINE W == Wanted(checks, onlyAvailable)
            N == Cardinality(W)
            n == IF limit < N THEN limit ELSE N
            before == Ranked(candidates, DOMAIN checks)
            order == InOrder(W, before)
            results == Rank(checks, candidates, onlyAvailable, limit)
<1>1. W \subseteq DOMAIN checks /\ DOMAIN checks \subseteq DOMAIN candidates
  BY DEF Wanted
<1>2. IsFiniteSet(W)
  <2>1. Len(checks) \in Nat /\ DOMAIN checks = 1 .. Len(checks)
    OBVIOUS
  <2>2. IsFiniteSet(1 .. Len(checks))
    BY <2>1, FS_Interval
  <2>. HIDE DEF W
  <2>. QED  BY <1>1, <2>1, <2>2, FS_Subset
<1>3. Orders(before, W)
  <2>. DEFINE D == DOMAIN checks
  <2>1. Orders(Ranked(candidates, D), D)
    <3>. HIDE DEF D
    <3>. QED  BY <1>1, RankedOrders DEF D
  <2>. HIDE DEF D, W
  <2>. QED  BY <1>1, <2>1 DEF Orders, D
<1>4. \A p : p \in before => Less(candidates[p[1]], candidates[p[2]])
  BY DEF Ranked
<1>5. results = [k \in 1 .. (IF limit \in 1 .. Len(order) THEN limit ELSE Len(order)) |-> checks[order[k]]]
  BY DEF Rank
<1>. HIDE DEF W, before, results
<1>6. /\ N \in Nat
      /\ order \in [1 .. N -> W]
      /\ \A x \in W : \E k \in 1 .. N : order[k] = x
      /\ \A j, k \in 1 .. N : j < k => order[j] # order[k] /\ <<order[j], order[k]>> \in before
  BY <1>2, <1>3, Enumeration
<1>. HIDE DEF order, N
<1>7. /\ n \in Nat /\ n <= N /\ results = [k \in 1 .. n |-> checks[order[k]]]
  <2>1. Len(order) = N
    BY <1>6
  <2>. QED  BY <1>5, <1>6, <2>1
<1>. HIDE DEF n
<1>8. \A k \in 1 .. n : k \in 1 .. N /\ order[k] \in W /\ order[k] \in DOMAIN checks
  BY <1>1, <1>6, <1>7
<1>9. results \in Seq(X) /\ Len(results) = n
  BY <1>7, <1>8
<1>. DEFINE at == [k \in 1 .. n |-> order[k]]
<1>10. \A k \in 1 .. n : results[k] = checks[at[k]]
  BY <1>7
<1>11. at \in [1 .. n -> W]
  BY <1>8
<1>12. \A j, k \in 1 .. N : j < k => order[j] # order[k] /\ Less(candidates[order[j]], candidates[order[k]])
  <2>. TAKE j, k \in 1 .. N
  <2>. DEFINE p == <<order[j], order[k]>>
  <2>1. j < k => order[j] # order[k] /\ p \in before
    BY <1>6
  <2>2. p[1] = order[j] /\ p[2] = order[k]
    OBVIOUS
  <2>. HIDE DEF p
  <2>. QED  BY <1>4, <2>1, <2>2
<1>13. \A k \in 1 .. n, i \in W : (\A j \in 1 .. n : at[j] # i) => Less(candidates[at[k]], candidates[i])
  <2>. SUFFICES ASSUME NEW k \in 1 .. n, NEW i \in W, \A j \in 1 .. n : at[j] # i
                PROVE  Less(candidates[order[k]], candidates[i])
    OBVIOUS
  <2>1. PICK m \in 1 .. N : order[m] = i
    BY <1>6
  <2>2. m \notin 1 .. n
    BY <2>1
  <2>3. k < m /\ k \in 1 .. N
    BY <1>6, <1>7, <2>2
  <2>. QED  BY <1>12, <2>1, <2>3
<1>14. Best(at, W, 1 .. n, candidates)
  BY <1>8, <1>11, <1>12, <1>13 DEF Best
<1>15. TakesBest(results, n, checks, W, candidates)
  BY <1>7, <1>9, <1>10, <1>14 DEF TakesBest
<1>. QED  BY <1>15 DEF Fewer, n, N, W, results
=============================================================================
