--------------------------- MODULE PipelineProofs ---------------------------
(***************************************************************************)
(* What the way from a site to the cards guarantees for every catalogue,   *)
(* window, page size and limit: what a fetcher yields is what its requests *)
(* reach, a row keeps the document its key was made from, a name is pinned *)
(* on an account only if that is earned, and nothing is lost on the way.   *)
(***************************************************************************)
EXTENDS Pipeline, WellFoundedInduction, FiniteSetTheorems, SequenceTheorems, TLAPS

(* Every set of naturals has a least element.                               *)
LEMMA LeastOf ==
    ASSUME NEW S \in SUBSET Nat, S # {}
    PROVE  \E m \in S : \A k \in S : m <= k
<1>1. \E m \in S : \A k \in S : ~ (<<k, m>> \in OpToRel(<, Nat))
  <2> HIDE DEF OpToRel
  <2>1. S \subseteq Nat
    OBVIOUS
  <2>2. QED
    BY <2>1, NatLessThanWellFounded, WFMin
<1>2. PICK m \in S : \A k \in S : ~ (<<k, m>> \in OpToRel(<, Nat))
  BY <1>1
<1>3. ASSUME NEW k \in S PROVE m <= k
  <2>1. k \in Nat /\ m \in Nat
    OBVIOUS
  <2>2. ~ (<<k, m>> \in OpToRel(<, Nat))
    BY <1>2
  <2>3. ~ (k < m)
    BY <2>1, <2>2 DEF OpToRel
  <2>4. QED
    BY <2>1, <2>3
<1>4. QED
  BY <1>3

(* What holds at 0 and goes from each number below n to the next.           *)
LEMMA Climbs ==
    ASSUME NEW n \in Nat, NEW T, 0 \in T,
           \A i \in Nat : i < n /\ i \in T => i + 1 \in T
    PROVE  \A i \in 0 .. n : i \in T
<1> DEFINE Bad == {i \in 0 .. n : i \notin T}
<1>1. SUFFICES ASSUME Bad # {} PROVE FALSE
  OBVIOUS
<1>2. Bad \in SUBSET Nat
  OBVIOUS
<1>3. PICK m \in Bad : \A k \in Bad : m <= k
  <2> HIDE DEF Bad
  <2>1. QED
    BY <1>1, <1>2, LeastOf
<1>4. m \in Nat /\ m # 0 /\ m <= n /\ m \notin T
  OBVIOUS
<1>5. m - 1 \in Nat /\ m - 1 < n /\ m - 1 \notin Bad
  BY <1>3, <1>4
<1>6. QED
  BY <1>4, <1>5

-----------------------------------------------------------------------------
(* Sequences of sequences.  FlattenSeq joins them one by one: g is what it  *)
(* has after each.                                                          *)
Joins(S, seqs, n) ==
    {g \in [0 .. n -> Seq(S)] : g[0] = <<>> /\ \A i \in 1 .. n : g[i] = g[i - 1] \o seqs[i]}

LEMMA JoinsExist ==
    ASSUME NEW S, NEW n \in Nat, NEW seqs \in [1 .. n -> Seq(S)]
    PROVE  Joins(S, seqs, n) # {}
<1> DEFINE T == {k \in Nat : k <= n => Joins(S, seqs, k) # {}}
<1>1. 0 \in T
  <2>1. [i \in 0 .. 0 |-> <<>>] \in Joins(S, seqs, 0)
    BY DEF Joins
  <2>2. QED
    BY <2>1
<1>2. ASSUME NEW k \in Nat, k < n, k \in T PROVE k + 1 \in T
  <2>1. PICK g \in Joins(S, seqs, k) : TRUE
    BY <1>2
  <2>2. g \in [0 .. k -> Seq(S)] /\ g[0] = <<>> /\ \A i \in 1 .. k : g[i] = g[i - 1] \o seqs[i]
    BY <2>1 DEF Joins
  <2> DEFINE h == [i \in 0 .. k + 1 |-> IF i = k + 1 THEN g[k] \o seqs[k + 1] ELSE g[i]]
  <2>3. k \in 0 .. k /\ k + 1 \in 1 .. n
    BY <1>2
  <2>4. g[k] \o seqs[k + 1] \in Seq(S)
    BY <2>2, <2>3
  <2>5. h \in [0 .. k + 1 -> Seq(S)] /\ h[0] = <<>>
    BY <2>2, <2>4
  <2>6. ASSUME NEW i \in 1 .. k + 1 PROVE h[i] = h[i - 1] \o seqs[i]
    <3>1. i - 1 \in 0 .. k + 1 /\ i \in 0 .. k + 1 /\ i - 1 # k + 1
      OBVIOUS
    <3>2. CASE i = k + 1
      <4> i - 1 = k
        BY <3>2
      <4>1. h[i] = g[k] \o seqs[k + 1] /\ h[i - 1] = g[k]
        BY <3>1, <3>2
      <4>2. QED
        BY <3>2, <4>1
    <3>3. CASE i # k + 1
      <4>1. h[i] = g[i] /\ h[i - 1] = g[i - 1] /\ i \in 1 .. k
        BY <3>1, <3>3
      <4>2. QED
        BY <2>2, <4>1
    <3>4. QED
      BY <3>2, <3>3
  <2>7. h \in Joins(S, seqs, k + 1)
    BY <2>5, <2>6 DEF Joins
  <2>8. QED
    BY <2>7
<1>3. \A i \in 0 .. n : i \in T
  <2> HIDE DEF T
  <2>1. QED
    BY <1>1, <1>2, Climbs
<1>4. QED
  BY <1>3

(* What FlattenSeq takes from the recursive function in it.                 *)
IsFlat(f, seqs, n) ==
    f = [i \in 1 .. n |-> IF i = 1 THEN seqs[i] ELSE f[i - 1] \o seqs[i]]

LEMMA FlatSteps ==
    ASSUME NEW n \in Nat, NEW seqs, NEW f, IsFlat(f, seqs, n), NEW i \in 1 .. n
    PROVE  f[i] = IF i = 1 THEN seqs[i] ELSE f[i - 1] \o seqs[i]
<1> DEFINE F == [k \in 1 .. n |-> IF k = 1 THEN seqs[k] ELSE f[k - 1] \o seqs[k]]
<1>1. f = F
  BY DEF IsFlat
<1>2. F[i] = IF i = 1 THEN seqs[i] ELSE f[i - 1] \o seqs[i]
  OBVIOUS
<1>3. QED
  BY <1>1, <1>2

LEMMA FlatExists ==
    ASSUME NEW S, NEW n \in Nat, NEW seqs \in [1 .. n -> Seq(S)], NEW g \in Joins(S, seqs, n)
    PROVE  IsFlat([i \in 1 .. n |-> g[i]], seqs, n)
<1> DEFINE h == [i \in 1 .. n |-> g[i]]
<1>1. g \in [0 .. n -> Seq(S)] /\ g[0] = <<>> /\ \A i \in 1 .. n : g[i] = g[i - 1] \o seqs[i]
  BY DEF Joins
<1>2. ASSUME NEW i \in 1 .. n
      PROVE  h[i] = IF i = 1 THEN seqs[i] ELSE h[i - 1] \o seqs[i]
  <2>1. h[i] = g[i] /\ g[i] = g[i - 1] \o seqs[i] /\ seqs[i] \in Seq(S)
    BY <1>1
  <2>2. CASE i = 1
    <3>1. g[i - 1] = <<>>
      BY <1>1, <2>2
    <3>2. <<>> \o seqs[i] = seqs[i]
      BY <2>1
    <3>3. QED
      BY <2>1, <2>2, <3>1, <3>2
  <2>3. CASE i # 1
    <3>1. i - 1 \in 1 .. n
      BY <2>3
    <3>2. h[i - 1] = g[i - 1]
      BY <3>1
    <3>3. QED
      BY <2>1, <2>3, <3>2
  <2>4. QED
    BY <2>2, <2>3
<1>3. QED
  BY <1>2 DEF IsFlat

LEMMA FlatIsOne ==
    ASSUME NEW n \in Nat, NEW seqs, NEW f, NEW h, IsFlat(f, seqs, n), IsFlat(h, seqs, n)
    PROVE  \A i \in 1 .. n : f[i] = h[i]
<1> DEFINE T == {i \in Nat : i \in 1 .. n => f[i] = h[i]}
<1>1. 0 \in T
  OBVIOUS
<1>2. ASSUME NEW i \in Nat, i < n, i \in T PROVE i + 1 \in T
  <2>1. i + 1 \in 1 .. n /\ (i + 1) - 1 = i
    BY <1>2
  <2>2. f[i + 1] = IF i + 1 = 1 THEN seqs[i + 1] ELSE f[i] \o seqs[i + 1]
    BY <2>1, FlatSteps
  <2>3. h[i + 1] = IF i + 1 = 1 THEN seqs[i + 1] ELSE h[i] \o seqs[i + 1]
    BY <2>1, FlatSteps
  <2>4. i # 0 => f[i] = h[i]
    BY <1>2, <2>1
  <2>5. QED
    BY <2>2, <2>3, <2>4
<1>3. \A i \in 0 .. n : i \in T
  <2> HIDE DEF T
  <2>1. QED
    BY <1>1, <1>2, Climbs
<1>4. QED
  BY <1>3

LEMMA FlattenIs ==
    ASSUME NEW S, NEW seqs \in Seq(Seq(S)), NEW g \in Joins(S, seqs, Len(seqs))
    PROVE  FlattenSeq(seqs) = g[Len(seqs)]
<1> DEFINE n == Len(seqs)
<1>1. n \in Nat /\ seqs \in [1 .. n -> Seq(S)]
  OBVIOUS
<1>2. CASE n = 0
  <2>1. FlattenSeq(seqs) = seqs /\ seqs = <<>>
    BY <1>2 DEF FlattenSeq
  <2>2. QED
    BY <1>2, <2>1 DEF Joins
<1>3. CASE n # 0
  <2> DEFINE h == [i \in 1 .. n |-> g[i]]
             f == CHOOSE f : IsFlat(f, seqs, n)
  <2>1. IsFlat(h, seqs, n)
    <3> HIDE DEF n
    <3>1. QED
      BY <1>1, FlatExists DEF n
  <2>2. IsFlat(f, seqs, n)
    <3> HIDE DEF h
    <3>1. QED
      BY <2>1
  <2>3. FlattenSeq(seqs) = f[n]
    BY <1>3 DEF FlattenSeq, IsFlat
  <2>4. n \in 1 .. n /\ h[n] = g[n]
    BY <1>1, <1>3
  <2>5. f[n] = h[n]
    <3> HIDE DEF f, h, n
    <3>1. QED
      BY <1>1, <2>1, <2>2, <2>4, FlatIsOne
  <2>6. QED
    BY <2>3, <2>4, <2>5
<1>4. QED
  BY <1>2, <1>3

LEMMA ConcatRange ==
    ASSUME NEW S, NEW a \in Seq(S), NEW b \in Seq(S)
    PROVE  ToSet(a \o b) = ToSet(a) \cup ToSet(b)
<1>1. a \o b \in Seq(S) /\ DOMAIN (a \o b) = 1 .. Len(a) + Len(b)
      /\ DOMAIN a = 1 .. Len(a) /\ DOMAIN b = 1 .. Len(b) /\ Len(a) \in Nat /\ Len(b) \in Nat
  OBVIOUS
<1>2. \A i \in 1 .. Len(a) + Len(b) : (a \o b)[i] = IF i <= Len(a) THEN a[i] ELSE b[i - Len(a)]
  OBVIOUS
<1>3. ASSUME NEW x \in ToSet(a) PROVE x \in ToSet(a \o b)
  BY <1>1, <1>2 DEF ToSet
<1>4. ASSUME NEW x \in ToSet(b) PROVE x \in ToSet(a \o b)
  <2>1. PICK i \in 1 .. Len(b) : x = b[i]
    BY <1>1 DEF ToSet
  <2>2. i + Len(a) \in 1 .. Len(a) + Len(b) /\ ~ (i + Len(a) <= Len(a)) /\ (i + Len(a)) - Len(a) = i
    BY <1>1
  <2>3. (a \o b)[i + Len(a)] = x
    BY <1>2, <2>1, <2>2
  <2>4. QED
    BY <1>1, <2>2, <2>3 DEF ToSet
<1>5. ASSUME NEW x \in ToSet(a \o b) PROVE x \in ToSet(a) \cup ToSet(b)
  <2>1. PICK i \in 1 .. Len(a) + Len(b) : x = (a \o b)[i]
    BY <1>1 DEF ToSet
  <2>2. CASE i <= Len(a)
    BY <1>1, <1>2, <2>1, <2>2 DEF ToSet
  <2>3. CASE ~ (i <= Len(a))
    <3>1. i - Len(a) \in 1 .. Len(b)
      BY <1>1, <2>3
    <3>2. QED
      BY <1>1, <1>2, <2>1, <2>3, <3>1 DEF ToSet
  <2>4. QED
    BY <2>2, <2>3
<1>6. QED
  BY <1>3, <1>4, <1>5

(* What is in a sequence of sequences is in one of them.                    *)
LEMMA FlattenParts ==
    ASSUME NEW S, NEW seqs \in Seq(Seq(S))
    PROVE  /\ FlattenSeq(seqs) \in Seq(S)
           /\ \A x : x \in ToSet(FlattenSeq(seqs)) <=> \E i \in DOMAIN seqs : x \in ToSet(seqs[i])
<1> DEFINE n == Len(seqs)
<1>1. n \in Nat /\ seqs \in [1 .. n -> Seq(S)] /\ DOMAIN seqs = 1 .. n
  OBVIOUS
<1>2. PICK g \in Joins(S, seqs, n) : TRUE
  <2> HIDE DEF n
  <2>1. QED
    BY <1>1, JoinsExist
<1>3. FlattenSeq(seqs) = g[n]
  BY <1>2, FlattenIs
<1>4. g \in [0 .. n -> Seq(S)] /\ g[0] = <<>> /\ \A i \in 1 .. n : g[i] = g[i - 1] \o seqs[i]
  BY <1>2 DEF Joins
<1> HIDE DEF n
<1> DEFINE T == {i \in Nat : i <= n => \A x : x \in ToSet(g[i]) <=> \E k \in 1 .. i : x \in ToSet(seqs[k])}
<1>5. 0 \in T
  BY <1>4 DEF ToSet
<1>6. ASSUME NEW i \in Nat, i < n, i \in T PROVE i + 1 \in T
  <2>1. i + 1 \in 1 .. n /\ (i + 1) - 1 = i /\ i \in 0 .. n
    BY <1>1, <1>6
  <2>2. g[i + 1] = g[i] \o seqs[i + 1] /\ g[i] \in Seq(S) /\ seqs[i + 1] \in Seq(S)
    BY <1>1, <1>4, <2>1
  <2>3. ToSet(g[i + 1]) = ToSet(g[i]) \cup ToSet(seqs[i + 1])
    BY <2>2, ConcatRange
  <2>4. \A x : x \in ToSet(g[i]) <=> \E k \in 1 .. i : x \in ToSet(seqs[k])
    BY <1>1, <1>6
  <2>5. 1 .. i + 1 = (1 .. i) \cup {i + 1}
    OBVIOUS
  <2>6. \A x : x \in ToSet(g[i + 1]) <=> \E k \in 1 .. i + 1 : x \in ToSet(seqs[k])
    BY <2>3, <2>4, <2>5
  <2>7. QED
    BY <2>6
<1>7. n \in T
  <2>1. \A i \in 0 .. n : i \in T
    <3> HIDE DEF T
    <3>1. QED
      BY <1>1, <1>5, <1>6, Climbs
  <2>2. n \in 0 .. n
    BY <1>1
  <2>3. QED
    BY <2>1, <2>2
<1>8. \A x : x \in ToSet(g[n]) <=> \E k \in 1 .. n : x \in ToSet(seqs[k])
  BY <1>1, <1>7
<1>9. g[n] \in Seq(S)
  <2>1. n \in 0 .. n
    BY <1>1
  <2>2. QED
    BY <1>4, <2>1
<1>10. QED
  <2> HIDE DEF T
  <2>1. QED
    BY <1>1, <1>3, <1>8, <1>9

(* Where an element of s that is in D comes to stand.                       *)
Rank(s, D, i) == Cardinality({j \in 1 .. i : s[j] \in D})

LEMMA RankSteps ==
    ASSUME NEW s, NEW D, NEW i \in Nat
    PROVE  /\ Rank(s, D, i) \in Nat /\ Rank(s, D, 0) = 0 /\ Rank(s, D, i) <= i
           /\ s[i + 1] \in D => Rank(s, D, i + 1) = Rank(s, D, i) + 1
           /\ s[i + 1] \notin D => Rank(s, D, i + 1) = Rank(s, D, i)
<1> DEFINE In(k) == {j \in 1 .. k : s[j] \in D}
<1>1. \A k \in Nat : IsFiniteSet(1 .. k) /\ Cardinality(1 .. k) = k
  BY FS_Interval
<1>2. \A k \in Nat : IsFiniteSet(In(k)) /\ Cardinality(In(k)) <= k /\ Cardinality(In(k)) \in Nat
  <2> SUFFICES ASSUME NEW k \in Nat
               PROVE IsFiniteSet(In(k)) /\ Cardinality(In(k)) <= k /\ Cardinality(In(k)) \in Nat
    OBVIOUS
  <2>1. In(k) \subseteq 1 .. k
    OBVIOUS
  <2>2. QED
    BY <1>1, <2>1, FS_Subset, FS_CardinalityType
<1>3. In(0) = {} /\ Cardinality({}) = 0
  BY FS_EmptySet
<1>4. s[i + 1] \notin D => In(i + 1) = In(i)
  OBVIOUS
<1>5. s[i + 1] \in D => In(i + 1) = In(i) \cup {i + 1} /\ i + 1 \notin In(i)
  OBVIOUS
<1>6. s[i + 1] \in D => Cardinality(In(i + 1)) = Cardinality(In(i)) + 1
  BY <1>2, <1>5, FS_AddElement
<1>7. QED
  BY <1>2, <1>3, <1>4, <1>6 DEF Rank

(* Only keeps the order: an element goes to its rank.                       *)
LEMMA OnlyRanks ==
    ASSUME NEW S, NEW s \in Seq(S), NEW D
    PROVE  /\ Only(s, D) \in Seq(S)
           /\ \A k \in DOMAIN Only(s, D) : \E i \in DOMAIN s :
                 s[i] \in D /\ Only(s, D)[k] = s[i] /\ k = Rank(s, D, i)
           /\ \A i \in DOMAIN s : s[i] \in D =>
                 Rank(s, D, i) \in DOMAIN Only(s, D) /\ Only(s, D)[Rank(s, D, i)] = s[i]
<1> DEFINE n == Len(s)
           seqs == [i \in DOMAIN s |-> IF s[i] \in D THEN <<s[i]>> ELSE <<>>]
<1>1. n \in Nat /\ DOMAIN s = 1 .. n /\ \A i \in 1 .. n : s[i] \in S
  OBVIOUS
<1>2. seqs \in [1 .. n -> Seq(S)]
  BY <1>1
<1>3. seqs \in Seq(Seq(S)) /\ Len(seqs) = n
  <2>1. seqs \in [1 .. n -> Seq(S)] /\ n \in Nat
    BY <1>1, <1>2
  <2> HIDE DEF seqs, n
  <2>2. QED
    BY <2>1
<1>4. PICK g \in Joins(S, seqs, n) : TRUE
  <2> HIDE DEF n, seqs
  <2>1. QED
    BY <1>1, <1>2, JoinsExist
<1>5. Only(s, D) = g[n]
  <2>1. Only(s, D) = FlattenSeq(seqs)
    BY DEF Only
  <2> HIDE DEF n, seqs
  <2>2. QED
    BY <1>3, <1>4, <2>1, FlattenIs
<1>6. g \in [0 .. n -> Seq(S)] /\ g[0] = <<>> /\ \A i \in 1 .. n : g[i] = g[i - 1] \o seqs[i]
  BY <1>4 DEF Joins
<1>7. \A i \in 1 .. n : seqs[i] = IF s[i] \in D THEN <<s[i]>> ELSE <<>>
  BY <1>1
<1> HIDE DEF n, seqs
<1> DEFINE R(i) == Rank(s, D, i)
           Fills(i) == \A k \in 1 .. R(i) : \E j \in 1 .. i : s[j] \in D /\ g[i][k] = s[j] /\ k = R(j)
           Finds(i) == \A j \in 1 .. i : s[j] \in D => R(j) \in 1 .. R(i) /\ g[i][R(j)] = s[j]
           T == {i \in Nat : i <= n => Len(g[i]) = R(i) /\ Fills(i) /\ Finds(i)}
<1>8. ASSUME NEW i \in Nat
      PROVE  /\ R(i) \in Nat
             /\ s[i + 1] \in D => R(i + 1) = R(i) + 1
             /\ s[i + 1] \notin D => R(i + 1) = R(i)
  BY RankSteps
<1>9. 0 \in T
  BY <1>6, RankSteps
<1>10. ASSUME NEW i \in Nat, i < n, i \in T PROVE i + 1 \in T
  <2>1. i + 1 \in 1 .. n /\ (i + 1) - 1 = i /\ i \in 0 .. n
    BY <1>1, <1>10
  <2>2. g[i + 1] = g[i] \o seqs[i + 1] /\ g[i] \in Seq(S) /\ s[i + 1] \in S
    BY <1>1, <1>6, <2>1
  <2>3. Len(g[i]) = R(i) /\ Fills(i) /\ Finds(i)
    BY <1>1, <1>10
  <2>4. CASE s[i + 1] \notin D
    <3>1. R(i + 1) = R(i)
      BY <1>8, <2>4
    <3>2. g[i + 1] = g[i]
      <4>1. seqs[i + 1] = <<>>
        BY <1>7, <2>1, <2>4
      <4>2. g[i] \o <<>> = g[i]
        BY <2>2
      <4>3. QED
        BY <2>2, <4>1, <4>2
    <3>3. 1 .. i + 1 = (1 .. i) \cup {i + 1}
      OBVIOUS
    <3> HIDE DEF R
    <3>4. Len(g[i + 1]) = R(i + 1) /\ Fills(i + 1) /\ Finds(i + 1)
      BY <2>3, <2>4, <3>1, <3>2, <3>3
    <3>5. QED
      BY <3>4
  <2>5. CASE s[i + 1] \in D
    <3>1. R(i + 1) = R(i) + 1
      BY <1>8, <2>5
    <3>2. g[i + 1] = g[i] \o <<s[i + 1]>>
      BY <1>7, <2>1, <2>2, <2>5
    <3> R(i) \in Nat
      BY <1>8
    <3> HIDE DEF R
    <3>3. Len(g[i + 1]) = R(i + 1)
      BY <2>2, <2>3, <3>1, <3>2
    <3>4. g[i + 1][R(i) + 1] = s[i + 1]
      BY <2>2, <2>3, <3>2
    <3>5. \A k \in 1 .. R(i) : g[i + 1][k] = g[i][k]
      BY <2>2, <2>3, <3>2
    <3>6. ASSUME NEW k \in 1 .. R(i + 1)
          PROVE  \E j \in 1 .. i + 1 : s[j] \in D /\ g[i + 1][k] = s[j] /\ k = R(j)
      <4>1. CASE k = R(i) + 1
        <5>1. i + 1 \in 1 .. i + 1
          OBVIOUS
        <5>2. QED
          BY <2>5, <3>1, <3>4, <4>1, <5>1
      <4>2. CASE k # R(i) + 1
        <5>1. k \in 1 .. R(i)
          BY <3>1, <4>2
        <5>2. PICK j \in 1 .. i : s[j] \in D /\ g[i][k] = s[j] /\ k = R(j)
          BY <2>3, <5>1
        <5>3. j \in 1 .. i + 1 /\ g[i + 1][k] = s[j]
          BY <3>5, <5>1, <5>2
        <5>4. QED
          BY <5>2, <5>3
      <4>3. QED
        BY <4>1, <4>2
    <3>7. ASSUME NEW j \in 1 .. i + 1, s[j] \in D
          PROVE  R(j) \in 1 .. R(i + 1) /\ g[i + 1][R(j)] = s[j]
      <4>1. CASE j = i + 1
        BY <3>1, <3>4, <4>1
      <4>2. CASE j # i + 1
        <5>1. j \in 1 .. i
          BY <4>2
        <5>2. R(j) \in 1 .. R(i) /\ g[i][R(j)] = s[j]
          BY <2>3, <3>7, <5>1
        <5>3. QED
          BY <3>1, <3>5, <5>2
      <4>3. QED
        BY <4>1, <4>2
    <3>8. Fills(i + 1) /\ Finds(i + 1)
      BY <3>6, <3>7
    <3>9. QED
      BY <3>3, <3>8
  <2>6. QED
    BY <2>4, <2>5
<1>11. Len(g[n]) = R(n) /\ Fills(n) /\ Finds(n)
  <2>1. \A i \in 0 .. n : i \in T
    <3> HIDE DEF T
    <3>1. QED
      BY <1>1, <1>9, <1>10, Climbs
  <2>2. n \in T
    BY <1>1, <2>1
  <2>3. QED
    BY <1>1, <2>2
<1>12. g[n] \in Seq(S) /\ DOMAIN g[n] = 1 .. R(n)
  <2>1. g[n] \in Seq(S)
    BY <1>1, <1>6
  <2>2. QED
    BY <1>11, <2>1
<1>13. ASSUME NEW k \in DOMAIN Only(s, D)
       PROVE  \E i \in DOMAIN s : s[i] \in D /\ Only(s, D)[k] = s[i] /\ k = Rank(s, D, i)
  BY <1>1, <1>5, <1>11, <1>12, <1>13
<1>14. ASSUME NEW i \in DOMAIN s, s[i] \in D
       PROVE  Rank(s, D, i) \in DOMAIN Only(s, D) /\ Only(s, D)[Rank(s, D, i)] = s[i]
  BY <1>1, <1>5, <1>11, <1>12, <1>14
<1>15. QED
  BY <1>5, <1>12, <1>13, <1>14

LEMMA OnlyIs ==
    ASSUME NEW S, NEW s \in Seq(S), NEW D
    PROVE  Only(s, D) \in Seq(S) /\ ToSet(Only(s, D)) = ToSet(s) \cap D
<1>1. \A x \in ToSet(Only(s, D)) : x \in ToSet(s) \cap D
  BY OnlyRanks DEF ToSet
<1>2. ASSUME NEW x \in ToSet(s) \cap D PROVE x \in ToSet(Only(s, D))
  <2>1. PICK i \in DOMAIN s : x = s[i] /\ s[i] \in D
    BY DEF ToSet
  <2>2. Rank(s, D, i) \in DOMAIN Only(s, D) /\ Only(s, D)[Rank(s, D, i)] = s[i]
    BY <2>1, OnlyRanks
  <2>3. QED
    BY <2>1, <2>2 DEF ToSet
<1>3. QED
  BY <1>1, <1>2, OnlyRanks

-----------------------------------------------------------------------------
(* The run of a fetcher.                                                    *)
Ways    == {"id", "entity hit", "page", "id or hash", "hash"}
Keys    == {Key(by, part, d) : by \in Ways, part \in Nat, d \in Documents}
Reads   == [id : Keys, doc : Documents]
Replies == [ok : BOOLEAN, part : Nat, docs : Seq(Documents)]

KeyedRows(by, r, keep) ==
    [j \in DOMAIN Only(r.docs, keep) |->
        [id |-> Key(by, r.part, Only(r.docs, keep)[j]), doc |-> Only(r.docs, keep)[j]]]

LEMMA SeqMade ==
    ASSUME NEW S, NEW n \in Nat, NEW f \in [1 .. n -> S]
    PROVE  f \in Seq(S) /\ Len(f) = n /\ DOMAIN f = 1 .. n
  OBVIOUS

LEMMA KeyedRowsAre ==
    ASSUME NEW by \in Ways, NEW r \in Replies, NEW keep
    PROVE  /\ KeyedRows(by, r, keep) \in Seq(Reads)
           /\ \A x \in ToSet(KeyedRows(by, r, keep)) : x.id = Key(by, r.part, x.doc) /\ x.doc \in keep
           /\ \A d \in ToSet(r.docs) \cap keep : \E x \in ToSet(KeyedRows(by, r, keep)) : x.doc = d
<1> DEFINE kept == Only(r.docs, keep)
           rows == KeyedRows(by, r, keep)
<1>1. r.docs \in Seq(Documents) /\ r.part \in Nat
  BY DEF Replies
<1>2. kept \in Seq(Documents) /\ ToSet(kept) = ToSet(r.docs) \cap keep
  BY <1>1, OnlyIs
<1>3. Len(kept) \in Nat /\ DOMAIN kept = 1 .. Len(kept) /\ \A j \in 1 .. Len(kept) : kept[j] \in Documents
  <2> HIDE DEF kept
  <2>1. QED
    BY <1>2
<1>4. rows = [j \in DOMAIN kept |-> [id |-> Key(by, r.part, kept[j]), doc |-> kept[j]]]
  BY DEF KeyedRows
<1> HIDE DEF kept, rows
<1>5. rows \in [1 .. Len(kept) -> Reads]
  BY <1>1, <1>3, <1>4 DEF Keys, Reads
<1>6. rows \in Seq(Reads) /\ DOMAIN rows = DOMAIN kept
  BY <1>3, <1>5, SeqMade
<1>7. \A j \in DOMAIN kept : rows[j].id = Key(by, r.part, kept[j]) /\ rows[j].doc = kept[j]
  BY <1>4
<1>8. \A x \in ToSet(rows) : x.id = Key(by, r.part, x.doc) /\ x.doc \in keep
  BY <1>2, <1>6, <1>7 DEF ToSet
<1>9. \A d \in ToSet(kept) : \E x \in ToSet(rows) : x.doc = d
  BY <1>6, <1>7 DEF ToSet
<1>10. QED
  BY <1>2, <1>6, <1>8, <1>9 DEF rows

(* A run yields the kept documents of its replies, all of them if it is not *)
(* limited and succeeds.                                                    *)
LEMMA FetchedIs ==
    ASSUME NEW q, q.limit \in Nat \cup {Unlimited}, q.up \in Nat,
           NEW replies \in Seq(Replies), NEW keep, NEW by \in Ways
    PROVE  LET run == Fetched(q, replies, keep, by) IN
           /\ run.rows \in Seq(Reads)
           /\ \A x \in ToSet(run.rows) : \E part \in Nat : x.id = Key(by, part, x.doc)
           /\ q.limit = Unlimited /\ run.ok =>
                \A i \in DOMAIN replies :
                    /\ replies[i].ok
                    /\ \A d \in ToSet(replies[i].docs) \cap keep : \E x \in ToSet(run.rows) : x.doc = d
<1> DEFINE run == Fetched(q, replies, keep, by)
           asked == IF q.up < Len(replies) THEN Append(SubSeq(replies, 1, q.up), Fault) ELSE replies
           bad == {i \in DOMAIN asked : ~asked[i].ok}
           m == IF bad = {} THEN Len(asked) ELSE Min(bad) - 1
           seqs == [i \in 1 .. m |-> KeyedRows(by, asked[i], keep)]
           rows == FlattenSeq(seqs)
           full == q.limit # Unlimited /\ Len(rows) >= q.limit
<1>1. run = [rows |-> IF full THEN SubSeq(rows, 1, q.limit) ELSE rows, ok |-> full \/ bad = {}]
  BY DEF Fetched, KeyedRows
<1>2. Fault \in Replies
  BY DEF Fault, Replies
<1>3. asked \in Seq(Replies) /\ Len(asked) \in Nat
  BY <1>2
<1>4. bad = {} => (q.limit = Unlimited => asked = replies)
  <2>1. CASE q.up < Len(replies)
    <3>1. SubSeq(replies, 1, q.up) \in Seq(Replies) /\ Len(SubSeq(replies, 1, q.up)) = q.up
      BY <2>1
    <3>2. q.up + 1 \in DOMAIN asked /\ asked[q.up + 1] = Fault
      BY <1>2, <2>1, <3>1
    <3>3. bad # {}
      BY <3>2 DEF Fault
    <3>4. QED
      BY <3>3
  <2>2. QED
    BY <2>1
<1>5. bad \subseteq 1 .. Len(asked)
  BY <1>3
<1> HIDE DEF asked, run
<1>6. m \in Nat /\ m <= Len(asked)
  <2>1. CASE bad # {}
    <3>1. bad \in SUBSET Nat
      BY <1>5
    <3>2. \E i \in bad : \A j \in bad : i <= j
      <4> HIDE DEF bad
      <4>1. QED
        BY <2>1, <3>1, LeastOf
    <3>3. Min(bad) \in bad
      BY <3>2 DEF Min
    <3>4. QED
      BY <1>3, <1>5, <2>1, <3>3
  <2>2. QED
    BY <1>3, <2>1
<1>7. m = Len(asked) \/ bad # {}
  OBVIOUS
<1>8. \A i \in 1 .. Len(asked) : asked[i] \in Replies
  BY <1>3
<1>9. DOMAIN asked = 1 .. Len(asked)
  BY <1>3
<1> HIDE DEF m
<1>10. seqs \in [1 .. m -> Seq(Reads)]
  BY <1>3, <1>6, <1>8, KeyedRowsAre
<1>11. seqs \in Seq(Seq(Reads)) /\ DOMAIN seqs = 1 .. m
  <2> HIDE DEF seqs
  <2>1. QED
    BY <1>6, <1>10, SeqMade
<1>12. \A i \in 1 .. m : seqs[i] = KeyedRows(by, asked[i], keep)
  OBVIOUS
<1> HIDE DEF seqs
<1>13. rows \in Seq(Reads) /\ \A x : x \in ToSet(rows) <=> \E i \in DOMAIN seqs : x \in ToSet(seqs[i])
  BY <1>11, FlattenParts
<1> HIDE DEF rows
<1>14. run.rows \in Seq(Reads) /\ ToSet(run.rows) \subseteq ToSet(rows)
  <2>1. CASE full
    <3>1. q.limit \in Nat /\ q.limit <= Len(rows) /\ run.rows = SubSeq(rows, 1, q.limit)
      BY <1>1, <1>13, <2>1
    <3>2. run.rows \in Seq(Reads) /\ DOMAIN run.rows = 1 .. q.limit
          /\ \A i \in 1 .. q.limit : run.rows[i] = rows[i] /\ i \in DOMAIN rows
      BY <1>13, <3>1
    <3>3. QED
      BY <3>2 DEF ToSet
  <2>2. CASE ~full
    BY <1>1, <1>13, <2>2
  <2>3. QED
    BY <2>1, <2>2
<1>15. \A x \in ToSet(run.rows) : \E part \in Nat : x.id = Key(by, part, x.doc)
  <2> SUFFICES ASSUME NEW x \in ToSet(run.rows) PROVE \E part \in Nat : x.id = Key(by, part, x.doc)
    OBVIOUS
  <2>1. PICK i \in 1 .. m : x \in ToSet(KeyedRows(by, asked[i], keep))
    BY <1>11, <1>12, <1>13, <1>14
  <2>2. asked[i] \in Replies
    BY <1>3, <1>6, <1>8
  <2>3. x.id = Key(by, asked[i].part, x.doc) /\ asked[i].part \in Nat
    BY <2>1, <2>2, KeyedRowsAre DEF Replies
  <2>4. QED
    BY <2>3
<1>16. ASSUME q.limit = Unlimited, run.ok, NEW i \in DOMAIN replies
       PROVE  /\ replies[i].ok
              /\ \A d \in ToSet(replies[i].docs) \cap keep : \E x \in ToSet(run.rows) : x.doc = d
  <2>1. bad = {} /\ run.rows = rows
    BY <1>1, <1>16
  <2>2. asked = replies /\ m = Len(replies)
    BY <1>4, <1>7, <1>16, <2>1
  <2>3. i \in 1 .. m /\ replies[i] \in Replies /\ replies[i].ok
    BY <1>9, <1>16, <2>1, <2>2
  <2>4. ASSUME NEW d \in ToSet(replies[i].docs) \cap keep PROVE \E x \in ToSet(run.rows) : x.doc = d
    <3>1. PICK x \in ToSet(KeyedRows(by, replies[i], keep)) : x.doc = d
      BY <2>3, KeyedRowsAre
    <3>2. x \in ToSet(rows)
      BY <1>11, <1>12, <1>13, <2>2, <2>3, <3>1
    <3>3. QED
      BY <2>1, <3>1, <3>2
  <2>5. QED
    BY <2>3, <2>4
<1>17. QED
  BY <1>14, <1>15, <1>16 DEF run

-----------------------------------------------------------------------------
(* What a site lists, and what a run of a fetcher owes it.                  *)
Forms   == {"known", "uncounted", "empty"}
Queries == {Query(limit, up, form) : limit \in Nat \cup {Unlimited}, up \in Nat, form \in Forms}

SiteTyped ==
    /\ src \in Sources /\ today \in Nat /\ today >= Window
    /\ site \in Seq(Documents)
    /\ \A i \in DOMAIN site :
          /\ src \in ByPart => site[i].parts \cap ToSet(Parts[src]) # {}
          /\ src = "nerc_calendar" /\ site[i].day # Undated =>
                site[i].day \div MonthDays \in site[i].parts
          /\ src = "nerc_enforcement" /\ site[i].day # Undated =>
                site[i].day \div YearDays \in site[i].parts

(* What a run yields has the key of its document; a run asked for all of it,*)
(* if it succeeds, brings in each document that is wanted: so it does if    *)
(* each is in some reply, unless a reply is an error, and the fetcher keeps it.*)
Yields(run, by) ==
    /\ run.rows \in Seq(Reads)
    /\ \A x \in ToSet(run.rows) : \E part \in Nat : x.id = Key(by, part, x.doc)

Brings(run, q) ==
    q.limit = Unlimited /\ q.form = "known" /\ run.ok =>
        \A i \in DOMAIN site : Wanted(i) => \E x \in ToSet(run.rows) : x.doc = site[i]

Reaches(replies, keep) ==
    (\A r \in ToSet(replies) : r.ok) =>
        \A i \in DOMAIN site : Wanted(i) =>
            site[i] \in keep /\ \E r \in ToSet(replies) : site[i] \in ToSet(r.docs)

LEMMA QueryIs ==
    ASSUME NEW q \in Queries
    PROVE  /\ q.src = src /\ q.site = site /\ q.today = today
           /\ q.limit \in Nat \cup {Unlimited} /\ q.up \in Nat /\ q.form \in Forms
  BY DEF Queries, Query

LEMMA RunIs ==
    ASSUME NEW q \in Queries, NEW replies \in Seq(Replies), NEW keep, NEW by \in Ways,
           q.form = "known" => Reaches(replies, keep)
    PROVE  Yields(Fetched(q, replies, keep, by), by) /\ Brings(Fetched(q, replies, keep, by), q)
<1> DEFINE run == Fetched(q, replies, keep, by)
<1>1. /\ run.rows \in Seq(Reads)
      /\ \A x \in ToSet(run.rows) : \E part \in Nat : x.id = Key(by, part, x.doc)
      /\ q.limit = Unlimited /\ run.ok =>
           \A i \in DOMAIN replies :
               /\ replies[i].ok
               /\ \A d \in ToSet(replies[i].docs) \cap keep : \E x \in ToSet(run.rows) : x.doc = d
  BY QueryIs, FetchedIs
<1> HIDE DEF run
<1>2. Brings(run, q)
  <2> SUFFICES ASSUME q.limit = Unlimited, q.form = "known", run.ok, NEW i \in DOMAIN site, Wanted(i)
               PROVE  \E x \in ToSet(run.rows) : x.doc = site[i]
    BY DEF Brings
  <2>1. \A r \in ToSet(replies) : r.ok
    BY <1>1 DEF ToSet
  <2>2. site[i] \in keep /\ \E r \in ToSet(replies) : site[i] \in ToSet(r.docs)
    BY <2>1 DEF Reaches
  <2>3. PICK j \in DOMAIN replies : site[i] \in ToSet(replies[j].docs)
    BY <2>2 DEF ToSet
  <2>4. QED
    BY <1>1, <2>2, <2>3
<1>3. QED
  BY <1>1, <1>2 DEF run, Yields

LEMMA ServedIs ==
    ASSUME SiteTyped, NEW q \in Queries
    PROVE  /\ Served(q) \in Seq(Documents) /\ Docs(q) = ToSet(site)
           /\ q.form = "known" => Served(q) = site
           /\ \A i \in DOMAIN site : site[i] \in Docs(q) /\ site[i] \in Documents
  BY QueryIs DEF Served, Docs, SiteTyped, ToSet

LEMMA ListedIs ==
    ASSUME SiteTyped, NEW q \in Queries, NEW part
    PROVE  /\ Listed(q, part) \in Seq(Documents)
           /\ q.form = "known" => \A i \in DOMAIN site : part \in site[i].parts => site[i] \in ToSet(Listed(q, part))
<1> DEFINE D == {d \in Docs(q) : part \in d.parts}
<1>1. Listed(q, part) = Only(Served(q), D)
  BY DEF Listed
<1>2. Only(Served(q), D) \in Seq(Documents) /\ ToSet(Only(Served(q), D)) = ToSet(Served(q)) \cap D
  <2> HIDE DEF D
  <2>1. QED
    BY ServedIs, OnlyIs
<1>3. QED
  BY <1>1, <1>2, ServedIs DEF ToSet

LEMMA PartOf ==
    ASSUME SiteTyped, src \in ByPart
    PROVE  /\ Parts[src] \in Seq(Nat)
           /\ \A i \in DOMAIN site : \E k \in DOMAIN Parts[src] : Parts[src][k] \in site[i].parts
<1>1. src \in DOMAIN Parts
  BY PipelineAssumption DEF SiteTyped, PipelineAssumption
<1>2. Parts[src] \in Seq(Nat)
  BY <1>1, FetchersAssumption DEF FetchersAssumption
<1>3. QED
  BY <1>2 DEF SiteTyped, ToSet

LEMMA TimesMonotone ==
    ASSUME NEW a \in Nat, NEW b \in Nat, NEW c \in Nat, a <= b
    PROVE  c * a <= c * b
<1>1. PICK e \in Nat : b = a + e
  <2>1. b - a \in Nat /\ b = a + (b - a)
    OBVIOUS
  <2>2. QED
    BY <2>1
<1>2. c * b = c * a + c * e /\ c * e \in Nat /\ c * a \in Nat
  BY <1>1
<1>3. QED
  BY <1>2

LEMMA DivFacts ==
    ASSUME NEW a \in Nat, NEW b \in Nat \ {0}
    PROVE  a \div b \in Nat /\ b * (a \div b) <= a /\ a < b * (a \div b) + b
  OBVIOUS

LEMMA OfTwo ==
    ASSUME NEW a \in Int, NEW b \in Int
    PROVE  /\ Min({a, b}) \in {a, b} /\ Min({a, b}) <= a /\ Min({a, b}) <= b
           /\ Max({a, b}) \in {a, b} /\ Max({a, b}) >= a /\ Max({a, b}) >= b
<1>1. \E m \in {a, b} : \A y \in {a, b} : m <= y
  <2>1. CASE a <= b
    BY <2>1
  <2>2. CASE b <= a
    BY <2>2
  <2>3. QED
    BY <2>1, <2>2
<1>2. Min({a, b}) \in {a, b} /\ \A y \in {a, b} : Min({a, b}) <= y
  BY <1>1 DEF Min
<1>3. \E m \in {a, b} : \A y \in {a, b} : m >= y
  <2>1. CASE a <= b
    BY <2>1
  <2>2. CASE b <= a
    BY <2>2
  <2>3. QED
    BY <2>1, <2>2
<1>4. Max({a, b}) \in {a, b} /\ \A y \in {a, b} : Max({a, b}) >= y
  BY <1>3 DEF Max
<1>5. QED
  BY <1>2, <1>4

(* A listing in pages: how many, and on which a document comes.             *)
LEMMA PagesAre ==
    ASSUME NEW part \in Nat, NEW docs \in Seq(Documents)
    PROVE  /\ Pages(part, docs) \in Seq(Replies)
           /\ Len(Pages(part, docs)) <= Len(docs) + 1
           /\ \A i \in DOMAIN Pages(part, docs) : Pages(part, docs)[i].ok
           /\ \A k \in DOMAIN docs : \E i \in DOMAIN Pages(part, docs) :
                 docs[k] \in ToSet(Pages(part, docs)[i].docs) /\ PageSize * (i - 1) < k
<1> DEFINE P == PageSize
           n == Len(docs)
           N == (n + P - 1) \div P
           M == Max({1, N})
           page(i) == SubSeq(docs, (i - 1) * P + 1, Min({i * P, n}))
           pages == [i \in 1 .. M |-> Answer(part, page(i))]
<1>1. P \in Nat \ {0} /\ n \in Nat /\ n + P - 1 \in Nat
  BY FetchersAssumption DEF FetchersAssumption
<1>2. Pages(part, docs) = pages
  BY DEF Pages
<1> HIDE DEF P, n
<1>3. N \in Nat /\ P * N <= n + P - 1 /\ n + P - 1 < P * N + P
  BY <1>1, DivFacts
<1> HIDE DEF N
<1>4. M \in Nat /\ M >= 1 /\ M >= N /\ (M = 1 \/ M = N)
  <2>1. 1 \in Int /\ N \in Int
    BY <1>3
  <2>2. M \in {1, N} /\ M >= 1 /\ M >= N
    BY <2>1, OfTwo, Zenon
  <2> HIDE DEF M
  <2>3. QED
    BY <1>3, <2>2
<1>5. N <= n + 1
  <2>1. SUFFICES ASSUME n + 2 <= N PROVE FALSE
    BY <1>1, <1>3
  <2>2. P * (n + 2) <= P * N
    BY <1>1, <1>3, <2>1, TimesMonotone
  <2>3. P * (n + 2) = P * n + P * 2 /\ P * n \in Nat /\ 1 * n <= P * n
    <3>1. n * 1 <= n * P
      BY <1>1, TimesMonotone
    <3>2. QED
      BY <1>1, <3>1
  <2>4. QED
    BY <1>1, <1>3, <2>2, <2>3
<1>6. ASSUME NEW i \in Nat \ {0}
      PROVE  /\ (i - 1) * P \in Nat /\ i * P \in Nat /\ i * P = (i - 1) * P + P
             /\ Min({i * P, n}) \in Nat /\ Min({i * P, n}) <= n /\ Min({i * P, n}) <= i * P
             /\ Min({i * P, n}) = n \/ Min({i * P, n}) = i * P
  <2>1. (i - 1) * P \in Nat /\ i * P \in Nat /\ i * P = (i - 1) * P + P
    BY <1>1
  <2>2. \A x \in Nat : Min({x, n}) \in {x, n} /\ Min({x, n}) <= n /\ Min({x, n}) <= x
    <3> SUFFICES ASSUME NEW x \in Nat
                 PROVE  Min({x, n}) \in {x, n} /\ Min({x, n}) <= n /\ Min({x, n}) <= x
      OBVIOUS
    <3>1. x \in Int /\ n \in Int
      BY <1>1
    <3>2. QED
      BY <3>1, OfTwo, Zenon
  <2>3. QED
    BY <1>1, <2>1, <2>2
<1> HIDE DEF M
<1>7. ASSUME NEW i \in 1 .. M PROVE page(i) \in Seq(Documents) /\ Answer(part, page(i)) \in Replies
  <2> i \in Nat \ {0}
    BY <1>4
  <2>1. (i - 1) * P \in Nat /\ Min({i * P, n}) \in Nat /\ Min({i * P, n}) <= n
    BY <1>6, Zenon
  <2>2. page(i) \in Seq(Documents)
    <3> DEFINE a == (i - 1) * P + 1
               b == Min({i * P, n})
    <3> HIDE DEF a, b
    <3>1. a \in Nat /\ a >= 1 /\ b \in Nat /\ b <= n
      <4> DEFINE e == (i - 1) * P
      <4>1. e \in Nat /\ a = e + 1 /\ b \in Nat /\ b <= n
        BY <2>1, Zenon DEF a, b
      <4> HIDE DEF e
      <4>2. QED
        BY <4>1
    <3>2. SubSeq(docs, a, b) \in Seq(Documents)
      BY <3>1 DEF n
    <3>3. QED
      BY <3>2 DEF a, b
  <2>3. QED
    BY <2>2 DEF Answer, Replies
<1>8. pages \in [1 .. M -> Replies]
  <2> HIDE DEF page
  <2>1. QED
    BY <1>7
<1>9. pages \in Seq(Replies) /\ Len(pages) = M /\ DOMAIN pages = 1 .. M
  <2> HIDE DEF pages
  <2>1. QED
    BY <1>4, <1>8, SeqMade
<1>10. \A i \in 1 .. M : pages[i].ok
  BY DEF Answer
<1>11. ASSUME NEW k \in DOMAIN docs
       PROVE  \E i \in 1 .. M : docs[k] \in ToSet(pages[i].docs) /\ P * (i - 1) < k
  <2> DEFINE x == (k - 1) \div P
             i == x + 1
  <2>1. k \in Nat /\ 1 <= k /\ k <= n /\ k - 1 \in Nat
    BY DEF n
  <2>2. x \in Nat /\ P * x <= k - 1 /\ k - 1 < P * x + P
    BY <1>1, <2>1, DivFacts
  <2> HIDE DEF x
  <2>3. i \in Nat \ {0} /\ i - 1 = x /\ (i - 1) * P = P * x
    BY <1>1, <2>2
  <2>4. i <= N
    <3>1. SUFFICES ASSUME N <= x PROVE FALSE
      BY <1>3, <2>2
    <3>2. P * N <= P * x
      BY <1>1, <1>3, <2>2, <3>1, TimesMonotone
    <3>3. P * N \in Nat /\ P * x \in Nat
      BY <1>1, <1>3, <2>2
    <3>4. QED
      BY <1>1, <1>3, <2>1, <2>2, <3>2, <3>3
  <2>5. i \in 1 .. M
    BY <1>3, <1>4, <2>3, <2>4
  <2> DEFINE a == (i - 1) * P + 1
             b == Min({i * P, n})
  <2>6. a \in Nat /\ a >= 1 /\ a <= k /\ b \in Nat /\ k <= b /\ b <= n
    <3>1. (i - 1) * P \in Nat /\ i * P = (i - 1) * P + P
      BY <1>6, <2>3
    <3>2. a <= k /\ k <= i * P
      BY <1>1, <2>1, <2>2, <2>3, <3>1
    <3>3. b \in Nat /\ b <= n /\ (b = n \/ b = i * P)
      BY <1>6, <2>3
    <3>4. QED
      BY <2>1, <3>1, <3>2, <3>3
  <2>7. pages[i].docs = SubSeq(docs, a, b)
    BY <2>5 DEF Answer
  <2> HIDE DEF a, b, pages, i
  <2>8. k - a + 1 \in DOMAIN SubSeq(docs, a, b) /\ SubSeq(docs, a, b)[k - a + 1] = docs[k]
    BY <2>1, <2>6 DEF n
  <2>9. docs[k] \in ToSet(pages[i].docs)
    BY <2>7, <2>8 DEF ToSet
  <2>10. P * (i - 1) < k
    BY <1>1, <2>1, <2>2, <2>3
  <2>11. QED
    BY <2>5, <2>9, <2>10
<1>12. QED
  <2> HIDE DEF pages
  <2>1. M <= n + 1
    BY <1>1, <1>3, <1>4, <1>5
  <2>2. QED
    BY <1>2, <1>9, <1>10, <1>11, <2>1 DEF P, n

-----------------------------------------------------------------------------
(* The replies the fetchers put together.                                   *)
LEMMA AnswerIs ==
    ASSUME NEW part \in Nat, NEW docs \in Seq(Documents)
    PROVE  Answer(part, docs) \in Replies /\ Answer(part, docs).ok /\ Answer(part, docs).docs = docs
  BY DEF Answer, Replies

LEMMA OneReply ==
    ASSUME NEW r \in Replies
    PROVE  <<r>> \in Seq(Replies) /\ ToSet(<<r>>) = {r}
  BY DEF ToSet

LEMMA UpToIs ==
    ASSUME NEW n \in Nat, NEW s \in Seq(Replies)
    PROVE  /\ UpTo(n, s) \in Seq(Replies) /\ ToSet(UpTo(n, s)) \subseteq ToSet(s)
           /\ \A i \in DOMAIN s : i <= n => s[i] \in ToSet(UpTo(n, s))
<1> DEFINE m == Min({n, Len(s)})
<1>1. n \in Int /\ Len(s) \in Int
  OBVIOUS
<1>2. m \in {n, Len(s)} /\ m <= n /\ m <= Len(s)
  BY <1>1, OfTwo, Zenon
<1> HIDE DEF m
<1>3. m \in Nat /\ m <= Len(s)
  BY <1>2
<1>4. SubSeq(s, 1, m) \in Seq(Replies) /\ DOMAIN SubSeq(s, 1, m) = 1 .. m
      /\ \A i \in 1 .. m : i \in DOMAIN s /\ SubSeq(s, 1, m)[i] = s[i]
  BY <1>3
<1>5. \A i \in DOMAIN s : i <= n => i \in 1 .. m
  BY <1>2
<1>6. QED
  BY <1>4, <1>5 DEF UpTo, ToSet, m

LEMMA OrFaultIs ==
    ASSUME NEW n \in Nat, NEW s \in Seq(Replies)
    PROVE  /\ OrFault(n, s) \in Seq(Replies)
           /\ (\A r \in ToSet(OrFault(n, s)) : r.ok) => OrFault(n, s) = s
<1>1. Fault \in Replies /\ ~Fault.ok
  BY DEF Fault, Replies
<1>2. UpTo(n, s) \in Seq(Replies)
  BY UpToIs
<1>3. CASE n < Len(s)
  <2> DEFINE u == UpTo(n, s)
  <2>1. OrFault(n, s) = Append(u, Fault)
    BY <1>3 DEF OrFault
  <2> HIDE DEF u
  <2>2. Append(u, Fault) \in Seq(Replies) /\ Fault \in ToSet(Append(u, Fault))
    <3>1. u \in Seq(Replies)
      BY <1>2 DEF u
    <3>2. Append(u, Fault)[Len(u) + 1] = Fault /\ Len(u) + 1 \in DOMAIN Append(u, Fault)
      BY <1>1, <3>1
    <3>3. QED
      BY <1>1, <3>1, <3>2 DEF ToSet
  <2>3. QED
    BY <1>1, <2>1, <2>2
<1>4. CASE ~ (n < Len(s))
  BY <1>4 DEF OrFault
<1>5. QED
  BY <1>3, <1>4

(* The pages of a listing hold all of it.                                   *)
LEMMA PagesCover ==
    ASSUME NEW part \in Nat, NEW docs \in Seq(Documents), NEW d \in ToSet(docs)
    PROVE  \E r \in ToSet(Pages(part, docs)) : d \in ToSet(r.docs)
<1> DEFINE pages == Pages(part, docs)
<1>1. PICK k \in DOMAIN docs : d = docs[k]
  BY DEF ToSet
<1>2. PICK i \in DOMAIN pages : docs[k] \in ToSet(pages[i].docs)
  BY PagesAre
<1> HIDE DEF pages
<1>3. \E r \in ToSet(pages) : d \in ToSet(r.docs)
  BY <1>1, <1>2 DEF ToSet
<1>4. QED
  BY <1>3 DEF pages

LEMMA WholeIs ==
    ASSUME SiteTyped, NEW q \in Queries
    PROVE  /\ Whole(q) \in Seq(Replies)
           /\ q.form = "known" =>
                \A i \in DOMAIN site : \E r \in ToSet(Whole(q)) : site[i] \in ToSet(r.docs)
<1> DEFINE r == Answer(1, Served(q))
<1>1. r \in Replies /\ r.docs = Served(q)
  BY ServedIs, AnswerIs
<1>2. Whole(q) = <<r>>
  BY DEF Whole
<1> HIDE DEF r
<1>3. QED
  BY <1>1, <1>2, OneReply, ServedIs DEF ToSet

LEMMA ListedPerPart ==
    ASSUME SiteTyped, src \in ByPart, NEW q \in Queries
    PROVE  LET replies == PerPart(q, LAMBDA p : <<Answer(p, Listed(q, p))>>) IN
           /\ replies \in Seq(Replies)
           /\ q.form = "known" =>
                \A i \in DOMAIN site : \E r \in ToSet(replies) : site[i] \in ToSet(r.docs)
<1> DEFINE n == Len(Parts[src])
           ask(p) == <<Answer(p, Listed(q, p))>>
           asks == [i \in DOMAIN Parts[src] |-> ask(Parts[src][i])]
<1>1. n \in Nat /\ DOMAIN Parts[src] = 1 .. n /\ \A i \in 1 .. n : Parts[src][i] \in Nat
  BY PartOf
<1>2. \A p \in Nat : ask(p) \in Seq(Replies) /\ ToSet(ask(p)) = {Answer(p, Listed(q, p))}
  BY ListedIs, AnswerIs, OneReply
<1>3. PerPart(q, LAMBDA p : <<Answer(p, Listed(q, p))>>) = FlattenSeq(asks)
  BY QueryIs DEF PerPart
<1>4. \A i \in 1 .. n : asks[i] = ask(Parts[src][i])
  BY <1>1
<1>5. asks \in [1 .. n -> Seq(Replies)]
  <2> HIDE DEF ask, n
  <2>1. QED
    BY <1>1, <1>2
<1> HIDE DEF asks, n, ask
<1>6. asks \in Seq(Seq(Replies)) /\ DOMAIN asks = 1 .. n
  BY <1>1, <1>5, SeqMade
<1>7. FlattenSeq(asks) \in Seq(Replies)
      /\ \A x : x \in ToSet(FlattenSeq(asks)) <=> \E i \in DOMAIN asks : x \in ToSet(asks[i])
  BY <1>6, FlattenParts
<1>8. ASSUME q.form = "known", NEW i \in DOMAIN site
      PROVE  \E r \in ToSet(FlattenSeq(asks)) : site[i] \in ToSet(r.docs)
  <2>1. PICK k \in 1 .. n : Parts[src][k] \in site[i].parts
    BY <1>1, PartOf
  <2> DEFINE p == Parts[src][k]
             r == Answer(p, Listed(q, p))
  <2>2. p \in Nat /\ r \in ToSet(asks[k])
    BY <1>1, <1>2, <1>4
  <2>3. r.docs = Listed(q, p)
    BY <2>2, ListedIs, AnswerIs
  <2>4. site[i] \in ToSet(Listed(q, p))
    BY <1>8, <2>1, ListedIs
  <2> HIDE DEF r, p
  <2>5. QED
    BY <1>6, <1>7, <2>2, <2>3, <2>4
<1>9. QED
  BY <1>3, <1>7, <1>8

-----------------------------------------------------------------------------
(* What each fetcher yields and, when it succeeds, what it brings in.       *)
Good(q, run, by) == Yields(run, by) /\ Brings(run, q)

LEMMA DayIs ==
    ASSUME SiteTyped, NEW i \in DOMAIN site
    PROVE  site[i].day = Undated \/ site[i].day \in Int
<1>1. site[i] \in Documents
  BY DEF SiteTyped
<1>2. QED
  BY <1>1 DEF Documents

(* A wanted document is one its fetcher keeps.                              *)
LEMMA WantedIs ==
    ASSUME SiteTyped, NEW q \in Queries, NEW i \in DOMAIN site, Wanted(i)
    PROVE  /\ ~CutOff(i) /\ site[i] \in Docs(q)
           /\ src \notin {"nerc_pages", "nerc_calendar", "nerc_enforcement"} => site[i] \in NotOld(q)
           /\ src \in {"sec_edgar_submissions", "phmsa_enforcement", "epa_echo", "usaspending"} =>
                site[i] \in Fit(q) \cap Recent(q)
           /\ src \in {"sec_edgar_fulltext", "federal_register", "nvd"} =>
                site[i].day \in Int /\ site[i].day >= today - Window /\ site[i].day <= today
<1>1. today \in Int /\ Window \in Int /\ Undated \notin Int
  BY FetchersAssumption DEF SiteTyped, FetchersAssumption
<1>2. ~CutOff(i) /\ site[i] \in Docs(q)
  BY ServedIs DEF Wanted
<1>3. \A lo, hi \in Int : Dated(site[i], lo, hi) =>
         site[i].day # Undated /\ site[i].day \in Int /\ site[i].day >= lo /\ site[i].day <= hi
  BY DayIs DEF Dated
<1>4. today - Window \in Int /\ Since(q) = today - Window
  BY <1>1, QueryIs DEF Since
<1>5. src \notin {"nerc_pages", "nerc_calendar", "nerc_enforcement"} =>
         site[i].day = Undated \/ Dated(site[i], today - Window, today)
  BY DEF Wanted
<1>6. src \notin {"nerc_pages", "nerc_calendar", "nerc_enforcement"} => site[i] \in NotOld(q)
  BY <1>1, <1>2, <1>3, <1>4, <1>5 DEF NotOld
<1>7. src \in {"sec_edgar_submissions", "phmsa_enforcement", "epa_echo", "usaspending"} =>
         site[i].fit /\ Dated(site[i], today - Window, today)
  BY DEF Wanted
<1>8. src \in {"sec_edgar_submissions", "phmsa_enforcement", "epa_echo", "usaspending"} =>
                site[i] \in Fit(q) \cap Recent(q)
  BY <1>1, <1>2, <1>3, <1>4, <1>7 DEF Fit, Recent
<1>9. src \in {"sec_edgar_fulltext", "federal_register", "nvd"} =>
         Dated(site[i], today - Window, today)
  BY DEF Wanted
<1>10. QED
  BY <1>1, <1>2, <1>3, <1>4, <1>6, <1>8, <1>9

LEMMA WholeGood ==
    ASSUME SiteTyped, NEW q \in Queries, NEW by \in Ways,
           src \in {"cisa_kev", "cisa_ics", "the_record", "bleepingcomputer", "ransomware_live"}
    PROVE  Good(q, Fetched(q, Whole(q), NotOld(q), by), by)
<1>1. Whole(q) \in Seq(Replies)
  BY WholeIs
<1>2. \A i \in DOMAIN site : Wanted(i) => site[i] \in NotOld(q)
  BY WantedIs
<1>3. q.form = "known" => Reaches(Whole(q), NotOld(q))
  BY <1>2, WholeIs DEF Reaches
<1>4. QED
  BY <1>1, <1>3, RunIs DEF Good

LEMMA PerPartGood ==
    ASSUME SiteTyped, NEW q \in Queries, NEW by \in Ways, NEW keep, src \in ByPart,
           \A i \in DOMAIN site : Wanted(i) => site[i] \in keep
    PROVE  Good(q, Fetched(q, PerPart(q, LAMBDA p : <<Answer(p, Listed(q, p))>>), keep, by), by)
<1> DEFINE replies == PerPart(q, LAMBDA p : <<Answer(p, Listed(q, p))>>)
<1>1. /\ replies \in Seq(Replies)
      /\ q.form = "known" =>
           \A i \in DOMAIN site : \E r \in ToSet(replies) : site[i] \in ToSet(r.docs)
  BY ListedPerPart
<1> HIDE DEF replies
<1>2. q.form = "known" => Reaches(replies, keep)
  BY <1>1 DEF Reaches
<1>3. Good(q, Fetched(q, replies, keep, by), by)
  BY <1>1, <1>2, RunIs DEF Good
<1>4. QED
  BY <1>3 DEF replies

LEMMA PresswireGood ==
    ASSUME SiteTyped, NEW q \in Queries, src \in {"presswire_prnewswire", "presswire_globenewswire"}
    PROVE  Good(q, Presswire(q), "id or hash")
<1>1. \A i \in DOMAIN site : Wanted(i) => site[i] \in NotOld(q)
  BY WantedIs
<1>2. src \in ByPart /\ "id or hash" \in Ways
  BY DEF ByPart, Ways
<1>3. QED
  BY <1>1, <1>2, PerPartGood DEF Presswire

LEMMA NercPagesGood ==
    ASSUME SiteTyped, NEW q \in Queries, src = "nerc_pages"
    PROVE  Good(q, NercPages(q), "page")
<1>1. \A i \in DOMAIN site : Wanted(i) => site[i] \in Docs(q)
  BY WantedIs
<1>2. src \in ByPart /\ "page" \in Ways
  BY DEF ByPart, Ways
<1>3. QED
  BY <1>1, <1>2, PerPartGood DEF NercPages

LEMMA EdgarGood ==
    ASSUME SiteTyped, NEW q \in Queries, src = "sec_edgar_submissions"
    PROVE  Good(q, Edgar(q), "id or hash")
<1>1. \A i \in DOMAIN site : Wanted(i) => site[i] \in Fit(q) \cap Recent(q)
  BY WantedIs
<1>2. src \in ByPart /\ "id or hash" \in Ways
  BY DEF ByPart, Ways
<1>3. QED
  BY <1>1, <1>2, PerPartGood DEF Edgar

LEMMA PhmsaGood ==
    ASSUME SiteTyped, NEW q \in Queries, src = "phmsa_enforcement"
    PROVE  Good(q, Phmsa(q), "id")
<1> DEFINE r == IF q.form = "empty" THEN Fault ELSE Answer(1, q.site)
           keep == Fit(q) \cap Recent(q)
<1>1. q.site = site /\ site \in Seq(Documents)
  BY QueryIs DEF SiteTyped
<1>2. Answer(1, q.site) \in Replies /\ Answer(1, q.site).docs = site
  BY <1>1, AnswerIs
<1>3. r \in Replies
  BY <1>2 DEF Fault, Replies
<1>4. q.form = "known" => r.docs = site
  BY <1>2
<1>5. \A i \in DOMAIN site : Wanted(i) => site[i] \in keep
  BY WantedIs
<1>6. Phmsa(q) = Fetched(q, <<r>>, keep, "id")
  BY DEF Phmsa
<1> HIDE DEF r, keep
<1>7. <<r>> \in Seq(Replies) /\ ToSet(<<r>>) = {r}
  BY <1>3, OneReply
<1>8. q.form = "known" => Reaches(<<r>>, keep)
  BY <1>4, <1>5, <1>7 DEF Reaches, ToSet
<1>9. QED
  BY <1>6, <1>7, <1>8, RunIs DEF Good, Ways

LEMMA EiaGood ==
    ASSUME SiteTyped, NEW q \in Queries, src = "eia"
    PROVE  Good(q, Eia(q), "id or hash")
<1> DEFINE pages == Pages(1, Served(q))
           n == Counted(q, AllPages(q))
           replies == UpTo(n, pages)
<1>1. Eia(q) = Fetched(q, replies, NotOld(q), "id or hash")
  BY DEF Eia
<1>2. Served(q) \in Seq(Documents) /\ (q.form = "known" => Served(q) = site)
  BY ServedIs
<1>3. pages \in Seq(Replies) /\ Len(pages) <= Len(Served(q)) + 1
  BY <1>2, PagesAre
<1>4. ASSUME q.form = "known", NEW i \in DOMAIN site
      PROVE  \E r \in ToSet(pages) : site[i] \in ToSet(r.docs)
  <2>1. site[i] \in ToSet(Served(q))
    BY <1>2, <1>4 DEF ToSet
  <2>2. QED
    BY <1>2, <2>1, PagesCover
<1>5. n \in Nat /\ (q.form = "known" => n = Len(site) + 1)
  BY QueryIs DEF Counted, AllPages, SiteTyped
<1> HIDE DEF pages, n
<1>6. replies \in Seq(Replies) /\ \A k \in DOMAIN pages : k <= n => pages[k] \in ToSet(replies)
  BY <1>3, <1>5, UpToIs
<1>7. q.form = "known" => ToSet(pages) \subseteq ToSet(replies)
  <2>1. q.form = "known" => \A k \in DOMAIN pages : k <= n
    BY <1>2, <1>3, <1>5 DEF SiteTyped
  <2>2. QED
    BY <1>6, <2>1 DEF ToSet
<1> HIDE DEF replies
<1>8. \A i \in DOMAIN site : Wanted(i) => site[i] \in NotOld(q)
  BY WantedIs
<1>9. q.form = "known" => Reaches(replies, NotOld(q))
  BY <1>4, <1>7, <1>8 DEF Reaches
<1>10. QED
  BY <1>1, <1>6, <1>9, RunIs DEF Good, Ways

LEMMA Flattened ==
    ASSUME NEW n \in Nat, NEW seqs \in [1 .. n -> Seq(Replies)]
    PROVE  /\ FlattenSeq(seqs) \in Seq(Replies)
           /\ \A x : x \in ToSet(FlattenSeq(seqs)) <=> \E i \in 1 .. n : x \in ToSet(seqs[i])
<1>1. seqs \in Seq(Seq(Replies)) /\ DOMAIN seqs = 1 .. n
  BY SeqMade
<1>2. QED
  BY <1>1, FlattenParts

LEMMA AskedPages ==
    ASSUME SiteTyped, src \in Guarded
    PROVE  MaxPages[src] \in Nat \ {0} /\ PageSize \in Nat \ {0}
<1>1. src \in DOMAIN MaxPages
  BY PipelineAssumption DEF SiteTyped, PipelineAssumption
<1>2. QED
  BY <1>1, FetchersAssumption DEF FetchersAssumption

(* The n-th page is as far as a guard of n pages reaches.                   *)
LEMMA GuardReaches ==
    ASSUME NEW part \in Nat, NEW docs \in Seq(Documents), NEW n \in Nat \ {0},
           NEW k \in DOMAIN docs, k <= PageSize * n
    PROVE  \E r \in ToSet(UpTo(n, Pages(part, docs))) : docs[k] \in ToSet(r.docs)
<1> DEFINE pages == Pages(part, docs)
<1>1. PICK i \in DOMAIN pages : docs[k] \in ToSet(pages[i].docs) /\ PageSize * (i - 1) < k
  BY PagesAre
<1>2. pages \in Seq(Replies)
  BY PagesAre
<1> HIDE DEF pages
<1>3. i \in Nat \ {0} /\ k \in Nat /\ PageSize \in Nat
  BY <1>2, FetchersAssumption DEF FetchersAssumption
<1>4. i <= n
  <2>1. SUFFICES ASSUME n <= i - 1 PROVE FALSE
    BY <1>3
  <2>2. PageSize * n <= PageSize * (i - 1)
    <3>1. i - 1 \in Nat /\ n \in Nat
      BY <1>3
    <3>2. QED
      BY <1>3, <2>1, <3>1, TimesMonotone
  <2>3. PageSize * n \in Nat /\ PageSize * (i - 1) \in Nat
    BY <1>3
  <2>4. QED
    BY <1>1, <1>3, <2>2, <2>3
<1>5. pages[i] \in ToSet(UpTo(n, pages))
  BY <1>2, <1>4, UpToIs
<1>6. QED
  BY <1>1, <1>5 DEF pages

(* A listing has no more pages than it has records and one.                 *)
LEMMA AllPagesReach ==
    ASSUME NEW part \in Nat, NEW docs \in Seq(Documents), NEW n \in Nat, Len(docs) + 1 <= n
    PROVE  \A k \in DOMAIN docs : \E r \in ToSet(UpTo(n, Pages(part, docs))) : docs[k] \in ToSet(r.docs)
<1> SUFFICES ASSUME NEW k \in DOMAIN docs
             PROVE  \E r \in ToSet(UpTo(n, Pages(part, docs))) : docs[k] \in ToSet(r.docs)
  OBVIOUS
<1> DEFINE pages == Pages(part, docs)
<1>1. PICK i \in DOMAIN pages : docs[k] \in ToSet(pages[i].docs)
  BY PagesAre
<1>2. pages \in Seq(Replies) /\ Len(pages) <= Len(docs) + 1
  BY PagesAre
<1> HIDE DEF pages
<1>3. i <= n
  BY <1>2
<1>4. pages[i] \in ToSet(UpTo(n, pages))
  BY <1>2, <1>3, UpToIs
<1>5. QED
  BY <1>1, <1>4 DEF pages

LEMMA RankLess ==
    ASSUME NEW s, NEW D, NEW E, D \subseteq E, NEW i \in Nat
    PROVE  Rank(s, D, i) <= Rank(s, E, i)
<1> DEFINE A == {j \in 1 .. i : s[j] \in D}
           B == {j \in 1 .. i : s[j] \in E}
<1>1. IsFiniteSet(1 .. i)
  BY FS_Interval
<1>2. A \subseteq B /\ B \subseteq 1 .. i
  OBVIOUS
<1> HIDE DEF A, B
<1>3. IsFiniteSet(B)
  BY <1>1, <1>2, FS_Subset
<1>4. Cardinality(A) <= Cardinality(B)
  BY <1>2, <1>3, FS_Subset
<1>5. QED
  BY <1>4 DEF Rank, A, B

(* Where what is picked out of s comes to stand when it is picked over again*)
LEMMA RankOfRank ==
    ASSUME NEW S, NEW s \in Seq(S), NEW D, NEW E, NEW i \in 0 .. Len(s)
    PROVE  Rank(Only(s, D), E, Rank(s, D, i)) = Rank(s, D \cap E, i)
<1> DEFINE n == Len(s)
           t == Only(s, D)
           T == {k \in Nat : k <= n => Rank(t, E, Rank(s, D, k)) = Rank(s, D \cap E, k)}
<1> n \in Nat /\ DOMAIN s = 1 .. n
  OBVIOUS
<1>1. 0 \in T
  BY RankSteps
<1>2. ASSUME NEW k \in Nat, k < n, k \in T PROVE k + 1 \in T
  <2> DEFINE x == s[k + 1]
             a == Rank(s, D, k)
  <2>1. /\ a \in Nat
        /\ x \in D => Rank(s, D, k + 1) = a + 1
        /\ x \notin D => Rank(s, D, k + 1) = a
    BY RankSteps
  <2>2. /\ x \in D \cap E => Rank(s, D \cap E, k + 1) = Rank(s, D \cap E, k) + 1
        /\ x \notin D \cap E => Rank(s, D \cap E, k + 1) = Rank(s, D \cap E, k)
    BY RankSteps
  <2>3. Rank(t, E, a) = Rank(s, D \cap E, k)
    BY <1>2
  <2>4. k + 1 \in DOMAIN s
    BY <1>2
  <2>5. x \in D => t[Rank(s, D, k + 1)] = x
    BY <2>4, OnlyRanks
  <2> HIDE DEF x, a, t
  <2>6. /\ t[a + 1] \in E => Rank(t, E, a + 1) = Rank(t, E, a) + 1
        /\ t[a + 1] \notin E => Rank(t, E, a + 1) = Rank(t, E, a)
    BY <2>1, RankSteps
  <2>7. Rank(t, E, Rank(s, D, k + 1)) = Rank(s, D \cap E, k + 1)
    <3>1. CASE x \notin D
      BY <2>1, <2>2, <2>3, <3>1 DEF a
    <3>2. CASE x \in D
      BY <2>1, <2>2, <2>3, <2>5, <2>6, <3>2
    <3>3. QED
      BY <3>1, <3>2
  <2>8. QED
    BY <2>7
<1>3. \A k \in 0 .. n : k \in T
  <2> HIDE DEF T, n
  <2>1. QED
    BY <1>1, <1>2, Climbs
<1>4. i \in T /\ i \in Nat /\ i <= n
  <2> HIDE DEF T
  <2>1. QED
    BY <1>3
<1> HIDE DEF n
<1>5. QED
  BY <1>4

(* Of what is as new, only what stands before a document can push it past a *)
(* page guard.                                                              *)
LEMMA RankWithinGuard ==
    ASSUME SiteTyped, NEW q \in Queries, NEW i \in DOMAIN site, Wanted(i),
           src \in {"federal_register", "sec_edgar_fulltext"}
    PROVE  /\ site[i] \in Recent(q)
           /\ Rank(site, Recent(q), i) <= PageSize * MaxPages[src]
<1> DEFINE n == PageSize * MaxPages[src]
           D == Recent(q)
<1>1. n \in Nat
  <2>1. src \in Guarded
    BY DEF Guarded
  <2>2. QED
    BY <2>1, AskedPages
<1>2. today \in Int /\ Window \in Int /\ Undated \notin Int /\ Since(q) = today - Window /\ q.site = site
  BY QueryIs, FetchersAssumption DEF SiteTyped, FetchersAssumption, Since
<1>3. site[i] \in D
  BY <1>2, WantedIs DEF Recent
<1>4. i \in Nat \ {0} /\ i - 1 \in Nat /\ (i - 1) + 1 = i
  BY DEF SiteTyped
<1>5. Ahead(i) = {j \in 1 .. i - 1 : site[j] \in D}
  <2>1. \A j \in 1 .. i - 1 : j \in DOMAIN site
    BY DEF SiteTyped
  <2>2. \A j \in 1 .. i - 1 : site[j] \in D <=> site[j].day # Undated /\ site[j].day >= today - Window
    BY <1>2, <2>1, ServedIs DEF Recent
  <2> HIDE DEF D
  <2>3. QED
    BY <2>2 DEF Ahead
<1>6. Cardinality(Ahead(i)) = Rank(site, D, i - 1)
  BY <1>5 DEF Rank
<1>7. ~ (Rank(site, D, i - 1) >= n)
  BY <1>6, WantedIs DEF CutOff
<1> HIDE DEF D, n
<1>8. Rank(site, D, i - 1) \in Nat /\ Rank(site, D, i) = Rank(site, D, i - 1) + 1
  <2>1. site[(i - 1) + 1] \in D
    BY <1>3, <1>4
  <2>2. QED
    BY <1>4, <2>1, RankSteps
<1>9. Rank(site, D, i) <= n
  BY <1>1, <1>7, <1>8
<1>10. QED
  BY <1>3, <1>9 DEF D, n

LEMMA FederalRegisterGood ==
    ASSUME SiteTyped, NEW q \in Queries, src = "federal_register"
    PROVE  Good(q, FederalRegister(q), "id or hash")
<1> DEFINE docs == Only(Served(q), Recent(q))
           n == Counted(q, MaxPages["federal_register"])
           replies == UpTo(n, Pages(1, docs))
<1>1. FederalRegister(q) = Fetched(q, replies, Docs(q), "id or hash")
  BY DEF FederalRegister
<1>2. docs \in Seq(Documents)
  BY ServedIs, OnlyRanks
<1>3. MaxPages[src] \in Nat \ {0}
  BY AskedPages DEF Guarded
<1>4. n \in Nat \ {0} /\ (q.form = "known" => n = MaxPages[src])
  BY <1>3 DEF Counted
<1>5. replies \in Seq(Replies)
  BY <1>2, <1>4, PagesAre, UpToIs
<1>6. ASSUME q.form = "known", NEW i \in DOMAIN site, Wanted(i)
      PROVE  \E r \in ToSet(replies) : site[i] \in ToSet(r.docs)
  <2> DEFINE k == Rank(site, Recent(q), i)
  <2>1. Served(q) = site /\ site \in Seq(Documents)
    BY <1>6, ServedIs
  <2>2. site[i] \in Recent(q) /\ k <= PageSize * n
    BY <1>4, <1>6, RankWithinGuard
  <2>3. k \in DOMAIN docs /\ docs[k] = site[i]
    BY <1>6, <2>1, <2>2, OnlyRanks
  <2> HIDE DEF k, n, docs
  <2>4. QED
    BY <1>2, <1>4, <2>2, <2>3, GuardReaches
<1> HIDE DEF replies
<1>7. q.form = "known" => Reaches(replies, Docs(q))
  BY <1>6, WantedIs DEF Reaches
<1>8. QED
  BY <1>1, <1>5, <1>7, RunIs DEF Good, Ways

(* Where a document comes in what one part lists of the window.             *)
LEMMA MatchingIs ==
    ASSUME SiteTyped, NEW q \in Queries, NEW part
    PROVE  /\ Matching(q, part) \in Seq(Documents)
           /\ q.form = "known" =>
                \A i \in DOMAIN site : part \in site[i].parts /\ site[i] \in Recent(q) =>
                    \E k \in DOMAIN Matching(q, part) :
                        Matching(q, part)[k] = site[i] /\ k <= Rank(site, Recent(q), i)
<1> DEFINE D == {d \in Docs(q) : part \in d.parts}
           E == Recent(q)
           list == Only(Served(q), D)
<1>1. Matching(q, part) = Only(list, E)
  BY DEF Matching, Listed
<1>2. list \in Seq(Documents)
  BY ServedIs, OnlyRanks
<1>3. Only(list, E) \in Seq(Documents)
  <2> HIDE DEF list, E
  <2>1. QED
    BY <1>2, OnlyRanks
<1>4. ASSUME q.form = "known", NEW i \in DOMAIN site, part \in site[i].parts, site[i] \in E
      PROVE  \E k \in DOMAIN Only(list, E) : Only(list, E)[k] = site[i] /\ k <= Rank(site, E, i)
  <2> DEFINE a == Rank(site, D, i)
             k == Rank(list, E, a)
  <2>1. Served(q) = site /\ site \in Seq(Documents) /\ site[i] \in D
    BY <1>4, ServedIs
  <2>2. list = Only(site, D)
    BY <2>1
  <2> HIDE DEF D, E, list
  <2>3. i \in 0 .. Len(site) /\ i \in Nat
    BY <2>1
  <2>4. a \in DOMAIN list /\ list[a] = site[i]
    BY <1>4, <2>1, <2>2, OnlyRanks
  <2>5. k \in DOMAIN Only(list, E) /\ Only(list, E)[k] = site[i]
    <3> HIDE DEF a
    <3>1. list[a] \in E
      BY <1>4, <2>4
    <3>2. QED
      BY <1>2, <2>4, <3>1, OnlyRanks
  <2>6. k = Rank(site, D \cap E, i)
    BY <2>1, <2>2, <2>3, RankOfRank
  <2>7. Rank(site, D \cap E, i) <= Rank(site, E, i)
    <3>1. D \cap E \subseteq E
      OBVIOUS
    <3>2. QED
      BY <2>3, <3>1, RankLess
  <2>8. QED
    BY <2>5, <2>6, <2>7
<1>5. QED
  BY <1>1, <1>3, <1>4

LEMMA FulltextGood ==
    ASSUME SiteTyped, NEW q \in Queries, src = "sec_edgar_fulltext"
    PROVE  Good(q, EdgarFulltext(q), "entity hit")
<1> DEFINE n == Counted(q, MaxPages["sec_edgar_fulltext"])
           N == Len(Parts[src])
           ask(p) == UpTo(n, Pages(p, Matching(q, p)))
           asks == [i \in DOMAIN Parts[src] |-> ask(Parts[src][i])]
           replies == FlattenSeq(asks)
<1>1. EdgarFulltext(q) = Fetched(q, replies, Docs(q), "entity hit")
  BY QueryIs DEF EdgarFulltext, PerPart
<1>2. src \in ByPart /\ src \in Guarded
  BY DEF ByPart, Guarded
<1>3. N \in Nat /\ DOMAIN Parts[src] = 1 .. N /\ \A i \in 1 .. N : Parts[src][i] \in Nat
  BY <1>2, PartOf
<1>4. n \in Nat \ {0} /\ (q.form = "known" => n = MaxPages[src])
  BY <1>2, AskedPages DEF Counted
<1> HIDE DEF n
<1>5. \A p \in Nat : ask(p) \in Seq(Replies)
  BY <1>4, MatchingIs, PagesAre, UpToIs
<1>6. \A i \in 1 .. N : asks[i] = ask(Parts[src][i])
  BY <1>3
<1>7. asks \in [1 .. N -> Seq(Replies)]
  <2> HIDE DEF ask, N
  <2>1. QED
    BY <1>3, <1>5
<1> HIDE DEF asks, N
<1>8. replies \in Seq(Replies) /\ \A x : x \in ToSet(replies) <=> \E i \in 1 .. N : x \in ToSet(asks[i])
  BY <1>3, <1>7, Flattened
<1>9. ASSUME q.form = "known", NEW i \in DOMAIN site, Wanted(i)
      PROVE  \E r \in ToSet(replies) : site[i] \in ToSet(r.docs)
  <2>1. PICK j \in 1 .. N : Parts[src][j] \in site[i].parts
    BY <1>2, <1>3, PartOf
  <2> DEFINE p == Parts[src][j]
  <2>2. p \in Nat
    BY <1>3
  <2>3. site[i] \in Recent(q) /\ Rank(site, Recent(q), i) <= PageSize * n
    BY <1>4, <1>9, RankWithinGuard
  <2>4. PICK k \in DOMAIN Matching(q, p) :
            Matching(q, p)[k] = site[i] /\ k <= Rank(site, Recent(q), i)
    BY <1>9, <2>1, <2>3, MatchingIs
  <2>5. k <= PageSize * n
    <3>1. k \in Int /\ Rank(site, Recent(q), i) \in Int /\ PageSize * n \in Int
      <4>1. Matching(q, p) \in Seq(Documents) /\ i \in Nat
        BY MatchingIs DEF SiteTyped
      <4>2. PageSize \in Nat
        BY <1>2, AskedPages
      <4>3. QED
        BY <1>4, <4>1, <4>2, RankSteps
    <3>2. QED
      BY <2>3, <2>4, <3>1
  <2>6. PICK r \in ToSet(ask(p)) : site[i] \in ToSet(r.docs)
    <3>1. Matching(q, p) \in Seq(Documents)
      BY MatchingIs
    <3>2. \E r \in ToSet(ask(p)) : Matching(q, p)[k] \in ToSet(r.docs)
      BY <1>4, <2>2, <2>5, <3>1, GuardReaches
    <3>3. QED
      BY <2>4, <3>2
  <2> HIDE DEF ask
  <2>7. QED
    BY <1>6, <1>8, <2>6
<1> HIDE DEF replies
<1>10. q.form = "known" => Reaches(replies, Docs(q))
  BY <1>9, WantedIs DEF Reaches
<1>11. QED
  BY <1>1, <1>8, <1>10, RunIs DEF Good, Ways

(* The spans cover the window: each of its days is in one of them.          *)
LEMMA SpansCover ==
    ASSUME SiteTyped, NEW q \in Queries, NEW day \in Int, today - Window <= day, day <= today
    PROVE  \E i \in 1 .. (Window + MaxSpan - 1) \div MaxSpan : day \in NvdSpan(q, i)
<1> DEFINE from == today - Window
           off == day - from
           x == IF off = 0 THEN 0 ELSE (off - 1) \div MaxSpan
           N == (Window + MaxSpan - 1) \div MaxSpan
<1>1. Window \in Nat \ {0} /\ MaxSpan \in Nat \ {0} /\ today \in Nat /\ today >= Window
  BY FetchersAssumption DEF FetchersAssumption, SiteTyped
<1>2. off \in Nat /\ off <= Window /\ from \in Nat /\ day = from + off
  BY <1>1
<1>3. Since(q) = from /\ q.today = today
  BY QueryIs DEF Since
<1> HIDE DEF from, off
<1>4. x \in Nat /\ MaxSpan * x <= off /\ off <= MaxSpan * x + MaxSpan
      /\ (off = 0 => x = 0) /\ (off # 0 => MaxSpan * x <= off - 1)
  <2>1. CASE off = 0
    BY <1>1, <2>1
  <2>2. CASE off # 0
    <3>1. off - 1 \in Nat
      BY <1>2, <2>2
    <3>2. x \in Nat /\ MaxSpan * x <= off - 1 /\ off - 1 < MaxSpan * x + MaxSpan
      BY <1>1, <2>2, <3>1, DivFacts
    <3> HIDE DEF x
    <3>3. MaxSpan * x \in Nat
      BY <1>1, <3>2
    <3>4. QED
      BY <1>1, <1>2, <2>2, <3>2, <3>3
  <2>3. QED
    BY <2>1, <2>2
<1>5. N \in Nat /\ Window + MaxSpan - 1 < MaxSpan * N + MaxSpan
  <2>1. Window + MaxSpan - 1 \in Nat
    BY <1>1
  <2>2. QED
    BY <1>1, <2>1, DivFacts
<1> HIDE DEF x, N
<1>6. x + 1 <= N
  <2>1. SUFFICES ASSUME N <= x PROVE FALSE
    BY <1>4, <1>5
  <2>2. MaxSpan * N <= MaxSpan * x
    BY <1>1, <1>4, <1>5, <2>1, TimesMonotone
  <2>3. MaxSpan * N \in Nat /\ MaxSpan * x \in Nat
    BY <1>1, <1>4, <1>5
  <2>4. CASE off = 0
    <3>1. N = 0
      BY <1>4, <1>5, <2>1, <2>4
    <3>2. MaxSpan * N = 0
      BY <1>1, <3>1
    <3>3. QED
      BY <1>1, <1>5, <3>2
  <2>5. CASE off # 0
    BY <1>1, <1>2, <1>4, <1>5, <2>2, <2>3, <2>5
  <2>6. QED
    BY <2>4, <2>5
<1>7. x + 1 \in 1 .. N
  BY <1>4, <1>5, <1>6
<1>8. day \in NvdSpan(q, x + 1)
  <2> DEFINE a == from + x * MaxSpan
  <2>1. ((x + 1) - 1) * MaxSpan = x * MaxSpan
    BY <1>4
  <2>2. NvdSpan(q, x + 1) = a .. Min({a + MaxSpan, today})
    BY <1>3, <2>1 DEF NvdSpan
  <2>3. a \in Int /\ a <= day /\ day <= a + MaxSpan
    <3>1. x * MaxSpan = MaxSpan * x /\ x * MaxSpan \in Nat
      BY <1>1, <1>4
    <3>2. QED
      BY <1>1, <1>2, <1>4, <3>1
  <2> HIDE DEF a
  <2>4. a + MaxSpan \in Int /\ today \in Int
    BY <1>1, <2>3
  <2>5. Min({a + MaxSpan, today}) \in {a + MaxSpan, today}
    BY <2>4, OfTwo, Zenon
  <2>6. day <= Min({a + MaxSpan, today}) /\ Min({a + MaxSpan, today}) \in Int
    BY <1>1, <2>3, <2>4, <2>5
  <2>7. QED
    BY <2>2, <2>3, <2>6
<1>9. QED
  BY <1>7, <1>8 DEF N

LEMMA NvdGood ==
    ASSUME SiteTyped, NEW q \in Queries, src = "nvd"
    PROVE  Good(q, Nvd(q), "id or hash")
<1> DEFINE n == Counted(q, AllPages(q))
           N == (Window + MaxSpan - 1) \div MaxSpan
           D(i) == {d \in Docs(q) : d.day # Undated /\ d.day \in NvdSpan(q, i)}
           docs(i) == Only(Served(q), D(i))
           asks == [i \in 1 .. N |-> UpTo(n, Pages(i, docs(i)))]
           replies == FlattenSeq(asks)
<1>1. Nvd(q) = Fetched(q, replies, Docs(q), "id or hash")
  BY DEF Nvd
<1>2. N \in Nat
  <2>1. Window + MaxSpan - 1 \in Nat /\ MaxSpan \in Nat \ {0}
    BY FetchersAssumption DEF FetchersAssumption
  <2>2. QED
    BY <2>1, DivFacts
<1>3. n \in Nat /\ (q.form = "known" => n = Len(site) + 1)
  BY QueryIs DEF Counted, AllPages, SiteTyped
<1>4. Served(q) \in Seq(Documents) /\ site \in Seq(Documents) /\ (q.form = "known" => Served(q) = site)
  BY ServedIs DEF SiteTyped
<1> HIDE DEF n, D
<1>5. \A i \in 1 .. N : docs(i) \in Seq(Documents)
  BY <1>4, OnlyRanks
<1>6. asks \in [1 .. N -> Seq(Replies)]
  <2>1. \A i \in 1 .. N : i \in Nat
    OBVIOUS
  <2> HIDE DEF docs, N
  <2>2. \A i \in 1 .. N : UpTo(n, Pages(i, docs(i))) \in Seq(Replies)
    BY <1>3, <1>5, <2>1, PagesAre, UpToIs
  <2>3. QED
    BY <2>2
<1>7. \A i \in 1 .. N : asks[i] = UpTo(n, Pages(i, docs(i)))
  OBVIOUS
<1> HIDE DEF asks
<1>8. replies \in Seq(Replies) /\ \A x : x \in ToSet(replies) <=> \E i \in 1 .. N : x \in ToSet(asks[i])
  <2> HIDE DEF N
  <2>1. QED
    BY <1>2, <1>6, Flattened
<1> HIDE DEF replies
<1>9. ASSUME q.form = "known", NEW i \in DOMAIN site, Wanted(i)
      PROVE  \E r \in ToSet(replies) : site[i] \in ToSet(r.docs)
  <2>1. site[i].day \in Int /\ site[i].day >= today - Window /\ site[i].day <= today
    BY <1>9, WantedIs
  <2>2. site[i].day # Undated /\ site[i] \in Docs(q)
    BY <1>9, <2>1, WantedIs, FetchersAssumption DEF FetchersAssumption
  <2>3. \E j \in 1 .. N : site[i].day \in NvdSpan(q, j)
    <3> DEFINE day == site[i].day
    <3>1. today - Window <= day /\ day <= today /\ day \in Int
      BY <2>1, FetchersAssumption DEF FetchersAssumption, SiteTyped
    <3> HIDE DEF day
    <3>2. \E j \in 1 .. N : day \in NvdSpan(q, j)
      BY <3>1, SpansCover
    <3>3. QED
      BY <3>2 DEF day
  <2>4. PICK j \in 1 .. N : site[i] \in D(j)
    BY <2>2, <2>3 DEF D
  <2> DEFINE k == Rank(site, D(j), i)
  <2>5. k \in DOMAIN docs(j) /\ docs(j)[k] = site[i]
    BY <1>4, <1>9, <2>4, OnlyRanks
  <2>6. Len(docs(j)) <= Len(site)
    <3> DEFINE m == Len(docs(j))
    <3>1. docs(j) \in Seq(Documents) /\ docs(j) = Only(site, D(j))
      BY <1>4, <1>5, <1>9
    <3>2. CASE m = 0
      <4>1. Len(site) \in Nat
        BY <1>4
      <4>2. QED
        BY <3>2, <4>1
    <3>3. CASE m # 0
      <4>1. m \in DOMAIN docs(j)
        BY <3>1, <3>3
      <4>2. PICK h \in DOMAIN site : m = Rank(site, D(j), h)
        BY <1>4, <3>1, <4>1, OnlyRanks
      <4>3. h \in Nat /\ h <= Len(site) /\ Len(site) \in Nat /\ Rank(site, D(j), h) <= h
            /\ Rank(site, D(j), h) \in Nat
        BY <1>4, RankSteps
      <4> HIDE DEF m
      <4>4. m <= Len(site)
        BY <4>2, <4>3
      <4>5. QED
        BY <4>4 DEF m
    <3>4. QED
      BY <3>2, <3>3
  <2>7. Len(docs(j)) + 1 <= n
    <3>1. Len(docs(j)) \in Nat /\ Len(site) \in Nat
      <4> HIDE DEF docs
      <4>1. QED
        BY <1>4, <1>5
    <3> HIDE DEF docs
    <3>2. QED
      BY <1>3, <1>9, <2>6, <3>1
  <2>8. j \in Nat
    OBVIOUS
  <2> HIDE DEF docs, k, N
  <2>9. PICK r \in ToSet(UpTo(n, Pages(j, docs(j)))) : docs(j)[k] \in ToSet(r.docs)
    BY <1>3, <1>5, <2>5, <2>7, <2>8, AllPagesReach
  <2>10. QED
    BY <1>7, <1>8, <2>5, <2>9
<1>10. q.form = "known" => Reaches(replies, Docs(q))
  BY <1>9, WantedIs DEF Reaches
<1>11. QED
  BY <1>1, <1>8, <1>10, RunIs DEF Good, Ways

LEMMA EpaGood ==
    ASSUME SiteTyped, NEW q \in Queries, src = "epa_echo"
    PROVE  Good(q, EpaEcho(q), "id")
<1> DEFINE n == MaxPages["epa_echo"]
           N == Len(Parts[src])
           ask(p) == IF q.form = "uncounted" THEN <<Answer(p, <<>>)>>
                     ELSE OrFault(n, Pages(p, Listed(q, p)))
           asks == [i \in DOMAIN Parts[src] |-> ask(Parts[src][i])]
           replies == FlattenSeq(asks)
           keep == Fit(q) \cap Recent(q)
<1>1. EpaEcho(q) = Fetched(q, replies, keep, "id")
  BY QueryIs DEF EpaEcho, PerPart
<1>2. src \in ByPart /\ src \in Guarded
  BY DEF ByPart, Guarded
<1>3. N \in Nat /\ DOMAIN Parts[src] = 1 .. N /\ \A i \in 1 .. N : Parts[src][i] \in Nat
  BY <1>2, PartOf
<1>4. n \in Nat
  BY <1>2, AskedPages
<1> HIDE DEF n
<1>5. ASSUME NEW p \in Nat PROVE ask(p) \in Seq(Replies)
  <2>1. Listed(q, p) \in Seq(Documents) /\ <<>> \in Seq(Documents)
    BY ListedIs
  <2>2. Answer(p, <<>>) \in Replies
    BY <2>1, AnswerIs
  <2>3. <<Answer(p, <<>>)>> \in Seq(Replies)
    BY <2>2, OneReply
  <2>4. OrFault(n, Pages(p, Listed(q, p))) \in Seq(Replies)
    BY <1>4, <2>1, PagesAre, OrFaultIs
  <2>5. QED
    BY <2>3, <2>4
<1>6. \A i \in 1 .. N : asks[i] = ask(Parts[src][i])
  BY <1>3
<1>7. asks \in [1 .. N -> Seq(Replies)]
  <2> HIDE DEF ask, N
  <2>1. QED
    BY <1>3, <1>5
<1> HIDE DEF asks, N
<1>8. replies \in Seq(Replies) /\ \A x : x \in ToSet(replies) <=> \E i \in 1 .. N : x \in ToSet(asks[i])
  BY <1>3, <1>7, Flattened
<1> HIDE DEF replies
<1>9. ASSUME q.form = "known", \A r \in ToSet(replies) : r.ok, NEW i \in DOMAIN site
      PROVE  \E r \in ToSet(replies) : site[i] \in ToSet(r.docs)
  <2>1. PICK j \in 1 .. N : Parts[src][j] \in site[i].parts
    BY <1>2, <1>3, PartOf
  <2> DEFINE p == Parts[src][j]
             pages == Pages(p, Listed(q, p))
  <2>2. p \in Nat
    BY <1>3
  <2>3. asks[j] = OrFault(n, pages)
    BY <1>6, <1>9
  <2>4. pages \in Seq(Replies)
    BY <2>2, ListedIs, PagesAre
  <2>5. \A r \in ToSet(asks[j]) : r.ok /\ r \in ToSet(replies)
    BY <1>8, <1>9
  <2>6. site[i] \in ToSet(Listed(q, p)) /\ Listed(q, p) \in Seq(Documents)
    BY <1>9, <2>1, ListedIs
  <2>7. \E r \in ToSet(pages) : site[i] \in ToSet(r.docs)
    BY <2>2, <2>6, PagesCover
  <2> HIDE DEF pages
  <2>8. asks[j] = pages
    BY <1>4, <2>3, <2>4, <2>5, OrFaultIs
  <2>9. QED
    BY <2>5, <2>7, <2>8
<1>10. \A i \in DOMAIN site : Wanted(i) => site[i] \in keep
  BY WantedIs
<1> HIDE DEF keep
<1>11. q.form = "known" => Reaches(replies, keep)
  BY <1>9, <1>10 DEF Reaches
<1>12. QED
  BY <1>1, <1>8, <1>11, RunIs DEF Good, Ways

LEMMA UsaSpendingGood ==
    ASSUME SiteTyped, NEW q \in Queries, src = "usaspending"
    PROVE  Good(q, UsaSpending(q), "id")
<1> DEFINE n == MaxPages["usaspending"]
           N == Len(Parts[src])
           ask(p) == LET pages == Pages(p, Matching(q, p)) IN
                     CASE q.form = "empty"     -> <<Fault>>
                       [] q.form = "uncounted" -> UpTo(n, pages)
                       [] OTHER                -> OrFault(n, pages)
           asks == [i \in DOMAIN Parts[src] |-> ask(Parts[src][i])]
           replies == FlattenSeq(asks)
<1>1. UsaSpending(q) = Fetched(q, replies, Fit(q), "id")
  BY QueryIs DEF UsaSpending, PerPart
<1>2. src \in ByPart /\ src \in Guarded
  BY DEF ByPart, Guarded
<1>3. N \in Nat /\ DOMAIN Parts[src] = 1 .. N /\ \A i \in 1 .. N : Parts[src][i] \in Nat
  BY <1>2, PartOf
<1>4. n \in Nat
  BY <1>2, AskedPages
<1> HIDE DEF n
<1>5. ASSUME NEW p \in Nat
      PROVE  ask(p) \in Seq(Replies)
             /\ (q.form = "known" => ask(p) = OrFault(n, Pages(p, Matching(q, p))))
  <2> DEFINE pages == Pages(p, Matching(q, p))
  <2>1. pages \in Seq(Replies)
    BY MatchingIs, PagesAre
  <2>2. <<Fault>> \in Seq(Replies)
    BY OneReply DEF Fault, Replies
  <2>3. UpTo(n, pages) \in Seq(Replies) /\ OrFault(n, pages) \in Seq(Replies)
    BY <1>4, <2>1, UpToIs, OrFaultIs
  <2>4. ask(p) = CASE q.form = "empty"     -> <<Fault>>
                   [] q.form = "uncounted" -> UpTo(n, pages)
                   [] OTHER                -> OrFault(n, pages)
    OBVIOUS
  <2> HIDE DEF ask, pages
  <2>5. ask(p) \in Seq(Replies) /\ (q.form = "known" => ask(p) = OrFault(n, pages))
    BY <2>2, <2>3, <2>4
  <2>6. QED
    BY <2>5 DEF pages
<1>6. \A i \in 1 .. N : asks[i] = ask(Parts[src][i])
  BY <1>3
<1>7. asks \in [1 .. N -> Seq(Replies)]
  <2> HIDE DEF ask, N
  <2>1. QED
    BY <1>3, <1>5
<1> HIDE DEF asks, N, ask
<1>8. replies \in Seq(Replies) /\ \A x : x \in ToSet(replies) <=> \E i \in 1 .. N : x \in ToSet(asks[i])
  BY <1>3, <1>7, Flattened
<1> HIDE DEF replies
<1>9. ASSUME q.form = "known", \A r \in ToSet(replies) : r.ok, NEW i \in DOMAIN site, site[i] \in Recent(q)
      PROVE  \E r \in ToSet(replies) : site[i] \in ToSet(r.docs)
  <2>1. PICK j \in 1 .. N : Parts[src][j] \in site[i].parts
    BY <1>2, <1>3, PartOf
  <2> DEFINE p == Parts[src][j]
             pages == Pages(p, Matching(q, p))
  <2>2. p \in Nat
    BY <1>3
  <2>3. asks[j] = OrFault(n, pages)
    BY <1>5, <1>6, <1>9, <2>2
  <2>4. pages \in Seq(Replies)
    BY <2>2, MatchingIs, PagesAre
  <2>5. \A r \in ToSet(asks[j]) : r.ok /\ r \in ToSet(replies)
    BY <1>8, <1>9
  <2>6. site[i] \in ToSet(Matching(q, p)) /\ Matching(q, p) \in Seq(Documents)
    <3>1. PICK k \in DOMAIN Matching(q, p) : Matching(q, p)[k] = site[i]
      BY <1>9, <2>1, MatchingIs
    <3>2. Matching(q, p) \in Seq(Documents)
      BY MatchingIs
    <3> HIDE DEF p
    <3>3. QED
      BY <3>1, <3>2 DEF ToSet
  <2>7. \E r \in ToSet(pages) : site[i] \in ToSet(r.docs)
    BY <2>2, <2>6, PagesCover
  <2> HIDE DEF pages
  <2>8. asks[j] = pages
    BY <1>4, <2>3, <2>4, <2>5, OrFaultIs
  <2>9. QED
    BY <2>5, <2>7, <2>8
<1>10. \A i \in DOMAIN site : Wanted(i) => site[i] \in Fit(q) /\ site[i] \in Recent(q)
  BY WantedIs
<1>11. q.form = "known" => Reaches(replies, Fit(q))
  BY <1>9, <1>10 DEF Reaches
<1>12. QED
  BY <1>1, <1>8, <1>11, RunIs DEF Good, Ways

(* An article stands no further down a query's list than on the site, and   *)
(* what an earlier query has given is not given again.                      *)
LEMMA GdeltGood ==
    ASSUME SiteTyped, NEW q \in Queries, src = "gdelt"
    PROVE  Good(q, Gdelt(q), "id or hash")
<1> DEFINE N == Len(Parts[src])
           found(i) == Only(Served(q), Spanned(q, Parts[src][i]))
           Top(i) == SubSeq(found(i), 1, Min({ApiCap, Len(found(i))}))
           Met(i) == {d \in Docs(q) : d.ided /\ \E j \in 1 .. i - 1 : Contains(Top(j), d)}
           docs(i) == Only(Top(i), Docs(q) \ Met(i))
           replies == [i \in DOMAIN Parts[src] |-> Answer(i, docs(i))]
<1>1. Gdelt(q) = Fetched(q, replies, NotOld(q), "id or hash")
  BY QueryIs DEF Gdelt
<1>2. src \in ByPart /\ ApiCap \in Nat
  BY FetchersAssumption DEF ByPart, FetchersAssumption
<1>3. N \in Nat /\ DOMAIN Parts[src] = 1 .. N /\ \A i \in 1 .. N : Parts[src][i] \in Nat
  BY <1>2, PartOf
<1> HIDE DEF N
<1>4. ASSUME NEW i \in 1 .. N
      PROVE  /\ Top(i) \in Seq(Documents)
             /\ \A k \in DOMAIN found(i) : k <= ApiCap => found(i)[k] \in ToSet(Top(i))
  <2> DEFINE s == found(i)
             m == Min({ApiCap, Len(s)})
  <2>1. s \in Seq(Documents) /\ Len(s) \in Int /\ ApiCap \in Int
    BY <1>2, ServedIs, OnlyIs
  <2> HIDE DEF s
  <2>2. m \in {ApiCap, Len(s)} /\ m <= ApiCap /\ m <= Len(s)
    BY <2>1, OfTwo, Zenon
  <2> HIDE DEF m
  <2>3. m \in Nat /\ m <= Len(s)
    BY <1>2, <2>1, <2>2
  <2>4. SubSeq(s, 1, m) \in Seq(Documents) /\ DOMAIN SubSeq(s, 1, m) = 1 .. m
        /\ \A k \in 1 .. m : SubSeq(s, 1, m)[k] = s[k]
    BY <2>1, <2>3
  <2>5. \A k \in DOMAIN s : k <= ApiCap => k \in 1 .. m
    BY <2>1, <2>2
  <2>6. QED
    BY <2>4, <2>5 DEF ToSet, s, m
<1> HIDE DEF Top
<1>5. \A i \in 1 .. N : docs(i) \in Seq(Documents) /\ ToSet(docs(i)) = ToSet(Top(i)) \cap (Docs(q) \ Met(i))
  BY <1>4, OnlyIs
<1>6. \A i \in 1 .. N : Answer(i, docs(i)) \in Replies /\ Answer(i, docs(i)).docs = docs(i)
  <2> HIDE DEF docs
  <2>1. QED
    BY <1>5, AnswerIs
<1>7. replies \in [1 .. N -> Replies] /\ \A i \in 1 .. N : replies[i].docs = docs(i)
  <2> HIDE DEF docs
  <2>1. QED
    BY <1>3, <1>6
<1> HIDE DEF replies
<1>8. replies \in Seq(Replies) /\ DOMAIN replies = 1 .. N
  BY <1>3, <1>7, SeqMade
<1>9. ASSUME q.form = "known", NEW i \in DOMAIN site, Wanted(i)
      PROVE  \E r \in ToSet(replies) : site[i] \in ToSet(r.docs)
  <2> DEFINE d == site[i]
             In == {j \in 1 .. N : d \in ToSet(Top(j))}
  <2>1. i <= ApiCap /\ i \in Nat /\ site \in Seq(Documents) /\ d \in Docs(q)
    <3>1. ~ (i > ApiCap) /\ d \in Docs(q)
      BY <1>9, WantedIs DEF CutOff
    <3>2. i \in Nat /\ site \in Seq(Documents)
      BY DEF SiteTyped
    <3>3. QED
      BY <1>2, <3>1, <3>2
  <2>2. PICK h \in 1 .. N : Parts[src][h] \in site[i].parts
    BY <1>2, <1>3, PartOf
  <2>3. h \in In
    <3> DEFINE p == Parts[src][h]
               D == Spanned(q, p)
               k == Rank(site, D, i)
               back == Min({Window, MaxTimespan})
    <3>1. found(h) = Only(site, D)
      BY <1>9, ServedIs
    <3>2. d \in D
      <4>1. today \in Int /\ Window \in Int /\ MaxTimespan \in Int /\ q.today = today
        BY QueryIs, FetchersAssumption DEF SiteTyped, FetchersAssumption
      <4>2. back = Window \/ back = MaxTimespan
        BY <4>1, OfTwo
      <4> HIDE DEF back
      <4>3. d.day # Undated => d.day \in Int
        BY <1>9, DayIs
      <4>4. d.day # Undated => d.day >= today - Window /\ ~(d.day < today - MaxTimespan)
        BY <1>9, <4>1, WantedIs DEF CutOff, NotOld, Since
      <4>5. d.day # Undated => d.day >= q.today - back
        BY <4>1, <4>2, <4>3, <4>4
      <4>6. QED
        BY <2>1, <2>2, <4>5 DEF Spanned, back
    <3> HIDE DEF D, d, found
    <3>3. k \in DOMAIN found(h) /\ found(h)[k] = d
      BY <1>9, <2>1, <3>1, <3>2, OnlyRanks DEF d
    <3>4. k <= ApiCap
      <4>1. k <= i /\ k \in Nat
        BY <2>1, RankSteps
      <4> HIDE DEF k
      <4>2. QED
        BY <1>2, <2>1, <4>1
    <3> HIDE DEF k
    <3>5. d \in ToSet(Top(h))
      BY <1>4, <3>3, <3>4
    <3>6. QED
      BY <3>5
  <2>4. In \in SUBSET Nat /\ In # {}
    BY <2>3
  <2>5. PICK j \in In : \A k \in In : j <= k
    <3> HIDE DEF In
    <3>1. QED
      BY <2>4, LeastOf
  <2>6. j \in 1 .. N /\ d \in ToSet(Top(j))
    OBVIOUS
  <2>7. d \notin Met(j)
    <3>1. SUFFICES ASSUME NEW k \in 1 .. j - 1, Contains(Top(k), d) PROVE FALSE
      OBVIOUS
    <3>2. k \in 1 .. N /\ ~ (j <= k)
      BY <1>3, <2>6
    <3>3. d \in ToSet(Top(k))
      <4>1. PICK e \in 1 .. Len(Top(k)) : Top(k)[e] = d
        BY <3>1 DEF Contains
      <4>2. e \in DOMAIN Top(k)
        BY <1>4, <3>2
      <4>3. QED
        BY <4>1, <4>2 DEF ToSet
    <3>4. QED
      BY <2>5, <3>2, <3>3
  <2> HIDE DEF d, In
  <2>8. d \in ToSet(docs(j))
    BY <1>5, <2>1, <2>6, <2>7
  <2> HIDE DEF docs
  <2>9. d \in ToSet(replies[j].docs) /\ replies[j] \in ToSet(replies)
    BY <1>7, <1>8, <2>6, <2>8 DEF ToSet
  <2>10. QED
    BY <2>9 DEF d
<1>10. \A i \in DOMAIN site : Wanted(i) => site[i] \in NotOld(q)
  BY WantedIs
<1>11. q.form = "known" => Reaches(replies, NotOld(q))
  BY <1>9, <1>10 DEF Reaches
<1>12. QED
  BY <1>1, <1>8, <1>11, RunIs DEF Good, Ways

LEMMA DivMonotone ==
    ASSUME NEW a \in Nat, NEW b \in Nat, NEW c \in Nat \ {0}, a <= b
    PROVE  a \div c <= b \div c
<1> DEFINE x == a \div c
           y == b \div c
<1>1. x \in Nat /\ c * x <= a /\ y \in Nat /\ b < c * y + c
  BY DivFacts
<1> HIDE DEF x, y
<1>2. SUFFICES ASSUME y + 1 <= x PROVE FALSE
  BY <1>1 DEF x, y
<1>3. c * (y + 1) <= c * x /\ c * (y + 1) = c * y + c
  BY <1>1, <1>2, TimesMonotone
<1>4. c * x \in Nat /\ c * y \in Nat
  BY <1>1
<1>5. QED
  BY <1>1, <1>3, <1>4

(* The months of the window are asked for, one by one.                      *)
LEMMA NercCalendarGood ==
    ASSUME SiteTyped, NEW q \in Queries, src = "nerc_calendar"
    PROVE  Good(q, NercCalendar(q), "id or hash")
<1> DEFINE first == today \div MonthDays
           edge == (today + Window) \div MonthDays
           last == Min({edge, first + MaxMonths - 1})
           n == last - first + 1
           replies == [i \in 1 .. n |-> Answer(i, Listed(q, first + i - 1))]
           keep == {d \in Docs(q) : d.day # Undated => d.day >= today}
<1>1. NercCalendar(q) = Fetched(q, replies, keep, "id or hash")
  BY QueryIs DEF NercCalendar
<1>2. today \in Nat /\ Window \in Nat /\ MonthDays \in Nat \ {0} /\ MaxMonths \in Nat \ {0}
      /\ Undated \notin Int /\ today + Window \in Nat
  BY FetchersAssumption DEF FetchersAssumption, SiteTyped
<1>3. first \in Nat /\ edge \in Nat /\ first <= edge
  <2>1. today <= today + Window
    BY <1>2
  <2>2. QED
    BY <1>2, <2>1, DivFacts, DivMonotone
<1> HIDE DEF first, edge
<1>4. last \in {edge, first + MaxMonths - 1}
  <2>1. edge \in Int /\ first + MaxMonths - 1 \in Int
    BY <1>2, <1>3
  <2>2. QED
    BY <2>1, OfTwo, Zenon
<1> HIDE DEF last
<1>5. last \in Nat /\ first <= last /\ n \in Nat
  BY <1>2, <1>3, <1>4
<1>6. \A i \in 1 .. n : Answer(i, Listed(q, first + i - 1)) \in Replies
                       /\ Answer(i, Listed(q, first + i - 1)).docs = Listed(q, first + i - 1)
  <2>1. \A i \in 1 .. n : i \in Nat
    OBVIOUS
  <2> HIDE DEF n
  <2>2. QED
    BY <2>1, ListedIs, AnswerIs
<1>7. replies \in [1 .. n -> Replies] /\ \A i \in 1 .. n : replies[i].docs = Listed(q, first + i - 1)
  <2> HIDE DEF n
  <2>1. QED
    BY <1>6
<1> HIDE DEF replies
<1>8. replies \in Seq(Replies) /\ DOMAIN replies = 1 .. n
  <2> HIDE DEF n
  <2>1. QED
    BY <1>5, <1>7, SeqMade
<1>9. ASSUME NEW i \in DOMAIN site, Wanted(i)
      PROVE  /\ site[i] \in keep
             /\ q.form = "known" => \E r \in ToSet(replies) : site[i] \in ToSet(r.docs)
  <2> DEFINE day == site[i].day
             m == day \div MonthDays
             k == m - first + 1
  <2>1. day # Undated /\ day \in today .. today + Window
    BY <1>9 DEF Wanted, Dated
  <2>2. ~ (m >= first + MaxMonths)
    BY <1>9, <2>1, WantedIs DEF CutOff, first
  <2>3. m \in site[i].parts
    BY <2>1 DEF SiteTyped
  <2>4. site[i] \in Docs(q)
    BY <1>9, WantedIs
  <2> HIDE DEF day
  <2>5. day \in Nat /\ day >= today /\ day <= today + Window
    BY <1>2, <2>1
  <2>6. m \in Nat /\ first <= m /\ m <= edge
    BY <1>2, <2>5, DivFacts, DivMonotone DEF first, edge
  <2> HIDE DEF m
  <2>7. m <= last
    BY <1>2, <1>3, <1>4, <2>2, <2>6
  <2>8. k \in 1 .. n /\ first + k - 1 = m
    BY <1>3, <1>5, <2>6, <2>7
  <2>9. q.form = "known" => site[i] \in ToSet(Listed(q, m))
    BY <1>9, <2>3, ListedIs
  <2> HIDE DEF k, n
  <2>10. q.form = "known" => \E r \in ToSet(replies) : site[i] \in ToSet(r.docs)
    BY <1>7, <1>8, <2>8, <2>9 DEF ToSet
  <2>11. site[i] \in keep
    BY <2>4, <2>5 DEF day
  <2>12. QED
    BY <2>10, <2>11
<1> HIDE DEF keep
<1>10. q.form = "known" => Reaches(replies, keep)
  BY <1>9 DEF Reaches
<1>11. QED
  BY <1>1, <1>8, <1>10, RunIs DEF Good, Ways

LEMMA OfThree ==
    ASSUME NEW a \in Int, NEW b \in Int, NEW c \in Int
    PROVE  Max({a, b, c}) \in {a, b, c} /\ Max({a, b, c}) >= a
           /\ Max({a, b, c}) >= b /\ Max({a, b, c}) >= c
<1>1. \E m \in {a, b, c} : \A y \in {a, b, c} : m >= y
  <2>1. CASE a >= b /\ a >= c
    BY <2>1
  <2>2. CASE b >= a /\ b >= c
    BY <2>2
  <2>3. CASE c >= a /\ c >= b
    BY <2>3
  <2>4. QED
    BY <2>1, <2>2, <2>3
<1>2. Max({a, b, c}) \in {a, b, c} /\ \A y \in {a, b, c} : Max({a, b, c}) >= y
  BY <1>1 DEF Max
<1>3. QED
  BY <1>2

(* The years of the window are asked for, the newest first.                 *)
LEMMA NercEnforcementGood ==
    ASSUME SiteTyped, NEW q \in Queries, src = "nerc_enforcement"
    PROVE  Good(q, NercEnforcement(q), "hash")
<1> DEFINE last == today \div YearDays
           edge == (today - Window) \div YearDays
           first == Max({0, edge, last - MaxYears + 1})
           n == last - first + 1
           reply(i) == IF q.form = "empty" THEN Fault ELSE Answer(i, Listed(q, last - i + 1))
           replies == [i \in 1 .. n |-> reply(i)]
<1>1. NercEnforcement(q) = Fetched(q, replies, Fit(q), "hash")
  BY QueryIs DEF NercEnforcement, Since
<1>2. today \in Nat /\ Window \in Nat /\ YearDays \in Nat \ {0} /\ MaxYears \in Nat \ {0}
      /\ Undated \notin Int /\ today - Window \in Nat
  BY FetchersAssumption DEF FetchersAssumption, SiteTyped
<1>3. last \in Nat /\ edge \in Nat /\ edge <= last
  <2>1. today - Window <= today
    BY <1>2
  <2>2. QED
    BY <1>2, <2>1, DivFacts, DivMonotone
<1> HIDE DEF last, edge
<1>4. first \in {0, edge, last - MaxYears + 1} /\ first >= 0
  <2>1. 0 \in Int /\ edge \in Int /\ last - MaxYears + 1 \in Int
    BY <1>2, <1>3
  <2>2. QED
    BY <2>1, OfThree, Zenon
<1> HIDE DEF first
<1>5. first \in Nat /\ first <= last /\ n \in Nat
  BY <1>2, <1>3, <1>4
<1>6. \A i \in 1 .. n : reply(i) \in Replies
                       /\ (q.form = "known" => reply(i).docs = Listed(q, last - i + 1))
  <2>1. \A i \in 1 .. n : i \in Nat
    OBVIOUS
  <2>2. Fault \in Replies
    BY DEF Fault, Replies
  <2> HIDE DEF n
  <2>3. \A i \in 1 .. n : Answer(i, Listed(q, last - i + 1)) \in Replies
                         /\ Answer(i, Listed(q, last - i + 1)).docs = Listed(q, last - i + 1)
    BY <2>1, ListedIs, AnswerIs
  <2>4. QED
    BY <2>2, <2>3
<1>7. replies \in [1 .. n -> Replies]
      /\ (q.form = "known" => \A i \in 1 .. n : replies[i].docs = Listed(q, last - i + 1))
  <2> HIDE DEF n, reply
  <2>1. QED
    BY <1>6
<1> HIDE DEF replies
<1>8. replies \in Seq(Replies) /\ DOMAIN replies = 1 .. n
  <2> HIDE DEF n
  <2>1. QED
    BY <1>5, <1>7, SeqMade
<1>9. ASSUME NEW i \in DOMAIN site, Wanted(i)
      PROVE  /\ site[i] \in Fit(q)
             /\ q.form = "known" => \E r \in ToSet(replies) : site[i] \in ToSet(r.docs)
  <2> DEFINE day == site[i].day
             y == day \div YearDays
             k == last - y + 1
  <2>1. day # Undated /\ day \in today - Window .. today /\ site[i].fit
    BY <1>9 DEF Wanted, Dated
  <2>2. ~ (y <= last - MaxYears)
    BY <1>9, <2>1, WantedIs DEF CutOff, last
  <2>3. y \in site[i].parts
    BY <2>1 DEF SiteTyped
  <2>4. site[i] \in Docs(q)
    BY <1>9, WantedIs
  <2>5. site[i] \in Fit(q)
    BY <2>1, <2>4 DEF Fit
  <2> HIDE DEF day
  <2>6. day \in Nat /\ day >= today - Window /\ day <= today
    BY <1>2, <2>1
  <2>7. y \in Nat /\ y <= last /\ edge <= y
    BY <1>2, <2>6, DivFacts, DivMonotone DEF last, edge
  <2> HIDE DEF y
  <2>8. first <= y
    BY <1>2, <1>3, <1>4, <2>2, <2>7
  <2>9. k \in 1 .. n /\ last - k + 1 = y
    BY <1>3, <1>5, <2>7, <2>8
  <2>10. q.form = "known" => site[i] \in ToSet(Listed(q, y))
    BY <1>9, <2>3, ListedIs
  <2> HIDE DEF k, n
  <2>11. q.form = "known" => \E r \in ToSet(replies) : site[i] \in ToSet(r.docs)
    BY <1>7, <1>8, <2>9, <2>10 DEF ToSet
  <2>12. QED
    BY <2>5, <2>11
<1>10. q.form = "known" => Reaches(replies, Fit(q))
  BY <1>9 DEF Reaches
<1>11. QED
  BY <1>1, <1>8, <1>10, RunIs DEF Good, Ways

(* The key each source's rows have.                                         *)
(* The keys of each source.                                                 *)
Way ==
    CASE src \in {"phmsa_enforcement", "epa_echo", "usaspending"} -> "id"
      [] src = "sec_edgar_fulltext"                               -> "entity hit"
      [] src = "nerc_pages"                                       -> "page"
      [] src \in {"ransomware_live", "nerc_enforcement"}          -> "hash"
      [] OTHER                                                    -> "id or hash"

(* Each fetcher of the 17 modules.                                          *)
LEMMA FetchGood ==
    ASSUME SiteTyped, NEW q \in Queries
    PROVE  Good(q, Fetch(src, q), Way) /\ Way \in Ways
<1>1. Way \in Ways
  BY DEF Way, Ways
<1>2. CASE src \in {"cisa_kev", "cisa_ics"}
  BY <1>2, WholeGood DEF Fetch, CisaKev, CisaIcs, Way, Ways
<1>3. CASE src \in {"the_record", "bleepingcomputer"}
  BY <1>3, WholeGood DEF Fetch, SecurityRss, Way, Ways
<1>4. CASE src = "ransomware_live"
  BY <1>4, WholeGood DEF Fetch, Ransomware, Way, Ways
<1>5. CASE src \in {"presswire_prnewswire", "presswire_globenewswire"}
  BY <1>1, <1>5, PresswireGood DEF Fetch, Way
<1>6. CASE src = "nerc_pages"
  BY <1>1, <1>6, NercPagesGood DEF Fetch, Way
<1>7. CASE src = "sec_edgar_submissions"
  BY <1>1, <1>7, EdgarGood DEF Fetch, Way
<1>8. CASE src = "sec_edgar_fulltext"
  BY <1>1, <1>8, FulltextGood DEF Fetch, Way
<1>9. CASE src = "federal_register"
  BY <1>1, <1>9, FederalRegisterGood DEF Fetch, Way
<1>10. CASE src = "nvd"
  BY <1>1, <1>10, NvdGood DEF Fetch, Way
<1>11. CASE src = "eia"
  BY <1>1, <1>11, EiaGood DEF Fetch, Way
<1>12. CASE src = "phmsa_enforcement"
  BY <1>1, <1>12, PhmsaGood DEF Fetch, Way
<1>13. CASE src = "gdelt"
  BY <1>1, <1>13, GdeltGood DEF Fetch, Way
<1>14. CASE src = "nerc_calendar"
  BY <1>1, <1>14, NercCalendarGood DEF Fetch, Way
<1>15. CASE src = "nerc_enforcement"
  BY <1>1, <1>15, NercEnforcementGood DEF Fetch, Way
<1>16. CASE src = "epa_echo"
  BY <1>1, <1>16, EpaGood DEF Fetch, Way
<1>17. CASE src = "usaspending"
  BY <1>1, <1>17, UsaSpendingGood DEF Fetch, Way
<1>18. src \in ByPart \cup Singly
  BY PipelineAssumption DEF PipelineAssumption, SiteTyped
<1>19. QED
  BY <1>1, <1>2, <1>3, <1>4, <1>5, <1>6, <1>7, <1>8, <1>9, <1>10, <1>11, <1>12, <1>13,
     <1>14, <1>15, <1>16, <1>17, <1>18 DEF ByPart, Singly

-----------------------------------------------------------------------------
(* What a run stores: a row for each key that is not stored yet.            *)
Classifiers ==
    {"leadership", "company_statement", "incident", "regulatory", "incident_ransomware",
     "incident_security_rss", "environmental_enforcement", "capital_project", "phmsa_enforcement",
     "gdelt"}
Rows == [id : Keys, doc : Documents, done : SUBSET Classifiers, pending : Nat, decided : BOOLEAN]

LEMMA Picked ==
    ASSUME NEW n \in Nat, NEW D, D \subseteq 1 .. n, NEW s \in Seq(Nat),
           DOMAIN s = 1 .. n, \A i \in 1 .. n : s[i] = i
    PROVE  /\ Only(s, D) \in Seq(Nat) /\ ToSet(Only(s, D)) = D
           /\ \A k, h \in DOMAIN Only(s, D) : Only(s, D)[k] = Only(s, D)[h] => k = h
<1>1. Only(s, D) \in Seq(Nat) /\ ToSet(Only(s, D)) = ToSet(s) \cap D
  BY OnlyIs
<1>2. ToSet(s) \cap D = D
  BY DEF ToSet
<1>3. \A k \in DOMAIN Only(s, D) : k = Rank(s, D, Only(s, D)[k])
  BY OnlyRanks
<1>4. QED
  BY <1>1, <1>2, <1>3

(* They have distinct keys, none stored before, and leave out no key.       *)
LEMMA NewRowsAre ==
    ASSUME raws \in Seq(Rows), NEW got \in Seq(Reads)
    PROVE  /\ NewRows(got) \in Seq(Rows)
           /\ \A k \in DOMAIN NewRows(got) : \E i \in DOMAIN got :
                 ~Stored(raws, got[i].id) /\ NewRows(got)[k] = Row(got[i])
           /\ \A k, h \in DOMAIN NewRows(got) : NewRows(got)[k].id = NewRows(got)[h].id => k = h
           /\ \A i \in DOMAIN got : Stored(raws, got[i].id)
                 \/ \E k \in DOMAIN NewRows(got) : NewRows(got)[k].id = got[i].id
<1> DEFINE n == Len(got)
           s == [i \in DOMAIN got |-> i]
           D == {i \in DOMAIN got : IsNew(got, i)}
           new == Only(s, D)
           rows == [k \in DOMAIN new |-> Row(got[new[k]])]
<1>1. n \in Nat /\ DOMAIN got = 1 .. n /\ \A i \in 1 .. n : got[i] \in Reads
  OBVIOUS
<1>2. s \in [1 .. n -> Nat] /\ \A i \in 1 .. n : s[i] = i
  BY <1>1
<1>3. s \in Seq(Nat) /\ DOMAIN s = 1 .. n
  <2> HIDE DEF s, n
  <2>1. QED
    BY <1>1, <1>2, SeqMade
<1>4. D \subseteq 1 .. n
  BY <1>1
<1> HIDE DEF n, s, D, new
<1>5. /\ new \in Seq(Nat) /\ ToSet(new) = D
      /\ \A k, h \in DOMAIN new : new[k] = new[h] => k = h
  BY <1>1, <1>2, <1>3, <1>4, Picked DEF new
<1>6. NewRows(got) = rows
  BY DEF NewRows, new, s, D
<1>7. Len(new) \in Nat /\ DOMAIN new = 1 .. Len(new)
  BY <1>5
<1>8. \A k \in DOMAIN new : new[k] \in 1 .. n /\ new[k] \in D /\ Row(got[new[k]]) \in Rows
                           /\ Row(got[new[k]]).id = got[new[k]].id
  <2>1. \A k \in DOMAIN new : new[k] \in D /\ new[k] \in 1 .. n
    BY <1>4, <1>5 DEF ToSet
  <2>2. QED
    BY <1>1, <2>1 DEF Row, Rows, Reads
<1>9. rows \in [1 .. Len(new) -> Rows] /\ \A k \in DOMAIN new : rows[k] = Row(got[new[k]])
  BY <1>7, <1>8
<1> HIDE DEF rows
<1>10. rows \in Seq(Rows) /\ DOMAIN rows = DOMAIN new
  BY <1>7, <1>9, SeqMade
<1>11. \A i \in D : ~Stored(raws, got[i].id) /\ \A j \in 1 .. i - 1 : got[j].id # got[i].id
  BY DEF D, IsNew
<1>12. \A k \in DOMAIN rows : \E i \in DOMAIN got : ~Stored(raws, got[i].id) /\ rows[k] = Row(got[i])
  BY <1>1, <1>8, <1>9, <1>10, <1>11
<1>13. ASSUME NEW k \in DOMAIN rows, NEW h \in DOMAIN rows, rows[k].id = rows[h].id PROVE k = h
  <2>1. new[k] \in D /\ new[h] \in D /\ new[k] \in 1 .. n /\ new[h] \in 1 .. n
        /\ got[new[k]].id = got[new[h]].id
    BY <1>8, <1>9, <1>10, <1>13
  <2>2. ~ (new[k] < new[h])
    <3>1. SUFFICES ASSUME new[k] < new[h] PROVE FALSE
      OBVIOUS
    <3>2. new[k] \in 1 .. new[h] - 1
      BY <2>1, <3>1
    <3>3. QED
      BY <1>11, <2>1, <3>2
  <2>3. ~ (new[h] < new[k])
    <3>1. SUFFICES ASSUME new[h] < new[k] PROVE FALSE
      OBVIOUS
    <3>2. new[h] \in 1 .. new[k] - 1
      BY <2>1, <3>1
    <3>3. QED
      BY <1>11, <2>1, <3>2
  <2>4. new[k] = new[h]
    BY <2>1, <2>2, <2>3
  <2>5. QED
    BY <1>5, <1>10, <2>4
<1>14. ASSUME NEW i \in DOMAIN got, ~Stored(raws, got[i].id)
       PROVE  \E k \in DOMAIN rows : rows[k].id = got[i].id
  <2> DEFINE Same == {j \in 1 .. n : got[j].id = got[i].id}
  <2>1. Same \in SUBSET Nat /\ i \in Same
    BY <1>1
  <2>2. PICK j \in Same : \A h \in Same : j <= h
    <3> HIDE DEF Same
    <3>1. QED
      BY <2>1, LeastOf
  <2>3. j \in 1 .. n /\ got[j].id = got[i].id
    OBVIOUS
  <2>4. \A h \in 1 .. j - 1 : got[h].id # got[j].id
    <3>1. SUFFICES ASSUME NEW h \in 1 .. j - 1, got[h].id = got[i].id PROVE FALSE
      BY <2>3
    <3>2. h \in Same /\ ~ (j <= h)
      BY <1>1, <2>3, <3>1
    <3>3. QED
      BY <2>2, <3>2
  <2>5. j \in D
    BY <1>1, <1>14, <2>3, <2>4 DEF D, IsNew
  <2>6. PICK k \in DOMAIN new : new[k] = j
    BY <1>5, <2>5 DEF ToSet
  <2> HIDE DEF Same
  <2>7. k \in DOMAIN rows /\ rows[k] = Row(got[j]) /\ Row(got[j]).id = got[j].id
    BY <1>8, <1>9, <1>10, <2>6
  <2>8. QED
    BY <2>3, <2>7
<1>15. QED
  BY <1>6, <1>10, <1>12, <1>13, <1>14

-----------------------------------------------------------------------------
(* What the rules give.                                                     *)
LEMMA FewAreFinite ==
    /\ IsFiniteSet({})
    /\ \A a : IsFiniteSet({a})
    /\ \A a, b : IsFiniteSet({a, b})
<1>1. IsFiniteSet({}) /\ \A a : IsFiniteSet({a})
  BY FS_EmptySet, FS_Singleton
<1>2. ASSUME NEW a, NEW b PROVE IsFiniteSet({a, b})
  <2>1. {a, b} = {a} \cup {b}
    OBVIOUS
  <2>2. IsFiniteSet({a} \cup {b})
    BY <1>1, FS_Union, Zenon
  <2>3. QED
    BY <2>1, <2>2
<1>3. QED
  BY <1>1, <1>2

(* What every rule decides: cards or a review, and a card of an account by a*)
(* name only.                                                               *)
Outcome(r) ==
    /\ IsFiniteSet(r.cands) /\ r.queue \in {"no", "once", "always"}
    /\ r.queue # "no" => r.cands = {}
    /\ \A c \in r.cands : c.scope = "account" => c.names \in {"hint", "known"}

(* The rules of the sources that publish other people's words leave no name *)
(* to the framework.                                                        *)
Known(r) == \A c \in r.cands : c.names \in {"known", "class"}
Early(r) == \A c \in r.cands : c.tier = "unconfirmed_early_warning"
Late(r)  == \A c \in r.cands : c.tier # "unconfirmed_early_warning"

LEMMA EmptyOutcomes ==
    /\ Outcome(Nothing) /\ Known(Nothing) /\ Early(Nothing) /\ Late(Nothing) /\ Nothing.queue = "no"
    /\ \A how \in {"once", "always"} :
          Outcome(ToReview(how)) /\ Known(ToReview(how)) /\ Early(ToReview(how)) /\ Late(ToReview(how))
          /\ ToReview(how).queue = how
  BY FewAreFinite DEF Outcome, Known, Early, Late, Nothing, Emits, ToReview

LEMMA OneCandidate ==
    ASSUME NEW trigger, NEW scope, NEW names, NEW tier,
           scope = "account" => names \in {"hint", "known"}
    PROVE  LET r == Emits({Candidate(trigger, scope, names, tier)}) IN
           /\ Outcome(r) /\ r.queue = "no" /\ (names \in {"known", "class"} => Known(r))
           /\ (tier = "unconfirmed_early_warning" => Early(r))
           /\ (tier # "unconfirmed_early_warning" => Late(r))
<1> DEFINE c == Candidate(trigger, scope, names, tier)
           r == Emits({c})
<1>1. c.scope = scope /\ c.names = names /\ c.tier = tier
  BY DEF Candidate
<1> HIDE DEF c
<1>2. r.cands = {c} /\ r.queue = "no" /\ IsFiniteSet({c})
  BY FewAreFinite DEF Emits
<1> HIDE DEF r
<1>3. Outcome(r)
  BY <1>1, <1>2 DEF Outcome
<1>4. /\ names \in {"known", "class"} => Known(r)
      /\ tier = "unconfirmed_early_warning" => Early(r)
      /\ tier # "unconfirmed_early_warning" => Late(r)
  BY <1>1, <1>2 DEF Known, Early, Late
<1>5. QED
  BY <1>2, <1>3, <1>4 DEF r, c

(* An outcome that asks for no review and warns of nothing early.           *)
Plain(r) == Outcome(r) /\ r.queue = "no" /\ Late(r)

LEMMA PlainRules ==
    ASSUME NEW s
    PROVE  /\ Plain(Nothing)
           /\ Plain(LeadershipPresswire(s)) /\ Plain(LeadershipEdgar(s)) /\ Plain(CompanyStatement(s))
           /\ Plain(EnvironmentalEnforcement(s)) /\ Plain(CapitalProject(s)) /\ Plain(GdeltTrial(s))
<1>1. Plain(Nothing)
  BY EmptyOutcomes DEF Plain
<1>2. Plain(LeadershipPresswire(s))
  BY <1>1, OneCandidate DEF Plain, LeadershipPresswire, Hinted
<1>3. Plain(LeadershipEdgar(s))
  BY <1>1, OneCandidate DEF Plain, LeadershipEdgar
<1>4. Plain(CompanyStatement(s))
  BY <1>1, OneCandidate DEF Plain, CompanyStatement
<1>5. Plain(EnvironmentalEnforcement(s))
  BY <1>1, OneCandidate DEF Plain, EnvironmentalEnforcement, Hinted
<1>6. Plain(CapitalProject(s))
  BY <1>1, OneCandidate DEF Plain, CapitalProject, Hinted
<1>7. Plain(GdeltTrial(s))
  BY <1>1, OneCandidate DEF Plain, GdeltTrial, Hinted
<1>8. QED
  BY <1>1, <1>2, <1>3, <1>4, <1>5, <1>6, <1>7

LEMMA PlainIncident ==
    ASSUME NEW s
    PROVE  Plain(IncidentEdgar(s))
<1> DEFINE a == Candidate("own_incident", "account", "known", "confirmed")
           b == Candidate("peer_incident", "sector", "class", "confirmed")
<1>1. IsFiniteSet({a, b})
  BY FewAreFinite
<1>2. Plain(Emits({a, b}))
  BY <1>1 DEF Plain, Outcome, Late, Emits, Candidate
<1>3. QED
  BY <1>2, PlainRules DEF IncidentEdgar

LEMMA PlainPage ==
    ASSUME NEW rs, NEW i
    PROVE  Plain(PageDiff(rs, i))
  BY PlainRules, OneCandidate DEF Plain, PageDiff

LEMMA PlainRegister ==
    ASSUME NEW s
    PROVE  Plain(FederalRegisterRules(s))
<1> DEFINE Fair(A) == /\ IsFiniteSet(A)
                      /\ \A c \in A : /\ c.scope = "account" => c.names \in {"hint", "known"}
                                     /\ c.tier # "unconfirmed_early_warning"
           t == s.tags
           A1 == IF {"TSA", "rulemaking", "security directive", "pipeline"} \subseteq t
                 THEN {Candidate("tsa_security_directive", RuleScope(t), "class", "none")} ELSE {}
           A2 == IF {"FERC", "rulemaking", "reliability standard"} \subseteq t /\ HasCipContext(t)
                 THEN {Candidate("nerc_cip_revision", RuleScope(t), "class", "none")} ELSE {}
           A4 == IF "company" \in t THEN {Hinted("nerc_enforcement")} ELSE {}
           A3 == IF {"FERC", "notice", "enforcement"} \subseteq t /\ HasReliability(t)
                 THEN {Candidate("nerc_enforcement", "sector", "class", "none")} \cup A4 ELSE {}
<1>1. Fair({})
  BY FewAreFinite
<1>2. ASSUME NEW trigger, NEW scope, NEW names, scope = "account" => names = "hint"
      PROVE  Fair({Candidate(trigger, scope, names, "none")})
  <2>1. IsFiniteSet({Candidate(trigger, scope, names, "none")})
    BY FewAreFinite
  <2>2. QED
    BY <1>2, <2>1 DEF Candidate
<1>3. ASSUME NEW A, NEW B, Fair(A), Fair(B) PROVE Fair(A \cup B)
  <2>1. IsFiniteSet(A \cup B)
    BY <1>3, FS_Union
  <2>2. QED
    BY <1>3, <2>1
<1>4. RuleScope(t) # "account"
  BY DEF RuleScope
<1> HIDE DEF Fair, t
<1>5. Fair(A1) /\ Fair(A2)
  BY <1>1, <1>2, <1>4
<1>6. Fair(A4)
  BY <1>1, <1>2 DEF Hinted
<1>7. Fair({Candidate("nerc_enforcement", "sector", "class", "none")})
  BY <1>2
<1> HIDE DEF A1, A2, A4
<1>8. Fair(A3)
  BY <1>1, <1>3, <1>6, <1>7
<1> HIDE DEF A3
<1>9. Fair(A1 \cup A2 \cup A3)
  BY <1>3, <1>5, <1>8
<1>10. Plain(Emits(A1 \cup A2 \cup A3))
  <2> DEFINE A == A1 \cup A2 \cup A3
  <2>1. Fair(A)
    BY <1>9
  <2> HIDE DEF A
  <2>2. Plain(Emits(A))
    BY <2>1 DEF Plain, Outcome, Late, Emits, Fair
  <2>3. QED
    BY <2>2 DEF A
<1>11. FederalRegisterRules(s) = Nothing \/ FederalRegisterRules(s) = Emits(A1 \cup A2 \cup A3)
  BY DEF FederalRegisterRules, A1, A2, A3, A4, t
<1>12. QED
  BY <1>10, <1>11, PlainRules

(* Names other people give: known to the rule, or nobody's.                 *)
LEMMA HearsayRules ==
    ASSUME NEW s, NEW from
    PROVE  /\ LET r == RansomwareListing(s) IN
              Outcome(r) /\ Known(r) /\ Early(r) /\ r.queue \in {"no", "once"}
           /\ LET r == SecurityPress(from, s) IN
              /\ Outcome(r) /\ Known(r) /\ r.queue \in {"no", "once"}
              /\ from # "bleepingcomputer" => Late(r)
           /\ LET r == PhmsaEnforcement(s) IN Outcome(r) /\ Known(r) /\ Late(r)
<1>1. LET r == RansomwareListing(s) IN
      Outcome(r) /\ Known(r) /\ Early(r) /\ r.queue \in {"no", "once"}
  BY EmptyOutcomes, OneCandidate DEF RansomwareListing
<1>2. LET r == DisclosedBy(s) IN
      Outcome(r) /\ Known(r) /\ Late(r) /\ r.queue \in {"no", "once"}
  BY EmptyOutcomes, OneCandidate DEF DisclosedBy
<1>3. LET r == SecurityPress(from, s) IN
      /\ Outcome(r) /\ Known(r) /\ r.queue \in {"no", "once"}
      /\ from # "bleepingcomputer" => Late(r)
  BY <1>2, EmptyOutcomes, OneCandidate DEF SecurityPress
<1>4. LET r == PhmsaEnforcement(s) IN Outcome(r) /\ Known(r) /\ Late(r)
  BY EmptyOutcomes, OneCandidate DEF PhmsaEnforcement
<1>5. QED
  BY <1>1, <1>3, <1>4

LEMMA RuleIs ==
    ASSUME NEW k \in ClassifiersOf(src), NEW rs, NEW i
    PROVE  LET r == Rule(k, src, rs, i) IN
           /\ Outcome(r)
           /\ src \in Hearsay => Known(r)
           /\ src \in Hearsay /\ src # "phmsa_enforcement" => r.queue \in {"no", "once"}
           /\ src = "ransomware_live" => Early(r)
           /\ src \notin {"ransomware_live", "bleepingcomputer"} => Late(r)
<1> DEFINE s == rs[i].doc.says
<1> HIDE DEF s
<1>1. CASE src \in {"presswire_prnewswire", "presswire_globenewswire", "sec_edgar_submissions"}
  BY <1>1, PlainRules, PlainIncident DEF ClassifiersOf, Rule, Hearsay, Plain
<1>2. CASE src \in {"federal_register", "nerc_pages"}
  BY <1>2, PlainRegister, PlainPage DEF ClassifiersOf, Rule, Hearsay, Plain
<1>3. CASE src \in {"epa_echo", "usaspending", "gdelt"}
  BY <1>3, PlainRules DEF ClassifiersOf, Rule, Hearsay, Plain
<1>4. CASE src = "ransomware_live"
  BY <1>4, HearsayRules DEF ClassifiersOf, Rule
<1>5. CASE src \in {"the_record", "bleepingcomputer"}
  BY <1>5, HearsayRules DEF ClassifiersOf, Rule
<1>6. CASE src = "phmsa_enforcement"
  BY <1>6, HearsayRules DEF ClassifiersOf, Rule
<1>7. QED
  BY <1>1, <1>2, <1>3, <1>4, <1>5, <1>6 DEF ClassifiersOf

(* A rule reads its row and the rows before it; rows that come later, and   *)
(* what is marked on the rows, change nothing.                              *)
LEMMA RuleStays ==
    ASSUME NEW rs, NEW rt, NEW k, NEW from, NEW i \in Nat,
           i >= 1, \A j \in 1 .. i : rt[j].doc = rs[j].doc
    PROVE  Rule(k, from, rt, i) = Rule(k, from, rs, i)
<1>1. rt[i].doc = rs[i].doc
  OBVIOUS
<1>2. PreviousSnapshot(rt, i) = PreviousSnapshot(rs, i)
  <2> DEFINE A == {j \in 1 .. i - 1 : rt[j].doc.name = rt[i].doc.name}
             B == {j \in 1 .. i - 1 : rs[j].doc.name = rs[i].doc.name}
             Latest(S) == CHOOSE j \in S : \A h \in S : h <= j
  <2>1. A = B
    <3>1. \A j \in 1 .. i - 1 : rt[j].doc = rs[j].doc
      OBVIOUS
    <3>2. QED
      BY <1>1, <3>1
  <2>2. /\ PreviousSnapshot(rt, i) = IF A = {} THEN 0 ELSE Latest(A)
        /\ PreviousSnapshot(rs, i) = IF B = {} THEN 0 ELSE Latest(B)
    BY DEF PreviousSnapshot
  <2> HIDE DEF A, B, Latest
  <2>3. QED
    BY <2>1, <2>2
<1>3. PreviousSnapshot(rs, i) \in 0 .. i - 1
  <2> DEFINE earlier == {j \in 1 .. i - 1 : rs[j].doc.name = rs[i].doc.name}
  <2>1. CASE earlier = {}
    BY <2>1 DEF PreviousSnapshot
  <2>2. CASE earlier # {}
    <3> DEFINE m == CHOOSE j \in earlier : \A h \in earlier : h <= j
    <3>1. earlier \in SUBSET Int /\ earlier # {} /\ \A x \in earlier : x <= i - 1
      BY <2>2
    <3>2. \E j \in earlier : \A h \in earlier : h <= j
      <4> DEFINE Left == {i - x : x \in earlier}
      <4>1. Left \in SUBSET Nat /\ Left # {}
        BY <2>2
      <4>2. PICK y \in Left : \A z \in Left : y <= z
        <5> HIDE DEF Left
        <5>1. QED
          BY <4>1, LeastOf
      <4>3. PICK j \in earlier : y = i - j
        OBVIOUS
      <4>4. \A h \in earlier : h <= j
        <5>1. \A h \in earlier : i - j <= i - h
          BY <4>2, <4>3
        <5>2. QED
          BY <5>1
      <4>5. QED
        BY <4>4
    <3>3. m \in earlier
      <4> HIDE DEF earlier
      <4>1. QED
        BY <3>2
    <3>4. PreviousSnapshot(rs, i) = m
      BY <2>2 DEF PreviousSnapshot
    <3> HIDE DEF m
    <3>5. QED
      BY <3>3, <3>4
  <2>3. QED
    BY <2>1, <2>2
<1>4. PageDiff(rt, i) = PageDiff(rs, i)
  <2> DEFINE j == PreviousSnapshot(rs, i)
  <2>1. j # 0 => rt[j].doc = rs[j].doc
    <3> HIDE DEF j
    <3>1. j # 0 => j \in 1 .. i
      BY <1>3 DEF j
    <3>2. QED
      BY <3>1
  <2>2. PreviousSnapshot(rt, i) = j
    BY <1>2
  <2> HIDE DEF j
  <2>3. QED
    BY <1>1, <2>1, <2>2 DEF PageDiff, j
<1>5. QED
  BY <1>1, <1>4 DEF Rule

-----------------------------------------------------------------------------
(* The inductive invariant.  A row keeps the document its key was made of;  *)
(* a card is one its row deserves, and once a classifier has been through a *)
(* row the row has them all; a review was asked for by a rule that gives no *)
(* card.                                                                    *)
RowsTrue ==
    /\ raws \in Seq(Rows)
    /\ \A i, j \in DOMAIN raws : raws[i].id = raws[j].id => i = j
    /\ \A i \in DOMAIN raws : \E part \in Nat : raws[i].id = Key(Way, part, raws[i].doc)

CardsTrue ==
    /\ \A c \in cards : \E i \in DOMAIN raws, k \in ClassifiersOf(src) : c \in CardsOf(k, i)
    /\ \A i \in DOMAIN raws : \A k \in raws[i].done :
          k \in ClassifiersOf(src) /\ CardsOf(k, i) \subseteq cards

ReviewsTrue ==
    src \in Hearsay =>
        \A i \in DOMAIN raws :
            /\ src # "phmsa_enforcement" => raws[i].pending <= 1
            /\ raws[i].pending > 0 \/ raws[i].decided =>
                  \A k \in ClassifiersOf(src) : Rule(k, src, raws, i).queue # "no"

PipeInv == SiteTyped /\ RowsTrue /\ CardsTrue /\ ReviewsTrue

(* Documents of one key are the same one and, where content is hashed, have *)
(* the same text.                                                           *)
LEMMA SameKey ==
    ASSUME NEW d, NEW e, NEW p, NEW r, Key(Way, p, d) = Key(Way, r, e), Way \in Ways
    PROVE  e.name = d.name /\ (ContentKeyed(d) => e.says = d.says)
<1>1. Key(Way, p, d)[2] = d.name /\ Key(Way, r, e)[2] = e.name
  BY DEF Key, Ways, Native, EntityHit, PayloadHash, PageHash, NativeOrHash
<1>2. ContentKeyed(d) => Key(Way, p, d)[1] = "hash"
  BY DEF Key, Way, ContentKeyed, Native, EntityHit, PayloadHash, PageHash, NativeOrHash
<1>3. Key(Way, p, d)[1] = "hash" => Key(Way, p, d)[3] = d.says
  BY DEF Key, Ways, Native, EntityHit, PayloadHash, PageHash, NativeOrHash
<1>4. Key(Way, r, e)[1] = "hash" => Key(Way, r, e)[3] = e.says
  BY DEF Key, Ways, Native, EntityHit, PayloadHash, PageHash, NativeOrHash
<1>5. QED
  BY <1>1, <1>2, <1>3, <1>4

LEMMA InitPipeInv == Init => PipeInv
<1> SUFFICES ASSUME Init PROVE PipeInv
  OBVIOUS
<1>1. Window \in Nat
  BY FetchersAssumption DEF FetchersAssumption
<1>2. SiteTyped
  BY <1>1 DEF Init, SiteTyped
<1>3. RowsTrue /\ CardsTrue /\ ReviewsTrue
  BY DEF Init, RowsTrue, CardsTrue, ReviewsTrue
<1>4. QED
  BY <1>2, <1>3 DEF PipeInv

(* What a listed document is.                                               *)
Fits(d) ==
    /\ d \in Documents
    /\ src \in ByPart => d.parts \cap ToSet(Parts[src]) # {}
    /\ src = "nerc_calendar" /\ d.day # Undated => d.day \div MonthDays \in d.parts
    /\ src = "nerc_enforcement" /\ d.day # Undated => d.day \div YearDays \in d.parts

LEMMA SiteIs ==
    SiteTyped <=> /\ src \in Sources /\ today \in Nat /\ today >= Window
                  /\ site \in Seq(Documents)
                  /\ \A i \in DOMAIN site : Fits(site[i])
  BY DEF SiteTyped, Fits

LEMMA PlacedFits ==
    ASSUME SiteTyped, NEW d \in Catalog[src]
    PROVE  Fits(Placed(d))
<1>1. d \in Documents /\ (src \in ByPart => d.parts \cap ToSet(Parts[src]) # {})
  BY PipelineAssumption DEF PipelineAssumption, SiteTyped
<1>2. Undated \notin Int /\ MonthDays \in Nat \ {0} /\ YearDays \in Nat \ {0} /\ today \in Int
  BY FetchersAssumption DEF FetchersAssumption, SiteTyped
<1> DEFINE e == Placed(d)
           day == IF d.day = Undated THEN Undated ELSE today + d.day
<1>3. day \in Int \cup {Undated}
  BY <1>1, <1>2 DEF Documents
<1>4. day # Undated => day \div MonthDays \in Int /\ day \div YearDays \in Int
  BY <1>2, <1>3
<1>5. e.day = day /\ e.name = d.name /\ e.ided = d.ided /\ e.fit = d.fit /\ e.says = d.says
  BY <1>1 DEF Placed, Documents
<1>6. /\ e.parts = CASE day # Undated /\ src = "nerc_calendar" -> {day \div MonthDays}
                     [] day # Undated /\ src = "nerc_enforcement" -> {day \div YearDays}
                     [] OTHER -> d.parts
  BY <1>1 DEF Placed, Documents
<1> HIDE DEF day
<1>7. e.parts \in SUBSET Int
  BY <1>1, <1>4, <1>6 DEF Documents
<1>8. e \in Documents
  BY <1>1, <1>3, <1>5, <1>7 DEF Placed, Documents
<1> HIDE DEF e
<1>9. src \in ByPart => e.parts = d.parts
  BY <1>6 DEF ByPart
<1>10. src = "nerc_calendar" /\ e.day # Undated => e.day \div MonthDays \in e.parts
  BY <1>5, <1>6
<1>11. src = "nerc_enforcement" /\ e.day # Undated => e.day \div YearDays \in e.parts
  BY <1>5, <1>6
<1>12. Fits(e)
  BY <1>1, <1>8, <1>9, <1>10, <1>11 DEF Fits
<1>13. QED
  BY <1>12 DEF e

LEMMA SiteStays ==
    ASSUME SiteTyped, Site
    PROVE  SiteTyped' /\ UNCHANGED <<src, raws, cards>>
<1>0. src \in Sources /\ today \in Nat /\ today >= Window /\ site \in Seq(Documents)
      /\ \A i \in DOMAIN site : Fits(site[i])
  BY SiteIs
<1>1. ASSUME NEW d \in Catalog[src], Publish(d) PROVE SiteTyped' /\ UNCHANGED <<src, raws, cards>>
  <2> DEFINE new == <<Placed(d)>> \o site
             m == Min({MaxSite, Len(new)})
  <2>1. UNCHANGED <<src, today, raws, cards>> /\ site' = SubSeq(new, 1, m)
    BY <1>1 DEF Publish
  <2>2. Fits(Placed(d)) /\ Placed(d) \in Documents
    BY PlacedFits DEF Fits
  <2>3. new \in Seq(Documents) /\ Len(new) \in Nat
    BY <1>0, <2>2
  <2>4. \A i \in DOMAIN new : Fits(new[i])
    <3> DEFINE e == Placed(d)
    <3> HIDE DEF e
    <3>1. Fits(e) /\ e \in Documents /\ new = <<e>> \o site
      BY <2>2 DEF e
    <3> HIDE DEF new
    <3>2. DOMAIN new = 1 .. 1 + Len(site) /\ new[1] = e
          /\ \A i \in 1 .. 1 + Len(site) : i # 1 => i - 1 \in DOMAIN site /\ new[i] = site[i - 1]
      BY <1>0, <3>1
    <3>3. QED
      BY <1>0, <3>1, <3>2
  <2>5. m \in Nat /\ m <= Len(new)
    <3> HIDE DEF new
    <3>1. MaxSite \in Int /\ MaxSite >= 0 /\ Len(new) \in Int
      BY <2>3, PipelineAssumption DEF PipelineAssumption
    <3>2. m \in {MaxSite, Len(new)} /\ m <= Len(new)
      BY <3>1, OfTwo, Zenon
    <3> HIDE DEF m
    <3>3. QED
      BY <2>3, <3>1, <3>2
  <2> HIDE DEF new, m
  <2>6. SubSeq(new, 1, m) \in Seq(Documents)
        /\ \A i \in DOMAIN SubSeq(new, 1, m) : i \in DOMAIN new /\ SubSeq(new, 1, m)[i] = new[i]
    BY <2>3, <2>5
  <2>7. site' \in Seq(Documents) /\ \A i \in DOMAIN site' : Fits(site'[i])
    BY <2>1, <2>4, <2>6
  <2>8. QED
    BY <1>0, <2>1, <2>7 DEF SiteTyped, Fits
<1>2. ASSUME NEW i \in DOMAIN site, NEW d \in Catalog[src], Amend(i, d)
      PROVE  SiteTyped' /\ UNCHANGED <<src, raws, cards>>
  <2> DEFINE e == [site[i] EXCEPT !.says = d.says, !.fit = d.fit]
  <2>1. UNCHANGED <<src, today, raws, cards>> /\ site' = [site EXCEPT ![i].says = d.says, ![i].fit = d.fit]
    BY <1>2 DEF Amend
  <2>2. d \in Documents /\ site[i] \in Documents /\ Fits(site[i])
    BY <1>0, PipelineAssumption DEF PipelineAssumption
  <2>3. e \in Documents /\ e.parts = site[i].parts /\ e.day = site[i].day
    BY <2>2 DEF Documents
  <2>4. site' = [site EXCEPT ![i] = e]
    BY <1>0, <2>1
  <2> HIDE DEF e
  <2>5. Fits(e)
    BY <2>2, <2>3 DEF Fits
  <2>6. site' \in Seq(Documents) /\ DOMAIN site' = DOMAIN site
        /\ \A j \in DOMAIN site : site'[j] = e \/ site'[j] = site[j]
    BY <1>0, <2>3, <2>4
  <2>7. \A j \in DOMAIN site' : Fits(site'[j])
    BY <1>0, <2>5, <2>6
  <2>8. QED
    BY <1>0, <2>1, <2>6, <2>7 DEF SiteTyped, Fits
<1>3. ASSUME Tomorrow PROVE SiteTyped' /\ UNCHANGED <<src, raws, cards>>
  <2>1. UNCHANGED <<src, site, raws, cards>> /\ today' = today + 1 /\ Window \in Nat
    BY <1>3, FetchersAssumption DEF Tomorrow, FetchersAssumption
  <2>2. QED
    BY <1>0, <2>1 DEF SiteTyped, Fits
<1>4. QED
  BY <1>1, <1>2, <1>3 DEF Site

(* What a row deserves does not change once it is stored.                   *)
LEMMA CardsStay ==
    ASSUME raws \in Seq(Rows), src' = src,
           \A i \in DOMAIN raws : raws'[i].id = raws[i].id /\ raws'[i].doc = raws[i].doc,
           NEW i \in DOMAIN raws, NEW k
    PROVE  CardsOf(k, i)' = CardsOf(k, i) /\ Rule(k, src, raws, i)' = Rule(k, src, raws, i)
<1>1. i \in Nat /\ i >= 1 /\ \A j \in 1 .. i : j \in DOMAIN raws
  OBVIOUS
<1>2. \A j \in 1 .. i : raws'[j].doc = raws[j].doc
  BY <1>1
<1>3. Rule(k, src, raws', i) = Rule(k, src, raws, i)
  BY <1>1, <1>2, RuleStays
<1>4. Rule(k, src, raws, i)' = Rule(k, src, raws, i)
  BY <1>3
<1>5. raws'[i].id = raws[i].id /\ SaysOf(i)' = SaysOf(i)
  BY DEF SaysOf
<1>6. Fated(k, i, "card")' = Fated(k, i, "card")
  BY <1>4, <1>5 DEF Fated
<1>7. CardsOf(k, i)' = CardsOf(k, i)
  BY <1>5, <1>6 DEF CardsOf
<1>8. QED
  BY <1>4, <1>7

(* A run stores a row for each key it reads, and leaves those it has.       *)
LEMMA StoredBy ==
    ASSUME PipeInv, NEW limit \in Nat \cup {Unlimited}, NEW up \in Nat, NEW form \in Forms,
           FetchRun(limit, up, form)
    PROVE  LET got == Fetch(src, Query(limit, up, form)).rows IN
           /\ raws' \in Seq(Rows)
           /\ \A i \in DOMAIN raws : i \in DOMAIN raws' /\ raws'[i] = raws[i]
           /\ \A i \in DOMAIN raws' : i \in DOMAIN raws
                 \/ \E x \in ToSet(got) : raws'[i] = Row(x)
           /\ \A i, j \in DOMAIN raws' : raws'[i].id = raws'[j].id => i = j
           /\ \A x \in ToSet(got) : \E i \in DOMAIN raws' : raws'[i].id = x.id
<1> DEFINE q == Query(limit, up, form)
           got == Fetch(src, q).rows
           new == NewRows(got)
           n == Len(raws)
<1>1. q \in Queries
  BY DEF Queries
<1> HIDE DEF q
<1>2. got \in Seq(Reads)
  BY <1>1, FetchGood DEF PipeInv, Good, Yields
<1>3. raws \in Seq(Rows) /\ \A i, j \in DOMAIN raws : raws[i].id = raws[j].id => i = j
  BY DEF PipeInv, RowsTrue
<1>4. raws' = raws \o new
  BY DEF FetchRun, q
<1> HIDE DEF got, new
<1>5. /\ new \in Seq(Rows)
      /\ \A k \in DOMAIN new : \E i \in DOMAIN got :
            ~Stored(raws, got[i].id) /\ new[k] = Row(got[i])
      /\ \A k, h \in DOMAIN new : new[k].id = new[h].id => k = h
      /\ \A i \in DOMAIN got : Stored(raws, got[i].id)
            \/ \E k \in DOMAIN new : new[k].id = got[i].id
  BY <1>2, <1>3, NewRowsAre DEF new
<1>6. /\ n \in Nat /\ DOMAIN raws = 1 .. n /\ Len(new) \in Nat /\ DOMAIN new = 1 .. Len(new)
      /\ raws' \in Seq(Rows) /\ DOMAIN raws' = 1 .. n + Len(new)
      /\ \A i \in 1 .. n + Len(new) : raws'[i] = IF i <= n THEN raws[i] ELSE new[i - n]
  BY <1>3, <1>4, <1>5
<1> HIDE DEF n
<1>7. \A i \in DOMAIN raws : i \in DOMAIN raws' /\ raws'[i] = raws[i]
  BY <1>6
<1>8. \A i \in DOMAIN raws' : i \in DOMAIN raws \/ (i - n \in DOMAIN new /\ raws'[i] = new[i - n])
  BY <1>6
<1>9. \A k \in DOMAIN new : \E x \in ToSet(got) : ~Stored(raws, x.id) /\ new[k] = Row(x) /\ new[k].id = x.id
  BY <1>5 DEF ToSet, Row
<1>10. \A i \in DOMAIN raws' : i \in DOMAIN raws \/ \E x \in ToSet(got) : raws'[i] = Row(x)
  BY <1>8, <1>9
<1>11. \A i \in DOMAIN raws, k \in DOMAIN new : raws[i].id # new[k].id
  BY <1>9 DEF Stored
<1>12. ASSUME NEW i \in DOMAIN raws', NEW j \in DOMAIN raws', raws'[i].id = raws'[j].id PROVE i = j
  <2>1. i \in Int /\ j \in Int
    BY <1>6
  <2>2. CASE i \in DOMAIN raws /\ j \in DOMAIN raws
    BY <1>3, <1>7, <1>12, <2>2
  <2>3. CASE i \in DOMAIN raws /\ j \notin DOMAIN raws
    BY <1>7, <1>8, <1>11, <1>12, <2>3
  <2>4. CASE i \notin DOMAIN raws /\ j \in DOMAIN raws
    BY <1>7, <1>8, <1>11, <1>12, <2>4
  <2>5. CASE i \notin DOMAIN raws /\ j \notin DOMAIN raws
    <3>1. i - n \in DOMAIN new /\ j - n \in DOMAIN new /\ new[i - n].id = new[j - n].id
      BY <1>8, <1>12, <2>5
    <3>2. i - n = j - n
      BY <1>5, <3>1
    <3>3. QED
      BY <1>6, <2>1, <3>2
  <2>6. QED
    BY <2>2, <2>3, <2>4, <2>5
<1>13. ASSUME NEW x \in ToSet(got) PROVE \E i \in DOMAIN raws' : raws'[i].id = x.id
  <2>1. PICK a \in DOMAIN got : x = got[a]
    BY DEF ToSet
  <2>2. CASE Stored(raws, x.id)
    BY <1>7, <2>2 DEF Stored
  <2>3. CASE ~Stored(raws, x.id)
    <3>1. PICK k \in DOMAIN new : new[k].id = x.id
      BY <1>5, <2>1, <2>3
    <3>2. k + n \in DOMAIN raws' /\ ~ (k + n <= n) /\ (k + n) - n = k
      BY <1>6
    <3>3. raws'[k + n] = new[k]
      BY <1>6, <3>2
    <3>4. QED
      BY <3>1, <3>2, <3>3
  <2>4. QED
    BY <2>2, <2>3
<1>14. QED
  BY <1>6, <1>7, <1>10, <1>12, <1>13 DEF got, q

LEMMA FetchKeeps ==
    ASSUME PipeInv, NEW limit \in Nat \cup {Unlimited}, NEW up \in Nat, NEW form \in Forms,
           FetchRun(limit, up, form)
    PROVE  PipeInv'
<1> DEFINE q == Query(limit, up, form)
           got == Fetch(src, q).rows
<1>1. q \in Queries
  BY DEF Queries
<1>2. UNCHANGED <<src, site, today, cards>>
  BY DEF FetchRun
<1>3. /\ raws' \in Seq(Rows)
      /\ \A i \in DOMAIN raws : i \in DOMAIN raws' /\ raws'[i] = raws[i]
      /\ \A i \in DOMAIN raws' : i \in DOMAIN raws \/ \E x \in ToSet(got) : raws'[i] = Row(x)
      /\ \A i, j \in DOMAIN raws' : raws'[i].id = raws'[j].id => i = j
  BY StoredBy
<1> HIDE DEF q
<1>4. \A x \in ToSet(got) : \E part \in Nat : x.id = Key(Way, part, x.doc)
  BY <1>1, FetchGood DEF PipeInv, Good, Yields
<1> HIDE DEF got
<1>5. SiteTyped'
  BY <1>2 DEF PipeInv, SiteTyped
<1>6. \A x : /\ Row(x).id = x.id /\ Row(x).doc = x.doc /\ Row(x).done = {}
            /\ Row(x).pending = 0 /\ Row(x).decided = FALSE
  BY DEF Row
<1>7. RowsTrue'
  <2>1. Way' = Way
    BY <1>2 DEF Way
  <2>2. ASSUME NEW i \in DOMAIN raws' PROVE \E part \in Nat : raws'[i].id = Key(Way, part, raws'[i].doc)
    <3>1. CASE i \in DOMAIN raws
      BY <1>3, <3>1 DEF PipeInv, RowsTrue
    <3>2. CASE i \notin DOMAIN raws
      <4>1. PICK x \in ToSet(got) : raws'[i] = Row(x)
        BY <1>3, <3>2
      <4>2. QED
        BY <1>4, <1>6, <4>1
    <3>3. QED
      BY <3>1, <3>2
  <2>3. QED
    BY <1>3, <2>1, <2>2 DEF RowsTrue
<1>8. ASSUME NEW i \in DOMAIN raws, NEW k
      PROVE  CardsOf(k, i)' = CardsOf(k, i) /\ Rule(k, src, raws, i)' = Rule(k, src, raws, i)
  <2>1. raws \in Seq(Rows)
    BY DEF PipeInv, RowsTrue
  <2>2. \A j \in DOMAIN raws : raws'[j].id = raws[j].id /\ raws'[j].doc = raws[j].doc
    BY <1>3
  <2>3. QED
    BY <1>2, <2>1, <2>2, CardsStay
<1>9. CardsTrue'
  <2>1. ASSUME NEW c \in cards'
        PROVE  \E i \in DOMAIN raws', k \in ClassifiersOf(src)' : c \in CardsOf(k, i)'
    <3>1. PICK i \in DOMAIN raws, k \in ClassifiersOf(src) : c \in CardsOf(k, i)
      BY <1>2, <2>1 DEF PipeInv, CardsTrue
    <3>2. QED
      BY <1>2, <1>3, <1>8, <3>1
  <2>2. ASSUME NEW i \in DOMAIN raws', NEW k \in raws'[i].done
        PROVE  k \in ClassifiersOf(src)' /\ CardsOf(k, i)' \subseteq cards'
    <3>1. i \in DOMAIN raws
      BY <1>3, <1>6
    <3>2. k \in raws[i].done
      BY <1>3, <3>1
    <3>3. QED
      BY <1>2, <1>8, <3>1, <3>2 DEF PipeInv, CardsTrue
  <2>3. QED
    BY <2>1, <2>2 DEF CardsTrue
<1>10. ReviewsTrue'
  <2> SUFFICES ASSUME src' \in Hearsay, NEW i \in DOMAIN raws'
               PROVE  /\ src' # "phmsa_enforcement" => raws'[i].pending <= 1
                      /\ raws'[i].pending > 0 \/ raws'[i].decided =>
                            \A k \in ClassifiersOf(src)' : Rule(k, src, raws, i)'.queue # "no"
    BY DEF ReviewsTrue, Hearsay
  <2>1. CASE i \in DOMAIN raws
    BY <1>2, <1>3, <1>8, <2>1 DEF PipeInv, ReviewsTrue
  <2>2. CASE i \notin DOMAIN raws
    BY <1>3, <1>6, <2>2
  <2>3. QED
    BY <2>1, <2>2
<1>11. QED
  BY <1>5, <1>7, <1>9, <1>10 DEF PipeInv

(* A card of a name was earned by the name, or by the text it is in.        *)
LEMMA FateIs ==
    ASSUME NEW c, NEW s
    PROVE  /\ c.names = "known" /\ Fate(c, s) = "card" => s.who = "matched"
           /\ c.names = "hint" /\ s.ctx \in Verdicts /\ Fate(c, s) = "card" => s.ctx = "matched"
           /\ c.names \in {"known", "class"} => Fate(c, s) # "review"
  BY DEF Fate, Verdicts

(* Where only others' words are, the rule alone asks for reviews: once, or  *)
(* each time for an operator of PHMSA's.                                    *)
LEMMA AsksIs ==
    ASSUME NEW k \in ClassifiersOf(src), NEW i
    PROVE  /\ Asks(k, i) \in Nat
           /\ src \in Hearsay /\ Rule(k, src, raws, i).queue = "no" => Asks(k, i) = 0
           /\ src \in Hearsay /\ src # "phmsa_enforcement" =>
                Asks(k, i) <= 1 /\ (raws[i].pending # 0 => Asks(k, i) = 0)
<1> DEFINE r == Rule(k, src, raws, i)
           F == Fated(k, i, "review")
           own == CASE r.queue = "once"   -> IF raws[i].pending = 0 THEN 1 ELSE 0
                    [] r.queue = "always" -> 1
                    [] OTHER              -> 0
<1>1. Asks(k, i) = Cardinality(F) + own
  BY DEF Asks
<1>2. Outcome(r) /\ (src \in Hearsay => Known(r))
      /\ (src \in Hearsay /\ src # "phmsa_enforcement" => r.queue \in {"no", "once"})
  BY RuleIs
<1>3. F = {c \in r.cands : Fate(c, SaysOf(i)) = "review"}
  BY DEF Fated
<1> HIDE DEF r, F
<1>4. IsFiniteSet(F)
  <2>1. F \subseteq r.cands /\ IsFiniteSet(r.cands)
    BY <1>2, <1>3 DEF Outcome
  <2>2. QED
    BY <2>1, FS_Subset
<1>5. Cardinality(F) \in Nat
  BY <1>4, FS_CardinalityType
<1>6. src \in Hearsay => Cardinality(F) = 0
  <2> SUFFICES ASSUME src \in Hearsay PROVE Cardinality(F) = 0
    OBVIOUS
  <2>1. \A c \in r.cands : c.names \in {"known", "class"}
    BY <1>2 DEF Known
  <2>2. \A c \in r.cands : Fate(c, SaysOf(i)) # "review"
    BY <2>1, FateIs
  <2>3. F = {}
    BY <1>3, <2>2
  <2>4. QED
    BY <2>3, FS_EmptySet
<1>7. own \in Nat /\ (r.queue = "no" => own = 0)
      /\ (r.queue \in {"no", "once"} => own <= 1 /\ (raws[i].pending # 0 => own = 0))
  OBVIOUS
<1> HIDE DEF own
<1>8. QED
  BY <1>1, <1>2, <1>5, <1>6, <1>7 DEF r

(* What a run and a decision make of a row.                                 *)
Mark(row, k, n) == [row EXCEPT !.done = @ \cup {k}, !.pending = @ + n]
Decide(row, n) == [[row EXCEPT !.pending = n] EXCEPT !.decided = TRUE]

LEMMA Marked ==
    ASSUME NEW row \in Rows, NEW k \in Classifiers, NEW n \in Nat
    PROVE  LET e == Mark(row, k, n) IN
           /\ e \in Rows /\ e.id = row.id /\ e.doc = row.doc
           /\ e.done = row.done \cup {k} /\ e.pending = row.pending + n /\ e.decided = row.decided
<1> DEFINE e == Mark(row, k, n)
<1>1. /\ row.id \in Keys /\ row.doc \in Documents /\ row.done \cup {k} \in SUBSET Classifiers
      /\ row.pending + n \in Nat /\ row.decided \in BOOLEAN
  BY DEF Rows
<1>2. e = [id |-> row.id, doc |-> row.doc, done |-> row.done \cup {k}, pending |-> row.pending + n,
           decided |-> row.decided]
  <2> DEFINE m == [row EXCEPT !.done = @ \cup {k}]
  <2>1. m = [id |-> row.id, doc |-> row.doc, done |-> row.done \cup {k}, pending |-> row.pending,
             decided |-> row.decided]
    BY DEF Rows
  <2>2. e = [m EXCEPT !.pending = row.pending + n]
    BY Zenon DEF Mark
  <2> HIDE DEF m, e
  <2>3. QED
    BY <2>1, <2>2
<1> HIDE DEF e
<1>3. e \in Rows
  BY <1>1, <1>2 DEF Rows
<1>4. /\ e.id = row.id /\ e.doc = row.doc
      /\ e.done = row.done \cup {k} /\ e.pending = row.pending + n /\ e.decided = row.decided
  BY <1>2
<1>5. QED
  BY <1>3, <1>4 DEF e

LEMMA Decided ==
    ASSUME NEW row \in Rows, NEW n \in Nat
    PROVE  LET e == Decide(row, n) IN
           /\ e \in Rows /\ e.id = row.id /\ e.doc = row.doc
           /\ e.done = row.done /\ e.pending = n
<1> DEFINE m == [row EXCEPT !.pending = n]
           e == Decide(row, n)
<1>1. /\ row.id \in Keys /\ row.doc \in Documents /\ row.done \in SUBSET Classifiers
      /\ row.decided \in BOOLEAN
  BY DEF Rows
<1>2. m = [id |-> row.id, doc |-> row.doc, done |-> row.done, pending |-> n,
           decided |-> row.decided]
  BY DEF Rows
<1>3. e = [m EXCEPT !.decided = TRUE]
  BY DEF Decide
<1> HIDE DEF m, e
<1>4. e = [id |-> row.id, doc |-> row.doc, done |-> row.done, pending |-> n, decided |-> TRUE]
  BY <1>2, <1>3
<1>5. e \in Rows
  BY <1>1, <1>4 DEF Rows
<1>6. QED
  BY <1>4, <1>5 DEF e

LEMMA ClassifyKeeps ==
    ASSUME PipeInv, NEW k \in ClassifiersOf(src), NEW mode, NEW limit, Classify(k, mode, limit)
    PROVE  PipeInv'
<1> DEFINE rows == Taken(k, mode, limit)
<1>1. UNCHANGED <<src, site, today>>
  BY DEF Classify
<1>2. /\ raws' = [i \in DOMAIN raws |->
                    IF i \in rows
                    THEN [raws[i] EXCEPT !.done = @ \cup {k}, !.pending = @ + Asks(k, i)]
                    ELSE raws[i]]
      /\ cards' = cards \cup UNION {CardsOf(k, i) : i \in rows}
  BY DEF Classify
<1>3. rows \subseteq DOMAIN raws
  BY DEF Taken
<1> HIDE DEF rows
<1>4. raws \in Seq(Rows) /\ \A i \in DOMAIN raws : raws[i] \in Rows
  BY DEF PipeInv, RowsTrue
<1>5. k \in Classifiers
  BY DEF ClassifiersOf, Classifiers
<1>6. \A i \in DOMAIN raws : Asks(k, i) \in Nat
  BY AsksIs
<1>7. ASSUME NEW i \in DOMAIN raws
      PROVE  /\ raws'[i] \in Rows /\ raws'[i].id = raws[i].id /\ raws'[i].doc = raws[i].doc
             /\ raws'[i].decided = raws[i].decided
             /\ i \in rows => raws'[i].done = raws[i].done \cup {k}
                              /\ raws'[i].pending = raws[i].pending + Asks(k, i)
             /\ i \notin rows => raws'[i] = raws[i]
  <2>1. CASE i \in rows
    <3> DEFINE row == raws[i]
               n == Asks(k, i)
               e == Mark(row, k, n)
    <3>1. row \in Rows /\ n \in Nat
      BY <1>4, <1>6
    <3>2. raws'[i] = e
      BY <1>2, <2>1 DEF Mark
    <3> HIDE DEF row, n
    <3>3. /\ e \in Rows /\ e.id = row.id /\ e.doc = row.doc
          /\ e.done = row.done \cup {k} /\ e.pending = row.pending + n /\ e.decided = row.decided
      BY <1>5, <3>1, Marked
    <3> HIDE DEF e
    <3>4. QED
      BY <2>1, <3>2, <3>3 DEF row, n
  <2>2. CASE i \notin rows
    <3>1. raws'[i] = raws[i]
      BY <1>2, <2>2
    <3>2. QED
      BY <1>4, <2>2, <3>1
  <2>3. QED
    BY <2>1, <2>2
<1>8. raws' \in Seq(Rows) /\ DOMAIN raws' = DOMAIN raws
  <2>1. Len(raws) \in Nat /\ DOMAIN raws = 1 .. Len(raws)
    BY <1>4
  <2>2. DOMAIN raws' = DOMAIN raws
    BY <1>2
  <2>3. raws' \in [1 .. Len(raws) -> Rows]
    <3>1. raws' = [i \in DOMAIN raws |-> raws'[i]]
      BY <1>2
    <3>2. QED
      BY <1>7, <2>1, <3>1
  <2>4. QED
    BY <2>1, <2>2, <2>3, SeqMade
<1>9. SiteTyped'
  BY <1>1 DEF PipeInv, SiteTyped
<1>10. RowsTrue'
  <2>1. Way' = Way
    BY <1>1 DEF Way
  <2>2. QED
    BY <1>7, <1>8, <2>1 DEF PipeInv, RowsTrue
<1>11. ASSUME NEW i \in DOMAIN raws, NEW h
       PROVE  CardsOf(h, i)' = CardsOf(h, i) /\ Rule(h, src, raws, i)' = Rule(h, src, raws, i)
  BY <1>1, <1>4, <1>7, CardsStay
<1>12. CardsTrue'
  <2>1. ASSUME NEW c \in cards'
        PROVE  \E i \in DOMAIN raws', h \in ClassifiersOf(src)' : c \in CardsOf(h, i)'
    <3>1. CASE c \in cards
      <4>1. PICK i \in DOMAIN raws, h \in ClassifiersOf(src) : c \in CardsOf(h, i)
        BY <3>1 DEF PipeInv, CardsTrue
      <4>2. QED
        BY <1>1, <1>8, <1>11, <4>1
    <3>2. CASE c \notin cards
      <4>1. PICK i \in rows : c \in CardsOf(k, i)
        BY <1>2, <2>1, <3>2
      <4>2. QED
        BY <1>1, <1>3, <1>8, <1>11, <4>1
    <3>3. QED
      BY <3>1, <3>2
  <2>2. ASSUME NEW i \in DOMAIN raws', NEW h \in raws'[i].done
        PROVE  h \in ClassifiersOf(src)' /\ CardsOf(h, i)' \subseteq cards'
    <3>1. i \in DOMAIN raws
      BY <1>8
    <3>2. CASE h \in raws[i].done
      BY <1>1, <1>2, <1>11, <3>1, <3>2 DEF PipeInv, CardsTrue
    <3>3. CASE h \notin raws[i].done
      <4>1. i \in rows /\ h = k
        BY <1>7, <3>1, <3>3
      <4>2. QED
        BY <1>1, <1>2, <1>11, <3>1, <4>1
    <3>4. QED
      BY <3>2, <3>3
  <2>3. QED
    BY <2>1, <2>2 DEF CardsTrue
<1>13. ReviewsTrue'
  <2> SUFFICES ASSUME src \in Hearsay, NEW i \in DOMAIN raws
               PROVE  /\ src # "phmsa_enforcement" => raws'[i].pending <= 1
                      /\ raws'[i].pending > 0 \/ raws'[i].decided =>
                            \A h \in ClassifiersOf(src) : Rule(h, src, raws, i).queue # "no"
    BY <1>1, <1>8, <1>11 DEF ReviewsTrue, Hearsay
  <2>1. raws[i].pending \in Nat /\ Asks(k, i) \in Nat
    BY <1>4, <1>6 DEF Rows
  <2>2. /\ src # "phmsa_enforcement" => raws[i].pending <= 1
        /\ raws[i].pending > 0 \/ raws[i].decided =>
              \A h \in ClassifiersOf(src) : Rule(h, src, raws, i).queue # "no"
    BY DEF PipeInv, ReviewsTrue
  <2>3. CASE i \notin rows
    BY <1>7, <2>2, <2>3
  <2>4. CASE i \in rows
    <3>1. raws'[i].pending = raws[i].pending + Asks(k, i)
      BY <1>7, <2>4
    <3>2. src # "phmsa_enforcement" => raws'[i].pending <= 1
      <4>1. src # "phmsa_enforcement" =>
              Asks(k, i) <= 1 /\ (raws[i].pending # 0 => Asks(k, i) = 0)
        BY AsksIs
      <4>2. QED
        BY <2>1, <2>2, <3>1, <4>1
    <3>3. ASSUME raws'[i].pending > 0 \/ raws'[i].decided, NEW h \in ClassifiersOf(src)
          PROVE  Rule(h, src, raws, i).queue # "no"
      <4>1. h = k
        BY DEF ClassifiersOf, Hearsay
      <4>2. Rule(k, src, raws, i).queue = "no" => Asks(k, i) = 0
        BY AsksIs
      <4>3. CASE raws[i].pending > 0 \/ raws[i].decided
        BY <2>2, <4>3
      <4>4. CASE ~ (raws[i].pending > 0 \/ raws[i].decided)
        <5>1. Asks(k, i) # 0
          BY <1>7, <2>1, <3>1, <3>3, <4>4
        <5>2. QED
          BY <4>1, <4>2, <5>1
      <4>5. QED
        BY <4>3, <4>4
    <3>4. QED
      BY <3>2, <3>3
  <2>5. QED
    BY <2>3, <2>4
<1>14. QED
  BY <1>9, <1>10, <1>12, <1>13 DEF PipeInv

(* A decision shrinks the queue and touches neither rows nor cards; what it *)
(* decides was waiting.                                                     *)
LEMMA TriageKeeps ==
    ASSUME PipeInv, NEW i \in DOMAIN raws, Triage(i)
    PROVE  PipeInv'
<1>1. UNCHANGED <<src, site, today, cards>>
  BY DEF Triage
<1>2. PICK left \in 0 .. raws[i].pending - 1 :
         raws' = [raws EXCEPT ![i].pending = left, ![i].decided = TRUE]
  BY DEF Triage
<1>3. raws \in Seq(Rows) /\ \A j \in DOMAIN raws : raws[j] \in Rows
  BY DEF PipeInv, RowsTrue
<1>4. left \in Nat /\ left < raws[i].pending
  BY <1>3 DEF Rows
<1> DEFINE row == raws[i]
           e == Decide(row, left)
<1>5. raws' = [raws EXCEPT ![i] = e]
  <2> DEFINE m == [raws EXCEPT ![i] = [raws[i] EXCEPT !.pending = left]]
  <2>1. m = [raws EXCEPT ![i].pending = left]
    BY Zenon
  <2>2. raws' = [m EXCEPT ![i] = [m[i] EXCEPT !.decided = TRUE]]
    BY <1>2, Zenon
  <2>3. m[i] = [raws[i] EXCEPT !.pending = left]
    BY <1>3
  <2>4. raws' = [m EXCEPT ![i] = e]
    BY <2>2, <2>3, Zenon DEF Decide
  <2> HIDE DEF e
  <2>5. QED
    BY <1>3, <2>4
<1>6. /\ e \in Rows /\ e.id = raws[i].id /\ e.doc = raws[i].doc /\ e.done = raws[i].done
      /\ e.pending = left
  <2>1. row \in Rows
    BY <1>3
  <2> HIDE DEF row
  <2>2. /\ e \in Rows /\ e.id = row.id /\ e.doc = row.doc /\ e.done = row.done
        /\ e.pending = left
    BY <1>4, <2>1, Decided
  <2> HIDE DEF e
  <2>3. QED
    BY <2>2 DEF row
<1> HIDE DEF row, e
<1>7. raws' \in Seq(Rows) /\ DOMAIN raws' = DOMAIN raws
  BY <1>3, <1>5, <1>6
<1>8. ASSUME NEW j \in DOMAIN raws
      PROVE  /\ raws'[j].id = raws[j].id /\ raws'[j].doc = raws[j].doc
             /\ raws'[j].done = raws[j].done
             /\ raws'[j].pending \in Nat /\ raws'[j].pending <= raws[j].pending
             /\ raws'[j] = raws[j] \/ raws[j].pending > 0
  <2>1. CASE j = i
    <3>1. raws'[j] = e
      BY <1>3, <1>5, <2>1
    <3>2. QED
      BY <1>3, <1>4, <1>6, <2>1, <3>1 DEF Rows
  <2>2. CASE j # i
    <3>1. raws'[j] = raws[j]
      BY <1>3, <1>5, <2>2
    <3>2. raws[j].pending \in Nat
      BY <1>3 DEF Rows
    <3>3. QED
      BY <3>1, <3>2
  <2>3. QED
    BY <2>1, <2>2
<1>9. SiteTyped'
  BY <1>1 DEF PipeInv, SiteTyped
<1>10. RowsTrue'
  <2>1. Way' = Way
    BY <1>1 DEF Way
  <2>2. QED
    BY <1>7, <1>8, <2>1 DEF PipeInv, RowsTrue
<1>11. ASSUME NEW j \in DOMAIN raws, NEW h
       PROVE  CardsOf(h, j)' = CardsOf(h, j) /\ Rule(h, src, raws, j)' = Rule(h, src, raws, j)
  BY <1>1, <1>3, <1>8, CardsStay
<1>12. CardsTrue'
  <2>1. ASSUME NEW c \in cards'
        PROVE  \E j \in DOMAIN raws', h \in ClassifiersOf(src)' : c \in CardsOf(h, j)'
    <3>1. PICK j \in DOMAIN raws, h \in ClassifiersOf(src) : c \in CardsOf(h, j)
      BY <1>1, <2>1 DEF PipeInv, CardsTrue
    <3>2. QED
      BY <1>1, <1>7, <1>11, <3>1
  <2>2. ASSUME NEW j \in DOMAIN raws', NEW h \in raws'[j].done
        PROVE  h \in ClassifiersOf(src)' /\ CardsOf(h, j)' \subseteq cards'
    BY <1>1, <1>7, <1>8, <1>11 DEF PipeInv, CardsTrue
  <2>3. QED
    BY <2>1, <2>2 DEF CardsTrue
<1>13. ReviewsTrue'
  <2> SUFFICES ASSUME src \in Hearsay, NEW j \in DOMAIN raws
               PROVE  /\ src # "phmsa_enforcement" => raws'[j].pending <= 1
                      /\ raws'[j].pending > 0 \/ raws'[j].decided =>
                            \A h \in ClassifiersOf(src) : Rule(h, src, raws, j).queue # "no"
    BY <1>1, <1>7, <1>11 DEF ReviewsTrue, Hearsay
  <2>1. /\ src # "phmsa_enforcement" => raws[j].pending <= 1
        /\ raws[j].pending > 0 \/ raws[j].decided =>
              \A h \in ClassifiersOf(src) : Rule(h, src, raws, j).queue # "no"
    BY DEF PipeInv, ReviewsTrue
  <2>2. raws[j].pending \in Nat
    BY <1>3 DEF Rows
  <2>3. QED
    BY <1>8, <2>1, <2>2
<1>14. QED
  BY <1>9, <1>10, <1>12, <1>13 DEF PipeInv

(* Every step of the site, of a fetch, of a classifier and of the operator  *)
(* keeps it.                                                                *)
LEMMA NextPipeInv == PipeInv /\ [Next]_vars => PipeInv'
<1> SUFFICES ASSUME PipeInv, [Next]_vars PROVE PipeInv'
  OBVIOUS
<1>1. ASSUME UNCHANGED <<src, raws, cards>>, SiteTyped' PROVE PipeInv'
  <2>1. RowsTrue' /\ ReviewsTrue'
    BY <1>1 DEF PipeInv, RowsTrue, ReviewsTrue, Way, Hearsay
  <2>2. CardsTrue'
    BY <1>1 DEF PipeInv, CardsTrue, CardsOf, Fated, SaysOf
  <2>3. QED
    BY <1>1, <2>1, <2>2 DEF PipeInv
<1>2. CASE Site
  BY <1>1, <1>2, SiteStays DEF PipeInv
<1>3. ASSUME NEW t \in Turns, FetchRun(t[1], t[2], t[3]) PROVE PipeInv'
  <2>1. t[1] \in Nat \cup {Unlimited} /\ t[2] \in Nat /\ t[3] \in Forms
    BY DEF Turns, Limits, Asked, Forms
  <2>2. QED
    BY <1>3, <2>1, FetchKeeps
<1>4. ASSUME NEW k \in ClassifiersOf(src), NEW mode \in {"new", "force"}, NEW limit \in Limits,
             Classify(k, mode, limit)
      PROVE  PipeInv'
  BY <1>4, ClassifyKeeps
<1>5. ASSUME NEW i \in DOMAIN raws, Triage(i) PROVE PipeInv'
  BY <1>5, TriageKeeps
<1>6. CASE UNCHANGED vars
  BY <1>1, <1>6 DEF PipeInv, SiteTyped, vars
<1>7. QED
  BY <1>2, <1>3, <1>4, <1>5, <1>6 DEF Next, Runs

-----------------------------------------------------------------------------
(* A row has the document that its key is the key of.                       *)
LEMMA KeptBy ==
    ASSUME PipeInv, NEW i \in DOMAIN site, NEW x, x.doc = site[i],
           \E part \in Nat : x.id = Key(Way, part, x.doc),
           NEW row, row.id = x.id, \E part \in Nat : row.id = Key(Way, part, row.doc)
    PROVE  Keeps(row, site[i])
<1>1. PICK p \in Nat : x.id = Key(Way, p, site[i])
  OBVIOUS
<1>2. PICK r \in Nat : row.id = Key(Way, r, row.doc)
  OBVIOUS
<1>3. Way \in Ways
  BY DEF Way, Ways
<1>4. Key(Way, p, site[i]) = Key(Way, r, row.doc)
  BY <1>1, <1>2
<1>5. row.doc.name = site[i].name /\ (ContentKeyed(site[i]) => row.doc.says = site[i].says)
  BY <1>3, <1>4, SameKey
<1>6. QED
  BY <1>5 DEF Keeps

LEMMA EarnedFromInv == PipeInv => NamesAreEarned
<1> SUFFICES ASSUME PipeInv, NEW c \in cards, NEW i \in DOMAIN raws, raws[i].id = c.row
             PROVE  /\ c.holder = "account" =>
                         /\ src \in Hearsay => SaysOf(i).who = "matched"
                         /\ "matched" \in {SaysOf(i).who, SaysOf(i).ctx}
                    /\ src = "ransomware_live" => c.tier = "unconfirmed_early_warning"
                    /\ c.tier = "unconfirmed_early_warning" =>
                          src \in {"ransomware_live", "bleepingcomputer"}
  BY DEF NamesAreEarned
<1>1. PICK j \in DOMAIN raws, k \in ClassifiersOf(src) : c \in CardsOf(k, j)
  BY DEF PipeInv, CardsTrue
<1>2. PICK d \in Fated(k, j, "card") :
         c = [trigger |-> d.trigger, row |-> raws[j].id, holder |-> d.scope, tier |-> d.tier]
  BY <1>1 DEF CardsOf
<1>3. c.row = raws[j].id /\ c.holder = d.scope /\ c.tier = d.tier
  BY <1>2
<1>4. j = i
  BY <1>3 DEF PipeInv, RowsTrue
<1>5. d \in Rule(k, src, raws, i).cands /\ Fate(d, SaysOf(i)) = "card"
  BY <1>2, <1>4 DEF Fated
<1>6. SaysOf(i).ctx \in Verdicts
  <2>1. raws[i] \in Rows
    BY DEF PipeInv, RowsTrue
  <2>2. raws[i].doc.says.ctx \in Verdicts
    BY <2>1 DEF Rows, Documents
  <2>3. QED
    BY <2>2 DEF SaysOf
<1> DEFINE r == Rule(k, src, raws, i)
<1>7. /\ Outcome(r) /\ (src \in Hearsay => Known(r))
      /\ src = "ransomware_live" => Early(r)
      /\ src \notin {"ransomware_live", "bleepingcomputer"} => Late(r)
  BY RuleIs
<1>8. d \in r.cands
  BY <1>5
<1> HIDE DEF r
<1>9. /\ d.scope = "account" => d.names \in {"hint", "known"}
      /\ src \in Hearsay => d.names \in {"known", "class"}
      /\ src = "ransomware_live" => d.tier = "unconfirmed_early_warning"
      /\ src \notin {"ransomware_live", "bleepingcomputer"} => d.tier # "unconfirmed_early_warning"
  BY <1>7, <1>8 DEF Outcome, Known, Early, Late
<1>10. /\ d.names = "known" => SaysOf(i).who = "matched"
       /\ d.names = "hint" => SaysOf(i).ctx = "matched"
  BY <1>5, <1>6, FateIs
<1>11. QED
  BY <1>3, <1>9, <1>10

(* Whatever documents a site publishes and amends, and however often a row  *)
(* is classified: a card names an account only if the row's name alone      *)
(* gives it, where others' words are published, and the card's tier says    *)
(* whose claim it is.                                                       *)
THEOREM NamesEarned == Spec => []NamesAreEarned
<1>1. Spec => []PipeInv
  BY InitPipeInv, NextPipeInv, PTL DEF Spec
<1>2. QED
  BY <1>1, EarnedFromInv, PTL

LEMMA WaitsFromInv == PipeInv => OneReviewWaits
<1> SUFFICES ASSUME PipeInv, src \in Hearsay, NEW i \in DOMAIN raws
             PROVE  /\ src \in LooksFirst => raws[i].pending <= 1
                    /\ raws[i].pending > 0 \/ raws[i].decided => Doubtful(i)
                    /\ Doubtful(i) => \A c \in cards : c.row # raws[i].id
  BY DEF OneReviewWaits
<1>1. /\ src # "phmsa_enforcement" => raws[i].pending <= 1
      /\ raws[i].pending > 0 \/ raws[i].decided =>
            \A k \in ClassifiersOf(src) : Rule(k, src, raws, i).queue # "no"
  BY DEF PipeInv, ReviewsTrue
<1>2. PICK h : ClassifiersOf(src) = {h}
  BY DEF ClassifiersOf, Hearsay
<1>3. raws[i].pending > 0 \/ raws[i].decided => Doubtful(i)
  BY <1>1, <1>2 DEF Doubtful
<1>4. ASSUME Doubtful(i), NEW c \in cards, c.row = raws[i].id PROVE FALSE
  <2>1. PICK j \in DOMAIN raws, k \in ClassifiersOf(src) : c \in CardsOf(k, j)
    BY DEF PipeInv, CardsTrue
  <2>2. c.row = raws[j].id
    BY <2>1 DEF CardsOf
  <2>3. j = i
    BY <1>4, <2>2 DEF PipeInv, RowsTrue
  <2>4. Rule(k, src, raws, i).queue # "no" /\ Outcome(Rule(k, src, raws, i))
    BY <1>2, <1>4, RuleIs DEF Doubtful
  <2>5. Rule(k, src, raws, i).cands = {}
    BY <2>4 DEF Outcome
  <2>6. CardsOf(k, i) = {}
    BY <2>5 DEF CardsOf, Fated
  <2>7. QED
    BY <2>1, <2>3, <2>6
<1>5. src \in LooksFirst => src # "phmsa_enforcement"
  BY DEF LooksFirst
<1>6. QED
  BY <1>1, <1>3, <1>4, <1>5

(* However often the rows of leak sites and of the security press are       *)
(* classified, --force included, and decided by the operator, no second     *)
(* review of a row waits beside the first; there and at PHMSA, whose rule   *)
(* queues on every pass, what waits or was decided is a doubtful name, and  *)
(* a doubtful name has no card.                                             *)
THEOREM OneWaits == Spec => []OneReviewWaits
<1>1. Spec => []PipeInv
  BY InitPipeInv, NextPipeInv, PTL DEF Spec
<1>2. QED
  BY <1>1, WaitsFromInv, PTL

LEMMA LostFromInv == PipeInv => NothingLost
<1> DEFINE q == Query(Unlimited, Asked, "known")
           run == Fetch(src, q)
<1> SUFFICES ASSUME PipeInv, run.ok, NewRows(run.rows) = <<>>,
                    \A i \in DOMAIN raws : raws[i].done = ClassifiersOf(src)
             PROVE  /\ \A i \in DOMAIN site : Wanted(i) => \E j \in DOMAIN raws : Keeps(raws[j], site[i])
                    /\ \A j \in DOMAIN raws : Carded(j)
  BY DEF NothingLost, CaughtUp
<1>1. q \in Queries /\ q.limit = Unlimited /\ q.form = "known"
  <2>1. Asked \in Nat /\ "known" \in Forms
    BY DEF Asked, Forms
  <2>2. q \in Queries
    BY <2>1 DEF Queries
  <2>3. QED
    BY <2>2 DEF Query
<1> HIDE DEF q
<1>2. Good(q, run, Way)
  BY <1>1, FetchGood DEF PipeInv
<1> HIDE DEF run
<1>3. /\ run.rows \in Seq(Reads)
      /\ \A x \in ToSet(run.rows) : \E part \in Nat : x.id = Key(Way, part, x.doc)
      /\ \A i \in DOMAIN site : Wanted(i) => \E x \in ToSet(run.rows) : x.doc = site[i]
  BY <1>1, <1>2 DEF Good, Yields, Brings
<1>4. \A x \in ToSet(run.rows) : \E j \in DOMAIN raws : raws[j].id = x.id
  <2>1. raws \in Seq(Rows)
    BY DEF PipeInv, RowsTrue
  <2>2. \A a \in DOMAIN run.rows : Stored(raws, run.rows[a].id)
          \/ \E h \in DOMAIN NewRows(run.rows) : NewRows(run.rows)[h].id = run.rows[a].id
    BY <1>3, <2>1, NewRowsAre
  <2>3. \A a \in DOMAIN run.rows : Stored(raws, run.rows[a].id)
    BY <2>2
  <2>4. QED
    BY <2>3 DEF Stored, ToSet
<1>5. ASSUME NEW i \in DOMAIN site, Wanted(i) PROVE \E j \in DOMAIN raws : Keeps(raws[j], site[i])
  <2>1. PICK x \in ToSet(run.rows) : x.doc = site[i]
    BY <1>3, <1>5
  <2>2. PICK j \in DOMAIN raws : raws[j].id = x.id
    BY <1>4
  <2>3. \E part \in Nat : raws[j].id = Key(Way, part, raws[j].doc)
    BY DEF PipeInv, RowsTrue
  <2>4. \E part \in Nat : x.id = Key(Way, part, x.doc)
    BY <1>3
  <2>5. Keeps(raws[j], site[i])
    BY <2>1, <2>2, <2>3, <2>4, KeptBy
  <2>6. QED
    BY <2>5
<1>6. \A j \in DOMAIN raws : Carded(j)
  BY DEF PipeInv, CardsTrue, Carded
<1>7. QED
  BY <1>5, <1>6

(* Once a run in full would succeed and store nothing more and every row    *)
(* has been through its classifiers, each document a source promises to     *)
(* bring in is in a row, and every row has the cards of its text: for every *)
(* source, catalogue, window and page size.                                 *)
THEOREM NothingIsLost == Spec => []NothingLost
<1>1. Spec => []PipeInv
  BY InitPipeInv, NextPipeInv, PTL DEF Spec
<1>2. QED
  BY <1>1, LostFromInv, PTL

LEMMA RunIsComplete ==
    ASSUME PipeInv, NEW up \in Nat, FetchRun(Unlimited, up, "known"),
           Fetch(src, Query(Unlimited, up, "known")).ok,
           NEW i \in DOMAIN site, Wanted(i)
    PROVE  \E j \in DOMAIN raws' : Keeps(raws'[j], site[i])
<1> DEFINE q == Query(Unlimited, up, "known")
           run == Fetch(src, q)
<1>1. q \in Queries /\ q.limit = Unlimited /\ q.form = "known" /\ run.ok
  <2>1. q \in Queries
    BY DEF Queries, Forms
  <2>2. q.limit = Unlimited /\ q.form = "known"
    BY DEF Query
  <2>3. QED
    BY <2>1, <2>2
<1>2. PipeInv'
  BY FetchKeeps DEF Forms
<1>3. \A x \in ToSet(run.rows) : \E j \in DOMAIN raws' : raws'[j].id = x.id
  BY StoredBy DEF Forms
<1>4. UNCHANGED src
  BY DEF FetchRun
<1> HIDE DEF q
<1>5. Good(q, run, Way)
  BY <1>1, FetchGood DEF PipeInv
<1> HIDE DEF run
<1>6. /\ \A x \in ToSet(run.rows) : \E part \in Nat : x.id = Key(Way, part, x.doc)
      /\ \E x \in ToSet(run.rows) : x.doc = site[i]
  BY <1>1, <1>5 DEF Good, Yields, Brings
<1>7. PICK x \in ToSet(run.rows) : x.doc = site[i]
  BY <1>6
<1>8. PICK j \in DOMAIN raws' : raws'[j].id = x.id
  BY <1>3
<1>9. \E part \in Nat : raws'[j].id = Key(Way, part, raws'[j].doc)
  <2>1. Way' = Way
    BY <1>4 DEF Way
  <2>2. QED
    BY <1>2, <2>1 DEF PipeInv, RowsTrue
<1>10. \E part \in Nat : x.id = Key(Way, part, x.doc)
  BY <1>6
<1>11. Keeps(raws'[j], site[i])
  BY <1>7, <1>8, <1>9, <1>10, KeptBy
<1>12. QED
  BY <1>11

(* A run that succeeds and was not limited has stored each document its     *)
(* source promises to bring in, however many pages, parts, spans, months or *)
(* batches that takes: for every source, catalogue, window and page size.   *)
THEOREM SuccessBringsAll == Spec => SuccessIsComplete
<1>1. Spec => []PipeInv
  BY InitPipeInv, NextPipeInv, PTL DEF Spec
<1>2. PipeInv =>
        \A up \in {1, 2, Asked} :
          FetchRun(Unlimited, up, "known") /\ Fetch(src, Query(Unlimited, up, "known")).ok
          => \A i \in DOMAIN site : Wanted(i) => \E j \in DOMAIN raws' : Keeps(raws'[j], site[i])
  BY RunIsComplete DEF Asked
<1>3. QED
  BY <1>1, <1>2, PTL DEF SuccessIsComplete
=============================================================================
