-------------------------- MODULE WatchlistProofs ---------------------------
(***************************************************************************)
(* What the watchlist guarantees for every set of entities, seed files,    *)
(* identifiers and edits: names are matched only when that is earned, no   *)
(* row points at a removed entity, and a card lands on a top account.      *)
(***************************************************************************)
EXTENDS Watchlist, WellFoundedInduction, FiniteSetTheorems, FunctionTheorems,
        SequenceTheorems, TLAPS

LEMMA LeastOf ==
    ASSUME NEW S \in SUBSET Nat, S # {}
    PROVE  \E m \in S : \A k \in S : m <= k
<1>1. \E m \in S : \A k \in S : ~ (<<k, m>> \in OpToRel(<, Nat))
  <2> HIDE DEF OpToRel
  <2>1. S \subseteq Nat
    OBVIOUS
  <2>2. QED
    BY <2>1, NatLessThanWellFounded, WFMin
<1>2. PICK m \in S : \A k \in S : ~ (<<k, m>> \in OpToRel(<, Nat))
  BY <1>1
<1>3. ASSUME NEW k \in S PROVE m <= k
  <2>1. k \in Nat /\ m \in Nat
    OBVIOUS
  <2>2. ~ (<<k, m>> \in OpToRel(<, Nat))
    BY <1>2
  <2>3. ~ (k < m)
    BY <2>1, <2>2 DEF OpToRel
  <2>4. QED
    BY <2>1, <2>3
<1>4. QED
  BY <1>3

(* The numbers above x in S: fewest for the greatest.                       *)
Above(S, x) == {y \in S : y > x}

LEMMA GreatestOf ==
    ASSUME NEW S \in SUBSET Nat, IsFiniteSet(S), S # {}
    PROVE  \E m \in S : \A k \in S : k <= m
<1> DEFINE Counts == {Cardinality(Above(S, x)) : x \in S}
<1>1. ASSUME NEW x \in S PROVE IsFiniteSet(Above(S, x)) /\ Cardinality(Above(S, x)) \in Nat
  <2>1. Above(S, x) \in SUBSET S
    BY DEF Above
  <2>2. IsFiniteSet(Above(S, x))
    BY <2>1, FS_Subset
  <2>3. QED
    BY <2>2, FS_CardinalityType
<1>2. Counts \in SUBSET Nat /\ Counts # {}
  BY <1>1
<1>3. PICK c \in Counts : \A d \in Counts : c <= d
  BY <1>2, LeastOf
<1>4. PICK m \in S : c = Cardinality(Above(S, m))
  BY <1>3
<1>5. ASSUME NEW k \in S, ~ (k <= m) PROVE FALSE
  <2>0. m \in Nat /\ k \in Nat /\ \A y \in S : y \in Nat
    BY <1>4
  <2>a. k > m /\ ~ (k > k)
    BY <1>5, <2>0
  <2>b. \A y \in S : y > k => y > m
    BY <2>0, <2>a
  <2>1. k \in Above(S, m) /\ Above(S, k) \in SUBSET Above(S, m) /\ k \notin Above(S, k)
    BY <2>a, <2>b DEF Above
  <2>2. Cardinality(Above(S, k)) <= Cardinality(Above(S, m))
    BY <1>1, <2>1, FS_Subset
  <2>3. Cardinality(Above(S, m)) # Cardinality(Above(S, k))
    BY <1>1, <2>1, FS_Subset
  <2>4. PICK d \in Nat : d = Cardinality(Above(S, k))
    BY <1>1
  <2>5. d \in Counts /\ c <= d
    BY <1>3, <2>4
  <2>6. c \in Nat /\ d <= c /\ c # d
    BY <1>2, <1>4, <2>2, <2>3, <2>4
  <2>7. QED
    BY <2>4, <2>5, <2>6
<1>6. QED
  BY <1>5

LEMMA LargestIs ==
    ASSUME NEW S \in SUBSET Nat, IsFiniteSet(S), S # {}
    PROVE  Largest(S) \in S /\ \A k \in S : k <= Largest(S)
  BY GreatestOf DEF Largest

LEMMA SmallestIs ==
    ASSUME NEW S \in SUBSET Nat, S # {}
    PROVE  Smallest(S) \in S /\ \A k \in S : Smallest(S) <= k
  BY LeastOf DEF Smallest

LEMMA SmallestOfOne ==
    ASSUME NEW S \in SUBSET Nat, IsFiniteSet(S), Cardinality(S) = 1
    PROVE  S = {Smallest(S)}
<1>1. PICK x : S = {x}
  BY FS_Singleton
<1>2. Smallest(S) \in S
  BY <1>1, SmallestIs
<1>3. QED
  BY <1>1, <1>2

-----------------------------------------------------------------------------
(* What a run knows: an index over active entities of this table.           *)
IsIndex(w, active) ==
    /\ active \in SUBSET Entities
    /\ w.active = active
    /\ \A t \in Terms : w.holders[t] \in SUBSET active /\ w.blocked[t] \in SUBSET active

LEMMA IndexIsIndex ==
    ASSUME NEW active \in SUBSET Entities, NEW ids, NEW aliases, NEW collisions
    PROVE  IsIndex(Index(active, ids, aliases, collisions), active)
  BY DEF IsIndex, Index

LEMMA EntitySets ==
    ASSUME NEW S \in SUBSET Entities
    PROVE  S \in SUBSET Nat /\ IsFiniteSet(S) /\ Cardinality(S) \in Nat
<1>1. IsFiniteSet(S)
  BY ResolverAssumption, FS_Subset DEF ResolverAssumption
<1>2. QED
  BY <1>1, ResolverAssumption, FS_CardinalityType DEF ResolverAssumption

(* An answer of the resolver for a name: earned, or among the active.       *)
SoundAnswer(w, q, r) ==
    /\ r.status = "matched" => r.entity \in w.active /\ Earned(w, q, r.entity)
    /\ r.status = "review" => r.candidates \in SUBSET w.active /\ r.candidates # {}

IsQuery(q) ==
    /\ q.name \in Terms \cup {None} /\ q.context \in SUBSET Terms

LEMMA ContextEarns ==
    ASSUME NEW w, NEW active, IsIndex(w, active), NEW q, IsQuery(q), q.name # None,
           NEW S \in SUBSET active, S # {}, NEW otherwise,
           S = IF w.blocked[q.name] # {} THEN w.blocked[q.name] ELSE w.holders[q.name]
    PROVE  SoundAnswer(w, q, ByContext(w, S, q.name, q.context, otherwise))
<1> DEFINE sure == Confirmed(w, S, q.name, q.context)
           r == ByContext(w, S, q.name, q.context, otherwise)
<1>1. sure \in SUBSET S /\ active \in SUBSET Entities /\ w.active = active
  BY DEF Confirmed, IsIndex
<1>2. sure \in SUBSET Nat /\ IsFiniteSet(sure) /\ Cardinality(sure) \in Nat
  BY <1>1, EntitySets
<1>3. CASE Cardinality(sure) = 1
  <2>1. sure = {Smallest(sure)}
    BY <1>2, <1>3, SmallestOfOne
  <2>2. r = Matched(Smallest(sure), "name+context")
    BY <1>3 DEF ByContext
  <2>3. Smallest(sure) \in S /\ Smallest(sure) \in w.active
    BY <1>1, <2>1
  <2>4. \A f \in S : f = Smallest(sure) <=>
            \E u \in q.context : u # q.name /\ f \in w.holders[u]
    <3> DEFINE s == Smallest(sure)
    <3>1. \A f : f \in sure <=> f = s
      BY <2>1
    <3>2. \A f \in S : f \in sure <=> \E u \in q.context : u # q.name /\ f \in w.holders[u]
      BY DEF Confirmed
    <3> HIDE DEF s, sure
    <3>3. \A f \in S : f = s <=> \E u \in q.context : u # q.name /\ f \in w.holders[u]
      BY <3>1, <3>2
    <3>4. QED
      BY <3>3 DEF s
  <2>5. Earned(w, q, Smallest(sure))
    BY <2>3, <2>4 DEF Earned
  <2>6. QED
    BY <2>2, <2>3, <2>5 DEF SoundAnswer, Matched
<1>4. CASE Cardinality(sure) > 1
  <2>1. sure # {}
    BY <1>4, FS_EmptySet
  <2>2. r = Review(sure, "ambiguous_context")
    BY <1>2, <1>4 DEF ByContext
  <2>3. sure \in SUBSET w.active
    BY <1>1
  <2>4. QED
    BY <2>1, <2>2, <2>3 DEF SoundAnswer, Review
<1>5. CASE Cardinality(sure) # 1 /\ ~ (Cardinality(sure) > 1)
  <2>1. r = Review(S, otherwise)
    BY <1>5 DEF ByContext
  <2>2. QED
    BY <1>1, <2>1 DEF SoundAnswer, Review
<1>6. QED
  BY <1>3, <1>4, <1>5

LEMMA BestIs ==
    ASSUME NEW w, NEW n \in Terms, NEW e \in Scored(w, n)
    PROVE  /\ \A t \in Near(w, n) : e \in w.holders[t] => Ratio[<<n, t>>] <= Best(w, n, e)
           /\ \E t \in Near(w, n) : e \in w.holders[t] /\ Ratio[<<n, t>>] = Best(w, n, e)
<1> DEFINE R == {Ratio[<<n, t>>] : t \in {u \in Near(w, n) : e \in w.holders[u]}}
<1>1. \A t \in Near(w, n) : Ratio[<<n, t>>] \in 0 .. 100
  BY ResolverAssumption DEF ResolverAssumption, Near, CloseEnough
<1>2. R \in SUBSET (0 .. 100) /\ R # {}
  BY <1>1 DEF Scored
<1>3. IsFiniteSet(R) /\ R \in SUBSET Nat
  <2> HIDE DEF R
  <2>1. IsFiniteSet(0 .. 100)
    <3>1. 0 \in Int /\ 100 \in Int
      OBVIOUS
    <3>2. QED
      BY ONLY <3>1, FS_Interval
  <2>2. R \in SUBSET Nat
    BY <1>2
  <2>3. QED
    BY <1>2, <2>1, <2>2, FS_Subset
<1>4. Largest(R) \in R /\ \A k \in R : k <= Largest(R)
  BY <1>2, <1>3, LargestIs
<1>5. Best(w, n, e) = Largest(R)
  BY DEF Best
<1>6. QED
  BY <1>4, <1>5

(* One of e's terms is nearly n, and among the spellings that are looked at. *)
NearlyCalled(w, n, e) ==
    \E t \in Near(w, n) : e \in w.holders[t] /\ Ratio[<<n, t>>] >= MATCH_THRESHOLD

LEMMA StrongIs ==
    ASSUME NEW w, NEW n \in Terms, NEW f \in w.active
    PROVE  (f \in Scored(w, n) /\ Best(w, n, f) >= MATCH_THRESHOLD)
              <=> NearlyCalled(w, n, f)
<1>0. \A t \in Near(w, n) : Ratio[<<n, t>>] \in Nat
  BY ResolverAssumption DEF ResolverAssumption, Near, CloseEnough
<1>1. ASSUME f \in Scored(w, n), Best(w, n, f) >= MATCH_THRESHOLD
      PROVE  NearlyCalled(w, n, f)
  <2>1. PICK t \in Near(w, n) : f \in w.holders[t] /\ Ratio[<<n, t>>] = Best(w, n, f)
    BY <1>1, BestIs
  <2>2. QED
    BY <1>1, <2>1 DEF NearlyCalled
<1>2. ASSUME NEW t \in Near(w, n), f \in w.holders[t], Ratio[<<n, t>>] >= MATCH_THRESHOLD
      PROVE  f \in Scored(w, n) /\ Best(w, n, f) >= MATCH_THRESHOLD
  <2>1. PICK near \in Nat : near = Ratio[<<n, t>>]
    BY <1>0
  <2>2. near >= 90 /\ Ratio[<<n, t>>] > 0
    BY <1>2, <2>1 DEF MATCH_THRESHOLD
  <2>3. f \in Scored(w, n)
    BY <1>2, <2>2 DEF Scored
  <2>4. PICK u \in Near(w, n) : Ratio[<<n, u>>] = Best(w, n, f)
    BY <2>3, BestIs
  <2>5. PICK best \in Nat : best = Best(w, n, f)
    BY <1>0, <2>4
  <2>6. Ratio[<<n, t>>] <= Best(w, n, f)
    BY <1>2, <2>3, BestIs
  <2>7. best >= 90
    BY <2>1, <2>2, <2>5, <2>6
  <2>8. QED
    BY <2>3, <2>5, <2>7 DEF MATCH_THRESHOLD
<1>3. QED
  BY <1>1, <1>2 DEF NearlyCalled

LEMMA NobodyNear ==
    ASSUME NEW w, NEW n, Scored(w, n) = {}
    PROVE  Fuzzy(w, n) = NoMatch
<1> DEFINE S == Scored(w, n)
           strong == {e \in S : Best(w, n, e) >= MATCH_THRESHOLD}
           r == CASE S = {} -> NoMatch
                  [] Cardinality(strong) = 1 -> Matched(Smallest(strong), "fuzzy")
                  [] OTHER -> Review(S, "fuzzy_below_threshold")
<1>1. S = {} /\ strong = {}
  OBVIOUS
<1>2. Cardinality(strong) # 1
  BY <1>1, FS_EmptySet
<1>3. Fuzzy(w, n) = r
  BY DEF Fuzzy
<1> HIDE DEF S, strong
<1>4. QED
  BY <1>1, <1>2, <1>3

LEMMA FuzzyEarns ==
    ASSUME NEW w, NEW active, IsIndex(w, active), NEW q, IsQuery(q), q.name # None,
           w.blocked[q.name] = {}, w.holders[q.name] = {}
    PROVE  SoundAnswer(w, q, Fuzzy(w, q.name))
<1> DEFINE n == q.name
           S == Scored(w, n)
           strong == {e \in S : Best(w, n, e) >= MATCH_THRESHOLD}
           r == Fuzzy(w, n)
<1>1. n \in Terms /\ S \in SUBSET active /\ active \in SUBSET Entities /\ w.active = active
  BY DEF IsIndex, IsQuery, Scored
<1>2. strong \in SUBSET S
  OBVIOUS
<1>3. strong \in SUBSET Nat /\ IsFiniteSet(strong)
  BY <1>1, <1>2, EntitySets
<1>4. CASE S = {}
  <2>1. Fuzzy(w, n) = NoMatch
    BY <1>4, NobodyNear
  <2>2. QED
    BY <2>1 DEF SoundAnswer, NoMatch
<1>5. CASE S # {} /\ Cardinality(strong) = 1
  <2>1. strong = {Smallest(strong)}
    BY <1>3, <1>5, SmallestOfOne
  <2>2. r = Matched(Smallest(strong), "fuzzy")
    BY <1>5 DEF Fuzzy
  <2>3. Smallest(strong) \in w.active
    BY <1>1, <1>2, <2>1
  <2>4. ASSUME NEW f \in w.active
        PROVE  f \in strong <=> \E t \in Near(w, n) : f \in w.holders[t] /\ Ratio[<<n, t>>] >= MATCH_THRESHOLD
    <3>2. (f \in Scored(w, n) /\ Best(w, n, f) >= MATCH_THRESHOLD)
              <=> NearlyCalled(w, n, f)
      <4>1. n \in Terms
        BY <1>1
      <4> HIDE DEF n
      <4>2. QED
        BY <4>1, StrongIs
    <3>3. QED
      BY <3>2 DEF NearlyCalled
  <2>5. \A f \in w.active : f = Smallest(strong) <=>
            \E t \in Near(w, n) : f \in w.holders[t] /\ Ratio[<<n, t>>] >= MATCH_THRESHOLD
    <3> DEFINE s == Smallest(strong)
    <3>1. \A f : f \in strong <=> f = s
      BY <2>1
    <3> HIDE DEF s, strong
    <3>2. \A f \in w.active : f = s <=>
            \E t \in Near(w, n) : f \in w.holders[t] /\ Ratio[<<n, t>>] >= MATCH_THRESHOLD
      BY <2>4, <3>1
    <3>3. QED
      BY <3>2 DEF s
  <2>6. Earned(w, q, Smallest(strong))
    BY <2>5 DEF Earned
  <2>7. QED
    BY <2>2, <2>3, <2>6 DEF SoundAnswer, Matched
<1>6. CASE S # {} /\ Cardinality(strong) # 1
  <2>1. r = Review(S, "fuzzy_below_threshold")
    BY <1>6 DEF Fuzzy
  <2>2. QED
    BY <1>1, <1>6, <2>1 DEF SoundAnswer, Review
<1>7. QED
  BY <1>4, <1>5, <1>6

LEMMA NameEarns ==
    ASSUME NEW w, NEW active, IsIndex(w, active), NEW q, IsQuery(q)
    PROVE  SoundAnswer(w, q, ByName(w, q.name, q.context))
<1> DEFINE n == q.name
           r == ByName(w, n, q.context)
<1>1. CASE n = None
  BY <1>1 DEF ByName, SoundAnswer, NoMatch
<1>2. CASE n # None
  <2>1. n \in Terms /\ w.holders[n] \in SUBSET active /\ w.blocked[n] \in SUBSET active
    BY <1>2 DEF IsQuery, IsIndex
  <2>2. active \in SUBSET Entities /\ w.active = active
    BY DEF IsIndex
  <2>3. w.holders[n] \in SUBSET Nat /\ IsFiniteSet(w.holders[n]) /\ Cardinality(w.holders[n]) \in Nat
    BY <2>1, <2>2, EntitySets
  <2>4. CASE w.blocked[n] # {}
    <3>1. r = ByContext(w, w.blocked[n], n, q.context, "collision_term")
      BY <1>2, <2>4 DEF ByName
    <3>2. QED
      BY <1>2, <2>1, <2>4, <3>1, ContextEarns
  <2>5. CASE w.blocked[n] = {} /\ Cardinality(w.holders[n]) = 1
    <3>1. r = Matched(Smallest(w.holders[n]), "name")
      BY <1>2, <2>5 DEF ByName
    <3>2. w.holders[n] = {Smallest(w.holders[n])}
      BY <2>3, <2>5, SmallestOfOne
    <3>3. Smallest(w.holders[n]) \in w.active
      BY <2>1, <2>2, <3>2
    <3>4. Earned(w, q, Smallest(w.holders[n]))
      BY <1>2, <2>5, <3>2 DEF Earned
    <3>5. QED
      BY <3>1, <3>3, <3>4 DEF SoundAnswer, Matched
  <2>6. CASE w.blocked[n] = {} /\ Cardinality(w.holders[n]) > 1
    <3>1. r = ByContext(w, w.holders[n], n, q.context, "ambiguous_name")
      BY <1>2, <2>6 DEF ByName
    <3>2. w.holders[n] # {}
      BY <2>6, FS_EmptySet
    <3>3. QED
      BY <1>2, <2>1, <2>6, <3>1, <3>2, ContextEarns
  <2>7. CASE w.blocked[n] = {} /\ Cardinality(w.holders[n]) # 1 /\ ~ (Cardinality(w.holders[n]) > 1)
    <3>1. r = Fuzzy(w, n)
      BY <1>2, <2>7 DEF ByName
    <3>2. Cardinality(w.holders[n]) = 0
      BY <2>3, <2>7
    <3>3. w.holders[n] = {}
      BY <2>3, <3>2, FS_EmptySet
    <3>4. QED
      BY <1>2, <2>7, <3>1, <3>3, FuzzyEarns
  <2>8. QED
    BY <2>4, <2>5, <2>6, <2>7
<1>3. QED
  BY <1>1, <1>2

LEMMA AnswersAreSound ==
    ASSUME NEW w, NEW active, IsIndex(w, active), NEW q, IsQuery(q)
    PROVE  SoundAnswer(w, q, Resolve(w, q))
<1> DEFINE hits == {i \in 1..Len(IdKinds) : Carriers(w, IdKinds[i], q.ids[IdKinds[i]]) # {}}
           kind == IdKinds[Smallest(hits)]
           C == Carriers(w, kind, q.ids[kind])
<1>1. CASE hits # {}
  <2>1. hits \in SUBSET Nat /\ hits \in SUBSET (1 .. Len(IdKinds))
    BY DEF IdKinds
  <2>2. Smallest(hits) \in hits
    BY <1>1, <2>1, SmallestIs
  <2>3. kind \in Kinds /\ C # {}
    BY <2>2 DEF Kinds
  <2>4. C \in SUBSET active /\ active \in SUBSET Entities /\ w.active = active
    BY DEF Carriers, IsIndex
  <2>5. C \in SUBSET Nat /\ IsFiniteSet(C)
    BY <2>4, EntitySets
  <2>6. Largest(C) \in C
    BY <2>3, <2>5, LargestIs
  <2>7. q.ids[kind] # None /\ w.ids[kind][Largest(C)] = q.ids[kind] /\ Largest(C) \in w.active
    BY <2>6 DEF Carriers
  <2>8. Earned(w, q, Largest(C))
    BY <2>3, <2>7 DEF Earned
  <2>9. Resolve(w, q) = Matched(Largest(C), kind)
    BY <1>1 DEF Resolve
  <2> HIDE DEF C, kind
  <2>10. QED
    BY <2>7, <2>8, <2>9 DEF SoundAnswer, Matched
<1>2. CASE hits = {}
  <2>1. Resolve(w, q) = ByName(w, q.name, q.context)
    BY <1>2 DEF Resolve
  <2>2. QED
    BY <2>1, NameEarns
<1>3. QED
  BY <1>1, <1>2

(* The resolver earns its matches whatever the table holds.                 *)
LEMMA EarnedAlways == MatchesAreEarned
<1> SUFFICES ASSUME NEW q \in Queries
             PROVE  LET r == Resolve(Loaded, q)
                    IN  /\ r.status = "matched" => r.entity \in Live /\ Earned(Loaded, q, r.entity)
                        /\ r.status = "review"  => r.candidates \subseteq Live /\ r.candidates # {}
  BY DEF MatchesAreEarned
<1>1. Live \in SUBSET Entities
  BY DEF Live, Existing
<1>2. IsIndex(Loaded, Live)
  BY <1>1, IndexIsIndex DEF Loaded
<1>3. IsQuery(q)
  BY QueryAssumption DEF QueryAssumption, IsQuery
<1>4. SoundAnswer(Loaded, q, Resolve(Loaded, q)) /\ Loaded.active = Live
  BY <1>2, <1>3, AnswersAreSound DEF IsIndex
<1>5. QED
  BY <1>4 DEF SoundAnswer

(* Whatever identifiers, aliases, collision terms and disabled entities the *)
(* table holds, EntityResolver.resolve matches a name only when an          *)
(* identifier, an unguarded name nobody else holds or the context earns it, *)
(* or one entity only is near enough among the CloseMatches spellings that  *)
(* are looked at; and it reviews active candidates only.  That no spelling  *)
(* beyond those is near enough is not promised.                             *)
THEOREM OnlyEarnedMatches == Spec => []MatchesAreEarned
  BY EarnedAlways, PTL

-----------------------------------------------------------------------------
(* The walk up the parents, P the parent of each entity, and where it first *)
(* comes back to an entity it has seen.                                     *)
Parents(live, table, hint) == [x \in Entities |-> ParentOf(x, live, table, hint)]
IsWalk(up, P, e) == up \in [Nat -> Entities] /\ up[0] = e /\ \A n \in Nat : up[n + 1] = P[up[n]]
Closes(up) == {n \in 1..(Cardinality(Entities) + 1) : \E m \in 0..(n - 1) : up[m] = up[n]}

(* The first n steps of a walk.                                             *)
Starts(P, e, n) ==
    {g \in [0..n -> Entities] : g[0] = e /\ \A i \in 0..(n - 1) : g[i + 1] = P[g[i]]}

LEMMA StartsExist ==
    ASSUME NEW P \in [Entities -> Entities], NEW e \in Entities, NEW n \in Nat
    PROVE  Starts(P, e, n) # {}
<1> DEFINE Bad == {k \in Nat : Starts(P, e, k) = {}}
<1>1. SUFFICES ASSUME Bad # {} PROVE FALSE
  OBVIOUS
<1>2. PICK m \in Bad : \A k \in Bad : m <= k
  <2>1. Bad \in SUBSET Nat
    OBVIOUS
  <2> HIDE DEF Bad
  <2>2. QED
    BY <1>1, <2>1, LeastOf
<1>3. m \in Nat
  OBVIOUS
<1>4. CASE m = 0
  <2>1. [i \in 0..0 |-> e] \in Starts(P, e, 0)
    BY DEF Starts
  <2>2. QED
    BY <1>4, <2>1
<1>5. CASE m # 0
  <2>1. m - 1 \in Nat /\ ~ (m <= m - 1)
    BY <1>3, <1>5
  <2>2. PICK g : g \in Starts(P, e, m - 1)
    BY <1>2, <2>1
  <2>3. /\ g \in [0..(m - 1) -> Entities] /\ g[0] = e
        /\ \A i \in 0..(m - 1 - 1) : g[i + 1] = P[g[i]]
    BY <2>2 DEF Starts
  <2> DEFINE h == [i \in 0..m |-> IF i = m THEN P[g[m - 1]] ELSE g[i]]
  <2>4. h \in [0..m -> Entities]
    <3>1. g[m - 1] \in Entities
      BY <1>3, <2>1, <2>3
    <3>2. \A i \in 0..m : i # m => i \in 0..(m - 1)
      BY <1>3
    <3>3. QED
      BY <2>3, <3>1, <3>2
  <2>5. h[0] = e
    BY <1>3, <1>5, <2>3
  <2>6. ASSUME NEW i \in 0..(m - 1) PROVE h[i + 1] = P[h[i]]
    <3>1. i \in 0..m /\ i + 1 \in 0..m /\ i # m
      BY <1>3
    <3>2. CASE i + 1 = m
      <4>1. i = m - 1
        BY <1>3, <3>2
      <4>2. QED
        BY <3>1, <3>2, <4>1
    <3>3. CASE i + 1 # m
      <4>1. i \in 0..(m - 1 - 1)
        BY <1>3, <3>3
      <4>2. QED
        BY <2>3, <3>1, <3>3, <4>1
    <3>4. QED
      BY <3>2, <3>3
  <2> HIDE DEF h
  <2>7. h \in Starts(P, e, m)
    BY <2>4, <2>5, <2>6 DEF Starts
  <2>8. QED
    BY <2>7
<1>6. QED
  BY <1>4, <1>5

LEMMA StartsAgree ==
    ASSUME NEW P, NEW e, NEW n \in Nat, NEW k \in Nat,
           NEW g \in Starts(P, e, n), NEW h \in Starts(P, e, k),
           NEW i \in Nat, i <= n, i <= k
    PROVE  g[i] = h[i]
<1> DEFINE Bad == {j \in Nat : j <= n /\ j <= k /\ g[j] # h[j]}
<1>1. SUFFICES ASSUME Bad # {} PROVE FALSE
  OBVIOUS
<1>2. PICK m \in Bad : \A j \in Bad : m <= j
  <2>1. Bad \in SUBSET Nat
    OBVIOUS
  <2> HIDE DEF Bad
  <2>2. QED
    BY <1>1, <2>1, LeastOf
<1>3. m \in Nat /\ m <= n /\ m <= k /\ g[m] # h[m]
  OBVIOUS
<1>4. m # 0
  BY <1>3 DEF Starts
<1>5. m - 1 \in Nat /\ m - 1 \in 0..(n - 1) /\ m - 1 \in 0..(k - 1) /\ ~ (m <= m - 1)
      /\ (m - 1) + 1 = m /\ m - 1 <= n /\ m - 1 <= k
  BY <1>3, <1>4
<1>6. m - 1 \notin Bad
  BY <1>2, <1>5
<1>7. g[m - 1] = h[m - 1]
  BY <1>5, <1>6
<1>8. g[(m - 1) + 1] = P[g[m - 1]] /\ h[(m - 1) + 1] = P[h[m - 1]]
  BY <1>5 DEF Starts
<1>9. QED
  BY <1>3, <1>5, <1>7, <1>8

LEMMA WalkExists ==
    ASSUME NEW P \in [Entities -> Entities], NEW e \in Entities
    PROVE  \E up : IsWalk(up, P, e)
<1> DEFINE start(n) == CHOOSE g : g \in Starts(P, e, n)
           up == [n \in Nat |-> start(n)[n]]
<1>1. ASSUME NEW n \in Nat PROVE start(n) \in Starts(P, e, n)
  BY StartsExist
<1> HIDE DEF start
<1>2. ASSUME NEW n \in Nat PROVE start(n)[n] \in Entities
  <2>1. start(n) \in [0..n -> Entities]
    BY <1>1 DEF Starts
  <2>2. QED
    BY <2>1
<1>3. up[0] = e
  <2>1. start(0)[0] = e
    BY <1>1 DEF Starts
  <2>2. QED
    BY <2>1
<1>4. ASSUME NEW n \in Nat PROVE up[n + 1] = P[up[n]]
  <2>1. n + 1 \in Nat /\ n <= n + 1 /\ n <= n /\ n \in 0..((n + 1) - 1)
    OBVIOUS
  <2>2. start(n + 1)[n] = start(n)[n]
    BY <1>1, <2>1, StartsAgree
  <2>3. start(n + 1)[n + 1] = P[start(n + 1)[n]]
    BY <1>1, <2>1 DEF Starts
  <2>4. QED
    BY <2>1, <2>2, <2>3
<1>5. up \in [Nat -> Entities]
  BY <1>2
<1> HIDE DEF up
<1>6. QED
  BY <1>3, <1>4, <1>5 DEF IsWalk

(* Two walks from where a walk has come to go the same way.                 *)
LEMMA WalksAgree ==
    ASSUME NEW P, NEW e, NEW f, NEW up, NEW next, IsWalk(up, P, e), IsWalk(next, P, f),
           NEW c \in Nat, up[c] = f, NEW k \in Nat
    PROVE  next[k] = up[c + k]
<1> DEFINE Bad == {j \in Nat : next[j] # up[c + j]}
<1>1. SUFFICES ASSUME Bad # {} PROVE FALSE
  OBVIOUS
<1>2. PICK m \in Bad : \A j \in Bad : m <= j
  <2>1. Bad \in SUBSET Nat
    OBVIOUS
  <2> HIDE DEF Bad
  <2>2. QED
    BY <1>1, <2>1, LeastOf
<1>3. m \in Nat /\ next[m] # up[c + m]
  OBVIOUS
<1>4. m # 0
  <2>1. c + 0 = c
    OBVIOUS
  <2>2. QED
    BY <1>3, <2>1 DEF IsWalk
<1>5. m - 1 \in Nat /\ ~ (m <= m - 1) /\ (m - 1) + 1 = m /\ c + (m - 1) \in Nat
      /\ (c + (m - 1)) + 1 = c + m
  BY <1>3, <1>4
<1>6. next[m - 1] = up[c + (m - 1)]
  BY <1>2, <1>5
<1>7. next[(m - 1) + 1] = P[next[m - 1]] /\ up[(c + (m - 1)) + 1] = P[up[c + (m - 1)]]
  BY <1>5 DEF IsWalk
<1>8. QED
  BY <1>3, <1>5, <1>6, <1>7

(* Among one more step than there are entities, two are at the same one.    *)
LEMMA WalksClose ==
    ASSUME NEW P, NEW e, NEW up, IsWalk(up, P, e)
    PROVE  Closes(up) # {} /\ Closes(up) \in SUBSET Nat
<1>1. PICK n \in Nat : n = Cardinality(Entities) /\ IsFiniteSet(Entities)
  BY ResolverAssumption, FS_CardinalityType DEF ResolverAssumption
<1> DEFINE S == 0..n
           f == [i \in S |-> up[i]]
<1>2. IsFiniteSet(S) /\ Cardinality(S) = n + 1
  <2>1. 0 \in Int /\ n \in Int /\ ~ (0 > n) /\ n - 0 + 1 = n + 1
    OBVIOUS
  <2>2. QED
    BY <2>1, FS_Interval
<1>3. f \in [S -> Entities] /\ n < n + 1
  BY DEF IsWalk
<1>4. \E x, y \in S : x # y /\ f[x] = f[y]
  <2> HIDE DEF S, f
  <2>1. QED
    BY <1>1, <1>2, <1>3, FS_PigeonHole
<1>5. \E x, y \in S : x < y /\ up[x] = up[y]
  <2>1. PICK x \in S, y \in S : x # y /\ up[x] = up[y]
    BY <1>4
  <2>2. x < y \/ y < x
    BY <2>1
  <2>3. QED
    BY <2>1, <2>2
<1>6. PICK x \in S, y \in S : x < y /\ up[x] = up[y]
  BY <1>5
<1>7. y \in 1..(n + 1) /\ x \in 0..(y - 1)
  BY <1>1, <1>6
<1>8. QED
  BY <1>1, <1>6, <1>7 DEF Closes

(* The parent is live, or the entity itself.                                *)
LEMMA ParentIs ==
    ASSUME NEW live \in SUBSET Entities, NEW table, NEW hint, NEW x \in Entities
    PROVE  /\ ParentOf(x, live, table, hint) \in Entities
           /\ Parents(live, table, hint)[x] = ParentOf(x, live, table, hint)
           /\ Parents(live, table, hint) \in [Entities -> Entities]
           /\ x \in live => ParentOf(x, live, table, hint) \in live
<1>1. ASSUME NEW y \in Entities
      PROVE  ParentOf(y, live, table, hint) \in live \cup {y}
  BY DEF ParentOf
<1>2. QED
  BY <1>1 DEF Parents

LEMMA TopLevelWalks ==
    ASSUME NEW live \in SUBSET Entities, NEW table, NEW hint, NEW e \in Entities
    PROVE  \E up : /\ IsWalk(up, Parents(live, table, hint), e)
                   /\ TopLevel(e, live, table, hint) = up[Smallest(Closes(up))]
<1> DEFINE P == Parents(live, table, hint)
           up[n \in Nat] == IF n = 0 THEN e ELSE ParentOf(up[n - 1], live, table, hint)
           Step(g) == [n \in Nat |-> IF n = 0 THEN e ELSE ParentOf(g[n - 1], live, table, hint)]
<1>1. P \in [Entities -> Entities] /\ \A x \in Entities : P[x] = ParentOf(x, live, table, hint)
  BY ParentIs
<1>2. PICK g : IsWalk(g, P, e)
  <2> HIDE DEF P
  <2>1. QED
    BY <1>1, WalkExists
<1>3. g = Step(g)
  <2>1. ASSUME NEW n \in Nat
        PROVE  g[n] = IF n = 0 THEN e ELSE ParentOf(g[n - 1], live, table, hint)
    <3>1. CASE n = 0
      BY <1>2, <3>1 DEF IsWalk
    <3>2. CASE n # 0
      <4>1. n - 1 \in Nat /\ (n - 1) + 1 = n
        BY <3>2
      <4>2. g[(n - 1) + 1] = P[g[n - 1]] /\ g[n - 1] \in Entities
        BY <1>2, <4>1 DEF IsWalk
      <4>3. QED
        BY <1>1, <3>2, <4>1, <4>2
    <3>3. QED
      BY <3>1, <3>2
  <2>2. DOMAIN g = Nat /\ g = [n \in DOMAIN g |-> g[n]]
    BY <1>2 DEF IsWalk
  <2>3. QED
    BY <2>1, <2>2
<1>4. up = Step(up)
  <2>1. \E h : h = Step(h)
    BY <1>3
  <2>2. QED
    BY <2>1
<1>5. up = g
  <2> HIDE DEF up
  <2>0. DOMAIN up = Nat /\ \A n \in Nat : up[n] = IF n = 0 THEN e ELSE ParentOf(up[n - 1], live, table, hint)
    BY <1>4
  <2>1. ASSUME NEW n \in Nat PROVE up[n] = g[n]
    <3> DEFINE Bad == {j \in Nat : up[j] # g[j]}
    <3>1. SUFFICES ASSUME Bad # {} PROVE FALSE
      OBVIOUS
    <3>2. PICK m \in Bad : \A j \in Bad : m <= j
      <4>1. Bad \in SUBSET Nat
        OBVIOUS
      <4> HIDE DEF Bad
      <4>2. QED
        BY <3>1, <4>1, LeastOf
    <3>3. m \in Nat /\ up[m] # g[m] /\ m # 0
      BY <1>2, <2>0 DEF IsWalk
    <3>4. m - 1 \in Nat /\ ~ (m <= m - 1)
      BY <3>3
    <3>5. up[m - 1] = g[m - 1]
      BY <3>2, <3>4
    <3>6. g[m] = ParentOf(g[m - 1], live, table, hint)
      BY <1>3, <3>3
    <3>7. QED
      BY <2>0, <3>3, <3>5, <3>6
  <2>2. DOMAIN g = Nat /\ g = [n \in Nat |-> g[n]]
    BY <1>2 DEF IsWalk
  <2>3. up = [n \in Nat |-> up[n]]
    BY <1>4, <2>0
  <2>4. QED
    BY <2>1, <2>2, <2>3
<1>6. TopLevel(e, live, table, hint) = up[Smallest(Closes(up))]
  BY DEF TopLevel, Closes
<1>7. QED
  BY <1>2, <1>5, <1>6

(* Where the walk closes it has come to its own top account.                *)
LEMMA TopIsTop ==
    ASSUME NEW live \in SUBSET Entities, NEW table, NEW hint, NEW e \in live
    PROVE  LET top == TopLevel(e, live, table, hint)
           IN  top \in live /\ TopLevel(top, live, table, hint) = top
<1> DEFINE P == Parents(live, table, hint)
           top == TopLevel(e, live, table, hint)
<1>0. e \in Entities /\ \A x \in live : x \in Entities /\ P[x] \in live
  BY ParentIs
<1>1. PICK up : IsWalk(up, P, e) /\ top = up[Smallest(Closes(up))]
  BY <1>0, TopLevelWalks
<1> HIDE DEF P, top
<1>2. PICK c : c = Smallest(Closes(up)) /\ c \in Closes(up) /\ \A n \in Closes(up) : c <= n
  BY <1>1, WalksClose, SmallestIs
<1>3. PICK size \in Nat : size = Cardinality(Entities)
  BY ResolverAssumption, FS_CardinalityType DEF ResolverAssumption
<1>4. c \in 1..(size + 1) /\ \E m \in 0..(c - 1) : up[m] = up[c]
  BY <1>2, <1>3 DEF Closes
<1>5. PICK m \in 0..(c - 1) : up[m] = up[c]
  BY <1>4
<1>6. ASSUME NEW n \in Nat PROVE up[n] \in live
  <2> DEFINE Bad == {j \in Nat : up[j] \notin live}
  <2>1. SUFFICES ASSUME Bad # {} PROVE FALSE
    OBVIOUS
  <2>2. PICK b \in Bad : \A j \in Bad : b <= j
    <3>1. Bad \in SUBSET Nat
      OBVIOUS
    <3> HIDE DEF Bad
    <3>2. QED
      BY <2>1, <3>1, LeastOf
  <2>3. b \in Nat /\ up[b] \notin live /\ b # 0
    BY <1>1 DEF IsWalk
  <2>4. b - 1 \in Nat /\ ~ (b <= b - 1) /\ (b - 1) + 1 = b
    BY <2>3
  <2>5. up[b - 1] \in live /\ up[(b - 1) + 1] = P[up[b - 1]]
    BY <1>1, <2>2, <2>4 DEF IsWalk
  <2>6. QED
    BY <1>0, <2>3, <2>4, <2>5
<1>7. top = up[c] /\ top \in live /\ top \in Entities
  BY <1>0, <1>1, <1>2, <1>4, <1>6
<1>8. PICK next : IsWalk(next, P, top)
                  /\ TopLevel(top, live, table, hint) = next[Smallest(Closes(next))]
  BY <1>7, TopLevelWalks DEF P
<1>9. m \in Nat /\ c \in Nat /\ c - m \in Nat /\ m + (c - m) = c /\ c - m \in 1..(size + 1)
  BY <1>4
<1>10. ASSUME NEW k \in Nat PROVE next[k] = up[m + k]
  BY <1>1, <1>5, <1>7, <1>8, <1>9, WalksAgree
<1>11. next[c - m] = top /\ next[0] = top
  <2>1. next[c - m] = up[m + (c - m)]
    BY <1>9, <1>10
  <2>2. QED
    BY <1>7, <1>8, <1>9, <2>1 DEF IsWalk
<1>12. c - m \in Closes(next)
  <2>1. 0 \in 0..((c - m) - 1)
    BY <1>9
  <2>2. QED
    BY <1>3, <1>9, <1>11, <2>1 DEF Closes
<1>13. ASSUME NEW n \in Closes(next) PROVE c - m <= n
  <2>1. n \in 1..(size + 1) /\ \E k \in 0..(n - 1) : next[k] = next[n]
    BY <1>3 DEF Closes
  <2>2. PICK k \in 0..(n - 1) : next[k] = next[n]
    BY <2>1
  <2>3. SUFFICES ASSUME n < c - m PROVE FALSE
    BY <1>9, <2>1
  <2>4. k \in Nat /\ n \in Nat /\ m + n \in 1..(size + 1) /\ m + k \in 0..((m + n) - 1) /\ m + n < c
    BY <1>4, <1>9, <2>1, <2>3
  <2>5. up[m + k] = up[m + n]
    BY <1>10, <2>2, <2>4
  <2>6. m + n \in Closes(up)
    BY <1>3, <2>4, <2>5 DEF Closes
  <2>7. c <= m + n
    BY <1>2, <2>6
  <2>8. QED
    BY <1>9, <2>4, <2>7
<1>14. Smallest(Closes(next)) = c - m
  <2>1. Closes(next) # {} /\ Closes(next) \in SUBSET Nat
    BY <1>8, WalksClose
  <2>2. PICK s : s = Smallest(Closes(next)) /\ s \in Closes(next) /\ \A k \in Closes(next) : s <= k
    BY <2>1, SmallestIs
  <2>3. s \in Nat /\ s <= c - m /\ c - m <= s
    BY <1>12, <1>13, <2>1, <2>2
  <2>4. QED
    BY <1>9, <2>2, <2>3
<1>15. TopLevel(top, live, table, hint) = top
  BY <1>8, <1>11, <1>14
<1>16. QED
  BY <1>7, <1>15 DEF top

-----------------------------------------------------------------------------
(* The types, and what a run may have loaded: an index over entities that   *)
(* are live still, for no editor disables one while the run holds the lock. *)
Writers == {"curated", OPERATOR_SOURCE, "watchlist"}
Pairs == Entities \X Terms
TermRows == UNION {[S -> Writers] : S \in SUBSET Pairs}
AuditRows ==
    [table : {"entity", "alias", "collision"}, pk : Entities,
     field : Terms \cup Fields \cup {"active"} \cup {"__add__", "__reset__", "__remove__"},
     old : Entities \cup Hints \cup Subsectors \cup Terms \cup BOOLEAN \cup {None, "seed values"},
     new : Entities \cup Hints \cup Subsectors \cup Terms \cup BOOLEAN \cup {None, "seed values"}]

WatchTyped ==
    /\ entity \in [Entities -> EntityRows \cup {None}]
    /\ alias \in TermRows /\ collision \in TermRows
    /\ rel \in SUBSET (Entities \X Entities)
    /\ audit \in Seq(AuditRows)
    /\ refs \in SUBSET ({"card", "decision", "review"} \X Entities)
    /\ build \in 1 .. Len(Builds)
    /\ generated \in [ids : [Entities -> Cells], rel : SUBSET (Entities \X Entities)]
    /\ events \in Nat

RunLoadedLive == run # NoRun => \E active \in SUBSET Live : IsIndex(run, active)

WatchInv == WatchTyped /\ RunLoadedLive /\ ReferencesStand

LEMMA KindsAre == Kinds = {"cik", "ticker", "lei"} /\ NoIds \in Cells
<1>1. Kinds = {"cik", "ticker", "lei"}
  <2>1. \A k : k \in Kinds <=> k \in {"cik", "ticker", "lei"}
    <3>1. IdKinds[1] = "cik" /\ IdKinds[2] = "ticker" /\ IdKinds[3] = "lei" /\ Len(IdKinds) = 3
      BY DEF IdKinds
    <3>2. \A i : i \in 1 .. 3 <=> i = 1 \/ i = 2 \/ i = 3
      OBVIOUS
    <3>3. QED
      BY <3>1, <3>2 DEF Kinds
  <2>2. QED
    BY <2>1
<1>2. NoIds \in Cells
  BY DEF NoIds, Cells
<1>3. QED
  BY <1>1, <1>2

LEMMA FilesAre ==
    ASSUME NEW b \in 1 .. Len(Builds)
    PROVE  /\ Builds[b] \in SeedFiles /\ Builds[b].rows \in SUBSET Entities
           /\ Builds[b].ids \in [Entities -> Cells]
           /\ Builds[b].parent_id \in [Entities -> Entities \cup {None}]
           /\ Builds[b].subsector \in [Entities -> Subsectors]
           /\ Builds[b].alias \in SUBSET Pairs /\ Builds[b].splitAlias \in SUBSET Pairs
           /\ Builds[b].collision \in SUBSET Pairs /\ Builds[b].splitCollision \in SUBSET Pairs
<1>1. Builds[b] \in SeedFiles
  BY SeedAssumption, ElementOfSeq DEF SeedAssumption
<1>2. QED
  BY <1>1 DEF SeedFiles, Pairs

(* A row an entity has, and what is put in its place.                       *)
LEMMA RowsTyped ==
    ASSUME NEW row \in EntityRows
    PROVE  /\ row # None /\ row.origin \in {"seed", "operator"} /\ row.active \in BOOLEAN
           /\ row.ids \in Cells /\ row.parent_id \in Entities \cup Hints \cup {None}
           /\ row.subsector \in Subsectors
           /\ \A v \in Cells : [row EXCEPT !.ids = v] \in EntityRows
                               /\ [row EXCEPT !.ids = v].active = row.active
                               /\ [row EXCEPT !.ids = v].origin = row.origin
                               /\ [row EXCEPT !.ids = v].parent_id = row.parent_id
                               /\ [row EXCEPT !.ids = v].subsector = row.subsector
<1>1. row # None
  BY SeedAssumption DEF SeedAssumption
<1>2. QED
  BY <1>1 DEF EntityRows

LEMMA TermRowsTyped ==
    ASSUME NEW rows \in TermRows, NEW p \in Pairs, NEW S,
           NEW own \in SUBSET Pairs, NEW split \in SUBSET Pairs
    PROVE  /\ WithRow(rows, p, OPERATOR_SOURCE) \in TermRows
           /\ Without(rows, S) \in TermRows
           /\ LoadedRows(rows, own, split) \in TermRows
           /\ DOMAIN rows \in SUBSET Pairs
<1>1. PICK D \in SUBSET Pairs : rows \in [D -> Writers]
  BY DEF TermRows
<1>2. DOMAIN rows = D /\ \A q \in D : rows[q] \in Writers
  BY <1>1
<1>3. WithRow(rows, p, OPERATOR_SOURCE) \in [D \cup {p} -> Writers]
  BY <1>2 DEF WithRow, Writers
<1>4. Without(rows, S) \in [D \ S -> Writers]
  BY <1>2 DEF Without
<1>5. PICK E \in SUBSET Pairs : LoadedRows(rows, own, split) \in [E -> Writers]
  <2> DEFINE curated == {q \in own : q[1] \in files.rows}
             kept    == DOMAIN rows \ WrittenBy(rows, "watchlist")
             E == kept \cup curated \cup split
  <2>1. E \in SUBSET Pairs /\ kept \in SUBSET D
    BY <1>2
  <2>2. LoadedRows(rows, own, split) =
          [q \in E |-> IF q \in curated THEN "curated" ELSE IF q \in kept THEN rows[q] ELSE "watchlist"]
    BY DEF LoadedRows
  <2> HIDE DEF curated, kept
  <2>3. \A q \in E : (IF q \in curated THEN "curated" ELSE IF q \in kept THEN rows[q] ELSE "watchlist")
                       \in Writers
    BY <1>2, <2>1 DEF Writers
  <2>4. QED
    BY <2>1, <2>2, <2>3
<1>6. D \cup {p} \in SUBSET Pairs /\ D \ S \in SUBSET Pairs
  OBVIOUS
<1>7. QED
  BY <1>2, <1>3, <1>4, <1>5, <1>6 DEF TermRows

(* What a load leaves in an entity's row: an entity that exists stays, with *)
(* its curated and runtime columns; a new one is active.                    *)
LEMMA LoadKeeps ==
    ASSUME WatchTyped, NEW e \in Entities
    PROVE  /\ LoadedEntity(e) \in EntityRows \cup {None}
           /\ entity[e] # None =>
                /\ LoadedEntity(e) \in EntityRows
                /\ LoadedEntity(e).active = entity[e].active
                /\ LoadedEntity(e).origin = entity[e].origin
                /\ LoadedEntity(e).parent_id = entity[e].parent_id
                /\ LoadedEntity(e).subsector = entity[e].subsector
           /\ e \in files.rows => LoadedEntity(e) \in EntityRows
           /\ entity[e] = None /\ LoadedEntity(e) # None =>
                /\ e \in files.rows /\ LoadedEntity(e).active = TRUE
                /\ LoadedEntity(e).origin = "seed"
                /\ LoadedEntity(e).parent_id = files.parent_id[e]
                /\ LoadedEntity(e).subsector = files.subsector[e]
<1> DEFINE new == [origin |-> "seed", active |-> TRUE, ids |-> files.ids[e],
                   parent_id |-> files.parent_id[e], subsector |-> files.subsector[e]]
           row == IF e \in files.rows THEN Upserted(e) ELSE entity[e]
<1>1. /\ files.ids[e] \in Cells /\ files.parent_id[e] \in Entities \cup {None}
      /\ files.subsector[e] \in Subsectors
  BY FilesAre DEF WatchTyped, files
<1>2. entity[e] \in EntityRows \cup {None} /\ generated.ids[e] \in Cells
  BY DEF WatchTyped
<1>3. new \in EntityRows
  BY <1>1 DEF EntityRows
<1>4. ASSUME NEW ids \in Cells PROVE Filled(e, ids) \in Cells
  BY <1>2 DEF Filled, Cells
<1>5. LoadedEntity(e) = IF row = None THEN None ELSE [row EXCEPT !.ids = Filled(e, row.ids)]
  BY DEF LoadedEntity
<1>6. CASE entity[e] # None
  <2>1. entity[e] \in EntityRows
    BY <1>2, <1>6
  <2>2. /\ row \in EntityRows /\ row.active = entity[e].active /\ row.origin = entity[e].origin
        /\ row.parent_id = entity[e].parent_id /\ row.subsector = entity[e].subsector
    <3>1. CASE e \in files.rows
      <4>1. row = [entity[e] EXCEPT !.ids = files.ids[e]]
        BY <1>6, <3>1 DEF Upserted
      <4> HIDE DEF row
      <4>2. QED
        BY <1>1, <2>1, <4>1, RowsTyped
    <3>2. CASE e \notin files.rows
      BY <2>1, <3>2
    <3>3. QED
      BY <3>1, <3>2
  <2> HIDE DEF row
  <2>3. row # None /\ Filled(e, row.ids) \in Cells
    BY <1>4, <2>2, RowsTyped
  <2>4. LoadedEntity(e) = [row EXCEPT !.ids = Filled(e, row.ids)]
    BY <1>5, <2>3
  <2>5. QED
    BY <1>6, <2>2, <2>3, <2>4, RowsTyped
<1>7. CASE entity[e] = None /\ e \in files.rows
  <2>1. row = new
    BY <1>7 DEF Upserted
  <2> HIDE DEF row
  <2>2. row \in EntityRows /\ row.origin = "seed" /\ row.active = TRUE
        /\ row.parent_id = files.parent_id[e] /\ row.subsector = files.subsector[e]
    BY <1>3, <2>1
  <2>3. row # None /\ Filled(e, row.ids) \in Cells
    BY <1>4, <2>2, RowsTyped
  <2>4. LoadedEntity(e) = [row EXCEPT !.ids = Filled(e, row.ids)]
    BY <1>5, <2>3
  <2>5. QED
    BY <1>7, <2>2, <2>3, <2>4, RowsTyped
<1>8. CASE entity[e] = None /\ e \notin files.rows
  <2>1. LoadedEntity(e) = None
    BY <1>5, <1>8
  <2>2. QED
    BY <1>8, <2>1
<1>9. QED
  BY <1>6, <1>7, <1>8

-----------------------------------------------------------------------------
(* Steps that leave every entity in the table keep the references standing. *)
LEMMA StandStill ==
    ASSUME ReferencesStand, \A e \in Existing : e \in Existing',
           \A r \in refs' : r \in refs \/ r[2] \in Existing,
           \A p \in rel' : p \in rel \/ (p[1] \in Existing' /\ p[2] \in Existing')
    PROVE  ReferencesStand'
  BY DEF ReferencesStand

LEMMA RecordTyped ==
    ASSUME WatchTyped, NEW row \in AuditRows, Record(row)
    PROVE  audit' \in Seq(AuditRows)
<1>1. audit \in Seq(AuditRows)
  BY DEF WatchTyped
<1>2. audit' = Append(audit, row)
  BY DEF Record
<1>3. QED
  BY <1>1, <1>2, AppendProperties

LEMMA EditTyped ==
    ASSUME NEW e \in Entities, NEW table \in {"entity", "alias", "collision"},
           NEW field \in Terms \cup Fields \cup {"active"} \cup {"__add__", "__reset__", "__remove__"},
           NEW old \in Entities \cup Hints \cup Subsectors \cup Terms \cup BOOLEAN \cup {None, "seed values"},
           NEW new \in Entities \cup Hints \cup Subsectors \cup Terms \cup BOOLEAN \cup {None, "seed values"}
    PROVE  Row(table, e, field, old, new) \in AuditRows
  BY DEF Row, AuditRows

(* An edit of one entity's row that leaves the terms alone.                 *)
LEMMA RowEdit ==
    ASSUME WatchInv, Editing, Untouched, NEW e \in Entities, entity[e] # None,
           NEW next \in EntityRows, entity' = [entity EXCEPT ![e] = next],
           audit' \in Seq(AuditRows), alias' \in TermRows, collision' \in TermRows, rel' = rel
    PROVE  WatchInv'
<1>1. entity' \in [Entities -> EntityRows \cup {None}]
  BY DEF WatchInv, WatchTyped
<1>2. WatchTyped'
  BY <1>1 DEF WatchInv, WatchTyped, Untouched, disk
<1>3. next # None
  BY RowsTyped
<1>4. \A f \in Existing : f \in Existing'
  BY <1>3 DEF Existing, WatchInv, WatchTyped
<1>5. ReferencesStand'
  BY <1>4, StandStill DEF WatchInv, Untouched
<1>6. RunLoadedLive'
  BY DEF RunLoadedLive, Editing, Untouched
<1>7. QED
  BY <1>2, <1>5, <1>6 DEF WatchInv

(* An edit of the terms of entities that exist.                             *)
LEMMA TermEdit ==
    ASSUME WatchInv, Editing, Untouched, entity' = entity, audit' \in Seq(AuditRows),
           alias' \in TermRows, collision' \in TermRows, rel' = rel
    PROVE  WatchInv'
<1>1. WatchTyped'
  BY DEF WatchInv, WatchTyped, Untouched, disk
<1>2. \A f \in Existing : f \in Existing'
  BY DEF Existing
<1>3. ReferencesStand'
  BY <1>2, StandStill DEF WatchInv, Untouched
<1>4. RunLoadedLive'
  BY DEF RunLoadedLive, Editing, Untouched
<1>5. QED
  BY <1>1, <1>3, <1>4 DEF WatchInv

LEMMA AddEntityKeeps ==
    ASSUME WatchInv, NEW e \in Entities, NEW v \in Subsectors, AddEntity(e, v)
    PROVE  WatchInv'
<1> DEFINE next == [origin |-> "operator", active |-> TRUE, ids |-> NoIds,
                    parent_id |-> None, subsector |-> v]
<1>1. next \in EntityRows
  BY KindsAre DEF EntityRows
<1>2. entity' = [entity EXCEPT ![e] = next] /\ UNCHANGED <<alias, collision, rel>>
      /\ Untouched /\ Editing /\ Record(Row("entity", e, "__add__", None, NameOf[e]))
  BY DEF AddEntity
<1> HIDE DEF next
<1>3. entity' \in [Entities -> EntityRows \cup {None}]
  BY <1>1, <1>2 DEF WatchInv, WatchTyped
<1>4. audit' \in Seq(AuditRows)
  <2>1. Row("entity", e, "__add__", None, NameOf[e]) \in AuditRows
    <3>1. NameOf[e] \in Terms
      BY ResolverAssumption DEF ResolverAssumption
    <3>2. QED
      BY <3>1, EditTyped
  <2>2. QED
    BY <1>2, <2>1, RecordTyped DEF WatchInv
<1>5. WatchTyped'
  BY <1>2, <1>3, <1>4 DEF WatchInv, WatchTyped, Untouched, disk
<1>6. next # None
  BY <1>1, RowsTyped
<1>7. \A f \in Existing : f \in Existing'
  BY <1>2, <1>6 DEF Existing, WatchInv, WatchTyped
<1>8. ReferencesStand'
  BY <1>2, <1>7, StandStill DEF WatchInv, Untouched
<1>9. RunLoadedLive'
  BY <1>2 DEF RunLoadedLive, Editing, Untouched
<1>10. QED
  BY <1>5, <1>8, <1>9 DEF WatchInv

LEMMA UpdateEntityKeeps ==
    ASSUME WatchInv, NEW e \in Entities, NEW field, NEW value,
           \/ field = "subsector" /\ value \in Subsectors
           \/ field = "parent_id" /\ value \in Hints,
           UpdateEntity(e, field, value)
    PROVE  WatchInv'
<1>1. entity[e] \in EntityRows /\ entity[e] # None
  BY DEF UpdateEntity, WatchInv, WatchTyped
<1> DEFINE next == [entity[e] EXCEPT ![field] = value]
<1>2. next \in EntityRows /\ entity[e][field] \in Entities \cup Hints \cup Subsectors \cup {None}
  <2>1. CASE field = "subsector" /\ value \in Subsectors
    BY <1>1, <2>1 DEF EntityRows
  <2>2. CASE field = "parent_id" /\ value \in Hints
    BY <1>1, <2>2 DEF EntityRows
  <2>3. QED
    BY <2>1, <2>2
<1>3. entity' = [entity EXCEPT ![e] = next]
  BY DEF UpdateEntity, WatchInv, WatchTyped
<1> HIDE DEF next
<1>4. audit' \in Seq(AuditRows)
  <2>1. Row("entity", e, field, entity[e][field], value) \in AuditRows
    <3>1. field \in Fields
      BY DEF Fields
    <3>2. QED
      BY <1>2, <3>1, EditTyped
  <2>2. QED
    BY <2>1, RecordTyped DEF WatchInv, UpdateEntity
<1>5. Editing /\ Untouched /\ UNCHANGED <<alias, collision, rel>>
  BY DEF UpdateEntity
<1>6. alias' \in TermRows /\ collision' \in TermRows
  BY <1>5 DEF WatchInv, WatchTyped
<1>7. QED
  BY <1>1, <1>2, <1>3, <1>4, <1>5, <1>6, RowEdit

LEMMA SetEntityActiveKeeps ==
    ASSUME WatchInv, NEW e \in Entities, NEW active \in BOOLEAN, SetEntityActive(e, active)
    PROVE  WatchInv'
<1>1. entity[e] \in EntityRows /\ entity[e] # None
  BY DEF SetEntityActive, WatchInv, WatchTyped
<1> DEFINE next == [entity[e] EXCEPT !.active = active]
<1>2. next \in EntityRows /\ entity[e].active \in BOOLEAN
  BY <1>1 DEF EntityRows
<1>3. entity' = [entity EXCEPT ![e] = next]
  BY DEF SetEntityActive, WatchInv, WatchTyped
<1> HIDE DEF next
<1>4. audit' \in Seq(AuditRows)
  <2>1. Row("entity", e, "active", entity[e].active, active) \in AuditRows
    BY <1>2, EditTyped
  <2>2. QED
    BY <2>1, RecordTyped DEF WatchInv, SetEntityActive
<1>5. Editing /\ Untouched /\ UNCHANGED <<alias, collision, rel>>
  BY DEF SetEntityActive
<1>6. alias' \in TermRows /\ collision' \in TermRows
  BY <1>5 DEF WatchInv, WatchTyped
<1>7. QED
  BY <1>1, <1>2, <1>3, <1>4, <1>5, <1>6, RowEdit

LEMMA ResetEntityKeeps ==
    ASSUME WatchInv, NEW e \in Entities, ResetEntity(e)
    PROVE  WatchInv'
<1>1. entity[e] \in EntityRows /\ entity[e] # None
  BY DEF ResetEntity, WatchInv, WatchTyped
<1>2. files.parent_id[e] \in Entities \cup {None} /\ files.subsector[e] \in Subsectors
  BY FilesAre DEF WatchInv, WatchTyped, files
<1> DEFINE next == [entity[e] EXCEPT !.active = TRUE, !.parent_id = files.parent_id[e],
                                     !.subsector = files.subsector[e]]
<1>3. next \in EntityRows
  BY <1>1, <1>2 DEF EntityRows
<1>4. entity' = [entity EXCEPT ![e] = next]
  BY DEF ResetEntity, WatchInv, WatchTyped
<1> HIDE DEF next
<1>5. audit' \in Seq(AuditRows)
  <2>1. Row("entity", e, "__reset__", None, "seed values") \in AuditRows
    BY EditTyped
  <2>2. QED
    BY <2>1, RecordTyped DEF WatchInv, ResetEntity
<1>6. Editing /\ Untouched /\ rel' = rel
  BY DEF ResetEntity
<1>7. alias' \in TermRows /\ collision' \in TermRows
  <2>1. alias \in TermRows /\ collision \in TermRows
    BY DEF WatchInv, WatchTyped
  <2>2. ASSUME NEW rows \in TermRows, NEW S PROVE Without(rows, S) \in TermRows
    <3>1. <<e, NameOf[e]>> \in Pairs
      BY ResolverAssumption DEF ResolverAssumption, Pairs
    <3>2. QED
      BY <3>1, TermRowsTyped
  <2>3. QED
    BY <2>1, <2>2 DEF ResetEntity
<1>8. QED
  BY <1>1, <1>3, <1>4, <1>5, <1>6, <1>7, RowEdit

LEMMA RemoveEntityKeeps ==
    ASSUME WatchInv, NEW e \in Entities, RemoveEntity(e)
    PROVE  WatchInv'
<1>1. Editing /\ Untouched /\ rel' = rel /\ entity' = [entity EXCEPT ![e] = None]
  BY DEF RemoveEntity
<1>2. entity' \in [Entities -> EntityRows \cup {None}]
  BY <1>1 DEF WatchInv, WatchTyped
<1>3. NameOf[e] \in Terms /\ <<e, NameOf[e]>> \in Pairs
  BY ResolverAssumption DEF ResolverAssumption, Pairs
<1>4. audit' \in Seq(AuditRows)
  <2>1. Row("entity", e, "__remove__", NameOf[e], None) \in AuditRows
    BY <1>3, EditTyped
  <2>2. QED
    BY <2>1, RecordTyped DEF WatchInv, RemoveEntity
<1>5. alias' \in TermRows /\ collision' \in TermRows
  <2>1. alias \in TermRows /\ collision \in TermRows
    BY DEF WatchInv, WatchTyped
  <2>2. ASSUME NEW rows \in TermRows, NEW S PROVE Without(rows, S) \in TermRows
    BY <1>3, TermRowsTyped
  <2>3. QED
    BY <2>1, <2>2 DEF RemoveEntity
<1>6. WatchTyped'
  BY <1>1, <1>2, <1>4, <1>5 DEF WatchInv, WatchTyped, Untouched, disk
<1>7. \A f \in Existing : f # e => f \in Existing'
  BY <1>1 DEF Existing, WatchInv, WatchTyped
<1>8. \A r \in refs : r[2] # e
  BY DEF RemoveEntity, Referenced
<1>9. \A p \in rel : p[1] # e /\ p[2] # e
  BY DEF RemoveEntity, Referenced
<1>10. ReferencesStand'
  <2>1. refs' = refs
    BY <1>1 DEF Untouched
  <2>2. QED
    BY <1>1, <1>7, <1>8, <1>9, <2>1 DEF WatchInv, ReferencesStand
<1>11. RunLoadedLive'
  BY <1>1 DEF RunLoadedLive, Editing, Untouched
<1>12. QED
  BY <1>6, <1>10, <1>11 DEF WatchInv

LEMMA EditTermsKeeps ==
    ASSUME WatchInv, EditTerms
    PROVE  WatchInv'
<1>1. PICK e \in Entities, t \in Typed :
        \/ AddAlias(e, t) \/ RemoveAlias(e, t)
        \/ AddCollisionTerm(e, t) \/ RemoveCollisionTerm(e, t)
  BY DEF EditTerms
<1>2. t \in Terms /\ <<e, t>> \in Pairs
  BY QueryAssumption DEF QueryAssumption, Pairs
<1>3. /\ Row("alias", e, t, None, t) \in AuditRows /\ Row("alias", e, t, t, None) \in AuditRows
      /\ Row("collision", e, t, None, t) \in AuditRows /\ Row("collision", e, t, t, None) \in AuditRows
  BY <1>2, EditTyped
<1>4. audit' \in Seq(AuditRows)
  BY <1>1, <1>3, RecordTyped
     DEF WatchInv, AddAlias, RemoveAlias, AddCollisionTerm, RemoveCollisionTerm
<1>5. /\ Editing /\ Untouched /\ entity' = entity /\ rel' = rel
      /\ alias' \in {alias, WithRow(alias, <<e, t>>, OPERATOR_SOURCE), Without(alias, {<<e, t>>})}
      /\ collision' \in {collision, WithRow(collision, <<e, t>>, OPERATOR_SOURCE),
                         Without(collision, {<<e, t>>})}
  BY <1>1 DEF AddAlias, RemoveAlias, AddCollisionTerm, RemoveCollisionTerm
<1>6. alias \in TermRows /\ collision \in TermRows
  BY DEF WatchInv, WatchTyped
<1>7. ASSUME NEW rows \in TermRows
      PROVE  WithRow(rows, <<e, t>>, OPERATOR_SOURCE) \in TermRows /\ Without(rows, {<<e, t>>}) \in TermRows
  BY <1>2, TermRowsTyped
<1>8. alias' \in TermRows /\ collision' \in TermRows
  BY <1>5, <1>6, <1>7
<1>9. QED
  BY <1>4, <1>5, <1>8, TermEdit

LEMMA LoadSeedsKeeps ==
    ASSUME WatchInv, LoadSeeds
    PROVE  WatchInv'
<1>1. WatchTyped /\ files.rows \in SUBSET Entities
  BY FilesAre DEF WatchInv, WatchTyped, files
<1>2. \A e \in Entities : entity'[e] = LoadedEntity(e)
  BY DEF LoadSeeds
<1>3. \A e \in Entities :
        /\ entity'[e] \in EntityRows \cup {None}
        /\ entity[e] # None => entity'[e] \in EntityRows /\ entity'[e].active = entity[e].active
        /\ e \in files.rows => entity'[e] \in EntityRows
  BY <1>1, <1>2, LoadKeeps
<1>4. entity' \in [Entities -> EntityRows \cup {None}]
  BY <1>3 DEF LoadSeeds
<1>5. alias' \in TermRows /\ collision' \in TermRows
  <2>1. /\ files.alias \in SUBSET Pairs /\ files.splitAlias \in SUBSET Pairs
        /\ files.collision \in SUBSET Pairs /\ files.splitCollision \in SUBSET Pairs
    BY <1>1, FilesAre DEF WatchTyped, files
  <2>2. ASSUME NEW rows \in TermRows, NEW own \in SUBSET Pairs, NEW split \in SUBSET Pairs
        PROVE  LoadedRows(rows, own, split) \in TermRows
    <3>1. CASE Pairs # {}
      BY <3>1, TermRowsTyped
    <3>2. CASE Pairs = {}
      <4>1. DOMAIN rows = {}
        BY <3>2 DEF TermRows
      <4>2. LoadedRows(rows, own, split) \in [{} -> Writers]
        BY <3>2, <4>1 DEF LoadedRows, WrittenBy
      <4>3. QED
        BY <4>2 DEF TermRows
    <3>3. QED
      BY <3>1, <3>2
  <2>3. alias \in TermRows /\ collision \in TermRows
    BY <1>1 DEF WatchTyped
  <2>4. QED
    BY <2>1, <2>2, <2>3 DEF LoadSeeds
<1>6. \A p \in rel' : p \in generated.rel /\ p[1] \in files.rows /\ p[2] \in files.rows
  BY DEF LoadSeeds
<1>7. WatchTyped'
  <2>1. rel' \in SUBSET (Entities \X Entities)
    BY <1>1, <1>6 DEF WatchTyped
  <2>2. QED
    BY <1>1, <1>4, <1>5, <2>1 DEF WatchTyped, LoadSeeds, disk
<1>8. \A e \in Entities : e \in files.rows \/ e \in Existing => e \in Existing'
  <2>1. \A e \in Entities : e \in files.rows \/ e \in Existing => entity'[e] \in EntityRows
    BY <1>3 DEF Existing
  <2>2. QED
    BY <2>1, RowsTyped DEF Existing
<1>9. ReferencesStand'
  <2>1. \A e \in Existing : e \in Existing'
    BY <1>8 DEF Existing
  <2>2. \A p \in rel' : p[1] \in Existing' /\ p[2] \in Existing'
    BY <1>1, <1>6, <1>8
  <2>3. refs' = refs
    BY DEF LoadSeeds
  <2>4. QED
    BY <2>1, <2>2, <2>3, StandStill DEF WatchInv
<1>10. \A e \in Live : e \in Live'
  BY <1>3, <1>8 DEF Live, Existing
<1>11. RunLoadedLive'
  <2>1. run' = run
    BY DEF LoadSeeds
  <2>2. ASSUME run # NoRun PROVE \E active \in SUBSET Live' : IsIndex(run, active)
    <3>1. PICK active \in SUBSET Live : IsIndex(run, active)
      BY <2>2 DEF WatchInv, RunLoadedLive
    <3>2. active \in SUBSET Live'
      BY <1>10
    <3>3. QED
      BY <3>1, <3>2
  <2>3. QED
    BY <2>1, <2>2 DEF RunLoadedLive
<1>12. QED
  BY <1>7, <1>9, <1>11 DEF WatchInv

(* What the enrichment finds is one of the lookups' identifiers.            *)
LEMMA FoundTyped ==
    ASSUME WatchTyped, NEW edgar \in Edgars, NEW e \in Existing
    PROVE  FoundCik(e, edgar) \in Identifiers \cup {None} /\ FoundLei(e, edgar) \in Identifiers \cup {None}
<1>1. PositiveTerms(e) \in SUBSET Terms
  <2>1. NameOf[e] \in Terms
    BY ResolverAssumption DEF ResolverAssumption, Existing
  <2>2. DOMAIN alias \in SUBSET Pairs
    BY DEF WatchTyped, TermRows
  <2>3. QED
    BY <2>1, <2>2 DEF PositiveTerms, OfEntity, Pairs
<1>2. entity[e].ids["cik"] \in Identifiers \cup {None}
  <2>1. entity[e] \in EntityRows
    BY DEF WatchTyped, Existing
  <2>2. entity[e].ids \in Cells
    BY <2>1, RowsTyped
  <2>3. QED
    BY <2>2, KindsAre DEF Cells
<1>3. FoundCik(e, edgar) \in Identifiers \cup {None}
  <2> DEFINE hits == UNION {edgar[t] : t \in PositiveTerms(e)}
  <2>1. edgar \in [Terms -> SUBSET Identifiers]
    BY LookupAssumption DEF LookupAssumption
  <2>2. \A c \in hits : c \in Identifiers
    BY <1>1, <2>1
  <2>3. ASSUME Cardinality(hits) = 1 PROVE hits # {}
    BY <2>3, FS_EmptySet
  <2>4. FoundCik(e, edgar) = IF entity[e].ids["cik"] = None /\ Cardinality(hits) = 1
                             THEN CHOOSE c \in hits : TRUE ELSE None
    BY DEF FoundCik
  <2> HIDE DEF hits
  <2>5. QED
    BY <2>2, <2>3, <2>4
<1>4. FoundLei(e, edgar) \in Identifiers \cup {None}
  <2> DEFINE cik == IF entity[e].ids["cik"] # None THEN entity[e].ids["cik"] ELSE FoundCik(e, edgar)
             byCik == IF cik = None THEN None ELSE WikidataLei[cik]
             byName == {Gleif[t] : t \in PositiveTerms(e)} \ {None}
  <2>1. cik \in Identifiers \cup {None}
    BY <1>2, <1>3
  <2>2. byCik \in Identifiers \cup {None}
    BY <2>1, LookupAssumption DEF LookupAssumption
  <2>3. \A l \in byName : l \in Identifiers
    BY <1>1, LookupAssumption DEF LookupAssumption
  <2>4. FoundLei(e, edgar) = IF byCik # None THEN byCik
                             ELSE IF entity[e].ids["lei"] = None /\ byName # {}
                                  THEN CHOOSE l \in byName : TRUE ELSE None
    BY DEF FoundLei
  <2> HIDE DEF byCik, byName
  <2>5. QED
    BY <2>2, <2>3, <2>4
<1>5. QED
  BY <1>3, <1>4

LEMMA EnrichKeeps ==
    ASSUME WatchInv, NEW edgar \in Edgars, Enrich(edgar)
    PROVE  WatchInv'
<1> DEFINE found(e) == IF entity[e] = None THEN NoIds
                       ELSE [NoIds EXCEPT !["cik"] = FoundCik(e, edgar), !["lei"] = FoundLei(e, edgar)]
           ids == [e \in Entities |-> found(e)]
<1>1. ASSUME NEW e \in Entities PROVE found(e) \in Cells
  <2>1. CASE entity[e] = None
    BY <2>1, KindsAre
  <2>2. CASE entity[e] # None
    <3>1. e \in Existing /\ WatchTyped
      BY <2>2 DEF Existing, WatchInv
    <3>2. FoundCik(e, edgar) \in Identifiers \cup {None} /\ FoundLei(e, edgar) \in Identifiers \cup {None}
      BY <3>1, FoundTyped
    <3>3. QED
      BY <2>2, <3>2, KindsAre DEF Cells
  <2>3. QED
    BY <2>1, <2>2
<1> HIDE DEF found
<1>2. ids \in [Entities -> Cells]
  BY <1>1
<1>3. \E pairs \in SUBSET (Existing \X Existing) : generated' = [ids |-> ids, rel |-> pairs]
  <2>1. generated' = [ids |-> ids, rel |-> ChildrenFound(ids)]
    BY DEF Enrich, found
  <2> HIDE DEF ids
  <2>2. ChildrenFound(ids) \in SUBSET (Existing \X Existing)
    BY DEF ChildrenFound
  <2>3. QED
    BY <2>1, <2>2
<1>4. generated' \in [ids : [Entities -> Cells], rel : SUBSET (Entities \X Entities)]
  <2> HIDE DEF ids
  <2>1. PICK pairs \in SUBSET (Existing \X Existing) : generated' = [ids |-> ids, rel |-> pairs]
    BY <1>3
  <2>2. pairs \in SUBSET (Entities \X Entities)
    BY DEF Existing
  <2>3. QED
    BY <1>2, <2>1, <2>2
<1>5. UNCHANGED <<config, audit, refs, run, build, events>>
  BY DEF Enrich
<1>6. WatchTyped'
  BY <1>4, <1>5 DEF WatchInv, WatchTyped, config
<1>7. ReferencesStand' /\ RunLoadedLive'
  BY <1>5 DEF WatchInv, ReferencesStand, RunLoadedLive, Existing, Live, config
<1>8. QED
  BY <1>6, <1>7 DEF WatchInv

LEMMA QuietKeeps ==
    ASSUME WatchInv, UNCHANGED <<config, audit, refs, generated>>,
           build' \in 1 .. Len(Builds), events' \in Nat, run' \in {run, NoRun, Loaded}
    PROVE  WatchInv'
<1>1. WatchTyped'
  BY DEF WatchInv, WatchTyped, config
<1>2. ReferencesStand'
  BY DEF WatchInv, ReferencesStand, Existing, config
<1>3. Live' = Live
  BY DEF Live, Existing, config
<1>4. IsIndex(Loaded, Live)
  <2>1. Live \in SUBSET Entities
    BY DEF Live, Existing
  <2>2. QED
    BY <2>1, IndexIsIndex DEF Loaded
<1>5. RunLoadedLive'
  BY <1>3, <1>4 DEF WatchInv, RunLoadedLive
<1>6. QED
  BY <1>1, <1>2, <1>5 DEF WatchInv

(* The accounts a card goes to are live.                                    *)
LEMMA TopIsLive ==
    ASSUME NEW e \in Live
    PROVE  Top(e) \in Live /\ Top(Top(e)) = Top(e)
<1>1. Live \in SUBSET Entities
  BY DEF Live, Existing
<1>2. QED
  BY <1>1, TopIsTop DEF Top

(* What one classified event adds.                                          *)
NewRefsAreLive ==
    \A r \in refs' \ refs :
        /\ r \in {"card", "decision", "review"} \X Live
        /\ r[1] = "card" => Top(r[2]) = r[2]

LEMMA ClassifyNameAdds ==
    ASSUME WatchInv, NEW q \in Queries, ClassifyName(q)
    PROVE  NewRefsAreLive
<1> DEFINE r == Resolve(run, q)
<1>1. PICK active \in SUBSET Live : IsIndex(run, active)
  BY DEF ClassifyName, WatchInv, RunLoadedLive
<1>2. IsQuery(q)
  BY QueryAssumption DEF QueryAssumption, IsQuery
<1>3. SoundAnswer(run, q, r) /\ run.active = active
  BY <1>1, <1>2, AnswersAreSound DEF IsIndex
<1>4. refs' = refs \cup
             CASE r.status = "matched" -> {<<"decision", r.entity>>, <<"card", Top(r.entity)>>}
               [] r.status = "review"  -> {<<"review", e>> : e \in r.candidates}
               [] OTHER -> {}
  BY DEF ClassifyName
<1> HIDE DEF r
<1>5. CASE r.status = "matched"
  <2>1. r.entity \in Live
    BY <1>3, <1>5 DEF SoundAnswer
  <2>2. Top(r.entity) \in Live /\ Top(Top(r.entity)) = Top(r.entity)
    BY <2>1, TopIsLive
  <2>3. refs' = refs \cup {<<"decision", r.entity>>, <<"card", Top(r.entity)>>}
    BY <1>4, <1>5
  <2>4. QED
    BY <2>1, <2>2, <2>3 DEF NewRefsAreLive
<1>6. CASE r.status = "review"
  <2>1. r.candidates \in SUBSET Live
    BY <1>3, <1>6 DEF SoundAnswer
  <2>2. refs' = refs \cup {<<"review", e>> : e \in r.candidates}
    BY <1>4, <1>6
  <2>3. QED
    BY <2>1, <2>2 DEF NewRefsAreLive
<1>7. CASE r.status # "matched" /\ r.status # "review"
  <2>1. refs' = refs
    BY <1>4, <1>7
  <2>2. QED
    BY <2>1 DEF NewRefsAreLive
<1>8. QED
  BY <1>5, <1>6, <1>7

LEMMA ClassifyKnownAdds ==
    ASSUME NEW e \in Entities, ClassifyKnown(e)
    PROVE  NewRefsAreLive
<1>1. CASE e \in Live
  <2>1. Top(e) \in Live /\ Top(Top(e)) = Top(e)
    BY <1>1, TopIsLive
  <2>2. refs' = refs \cup {<<"card", Top(e)>>}
    BY <1>1 DEF ClassifyKnown
  <2>3. QED
    BY <2>1, <2>2 DEF NewRefsAreLive
<1>2. CASE e \notin Live
  BY <1>2 DEF ClassifyKnown, NewRefsAreLive
<1>3. QED
  BY <1>1, <1>2

LEMMA ClassifiedKeeps ==
    ASSUME WatchInv, NewRefsAreLive, events' \in Nat, UNCHANGED <<config, audit, run, disk>>
    PROVE  WatchInv'
<1>1. \A r \in refs' : r \in refs \/ (r \in {"card", "decision", "review"} \X Live)
  BY DEF NewRefsAreLive
<1>2. Live \in SUBSET Existing /\ Existing \in SUBSET Entities /\ Live' = Live /\ Existing' = Existing
  BY DEF Live, Existing, config
<1>3. WatchTyped'
  <2>1. refs' \in SUBSET ({"card", "decision", "review"} \X Entities)
    BY <1>1, <1>2 DEF WatchInv, WatchTyped
  <2>2. QED
    BY <2>1 DEF WatchInv, WatchTyped, config, disk
<1>4. ReferencesStand'
  BY <1>1, <1>2 DEF WatchInv, ReferencesStand, config
<1>5. RunLoadedLive'
  BY <1>2 DEF WatchInv, RunLoadedLive
<1>6. QED
  BY <1>3, <1>4, <1>5 DEF WatchInv

LEMMA InitKeeps == Init => WatchInv
<1> SUFFICES ASSUME Init PROVE WatchInv
  OBVIOUS
<1>1. build \in 1 .. Len(Builds)
  <2>1. Len(Builds) \in Nat /\ Len(Builds) # 0
    BY SeedAssumption, EmptySeq DEF SeedAssumption
  <2>2. QED
    BY <2>1 DEF Init
<1>2. /\ files.rows \in SUBSET Entities /\ files.ids \in [Entities -> Cells]
      /\ files.parent_id \in [Entities -> Entities \cup {None}]
      /\ files.subsector \in [Entities -> Subsectors]
      /\ files.alias \in SUBSET Pairs /\ files.splitAlias \in SUBSET Pairs
      /\ files.collision \in SUBSET Pairs /\ files.splitCollision \in SUBSET Pairs
  BY <1>1, FilesAre DEF files
<1>3. entity \in [Entities -> EntityRows \cup {None}]
  <2>1. ASSUME NEW e \in Entities
        PROVE  [origin |-> "seed", active |-> TRUE, ids |-> files.ids[e],
                parent_id |-> files.parent_id[e], subsector |-> files.subsector[e]] \in EntityRows
    BY <1>2 DEF EntityRows
  <2>2. QED
    BY <2>1 DEF Init
<1>4. alias \in TermRows /\ collision \in TermRows
  <2>1. ASSUME NEW own \in SUBSET Pairs, NEW split \in SUBSET Pairs
        PROVE  LoadedRows(<<>>, own, split) \in TermRows
    <3> DEFINE curated == {q \in own : q[1] \in files.rows}
               E == curated \cup split
    <3>1. DOMAIN <<>> = {}
      OBVIOUS
    <3>2. LoadedRows(<<>>, own, split) = [q \in E |-> IF q \in curated THEN "curated" ELSE "watchlist"]
      BY <3>1 DEF LoadedRows, WrittenBy
    <3>3. LoadedRows(<<>>, own, split) \in [E -> Writers]
      BY <3>2 DEF Writers
    <3>4. QED
      BY <3>3 DEF TermRows
  <2>2. QED
    BY <1>2, <2>1 DEF Init
<1>5. generated \in [ids : [Entities -> Cells], rel : SUBSET (Entities \X Entities)]
  BY KindsAre DEF Init, NothingGenerated
<1>6. audit \in Seq(AuditRows)
  BY EmptySeq DEF Init
<1>7. WatchTyped
  BY <1>1, <1>3, <1>4, <1>5, <1>6 DEF WatchTyped, Init
<1>8. ReferencesStand /\ RunLoadedLive
  BY DEF Init, ReferencesStand, RunLoadedLive
<1>9. QED
  BY <1>7, <1>8 DEF WatchInv

LEMMA StepKeeps == WatchInv /\ [Next]_vars => WatchInv'
<1> SUFFICES ASSUME WatchInv, [Next]_vars PROVE WatchInv'
  OBVIOUS
<1>0. events \in Nat /\ build \in 1 .. Len(Builds) /\ Len(Builds) \in Nat
  BY SeedAssumption, LenProperties DEF WatchInv, WatchTyped, SeedAssumption
<1>1. CASE EditEntity
  <2>1. PICK e \in Entities :
        \/ \E v \in Subsectors : AddEntity(e, v) \/ UpdateEntity(e, "subsector", v)
        \/ \E p \in Hints : UpdateEntity(e, "parent_id", p)
        \/ \E b \in BOOLEAN : SetEntityActive(e, b)
        \/ ResetEntity(e)
        \/ RemoveEntity(e)
    BY <1>1 DEF EditEntity
  <2>2. QED
    BY <2>1, AddEntityKeeps, UpdateEntityKeeps, SetEntityActiveKeeps, ResetEntityKeeps, RemoveEntityKeeps
<1>2. CASE EditTerms
  BY <1>2, EditTermsKeeps
<1>3. CASE LoadSeeds
  BY <1>3, LoadSeedsKeeps
<1>4. CASE StartRun
  BY <1>0, <1>4, QuietKeeps DEF StartRun, disk
<1>5. CASE EndRun
  BY <1>0, <1>5, QuietKeeps DEF EndRun, disk
<1>6. ASSUME NEW q \in Queries, ClassifyName(q) PROVE WatchInv'
  <2>1. events' \in Nat /\ UNCHANGED <<config, audit, run, disk>>
    BY <1>0, <1>6 DEF ClassifyName
  <2>2. QED
    BY <1>6, <2>1, ClassifyNameAdds, ClassifiedKeeps
<1>7. ASSUME NEW e \in Entities, ClassifyKnown(e) PROVE WatchInv'
  <2>1. events' \in Nat /\ UNCHANGED <<config, audit, run, disk>>
    BY <1>0, <1>7 DEF ClassifyKnown
  <2>2. QED
    BY <1>7, <2>1, ClassifyKnownAdds, ClassifiedKeeps
<1>8. ASSUME NEW edgar \in Edgars, Enrich(edgar) PROVE WatchInv'
  BY <1>8, EnrichKeeps
<1>9. CASE Deploy
  <2>1. build' \in 1 .. Len(Builds)
    BY <1>0, <1>9 DEF Deploy
  <2>2. QED
    BY <1>0, <1>9, <2>1, QuietKeeps DEF Deploy
<1>10. CASE UNCHANGED vars
  BY <1>0, <1>10, QuietKeeps DEF vars, disk
<1>11. QED
  BY <1>1, <1>2, <1>3, <1>4, <1>5, <1>6, <1>7, <1>8, <1>9, <1>10 DEF Next, Classify

(* The types of the tables, and that a run never knows of an entity that is *)
(* not active while it runs.                                                *)
THEOREM WatchlistTypeCorrect == Spec => [](WatchTyped /\ RunLoadedLive)
<1>1. Init => WatchInv
  BY InitKeeps
<1>2. WatchInv /\ [Next]_vars => WatchInv'
  BY StepKeeps
<1>3. WatchInv => WatchTyped /\ RunLoadedLive
  BY DEF WatchInv
<1>4. QED
  BY <1>1, <1>2, <1>3, PTL DEF Spec

(* Through every order of edits, seed loads without the lock and runs that  *)
(* loaded the table long ago, no card, decision, review row or relationship *)
(* points at an entity that was removed.                                    *)
THEOREM NothingDangles == Spec => []ReferencesStand
<1>1. Init => WatchInv
  BY InitKeeps
<1>2. WatchInv /\ [Next]_vars => WatchInv'
  BY StepKeeps
<1>3. WatchInv => ReferencesStand
  BY DEF WatchInv
<1>4. QED
  BY <1>1, <1>2, <1>3, PTL DEF Spec

(* Every new card goes to an active account that is its own top, whatever   *)
(* cycles and disabled parents the hints and relationships form.            *)
THEOREM CardsGoToTheTop == Spec => CardsGoToTopAccounts
<1>1. Init => WatchInv
  BY InitKeeps
<1>2. WatchInv /\ [Next]_vars => WatchInv'
  BY StepKeeps
<1>3. WatchInv /\ [Next]_vars
        => [\A r \in refs' \ refs : r[1] = "card" => r[2] \in Live /\ Top(r[2]) = r[2]]_vars
  <2> SUFFICES ASSUME WatchInv, Next, NEW r \in refs' \ refs, r[1] = "card"
               PROVE  r[2] \in Live /\ Top(r[2]) = r[2]
    OBVIOUS
  <2>1. \/ \E q \in Queries : ClassifyName(q)
        \/ \E e \in Entities : ClassifyKnown(e)
    <3>1. refs' # refs
      OBVIOUS
    <3>2. QED
      BY <3>1 DEF Next, EditEntity, EditTerms, LoadSeeds, Classify, Enrich, Deploy, StartRun, EndRun,
            AddEntity, UpdateEntity, SetEntityActive, ResetEntity, RemoveEntity, AddAlias, RemoveAlias,
            AddCollisionTerm, RemoveCollisionTerm, Untouched
  <2>2. NewRefsAreLive
    BY <2>1, ClassifyNameAdds, ClassifyKnownAdds
  <2>3. QED
    BY <2>2 DEF NewRefsAreLive
<1>4. QED
  BY <1>1, <1>2, <1>3, PTL DEF Spec, CardsGoToTopAccounts

-----------------------------------------------------------------------------
(* The trail as a sequence: an entity's rows, its last whole-row event, and *)
(* the last edit of a field after that.                                     *)
RowsIn(a, tables, pk) == {i \in 1..Len(a) : a[i].table \in tables /\ a[i].pk = pk}
WholeIn(a, pk) == LastOf({i \in RowsIn(a, {"entity"}, pk) : a[i].field \in Whole})
EditIn(a, tables, pk, w, field) == LastOf({i \in RowsIn(a, tables, pk) : i > w /\ a[i].field = field})

LEMMA LastOfIs ==
    ASSUME NEW n \in Nat, NEW S \in SUBSET (1 .. n)
    PROVE  /\ LastOf(S) \in 0 .. n
           /\ S = {} => LastOf(S) = 0
           /\ S # {} => LastOf(S) \in S /\ LastOf(S) # 0
           /\ \A k \in S : k <= LastOf(S)
           /\ \A m \in S : (\A k \in S : k <= m) => LastOf(S) = m
<1>1. CASE S = {}
  BY <1>1 DEF LastOf
<1>2. CASE S # {}
  <2>1. S \in SUBSET Nat /\ IsFiniteSet(S)
    <3>1. 1 \in Int /\ n \in Int
      OBVIOUS
    <3>2. IsFiniteSet(1 .. n)
      BY <3>1, FS_Interval
    <3>3. IsFiniteSet(S)
      BY <3>2, FS_Subset
    <3>4. QED
      BY <3>3
  <2>2. Largest(S) \in S /\ \A k \in S : k <= Largest(S)
    BY <1>2, <2>1, LargestIs
  <2>3. LastOf(S) = Largest(S)
    BY <1>2 DEF LastOf
  <2>4. PICK x : x = LastOf(S) /\ x \in S /\ \A k \in S : k <= x
    BY <2>2, <2>3
  <2>5. ASSUME NEW m \in S, \A k \in S : k <= m PROVE x = m
    <3>1. x <= m /\ m <= x /\ x \in Nat /\ m \in Nat
      BY <2>1, <2>4, <2>5
    <3>2. QED
      BY <3>1
  <2>6. x \in 1 .. n
    BY <2>4
  <2>7. QED
    BY <1>2, <2>4, <2>5, <2>6
<1>3. QED
  BY <1>1, <1>2

(* b is the trail a with one more row.                                      *)
OneMore(a, b, row) ==
    /\ a \in Seq(AuditRows) /\ row \in AuditRows
    /\ b = Append(a, row)

LEMMA OneMoreIs ==
    ASSUME NEW a, NEW b, NEW row, OneMore(a, b, row)
    PROVE  /\ Len(a) \in Nat /\ Len(b) = Len(a) + 1 /\ b[Len(a) + 1] = row
           /\ \A i \in 1 .. Len(a) : b[i] = a[i]
           /\ \A tables, pk, i : i \in RowsIn(b, tables, pk) <=>
                 \/ i \in RowsIn(a, tables, pk)
                 \/ i = Len(a) + 1 /\ row.table \in tables /\ row.pk = pk
<1>1. /\ Len(a) \in Nat /\ Len(b) = Len(a) + 1 /\ b[Len(a) + 1] = row
      /\ \A i \in 1 .. Len(a) : b[i] = a[i]
  BY LenProperties, AppendProperties DEF OneMore
<1>2. \A i : i \in 1 .. Len(b) <=> i \in 1 .. Len(a) \/ i = Len(a) + 1
  BY <1>1
<1>3. QED
  BY <1>1, <1>2 DEF RowsIn

LEMMA TrailRange ==
    ASSUME NEW a, Len(a) \in Nat, NEW tables, NEW pk, NEW w, NEW field
    PROVE  /\ WholeIn(a, pk) \in 0 .. Len(a)
           /\ EditIn(a, tables, pk, w, field) \in 0 .. Len(a)
           /\ EditIn(a, tables, pk, w, field) # 0 =>
                /\ EditIn(a, tables, pk, w, field) \in RowsIn(a, tables, pk)
                /\ EditIn(a, tables, pk, w, field) > w
                /\ EditIn(a, tables, pk, w, field) \in 1 .. Len(a)
           /\ \A i \in RowsIn(a, {"entity"}, pk) : a[i].field \in Whole => i <= WholeIn(a, pk)
<1> DEFINE S == {i \in RowsIn(a, {"entity"}, pk) : a[i].field \in Whole}
           T == {i \in RowsIn(a, tables, pk) : i > w /\ a[i].field = field}
<1>1. S \in SUBSET (1 .. Len(a)) /\ T \in SUBSET (1 .. Len(a))
  BY DEF RowsIn
<1>2. /\ \A i \in RowsIn(a, {"entity"}, pk) : a[i].field \in Whole => i \in S
      /\ \A i \in T : i \in RowsIn(a, tables, pk) /\ i > w
  OBVIOUS
<1>3. WholeIn(a, pk) = LastOf(S) /\ EditIn(a, tables, pk, w, field) = LastOf(T)
  BY DEF WholeIn, EditIn
<1> HIDE DEF S, T
<1>4. /\ LastOf(S) \in 0 .. Len(a) /\ \A k \in S : k <= LastOf(S)
      /\ LastOf(T) \in 0 .. Len(a) /\ (T = {} => LastOf(T) = 0) /\ (T # {} => LastOf(T) \in T)
  BY <1>1, LastOfIs
<1>5. QED
  BY <1>1, <1>2, <1>3, <1>4

LEMMA WholeStep ==
    ASSUME NEW a, NEW b, NEW row, OneMore(a, b, row), NEW pk
    PROVE  /\ (row.table # "entity" \/ row.pk # pk \/ row.field \notin Whole)
                 => WholeIn(b, pk) = WholeIn(a, pk)
           /\ (row.table = "entity" /\ row.pk = pk /\ row.field \in Whole)
                 => WholeIn(b, pk) = Len(a) + 1
<1> DEFINE S == {i \in RowsIn(a, {"entity"}, pk) : a[i].field \in Whole}
           T == {i \in RowsIn(b, {"entity"}, pk) : b[i].field \in Whole}
<1>0. /\ Len(a) \in Nat /\ Len(b) = Len(a) + 1 /\ b[Len(a) + 1] = row
      /\ \A i \in 1 .. Len(a) : b[i] = a[i]
  BY OneMoreIs
<1>1. \A i : i \in T <=> i \in S \/ (i = Len(a) + 1 /\ row.table = "entity" /\ row.pk = pk /\ row.field \in Whole)
  <2>1. \A i : i \in RowsIn(b, {"entity"}, pk) <=>
                 \/ i \in RowsIn(a, {"entity"}, pk)
                 \/ i = Len(a) + 1 /\ row.table \in {"entity"} /\ row.pk = pk
    BY OneMoreIs
  <2>2. \A i \in RowsIn(a, {"entity"}, pk) : i \in 1 .. Len(a)
    BY DEF RowsIn
  <2>3. QED
    BY <1>0, <2>1, <2>2
<1>2. WholeIn(a, pk) = LastOf(S) /\ WholeIn(b, pk) = LastOf(T)
  BY DEF WholeIn
<1>3. T \in SUBSET (1 .. Len(b)) /\ S \in SUBSET (1 .. Len(a))
  BY DEF RowsIn
<1> HIDE DEF S, T
<1>4. ASSUME row.table # "entity" \/ row.pk # pk \/ row.field \notin Whole PROVE T = S
  BY <1>1, <1>4
<1>5. ASSUME row.table = "entity" /\ row.pk = pk /\ row.field \in Whole PROVE LastOf(T) = Len(a) + 1
  <2>1. Len(a) + 1 \in T /\ \A k \in T : k <= Len(a) + 1
    BY <1>0, <1>1, <1>3, <1>5
  <2>2. QED
    BY <1>0, <1>3, <2>1, LastOfIs
<1>6. QED
  BY <1>2, <1>4, <1>5

LEMMA EditStep ==
    ASSUME NEW a, NEW b, NEW row, OneMore(a, b, row), NEW tables, NEW pk, NEW w \in Nat, NEW field
    PROVE  /\ (row.table \notin tables \/ row.pk # pk \/ row.field # field)
                 => EditIn(b, tables, pk, w, field) = EditIn(a, tables, pk, w, field)
           /\ (row.table \in tables /\ row.pk = pk /\ row.field = field /\ w <= Len(a))
                 => EditIn(b, tables, pk, w, field) = Len(a) + 1
           /\ w = Len(a) + 1 => EditIn(b, tables, pk, w, field) = 0
<1> DEFINE S == {i \in RowsIn(a, tables, pk) : i > w /\ a[i].field = field}
           T == {i \in RowsIn(b, tables, pk) : i > w /\ b[i].field = field}
<1>0. /\ Len(a) \in Nat /\ Len(b) = Len(a) + 1 /\ b[Len(a) + 1] = row
      /\ \A i \in 1 .. Len(a) : b[i] = a[i]
  BY OneMoreIs
<1>1. \A i : i \in T <=> \/ i \in S
                         \/ i = Len(a) + 1 /\ i > w /\ row.table \in tables /\ row.pk = pk /\ row.field = field
  <2>1. \A i : i \in RowsIn(b, tables, pk) <=>
                 \/ i \in RowsIn(a, tables, pk)
                 \/ i = Len(a) + 1 /\ row.table \in tables /\ row.pk = pk
    BY OneMoreIs
  <2>2. \A i \in RowsIn(a, tables, pk) : i \in 1 .. Len(a)
    BY DEF RowsIn
  <2>3. QED
    BY <1>0, <2>1, <2>2
<1>2. EditIn(a, tables, pk, w, field) = LastOf(S) /\ EditIn(b, tables, pk, w, field) = LastOf(T)
  BY DEF EditIn
<1>3. T \in SUBSET (1 .. Len(b)) /\ S \in SUBSET (1 .. Len(a)) /\ \A i \in T : i > w
  BY DEF RowsIn
<1> HIDE DEF S, T
<1>4. ASSUME row.table \notin tables \/ row.pk # pk \/ row.field # field PROVE T = S
  BY <1>1, <1>4
<1>5. ASSUME row.table \in tables /\ row.pk = pk /\ row.field = field /\ w <= Len(a)
      PROVE  LastOf(T) = Len(a) + 1
  <2>1. Len(a) + 1 > w
    BY <1>0, <1>5
  <2>2. Len(a) + 1 \in T /\ \A k \in T : k <= Len(a) + 1
    BY <1>0, <1>1, <1>3, <1>5, <2>1
  <2>3. QED
    BY <1>0, <1>3, <2>2, LastOfIs
<1>6. ASSUME w = Len(a) + 1 PROVE LastOf(T) = 0
  <2>1. \A i \in T : i \in 1 .. (Len(a) + 1) /\ i > Len(a) + 1
    BY <1>0, <1>3, <1>6
  <2>2. T = {}
    BY <1>0, <2>1
  <2>3. QED
    BY <2>2 DEF LastOf
<1>7. QED
  BY <1>2, <1>4, <1>5, <1>6

(* What the trail says of one entity, and what that takes to stay true: an  *)
(* entity that is gone has no row after its last whole-row event, and a     *)
(* term the operator added is not the watchlist file's to replace.          *)
SeedVals(b, field, e) == {Builds[i][field][e] : i \in {j \in 1..b : e \in Builds[j].rows}}

ColumnRight(a, ent, b, e, field) ==
    LET i == EditIn(a, {"entity"}, e, WholeIn(a, e), field)
    IN  IF i # 0 THEN ent[e][field] = a[i].new
        ELSE IF field = "active" THEN ent[e].active
        ELSE ent[e].origin = "seed" => ent[e][field] \in SeedVals(b, field, e)

ColumnsRight(a, ent, b, e) ==
    ent[e] # None => \A field \in Fields \cup {"active"} : ColumnRight(a, ent, b, e, field)

AddedBy(a, e) ==
    \E i \in RowsIn(a, {"entity"}, e) : i <= WholeIn(a, e) /\ a[i].field = "__add__"
        /\ \A j \in RowsIn(a, {"entity"}, e) : j > i => a[j].field # "__remove__"
OriginRight(a, ent, e) == (ent[e] # None /\ ent[e].origin = "operator") <=> AddedBy(a, e)

GoneRight(a, ent, e) ==
    ent[e] = None => \A i \in RowsIn(a, {"entity", "alias", "collision"}, e) : i <= WholeIn(a, e)

TermRight(a, table, rows, e, t) ==
    LET i == EditIn(a, {table}, e, WholeIn(a, e), t)
    IN  /\ i # 0 /\ a[i].new = t => <<e, t>> \in DOMAIN rows /\ rows[<<e, t>>] # "watchlist"
        /\ <<e, t>> \in WrittenBy(rows, OPERATOR_SOURCE) => i # 0 /\ a[i].new = t
TermsRight(a, table, rows, e) == \A t \in Terms : TermRight(a, table, rows, e, t)

Accounts(a, ent, al, co, b, e) ==
    /\ ColumnsRight(a, ent, b, e) /\ OriginRight(a, ent, e) /\ GoneRight(a, ent, e)
    /\ TermsRight(a, "alias", al, e) /\ TermsRight(a, "collision", co, e)

AllAccounted == \A e \in Entities : Accounts(audit, entity, alias, collision, build, e)

LEMMA AccountsExplain == AllAccounted => AuditExplains
<1> SUFFICES ASSUME AllAccounted PROVE AuditExplains
  OBVIOUS
<1>1. ASSUME NEW e \in Entities
      PROVE  LET whole == LastWhole("entity", e)
             IN  /\ e \in Existing => \A field \in Fields \cup {"active"} : ColumnExplained(e, field)
                 /\ (e \in Existing /\ entity[e].origin = "operator")
                    <=> (\E i \in RowsOf({"entity"}, e) : i <= whole /\ audit[i].field = "__add__"
                           /\ \A j \in RowsOf({"entity"}, e) : j > i => audit[j].field # "__remove__")
  <2>1. LastWhole("entity", e) = WholeIn(audit, e) /\ RowsOf({"entity"}, e) = RowsIn(audit, {"entity"}, e)
    BY DEF LastWhole, WholeIn, RowsOf, RowsIn
  <2>2. ASSUME e \in Existing, NEW field \in Fields \cup {"active"} PROVE ColumnExplained(e, field)
    <3>1. ColumnRight(audit, entity, build, e, field)
      BY <2>2 DEF AllAccounted, Accounts, ColumnsRight, Existing
    <3>2. LastEdit({"entity"}, e, LastWhole("entity", e), field)
            = EditIn(audit, {"entity"}, e, WholeIn(audit, e), field)
      BY <2>1 DEF LastEdit, EditIn, RowsOf, RowsIn
    <3>3. SeedValues(field, e) = SeedVals(build, field, e)
      BY DEF SeedValues, SeedVals
    <3>4. QED
      BY <3>1, <3>2, <3>3 DEF ColumnRight, ColumnExplained
  <2>3. (e \in Existing /\ entity[e].origin = "operator") <=> AddedBy(audit, e)
    BY DEF AllAccounted, Accounts, OriginRight, Existing
  <2>4. QED
    BY <2>1, <2>2, <2>3 DEF AddedBy
<1>2. ASSUME NEW table \in {"alias", "collision"}, NEW rows,
             \A e \in Entities : TermsRight(audit, table, rows, e)
      PROVE  TermsExplained(table, rows)
  <2> SUFFICES ASSUME NEW e \in Entities, NEW t \in Terms
               PROVE  LET i == LastEdit({table}, e, LastWhole("entity", e), t)
                      IN  /\ i # 0 /\ audit[i].new = t => <<e, t>> \in DOMAIN rows
                          /\ <<e, t>> \in WrittenBy(rows, OPERATOR_SOURCE) => i # 0 /\ audit[i].new = t
    BY DEF TermsExplained
  <2>1. LastWhole("entity", e) = WholeIn(audit, e)
    BY DEF LastWhole, WholeIn, RowsOf, RowsIn
  <2>2. LastEdit({table}, e, LastWhole("entity", e), t) = EditIn(audit, {table}, e, WholeIn(audit, e), t)
    BY <2>1 DEF LastEdit, EditIn, RowsOf, RowsIn
  <2>3. TermRight(audit, table, rows, e, t)
    BY <1>2 DEF TermsRight
  <2>4. QED
    BY <2>2, <2>3 DEF TermRight
<1>3. TermsExplained("alias", alias) /\ TermsExplained("collision", collision)
  <2>1. \A e \in Entities : TermsRight(audit, "alias", alias, e) /\ TermsRight(audit, "collision", collision, e)
    BY DEF AllAccounted, Accounts
  <2>2. QED
    BY <1>2, <2>1
<1>4. QED
  BY <1>1, <1>3 DEF AuditExplains

(* A step that adds no row of e and leaves e's rows as they are.            *)
SameTerms(rows, next, e) ==
    \A t \in Terms :
        /\ <<e, t>> \in DOMAIN next <=> <<e, t>> \in DOMAIN rows
        /\ <<e, t>> \in DOMAIN rows => next[<<e, t>>] = rows[<<e, t>>]

LEMMA SameTermsRight ==
    ASSUME NEW a, NEW rows, NEW next, NEW e, NEW table, SameTerms(rows, next, e),
           TermsRight(a, table, rows, e)
    PROVE  TermsRight(a, table, next, e)
  BY DEF SameTerms, TermsRight, TermRight, WrittenBy

LEMMA Bystander ==
    ASSUME NEW a, NEW b, NEW row, OneMore(a, b, row), NEW ent, NEW al, NEW co, NEW n, NEW e,
           row.pk # e, Accounts(a, ent, al, co, n, e)
    PROVE  Accounts(b, ent, al, co, n, e)
<1>0. /\ Len(a) \in Nat /\ Len(b) = Len(a) + 1
      /\ \A i \in 1 .. Len(a) : b[i] = a[i]
      /\ \A tables, i : i \in RowsIn(b, tables, e) <=> i \in RowsIn(a, tables, e)
      /\ \A tables, i : i \in RowsIn(a, tables, e) => b[i] = a[i]
  <2>1. \A tables, i : i \in RowsIn(a, tables, e) => i \in 1 .. Len(a)
    BY DEF RowsIn
  <2>2. QED
    BY <2>1, OneMoreIs
<1>1. WholeIn(b, e) = WholeIn(a, e) /\ WholeIn(a, e) \in Nat
  <2>1. WholeIn(b, e) = WholeIn(a, e)
    BY WholeStep
  <2>2. WholeIn(a, e) \in 0 .. Len(a)
    BY <1>0, TrailRange
  <2>3. QED
    BY <1>0, <2>1, <2>2
<1>2. ASSUME NEW tables, NEW field
      PROVE  /\ EditIn(b, tables, e, WholeIn(b, e), field) = EditIn(a, tables, e, WholeIn(a, e), field)
             /\ EditIn(a, tables, e, WholeIn(a, e), field) # 0
                  => b[EditIn(a, tables, e, WholeIn(a, e), field)] = a[EditIn(a, tables, e, WholeIn(a, e), field)]
  <2>1. EditIn(b, tables, e, WholeIn(a, e), field) = EditIn(a, tables, e, WholeIn(a, e), field)
    BY <1>1, EditStep
  <2>2. EditIn(a, tables, e, WholeIn(a, e), field) # 0
            => EditIn(a, tables, e, WholeIn(a, e), field) \in 1 .. Len(a)
    BY <1>0, TrailRange
  <2>3. QED
    BY <1>0, <1>1, <2>1, <2>2
<1>3. ColumnsRight(b, ent, n, e)
  BY <1>2 DEF Accounts, ColumnsRight, ColumnRight
<1>4. OriginRight(b, ent, e)
  <2>1. AddedBy(a, e) <=> AddedBy(b, e)
    BY <1>0, <1>1 DEF AddedBy
  <2>2. QED
    BY <2>1 DEF Accounts, OriginRight
<1>5. GoneRight(b, ent, e)
  BY <1>0, <1>1 DEF Accounts, GoneRight
<1>6. TermsRight(b, "alias", al, e) /\ TermsRight(b, "collision", co, e)
  BY <1>2 DEF Accounts, TermsRight, TermRight
<1>7. QED
  BY <1>3, <1>4, <1>5, <1>6 DEF Accounts

LEMMA SameAccounts ==
    ASSUME NEW a, NEW ent, NEW al, NEW co, NEW n, NEW e, NEW ent2, NEW al2, NEW co2,
           Accounts(a, ent, al, co, n, e), ent2[e] = ent[e],
           SameTerms(al, al2, e), SameTerms(co, co2, e)
    PROVE  Accounts(a, ent2, al2, co2, n, e)
<1>1. TermsRight(a, "alias", al2, e) /\ TermsRight(a, "collision", co2, e)
  BY SameTermsRight DEF Accounts
<1>2. ColumnsRight(a, ent2, n, e) /\ OriginRight(a, ent2, e) /\ GoneRight(a, ent2, e)
  BY DEF Accounts, ColumnsRight, ColumnRight, OriginRight, GoneRight
<1>3. QED
  BY <1>1, <1>2 DEF Accounts

(* An entity is the operator's by its last addition and removal; other rows *)
(* do not change that.                                                      *)
LEMMA AddedStays ==
    ASSUME NEW a, NEW b, NEW row, OneMore(a, b, row), NEW e,
           row.table # "entity" \/ row.field \notin {"__add__", "__remove__"}
    PROVE  AddedBy(b, e) <=> AddedBy(a, e)
<1>0. /\ Len(a) \in Nat /\ Len(b) = Len(a) + 1 /\ b[Len(a) + 1] = row
      /\ \A i \in RowsIn(b, {"entity"}, e) : \/ i \in RowsIn(a, {"entity"}, e)
                                             \/ i = Len(a) + 1 /\ row.table = "entity"
      /\ \A i \in RowsIn(a, {"entity"}, e) : i \in RowsIn(b, {"entity"}, e) /\ b[i] = a[i]
  <2>1. \A i \in RowsIn(a, {"entity"}, e) : i \in 1 .. Len(a)
    BY DEF RowsIn
  <2>2. QED
    BY <2>1, OneMoreIs
<1>1. \A i \in RowsIn(a, {"entity"}, e) : a[i].field = "__add__" => i <= WholeIn(a, e)
  <2>1. "__add__" \in Whole
    BY DEF Whole
  <2>2. QED
    BY <1>0, <2>1, TrailRange
<1>2. \A i \in RowsIn(b, {"entity"}, e) : b[i].field = "__add__" => i <= WholeIn(b, e)
  <2>1. "__add__" \in Whole /\ Len(b) \in Nat
    BY <1>0 DEF Whole
  <2>2. QED
    BY <2>1, TrailRange
<1>3. ASSUME NEW i \in RowsIn(a, {"entity"}, e), a[i].field = "__add__",
             \A j \in RowsIn(a, {"entity"}, e) : j > i => a[j].field # "__remove__"
      PROVE  AddedBy(b, e)
  <2>1. i \in RowsIn(b, {"entity"}, e) /\ b[i].field = "__add__" /\ i <= WholeIn(b, e)
    BY <1>0, <1>2, <1>3
  <2>2. \A j \in RowsIn(b, {"entity"}, e) : j > i => b[j].field # "__remove__"
    BY <1>0, <1>3
  <2>3. QED
    BY <2>1, <2>2 DEF AddedBy
<1>4. ASSUME NEW i \in RowsIn(b, {"entity"}, e), b[i].field = "__add__",
             \A j \in RowsIn(b, {"entity"}, e) : j > i => b[j].field # "__remove__"
      PROVE  AddedBy(a, e)
  <2>1. i \in RowsIn(a, {"entity"}, e) /\ a[i].field = "__add__" /\ i <= WholeIn(a, e)
    BY <1>0, <1>1, <1>4
  <2>2. \A j \in RowsIn(a, {"entity"}, e) : j > i => a[j].field # "__remove__"
    BY <1>0, <1>4
  <2>3. QED
    BY <2>1, <2>2 DEF AddedBy
<1>5. QED
  BY <1>3, <1>4 DEF AddedBy

(* A whole-row event closes the book on what came before.                   *)
LEMMA WholeRow ==
    ASSUME NEW a, NEW b, NEW row, OneMore(a, b, row), NEW e,
           row.table = "entity", row.pk = e, row.field \in Whole,
           NEW ent, NEW al, NEW co, NEW n,
           ent[e] # None => /\ ent[e].active
                            /\ ent[e].origin = "seed" =>
                                  \A f \in Fields : ent[e][f] \in SeedVals(n, f, e),
           OriginRight(b, ent, e),
           \A t \in Terms : /\ <<e, t>> \notin WrittenBy(al, OPERATOR_SOURCE)
                            /\ <<e, t>> \notin WrittenBy(co, OPERATOR_SOURCE)
    PROVE  Accounts(b, ent, al, co, n, e)
<1>0. Len(a) \in Nat /\ Len(b) = Len(a) + 1
  BY OneMoreIs
<1>1. WholeIn(b, e) = Len(a) + 1 /\ WholeIn(b, e) \in Nat
  BY <1>0, WholeStep
<1>2. \A tables, field : EditIn(b, tables, e, WholeIn(b, e), field) = 0
  <2>1. PICK w \in Nat : w = WholeIn(b, e) /\ w = Len(a) + 1
    BY <1>1
  <2>2. \A tables, field : EditIn(b, tables, e, w, field) = 0
    BY <2>1, EditStep
  <2>3. QED
    BY <2>1, <2>2
<1>3. ColumnsRight(b, ent, n, e)
  <2>1. ASSUME ent[e] # None, NEW field \in Fields \cup {"active"}
        PROVE  ColumnRight(b, ent, n, e, field)
    <3>1. EditIn(b, {"entity"}, e, WholeIn(b, e), field) = 0
      BY <1>2
    <3>2. CASE field = "active"
      BY <2>1, <3>1, <3>2 DEF ColumnRight
    <3>3. CASE field # "active"
      BY <2>1, <3>1, <3>3 DEF ColumnRight
    <3>4. QED
      BY <3>2, <3>3
  <2>2. QED
    BY <2>1 DEF ColumnsRight
<1>4. GoneRight(b, ent, e)
  <2>1. \A tables : \A i \in RowsIn(b, tables, e) : i \in 1 .. Len(b)
    BY DEF RowsIn
  <2>2. QED
    BY <1>0, <1>1, <2>1 DEF GoneRight
<1>5. TermsRight(b, "alias", al, e) /\ TermsRight(b, "collision", co, e)
  BY <1>2 DEF TermsRight, TermRight
<1>6. QED
  BY <1>3, <1>4, <1>5 DEF Accounts

(* A row that is no whole-row event leaves the other fields as they were.   *)
LEMMA OtherEdits ==
    ASSUME NEW a, NEW b, NEW row, OneMore(a, b, row), NEW e,
           row.table # "entity" \/ row.field \notin Whole
    PROVE  /\ WholeIn(b, e) = WholeIn(a, e)
           /\ \A tables, field :
                 row.table \notin tables \/ row.field # field =>
                    LET i == EditIn(a, tables, e, WholeIn(a, e), field)
                    IN  /\ EditIn(b, tables, e, WholeIn(b, e), field) = i
                        /\ i # 0 => b[i] = a[i]
           /\ \A tables, field :
                 row.table \in tables /\ row.pk = e /\ row.field = field =>
                    LET i == EditIn(b, tables, e, WholeIn(b, e), field)
                    IN  i # 0 /\ b[i] = row
<1>0. /\ Len(a) \in Nat /\ Len(b) = Len(a) + 1 /\ b[Len(a) + 1] = row
      /\ \A i \in 1 .. Len(a) : b[i] = a[i]
  BY OneMoreIs
<1>1. WholeIn(b, e) = WholeIn(a, e)
  BY WholeStep
<1>2. PICK w \in Nat : w = WholeIn(a, e) /\ w <= Len(a)
  <2>1. WholeIn(a, e) \in 0 .. Len(a)
    BY <1>0, TrailRange
  <2>2. QED
    BY <1>0, <2>1
<1>3. ASSUME NEW tables, NEW field, row.table \notin tables \/ row.field # field
      PROVE  LET i == EditIn(a, tables, e, w, field)
             IN  EditIn(b, tables, e, w, field) = i /\ (i # 0 => b[i] = a[i])
  <2>1. EditIn(b, tables, e, w, field) = EditIn(a, tables, e, w, field)
    BY <1>3, EditStep
  <2>2. EditIn(a, tables, e, w, field) # 0 => EditIn(a, tables, e, w, field) \in 1 .. Len(a)
    BY <1>0, TrailRange
  <2>3. QED
    BY <1>0, <2>1, <2>2
<1>4. ASSUME NEW tables, NEW field, row.table \in tables /\ row.pk = e /\ row.field = field
      PROVE  LET i == EditIn(b, tables, e, w, field) IN i # 0 /\ b[i] = row
  <2>1. EditIn(b, tables, e, w, field) = Len(a) + 1
    BY <1>2, <1>4, EditStep
  <2>2. QED
    BY <1>0, <2>1
<1>5. QED
  BY <1>1, <1>2, <1>3, <1>4

LEMMA TermsUntouched ==
    ASSUME NEW a, NEW b, NEW row, OneMore(a, b, row), NEW e,
           row.table # "entity" \/ row.field \notin Whole,
           NEW table, row.table # table, NEW rows, TermsRight(a, table, rows, e)
    PROVE  TermsRight(b, table, rows, e)
<1>1. row.table \notin {table}
  OBVIOUS
<1>2. \A t : LET i == EditIn(a, {table}, e, WholeIn(a, e), t)
             IN  EditIn(b, {table}, e, WholeIn(b, e), t) = i /\ (i # 0 => b[i] = a[i])
  BY <1>1, OtherEdits
<1>3. QED
  BY <1>2 DEF TermsRight, TermRight

(* An edit of one column.                                                   *)
SetsColumn(ent, next, e, field, value) ==
    /\ ent[e] # None /\ next[e] # None /\ next[e].origin = ent[e].origin /\ next[e][field] = value
    /\ \A f \in (Fields \cup {"active"}) \ {field} : next[e][f] = ent[e][f]

LEMMA ColumnEdited ==
    ASSUME NEW a, NEW b, NEW row, OneMore(a, b, row), NEW e,
           NEW field \in Fields \cup {"active"}, row.table = "entity", row.pk = e, row.field = field,
           NEW ent, NEW next, NEW al, NEW co, NEW n, Accounts(a, ent, al, co, n, e),
           SetsColumn(ent, next, e, field, row.new)
    PROVE  Accounts(b, next, al, co, n, e)
<1>0. /\ ent[e] # None /\ next[e] # None /\ next[e].origin = ent[e].origin /\ next[e][field] = row.new
      /\ \A f \in (Fields \cup {"active"}) \ {field} : next[e][f] = ent[e][f]
  BY DEF SetsColumn
<1>1. field \notin Whole /\ field \notin {"__add__", "__remove__"}
  BY DEF Fields, Whole
<1>2. ColumnsRight(b, next, n, e)
  <2>1. ASSUME NEW f \in Fields \cup {"active"} PROVE ColumnRight(b, next, n, e, f)
    <3> DEFINE i == EditIn(a, {"entity"}, e, WholeIn(a, e), f)
               j == EditIn(b, {"entity"}, e, WholeIn(b, e), f)
    <3>1. CASE f = field
      <4>1. j # 0 /\ b[j] = row
        BY <1>1, <3>1, OtherEdits
      <4> HIDE DEF j
      <4>2. next[e][f] = b[j].new
        BY <1>0, <3>1, <4>1
      <4> USE DEF j
      <4>3. QED
        BY <4>1, <4>2 DEF ColumnRight
    <3>2. CASE f # field
      <4>1. j = i /\ (i # 0 => b[i] = a[i])
        BY <1>1, <3>2, OtherEdits
      <4>2. ColumnRight(a, ent, n, e, f)
        BY <1>0 DEF Accounts, ColumnsRight
      <4>3. next[e][f] = ent[e][f] /\ (f = "active" => next[e].active = ent[e].active)
        BY <1>0, <3>2
      <4>4. IF i # 0 THEN ent[e][f] = a[i].new
            ELSE IF f = "active" THEN ent[e].active
            ELSE ent[e].origin = "seed" => ent[e][f] \in SeedVals(n, f, e)
        BY <4>2 DEF ColumnRight
      <4> HIDE DEF i
      <4>5. IF i # 0 THEN next[e][f] = b[i].new
            ELSE IF f = "active" THEN next[e].active
            ELSE next[e].origin = "seed" => next[e][f] \in SeedVals(n, f, e)
        BY <1>0, <4>1, <4>3, <4>4
      <4>6. QED
        BY <4>1, <4>5 DEF ColumnRight
    <3>3. QED
      BY <3>1, <3>2
  <2>2. QED
    BY <2>1 DEF ColumnsRight
<1>3. OriginRight(b, next, e)
  BY <1>0, <1>1, AddedStays DEF Accounts, OriginRight
<1>4. GoneRight(b, next, e)
  BY <1>0 DEF GoneRight
<1>5. TermsRight(b, "alias", al, e) /\ TermsRight(b, "collision", co, e)
  <2>1. row.table # "alias" /\ row.table # "collision"
    OBVIOUS
  <2>2. QED
    BY <1>1, <2>1, TermsUntouched DEF Accounts
<1>6. QED
  BY <1>2, <1>3, <1>4, <1>5 DEF Accounts

(* An edit of one term.                                                     *)
LEMMA TermEdited ==
    ASSUME NEW a, NEW b, NEW row, OneMore(a, b, row), NEW e,
           NEW table \in {"alias", "collision"}, NEW t \in Terms,
           row.table = table, row.pk = e, row.field = t,
           NEW rows, NEW next, TermsRight(a, table, rows, e),
           \A u \in Terms \ {t} :
               /\ <<e, u>> \in DOMAIN next <=> <<e, u>> \in DOMAIN rows
               /\ <<e, u>> \in DOMAIN rows => next[<<e, u>>] = rows[<<e, u>>],
           \/ row.new = t /\ <<e, t>> \in DOMAIN next /\ next[<<e, t>>] = OPERATOR_SOURCE
           \/ row.new # t /\ <<e, t>> \notin DOMAIN next
    PROVE  TermsRight(b, table, next, e)
<1> SUFFICES ASSUME NEW u \in Terms PROVE TermRight(b, table, next, e, u)
  BY DEF TermsRight
<1> DEFINE i == EditIn(a, {table}, e, WholeIn(a, e), u)
           j == EditIn(b, {table}, e, WholeIn(b, e), u)
<1>1. row.table # "entity"
  OBVIOUS
<1>2. CASE u = t
  <2>1. j # 0 /\ b[j] = row
    BY <1>1, <1>2, OtherEdits
  <2>2. TermRight(b, table, next, e, u) =
          (/\ j # 0 /\ b[j].new = u => <<e, u>> \in DOMAIN next /\ next[<<e, u>>] # "watchlist"
           /\ <<e, u>> \in WrittenBy(next, OPERATOR_SOURCE) => j # 0 /\ b[j].new = u)
    BY DEF TermRight
  <2> HIDE DEF j
  <2>3. QED
    BY <1>2, <2>1, <2>2 DEF WrittenBy, OPERATOR_SOURCE
<1>3. CASE u # t
  <2>1. j = i /\ (i # 0 => b[i] = a[i])
    BY <1>1, <1>3, OtherEdits
  <2>2. TermRight(a, table, rows, e, u)
    BY DEF TermsRight
  <2>3. QED
    BY <1>3, <2>1, <2>2 DEF TermRight, WrittenBy
<1>4. QED
  BY <1>2, <1>3

(* A row of a term table says nothing of the columns or the other table.    *)
LEMMA TermRowBystander ==
    ASSUME NEW a, NEW b, NEW row, OneMore(a, b, row), NEW e, row.table \in {"alias", "collision"},
           NEW ent, NEW al, NEW co, NEW n, Accounts(a, ent, al, co, n, e), ent[e] # None
    PROVE  /\ ColumnsRight(b, ent, n, e) /\ OriginRight(b, ent, e) /\ GoneRight(b, ent, e)
           /\ row.table # "alias" => TermsRight(b, "alias", al, e)
           /\ row.table # "collision" => TermsRight(b, "collision", co, e)
<1>1. row.table # "entity"
  OBVIOUS
<1>2. \A tables, field : row.table \notin tables =>
          LET i == EditIn(a, tables, e, WholeIn(a, e), field)
          IN  EditIn(b, tables, e, WholeIn(b, e), field) = i /\ (i # 0 => b[i] = a[i])
  BY <1>1, OtherEdits
<1>3. ColumnsRight(b, ent, n, e)
  <2>1. row.table \notin {"entity"}
    BY <1>1
  <2>2. QED
    BY <1>2, <2>1 DEF Accounts, ColumnsRight, ColumnRight
<1>4. OriginRight(b, ent, e)
  BY <1>1, AddedStays DEF Accounts, OriginRight
<1>5. GoneRight(b, ent, e)
  BY DEF GoneRight
<1>6. /\ row.table # "alias" => TermsRight(b, "alias", al, e)
      /\ row.table # "collision" => TermsRight(b, "collision", co, e)
  BY <1>1, TermsUntouched DEF Accounts
<1>7. QED
  BY <1>3, <1>4, <1>5, <1>6

-----------------------------------------------------------------------------
(* The steps of the watchlist: what each leaves of the account of everyone. *)
LEMMA OthersAccounted ==
    ASSUME AllAccounted, NEW row, OneMore(audit, audit', row), NEW e, row.pk = e, build' = build,
           \A x \in Entities \ {e} : /\ entity'[x] = entity[x]
                                     /\ SameTerms(alias, alias', x)
                                     /\ SameTerms(collision, collision', x),
           Accounts(audit', entity', alias', collision', build', e)
    PROVE  AllAccounted'
<1> SUFFICES ASSUME NEW x \in Entities
             PROVE  Accounts(audit', entity', alias', collision', build', x)
  BY DEF AllAccounted
<1>1. CASE x = e
  BY <1>1
<1>2. CASE x # e
  <2>1. Accounts(audit, entity, alias, collision, build, x)
    BY DEF AllAccounted
  <2>2. Accounts(audit', entity, alias, collision, build, x)
    BY <1>2, <2>1, Bystander
  <2>3. Accounts(audit', entity', alias', collision', build, x)
    BY <1>2, <2>2, SameAccounts
  <2>4. QED
    BY <2>3
<1>3. QED
  BY <1>1, <1>2

LEMMA RecordAppends ==
    ASSUME WatchTyped, NEW row \in AuditRows, Record(row)
    PROVE  OneMore(audit, audit', row)
  BY DEF WatchTyped, Record, OneMore

LEMMA SameIsSame == \A rows, e : SameTerms(rows, rows, e)
  BY DEF SameTerms

(* What is gone has no terms of the operator's.                             *)
LEMMA GoneIsClean ==
    ASSUME NEW e \in Entities, Accounts(audit, entity, alias, collision, build, e), WatchTyped,
           entity[e] = None
    PROVE  \A t \in Terms : /\ <<e, t>> \notin WrittenBy(alias, OPERATOR_SOURCE)
                            /\ <<e, t>> \notin WrittenBy(collision, OPERATOR_SOURCE)
<1>1. Len(audit) \in Nat
  BY LenProperties DEF WatchTyped
<1>2. ASSUME NEW table \in {"alias", "collision"}, NEW rows, TermsRight(audit, table, rows, e),
             NEW t \in Terms
      PROVE  <<e, t>> \notin WrittenBy(rows, OPERATOR_SOURCE)
  <2> DEFINE i == EditIn(audit, {table}, e, WholeIn(audit, e), t)
  <2>1. i # 0 => i \in RowsIn(audit, {table}, e) /\ i > WholeIn(audit, e)
    BY <1>1, TrailRange
  <2>2. \A k \in RowsIn(audit, {table}, e) : k <= WholeIn(audit, e)
    BY DEF Accounts, GoneRight, RowsIn
  <2>3. \A k \in RowsIn(audit, {table}, e) : k \in Nat
    BY DEF RowsIn
  <2>4. WholeIn(audit, e) \in 0 .. Len(audit)
    BY <1>1, TrailRange
  <2>5. ASSUME i # 0 PROVE FALSE
    <3>1. i \in Nat /\ i > WholeIn(audit, e) /\ i <= WholeIn(audit, e)
      BY <2>1, <2>2, <2>3, <2>5
    <3>2. PICK w \in Nat : w = WholeIn(audit, e)
      BY <1>1, <2>4
    <3> HIDE DEF i
    <3>3. i \in Nat /\ i > w /\ i <= w
      BY <3>1, <3>2
    <3>4. QED
      BY <3>3
  <2>6. TermRight(audit, table, rows, e, t)
    BY <1>2 DEF TermsRight
  <2>7. QED
    BY <2>5, <2>6 DEF TermRight
<1>3. QED
  BY <1>2 DEF Accounts

LEMMA AddEntityAccounts ==
    ASSUME WatchInv, AllAccounted, NEW e \in Entities, NEW v \in Subsectors, AddEntity(e, v)
    PROVE  AllAccounted'
<1> DEFINE row == Row("entity", e, "__add__", None, NameOf[e])
<1>1. row \in AuditRows /\ row.table = "entity" /\ row.pk = e /\ row.field = "__add__"
  <2>1. NameOf[e] \in Terms
    BY ResolverAssumption DEF ResolverAssumption
  <2>2. row \in AuditRows
    BY <2>1, EditTyped
  <2>3. QED
    BY <2>2 DEF Row
<1>2. OneMore(audit, audit', row)
  BY <1>1, RecordAppends DEF AddEntity, WatchInv
<1> HIDE DEF row
<1>3. /\ build' = build /\ alias' = alias /\ collision' = collision /\ entity[e] = None
      /\ entity'[e] = [origin |-> "operator", active |-> TRUE, ids |-> NoIds,
                       parent_id |-> None, subsector |-> v]
      /\ \A x \in Entities \ {e} : entity'[x] = entity[x]
  BY DEF AddEntity, Untouched, disk, WatchInv, WatchTyped
<1>4. entity'[e] # None /\ entity'[e].origin = "operator" /\ entity'[e].active
  <2>1. entity'[e] \in EntityRows
    BY <1>3, KindsAre DEF EntityRows
  <2>2. entity'[e] # None
    BY <2>1, RowsTyped
  <2>3. QED
    BY <1>3, <2>2
<1>5. \A t \in Terms : /\ <<e, t>> \notin WrittenBy(alias, OPERATOR_SOURCE)
                       /\ <<e, t>> \notin WrittenBy(collision, OPERATOR_SOURCE)
  BY <1>3, GoneIsClean DEF AllAccounted, WatchInv
<1>6. OriginRight(audit', entity', e)
  <2>1. /\ Len(audit) \in Nat /\ Len(audit') = Len(audit) + 1 /\ audit'[Len(audit) + 1] = row
        /\ Len(audit) + 1 \in RowsIn(audit', {"entity"}, e)
    BY <1>1, <1>2, OneMoreIs
  <2>2. WholeIn(audit', e) = Len(audit) + 1
    BY <1>1, <1>2, WholeStep DEF Whole
  <2>3. \A j \in RowsIn(audit', {"entity"}, e) : ~ (j > Len(audit) + 1)
    BY <2>1 DEF RowsIn
  <2>4. AddedBy(audit', e)
    BY <1>1, <2>1, <2>2, <2>3 DEF AddedBy
  <2>5. QED
    BY <1>4, <2>4 DEF OriginRight
<1>7. Accounts(audit', entity', alias', collision', build', e)
  <2>1. "__add__" \in Whole
    BY DEF Whole
  <2>2. entity'[e].origin # "seed"
    BY <1>4
  <2>3. QED
    BY <1>1, <1>2, <1>3, <1>4, <1>5, <1>6, <2>1, <2>2, WholeRow
<1>8. QED
  BY <1>1, <1>2, <1>3, <1>7, SameIsSame, OthersAccounted

(* What an account is of, one entity at a time.                             *)
LEMMA AccountOf ==
    ASSUME WatchInv, AllAccounted, NEW e \in Entities
    PROVE  /\ Accounts(audit, entity, alias, collision, build, e)
           /\ entity[e] # None => entity[e] \in EntityRows
           /\ Len(audit) \in Nat /\ build \in 1 .. Len(Builds)
  BY LenProperties DEF AllAccounted, WatchInv, WatchTyped

LEMMA UpdateEntityAccounts ==
    ASSUME WatchInv, AllAccounted, NEW e \in Entities, NEW field, NEW value,
           \/ field = "subsector" /\ value \in Subsectors
           \/ field = "parent_id" /\ value \in Hints,
           UpdateEntity(e, field, value)
    PROVE  AllAccounted'
<1> DEFINE row == Row("entity", e, field, entity[e][field], value)
<1>0. entity[e] \in EntityRows /\ entity[e] # None /\ field \in Fields
  BY AccountOf DEF UpdateEntity, Fields
<1>1. row \in AuditRows /\ row.table = "entity" /\ row.pk = e /\ row.field = field /\ row.new = value
  <2>1. entity[e][field] \in Entities \cup Hints \cup Subsectors \cup {None}
    BY <1>0 DEF EntityRows
  <2>2. row \in AuditRows
    BY <1>0, <2>1, EditTyped
  <2>3. QED
    BY <2>2 DEF Row
<1>2. OneMore(audit, audit', row)
  BY <1>1, RecordAppends DEF UpdateEntity, WatchInv
<1> HIDE DEF row
<1>3. /\ build' = build /\ alias' = alias /\ collision' = collision
      /\ entity'[e] = [entity[e] EXCEPT ![field] = value]
      /\ \A x \in Entities \ {e} : entity'[x] = entity[x]
  BY DEF UpdateEntity, Untouched, disk, WatchInv, WatchTyped
<1>4. /\ entity'[e] # None /\ entity'[e].origin = entity[e].origin /\ entity'[e][field] = value
      /\ \A f \in (Fields \cup {"active"}) \ {field} : entity'[e][f] = entity[e][f]
  <2>1. CASE field = "subsector" /\ value \in Subsectors
    <3>1. entity'[e] \in EntityRows
      BY <1>0, <1>3, <2>1 DEF EntityRows
    <3>2. entity'[e] # None
      BY <3>1, RowsTyped
    <3>3. QED
      BY <1>0, <1>3, <2>1, <3>2 DEF EntityRows, Fields
  <2>2. CASE field = "parent_id" /\ value \in Hints
    <3>1. entity'[e] \in EntityRows
      BY <1>0, <1>3, <2>2 DEF EntityRows
    <3>2. entity'[e] # None
      BY <3>1, RowsTyped
    <3>3. QED
      BY <1>0, <1>3, <2>2, <3>2 DEF EntityRows, Fields
  <2>3. QED
    BY <2>1, <2>2
<1>5. Accounts(audit', entity', alias', collision', build', e)
  <2>1. SetsColumn(entity, entity', e, field, row.new)
    BY <1>0, <1>1, <1>4 DEF SetsColumn
  <2>2. Accounts(audit, entity, alias, collision, build, e)
    BY AccountOf
  <2>3. Accounts(audit', entity', alias, collision, build, e)
    BY <1>0, <1>1, <1>2, <2>1, <2>2, ColumnEdited
  <2>4. QED
    BY <1>3, <2>3
<1>6. QED
  BY <1>1, <1>2, <1>3, <1>5, SameIsSame, OthersAccounted

LEMMA SetEntityActiveAccounts ==
    ASSUME WatchInv, AllAccounted, NEW e \in Entities, NEW active \in BOOLEAN, SetEntityActive(e, active)
    PROVE  AllAccounted'
<1> DEFINE row == Row("entity", e, "active", entity[e].active, active)
<1>0. entity[e] \in EntityRows /\ entity[e] # None
  BY AccountOf DEF SetEntityActive
<1>1. row \in AuditRows /\ row.table = "entity" /\ row.pk = e /\ row.field = "active" /\ row.new = active
  <2>1. entity[e].active \in BOOLEAN
    BY <1>0 DEF EntityRows
  <2>2. row \in AuditRows
    BY <2>1, EditTyped
  <2>3. QED
    BY <2>2 DEF Row
<1>2. OneMore(audit, audit', row)
  BY <1>1, RecordAppends DEF SetEntityActive, WatchInv
<1> HIDE DEF row
<1>3. /\ build' = build /\ alias' = alias /\ collision' = collision
      /\ entity'[e] = [entity[e] EXCEPT !.active = active]
      /\ \A x \in Entities \ {e} : entity'[x] = entity[x]
  BY DEF SetEntityActive, Untouched, disk, WatchInv, WatchTyped
<1>4. /\ entity'[e] # None /\ entity'[e].origin = entity[e].origin /\ entity'[e].active = active
      /\ \A f \in Fields : entity'[e][f] = entity[e][f]
  <2>1. entity'[e] \in EntityRows
    BY <1>0, <1>3 DEF EntityRows
  <2>2. entity'[e] # None
    BY <2>1, RowsTyped
  <2>3. QED
    BY <1>0, <1>3, <2>2 DEF EntityRows, Fields
<1>5. Accounts(audit', entity', alias', collision', build', e)
  <2>1. SetsColumn(entity, entity', e, "active", row.new)
    BY <1>0, <1>1, <1>4 DEF SetsColumn
  <2>2. Accounts(audit, entity, alias, collision, build, e)
    BY AccountOf
  <2>3. Accounts(audit', entity', alias, collision, build, e)
    BY <1>0, <1>1, <1>2, <2>1, <2>2, ColumnEdited
  <2>4. QED
    BY <1>3, <2>3
<1>6. QED
  BY <1>1, <1>2, <1>3, <1>5, SameIsSame, OthersAccounted

(* Rows taken out of a term table, of one entity only.                      *)
LEMMA WithoutIs ==
    ASSUME NEW rows, NEW S
    PROVE  /\ DOMAIN Without(rows, S) = DOMAIN rows \ S
           /\ \A p \in DOMAIN rows \ S : Without(rows, S)[p] = rows[p]
  BY DEF Without

LEMMA WithoutWritten ==
    ASSUME NEW rows, NEW S, NEW by, NEW p, p \in WrittenBy(rows, by) => p \in S
    PROVE  p \notin WrittenBy(Without(rows, S), by)
<1> SUFFICES ASSUME p \in WrittenBy(Without(rows, S), by) PROVE FALSE
  OBVIOUS
<1>1. p \in DOMAIN rows \ S /\ Without(rows, S)[p] = by
  BY WithoutIs DEF WrittenBy
<1>2. rows[p] = by
  BY <1>1, WithoutIs
<1>3. QED
  BY <1>1, <1>2 DEF WrittenBy

LEMMA WithoutOfEntity ==
    ASSUME NEW rows, NEW e, NEW S, S \subseteq OfEntity(rows, e)
    PROVE  \A x : x # e => SameTerms(rows, Without(rows, S), x)
<1> SUFFICES ASSUME NEW x, x # e, NEW t \in Terms PROVE <<x, t>> \notin S
  BY WithoutIs DEF SameTerms
<1>1. QED
  BY DEF OfEntity

LEMMA ResetEntityAccounts ==
    ASSUME WatchInv, AllAccounted, NEW e \in Entities, ResetEntity(e)
    PROVE  AllAccounted'
<1> DEFINE row == Row("entity", e, "__reset__", None, "seed values")
           A == OfEntity(alias, e) \cap WrittenBy(alias, OPERATOR_SOURCE)
           C == OfEntity(collision, e) \cap WrittenBy(collision, OPERATOR_SOURCE)
<1>0. /\ entity[e] \in EntityRows /\ entity[e] # None /\ entity[e].origin = "seed"
      /\ e \in files.rows /\ build \in 1 .. Len(Builds)
  BY AccountOf DEF ResetEntity
<1>1. row \in AuditRows /\ row.table = "entity" /\ row.pk = e /\ row.field = "__reset__"
  <2>1. row \in AuditRows
    BY EditTyped
  <2>2. QED
    BY <2>1 DEF Row
<1>2. OneMore(audit, audit', row)
  BY <1>1, RecordAppends DEF ResetEntity, WatchInv
<1> HIDE DEF row
<1>3. /\ build' = build /\ alias' = Without(alias, A) /\ collision' = Without(collision, C)
      /\ entity'[e] = [entity[e] EXCEPT !.active = TRUE, !.parent_id = files.parent_id[e],
                                       !.subsector = files.subsector[e]]
      /\ \A x \in Entities \ {e} : entity'[x] = entity[x]
  BY DEF ResetEntity, Untouched, disk, WatchInv, WatchTyped
<1>4. /\ entity'[e] # None /\ entity'[e].origin = "seed" /\ entity'[e].active
      /\ entity'[e].parent_id = files.parent_id[e] /\ entity'[e].subsector = files.subsector[e]
  <2>1. files.parent_id[e] \in Entities \cup {None} /\ files.subsector[e] \in Subsectors
    BY <1>0, FilesAre DEF files
  <2>2. entity'[e] \in EntityRows
    BY <1>0, <1>3, <2>1 DEF EntityRows
  <2>3. entity'[e] # None
    BY <2>2, RowsTyped
  <2>4. QED
    BY <1>0, <1>3, <2>3 DEF EntityRows
<1>5. \A f \in Fields : entity'[e][f] \in SeedVals(build', f, e)
  <2>1. build \in {j \in 1 .. build : e \in Builds[j].rows}
    BY <1>0 DEF files
  <2>2. \A f : Builds[build][f][e] \in SeedVals(build, f, e)
    BY <2>1 DEF SeedVals
  <2>3. \A f \in Fields : entity'[e][f] = Builds[build][f][e]
    BY <1>4 DEF Fields, files
  <2>4. QED
    BY <1>3, <2>2, <2>3
<1>6. \A t \in Terms : /\ <<e, t>> \notin WrittenBy(alias', OPERATOR_SOURCE)
                       /\ <<e, t>> \notin WrittenBy(collision', OPERATOR_SOURCE)
  <2>1. ASSUME NEW rows, NEW t
        PROVE  <<e, t>> \notin WrittenBy(Without(rows, OfEntity(rows, e) \cap WrittenBy(rows, OPERATOR_SOURCE)),
                                       OPERATOR_SOURCE)
    <3>1. <<e, t>> \in WrittenBy(rows, OPERATOR_SOURCE) => <<e, t>> \in OfEntity(rows, e)
      BY DEF WrittenBy, OfEntity
    <3>2. QED
      BY <3>1, WithoutWritten
  <2>2. QED
    BY <1>3, <2>1
<1>7. OriginRight(audit', entity', e)
  <2>1. AddedBy(audit', e) <=> AddedBy(audit, e)
    BY <1>1, <1>2, AddedStays
  <2>2. OriginRight(audit, entity, e)
    BY AccountOf DEF Accounts
  <2>3. QED
    BY <1>0, <1>4, <2>1, <2>2 DEF OriginRight
<1>8. Accounts(audit', entity', alias', collision', build', e)
  <2>1. row.field \in Whole
    BY <1>1 DEF Whole
  <2>2. QED
    BY <1>1, <1>2, <1>4, <1>5, <1>6, <1>7, <2>1, WholeRow
<1>9. \A x : x # e => SameTerms(alias, alias', x) /\ SameTerms(collision, collision', x)
  <2>1. A \subseteq OfEntity(alias, e) /\ C \subseteq OfEntity(collision, e)
    OBVIOUS
  <2> HIDE DEF A, C
  <2>2. QED
    BY <1>3, <2>1, WithoutOfEntity
<1>10. QED
  BY <1>1, <1>2, <1>3, <1>8, <1>9, OthersAccounted

LEMMA RemoveEntityAccounts ==
    ASSUME WatchInv, AllAccounted, NEW e \in Entities, RemoveEntity(e)
    PROVE  AllAccounted'
<1> DEFINE row == Row("entity", e, "__remove__", NameOf[e], None)
<1>1. row \in AuditRows /\ row.table = "entity" /\ row.pk = e /\ row.field = "__remove__"
  <2>1. NameOf[e] \in Terms
    BY ResolverAssumption DEF ResolverAssumption
  <2>2. row \in AuditRows
    BY <2>1, EditTyped
  <2>3. QED
    BY <2>2 DEF Row
<1>2. OneMore(audit, audit', row)
  BY <1>1, RecordAppends DEF RemoveEntity, WatchInv
<1> HIDE DEF row
<1>3. /\ build' = build /\ alias' = Without(alias, OfEntity(alias, e))
      /\ collision' = Without(collision, OfEntity(collision, e))
      /\ entity'[e] = None
      /\ \A x \in Entities \ {e} : entity'[x] = entity[x]
  BY DEF RemoveEntity, Untouched, disk, WatchInv, WatchTyped
<1>4. \A t \in Terms : /\ <<e, t>> \notin WrittenBy(alias', OPERATOR_SOURCE)
                       /\ <<e, t>> \notin WrittenBy(collision', OPERATOR_SOURCE)
  <2>1. ASSUME NEW rows, NEW t
        PROVE  <<e, t>> \notin WrittenBy(Without(rows, OfEntity(rows, e)), OPERATOR_SOURCE)
    <3>1. <<e, t>> \in WrittenBy(rows, OPERATOR_SOURCE) => <<e, t>> \in OfEntity(rows, e)
      BY DEF WrittenBy, OfEntity
    <3>2. QED
      BY <3>1, WithoutWritten
  <2>2. QED
    BY <1>3, <2>1
<1>5. OriginRight(audit', entity', e)
  <2>1. /\ Len(audit) \in Nat /\ audit'[Len(audit) + 1] = row
        /\ Len(audit) + 1 \in RowsIn(audit', {"entity"}, e)
        /\ \A i \in RowsIn(audit', {"entity"}, e) : i \in RowsIn(audit, {"entity"}, e) \/ i = Len(audit) + 1
    BY <1>1, <1>2, OneMoreIs
  <2>2. ASSUME NEW i \in RowsIn(audit', {"entity"}, e), audit'[i].field = "__add__",
               \A j \in RowsIn(audit', {"entity"}, e) : j > i => audit'[j].field # "__remove__"
        PROVE  FALSE
    <3>1. i # Len(audit) + 1
      BY <1>1, <2>1, <2>2
    <3>2. i \in 1 .. Len(audit)
      BY <2>1, <3>1 DEF RowsIn
    <3>3. Len(audit) + 1 > i
      BY <2>1, <3>2
    <3>4. QED
      BY <1>1, <2>1, <2>2, <3>3
  <2>3. ~ AddedBy(audit', e)
    BY <2>2 DEF AddedBy
  <2>4. QED
    BY <1>3, <2>3 DEF OriginRight
<1>6. Accounts(audit', entity', alias', collision', build', e)
  <2>1. row.field \in Whole
    BY <1>1 DEF Whole
  <2>2. QED
    BY <1>1, <1>2, <1>3, <1>4, <1>5, <2>1, WholeRow
<1>7. \A x : x # e => SameTerms(alias, alias', x) /\ SameTerms(collision, collision', x)
  <2>1. QED
    BY <1>3, WithoutOfEntity
<1>8. QED
  BY <1>1, <1>2, <1>3, <1>6, <1>7, OthersAccounted

(* What an edit of one term does to a term table.                           *)
SetsTerm(rows, next, e, t, new) ==
    /\ \A x, u : <<x, u>> # <<e, t>> =>
          /\ <<x, u>> \in DOMAIN next <=> <<x, u>> \in DOMAIN rows
          /\ <<x, u>> \in DOMAIN rows => next[<<x, u>>] = rows[<<x, u>>]
    /\ \/ new = t /\ <<e, t>> \in DOMAIN next /\ next[<<e, t>>] = OPERATOR_SOURCE
       \/ new # t /\ <<e, t>> \notin DOMAIN next

LEMMA WithRowSets ==
    ASSUME NEW rows, NEW e, NEW t
    PROVE  SetsTerm(rows, WithRow(rows, <<e, t>>, OPERATOR_SOURCE), e, t, t)
<1>1. DOMAIN WithRow(rows, <<e, t>>, OPERATOR_SOURCE) = DOMAIN rows \cup {<<e, t>>}
  BY DEF WithRow
<1>2. WithRow(rows, <<e, t>>, OPERATOR_SOURCE)[<<e, t>>] = OPERATOR_SOURCE
  BY DEF WithRow
<1>3. \A p \in DOMAIN rows : p # <<e, t>> => WithRow(rows, <<e, t>>, OPERATOR_SOURCE)[p] = rows[p]
  BY DEF WithRow
<1>4. QED
  BY <1>1, <1>2, <1>3 DEF SetsTerm

LEMMA WithoutSets ==
    ASSUME NEW rows, NEW e, NEW t \in Terms
    PROVE  SetsTerm(rows, Without(rows, {<<e, t>>}), e, t, None)
<1>1. None # t
  BY ResolverAssumption DEF ResolverAssumption
<1>2. /\ DOMAIN Without(rows, {<<e, t>>}) = DOMAIN rows \ {<<e, t>>}
      /\ \A p \in DOMAIN rows \ {<<e, t>>} : Without(rows, {<<e, t>>})[p] = rows[p]
  BY WithoutIs
<1>3. QED
  BY <1>1, <1>2 DEF SetsTerm

LEMMA TermEditAccounts ==
    ASSUME WatchInv, AllAccounted, NEW e \in Entities, NEW t \in Terms, entity[e] # None,
           NEW row, OneMore(audit, audit', row), row.pk = e, row.field = t,
           entity' = entity, build' = build,
           \/ /\ row.table = "alias" /\ SetsTerm(alias, alias', e, t, row.new)
              /\ collision' = collision
           \/ /\ row.table = "collision" /\ SetsTerm(collision, collision', e, t, row.new)
              /\ alias' = alias
    PROVE  AllAccounted'
<1>0. Accounts(audit, entity, alias, collision, build, e) /\ row.table \in {"alias", "collision"}
  BY AccountOf
<1>1. /\ ColumnsRight(audit', entity, build, e) /\ OriginRight(audit', entity, e)
      /\ GoneRight(audit', entity, e)
      /\ row.table # "alias" => TermsRight(audit', "alias", alias, e)
      /\ row.table # "collision" => TermsRight(audit', "collision", collision, e)
  BY <1>0, TermRowBystander
<1>2. ASSUME NEW table \in {"alias", "collision"}, row.table = table, NEW rows, NEW next,
             SetsTerm(rows, next, e, t, row.new), TermsRight(audit, table, rows, e)
      PROVE  TermsRight(audit', table, next, e) /\ \A x : x # e => SameTerms(rows, next, x)
  <2>1. \A u \in Terms \ {t} :
               /\ <<e, u>> \in DOMAIN next <=> <<e, u>> \in DOMAIN rows
               /\ <<e, u>> \in DOMAIN rows => next[<<e, u>>] = rows[<<e, u>>]
    BY <1>2 DEF SetsTerm
  <2>2. \/ row.new = t /\ <<e, t>> \in DOMAIN next /\ next[<<e, t>>] = OPERATOR_SOURCE
        \/ row.new # t /\ <<e, t>> \notin DOMAIN next
    BY <1>2 DEF SetsTerm
  <2>3. TermsRight(audit', table, next, e)
    BY <1>2, <2>1, <2>2, TermEdited
  <2>4. ASSUME NEW x, x # e PROVE SameTerms(rows, next, x)
    <3>1. \A u : <<x, u>> # <<e, t>>
      BY <2>4
    <3>2. QED
      BY <1>2, <3>1 DEF SetsTerm, SameTerms
  <2>5. QED
    BY <2>3, <2>4
<1>3. CASE row.table = "alias"
  <2>1. SetsTerm(alias, alias', e, t, row.new) /\ collision' = collision
    BY <1>3
  <2>2. TermsRight(audit', "alias", alias', e) /\ \A x : x # e => SameTerms(alias, alias', x)
    BY <1>0, <1>2, <1>3, <2>1 DEF Accounts
  <2>3. TermsRight(audit', "collision", collision', e)
    BY <1>1, <1>3, <2>1
  <2>4. Accounts(audit', entity', alias', collision', build', e)
    BY <1>1, <2>2, <2>3 DEF Accounts
  <2>5. \A x : SameTerms(collision, collision', x)
    BY <2>1, SameIsSame
  <2>6. QED
    BY <2>2, <2>4, <2>5, OthersAccounted
<1>4. CASE row.table = "collision"
  <2>1. SetsTerm(collision, collision', e, t, row.new) /\ alias' = alias
    BY <1>4
  <2>2. TermsRight(audit', "collision", collision', e) /\ \A x : x # e => SameTerms(collision, collision', x)
    BY <1>0, <1>2, <1>4, <2>1 DEF Accounts
  <2>3. TermsRight(audit', "alias", alias', e)
    BY <1>1, <1>4, <2>1
  <2>4. Accounts(audit', entity', alias', collision', build', e)
    BY <1>1, <2>2, <2>3 DEF Accounts
  <2>5. \A x : SameTerms(alias, alias', x)
    BY <2>1, SameIsSame
  <2>6. QED
    BY <2>2, <2>4, <2>5, OthersAccounted
<1>5. QED
  BY <1>0, <1>3, <1>4

LEMMA EditTermsAccounts ==
    ASSUME WatchInv, AllAccounted, EditTerms
    PROVE  AllAccounted'
<1>1. PICK e \in Entities, t \in Typed :
        \/ AddAlias(e, t) \/ RemoveAlias(e, t)
        \/ AddCollisionTerm(e, t) \/ RemoveCollisionTerm(e, t)
  BY DEF EditTerms
<1>2. t \in Terms /\ WatchTyped
  BY QueryAssumption DEF QueryAssumption, WatchInv
<1>3. entity[e] # None
  <2>1. CASE entity[e] = None
    <3>1. <<e, t>> \notin WrittenBy(alias, OPERATOR_SOURCE) /\ <<e, t>> \notin WrittenBy(collision, OPERATOR_SOURCE)
      BY <1>2, <2>1, AccountOf, GoneIsClean
    <3>2. QED
      BY <1>1, <2>1, <3>1 DEF AddAlias, RemoveAlias, AddCollisionTerm, RemoveCollisionTerm
  <2>2. QED
    BY <2>1
<1>4. ASSUME NEW table \in {"alias", "collision"}, NEW old \in {t, None}, NEW new \in {t, None},
             Record(Row(table, e, t, old, new))
      PROVE  \E row : /\ OneMore(audit, audit', row) /\ row.pk = e /\ row.field = t
                      /\ row.table = table /\ row.new = new
  <2> DEFINE row == Row(table, e, t, old, new)
  <2>1. row \in AuditRows
    BY <1>2, EditTyped
  <2>2. row.pk = e /\ row.field = t /\ row.table = table /\ row.new = new
    BY DEF Row
  <2> HIDE DEF row
  <2>3. OneMore(audit, audit', row)
    <3>1. Record(row)
      BY <1>4 DEF row
    <3>2. QED
      BY <1>2, <2>1, <3>1, RecordAppends
  <2>4. QED
    BY <2>2, <2>3
<1>5. entity' = entity /\ build' = build
  BY <1>1 DEF AddAlias, RemoveAlias, AddCollisionTerm, RemoveCollisionTerm, Untouched, disk
<1>6. CASE AddAlias(e, t)
  <2>1. Record(Row("alias", e, t, None, t)) /\ collision' = collision
        /\ alias' = WithRow(alias, <<e, t>>, OPERATOR_SOURCE)
    BY <1>6 DEF AddAlias
  <2>2. PICK row : /\ OneMore(audit, audit', row) /\ row.pk = e /\ row.field = t
                   /\ row.table = "alias" /\ row.new = t
    BY <1>4, <2>1
  <2>3. SetsTerm(alias, alias', e, t, row.new)
    BY <2>1, <2>2, WithRowSets
  <2>4. QED
    BY <1>2, <1>3, <1>5, <2>1, <2>2, <2>3, TermEditAccounts
<1>7. CASE RemoveAlias(e, t)
  <2>1. Record(Row("alias", e, t, t, None)) /\ collision' = collision
        /\ alias' = Without(alias, {<<e, t>>})
    BY <1>7 DEF RemoveAlias
  <2>2. PICK row : /\ OneMore(audit, audit', row) /\ row.pk = e /\ row.field = t
                   /\ row.table = "alias" /\ row.new = None
    BY <1>4, <2>1
  <2>3. SetsTerm(alias, alias', e, t, row.new)
    BY <1>2, <2>1, <2>2, WithoutSets
  <2>4. QED
    BY <1>2, <1>3, <1>5, <2>1, <2>2, <2>3, TermEditAccounts
<1>8. CASE AddCollisionTerm(e, t)
  <2>1. Record(Row("collision", e, t, None, t)) /\ alias' = alias
        /\ collision' = WithRow(collision, <<e, t>>, OPERATOR_SOURCE)
    BY <1>8 DEF AddCollisionTerm
  <2>2. PICK row : /\ OneMore(audit, audit', row) /\ row.pk = e /\ row.field = t
                   /\ row.table = "collision" /\ row.new = t
    BY <1>4, <2>1
  <2>3. SetsTerm(collision, collision', e, t, row.new)
    BY <2>1, <2>2, WithRowSets
  <2>4. QED
    BY <1>2, <1>3, <1>5, <2>1, <2>2, <2>3, TermEditAccounts
<1>9. CASE RemoveCollisionTerm(e, t)
  <2>1. Record(Row("collision", e, t, t, None)) /\ alias' = alias
        /\ collision' = Without(collision, {<<e, t>>})
    BY <1>9 DEF RemoveCollisionTerm
  <2>2. PICK row : /\ OneMore(audit, audit', row) /\ row.pk = e /\ row.field = t
                   /\ row.table = "collision" /\ row.new = None
    BY <1>4, <2>1
  <2>3. SetsTerm(collision, collision', e, t, row.new)
    BY <1>2, <2>1, <2>2, WithoutSets
  <2>4. QED
    BY <1>2, <1>3, <1>5, <2>1, <2>2, <2>3, TermEditAccounts
<1>10. QED
  BY <1>1, <1>6, <1>7, <1>8, <1>9

(* A load takes over what a file owns and never what an operator wrote.     *)
LEMMA LoadedTermsRight ==
    ASSUME NEW rows, NEW own, NEW split, NEW a, NEW table, NEW e, TermsRight(a, table, rows, e)
    PROVE  TermsRight(a, table, LoadedRows(rows, own, split), e)
<1> DEFINE curated == {p \in own : p[1] \in files.rows}
           kept    == DOMAIN rows \ WrittenBy(rows, "watchlist")
           next    == LoadedRows(rows, own, split)
<1>1. DOMAIN next = kept \cup curated \cup split
  BY DEF LoadedRows
<1>2. \A p \in DOMAIN next :
        next[p] = IF p \in curated THEN "curated" ELSE IF p \in kept THEN rows[p] ELSE "watchlist"
  BY DEF LoadedRows
<1>3. \A p : p \in kept <=> p \in DOMAIN rows /\ rows[p] # "watchlist"
  BY DEF WrittenBy
<1> HIDE DEF curated, kept, next
<1>4. ASSUME NEW p, p \in DOMAIN rows, rows[p] # "watchlist"
      PROVE  p \in DOMAIN next /\ next[p] # "watchlist"
  BY <1>1, <1>2, <1>3, <1>4
<1>5. ASSUME NEW p, p \in WrittenBy(next, OPERATOR_SOURCE)
      PROVE  p \in WrittenBy(rows, OPERATOR_SOURCE)
  <2>1. p \in DOMAIN next /\ next[p] = "operator"
    BY <1>5 DEF WrittenBy, OPERATOR_SOURCE
  <2>2. p \notin curated /\ p \in kept /\ rows[p] = "operator"
    BY <1>2, <2>1
  <2>3. QED
    BY <1>3, <2>2 DEF WrittenBy, OPERATOR_SOURCE
<1>6. ASSUME NEW t \in Terms PROVE TermRight(a, table, next, e, t)
  <2> DEFINE i == EditIn(a, {table}, e, WholeIn(a, e), t)
  <2>1. /\ i # 0 /\ a[i].new = t => <<e, t>> \in DOMAIN rows /\ rows[<<e, t>>] # "watchlist"
        /\ <<e, t>> \in WrittenBy(rows, OPERATOR_SOURCE) => i # 0 /\ a[i].new = t
    BY DEF TermsRight, TermRight
  <2> HIDE DEF i
  <2>2. /\ i # 0 /\ a[i].new = t => <<e, t>> \in DOMAIN next /\ next[<<e, t>>] # "watchlist"
        /\ <<e, t>> \in WrittenBy(next, OPERATOR_SOURCE) => i # 0 /\ a[i].new = t
    BY <1>4, <1>5, <2>1
  <2>3. QED
    BY <2>2 DEF TermRight, i
<1>7. QED
  BY <1>6 DEF TermsRight, next

(* No row of what is gone comes after its removal.                          *)
LEMMA GoneHasNoEdit ==
    ASSUME NEW e \in Entities, Accounts(audit, entity, alias, collision, build, e), WatchTyped,
           entity[e] = None, NEW field
    PROVE  EditIn(audit, {"entity"}, e, WholeIn(audit, e), field) = 0
<1>1. Len(audit) \in Nat
  BY LenProperties DEF WatchTyped
<1> DEFINE i == EditIn(audit, {"entity"}, e, WholeIn(audit, e), field)
<1>2. i # 0 => i \in RowsIn(audit, {"entity"}, e) /\ i > WholeIn(audit, e)
  BY <1>1, TrailRange
<1>3. \A k \in RowsIn(audit, {"entity"}, e) : k <= WholeIn(audit, e) /\ k \in Nat
  BY DEF Accounts, GoneRight, RowsIn
<1>4. PICK w \in Nat : w = WholeIn(audit, e)
  <2>1. WholeIn(audit, e) \in 0 .. Len(audit)
    BY <1>1, TrailRange
  <2>2. QED
    BY <1>1, <2>1
<1> HIDE DEF i
<1>5. ASSUME i # 0 PROVE FALSE
  <2>1. i \in Nat /\ i > w /\ i <= w
    BY <1>2, <1>3, <1>4, <1>5
  <2>2. QED
    BY <2>1
<1>6. QED
  BY <1>5 DEF i

LEMMA LoadSeedsAccounts ==
    ASSUME WatchInv, AllAccounted, LoadSeeds
    PROVE  AllAccounted'
<1> SUFFICES ASSUME NEW e \in Entities
             PROVE  Accounts(audit', entity', alias', collision', build', e)
  BY DEF AllAccounted
<1>0. /\ audit' = audit /\ build' = build /\ WatchTyped /\ build \in 1 .. Len(Builds)
      /\ Accounts(audit, entity, alias, collision, build, e)
  BY AccountOf DEF LoadSeeds, disk, WatchInv
<1>1. entity'[e] = LoadedEntity(e)
  BY DEF LoadSeeds
<1>2. TermsRight(audit, "alias", alias', e) /\ TermsRight(audit, "collision", collision', e)
  BY <1>0, LoadedTermsRight DEF LoadSeeds, Accounts
<1>3. CASE entity[e] # None
  <2>1. /\ entity'[e] \in EntityRows /\ entity'[e].active = entity[e].active
        /\ entity'[e].origin = entity[e].origin
        /\ entity'[e].parent_id = entity[e].parent_id /\ entity'[e].subsector = entity[e].subsector
    BY <1>0, <1>1, <1>3, LoadKeeps
  <2>2. entity'[e] # None
    BY <2>1, RowsTyped
  <2>3. ASSUME NEW f \in Fields \cup {"active"} PROVE ColumnRight(audit, entity', build, e, f)
    <3>1. ColumnRight(audit, entity, build, e, f)
      BY <1>0, <1>3 DEF Accounts, ColumnsRight
    <3>2. entity'[e][f] = entity[e][f]
      BY <2>1 DEF Fields
    <3>3. QED
      BY <2>1, <3>1, <3>2 DEF ColumnRight
  <2>4. ColumnsRight(audit, entity', build, e)
    BY <2>3 DEF ColumnsRight
  <2>5. OriginRight(audit, entity', e) /\ GoneRight(audit, entity', e)
    BY <1>0, <1>3, <2>1, <2>2 DEF Accounts, OriginRight, GoneRight
  <2>6. QED
    BY <1>0, <1>2, <2>4, <2>5 DEF Accounts
<1>4. CASE entity[e] = None /\ entity'[e] = None
  <2>1. ColumnsRight(audit, entity', build, e)
    BY <1>4 DEF ColumnsRight
  <2>2. OriginRight(audit, entity', e) /\ GoneRight(audit, entity', e)
    BY <1>0, <1>4 DEF Accounts, OriginRight, GoneRight
  <2>3. QED
    BY <1>0, <1>2, <2>1, <2>2 DEF Accounts
<1>5. CASE entity[e] = None /\ entity'[e] # None
  <2>1. /\ e \in files.rows /\ entity'[e].active = TRUE /\ entity'[e].origin = "seed"
        /\ entity'[e].parent_id = files.parent_id[e] /\ entity'[e].subsector = files.subsector[e]
    BY <1>0, <1>1, <1>5, LoadKeeps
  <2>2. ASSUME NEW f \in Fields PROVE entity'[e][f] \in SeedVals(build, f, e)
    <3>1. build \in {j \in 1 .. build : e \in Builds[j].rows}
      BY <1>0, <2>1 DEF files
    <3>2. Builds[build][f][e] \in SeedVals(build, f, e)
      BY <3>1 DEF SeedVals
    <3>3. entity'[e][f] = Builds[build][f][e]
      BY <2>1 DEF Fields, files
    <3>4. QED
      BY <3>2, <3>3
  <2>3. ASSUME NEW f \in Fields \cup {"active"} PROVE ColumnRight(audit, entity', build, e, f)
    <3>1. EditIn(audit, {"entity"}, e, WholeIn(audit, e), f) = 0
      BY <1>0, <1>5, GoneHasNoEdit
    <3>2. CASE f = "active"
      BY <2>1, <3>1, <3>2 DEF ColumnRight
    <3>3. CASE f # "active"
      BY <2>2, <3>1, <3>3 DEF ColumnRight
    <3>4. QED
      BY <3>2, <3>3
  <2>4. ColumnsRight(audit, entity', build, e)
    BY <2>3 DEF ColumnsRight
  <2>5. OriginRight(audit, entity', e) /\ GoneRight(audit, entity', e)
    BY <1>0, <1>5, <2>1 DEF Accounts, OriginRight, GoneRight
  <2>6. QED
    BY <1>0, <1>2, <2>4, <2>5 DEF Accounts
<1>6. QED
  BY <1>3, <1>4, <1>5

(* A later build offers more seed values, never fewer.                      *)
LEMMA QuietAccounts ==
    ASSUME AllAccounted, UNCHANGED <<config, audit>>, build \in Nat, build' \in Nat, build <= build'
    PROVE  AllAccounted'
<1> SUFFICES ASSUME NEW e \in Entities
             PROVE  Accounts(audit, entity, alias, collision, build', e)
  BY DEF AllAccounted, config
<1>1. Accounts(audit, entity, alias, collision, build, e)
  BY DEF AllAccounted
<1>2. \A f : SeedVals(build, f, e) \subseteq SeedVals(build', f, e)
  <2>1. \A j \in 1 .. build : j \in 1 .. build'
    OBVIOUS
  <2>2. QED
    BY <2>1 DEF SeedVals
<1>3. ColumnsRight(audit, entity, build', e)
  <2>1. ASSUME entity[e] # None, NEW f \in Fields \cup {"active"}
        PROVE  ColumnRight(audit, entity, build', e, f)
    <3>1. ColumnRight(audit, entity, build, e, f)
      BY <1>1, <2>1 DEF Accounts, ColumnsRight
    <3>2. QED
      BY <1>2, <3>1 DEF ColumnRight
  <2>2. QED
    BY <2>1 DEF ColumnsRight
<1>4. QED
  BY <1>1, <1>3 DEF Accounts

LEMMA InitAccounts == Init => AllAccounted
<1> SUFFICES ASSUME Init, NEW e \in Entities
             PROVE  Accounts(audit, entity, alias, collision, build, e)
  BY DEF AllAccounted
<1>0. WatchTyped /\ build = 1 /\ build \in 1 .. Len(Builds)
  BY InitKeeps DEF Init, WatchInv, WatchTyped
<1>1. Len(audit) = 0 /\ Len(audit) \in Nat /\ \A tables : RowsIn(audit, tables, e) = {}
  BY EmptySeq DEF Init, RowsIn
<1>2. \A tables, field : EditIn(audit, tables, e, WholeIn(audit, e), field) = 0
  BY <1>1 DEF EditIn, LastOf
<1>3. ColumnsRight(audit, entity, build, e) /\ OriginRight(audit, entity, e)
  <2>1. CASE e \in files.rows
    <3>1. entity[e] = [origin |-> "seed", active |-> TRUE, ids |-> files.ids[e],
                       parent_id |-> files.parent_id[e], subsector |-> files.subsector[e]]
      BY <2>1 DEF Init
    <3>2. ASSUME NEW f \in Fields PROVE entity[e][f] \in SeedVals(build, f, e)
      <4>1. build \in {j \in 1 .. build : e \in Builds[j].rows}
        BY <1>0, <2>1 DEF files
      <4>2. Builds[build][f][e] \in SeedVals(build, f, e)
        BY <4>1 DEF SeedVals
      <4>3. entity[e][f] = Builds[build][f][e]
        BY <3>1 DEF Fields, files
      <4>4. QED
        BY <4>2, <4>3
    <3>3. ASSUME NEW f \in Fields \cup {"active"} PROVE ColumnRight(audit, entity, build, e, f)
      <4>0. EditIn(audit, {"entity"}, e, WholeIn(audit, e), f) = 0
        BY <1>2
      <4>1. CASE f = "active"
        <5>1. entity[e].active
          BY <3>1
        <5>2. QED
          BY <4>0, <4>1, <5>1 DEF ColumnRight
      <4>2. CASE f # "active"
        BY <3>2, <4>0, <4>2 DEF ColumnRight
      <4>3. QED
        BY <4>1, <4>2
    <3>4. OriginRight(audit, entity, e)
      BY <1>1, <3>1 DEF OriginRight, AddedBy
    <3>5. QED
      BY <3>3, <3>4 DEF ColumnsRight
  <2>2. CASE e \notin files.rows
    <3>1. entity[e] = None
      BY <2>2 DEF Init
    <3>2. QED
      BY <1>1, <3>1 DEF ColumnsRight, OriginRight, AddedBy
  <2>3. QED
    BY <2>1, <2>2
<1>4. GoneRight(audit, entity, e)
  BY <1>1 DEF GoneRight
<1>5. ASSUME NEW table, NEW own, NEW split PROVE TermsRight(audit, table, LoadedRows(<<>>, own, split), e)
  <2>1. DOMAIN <<>> = {}
    OBVIOUS
  <2>2. TermsRight(audit, table, <<>>, e)
    BY <1>2, <2>1 DEF TermsRight, TermRight, WrittenBy
  <2>3. QED
    BY <2>2, LoadedTermsRight
<1>6. TermsRight(audit, "alias", alias, e) /\ TermsRight(audit, "collision", collision, e)
  BY <1>5 DEF Init
<1>7. QED
  BY <1>3, <1>4, <1>6 DEF Accounts

LEMMA StepAccounts == WatchInv /\ AllAccounted /\ [Next]_vars => AllAccounted'
<1> SUFFICES ASSUME WatchInv, AllAccounted, [Next]_vars PROVE AllAccounted'
  OBVIOUS
<1>0. build \in Nat
  BY SeedAssumption, LenProperties DEF WatchInv, WatchTyped, SeedAssumption
<1>1. CASE EditEntity
  <2>1. PICK e \in Entities :
        \/ \E v \in Subsectors : AddEntity(e, v) \/ UpdateEntity(e, "subsector", v)
        \/ \E p \in Hints : UpdateEntity(e, "parent_id", p)
        \/ \E b \in BOOLEAN : SetEntityActive(e, b)
        \/ ResetEntity(e)
        \/ RemoveEntity(e)
    BY <1>1 DEF EditEntity
  <2>2. QED
    BY <2>1, AddEntityAccounts, UpdateEntityAccounts, SetEntityActiveAccounts, ResetEntityAccounts,
       RemoveEntityAccounts
<1>2. CASE EditTerms
  BY <1>2, EditTermsAccounts
<1>3. CASE LoadSeeds
  BY <1>3, LoadSeedsAccounts
<1>4. CASE Deploy
  <2>1. build' \in Nat /\ build <= build' /\ UNCHANGED <<config, audit>>
    BY <1>0, <1>4 DEF Deploy
  <2>2. QED
    BY <1>0, <2>1, QuietAccounts
<1>5. CASE Classify \/ (\E edgar \in Edgars : Enrich(edgar)) \/ UNCHANGED vars
  <2>1. build' = build /\ UNCHANGED <<config, audit>>
    BY <1>5 DEF Classify, StartRun, EndRun, ClassifyName, ClassifyKnown, Enrich, vars, disk
  <2>2. build <= build' /\ build' \in Nat
    BY <1>0, <2>1
  <2>3. QED
    BY <1>0, <2>1, <2>2, QuietAccounts
<1>6. QED
  BY <1>1, <1>2, <1>3, <1>4, <1>5 DEF Next

(* config_audit accounts for every edit of a column, for the origin and     *)
(* for the operator's terms of every entity, and the seed files for the     *)
(* other columns of a seeded one, through edits, resets, removals, later    *)
(* builds and loads that take no lock.  The columns an operator gives when  *)
(* an entity is added are in no row, and no part of this.                   *)
THEOREM TheTrailExplains == Spec => []AuditExplains
<1>1. Init => WatchInv /\ AllAccounted
  BY InitKeeps, InitAccounts
<1>2. WatchInv /\ AllAccounted /\ [Next]_vars => (WatchInv /\ AllAccounted)'
  BY StepKeeps, StepAccounts
<1>3. AllAccounted => AuditExplains
  BY AccountsExplain
<1>4. QED
  BY <1>1, <1>2, <1>3, PTL DEF Spec

(* No column of an entity that stays changes but by an edit or a reset that *)
(* writes its row of config_audit; so a load keeps what was given at an add.*)
THEOREM EditsAreRecorded == Spec => OnlyRecordedEdits
<1> DEFINE Recorded ==
        \A e \in Existing, field \in Fields \cup {"active"} :
          entity'[e] # None /\ entity'[e][field] # entity[e][field]
             => /\ Len(audit') = Len(audit) + 1 /\ audit'[Len(audit')].pk = e
                /\ audit'[Len(audit')].field \in {field, "__reset__"}
<1>1. WatchInv /\ [Next]_vars => [Recorded]_vars
  <2> SUFFICES ASSUME WatchInv, Next,
                      NEW e \in Existing, NEW field \in Fields \cup {"active"},
                      entity'[e] # None, entity'[e][field] # entity[e][field]
               PROVE  /\ Len(audit') = Len(audit) + 1 /\ audit'[Len(audit')].pk = e
                      /\ audit'[Len(audit')].field \in {field, "__reset__"}
    OBVIOUS
  <2>1. /\ e \in Entities /\ entity[e] \in EntityRows /\ entity[e] # None /\ WatchTyped
        /\ entity \in [Entities -> EntityRows \cup {None}] /\ audit \in Seq(AuditRows)
    BY DEF Existing, WatchInv, WatchTyped
  <2>2. ASSUME NEW row, Record(row)
        PROVE  Len(audit') = Len(audit) + 1 /\ audit'[Len(audit')] = row
    BY <2>1, <2>2, AppendProperties DEF Record
  <2>3. CASE EditEntity
    <3>1. PICK f \in Entities :
            \/ \E v \in Subsectors : AddEntity(f, v) \/ UpdateEntity(f, "subsector", v)
            \/ \E p \in Hints : UpdateEntity(f, "parent_id", p)
            \/ \E b \in BOOLEAN : SetEntityActive(f, b)
            \/ ResetEntity(f)
            \/ RemoveEntity(f)
      BY <2>3 DEF EditEntity
    <3>2. \E row : entity' = [entity EXCEPT ![f] = row]
      BY <3>1 DEF AddEntity, UpdateEntity, SetEntityActive, ResetEntity, RemoveEntity
    <3>3. f = e
      BY <2>1, <3>2
    <3>4. ~RemoveEntity(f) /\ \A v : ~AddEntity(f, v)
      BY <2>1, <3>3 DEF RemoveEntity, AddEntity
    <3>5. ASSUME ResetEntity(f)
          PROVE  \E row : Record(row) /\ row.pk = e /\ row.field = "__reset__"
      <4> DEFINE rec == Row("entity", e, "__reset__", None, "seed values")
      <4>1. Record(rec)
        BY <3>3, <3>5 DEF ResetEntity
      <4>2. rec.pk = e /\ rec.field = "__reset__"
        BY DEF Row
      <4> HIDE DEF rec
      <4>3. QED
        BY <4>1, <4>2
    <3>6. ASSUME NEW b \in BOOLEAN, SetEntityActive(f, b)
          PROVE  \E row : Record(row) /\ row.pk = e /\ row.field = field
      <4>1. entity'[e] = [entity[e] EXCEPT !.active = b]
        BY <2>1, <3>3, <3>6 DEF SetEntityActive
      <4>2. field = "active"
        BY <2>1, <4>1 DEF Fields, EntityRows
      <4>3. QED
        BY <3>3, <3>6, <4>2 DEF SetEntityActive, Row
    <3>7. ASSUME NEW g \in Fields, NEW v, UpdateEntity(f, g, v)
          PROVE  \E row : Record(row) /\ row.pk = e /\ row.field = field
      <4>1. entity'[e] = [entity[e] EXCEPT ![g] = v]
        BY <2>1, <3>3, <3>7 DEF UpdateEntity
      <4>2. field = g
        BY <2>1, <4>1 DEF Fields, EntityRows
      <4>3. QED
        BY <3>3, <3>7, <4>2 DEF UpdateEntity, Row
    <3>8. QED
      BY <2>2, <3>1, <3>4, <3>5, <3>6, <3>7 DEF Fields
  <2>4. CASE LoadSeeds
    <3>1. entity'[e] = LoadedEntity(e)
      BY <2>1, <2>4 DEF LoadSeeds
    <3>2. QED
      BY <2>1, <3>1, LoadKeeps DEF Fields
  <2>5. CASE EditTerms \/ Deploy \/ Classify \/ (\E edgar \in Edgars : Enrich(edgar))
    BY <2>5 DEF EditTerms, AddAlias, RemoveAlias, AddCollisionTerm, RemoveCollisionTerm, Deploy,
                Classify, StartRun, EndRun, ClassifyName, ClassifyKnown, Enrich, config
  <2>6. QED
    BY <2>3, <2>4, <2>5 DEF Next
<1>2. QED
  BY <1>1, InitKeeps, StepKeeps, PTL DEF Spec, OnlyRecordedEdits
=============================================================================
