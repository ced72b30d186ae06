------------------------------ MODULE TierProofs ------------------------------
(***************************************************************************)
(* What hangs on an incident card's tier, for every set of cards, plays    *)
(* and facts: the trail replays to the stored tier, no early warning is    *)
(* cleared for outreach and no opener of one is on show without a recorded *)
(* reason, a snapshot explains itself and stays, and no count the page     *)
(* gets is one that was never true.                                        *)
(***************************************************************************)
EXTENDS LicensePlays, Aggregates, FiniteSetTheorems, TLAPS

USE TierAssumption, EditsAssumption DEF TierAssumption, EditsAssumption

LEMMA AppendFacts ==
    ASSUME NEW s \in Seq(Edits), NEW e \in Edits
    PROVE  /\ Append(s, e) \in Seq(Edits)
           /\ Len(Append(s, e)) = Len(s) + 1
           /\ DOMAIN Append(s, e) = DOMAIN s \cup {Len(s) + 1}
           /\ \A i \in DOMAIN s : Append(s, e)[i] = s[i] /\ i < Len(s) + 1
           /\ Append(s, e)[Len(s) + 1] = e
           /\ \A i \in DOMAIN s : s[i] \in Edits /\ i \in Nat
           /\ Len(s) \in Nat
  OBVIOUS

LEMMA EditTyped ==
    ASSUME TypeOK, NEW c \in Cards, NEW t \in Tiers, NEW reason \in {"given", "none"},
           tier[c] \in Tiers
    PROVE  Edit(c, t, reason) \in Edits
  BY DEF Edit, Edits, TypeOK, CustomerFacing

(* Cards are minted and re-tiered in any order: types are kept.             *)
THEOREM TypeCorrect == Spec => []TypeOK
<1>1. InitTiers => TypeOK
  BY DEF InitTiers, TypeOK
<1>2. TypeOK /\ [NextTiers]_tiers => TypeOK'
  <2> SUFFICES ASSUME TypeOK, [NextTiers]_tiers PROVE TypeOK'
    OBVIOUS
  <2>1. ASSUME NEW c \in Cards, MintTiered(c) PROVE TypeOK'
    BY <2>1 DEF MintTiered, TypeOK, CustomerFacing
  <2>2. ASSUME NEW c \in Cards, NEW t \in Tiers, NEW reason \in {"given", "none"},
               Retier(c, t, reason)
        PROVE  TypeOK'
    <3>1. Edit(c, t, reason) \in Edits /\ edits \in Seq(Edits)
      BY <2>2, EditTyped DEF Retier, TypeOK
    <3>2. edits' \in Seq(Edits) /\ Len(edits') = Len(edits) + 1 /\ Len(edits) \in Nat
      BY <2>2, <3>1, AppendFacts DEF Retier
    <3>3. QED
      BY <2>2, <3>2 DEF Retier, TypeOK, CustomerFacing
  <2>3. CASE UNCHANGED tiers
    BY <2>3 DEF tiers, TypeOK
  <2>4. QED
    BY <2>1, <2>2, <2>3 DEF NextTiers
<1>3. QED
  BY <1>1, <1>2, PTL DEF Spec

TierInv == TrailReplays /\ CfaFollowsTier /\ OutreachHasReason

LEMMA MintKeeps ==
    ASSUME TypeOK, TierInv, NEW c \in Cards, MintTiered(c)
    PROVE  TierInv'
  <1> USE DEF TypeOK, TierInv, MintTiered, Of
  <1>1. \A i \in DOMAIN edits : edits[i].card # c
    BY DEF TrailReplays
  <1>2. TrailReplays'
    BY <1>1 DEF TrailReplays
  <1>3. CfaFollowsTier'
    BY DEF CfaFollowsTier
  <1>4. OutreachHasReason'
    BY DEF OutreachHasReason, CustomerFacing
  <1>5. QED
    BY <1>2, <1>3, <1>4

LEMMA RetierKeeps ==
    ASSUME TypeOK, TierInv, NEW c \in Cards, NEW t \in Tiers,
           NEW reason \in {"given", "none"}, Retier(c, t, reason)
    PROVE  TierInv'
  <1> SUFFICES ASSUME NEW n, n = Len(edits) + 1 PROVE TierInv'
    OBVIOUS
  <1>1. /\ DOMAIN edits' = DOMAIN edits \cup {n}
        /\ \A i \in DOMAIN edits : edits'[i] = edits[i] /\ i < n /\ i \in Nat
        /\ n \in Nat /\ n \notin DOMAIN edits
        /\ edits'[n].card = c /\ edits'[n].old = tier[c] /\ edits'[n].new = t
        /\ edits'[n].oldCfa = allowed[c] /\ edits'[n].newCfa = CustomerFacing(t)
        /\ edits'[n].reason = reason
        /\ tier' = [tier EXCEPT ![c] = t]
        /\ allowed' = [allowed EXCEPT ![c] = CustomerFacing(t)]
        /\ tier[c] \in Tiers
    <2>1. edits \in Seq(Edits) /\ Edit(c, t, reason) \in Edits
      BY EditTyped DEF Retier, TypeOK
    <2>2. edits' = Append(edits, Edit(c, t, reason))
      BY DEF Retier
    <2>3. \A i \in DOMAIN edits : edits'[i] = edits[i] /\ i < n /\ i \in Nat
      BY <2>1, <2>2, AppendFacts
    <2>4. edits'[n] = Edit(c, t, reason)
      BY <2>1, <2>2, AppendFacts
    <2>5. DOMAIN edits' = DOMAIN edits \cup {n} /\ n \in Nat /\ n \notin DOMAIN edits
      BY <2>1, <2>2, AppendFacts
    <2>6. QED
      BY <2>3, <2>4, <2>5 DEF Retier, Edit, TypeOK
  <1> USE DEF TypeOK, TierInv, Of
  <1>2. CfaFollowsTier'
    BY <1>1 DEF CfaFollowsTier
  <1>3. TrailReplays'
    <2> SUFFICES ASSUME NEW x \in Cards
                 PROVE  LET mine == {i \in DOMAIN edits' : edits'[i].card = x} IN
                        /\ mine = {} => tier'[x] \in {Absent, MintTier[x]}
                        /\ mine # {} => tier'[x] \in Tiers
                        /\ \A i \in mine :
                             /\ (\A j \in mine : j <= i) => edits'[i].new = tier'[x]
                             /\ (\A j \in mine : i <= j) => edits'[i].old = MintTier[x]
                             /\ \A j \in mine :
                                  i < j /\ (\A k \in mine : k <= i \/ j <= k)
                                  => edits'[j].old = edits'[i].new
      BY DEF TrailReplays
    <2> DEFINE mine == {i \in DOMAIN edits : edits[i].card = x}
               mine1 == {i \in DOMAIN edits' : edits'[i].card = x}
    <2>1. /\ mine = {} => tier[x] \in {Absent, MintTier[x]}
          /\ mine # {} => tier[x] \in Tiers
          /\ \A i \in mine :
               /\ (\A j \in mine : j <= i) => edits[i].new = tier[x]
               /\ (\A j \in mine : i <= j) => edits[i].old = MintTier[x]
               /\ \A j \in mine : i < j /\ (\A k \in mine : k <= i \/ j <= k)
                                   => edits[j].old = edits[i].new
      BY DEF TrailReplays
    <2>2. CASE x # c
      <3>1. mine1 = mine /\ tier'[x] = tier[x]
        BY <1>1, <2>2
      <3>2. \A i \in mine : edits'[i] = edits[i]
        BY <1>1
      <3>3. QED
        BY <2>1, <3>1, <3>2
    <2>3. CASE x = c
      <3>1. mine1 = mine \cup {n} /\ tier'[x] = t
        BY <1>1, <2>3
      <3>2. \A i \in mine : edits'[i] = edits[i] /\ i < n /\ i \in Nat
        BY <1>1
      <3> HIDE DEF mine, mine1
      <3>3. ASSUME NEW i \in mine1, \A j \in mine1 : j <= i
            PROVE  edits'[i].new = t
        BY <1>1, <3>1, <3>2, <3>3
      <3>4. ASSUME NEW i \in mine1, \A j \in mine1 : i <= j
            PROVE  edits'[i].old = MintTier[x]
        <4>1. CASE mine = {}
          BY <1>1, <2>1, <2>3, <3>1, <4>1
        <4>2. CASE mine # {}
          BY <1>1, <2>1, <3>1, <3>2, <3>4, <4>2
        <4>3. QED
          BY <4>1, <4>2
      <3>5. ASSUME NEW i \in mine1, NEW j \in mine1, i < j,
                   \A k \in mine1 : k <= i \/ j <= k
            PROVE  edits'[j].old = edits'[i].new
        <4>1. i \in mine
          BY <1>1, <3>1, <3>2, <3>5
        <4>2. CASE j = n
          <5>1. \A k \in mine : k <= i
            BY <1>1, <3>1, <3>2, <3>5, <4>2
          <5>2. QED
            BY <1>1, <2>1, <2>3, <3>2, <4>1, <4>2, <5>1
        <4>3. CASE j \in mine
          BY <2>1, <3>1, <3>2, <3>5, <4>1, <4>3
        <4>4. QED
          BY <3>1, <4>2, <4>3
      <3>6. QED
        BY <3>1, <3>3, <3>4, <3>5 DEF mine1
    <2>4. QED
      BY <2>2, <2>3
  <1>4. OutreachHasReason'
    <2> SUFFICES ASSUME NEW x \in Cards, MintTier[x] = "unconfirmed", allowed'[x] = 1
                 PROVE  \E i \in DOMAIN edits' :
                          /\ edits'[i].card = x
                          /\ edits'[i].oldCfa = 0 /\ edits'[i].newCfa = 1
                          /\ edits'[i].reason = "given"
                          /\ \A j \in DOMAIN edits' :
                               j > i /\ edits'[j].card = x => edits'[j].newCfa = 1
      BY DEF OutreachHasReason
    <2>1. CASE x = c /\ allowed[c] = 0
      <3>1. reason = "given" /\ CustomerFacing(t) = 1
        BY <1>1, <2>1 DEF Retier, MayRetier
      <3>2. \A j \in DOMAIN edits' : ~(j > n)
        BY <1>1
      <3>3. QED
        BY <1>1, <2>1, <3>1, <3>2
    <2>2. CASE x # c \/ allowed[c] = 1
      <3>1. allowed[x] = 1
        BY <1>1, <2>2
      <3>2. PICK i \in DOMAIN edits :
               /\ edits[i].card = x /\ edits[i].oldCfa = 0 /\ edits[i].newCfa = 1
               /\ edits[i].reason = "given"
               /\ \A j \in DOMAIN edits : j > i /\ edits[j].card = x
                                              => edits[j].newCfa = 1
        BY <3>1 DEF OutreachHasReason
      <3>3. edits'[n].card = x => edits'[n].newCfa = 1
        BY <1>1
      <3>4. QED
        BY <1>1, <3>2, <3>3
    <2>3. QED
      BY <2>1, <2>2 DEF TypeOK
  <1>5. QED
    BY <1>2, <1>3, <1>4

(* R7.12 and R8.7 for every history of mints and re-tiers: what a card      *)
(* shows is what its trail says, and an early warning becomes a basis for   *)
(* outreach with a recorded reason only.                                    *)
THEOREM TrailTrue ==
    Spec => [](TrailReplays /\ CfaFollowsTier /\ OutreachHasReason)
<1>1. InitTiers => TierInv
  BY DEF InitTiers, TierInv, TrailReplays, CfaFollowsTier, OutreachHasReason, Of
<1>2. TypeOK /\ TierInv /\ [NextTiers]_tiers => TierInv'
  <2> SUFFICES ASSUME TypeOK, TierInv, [NextTiers]_tiers PROVE TierInv'
    OBVIOUS
  <2>1. CASE UNCHANGED tiers
    BY <2>1 DEF tiers, TierInv, TrailReplays, CfaFollowsTier, OutreachHasReason, Of
  <2>2. QED
    BY <2>1, MintKeeps, RetierKeeps DEF NextTiers
<1>3. QED
  BY <1>1, <1>2, TypeCorrect, PTL DEF Spec, TierInv

-----------------------------------------------------------------------------
(* Mint and OperatorRetiers are IncidentTier's steps, all else stutters.    *)
LEMMA TierSteps == ASSUME [Next]_vars PROVE [NextTiers]_tiers
<1>1. ASSUME NEW c \in Cards, Mint(c) PROVE [NextTiers]_tiers
  BY <1>1 DEF Mint, NextTiers
<1>2. ASSUME NEW c \in Cards, OperatorRetiers(c) PROVE [NextTiers]_tiers
  BY <1>2 DEF OperatorRetiers, NextTiers
<1>3. ASSUME NEW cells, NEW rows, LoadSeeds(cells, rows) PROVE UNCHANGED tiers
  BY <1>3 DEF LoadSeeds
<1>4. ASSUME NEW f \in Facts, AddFact(f) \/ UpdateFact(f) PROVE UNCHANGED tiers
  BY <1>4 DEF AddFact, UpdateFact
<1>5. ASSUME NEW c \in Cards, MoveEntity(c) PROVE UNCHANGED tiers
  BY <1>5 DEF MoveEntity
<1>6. CASE Rebuild \/ Generate \/ GenerationFails
  BY <1>6 DEF Rebuild, Generate, ReadCandidates, ReadFacts, InsertSnapshots, GenerationFails
<1>7. CASE UNCHANGED vars
  BY <1>7 DEF vars
<1>8. QED
  BY <1>1, <1>2, <1>3, <1>4, <1>5, <1>6, <1>7 DEF Next

(* The store of the plays runs the tier editor as IncidentTier describes it.*)
THEOREM ImplementsIncidentTier == PlaysSpec => Spec
<1>1. Init => InitTiers
  BY DEF Init
<1>2. [Next]_vars => [NextTiers]_tiers
  BY TierSteps
<1>3. QED
  BY <1>1, <1>2, PTL DEF PlaysSpec, Spec

-----------------------------------------------------------------------------
(* Only a generation's commit touches snapshots, and it only adds.          *)
LEMMA SnapshotSteps ==
    ASSUME [Next]_vars
    PROVE  \/ UNCHANGED snapshots
           \/ /\ InsertSnapshots
              /\ DOMAIN snapshots' = DOMAIN snapshots \cup Missing
              /\ \A k \in DOMAIN snapshots : k \notin Missing
              /\ \A k \in DOMAIN snapshots' :
                    \/ k \in DOMAIN snapshots /\ snapshots'[k] = snapshots[k]
                    \/ k \in Missing /\ snapshots'[k] = Snapshot(k)
<1> USE DEF plays
<1>1. CASE InsertSnapshots
  BY <1>1 DEF InsertSnapshots, Missing
<1>2. CASE \E c \in Cards : Mint(c) \/ OperatorRetiers(c) \/ MoveEntity(c)
  BY <1>2 DEF Mint, OperatorRetiers, MoveEntity
<1>3. CASE \E f \in Facts : AddFact(f) \/ UpdateFact(f)
  BY <1>3 DEF AddFact, UpdateFact
<1>4. CASE \E cells \in SUBSET (Matrix \ Base), rows \in SUBSET Plays : LoadSeeds(cells, rows)
  BY <1>4 DEF LoadSeeds
<1>5. CASE Rebuild \/ ReadCandidates \/ ReadFacts \/ GenerationFails
  BY <1>5 DEF Rebuild, ReadCandidates, ReadFacts, GenerationFails
<1>6. CASE UNCHANGED vars
  BY <1>6 DEF vars
<1>7. QED
  BY <1>1, <1>2, <1>3, <1>4, <1>5, <1>6 DEF Next, Generate

(* R7.6: whatever runs, a snapshot stays as it was written.                 *)
THEOREM SnapshotsStay == PlaysSpec => SnapshotsPinned
<1>1. [Next]_vars =>
        [\A k \in DOMAIN snapshots :
           k \in DOMAIN snapshots' /\ snapshots'[k] = snapshots[k]]_vars
  BY SnapshotSteps
<1>2. QED
  BY <1>1, PTL DEF PlaysSpec, SnapshotsPinned

(* The store of facts is one row or none for each id.                       *)
FactsTyped ==
    /\ origin \in [Facts -> {"transform", "operator", "absent"}]
    /\ words \in [Facts -> {"matrix", "operator", "none"}]

(* Only a rebuild and the operator's two edits touch the facts.             *)
LEMMA FactSteps ==
    ASSUME [Next]_vars
    PROVE  \/ UNCHANGED <<origin, words>>
           \/ Rebuild
           \/ \E f \in Facts : AddFact(f) \/ UpdateFact(f)
<1> USE DEF license
<1>1. CASE \E c \in Cards : Mint(c) \/ OperatorRetiers(c) \/ MoveEntity(c)
  BY <1>1 DEF Mint, OperatorRetiers, MoveEntity
<1>2. CASE \E cells \in SUBSET (Matrix \ Base), rows \in SUBSET Plays : LoadSeeds(cells, rows)
  BY <1>2 DEF LoadSeeds
<1>3. CASE Generate \/ GenerationFails
  BY <1>3 DEF Generate, ReadCandidates, ReadFacts, InsertSnapshots, GenerationFails
<1>4. CASE UNCHANGED vars
  BY <1>4 DEF vars
<1>5. QED
  BY <1>1, <1>2, <1>3, <1>4 DEF Next

LEMMA FactsAreTyped == PlaysSpec => []FactsTyped
<1>1. Init => FactsTyped
  BY DEF Init, FactsTyped
<1>2. FactsTyped /\ [Next]_vars => FactsTyped'
  <2> SUFFICES ASSUME FactsTyped, [Next]_vars PROVE FactsTyped'
    OBVIOUS
  <2> USE DEF FactsTyped
  <2>1. CASE Rebuild
    <3>1. origin' \in [Facts -> {"transform", "operator", "absent"}]
      BY <2>1 DEF Rebuild
    <3>2. \A f \in Facts : WordsAfter(f) \in {"matrix", "operator", "none"}
      BY DEF WordsAfter
    <3>3. QED
      BY <2>1, <3>1, <3>2 DEF Rebuild
  <2>2. ASSUME NEW g \in Facts, AddFact(g) PROVE FactsTyped'
    BY <2>2 DEF AddFact
  <2>3. ASSUME NEW g \in Facts, UpdateFact(g) PROVE FactsTyped'
    BY <2>3 DEF UpdateFact
  <2>4. QED
    BY <2>1, <2>2, <2>3, FactSteps
<1>3. QED
  BY <1>1, <1>2, PTL DEF PlaysSpec

(* What a card cites, and what the operator wrote there, outlives every     *)
(* rebuild: Dropped spares the cited, the upsert spares the editable.       *)
THEOREM CitedFactsStay == PlaysSpec => CitedFactsStand
<1> DEFINE Stands ==
      \A f \in Cited \cap Stored :
        f \in Stored' /\ (words[f] = "operator" => words'[f] = "operator")
<1>1. FactsTyped /\ [Next]_vars => Stands
  <2> SUFFICES ASSUME FactsTyped, [Next]_vars, NEW f \in Cited \cap Stored
               PROVE  f \in Stored' /\ (words[f] = "operator" => words'[f] = "operator")
    OBVIOUS
  <2> USE DEF Stored
  <2>1. CASE UNCHANGED <<origin, words>>
    BY <2>1
  <2>2. CASE Rebuild
    <3>1. f \notin Dropped /\ f \in Facts
      BY DEF Dropped
    <3>2. QED
      BY <2>2, <3>1 DEF Rebuild, WordsAfter
  <2>3. ASSUME NEW g \in Facts, AddFact(g)
        PROVE  f \in Stored' /\ (words[f] = "operator" => words'[f] = "operator")
    <3>1. f # g
      BY <2>3 DEF AddFact
    <3>2. QED
      BY <2>3, <3>1 DEF AddFact, FactsTyped
  <2>4. ASSUME NEW g \in Facts, UpdateFact(g)
        PROVE  f \in Stored' /\ (words[f] = "operator" => words'[f] = "operator")
    BY <2>4 DEF UpdateFact, FactsTyped
  <2>5. QED
    BY <2>1, <2>2, <2>3, <2>4, FactSteps
<1>2. FactsTyped /\ [Next]_vars => [Stands]_vars
  BY <1>1
<1>3. QED
  BY <1>2, FactsAreTyped, PTL DEF PlaysSpec, CitedFactsStand

(* The trail only grows.                                                    *)
LEMMA TrailGrows ==
    ASSUME TypeOK, TypeOK', [Next]_vars
    PROVE  /\ Len(edits) \in Nat /\ Len(edits') \in Nat /\ Len(edits) <= Len(edits')
           /\ \A i \in 1 .. Len(edits) : edits'[i] = edits[i]
<1>1. CASE UNCHANGED edits
  BY <1>1 DEF TypeOK
<1>2. ASSUME NEW c \in Cards, NEW t \in Tiers, NEW reason \in {"given", "none"},
             Retier(c, t, reason)
      PROVE  /\ Len(edits') = Len(edits) + 1
             /\ \A i \in 1 .. Len(edits) : edits'[i] = edits[i]
  <2>1. Edit(c, t, reason) \in Edits /\ edits \in Seq(Edits)
    BY <1>2, EditTyped DEF Retier, TypeOK
  <2>2. edits' = Append(edits, Edit(c, t, reason))
    BY <1>2 DEF Retier
  <2>3. QED
    BY <2>1, <2>2
<1>3. [NextTiers]_tiers
  BY TierSteps
<1>4. ASSUME NEW c \in Cards, MintTiered(c) PROVE UNCHANGED edits
  BY <1>4 DEF MintTiered
<1>5. QED
  BY <1>1, <1>2, <1>3, <1>4 DEF NextTiers, tiers, TypeOK

(* R7.12 through frozen text and live tier.  The snapshot is written while  *)
(* OutreachHasReason holds, so the trail has the reason by then, and keeps  *)
(* it; that the card is cleared today is CfaFollowsTier.                    *)
THEOREM OpenersHaveReasons == PlaysSpec => []OpenerHasReason
<1>1. Init => OpenerWasCleared
  BY DEF Init, OpenerWasCleared
<1>2. TypeOK /\ TypeOK' /\ OutreachHasReason /\ OpenerWasCleared /\ [Next]_vars
      => OpenerWasCleared'
  <2> SUFFICES ASSUME TypeOK, TypeOK', OutreachHasReason, OpenerWasCleared, [Next]_vars,
                      NEW k \in DOMAIN snapshots'
               PROVE  /\ k[1] \in Cards /\ snapshots'[k].at \in 0 .. Len(edits')
                      /\ MintTier[k[1]] = "unconfirmed" /\ snapshots'[k].opener = "asked" =>
                           \E i \in 1 .. snapshots'[k].at :
                              /\ edits'[i].card = k[1] /\ edits'[i].newCfa = 1
                              /\ edits'[i].reason = "given"
    BY DEF OpenerWasCleared, Of
  <2>1. CASE k \in DOMAIN snapshots /\ snapshots'[k] = snapshots[k]
    <3>1. /\ Len(edits) \in Nat /\ Len(edits') \in Nat /\ Len(edits) <= Len(edits')
          /\ \A i \in 1 .. Len(edits) : edits'[i] = edits[i]
      BY TrailGrows
    <3>2. k[1] \in Cards /\ snapshots[k].at \in 0 .. Len(edits)
      BY <2>1 DEF OpenerWasCleared
    <3>3. ASSUME MintTier[k[1]] = "unconfirmed", snapshots'[k].opener = "asked"
          PROVE  \E i \in 1 .. snapshots'[k].at :
                    /\ edits'[i].card = k[1] /\ edits'[i].newCfa = 1
                    /\ edits'[i].reason = "given"
      <4>1. PICK i \in 1 .. snapshots[k].at :
                    /\ edits[i].card = k[1] /\ edits[i].newCfa = 1
                    /\ edits[i].reason = "given"
        BY <2>1, <3>3 DEF OpenerWasCleared, Of
      <4>2. i \in 1 .. Len(edits)
        BY <3>1, <3>2, <4>1
      <4>3. QED
        BY <2>1, <3>1, <4>1, <4>2
    <3>4. QED
      BY <2>1, <3>1, <3>2, <3>3
  <2>2. CASE InsertSnapshots /\ k \in Missing /\ snapshots'[k] = Snapshot(k)
    <3>1. /\ k[1] \in Cards /\ edits' = edits /\ Len(edits) \in Nat
          /\ snapshots'[k].at = Len(edits)
          /\ snapshots'[k].opener = "asked" => allowed[k[1]] = 1
      BY <2>2 DEF InsertSnapshots, Missing, Snapshot, TypeOK, tiers
    <3>2. ASSUME MintTier[k[1]] = "unconfirmed", snapshots'[k].opener = "asked"
          PROVE  \E i \in DOMAIN edits :
                    /\ edits[i].card = k[1] /\ edits[i].newCfa = 1
                    /\ edits[i].reason = "given"
      BY <3>1, <3>2 DEF OutreachHasReason, Of
    <3>3. DOMAIN edits = 1 .. Len(edits)
      BY DEF TypeOK
    <3>4. QED
      BY <3>1, <3>2, <3>3
  <2>3. \/ UNCHANGED snapshots
        \/ /\ InsertSnapshots
           /\ \/ k \in DOMAIN snapshots /\ snapshots'[k] = snapshots[k]
              \/ k \in Missing /\ snapshots'[k] = Snapshot(k)
    BY SnapshotSteps
  <2>4. QED
    BY <2>1, <2>2, <2>3
<1>3. TypeOK /\ CfaFollowsTier /\ OpenerWasCleared => OpenerHasReason
  BY TierAssumption
     DEF TierAssumption, Tiers, CfaFollowsTier, CustomerFacing, OpenerWasCleared,
         OpenerHasReason, ShowsOpener
<1>4. QED
  BY <1>1, <1>2, <1>3, ImplementsIncidentTier, TypeCorrect, TrailTrue, PTL DEF PlaysSpec
-----------------------------------------------------------------------------
(* Both stores that hold the tier columns keep the trail and its gate.      *)
THEOREM PlaysKeepTrail == PlaysSpec => [](TrailReplays /\ OutreachHasReason)
  BY ImplementsIncidentTier, TrailTrue, PTL

(* Why a play comes with its commercial facts: candidates are born of a     *)
(* rebuild, which stores them first; nothing drops a fact the matrix still  *)
(* yields; and a generation reads the candidates before the facts.          *)
FactsComeFirst ==
    /\ Base \subseteq yields
    /\ candidates # {} => Base \subseteq Stored
    /\ read.plays # {} => Base \subseteq Stored
    /\ pc = "insert" /\ read.plays # {} => Base \subseteq read.facts
    /\ pc \in {"idle", "facts", "insert"}
    /\ mapped \subseteq Plays /\ candidates \subseteq Plays
    /\ read \in [plays : SUBSET Plays, facts : SUBSET Facts]

(* "License facts FIRST, or play snapshots come out empty": whatever loads, *)
(* rebuilds, edits and failures come between the reads, no play is pinned   *)
(* without every commercial fact of its family.                             *)
THEOREM SnapshotsExplain == PlaysSpec => []SnapshotExplains
<1>1. Init => FactsComeFirst /\ SnapshotExplains
  BY PlaysAssumption
     DEF PlaysAssumption, Init, FactsComeFirst, SnapshotExplains, Nothing
<1>2. FactsComeFirst /\ SnapshotExplains /\ FactsTyped /\ [Next]_vars
      => (FactsComeFirst /\ SnapshotExplains)'
  <2> SUFFICES ASSUME FactsComeFirst, SnapshotExplains, FactsTyped, [Next]_vars
               PROVE  FactsComeFirst' /\ SnapshotExplains'
    OBVIOUS
  <2> USE PlaysAssumption DEF PlaysAssumption, FactsComeFirst, FactsTyped, Stored, plays, license
  <2>1. SnapshotExplains'
    <3> SUFFICES ASSUME NEW k \in DOMAIN snapshots'
                 PROVE  FactsOf[k[2]] \cap Base \subseteq snapshots'[k].facts
      BY DEF SnapshotExplains
    <3>1. CASE k \in DOMAIN snapshots /\ snapshots'[k] = snapshots[k]
      BY <3>1 DEF SnapshotExplains
    <3>2. CASE InsertSnapshots /\ k \in Missing /\ snapshots'[k] = Snapshot(k)
      BY <3>2 DEF InsertSnapshots, Missing, Snapshot
    <3>3. QED
      BY <3>1, <3>2, SnapshotSteps
  <2>2. FactsComeFirst'
    <3>1. CASE \E c \in Cards : Mint(c) \/ OperatorRetiers(c) \/ MoveEntity(c)
      BY <3>1 DEF Mint, OperatorRetiers, MoveEntity
    <3>2. CASE \E cells \in SUBSET (Matrix \ Base), rows \in SUBSET Plays : LoadSeeds(cells, rows)
      BY <3>2 DEF LoadSeeds
    <3>3. CASE Rebuild
      <4>1. \A f \in Base : origin'[f] # "absent"
        BY <3>3 DEF Rebuild
      <4>2. QED
        BY <3>3, <4>1 DEF Rebuild
    <3>4. ASSUME NEW f \in Facts, AddFact(f) \/ UpdateFact(f) PROVE FactsComeFirst'
      BY <3>4 DEF AddFact, UpdateFact
    <3>5. CASE Generate \/ GenerationFails
      <4>1. CASE ReadCandidates
        BY <4>1 DEF ReadCandidates, Select
      <4>2. CASE ReadFacts
        BY <4>2 DEF ReadFacts, Select
      <4>3. CASE InsertSnapshots \/ GenerationFails
        BY <4>3 DEF InsertSnapshots, EndGeneration, GenerationFails, Nothing
      <4>4. QED
        BY <3>5, <4>1, <4>2, <4>3 DEF Generate
    <3>6. CASE UNCHANGED vars
      BY <3>6 DEF vars
    <3>7. QED
      BY <3>1, <3>2, <3>3, <3>4, <3>5, <3>6 DEF Next
  <2>3. QED
    BY <2>1, <2>2
<1>3. QED
  BY <1>1, <1>2, FactsAreTyped, PTL DEF PlaysSpec
-----------------------------------------------------------------------------
(* The aggregates.  What the stored counts were computed from: a status and *)
(* a tier for each card, and a length of the trail.                         *)
SliceOf(st, ti, d, filter) ==
    [k \in Keys(d) |->
        Cardinality({c \in Cards : st[c] \in filter /\
                        (IF d = "trigger" THEN TriggerOf[c] ELSE ti[c]) = k})]

BasisOf(st, n) ==
    <<[s \in Statuses \ {"absent"} |-> Cardinality({c \in Cards : st[c] = s})], n>>

(* Where a status may go while nothing is restored.                         *)
Descends(a, b) ==
    \/ a = b \/ a = "absent" \/ b = "retracted"
    \/ a = "active" /\ b \in Lowered

LEMMA DescendsOn ==
    ASSUME NEW a, NEW b, NEW c, Descends(a, b),
           b = c \/ b = "absent" \/ c = "retracted" \/ (b = "active" /\ c \in Lowered)
    PROVE  Descends(a, c)
  BY LoweredAssumption DEF LoweredAssumption, Descends

(* The fingerprint argument: statuses that only went down, with as many     *)
(* cards of each as before, are the same statuses.                          *)
LEMMA SameCountsSameStatus ==
    ASSUME NEW st \in [Cards -> Statuses], NEW now \in [Cards -> Statuses],
           \A c \in Cards : Descends(st[c], now[c]),
           \A s \in Statuses \ {"absent"} :
              Cardinality({c \in Cards : st[c] = s}) = Cardinality({c \in Cards : now[c] = s})
    PROVE  st = now
<1> DEFINE Then(s) == {c \in Cards : st[c] = s}
           Now(s)  == {c \in Cards : now[c] = s}
<1>1. ASSUME NEW s \in Statuses \ {"absent"}, \A c \in Cards : st[c] = s => now[c] = s
      PROVE  \A c \in Cards : now[c] = s => st[c] = s
  <2>1. Then(s) \subseteq Now(s) /\ Now(s) \subseteq Cards
    BY <1>1
  <2>2. Cardinality(Then(s)) = Cardinality(Now(s)) /\ IsFiniteSet(Cards)
    BY TriggerAssumption DEF TriggerAssumption
  <2>3. Then(s) = Now(s)
    <3> HIDE DEF Then, Now
    <3>1. QED
      BY <2>1, <2>2, FS_Subset
  <2>4. QED
    BY <2>3
<1>2. ASSUME NEW c \in Cards
      PROVE  /\ st[c] \in Lowered \cup {"absent", "active", "retracted"}
             /\ now[c] \in Lowered \cup {"absent", "active", "retracted"}
             /\ \/ st[c] = now[c] \/ st[c] = "absent" \/ now[c] = "retracted"
                \/ st[c] = "active" /\ now[c] \in Lowered
  BY DEF Descends, Statuses
<1>3. \A c \in Cards : now[c] = "retracted" => st[c] = "retracted"
  BY <1>1, <1>2, LoweredAssumption DEF LoweredAssumption, Statuses
<1>4. \A s \in Lowered : \A c \in Cards : now[c] = s => st[c] = s
  <2> SUFFICES ASSUME NEW s \in Lowered PROVE \A c \in Cards : now[c] = s => st[c] = s
    OBVIOUS
  <2>1. \A c \in Cards : st[c] = s => now[c] = s
    BY <1>2, <1>3, LoweredAssumption DEF LoweredAssumption
  <2>2. s \in Statuses \ {"absent"}
    BY LoweredAssumption DEF LoweredAssumption, Statuses
  <2>3. QED
    BY <1>1, <2>1, <2>2
<1>5. \A c \in Cards : now[c] = "active" => st[c] = "active"
  <2>1. \A c \in Cards : st[c] = "active" => now[c] = "active"
    BY <1>2, <1>3, <1>4, LoweredAssumption DEF LoweredAssumption
  <2>2. "active" \in Statuses \ {"absent"}
    BY DEF Statuses
  <2>3. QED
    BY <1>1, <2>1, <2>2
<1>6. ASSUME NEW c \in Cards PROVE st[c] = now[c]
  <2>1. CASE now[c] \in Lowered
    BY <1>4, <2>1
  <2>2. CASE now[c] \notin Lowered
    BY <1>2, <1>3, <1>5, <2>2
  <2>3. QED
    BY <2>1, <2>2
<1>7. st = [c \in Cards |-> st[c]] /\ now = [c \in Cards |-> now[c]]
  OBVIOUS
<1>8. QED
  BY <1>6, <1>7

(* What a stored row is true to: the store at its refresh, and how the      *)
(* store, with these statuses, these tiers and so many edits, has moved on  *)
(* from there.                                                              *)
Remembers(row, now, levels, m) ==
    \E st \in [Cards -> Statuses], ti \in [Cards -> Tiers \cup {Plain, Absent}], n \in Nat :
        /\ row.basis = BasisOf(st, n) /\ n <= m
        /\ row.counts = [d \in Dimensions |-> SliceOf(st, ti, d, {"active"})]
        /\ \A c \in Cards : st[c] # "absent" => levels[c] # Absent /\ (n = m => ti[c] = levels[c])
        /\ row.restored = "no" => \A c \in Cards : Descends(st[c], now[c])

(* Tiers change only with an edit, and a card never loses its tier.         *)
KeepsLevels(levels, after, m, n) ==
    /\ m \in Nat /\ n \in Nat /\ m <= n
    /\ \A c \in Cards : levels[c] # Absent =>
          after[c] # Absent /\ (m = n => after[c] = levels[c])

(* The row stays, and is marked if a status came back up.                   *)
KeepsRow(row, marked, now, next) ==
    /\ marked.basis = row.basis /\ marked.counts = row.counts
    /\ marked.restored = "no" => row.restored = "no"
    /\ marked.restored = "no" =>
          \A c \in Cards : \/ now[c] = next[c] \/ now[c] = "absent" \/ next[c] = "retracted"
                           \/ now[c] = "active" /\ next[c] \in Lowered

StoreTrue ==
    /\ status \in [Cards -> Statuses]
    /\ \A c \in Cards : status[c] = "absent" <=> tier[c] = Absent
    /\ aggregate \in StoredCounts \cup {Nobody}
    /\ aggregate # Nobody => Remembers(aggregate, status, tier, Len(edits))
    /\ refreshes \in Nat

Slices  == UNION {[Keys(d) -> Nat] : d \in Dimensions}
Answers == UNION {[D -> Slices] : D \in SUBSET Dimensions}

(* The stored counts were read, or written, during the request.             *)
Timely == \A d \in Dimensions : aggregate.counts[d] \in truths[d]

(* What each step of a request knows of the counts it will serve.           *)
RequestTrue ==
    reader # Nobody =>
        /\ reader \in [pc : {"live", "basis", "stored", "served", "counted"}, filter : Filters,
                       state : StoredCounts \cup {Nobody}, during : Nat, answer : Answers]
        /\ ~Answered => \A d \in Dimensions : Slice(d, reader.filter) \in truths[d]
        /\ reader.pc \in {"basis", "stored"} => reader.filter = {"active"} /\ aggregate # Nobody
        /\ reader.pc = "basis" => aggregate.basis = reader.state.basis \/ Timely
        /\ reader.pc = "stored" => aggregate.restored = "yes" \/ Timely
        /\ reader.pc = "served" =>
             reader.state.restored = "yes" \/ \A d \in Dimensions : reader.answer[d] \in truths[d]
        /\ reader.pc \in {"basis", "live"} =>
             \A d \in DOMAIN reader.answer : reader.answer[d] \in truths[d]
        /\ reader.pc = "counted" => \A d \in Dimensions : reader.answer[d] \in truths[d]

LEMMA SliceTyped ==
    /\ \A st, ti, filter : \A d \in Dimensions : SliceOf(st, ti, d, filter) \in [Keys(d) -> Nat]
    /\ \A st : [s \in Statuses \ {"absent"} |-> Cardinality({c \in Cards : st[c] = s})]
                \in [Statuses \ {"absent"} -> Nat]
<1>1. \A S \in SUBSET Cards : Cardinality(S) \in Nat
  BY TriggerAssumption, FS_Subset, FS_CardinalityType DEF TriggerAssumption
<1>2. QED
  BY <1>1 DEF SliceOf

LEMMA LiveSlices ==
    /\ \A d, filter : Slice(d, filter) = SliceOf(status, tier, d, filter)
    /\ Fingerprint = BasisOf(status, Len(edits))
  BY DEF Slice, SliceOf, KeyOf, Fingerprint, BasisOf

(* What a matching fingerprint means: nothing counted has moved since.      *)
LEMMA MatchIsTrue ==
    ASSUME StoreTrue, aggregate # Nobody, aggregate.basis = Fingerprint,
           aggregate.restored = "no"
    PROVE  \A d \in Dimensions : aggregate.counts[d] = Slice(d, {"active"})
<1>1. PICK st \in [Cards -> Statuses], ti \in [Cards -> Tiers \cup {Plain, Absent}], n \in Nat :
        /\ aggregate.basis = BasisOf(st, n)
        /\ aggregate.counts = [d \in Dimensions |-> SliceOf(st, ti, d, {"active"})]
        /\ \A c \in Cards : st[c] # "absent" => (n = Len(edits) => ti[c] = tier[c])
        /\ \A c \in Cards : Descends(st[c], status[c])
  BY DEF StoreTrue, Remembers
<1>2. BasisOf(st, n) = BasisOf(status, Len(edits))
  BY <1>1, LiveSlices
<1>3. /\ n = Len(edits)
      /\ [s \in Statuses \ {"absent"} |-> Cardinality({c \in Cards : st[c] = s})]
           = [s \in Statuses \ {"absent"} |-> Cardinality({c \in Cards : status[c] = s})]
  BY <1>2 DEF BasisOf
<1>4. ASSUME NEW s \in Statuses \ {"absent"}
      PROVE  Cardinality({c \in Cards : st[c] = s}) = Cardinality({c \in Cards : status[c] = s})
  BY <1>3
<1>5. st = status
  BY <1>1, <1>4, SameCountsSameStatus DEF StoreTrue
<1>6. ASSUME NEW d \in Dimensions
      PROVE  SliceOf(st, ti, d, {"active"}) = SliceOf(status, tier, d, {"active"})
  <2>1. ASSUME NEW k
        PROVE  {c \in Cards : st[c] \in {"active"} /\
                    (IF d = "trigger" THEN TriggerOf[c] ELSE ti[c]) = k}
             = {c \in Cards : status[c] \in {"active"} /\
                    (IF d = "trigger" THEN TriggerOf[c] ELSE tier[c]) = k}
    BY <1>1, <1>3, <1>5
  <2>2. QED
    BY <2>1 DEF SliceOf
<1>7. QED
  BY <1>1, <1>6, LiveSlices

(* The store moves on: the trail grows with every change of a tier, and     *)
(* statuses only go down, or the row is marked.                             *)
LEMMA RemembersOn ==
    ASSUME NEW row, NEW marked, NEW now, NEW next, NEW levels, NEW after, NEW m, NEW n,
           Remembers(row, now, levels, m), KeepsLevels(levels, after, m, n),
           KeepsRow(row, marked, now, next)
    PROVE  Remembers(marked, next, after, n)
<1>1. PICK st \in [Cards -> Statuses], ti \in [Cards -> Tiers \cup {Plain, Absent}], k \in Nat :
        /\ row.basis = BasisOf(st, k) /\ k <= m
        /\ row.counts = [d \in Dimensions |-> SliceOf(st, ti, d, {"active"})]
        /\ \A c \in Cards : st[c] # "absent" => levels[c] # Absent /\ (k = m => ti[c] = levels[c])
        /\ row.restored = "no" => \A c \in Cards : Descends(st[c], now[c])
  BY DEF Remembers
<1>2. \A c \in Cards : st[c] # "absent" => after[c] # Absent /\ (k = n => ti[c] = after[c])
  BY <1>1 DEF KeepsLevels
<1>3. marked.restored = "no" => \A c \in Cards : Descends(st[c], next[c])
  BY <1>1, DescendsOn DEF KeepsRow
<1>4. k <= n /\ marked.basis = row.basis /\ marked.counts = row.counts
  BY <1>1 DEF KeepsLevels, KeepsRow
<1>5. QED
  BY <1>1, <1>2, <1>3, <1>4 DEF Remembers

(* Under a request: what a commit leaves of the row it may serve.           *)
LEMMA ObservedKeeps ==
    ASSUME StoreTrue', RequestTrue, Observed,
           aggregate # Nobody =>
               /\ aggregate' # Nobody
               /\ aggregate'.basis = aggregate.basis /\ aggregate'.counts = aggregate.counts
               /\ aggregate.restored = "yes" => aggregate'.restored = "yes"
    PROVE  RequestTrue'
<1>1. CASE reader = Nobody
  BY <1>1 DEF Observed, RequestTrue
<1>2. CASE reader # Nobody
  <2>1. /\ reader' = [reader EXCEPT !.during = @ + 1]
        /\ truths' = [d \in Dimensions |-> truths[d] \cup {Slice(d, reader.filter)'}]
        /\ ~Answered
    BY <1>2 DEF Observed
  <2>2. reader \in [pc : {"live", "basis", "stored", "served", "counted"}, filter : Filters,
                    state : StoredCounts \cup {Nobody}, during : Nat, answer : Answers]
    BY <1>2 DEF RequestTrue
  <2>3. /\ reader' \in [pc : {"live", "basis", "stored", "served", "counted"}, filter : Filters,
                         state : StoredCounts \cup {Nobody}, during : Nat, answer : Answers]
        /\ reader'.pc = reader.pc /\ reader'.filter = reader.filter
        /\ reader'.state = reader.state /\ reader'.answer = reader.answer
    BY <2>1, <2>2
  <2>4. \A d \in Dimensions : Slice(d, reader.filter)' \in truths'[d] /\ truths[d] \subseteq truths'[d]
    BY <2>1
  <2>5. reader.pc \in {"live", "basis", "stored"}
    BY <1>2, <2>1, <2>2 DEF Answered
  <2>6. reader.pc \in {"basis", "stored"} => aggregate # Nobody /\ reader.filter = {"active"}
    BY <1>2 DEF RequestTrue
  <2>7. Timely /\ aggregate # Nobody => Timely'
    BY <2>4 DEF Timely
  <2>8. reader.pc \in {"basis", "live"} => \A d \in DOMAIN reader.answer : reader.answer[d] \in truths'[d]
    <3>1. DOMAIN reader.answer \subseteq Dimensions
      BY <2>2 DEF Answers
    <3>2. QED
      BY <1>2, <2>4, <3>1 DEF RequestTrue
  <2>9. /\ reader.pc = "basis" => aggregate.basis = reader.state.basis \/ Timely
        /\ reader.pc = "stored" => aggregate.restored = "yes" \/ Timely
    BY <1>2 DEF RequestTrue
  <2>10. QED
    BY <2>3, <2>4, <2>5, <2>6, <2>7, <2>8, <2>9 DEF RequestTrue
<1>3. QED
  BY <1>1, <1>2

(* Every commit of the store is one the tier editor allows.                 *)
LEMMA CountsTierSteps == ASSUME [CountsNext]_countVars PROVE [NextTiers]_tiers
<1>1. ASSUME NEW c \in Cards, MintActive(c) \/ RetierCounted(c) PROVE [NextTiers]_tiers
  BY <1>1 DEF MintActive, RetierCounted, NextTiers
<1>2. ASSUME NEW S \in SUBSET Cards, NEW to \in Lowered, Flip(S, to) PROVE UNCHANGED tiers
  BY <1>2 DEF Flip, StatusCommit
<1>3. ASSUME NEW S \in SUBSET Cards, NEW R \in SUBSET Cards, Reconcile(S, R) PROVE UNCHANGED tiers
  BY <1>3 DEF Reconcile, StatusCommit
<1>4. CASE Refresh \/ Expire \/ Read
  BY <1>4 DEF Refresh, Expire, Read, Request, CheckBasis, ServeStored, CountLive, Respond
<1>5. CASE UNCHANGED countVars
  BY <1>5 DEF countVars
<1>6. QED
  BY <1>1, <1>2, <1>3, <1>4, <1>5 DEF CountsNext, StoreCommit

THEOREM CountsKeepTrail == AggregatesSpec => Spec
<1>1. CountsInit => InitTiers
  BY DEF CountsInit
<1>2. QED
  BY <1>1, CountsTierSteps, PTL DEF AggregatesSpec, Spec

CommitKeepsRow ==
    aggregate # Nobody =>
        /\ aggregate' # Nobody
        /\ aggregate'.basis = aggregate.basis /\ aggregate'.counts = aggregate.counts
        /\ aggregate.restored = "yes" => aggregate'.restored = "yes"

LEMMA MintKeepsStore ==
    ASSUME TypeOK, TypeOK', StoreTrue, NEW c \in Cards, MintActive(c)
    PROVE  StoreTrue' /\ CommitKeepsRow
<1> USE DEF MintActive, MintTiered, tiers
<1>1. /\ status' \in [Cards -> Statuses]
      /\ \A x \in Cards : status'[x] = "absent" <=> tier'[x] = Absent
  BY TierAssumption DEF TierAssumption, StoreTrue, Statuses, TypeOK
<1>2. ASSUME aggregate # Nobody PROVE Remembers(aggregate, status', tier', Len(edits'))
  <2>1. Remembers(aggregate, status, tier, Len(edits)) /\ Len(edits) \in Nat
    BY <1>2 DEF StoreTrue, TypeOK
  <2>2. KeepsLevels(tier, tier', Len(edits), Len(edits'))
    BY <2>1 DEF TypeOK, KeepsLevels
  <2>3. KeepsRow(aggregate, aggregate, status, status')
    BY DEF StoreTrue, KeepsRow
  <2>4. QED
    BY <2>1, <2>2, <2>3, RemembersOn
<1>3. QED
  BY <1>1, <1>2 DEF StoreTrue, CommitKeepsRow

LEMMA RetierKeepsStore ==
    ASSUME TypeOK, TypeOK', StoreTrue, NEW c \in Cards, RetierCounted(c)
    PROVE  StoreTrue' /\ CommitKeepsRow
<1>1. PICK t \in Tiers, reason \in {"given", "none"} : Retier(c, t, reason)
  BY DEF RetierCounted
<1>2. UNCHANGED <<status, aggregate, refreshes>>
  BY DEF RetierCounted
<1>3. Len(edits') = Len(edits) + 1 /\ Len(edits) \in Nat
  BY <1>1, EditTyped, AppendFacts DEF Retier, TypeOK
<1>4. \A x \in Cards : (tier[x] = Absent <=> tier'[x] = Absent)
  BY <1>1, TierAssumption DEF TierAssumption, Retier, TypeOK
<1>5. ASSUME aggregate # Nobody PROVE Remembers(aggregate, status, tier', Len(edits'))
  <2>1. Remembers(aggregate, status, tier, Len(edits))
    BY <1>5 DEF StoreTrue
  <2>2. KeepsLevels(tier, tier', Len(edits), Len(edits'))
    BY <1>3, <1>4 DEF KeepsLevels
  <2>3. KeepsRow(aggregate, aggregate, status, status)
    BY DEF KeepsRow
  <2>4. QED
    BY <2>1, <2>2, <2>3, RemembersOn
<1>6. QED
  BY <1>2, <1>4, <1>5 DEF StoreTrue, CommitKeepsRow

LEMMA ReconcileKeepsStore ==
    ASSUME TypeOK, StoreTrue, NEW retract \in SUBSET Cards, NEW restore \in SUBSET Cards,
           Reconcile(retract, restore)
    PROVE  StoreTrue' /\ CommitKeepsRow
<1>1. /\ status' = [c \in Cards |-> IF c \in retract THEN "retracted"
                                   ELSE IF c \in restore THEN "active" ELSE status[c]]
      /\ UNCHANGED <<tiers, refreshes>>
  BY DEF Reconcile, StatusCommit
<1>2. /\ retract \subseteq {c \in Cards : status[c] \notin {"absent", "retracted"}}
      /\ restore \subseteq {c \in Cards : status[c] = "retracted"}
      /\ aggregate' = IF aggregate = Nobody \/ restore = {} THEN aggregate
                      ELSE [aggregate EXCEPT !.restored = "yes"]
  BY DEF Reconcile
<1>3. /\ status' \in [Cards -> Statuses]
      /\ \A c \in Cards : status'[c] = "absent" <=> status[c] = "absent"
  BY <1>1, <1>2 DEF StoreTrue, Statuses
<1>4. ASSUME aggregate # Nobody
      PROVE  /\ aggregate' \in StoredCounts
             /\ aggregate'.basis = aggregate.basis /\ aggregate'.counts = aggregate.counts
             /\ restore = {} => aggregate' = aggregate
             /\ restore # {} => aggregate'.restored = "yes"
  <2>1. aggregate \in StoredCounts
    BY <1>4 DEF StoreTrue
  <2>2. CASE restore = {}
    BY <1>2, <2>1, <2>2
  <2>3. CASE restore # {}
    <3>1. aggregate' = [aggregate EXCEPT !.restored = "yes"]
      BY <1>2, <1>4, <2>3
    <3>2. QED
      BY <2>1, <2>3, <3>1 DEF StoredCounts
  <2>4. QED
    BY <2>2, <2>3
<1>5. ASSUME aggregate # Nobody PROVE Remembers(aggregate', status', tier, Len(edits))
  <2>1. Remembers(aggregate, status, tier, Len(edits)) /\ Len(edits) \in Nat
    BY <1>5 DEF StoreTrue, TypeOK
  <2>2. KeepsLevels(tier, tier, Len(edits), Len(edits))
    BY <2>1 DEF KeepsLevels
  <2>3. restore = {} => \A c \in Cards : status[c] = status'[c] \/ status'[c] = "retracted"
    BY <1>1
  <2>4. KeepsRow(aggregate, aggregate', status, status')
    BY <1>4, <1>5, <2>3 DEF KeepsRow
  <2>5. QED
    BY <2>1, <2>2, <2>4, RemembersOn
<1>6. CommitKeepsRow
  BY <1>4, NobodyAssumption DEF CommitKeepsRow, NobodyAssumption, StoreTrue
<1>7. aggregate' \in StoredCounts \cup {Nobody} /\ (aggregate = Nobody => aggregate' = Nobody)
  BY <1>2, <1>4
<1>8. QED
  BY <1>1, <1>3, <1>5, <1>6, <1>7 DEF StoreTrue, tiers

LEMMA FlipKeepsStore ==
    ASSUME TypeOK, StoreTrue, NEW S \in SUBSET Cards, NEW to \in Lowered, Flip(S, to)
    PROVE  StoreTrue' /\ CommitKeepsRow
<1>1. /\ S \subseteq {c \in Cards : status[c] = "active"}
      /\ status' = [c \in Cards |-> IF c \in S THEN to ELSE status[c]]
      /\ UNCHANGED <<tiers, refreshes, aggregate>>
  BY DEF Flip, StatusCommit
<1>2. /\ status' \in [Cards -> Statuses]
      /\ \A c \in Cards : status'[c] = "absent" <=> status[c] = "absent"
  BY <1>1, LoweredAssumption DEF LoweredAssumption, StoreTrue, Statuses
<1>3. ASSUME aggregate # Nobody PROVE Remembers(aggregate, status', tier, Len(edits))
  <2>1. Remembers(aggregate, status, tier, Len(edits)) /\ Len(edits) \in Nat
    BY <1>3 DEF StoreTrue, TypeOK
  <2>2. KeepsLevels(tier, tier, Len(edits), Len(edits))
    BY <2>1 DEF KeepsLevels
  <2>3. KeepsRow(aggregate, aggregate, status, status')
    BY <1>1 DEF KeepsRow
  <2>4. QED
    BY <2>1, <2>2, <2>3, RemembersOn
<1>4. QED
  BY <1>1, <1>2, <1>3 DEF StoreTrue, CommitKeepsRow, tiers

(* A refresh remembers the store as it is.                                  *)
LEMMA RefreshKeepsStore ==
    ASSUME TypeOK, StoreTrue, Refresh
    PROVE  /\ StoreTrue'
           /\ aggregate' # Nobody
           /\ \A d \in Dimensions : aggregate'.counts[d] = Slice(d, {"active"})
<1>1. /\ aggregate' = [at |-> refreshes + 1, basis |-> Fingerprint,
                       counts |-> Counts({"active"}), expired |-> "no", restored |-> "no"]
      /\ refreshes' = refreshes + 1 /\ UNCHANGED <<tiers, status>>
  BY DEF Refresh
<1>2. Counts({"active"}) = [d \in Dimensions |-> SliceOf(status, tier, d, {"active"})]
  BY LiveSlices DEF Counts
<1>3. Len(edits) \in Nat
  BY DEF TypeOK
<1>4. Fingerprint \in [Statuses \ {"absent"} -> Nat] \X Nat
  BY <1>3, SliceTyped DEF Fingerprint
<1>5. Counts({"active"}) \in [Dimensions -> UNION {[Keys(d) -> Nat] : d \in Dimensions}]
  <2>1. \A d \in Dimensions : SliceOf(status, tier, d, {"active"}) \in [Keys(d) -> Nat]
    BY SliceTyped
  <2>2. QED
    BY <1>2, <2>1
<1>6. refreshes + 1 \in Nat
  BY DEF StoreTrue
<1>7. aggregate' \in StoredCounts
  BY <1>1, <1>4, <1>5, <1>6 DEF StoredCounts
<1>8. Remembers(aggregate', status, tier, Len(edits))
  <2>1. /\ aggregate'.basis = BasisOf(status, Len(edits)) /\ Len(edits) <= Len(edits)
        /\ aggregate'.counts = [d \in Dimensions |-> SliceOf(status, tier, d, {"active"})]
    BY <1>1, <1>2, <1>3, LiveSlices
  <2>2. /\ status \in [Cards -> Statuses] /\ tier \in [Cards -> Tiers \cup {Plain, Absent}]
        /\ \A c \in Cards : status[c] # "absent" => tier[c] # Absent
    BY DEF StoreTrue, TypeOK
  <2>3. \A c \in Cards : Descends(status[c], status[c])
    BY DEF Descends
  <2>4. QED
    BY <1>3, <2>1, <2>2, <2>3 DEF Remembers
<1>9. \A d \in Dimensions : aggregate'.counts[d] = Slice(d, {"active"})
  BY <1>1, <1>2, LiveSlices
<1>10. QED
  BY <1>1, <1>6, <1>7, <1>8, <1>9, NobodyAssumption DEF StoreTrue, tiers, NobodyAssumption

ReaderTyped ==
    reader \in [pc : {"live", "basis", "stored", "served", "counted"}, filter : Filters,
               state : StoredCounts \cup {Nobody}, during : Nat, answer : Answers]

LEMMA RefreshKeepsRequest ==
    ASSUME RequestTrue, Refresh, aggregate' # Nobody,
           \A d \in Dimensions : aggregate'.counts[d] = Slice(d, {"active"})
    PROVE  RequestTrue'
<1>1. ~Answered /\ UNCHANGED <<tiers, status, reader, truths>>
  BY DEF Refresh
<1>2. \A d, filter : Slice(d, filter)' = Slice(d, filter)
  BY <1>1 DEF Slice, KeyOf, tiers
<1>3. CASE reader = Nobody
  BY <1>1, <1>3 DEF RequestTrue
<1>4. CASE reader # Nobody
  <2>1. reader.pc \notin {"served", "counted"}
    BY <1>1, <1>4 DEF Answered
  <2>2. \A d \in Dimensions : Slice(d, reader.filter) \in truths[d]
    BY <1>1, <1>4 DEF RequestTrue
  <2>3. reader.pc \in {"basis", "stored"} => reader.filter = {"active"}
    BY <1>4 DEF RequestTrue
  <2>4. reader.pc \in {"basis", "stored"} => Timely'
    BY <1>1, <2>2, <2>3 DEF Timely
  <2>5. reader.pc \in {"basis", "live"} => \A d \in DOMAIN reader.answer : reader.answer[d] \in truths[d]
    BY <1>4 DEF RequestTrue
  <2>6. ReaderTyped
    BY <1>4 DEF RequestTrue, ReaderTyped
  <2>7. QED
    BY <1>1, <1>2, <2>1, <2>2, <2>3, <2>4, <2>5, <2>6 DEF RequestTrue, ReaderTyped
<1>5. QED
  BY <1>3, <1>4

LEMMA ExpireKeeps ==
    ASSUME TypeOK, StoreTrue, RequestTrue, Expire
    PROVE  StoreTrue' /\ RequestTrue'
<1>1. /\ aggregate' = [aggregate EXCEPT !.expired = "yes"]
      /\ aggregate # Nobody /\ UNCHANGED <<tiers, status, refreshes, reader, truths>>
  BY DEF Expire
<1>2. aggregate \in StoredCounts
  BY <1>1 DEF StoreTrue
<1>3. /\ aggregate' \in StoredCounts /\ aggregate' # Nobody
      /\ aggregate'.basis = aggregate.basis /\ aggregate'.counts = aggregate.counts
      /\ aggregate'.restored = aggregate.restored
  BY <1>1, <1>2, NobodyAssumption DEF StoredCounts, NobodyAssumption
<1>4. Remembers(aggregate', status, tier, Len(edits))
  <2>1. Remembers(aggregate, status, tier, Len(edits)) /\ Len(edits) \in Nat
    BY <1>1 DEF StoreTrue, TypeOK
  <2>2. KeepsLevels(tier, tier, Len(edits), Len(edits))
    BY <2>1 DEF KeepsLevels
  <2>3. KeepsRow(aggregate, aggregate', status, status)
    BY <1>3 DEF KeepsRow
  <2>4. QED
    BY <2>1, <2>2, <2>3, RemembersOn
<1>5. StoreTrue'
  BY <1>1, <1>3, <1>4 DEF StoreTrue, tiers
<1>6. \A d, filter : Slice(d, filter)' = Slice(d, filter)
  BY <1>1 DEF Slice, KeyOf, tiers
<1>7. Timely' <=> Timely
  BY <1>1, <1>3 DEF Timely
<1>8. Answered' <=> Answered
  BY <1>1 DEF Answered
<1>9. RequestTrue'
  BY <1>1, <1>3, <1>6, <1>7, <1>8 DEF RequestTrue
<1>10. QED
  BY <1>5, <1>9

LEMMA RequestKeeps ==
    ASSUME StoreTrue, NEW filter \in Filters, Request(filter)
    PROVE  RequestTrue'
<1>1. /\ reader' = [pc |-> IF aggregate = Nobody \/ filter # {"active"} THEN "live" ELSE "basis",
                    filter |-> filter, state |-> aggregate, during |-> 0,
                    answer |-> [d \in {} |-> 0]]
      /\ truths' = [d \in Dimensions |-> {Slice(d, filter)}]
      /\ UNCHANGED <<tiers, status, aggregate, refreshes>>
  BY DEF Request
<1>2. [d \in {} |-> 0] \in Answers
  <2>1. [d \in {} |-> 0] \in [{} -> Slices]
    OBVIOUS
  <2>2. QED
    BY <2>1 DEF Answers
<1>3. ReaderTyped'
  BY <1>1, <1>2 DEF ReaderTyped, StoreTrue
<1>4. \A d, f : Slice(d, f)' = Slice(d, f)
  BY <1>1 DEF Slice, KeyOf, tiers
<1>5. \A d \in Dimensions : Slice(d, reader.filter)' \in truths'[d]
  BY <1>1, <1>4
<1>6. DOMAIN reader'.answer = {}
  BY <1>1
<1>7. /\ reader'.pc = "live" \/ (reader'.pc = "basis" /\ aggregate # Nobody /\ filter = {"active"})
      /\ reader'.filter = filter /\ reader'.state = aggregate
  BY <1>1
<1>8. QED
  BY <1>1, <1>3, <1>5, <1>6, <1>7 DEF RequestTrue, ReaderTyped

LEMMA CheckBasisKeeps ==
    ASSUME StoreTrue, RequestTrue, CheckBasis
    PROVE  RequestTrue'
<1>1. /\ reader # Nobody /\ reader.pc = "basis"
      /\ reader' = [reader EXCEPT !.pc =
                      IF reader.state.basis = Fingerprint /\ reader.state.expired = "no"
                        THEN "stored" ELSE "live"]
      /\ UNCHANGED <<tiers, status, aggregate, refreshes, truths>>
  BY DEF CheckBasis
<1>2. ReaderTyped
  BY <1>1 DEF RequestTrue, ReaderTyped
<1>3. /\ ReaderTyped'
      /\ reader'.filter = reader.filter /\ reader'.answer = reader.answer
      /\ reader'.pc = "live" \/ (reader'.pc = "stored" /\ reader.state.basis = Fingerprint)
  BY <1>1, <1>2 DEF ReaderTyped
<1>4. \A d, f : Slice(d, f)' = Slice(d, f)
  BY <1>1 DEF Slice, KeyOf, tiers
<1>5. /\ \A d \in Dimensions : Slice(d, reader.filter) \in truths[d]
      /\ reader.filter = {"active"} /\ aggregate # Nobody
      /\ aggregate.basis = reader.state.basis \/ Timely
  BY <1>1 DEF RequestTrue, Answered
<1>6. reader.state.basis = Fingerprint => aggregate.restored = "yes" \/ Timely
  <2>1. aggregate \in StoredCounts
    BY <1>5 DEF StoreTrue
  <2>2. aggregate.restored \in {"yes", "no"}
    BY <2>1 DEF StoredCounts
  <2>3. CASE aggregate.restored = "no" /\ aggregate.basis = Fingerprint
    <3>1. \A d \in Dimensions : aggregate.counts[d] = Slice(d, {"active"})
      BY <1>5, <2>3, MatchIsTrue
    <3>2. QED
      BY <1>5, <3>1 DEF Timely
  <2>4. QED
    BY <1>5, <2>2, <2>3
<1>7. Timely' <=> Timely
  BY <1>1 DEF Timely
<1>8. \A d \in DOMAIN reader.answer : reader.answer[d] \in truths[d]
  BY <1>1 DEF RequestTrue
<1>9. QED
  BY <1>1, <1>3, <1>4, <1>5, <1>6, <1>7, <1>8 DEF RequestTrue, ReaderTyped

LEMMA ServeStoredKeeps ==
    ASSUME StoreTrue, RequestTrue, ServeStored
    PROVE  RequestTrue'
<1>1. /\ reader # Nobody /\ reader.pc = "stored"
      /\ reader' = [reader EXCEPT !.pc = "served", !.answer = aggregate.counts,
                                 !.state = aggregate]
      /\ UNCHANGED <<tiers, status, aggregate, refreshes, truths>>
  BY DEF ServeStored
<1>2. ReaderTyped /\ aggregate # Nobody /\ (aggregate.restored = "yes" \/ Timely)
  BY <1>1 DEF RequestTrue, ReaderTyped
<1>3. aggregate \in StoredCounts
  BY <1>2 DEF StoreTrue
<1>4. aggregate.counts \in Answers
  BY <1>3 DEF StoredCounts, Answers, Slices
<1>5. /\ ReaderTyped' /\ reader'.pc = "served"
      /\ reader'.state = aggregate /\ reader'.answer = aggregate.counts
  BY <1>1, <1>2, <1>3, <1>4 DEF ReaderTyped
<1>6. aggregate.restored = "yes" \/ \A d \in Dimensions : reader'.answer[d] \in truths[d]
  BY <1>2, <1>5 DEF Timely
<1>7. QED
  BY <1>1, <1>5, <1>6 DEF RequestTrue, ReaderTyped, Answered

LEMMA CountLiveKeeps ==
    ASSUME RequestTrue, NEW d \in Dimensions, CountLive(d)
    PROVE  RequestTrue'
<1>1. /\ reader # Nobody /\ reader.pc = "live"
      /\ IF d = "trigger" THEN DOMAIN reader.answer = {} ELSE DOMAIN reader.answer = {"trigger"}
      /\ reader' = [reader EXCEPT
                    !.answer = [x \in DOMAIN @ \cup {d} |->
                                  IF x = d THEN Slice(d, reader.filter) ELSE @[x]],
                    !.pc = IF d = "tier" THEN "counted" ELSE "live"]
      /\ UNCHANGED <<tiers, status, aggregate, refreshes, truths>>
  BY DEF CountLive
<1> DEFINE answer == [x \in DOMAIN reader.answer \cup {d} |->
                        IF x = d THEN Slice(d, reader.filter) ELSE reader.answer[x]]
<1>2. /\ ReaderTyped
      /\ \A x \in Dimensions : Slice(x, reader.filter) \in truths[x]
      /\ \A x \in DOMAIN reader.answer : reader.answer[x] \in truths[x]
  BY <1>1 DEF RequestTrue, ReaderTyped, Answered
<1>3. PICK D \in SUBSET Dimensions : reader.answer \in [D -> Slices]
  BY <1>2 DEF ReaderTyped, Answers
<1>4. Slice(d, reader.filter) \in Slices
  BY SliceTyped, LiveSlices DEF Slices
<1>5. answer \in [D \cup {d} -> Slices]
  BY <1>3, <1>4
<1>6. answer \in Answers
  BY <1>5 DEF Answers
<1>7. \A x \in DOMAIN answer : answer[x] \in truths[x]
  BY <1>2, <1>3
<1>8. d = "tier" => DOMAIN answer = Dimensions
  BY <1>1 DEF Dimensions
<1>9. /\ ReaderTyped' /\ reader'.filter = reader.filter /\ reader'.answer = answer
      /\ reader'.pc = "live" \/ (reader'.pc = "counted" /\ d = "tier")
  <2> HIDE DEF answer
  <2>1. reader' = [reader EXCEPT !.answer = answer,
                                 !.pc = IF d = "tier" THEN "counted" ELSE "live"]
    BY <1>1 DEF answer
  <2>2. QED
    BY <1>2, <1>6, <2>1 DEF ReaderTyped
<1>10. \A x, f : Slice(x, f)' = Slice(x, f)
  BY <1>1 DEF Slice, KeyOf, tiers
<1>11. QED
  <2> HIDE DEF answer
  <2>1. QED
    BY <1>1, <1>2, <1>7, <1>8, <1>9, <1>10 DEF RequestTrue, ReaderTyped

LEMMA RespondKeeps == ASSUME Respond PROVE RequestTrue'
  BY DEF Respond, RequestTrue

(* Every answer of analytics_counts is a live count of some moment of the   *)
(* request, whatever refreshes, expires or is committed between its SELECTs,*)
(* unless a card was restored after the counts it serves were stored.       *)
THEOREM SlicesWereTrue == AggregatesSpec => []EachSliceWasTrue
<1>1. CountsInit => StoreTrue /\ RequestTrue
  BY DEF CountsInit, InitTiers, StoreTrue, RequestTrue, Statuses
<1>2. StoreTrue /\ RequestTrue => EachSliceWasTrue
  BY DEF RequestTrue, EachSliceWasTrue, Answered
<1>3. TypeOK /\ TypeOK' /\ StoreTrue /\ RequestTrue /\ [CountsNext]_countVars
        => StoreTrue' /\ RequestTrue'
  <2> SUFFICES ASSUME TypeOK, TypeOK', StoreTrue, RequestTrue, [CountsNext]_countVars
               PROVE  StoreTrue' /\ RequestTrue'
    OBVIOUS
  <2>1. ASSUME NEW c \in Cards, MintActive(c) PROVE StoreTrue' /\ RequestTrue'
    <3>1. StoreTrue' /\ CommitKeepsRow
      BY <2>1, MintKeepsStore
    <3>2. Observed
      BY <2>1 DEF MintActive
    <3>3. QED
      BY <3>1, <3>2, ObservedKeeps DEF CommitKeepsRow
  <2>2. ASSUME NEW c \in Cards, RetierCounted(c) PROVE StoreTrue' /\ RequestTrue'
    <3>1. StoreTrue' /\ CommitKeepsRow
      BY <2>2, RetierKeepsStore
    <3>2. Observed
      BY <2>2 DEF RetierCounted
    <3>3. QED
      BY <3>1, <3>2, ObservedKeeps DEF CommitKeepsRow
  <2>3. ASSUME NEW S \in SUBSET Cards, NEW to \in Lowered, Flip(S, to)
        PROVE  StoreTrue' /\ RequestTrue'
    <3>1. StoreTrue' /\ CommitKeepsRow
      BY <2>3, FlipKeepsStore
    <3>2. Observed
      BY <2>3 DEF Flip, StatusCommit
    <3>3. QED
      BY <3>1, <3>2, ObservedKeeps DEF CommitKeepsRow
  <2>4. ASSUME NEW retract \in SUBSET Cards, NEW restore \in SUBSET Cards,
               Reconcile(retract, restore)
        PROVE  StoreTrue' /\ RequestTrue'
    <3>1. StoreTrue' /\ CommitKeepsRow
      BY <2>4, ReconcileKeepsStore
    <3>2. Observed
      BY <2>4 DEF Reconcile, StatusCommit
    <3>3. QED
      BY <3>1, <3>2, ObservedKeeps DEF CommitKeepsRow
  <2>5. CASE Refresh
    BY <2>5, RefreshKeepsStore, RefreshKeepsRequest
  <2>6. CASE Expire
    BY <2>6, ExpireKeeps
  <2>7. CASE Read
    <3>1. StoreTrue'
      <4>1. UNCHANGED <<tiers, status, aggregate, refreshes>>
        BY <2>7 DEF Read, Request, CheckBasis, ServeStored, CountLive, Respond
      <4>2. QED
        BY <4>1 DEF StoreTrue, tiers
    <3>2. RequestTrue'
      BY <2>7, RequestKeeps, CheckBasisKeeps, ServeStoredKeeps, CountLiveKeeps, RespondKeeps
         DEF Read
    <3>3. QED
      BY <3>1, <3>2
  <2>8. CASE UNCHANGED countVars
    <3>1. \A d, filter : Slice(d, filter)' = Slice(d, filter)
      BY <2>8 DEF Slice, KeyOf, countVars, tiers
    <3>2. StoreTrue'
      BY <2>8 DEF StoreTrue, countVars, tiers
    <3>3. RequestTrue'
      BY <2>8, <3>1 DEF RequestTrue, Timely, Answered, countVars
    <3>4. QED
      BY <3>2, <3>3
  <2>9. QED
    BY <2>1, <2>2, <2>3, <2>4, <2>5, <2>6, <2>7, <2>8 DEF CountsNext, StoreCommit
<1>4. QED
  BY <1>1, <1>2, <1>3, CountsKeepTrail, TypeCorrect, PTL DEF AggregatesSpec
=============================================================================
