---------------------------- MODULE ScoringProofs ----------------------------
(***************************************************************************)
(* What the scores guarantee for every set of cards, rules, knobs and seed *)
(* files: a stored score is what its stamp gives, a pass touches only the  *)
(* active cards, a quiet pass leaves nothing to the next one, a combo rule *)
(* fires for the entities its clauses describe, and a knob the Admin page  *)
(* calls inert moves no score.                                             *)
(***************************************************************************)
EXTENDS Scoring, TLAPS

USE ScoringAssumption, FirstAssumption DEF ScoringAssumption, FirstAssumption

Statuses == {"absent", "active", "decayed", "retracted", "superseded"}
PassFields == {"stamp", "base", "rules", "rows", "profiles", "day", "torn"}
ValidRules == {r \in tuning.rules : ValidRule(r)}

TypeOK ==
    /\ tuning \in Tunings
    /\ profile \in [Entities -> Profiles]
    /\ status \in [Cards -> Statuses]
    /\ score = [c \in Cards |-> score[c]]
    /\ pc \in {"idle", "rules", "rows", "store"}

(* What a running pass has read is what is stored still, unless a seed load *)
(* fell into it; its rows are the active cards in any case.                 *)
PassInv ==
    pc # "idle" =>
      /\ DOMAIN pass = PassFields
      /\ pass.rows = IF pc = "store" THEN ActiveCards ELSE {}
      /\ ~pass.torn => /\ pass.stamp = tuning /\ pass.base = tuning.base
                       /\ pass.profiles = profile /\ pass.day = today
                       /\ pass.torn = FALSE
                       /\ pc # "rules" => pass.rules = ValidRules

(* Two fields of a tuning, set by the editor.                               *)
LEMMA EditedTuning ==
    ASSUME NEW K, NEW W, NEW T, NEW H, NEW B, NEW R,
           NEW t \in [weight : [K -> W], half : [T -> H], base : B, rules : R],
           NEW k \in K, NEW w \in W, NEW x \in T, NEW h \in H
    PROVE  [t EXCEPT !.weight[k] = w, !.half[x] = h]
             \in [weight : [K -> W], half : [T -> H], base : B, rules : R]
  BY Zenon

LEMMA SeededTuning ==
    ASSUME NEW A, NEW C, NEW B, NEW R,
           NEW t \in [weight : A, half : C, base : B, rules : R], NEW b \in B, NEW r \in R
    PROVE  [t EXCEPT !.base = b, !.rules = r] \in [weight : A, half : C, base : B, rules : R]
  BY Zenon

(* The fields of a pass that has just begun.                                *)
LEMMA BegunPass ==
    ASSUME NEW t
    PROVE  LET p == [PassOn(t) EXCEPT !.rules = {}, !.rows = {}]
           IN  /\ DOMAIN p = PassFields
               /\ p.stamp = t /\ p.base = t.base /\ p.rules = {} /\ p.rows = {}
               /\ p.profiles = profile /\ p.day = today /\ p.torn = FALSE
  BY Zenon DEF PassOn, PassFields

(* The fields of a pass that reads everything at once.                      *)
LEMMA PassOnFields ==
    ASSUME NEW t
    PROVE  /\ PassOn(t).stamp = t /\ PassOn(t).base = t.base /\ PassOn(t).rows = ActiveCards
           /\ PassOn(t).rules = {r \in t.rules : ValidRule(r)}
           /\ PassOn(t).profiles = profile /\ PassOn(t).day = today /\ PassOn(t).torn = FALSE
  BY DEF PassOn

(* What a pass stores, whoever runs it.                                     *)
LEMMA StoreFacts ==
    ASSUME TypeOK, NEW p, Store(p)
    PROVE  /\ status' \in [Cards -> Statuses]
           /\ score' = [c \in Cards |-> score'[c]]
           /\ \A c \in Cards : c \notin p.rows =>
                status'[c] = status[c] /\ score'[c] = score[c]
           /\ \A c \in p.rows \cap Cards :
                /\ status'[c] \in {"active", "decayed"}
                /\ score'[c] = Scored(p, c, ActiveCards)
  BY DEF Store, NewScore, NewStatus, TypeOK, Statuses

LEMMA EditorTypes ==
    ASSUME TypeOK, NEW k \in Knobs, NEW w \in Weights, NEW t \in Triggers, NEW hl \in HalfLives,
           UpdateTuning(k, w, t, hl)
    PROVE  TypeOK'
  <1>1. tuning' \in Tunings
    <2>1. tuning' = [tuning EXCEPT !.weight[k] = w, !.half[t] = hl]
      BY DEF UpdateTuning
    <2>2. QED
      BY <2>1, EditedTuning DEF Tunings, TypeOK
  <1>2. PICK p : Store(p)
    BY DEF UpdateTuning
  <1>3. QED
    BY <1>1, <1>2, StoreFacts DEF TypeOK, UpdateTuning, run

LEMMA SeedTypes ==
    ASSUME TypeOK, NEW f \in SeedFiles, LoadSeeds(f)
    PROVE  TypeOK'
  <1>1. /\ f.base \in {g.base : g \in SeedFiles}
        /\ LoadedRules(f) \in SUBSET UNION {g.rules : g \in SeedFiles}
    BY DEF TypeOK, Tunings, LoadedRules
  <1>2. tuning' = [tuning EXCEPT !.base = f.base, !.rules = LoadedRules(f)]
    BY DEF LoadSeeds
  <1>3. tuning' \in Tunings
    BY <1>1, <1>2, SeededTuning DEF Tunings, TypeOK
  <1>4. QED
    BY <1>3 DEF TypeOK, LoadSeeds

(* Types, whatever passes, editors, seed loads and the classifier do.       *)
THEOREM TypeCorrect == Spec => []TypeOK
<1>1. Init => TypeOK
  BY DEF Init, InitScores, TypeOK, Statuses
<1>2. TypeOK /\ [Next]_vars => TypeOK'
  <2> SUFFICES ASSUME TypeOK, [Next]_vars PROVE TypeOK'
    OBVIOUS
  <2>1. CASE BeginPass \/ ReadRules \/ ReadRows \/ PassDies
    BY <2>1 DEF BeginPass, ReadRules, ReadRows, PassDies, store, TypeOK
  <2>2. CASE StoreScores
    BY <2>2, StoreFacts DEF StoreScores, TypeOK
  <2>3. ASSUME NEW k \in Knobs, NEW w \in Weights, NEW t \in Triggers, NEW hl \in HalfLives,
               UpdateTuning(k, w, t, hl)
        PROVE  TypeOK'
    BY <2>3, EditorTypes
  <2>4. ASSUME NEW e \in Entities, NEW p \in Profiles, EditProfile(e, p) PROVE TypeOK'
    BY <2>4 DEF EditProfile, TypeOK, run
  <2>5. ASSUME NEW f \in SeedFiles, LoadSeeds(f) PROVE TypeOK'
    BY <2>5, SeedTypes
  <2>6. ASSUME NEW c \in Cards, Emit(c) \/ Retract(c) \/ Supersede(c) PROVE TypeOK'
    BY <2>6 DEF Emit, Retract, Supersede, TypeOK, Statuses, run
  <2>7. CASE DeriveObligations \/ RederiveApplicability \/ NewBuild \/ Tomorrow
    BY <2>7 DEF DeriveObligations, RederiveApplicability, NewBuild, Tomorrow, store, run, TypeOK
  <2>8. CASE UNCHANGED vars
    BY <2>8 DEF vars, store, run, TypeOK
  <2>9. QED
    BY <2>1, <2>2, <2>3, <2>4, <2>5, <2>6, <2>7, <2>8 DEF Next, Pass
<1>3. QED
  BY <1>1, <1>2, PTL DEF Spec

-----------------------------------------------------------------------------
(* The reads of a pass keep the invariant.                                  *)
LEMMA ReadsKeep ==
    ASSUME TypeOK, PassInv, BeginPass \/ ReadRules \/ ReadRows
    PROVE  PassInv'
  <1>1. CASE BeginPass
    <2>1. /\ pass' = [PassOn(tuning) EXCEPT !.rules = {}, !.rows = {}]
          /\ pc' = "rules" /\ UNCHANGED <<tuning, profile, status, today>>
      BY <1>1 DEF BeginPass, store, count
    <2>2. QED
      BY <2>1, BegunPass DEF PassInv
  <1>2. CASE ReadRules
    <2>1. /\ pc = "rules" /\ pc' = "rows" /\ UNCHANGED <<tuning, profile, status, today>>
          /\ pass' = [pass EXCEPT !.rules = ValidRules]
      BY <1>2 DEF ReadRules, store, count, ValidRules
    <2>2. ValidRules' = ValidRules /\ ActiveCards' = ActiveCards
      BY <2>1 DEF ValidRules, ActiveCards
    <2>3. /\ DOMAIN pass' = PassFields /\ pass'.rules = ValidRules
          /\ \A x \in PassFields \ {"rules"} : pass'[x] = pass[x]
      BY <2>1 DEF PassInv, PassFields
    <2>4. QED
      BY <2>1, <2>2, <2>3 DEF PassInv, PassFields
  <1>3. CASE ReadRows
    <2>1. /\ pc = "rows" /\ pc' = "store" /\ UNCHANGED <<tuning, profile, status, today>>
          /\ pass' = [pass EXCEPT !.rows = ActiveCards, !.base = tuning.base]
      BY <1>3 DEF ReadRows, store, count
    <2>2. ValidRules' = ValidRules /\ ActiveCards' = ActiveCards
      BY <2>1 DEF ValidRules, ActiveCards
    <2>3. DOMAIN pass = PassFields
      BY <2>1 DEF PassInv
    <2>4. /\ DOMAIN pass' = PassFields /\ pass'.rows = ActiveCards /\ pass'.base = tuning.base
          /\ \A x \in PassFields \ {"rows", "base"} : pass'[x] = pass[x]
      <3>1. "rows" \in PassFields /\ "base" \in PassFields
        BY DEF PassFields
      <3>2. DOMAIN pass' = PassFields /\ pass'.rows = ActiveCards /\ pass'.base = tuning.base
        BY ONLY <2>1, <2>3, <3>1, Zenon
      <3>3. ASSUME NEW x \in PassFields \ {"rows", "base"} PROVE pass'[x] = pass[x]
        BY ONLY <2>1, <2>3, <3>3, Zenon
      <3>4. QED
        BY <3>2, <3>3
    <2>5. QED
      BY <2>1, <2>2, <2>4 DEF PassInv, PassFields
  <1>4. QED
    BY <1>1, <1>2, <1>3

(* Only a seed load falls between the reads of a pass.                      *)
LEMMA PassInvariant == Spec => []PassInv
<1>1. Init => PassInv
  BY DEF Init, InitScores, PassInv
<1>2. TypeOK /\ PassInv /\ [Next]_vars => PassInv'
  <2> SUFFICES ASSUME TypeOK, PassInv, [Next]_vars PROVE PassInv'
    OBVIOUS
  <2>1. CASE BeginPass \/ ReadRules \/ ReadRows
    BY <2>1, ReadsKeep
  <2>2. CASE StoreScores \/ PassDies
    BY <2>2 DEF StoreScores, PassDies, PassInv
  <2>3. ASSUME NEW f \in SeedFiles, LoadSeeds(f) PROVE PassInv'
    <3>1. CASE Idle
      BY <2>3, <3>1 DEF LoadSeeds, Idle, PassInv
    <3>2. CASE ~Idle
      <4>1. /\ pass' = [pass EXCEPT !.torn = TRUE] /\ pc' = pc /\ pc # "idle"
            /\ ActiveCards' = ActiveCards
        BY <2>3, <3>2 DEF LoadSeeds, Idle, ActiveCards
      <4>2. DOMAIN pass' = PassFields /\ pass'.torn = TRUE /\ pass'.rows = pass.rows
        BY <4>1 DEF PassInv, PassFields
      <4>3. QED
        BY <4>1, <4>2 DEF PassInv
    <3>3. QED
      BY <3>1, <3>2
  <2>4. CASE Idle /\ pc' = pc
    BY <2>4 DEF Idle, PassInv
  <2>5. CASE UNCHANGED vars
    <3>1. UNCHANGED <<tuning, profile, status, pass, pc, today>>
      BY <2>5 DEF vars, store, run, count
    <3>2. ValidRules' = ValidRules /\ ActiveCards' = ActiveCards
      BY <3>1 DEF ValidRules, ActiveCards
    <3>3. QED
      BY <3>1, <3>2 DEF PassInv
  <2>6. QED
    BY <2>1, <2>2, <2>3, <2>4, <2>5
       DEF Next, Pass, UpdateTuning, EditProfile, Emit, Retract, Supersede, Moves,
           DeriveObligations, RederiveApplicability, NewBuild, Tomorrow, run
<1>3. QED
  BY <1>1, <1>2, TypeCorrect, PTL DEF Spec

-----------------------------------------------------------------------------
(* What is said of a card whose score columns are s.                        *)
ExplainedBy(s, c) ==
    /\ s.base = s.stamp.base[TriggerOf[c]]
    /\ s.half = s.stamp.half[TriggerOf[c]]
    /\ s.scope = Weight(s.stamp.weight, "scope", ScopeOf[c])
    /\ s.fit = Fit(s.stamp.weight, c, s.seen)
    /\ s.combo \subseteq s.stamp.rules

LEMMA ScoredExplained ==
    ASSUME NEW p, NEW c \in Cards, NEW active,
           p.base = p.stamp.base, p.rules \subseteq p.stamp.rules
    PROVE  ExplainedBy(Scored(p, c, active), c)
  <1>1. Firing(c, p.rules, p.profiles, active) \subseteq p.rules
    BY DEF Firing
  <1>2. QED
    BY <1>1 DEF Scored, ExplainedBy

LEMMA TornStays ==
    ASSUME NEW p, NEW c, NEW active
    PROVE  Scored(p, c, active).torn = p.torn
  BY DEF Scored

(* A pass on consistent reads, or a torn one, leaves explained scores.      *)
LEMMA StoreExplains ==
    ASSUME TypeOK, StampExplains, NEW p, Store(p),
           p.torn \/ (p.base = p.stamp.base /\ p.rules \subseteq p.stamp.rules)
    PROVE  StampExplains'
  <1> SUFFICES ASSUME NEW c \in Cards, score'[c] # Unscored, ~score'[c].torn
               PROVE  ExplainedBy(score'[c], c)
    BY DEF StampExplains, Explained, ExplainedBy
  <1>1. CASE c \in p.rows
    <2>1. score'[c] = Scored(p, c, ActiveCards)
      BY <1>1, StoreFacts
    <2>2. ~p.torn
      BY <2>1, TornStays
    <2>3. QED
      BY <2>1, <2>2, ScoredExplained
  <1>2. CASE c \notin p.rows
    <2>1. score'[c] = score[c]
      BY <1>2, StoreFacts
    <2>2. QED
      BY <2>1 DEF StampExplains, Explained, ExplainedBy
  <1>3. QED
    BY <1>1, <1>2

(* Every score can be reproduced from its stamp, whatever was edited,       *)
(* loaded, emitted or retracted while its pass ran.                         *)
THEOREM StampTrue == Spec => []StampExplains
<1>1. Init => StampExplains
  BY DEF Init, InitScores, StampExplains
<1>2. TypeOK /\ PassInv /\ StampExplains /\ [Next]_vars => StampExplains'
  <2> SUFFICES ASSUME TypeOK, PassInv, StampExplains, [Next]_vars PROVE StampExplains'
    OBVIOUS
  <2>1. CASE StoreScores
    <3>1. Store(pass) /\ pc = "store"
      BY <2>1 DEF StoreScores
    <3>2. pass.torn \/ (pass.base = pass.stamp.base /\ pass.rules \subseteq pass.stamp.rules)
      BY <3>1 DEF PassInv, ValidRules
    <3>3. QED
      BY <3>1, <3>2, StoreExplains
  <2>2. ASSUME NEW k \in Knobs, NEW w \in Weights, NEW t \in Triggers, NEW hl \in HalfLives,
               UpdateTuning(k, w, t, hl)
        PROVE  StampExplains'
    <3>1. PICK new : Store(PassOn(new))
      BY <2>2 DEF UpdateTuning
    <3>2. /\ PassOn(new).base = PassOn(new).stamp.base
          /\ PassOn(new).rules \subseteq PassOn(new).stamp.rules
      <4>1. PassOn(new).rules = {r \in new.rules : ValidRule(r)} /\ PassOn(new).stamp = new
        BY PassOnFields
      <4>2. PassOn(new).base = new.base
        BY PassOnFields
      <4>3. QED
        BY <4>1, <4>2
    <3>3. QED
      BY <3>1, <3>2, StoreExplains
  <2>3. CASE UNCHANGED score
    BY <2>3 DEF StampExplains, Explained
  <2>4. QED
    BY <2>1, <2>2, <2>3
       DEF Next, Pass, BeginPass, ReadRules, ReadRows, PassDies, EditProfile, LoadSeeds, Emit,
           Retract, Supersede, DeriveObligations, RederiveApplicability, NewBuild, Tomorrow,
           store, vars
<1>3. QED
  BY <1>1, <1>2, TypeCorrect, PassInvariant, PTL DEF Spec

-----------------------------------------------------------------------------
(* No pass touches a card that is not active, whatever ran between its      *)
(* reads and its UPDATEs, and none but the classifier brings a card back.   *)
Frozen ==
    \A c \in Cards :
      /\ score'[c] # score[c] => status[c] = "active"
      /\ status'[c] = "active" => status[c] \in {"absent", "active", "retracted"}
      /\ status[c] # "active" /\ status'[c] = "active" => pc = "idle"

LEMMA StoreFreezes ==
    ASSUME TypeOK, NEW p, Store(p), p.rows \subseteq ActiveCards
    PROVE  Frozen
  <1> SUFFICES ASSUME NEW c \in Cards, status[c] # "active"
               PROVE  score'[c] = score[c] /\ status'[c] = status[c]
    BY DEF Frozen
  <1>1. c \notin p.rows
    BY DEF ActiveCards
  <1>2. QED
    BY <1>1, StoreFacts

THEOREM ScoresFreeze == Spec => FrozenScores
<1>1. TypeOK /\ PassInv /\ [Next]_vars => [Frozen]_vars
  <2> SUFFICES ASSUME TypeOK, PassInv, [Next]_vars, ~UNCHANGED vars PROVE Frozen
    OBVIOUS
  <2>1. CASE StoreScores
    BY <2>1, StoreFreezes DEF StoreScores, PassInv
  <2>2. ASSUME NEW k \in Knobs, NEW w \in Weights, NEW t \in Triggers, NEW hl \in HalfLives,
               UpdateTuning(k, w, t, hl)
        PROVE  Frozen
    <3>1. PICK new : Store(PassOn(new))
      BY <2>2 DEF UpdateTuning
    <3>2. PassOn(new).rows \subseteq ActiveCards
      BY PassOnFields
    <3>3. QED
      BY <3>1, <3>2, StoreFreezes
  <2>3. ASSUME NEW c \in Cards, Emit(c) \/ Retract(c) \/ Supersede(c) PROVE Frozen
    BY <2>3 DEF Emit, Retract, Supersede, Moves, Idle, Frozen, TypeOK
  <2>4. CASE UNCHANGED <<score, status>>
    BY <2>4 DEF Frozen
  <2>5. QED
    BY <2>1, <2>2, <2>3, <2>4
       DEF Next, Pass, BeginPass, ReadRules, ReadRows, PassDies, EditProfile, LoadSeeds,
           DeriveObligations, RederiveApplicability, NewBuild, Tomorrow, store
<1>2. QED
  BY <1>1, TypeCorrect, PassInvariant, PTL DEF Spec, FrozenScores, Frozen

-----------------------------------------------------------------------------
(* What a pass would store depends on the obligations, and on what it read. *)
LEMMA SameObligations ==
    ASSUME UNCHANGED obligations
    PROVE  \A p, c, active : Scored(p, c, active)' = Scored(p, c, active)
  <1>1. StoredRules' = StoredRules
    BY DEF StoredRules
  <1>2. ASSUME NEW e, NEW s, NEW x, NEW i, NEW active
        PROVE  ClauseHolds(e, s, x, i, active)' <=> ClauseHolds(e, s, x, i, active)
    BY <1>1 DEF ClauseHolds
  <1>3. ASSUME NEW e, NEW s, NEW x, NEW active
        PROVE  Evaluate(e, s, x, active)' <=> Evaluate(e, s, x, active)
    BY <1>2 DEF Evaluate
  <1>4. ASSUME NEW c, NEW rules, NEW profiles, NEW active
        PROVE  Firing(c, rules, profiles, active)' = Firing(c, rules, profiles, active)
    BY <1>3 DEF Firing
  <1>5. QED
    BY <1>4 DEF Scored

(* A pass that decays nothing, on consistent reads, settles every card.     *)
LEMMA StoreSettles ==
    ASSUME TypeOK, PassInv, StoreScores, status' = status, ~pass.torn
    PROVE  Settled'
  <1>1. /\ pc = "store" /\ Store(pass) /\ pass.rows = ActiveCards
        /\ UNCHANGED <<obligations, tuning, profile, today>>
    BY DEF StoreScores, PassInv, register, count
  <1>2. ActiveCards' = ActiveCards /\ PassOn(tuning)' = PassOn(tuning)
    BY <1>1 DEF ActiveCards, PassOn
  <1>3. \A c \in Cards : Scored(pass, c, ActiveCards) = Scored(PassOn(tuning), c, ActiveCards)
    <2>1. /\ pass.stamp = tuning /\ pass.base = tuning.base /\ pass.rules = ValidRules
          /\ pass.profiles = profile /\ pass.day = today /\ pass.torn = FALSE
      BY <1>1 DEF PassInv
    <2>2. /\ PassOn(tuning).stamp = tuning /\ PassOn(tuning).base = tuning.base
          /\ PassOn(tuning).rules = ValidRules /\ PassOn(tuning).profiles = profile
          /\ PassOn(tuning).day = today /\ PassOn(tuning).torn = FALSE
      BY DEF PassOn, ValidRules
    <2>3. QED
      BY <2>1, <2>2 DEF Scored
  <1>4. ASSUME NEW c \in ActiveCards PROVE score'[c] = Scored(PassOn(tuning), c, ActiveCards)
    BY <1>1, <1>3, StoreFacts DEF ActiveCards
  <1>5. \A c : Scored(PassOn(tuning), c, ActiveCards)' = Scored(PassOn(tuning), c, ActiveCards)
    BY <1>1, <1>2, SameObligations
  <1>6. QED
    BY <1>2, <1>4, <1>5 DEF Settled

THEOREM PassesSettle == Spec => PassSettles
<1>1. TypeOK /\ PassInv /\ [Next]_vars =>
        [pc = "store" /\ pc' = "idle" /\ score' # score /\ status' = status /\ ~pass.torn
           => Settled']_vars
  <2> SUFFICES ASSUME TypeOK, PassInv, [Next]_vars, pc = "store", pc' = "idle",
                      score' # score, status' = status, ~pass.torn
               PROVE  Settled'
    OBVIOUS
  <2>1. StoreScores
    BY DEF Next, Pass, BeginPass, ReadRules, ReadRows, PassDies, UpdateTuning, EditProfile,
           LoadSeeds, Emit, Retract, Supersede, Moves, Idle, DeriveObligations,
           RederiveApplicability, NewBuild, Tomorrow, store, run, vars
  <2>2. QED
    BY <2>1, StoreSettles
<1>2. QED
  BY <1>1, TypeCorrect, PassInvariant, PTL DEF Spec, PassSettles

-----------------------------------------------------------------------------
(* The two readers of the stored predicates agree: the combo engine finds   *)
(* an obligation when the calendar shows one.                               *)
LEMMA ReadersAgree ==
    ASSUME NEW e, NEW subsector
    PROVE  ObligationApplies(e, subsector, StoredRules)
             <=> Calendar(e, subsector, obligations).shown # {}
  BY DEF ObligationApplies, Calendar, StoredRules, Admitted

(* A forbidden word is read against the one trigger_any before it.          *)
LEMMA TextOfTheOne ==
    ASSUME NEW expr \in Seq(Clauses), WellFormed(expr), NEW i \in DOMAIN expr,
           expr[i].kind = "not_keyword"
    PROVE  \E j \in DOMAIN expr :
             /\ expr[j].kind = "trigger_any" /\ TextTriggers(expr, i) = expr[j].of
             /\ \A k \in DOMAIN expr : expr[k].kind = "trigger_any" => k = j
  <1>1. PICK j \in 1 .. i - 1 : expr[j].kind = "trigger_any"
    BY DEF WellFormed
  <1>2. DOMAIN expr = 1 .. Len(expr) /\ i \in 1 .. Len(expr) /\ Len(expr) \in Nat
    OBVIOUS
  <1>3. j \in DOMAIN expr /\ 1 .. i - 1 \subseteq DOMAIN expr
    BY <1>2
  <1>4. \A k \in DOMAIN expr : expr[k].kind = "trigger_any" => k = j
    BY <1>1, <1>3 DEF WellFormed
  <1>5. {k \in 1 .. i - 1 : expr[k].kind = "trigger_any"} = {j}
    BY <1>1, <1>3, <1>4
  <1>6. (CHOOSE m \in {j} : \A k \in {j} : k <= m) = j
    <2>1. j <= j
      BY <1>1
    <2>2. QED
      BY <2>1
  <1>7. TextTriggers(expr, i) = expr[j].of
    BY <1>5, <1>6 DEF TextTriggers
  <1>8. QED
    BY <1>1, <1>3, <1>4, <1>7

LEMMA EvaluatesAsWritten ==
    ASSUME NEW expr \in Seq(Clauses), WellFormed(expr), NEW e, NEW subsector, NEW active
    PROVE  Evaluate(e, subsector, expr, active) <=> Means(e, subsector, expr, active)
  <1> DEFINE anys      == {j \in DOMAIN expr : expr[j].kind = "trigger_any"}
             nots      == {j \in DOMAIN expr : expr[j].kind = "not_keyword"}
             applies   == ObligationApplies(e, subsector, StoredRules)
             basis(j)  == Matched(e, expr[j].of, active)
             forbidden == UNION {expr[j].of : j \in nots}
  <1>1. ASSUME NEW i \in DOMAIN expr
        PROVE  expr[i].kind \in {"trigger_any", "obligation", "not_keyword"}
    <2>1. expr[i] \in Clauses
      BY <1>1
    <2>2. expr[i].kind \in {"trigger_any", "obligation", "not_keyword", "malformed"}
      BY <2>1 DEF Clauses
    <2>3. QED
      BY <1>1, <2>2 DEF WellFormed
  <1>2. Evaluate(e, subsector, expr, active) <=>
          /\ \A i \in anys : basis(i) # {}
          /\ \A i \in DOMAIN expr : expr[i].kind = "obligation" => applies
          /\ \A i \in nots : \A c \in Matched(e, TextTriggers(expr, i), active) :
               WordsOf[c] \cap expr[i].of = {}
    BY <1>1 DEF Evaluate, ClauseHolds
  <1>3. (\A i \in nots : \A c \in Matched(e, TextTriggers(expr, i), active) :
           WordsOf[c] \cap expr[i].of = {})
          <=> \A j \in anys : \A c \in basis(j) : WordsOf[c] \cap forbidden = {}
    <2>1. \A i \in nots, j \in anys : TextTriggers(expr, i) = expr[j].of
      BY TextOfTheOne
    <2>2. \A i \in nots : \E j \in anys : TRUE
      BY TextOfTheOne
    <2>3. \A W : W \cap forbidden = {} <=> \A i \in nots : W \cap expr[i].of = {}
      OBVIOUS
    <2>4. \A i \in nots, j \in anys : Matched(e, TextTriggers(expr, i), active) = basis(j)
      BY <2>1
    <2> HIDE DEF anys, nots, forbidden, basis
    <2>5. ASSUME \A i \in nots : \A c \in Matched(e, TextTriggers(expr, i), active) :
                   WordsOf[c] \cap expr[i].of = {},
                 NEW j \in anys, NEW c \in basis(j)
          PROVE  WordsOf[c] \cap forbidden = {}
      <3>1. \A i \in nots : WordsOf[c] \cap expr[i].of = {}
        BY <2>4, <2>5
      <3>2. QED
        BY <2>3, <3>1
    <2>6. ASSUME \A j \in anys : \A c \in basis(j) : WordsOf[c] \cap forbidden = {},
                 NEW i \in nots, NEW c \in Matched(e, TextTriggers(expr, i), active)
          PROVE  WordsOf[c] \cap expr[i].of = {}
      <3>1. PICK j \in anys : TRUE
        BY <2>2, <2>6
      <3>2. c \in basis(j)
        BY <2>4, <2>6
      <3>3. QED
        BY <2>3, <2>6, <3>2
    <2>7. QED
      BY <2>5, <2>6
  <1>4. Means(e, subsector, expr, active) <=>
          /\ \A j \in anys : basis(j) # {}
          /\ (\E i \in DOMAIN expr : expr[i].kind = "obligation") => applies
          /\ \A j \in anys : \A c \in basis(j) : WordsOf[c] \cap forbidden = {}
    <2> DEFINE clauses(k) == {expr[i] : i \in {j \in DOMAIN expr : expr[j].kind = k}}
    <2>1. UNION {q.of : q \in clauses("not_keyword")} = forbidden
      OBVIOUS
    <2>2. /\ Means(e, subsector, expr, active) <=>
               /\ \A q \in clauses("trigger_any") : Matched(e, q.of, active) # {}
               /\ clauses("obligation") # {} => applies
               /\ \A q \in clauses("trigger_any") : \A c \in Matched(e, q.of, active) :
                    WordsOf[c] \cap forbidden = {}
      BY <2>1, ReadersAgree DEF Means
    <2>3. clauses("obligation") # {} <=> \E i \in DOMAIN expr : expr[i].kind = "obligation"
      OBVIOUS
    <2>4. (\A q \in clauses("trigger_any") : Matched(e, q.of, active) # {})
            <=> \A j \in anys : basis(j) # {}
      OBVIOUS
    <2> HIDE DEF forbidden
    <2>5. (\A q \in clauses("trigger_any") : \A c \in Matched(e, q.of, active) :
             WordsOf[c] \cap forbidden = {})
            <=> \A j \in anys : \A c \in basis(j) : WordsOf[c] \cap forbidden = {}
      OBVIOUS
    <2> HIDE DEF clauses, anys, basis, applies
    <2>6. QED
      BY <2>2, <2>3, <2>4, <2>5
  <1>5. QED
    BY <1>2, <1>3, <1>4

(* For every rule a seed file may hold, every entity and every set of       *)
(* obligations: an accepted rule fires for the entities it describes.       *)
THEOREM CombosMean == Spec => []CombosMeanClauses
<1>1. CombosMeanClauses
  BY EvaluatesAsWritten DEF CombosMeanClauses
<1>2. QED
  BY <1>1, PTL

-----------------------------------------------------------------------------
(* A weight that is not the one turned stays.                               *)
LEMMA OthersStay ==
    ASSUME NEW weights \in [Knobs -> Weights], NEW k \in Knobs, NEW w \in Weights
    PROVE  \A kind, key : <<kind, key>> # k =>
             Weight([weights EXCEPT ![k] = w], kind, key) = Weight(weights, kind, key)
  BY DEF Weight

(* The weights the score of an active card of an entity reads are live.     *)
LEMMA ReadKnobsLive ==
    ASSUME NEW c \in ActiveCards, EntityOf[c] # NoEntity
    PROVE  LET p   == profile[EntityOf[c]]
               own == <<"applicability", p.subsector>>
           IN  /\ {<<"subsector", p.subsector>>, <<"coverage", p.coverage>>} \subseteq LiveKnobs
               /\ ScopeOf[c] # "regulatory_calendar" => <<"richness", p.richness>> \in LiveKnobs
               /\ ScopeOf[c] = "regulatory_calendar" /\ own \in Knobs => own \in LiveKnobs
               /\ ScopeOf[c] = "regulatory_calendar" /\ own \notin Knobs =>
                    <<"applicability", "default">> \in LiveKnobs
  <1>1. KnobsRead(c) \subseteq LiveKnobs
    BY DEF LiveKnobs
  <1>2. QED
    BY <1>1 DEF KnobsRead

(* Turning a knob Admin shows as unused moves no factor of an active        *)
(* card's score, whatever the cards, the entities and the knobs are.        *)
THEOREM KnobsInert == Spec => []InertKnobs
<1>1. TypeOK => InertKnobs
  <2> SUFFICES ASSUME TypeOK, NEW k \in Knobs \ LiveKnobs, NEW w \in Weights,
                      NEW c \in ActiveCards
               PROVE  LET turned == [tuning.weight EXCEPT ![k] = w]
                      IN  /\ Fit(turned, c, profile) = Fit(tuning.weight, c, profile)
                          /\ Weight(turned, "scope", ScopeOf[c])
                               = Weight(tuning.weight, "scope", ScopeOf[c])
    BY DEF InertKnobs
  <2> DEFINE weights == tuning.weight
             turned  == [weights EXCEPT ![k] = w]
             p       == profile[EntityOf[c]]
             own     == <<"applicability", p.subsector>>
             default == <<"applicability", "default">>
  <2>1. weights \in [Knobs -> Weights] /\ c \in Cards
    BY DEF TypeOK, Tunings, ActiveCards
  <2>2. <<"scope", ScopeOf[c]>> # k
    BY DEF LiveKnobs, KnobsRead
  <2>3. \A kind, key : <<kind, key>> # k => Weight(turned, kind, key) = Weight(weights, kind, key)
    BY <2>1, OthersStay
  <2> HIDE DEF turned
  <2>4. Weight(turned, "scope", ScopeOf[c]) = Weight(weights, "scope", ScopeOf[c])
    BY <2>2, <2>3
  <2>5. ASSUME EntityOf[c] = NoEntity
        PROVE  Fit(turned, c, profile) = Fit(weights, c, profile)
    <3>1. ScopeOf[c] = "regulatory_calendar" => default # k
      BY <2>5 DEF LiveKnobs, KnobsRead
    <3>2. ScopeOf[c] = "regulatory_calendar" =>
            Weight(turned, "applicability", "default") = Weight(weights, "applicability", "default")
      BY <2>3, <3>1
    <3>3. QED
      BY <2>5, <3>2 DEF Fit
  <2>6. ASSUME EntityOf[c] # NoEntity
        PROVE  Fit(turned, c, profile) = Fit(weights, c, profile)
    <3>1. <<"subsector", p.subsector>> # k /\ <<"coverage", p.coverage>> # k
      BY <2>6, ReadKnobsLive
    <3>2. CASE ScopeOf[c] # "regulatory_calendar"
      <4>1. <<"richness", p.richness>> # k
        BY <2>6, <3>2, ReadKnobsLive
      <4>2. /\ Weight(turned, "richness", p.richness) = Weight(weights, "richness", p.richness)
            /\ Weight(turned, "subsector", p.subsector)
                 = Weight(weights, "subsector", p.subsector)
            /\ Weight(turned, "coverage", p.coverage) = Weight(weights, "coverage", p.coverage)
        BY <2>3, <3>1, <4>1
      <4> HIDE DEF p
      <4>3. AccountFit(turned, c, p) = AccountFit(weights, c, p)
        BY <3>2, <4>2 DEF AccountFit
      <4>4. QED
        BY <2>6, <4>3 DEF Fit, p
    <3>3. CASE ScopeOf[c] = "regulatory_calendar"
      <4>1. (own \in Knobs => own # k) /\ (own \notin Knobs => default # k)
        BY <2>6, <3>3, ReadKnobsLive
      <4>2. own \in Knobs => turned[own] = weights[own]
        BY <2>1, <4>1 DEF turned
      <4>3. own \notin Knobs =>
              Weight(turned, "applicability", "default")
                = Weight(weights, "applicability", "default")
        BY <2>3, <4>1
      <4>4. /\ Weight(turned, "subsector", p.subsector)
                 = Weight(weights, "subsector", p.subsector)
            /\ Weight(turned, "coverage", p.coverage) = Weight(weights, "coverage", p.coverage)
        BY <2>3, <3>1
      <4> HIDE DEF p
      <4>5. Applies(turned, p.subsector) = Applies(weights, p.subsector)
        BY <4>2, <4>3 DEF Applies
      <4>6. AccountFit(turned, c, p) = AccountFit(weights, c, p)
        BY <3>3, <4>4, <4>5 DEF AccountFit
      <4>7. QED
        BY <2>6, <4>6 DEF Fit, p
    <3>4. QED
      BY <3>2, <3>3
  <2>7. QED
    BY <2>4, <2>5, <2>6 DEF turned
<1>2. QED
  BY <1>1, TypeCorrect, PTL
=============================================================================
