------------------------------- MODULE Scoring -------------------------------
(***************************************************************************)
(* The scores of the cards (app/scoring.py): the pass over the active      *)
(* cards, the tuning stamped on what it stores, the decay below the        *)
(* threshold, the combo multipliers; with what moves its inputs: the Admin *)
(* tuning editors and entity edits (app/ui/data.py), the seed load, which  *)
(* takes no lock, the classifier's retractions and restores, supersede and *)
(* the obligations.  Weights and multipliers are numbers of Neutral-ths.   *)
(***************************************************************************)
EXTENDS Combos, FiniteSetsExt

CONSTANTS
    ScopeOf,      \* card -> "account", "sector", "regulatory_calendar"
    EventDay,     \* card -> day of event_date
    Knobs,        \* scoring_weights rows: <<weight_kind, key>>
    Weights,      \* the weights an operator sets
    HalfLives,    \* the half-lives an operator sets
    SeedFiles,    \* what the seeds may hold: base strengths and combo rules
    FirstTuning, FirstProfile, FirstCards,  \* a store after its first classification
    Neutral,      \* NEUTRAL_WEIGHT: how many units make 1.0
    Profiles,     \* the subsector, richness and coverage_flag of an entity
    Unscored,     \* a card with NULL score columns
    NoPass,       \* no pass runs
    LastDay, MaxEdits, MaxUpsets, MaxMoves  \* bounds: the clock, edits, seed loads, status moves and kills

ASSUME ScoringAssumption ==
    /\ TriggerOf \in [Cards -> STRING] /\ EntityOf \in [Cards -> Entities \cup {NoEntity}]
    /\ NoEntity \notin Entities /\ EventDay \in [Cards -> Nat]
    /\ \A f \in SeedFiles : \A r \in f.rules : r.expr \in Seq(Clauses)
    /\ Weights \subseteq Nat
    /\ HalfLives \subseteq Nat \ {0} /\ Neutral \in Nat \ {0}
    /\ LastDay \in Nat /\ MaxEdits \in Nat /\ MaxUpsets \in Nat /\ MaxMoves \in Nat

Triggers == {TriggerOf[c] : c \in Cards}

VARIABLES
    tuning,    \* scoring_weights, triggers and combo_rules
    profile,   \* entity -> its profile in watchlist_entities
    status,    \* card -> signals.status, "absent" before it is minted
    score,     \* card -> its score columns
    pass,      \* the running pass: what it has read
    pc,        \* the pass's next step, "idle" without one
    today, edits, upsets, moves

store == <<tuning, profile, status, score>>
run   == <<pass, pc>>
count == <<today, edits, upsets, moves>>
vars  == <<register, store, run, count>>

(* A rule's multiplier is checked by validate_combo_rules and by the pass.  *)
ValidRule(r) == WellFormed(r.expr) /\ r.multiplier > 0

(* A tuning: the operator's weights and half-lives, the seeds' base         *)
(* strengths and rules.                                                     *)
Tunings == [weight : [Knobs -> Weights], half : [Triggers -> HalfLives],
            base : {f.base : f \in SeedFiles}, rules : SUBSET UNION {f.rules : f \in SeedFiles}]

ASSUME FirstAssumption ==
    FirstTuning \in Tunings /\ FirstProfile \in [Entities -> Profiles] /\ FirstCards \subseteq Cards

ActiveCards == {c \in Cards : status[c] = "active"}

-----------------------------------------------------------------------------
(* _weight and account_fit, in Neutral-ths.                                 *)
Weight(weights, kind, key) ==
    IF <<kind, key>> \in Knobs THEN weights[<<kind, key>>] ELSE Neutral

Applies(weights, subsector) ==
    IF <<"applicability", subsector>> \in Knobs
    THEN weights[<<"applicability", subsector>>]
    ELSE Weight(weights, "applicability", "default")

AccountFit(weights, c, p) ==
    LET calendar == ScopeOf[c] = "regulatory_calendar"
        mid == IF calendar THEN Applies(weights, p.subsector)
               ELSE Weight(weights, "richness", p.richness)
    IN  Weight(weights, "subsector", p.subsector) * mid
          * Weight(weights, "coverage", p.coverage)

Fit(weights, c, profiles) ==
    IF EntityOf[c] # NoEntity THEN AccountFit(weights, c, profiles[EntityOf[c]])
    ELSE Neutral * Neutral * (IF ScopeOf[c] = "regulatory_calendar"
                              THEN Weight(weights, "applicability", "default")
                              ELSE Neutral)

Age(c, day) == IF day > EventDay[c] THEN day - EventDay[c] ELSE 0

(* The rules of a pass that fire for a card's entity; the multipliers of    *)
(* those that fire are multiplied.                                          *)
Firing(c, rules, profiles, active) ==
    IF EntityOf[c] = NoEntity THEN {}
    ELSE {r \in rules :
            Evaluate(EntityOf[c], profiles[EntityOf[c]].subsector, r.expr, active)}

(* The score columns a pass writes (compute_score), the stamp and scored_at *)
(* among them; history: the profiles the pass saw, and whether it was torn, *)
(* a seed load between its reads.                                           *)
Scored(p, c, active) ==
    [base   |-> p.base[TriggerOf[c]], half |-> p.stamp.half[TriggerOf[c]],
     age    |-> Age(c, p.day),
     fit    |-> Fit(p.stamp.weight, c, p.profiles),
     scope  |-> Weight(p.stamp.weight, "scope", ScopeOf[c]),
     combo  |-> Firing(c, p.rules, p.profiles, active),
     stamp  |-> p.stamp, day |-> p.day, seen |-> p.profiles, torn |-> p.torn]

(* score < DECAY_THRESHOLD, with 0.5^(age / half) taken to the other side.  *)
BelowThreshold(s) ==
    LET multipliers == MapThenFoldSet(LAMBDA x, y : x * y, 1, LAMBDA r : r.multiplier,
                                      LAMBDA S : CHOOSE r \in S : TRUE, s.combo)
        units == Neutral ^ (4 + Cardinality(s.combo))
    IN  (s.base * s.fit * s.scope * multipliers) ^ s.half < units ^ s.half * 2 ^ s.age

(* What the pass p stores for the cards it read.                            *)
NewScore(p, c) == IF c \in p.rows THEN Scored(p, c, ActiveCards) ELSE score[c]
NewStatus(p, c) ==
    IF c \notin p.rows THEN status[c]
    ELSE IF BelowThreshold(NewScore(p, c)) THEN "decayed" ELSE "active"

Store(p) ==
    /\ score' = [c \in Cards |-> NewScore(p, c)]
    /\ status' = [c \in Cards |-> NewStatus(p, c)]

(* A pass that reads everything at once, on the tuning t: the editors',     *)
(* inside the transaction of their own UPDATEs.                             *)
PassOn(t) == [stamp |-> t, base |-> t.base, rules |-> {r \in t.rules : ValidRule(r)},
              rows |-> ActiveCards, profiles |-> profile, day |-> today, torn |-> FALSE]

(* tuning_usage: the weights Admin calls live, found as the scorer would.   *)
KnobsRead(c) ==
    LET p   == profile[EntityOf[c]]
        own == <<"applicability", p.subsector>>
        calendar == ScopeOf[c] = "regulatory_calendar"
    IN  {<<"scope", ScopeOf[c]>>} \cup
        (IF EntityOf[c] = NoEntity
         THEN {k \in {<<"applicability", "default">>} : calendar}
         ELSE {<<"subsector", p.subsector>>, <<"coverage", p.coverage>>,
               IF ~calendar THEN <<"richness", p.richness>>
               ELSE IF own \in Knobs THEN own ELSE <<"applicability", "default">>})

LiveKnobs == UNION {KnobsRead(c) : c \in ActiveCards}

Idle == pc = "idle"

InitScores ==
    /\ tuning = FirstTuning
    /\ profile = FirstProfile
    /\ status = [c \in Cards |-> IF c \in FirstCards THEN "active" ELSE "absent"]
    /\ score = [c \in Cards |-> Unscored]
    /\ pass = NoPass /\ pc = "idle"
    /\ today = 0 /\ edits = 0 /\ upsets = 0 /\ moves = 0

Init == InitObligations /\ InitScores

-----------------------------------------------------------------------------
(* rescore run by its own main, with the lock, every statement on its own   *)
(* until the first UPDATE: the token and the weights, ...                   *)
BeginPass ==
    /\ Idle
    /\ pass' = [PassOn(tuning) EXCEPT !.rules = {}, !.rows = {}]
    /\ pc' = "rules"
    /\ UNCHANGED <<register, store, count>>

(* ... the enabled rules, those that are not valid skipped, ...             *)
ReadRules ==
    /\ pc = "rules"
    /\ pass' = [pass EXCEPT !.rules = {r \in tuning.rules : ValidRule(r)}]
    /\ pc' = "rows"
    /\ UNCHANGED <<register, store, count>>

(* Wrong on purpose: only the rows another tuning scored are read.          *)
ReadRowsRetuned ==
    /\ pc = "rows"
    /\ pass' = [pass EXCEPT !.base = tuning.base, !.rows =
                   {c \in ActiveCards : score[c] = Unscored \/ score[c].stamp # tuning}]
    /\ pc' = "store"
    /\ UNCHANGED <<register, store, count>>

(* ... the active rows joined with their triggers and entities; ...         *)
ReadRows ==
    /\ pc = "rows"
    /\ pass' = [pass EXCEPT !.rows = ActiveCards, !.base = tuning.base]
    /\ pc' = "store"
    /\ UNCHANGED <<register, store, count>>

(* ... and the UPDATEs, committed together.                                 *)
StoreScores ==
    /\ pc = "store"
    /\ Store(pass)
    /\ pc' = "idle" /\ pass' = NoPass
    /\ UNCHANGED <<register, tuning, profile, count>>

(* The process dies: nothing of the pass is stored.                         *)
PassDies ==
    /\ ~Idle
    /\ pc' = "idle" /\ pass' = NoPass
    /\ upsets < MaxUpsets /\ upsets' = upsets + 1
    /\ UNCHANGED <<register, store, today, edits, moves>>

-----------------------------------------------------------------------------
(* Wrong on purpose: the token is computed before the UPDATEs.              *)
UpdateTuningStamped(k, w, t, hl) ==
    LET edited == [tuning EXCEPT !.weight[k] = w, !.half[t] = hl]
        late   == [base |-> edited.base, half |-> edited.half, weight |-> tuning.weight,
                   rules |-> edited.rules]
    IN  /\ Idle
        /\ edits < MaxEdits /\ edits' = edits + 1
        /\ edited # tuning
        /\ tuning' = edited
        /\ score' = [c \in Cards |->
                       IF c \in ActiveCards
                       THEN [Scored(PassOn(edited), c, ActiveCards) EXCEPT !.stamp = late]
                       ELSE score[c]]
        /\ UNCHANGED <<register, profile, status, run, today, upsets, moves>>

(* update_weight, update_half_life and update_tuning: values that do not    *)
(* validate reject the whole batch; the edit and the pass commit together.  *)
UpdateTuning(k, w, t, hl) ==
    LET edited == [tuning EXCEPT !.weight[k] = w, !.half[t] = hl]
    IN  /\ Idle
        /\ edits < MaxEdits /\ edits' = edits + 1
        /\ edited # tuning
        /\ tuning' = edited
        /\ Store(PassOn(edited))
        /\ UNCHANGED <<register, profile, run, today, upsets, moves>>

(* update_watchlist_entity: no rescore.                                     *)
EditProfile(e, p) ==
    /\ Idle
    /\ edits < MaxEdits /\ edits' = edits + 1
    /\ profile[e] # p
    /\ profile' = [profile EXCEPT ![e] = p]
    /\ UNCHANGED <<register, tuning, status, score, run, today, upsets, moves>>

(* The stored rules after an upsert by rule_id: a rule the files no longer  *)
(* have stays.                                                              *)
LoadedRules(f) ==
    {r \in tuning.rules : \A s \in f.rules : s.id # r.id} \cup f.rules

(* validate_combo_rules: the expression, its triggers, the multiplier.      *)
Loadable(r) ==
    /\ ValidRule(r)
    /\ \A i \in DOMAIN r.expr : r.expr[i].kind = "trigger_any" => r.expr[i].of \subseteq Triggers

(* load_seeds: base strengths and rules follow the files, the operator's    *)
(* weights and half-lives stay; one stored rule that does not validate      *)
(* rolls back the load.  It takes no lock and may fall between the reads of *)
(* a pass.                                                                  *)
LoadSeeds(f) ==
    /\ upsets < MaxUpsets /\ upsets' = upsets + 1
    /\ \A r \in LoadedRules(f) : Loadable(r)
    /\ tuning' = [tuning EXCEPT !.base = f.base, !.rules = LoadedRules(f)]
    /\ pass' = IF Idle THEN NoPass ELSE [pass EXCEPT !.torn = TRUE]
    /\ UNCHANGED <<register, profile, status, score, pc, today, edits, moves>>

-----------------------------------------------------------------------------
(* Wrong on purpose: without the lock, between the reads of a pass.         *)
MovesAnyTime == moves < MaxMoves /\ moves' = moves + 1

Moves == Idle /\ moves < MaxMoves /\ moves' = moves + 1

(* The classifier mints a card, or restores one it emits again.             *)
Emit(c) ==
    /\ Moves
    /\ status[c] \in {"absent", "retracted"}
    /\ status' = [status EXCEPT ![c] = "active"]
    /\ UNCHANGED <<register, tuning, profile, score, run, today, edits, upsets>>

(* It retracts a card it no longer emits, a decayed one included.           *)
Retract(c) ==
    /\ Moves
    /\ status[c] \in {"active", "decayed", "superseded"}
    /\ status' = [status EXCEPT ![c] = "retracted"]
    /\ UNCHANGED <<register, tuning, profile, score, run, today, edits, upsets>>

(* supersede: an active proposal whose final rule is stored.                *)
Supersede(c) ==
    /\ Moves
    /\ status[c] = "active" /\ ScopeOf[c] = "regulatory_calendar"
    /\ status' = [status EXCEPT ![c] = "superseded"]
    /\ UNCHANGED <<register, tuning, profile, score, run, today, edits, upsets>>

DeriveObligations ==
    /\ Idle
    /\ Derive(ActiveCards)
    /\ UNCHANGED <<store, run, count>>

RederiveApplicability ==
    /\ Idle
    /\ Rederive
    /\ UNCHANGED <<store, run, count>>

NewBuild ==
    /\ Idle
    /\ Redeploy
    /\ UNCHANGED <<store, run, count>>

Tomorrow ==
    /\ Idle
    /\ today < LastDay
    /\ today' = today + 1
    /\ UNCHANGED <<register, store, run, edits, upsets, moves>>

Pass == BeginPass \/ ReadRules \/ ReadRows \/ StoreScores

Next ==
    \/ Pass \/ PassDies
    \/ \E k \in Knobs, w \in Weights, t \in Triggers, hl \in HalfLives :
         UpdateTuning(k, w, t, hl)
    \/ \E e \in Entities, p \in Profiles : EditProfile(e, p)
    \/ \E f \in SeedFiles : LoadSeeds(f)
    \/ \E c \in Cards : Emit(c) \/ Retract(c) \/ Supersede(c)
    \/ DeriveObligations \/ RederiveApplicability \/ NewBuild \/ Tomorrow

Spec == Init /\ [][Next]_vars

-----------------------------------------------------------------------------
(* A score can be reproduced from its stamp: unless a seed load fell into   *)
(* its pass, the stored factors are what the stamped tuning gives for the   *)
(* day of the pass and the entities as they were.                           *)
Explained(c) ==
    LET s == score[c]
    IN  /\ s.base = s.stamp.base[TriggerOf[c]]
        /\ s.half = s.stamp.half[TriggerOf[c]]
        /\ s.scope = Weight(s.stamp.weight, "scope", ScopeOf[c])
        /\ s.fit = Fit(s.stamp.weight, c, s.seen)
        /\ s.combo \subseteq s.stamp.rules
StampExplains == \A c \in Cards : score[c] # Unscored /\ ~score[c].torn => Explained(c)

(* A card that is not active keeps its score, its factors and its stamp,    *)
(* and no pass brings it back: only the classifier restores, only what it   *)
(* retracted, whatever runs between the reads of a pass and its UPDATEs.    *)
FrozenScores ==
    [][\A c \in Cards :
         /\ score'[c] # score[c] => status[c] = "active"
         /\ status'[c] = "active" => status[c] \in {"absent", "active", "retracted"}
         /\ status[c] # "active" /\ status'[c] = "active" => pc = "idle"]_vars

(* Every expression the parser accepts fires for exactly the entities its   *)
(* clauses describe, in whatever order they are written, and an obligation  *)
(* counts for a combo exactly when the account's calendar shows it.         *)
CombosMeanClauses ==
    \A r \in UNION {f.rules : f \in SeedFiles} : WellFormed(r.expr) =>
      \A e \in Entities :
        Evaluate(e, profile[e].subsector, r.expr, ActiveCards)
          <=> Means(e, profile[e].subsector, r.expr, ActiveCards)

(* A weight the Admin page calls inert is: no value of it moves the score   *)
(* of an active card.                                                       *)
InertKnobs ==
    \A k \in Knobs \ LiveKnobs, w \in Weights, c \in ActiveCards :
      LET turned == [tuning.weight EXCEPT ![k] = w]
      IN  /\ Fit(turned, c, profile) = Fit(tuning.weight, c, profile)
          /\ Weight(turned, "scope", ScopeOf[c]) = Weight(tuning.weight, "scope", ScopeOf[c])

(* A pass that decays nothing leaves nothing for the next one: every active *)
(* card has the score that today's tuning, entities and obligations give,   *)
(* its combos fired by cards still active.  A pass that decays a card may   *)
(* leave the lift of a combo it fired on another, until the next pass.      *)
Settled == \A c \in ActiveCards : score[c] = Scored(PassOn(tuning), c, ActiveCards)
PassSettles ==
    [][pc = "store" /\ pc' = "idle" /\ score' # score /\ status' = status /\ ~pass.torn
         => Settled']_vars
=============================================================================
