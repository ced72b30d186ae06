----------------------------- MODULE Obligations -----------------------------
(***************************************************************************)
(* Regulatory obligations (app/obligations.py): one row per regulatory     *)
(* signal with a compliance clock, inserted or skipped, its applicability  *)
(* predicate written as text and read back by two readers, the combo       *)
(* engine's obligation_applies and the calendar of Account 360.            *)
(***************************************************************************)
EXTENDS Integers, Sequences, FiniteSets

CONSTANTS
    Cards,           \* signal_ids
    Entities,        \* watchlist entity_ids
    Subsectors,      \* values of watchlist_entities.subsector
    Blank,           \* the empty subsector
    TriggerOf,       \* card -> trigger_id
    HasClock,        \* cards whose payload has an effective date, title and regulator
    Applicability    \* APPLICABILITY of each build: trigger_id -> predicate entry

VARIABLES
    deployed,        \* the build that runs
    obligations      \* regulatory_obligations: card -> stored applicability_rule

register == <<deployed, obligations>>

(* A predicate is a sequence of clauses; an excluded id is well formed when *)
(* it is an entity_id.                                                      *)
Clause(kind, names) == [kind |-> kind, names |-> names]

(* The text applicability_rule writes: the second clause is left out when   *)
(* nothing is excluded.                                                     *)
RuleOf(entry) ==
    IF entry.excluded = {}
    THEN <<Clause("subsector_in", entry.subsectors)>>
    ELSE <<Clause("subsector_in", entry.subsectors),
           Clause("exclude_entities", entry.excluded)>>

(* _applicability_scope: what it does not understand it does not evaluate.  *)
Understood(rule) ==
    /\ Len(rule) \in 1 .. 2
    /\ rule[1].kind = "subsector_in"
    /\ Len(rule) = 2 =>
         /\ rule[2].kind = "exclude_entities"
         /\ rule[2].names # {} /\ rule[2].names \subseteq Entities

Admitted(rule) == rule[1].names \ {Blank}
Excluded(rule) == IF Len(rule) = 2 THEN rule[2].names ELSE {}

(* obligation_applies, over the rules stored.                               *)
ObligationApplies(e, subsector, rules) ==
    /\ subsector # Blank
    /\ \E rule \in rules : /\ Understood(rule)
                           /\ subsector \in Admitted(rule) /\ e \notin Excluded(rule)

(* account_obligations: the rows shown, and the two counts it discloses.    *)
Calendar(e, subsector, stored) ==
    LET readable == {c \in DOMAIN stored : Understood(stored[c])}
        inClass  == {c \in readable : subsector \in Admitted(stored[c])}
    IN  [shown    |-> {c \in inClass : e \notin Excluded(stored[c])},
         unscoped |-> Cardinality(DOMAIN stored \ readable),
         excluded |-> Cardinality({c \in inClass : e \in Excluded(stored[c])})]

StoredRules == {obligations[c] : c \in DOMAIN obligations}

InitObligations ==
    /\ deployed = 1
    /\ obligations = [c \in {} |-> <<>>]

(* The signals the derivation selects that have all it needs.               *)
Derivable(active) ==
    {c \in active \cap HasClock : TriggerOf[c] \in DOMAIN Applicability[deployed]}

CurrentRule(c) == RuleOf(Applicability[deployed][TriggerOf[c]])

(* derive_obligations: insert or skip; a stored row stays, whatever became  *)
(* of its signal.                                                           *)
Derive(active) ==
    /\ Derivable(active) \ DOMAIN obligations # {}
    /\ obligations' = [c \in DOMAIN obligations \cup Derivable(active) |->
                         IF c \in DOMAIN obligations THEN obligations[c] ELSE CurrentRule(c)]
    /\ UNCHANGED deployed

(* --rederive: the code-derived fields of the stored rows, nothing else.    *)
Rederive ==
    /\ obligations' =
         [c \in DOMAIN obligations |->
            IF TriggerOf[c] \in DOMAIN Applicability[deployed]
            THEN CurrentRule(c) ELSE obligations[c]]
    /\ UNCHANGED deployed

Redeploy ==
    /\ deployed < Len(Applicability)
    /\ deployed' = deployed + 1
    /\ UNCHANGED obligations

=============================================================================
