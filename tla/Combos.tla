------------------------------- MODULE Combos -------------------------------
(***************************************************************************)
(* The combo engine (app/combos.py): which expressions it accepts and what *)
(* an accepted one means for an entity's active signals.  An expression is *)
(* the sequence of its clauses in the order they are written.              *)
(***************************************************************************)
EXTENDS Obligations

CONSTANTS
    EntityOf,    \* card -> entity_id or NoEntity
    NoEntity,
    WordsOf      \* card -> the keywords its text contains as whole words

TriggerAny(triggers) == [kind |-> "trigger_any", of |-> triggers]
ObligationAny        == [kind |-> "obligation", of |-> {}]
NotKeyword(terms)    == [kind |-> "not_keyword", of |-> terms]
Unrecognized         == [kind |-> "malformed", of |-> {}]

Clauses == [kind : {"trigger_any", "obligation", "not_keyword", "malformed"}, of : SUBSET STRING]

(* Wrong on purpose: any number of trigger_any clauses is accepted.         *)
WellFormedMany(expr) ==
    /\ expr # <<>>
    /\ \A i \in DOMAIN expr : expr[i].kind # "malformed"
    /\ \A i \in DOMAIN expr : expr[i].kind = "not_keyword" =>
         \E j \in 1 .. i - 1 : expr[j].kind = "trigger_any"

(* parse and _validate_clause_shape: at most one trigger_any, and before    *)
(* every not_keyword.                                                       *)
WellFormed(expr) ==
    /\ expr # <<>>
    /\ \A i \in DOMAIN expr : expr[i].kind # "malformed"
    /\ \A i \in DOMAIN expr : expr[i].kind = "not_keyword" =>
         \E j \in 1 .. i - 1 : expr[j].kind = "trigger_any"
    /\ \A i, j \in DOMAIN expr :
         expr[i].kind = "trigger_any" /\ expr[j].kind = "trigger_any" => i = j

(* The active signals of the entity with one of the triggers.               *)
Matched(e, triggers, active) ==
    {c \in active : EntityOf[c] = e /\ TriggerOf[c] \in triggers}

(* trigger_ids_for_text when clause i is reached: the last trigger_any.     *)
TextTriggers(expr, i) ==
    LET seen == {j \in 1 .. i - 1 : expr[j].kind = "trigger_any"}
    IN  IF seen = {} THEN {} ELSE expr[CHOOSE j \in seen : \A k \in seen : k <= j].of

ClauseHolds(e, subsector, expr, i, active) ==
    \/ /\ expr[i].kind = "trigger_any"
       /\ Matched(e, expr[i].of, active) # {}
    \/ /\ expr[i].kind = "obligation"
       /\ ObligationApplies(e, subsector, StoredRules)
    \/ /\ expr[i].kind = "not_keyword"
       /\ \A c \in Matched(e, TextTriggers(expr, i), active) : WordsOf[c] \cap expr[i].of = {}

(* evaluate: every clause, in order, each on what the earlier ones matched. *)
Evaluate(e, subsector, expr, active) ==
    \A i \in DOMAIN expr : ClauseHolds(e, subsector, expr, i, active)

(* What an expression says, whatever the order of its clauses: each         *)
(* trigger_any has its signal, an obligation applies if asked for, and no   *)
(* signal that satisfies a trigger_any has a forbidden word.                *)
Means(e, subsector, expr, active) ==
    LET clauses(k) == {expr[i] : i \in {j \in DOMAIN expr : expr[j].kind = k}}
        forbidden  == UNION {q.of : q \in clauses("not_keyword")}
        basis(q)   == Matched(e, q.of, active)
    IN  /\ \A q \in clauses("trigger_any") : basis(q) # {}
        /\ clauses("obligation") # {} => Calendar(e, subsector, obligations).shown # {}
        /\ \A q \in clauses("trigger_any") : \A c \in basis(q) : WordsOf[c] \cap forbidden = {}
=============================================================================
