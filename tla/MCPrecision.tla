----------------------------- MODULE MCPrecision -----------------------------
(* A leadership card and an incident card on one account from one source,    *)
(* and a sector card that came from no source.                               *)
EXTENDS PrecisionLedger

MCCards    == {"chief", "breach", "rule"}
MCTrigger  == [chief |-> "leadership_change", breach |-> "cyber_incident", rule |-> "cip_rule"]
MCPrimary  == {"leadership_change", "cyber_incident"}
MCSource   == [chief |-> "presswire", breach |-> "presswire", rule |-> None]
MCScope    == [chief |-> "account", breach |-> "account", rule |-> "sector"]
MCEntity   == [chief |-> "utility", breach |-> "utility", rule |-> None]

Rate(c, v, reason) == [kind |-> "feedback", signal |-> c, verdict |-> v, reason |-> reason]
MCAsks     ==
    {Rate(c, "useful", None) : c \in MCCards}
    \cup {Rate(c, "not_useful", "stale") : c \in {"chief", "breach"}}
    \cup {Rate("chief", "not_useful", None)}
    \cup {[kind |-> "triage", row |-> "match", accept |-> TRUE],
          [kind |-> "triage", row |-> "quarantine", accept |-> FALSE]}

MCVerdicts ==
    {[entity_match |-> "pass", evidence_support |-> "pass"],
     [entity_match |-> "unclear", evidence_support |-> "fail"]}
==============================================================================
