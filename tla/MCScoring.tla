------------------------------ MODULE MCScoring ------------------------------
(* An incident and a project of one account, a rule without an entity that  *)
(* yields an obligation; two combos as seeded and one the parser rejects.   *)
EXTENDS Scoring, TLC

CONSTANTS breach, project, rule, acme

AllCards   == {breach, project, rule}
OneEntity  == {acme}
Trigger    == breach :> "own_incident" @@ project :> "capital_project"
                @@ rule :> "nerc_cip_revision"
Scopes     == breach :> "account" @@ project :> "account"
                @@ rule :> "regulatory_calendar"
Owner      == breach :> acme @@ project :> acme @@ rule :> NoEntity
Keywords   == breach :> {} @@ project :> {"SIEM"} @@ rule :> {}
Day        == breach :> 0 @@ project :> 1 @@ rule :> 0
Calendared == {rule}
Utilities  == {"iou", "refiner"}
EveryBuild == << [t \in {"nerc_cip_revision"} |-> [subsectors |-> {"iou"}, excluded |-> {}]],
                 [t \in {"nerc_cip_revision"} |-> [subsectors |-> Utilities, excluded |-> {acme}]] >>

SomeKnobs == {<<"coverage", "dark">>, <<"applicability", "default">>}
TwoWeights == {1, 2}
TwoHalves  == {1, 2}
Kinds      == {[subsector |-> s, richness |-> "high", coverage |-> "dark"] : s \in Utilities}
AsSeeded   == acme :> [subsector |-> "iou", richness |-> "high", coverage |-> "dark"]
Classified == {breach, rule}

OnIncident == [id |-> "incident_regulatory",
               expr |-> <<TriggerAny({"own_incident"}), ObligationAny>>, multiplier |-> 3]
NoTooling  == [id |-> "no_ot_tooling",
               expr |-> <<TriggerAny({"capital_project"}), ObligationAny, NotKeyword({"SIEM"})>>,
               multiplier |-> 3]
NoSiem     == [id |-> "no_ot_tooling",
               expr |-> <<TriggerAny({"own_incident", "capital_project"}), NotKeyword({"SIEM"})>>,
               multiplier |-> 3]
TwoAnys    == [id |-> "two_anys",
               expr |-> <<TriggerAny({"capital_project"}), TriggerAny({"own_incident"}),
                          NotKeyword({"SIEM"})>>, multiplier |-> 3]
Unread     == [id |-> "unread", expr |-> <<TriggerAny({"own_incident"}), Unrecognized>>, multiplier |-> 3]

Strengths(n) == [t \in {"own_incident", "capital_project", "nerc_cip_revision"} |->
                   IF t = "own_incident" THEN n ELSE 2]
Fresh      == [base |-> Strengths(1), rules |-> {OnIncident, NoTooling}]
Files      == {Fresh, [base |-> Strengths(3), rules |-> {NoSiem}],
               [base |-> Strengths(1), rules |-> {TwoAnys, Unread}]}
Tuning     == [weight |-> [k \in SomeKnobs |-> 2], base |-> Fresh.base,
               half |-> [t \in {"own_incident", "capital_project", "nerc_cip_revision"} |-> 1],
               rules |-> Fresh.rules]
=============================================================================
