--------------------------- MODULE ClassifierRules ---------------------------
(***************************************************************************)
(* What each classifier of app/classify makes of one raw event: one        *)
(* operator per rule.  Of a text only what the rules look for is kept:     *)
(*   tags  the phrases, fields and codes in it                             *)
(*   who   what the resolver says of the name it gives, on its own         *)
(*   ctx   what it says with the card's own text as context                *)
(*   home  the subsector of the account that name rolls up to              *)
(* A rule returns its candidates and whether it put the name to review     *)
(* itself ("once" when it looks for a pending row first).                  *)
(***************************************************************************)
EXTENDS Integers, FiniteSets

Verdicts == {"matched", "review", "none"}

(* apply_trigger_scopes: the scopes a trigger may carry.                    *)
AllowedScopes(trigger) ==
    CASE trigger \in {"leadership_change", "own_incident", "audit_consent_decree",
                      "capital_project", "pipeline_enforcement_action"} -> {"account"}
      [] trigger = "nerc_enforcement" -> {"account", "sector"}
      [] trigger \in {"nerc_cip_revision", "tsa_security_directive"} ->
           {"sector", "regulatory_calendar"}
      [] trigger = "peer_incident" -> {"sector"}
      [] OTHER -> {}

(* names: "hint" for the framework to resolve, "known" when the rule or the *)
(* filing gives the entity, "class" for a card about nobody.                *)
Candidate(trigger, scope, names, tier) ==
    [trigger |-> trigger, scope |-> scope, names |-> names, tier |-> tier]

Hinted(trigger)        == Candidate(trigger, "account", "hint", "none")
Emits(cands)           == [cands |-> cands, queue |-> "no"]
Nothing                == Emits({})
ToReview(how)          == [cands |-> {}, queue |-> how]

-----------------------------------------------------------------------------
(* An explicit security title, a bare CSO in a security context, or CIO/CTO *)
HasExecTitle(tags) ==
    \/ tags \cap {"security title", "IT title"} # {}
    \/ {"CSO", "security context"} \subseteq tags

(* "<company> appoints ..." or "joins <company> as ...".                    *)
LeadershipPresswire(s) ==
    IF {"appointment", "company"} \subseteq s.tags /\ HasExecTitle(s.tags)
    THEN Emits({Hinted("leadership_change")}) ELSE Nothing

LeadershipEdgar(s) ==
    IF {"8-K", "5.02"} \subseteq s.tags /\ HasExecTitle(s.tags)
    THEN Emits({Candidate("leadership_change", "account", "known", "none")}) ELSE Nothing

(* Item 1.05 is the filer's own incident and its sector's.                  *)
IncidentEdgar(s) ==
    IF {"8-K", "1.05"} \subseteq s.tags
    THEN Emits({Candidate("own_incident", "account", "known", "confirmed"),
                Candidate("peer_incident", "sector", "class", "confirmed")})
    ELSE Nothing

(* "<company> <victim verb> ... <cyber incident>".                          *)
Disclosure(s) == {"victim verb", "cyber phrase"} \subseteq s.tags

CompanyStatement(s) ==
    IF Disclosure(s) /\ "company" \in s.tags
    THEN Emits({Candidate("own_incident", "account", "hint", "confirmed")}) ELSE Nothing

(* The disclosing company, resolved by its name alone.                      *)
DisclosedBy(s) ==
    CASE s.who = "review"  -> ToReview("once")
      [] s.who = "matched" -> Emits({Candidate("own_incident", "account", "known", "corroborated")})
      [] OTHER             -> Emits({Candidate("peer_incident", "sector", "class", "corroborated")})

(* A disclosure is spoken for; of the rest only BleepingComputer's leak     *)
(* claims count, and name nobody.                                           *)
SecurityPress(src, s) ==
    CASE Disclosure(s) -> IF "company" \in s.tags THEN DisclosedBy(s) ELSE Nothing
      [] ~Disclosure(s) /\ src = "bleepingcomputer" /\ "leak claim" \in s.tags ->
           Emits({Candidate("peer_incident", "sector", "class", "unconfirmed_early_warning")})
      [] OTHER -> Nothing

(* Wrong on purpose: the victim's name is left for the framework.           *)
RansomwareHinted(s) ==
    IF "victim" \in s.tags
    THEN Emits({Candidate("own_incident", "account", "hint", "unconfirmed_early_warning")})
    ELSE Nothing

(* A leak-site listing: own, to review, or a peer of the energy industry.   *)
RansomwareListing(s) ==
    CASE "victim" \notin s.tags -> Nothing
      [] "victim" \in s.tags /\ s.who = "review" -> ToReview("once")
      [] "victim" \in s.tags /\ s.who = "matched" ->
           Emits({Candidate("own_incident", "account", "known", "unconfirmed_early_warning")})
      [] OTHER ->
           IF "energy industry" \in s.tags
           THEN Emits({Candidate("peer_incident", "sector", "class", "unconfirmed_early_warning")})
           ELSE Nothing

(* A civil judicial case that is settled.                                   *)
EnvironmentalEnforcement(s) ==
    IF {"JDC", "civil", "settled", "case name"} \subseteq s.tags
    THEN Emits({Hinted("audit_consent_decree")}) ELSE Nothing

(* DOE and DHS awards, or CISA's under whatever department.                 *)
CapitalProject(s) ==
    IF "award" \in s.tags /\ s.tags \cap {"DOE or DHS", "CISA"} # {}
    THEN Emits({Hinted("capital_project")}) ELSE Nothing

(* An operator whose account is midstream or LNG.                           *)
PhmsaEnforcement(s) ==
    CASE ~ {"case type", "operator"} \subseteq s.tags -> Nothing
      [] {"case type", "operator"} \subseteq s.tags /\ s.who = "review" -> ToReview("always")
      [] OTHER -> IF s.who = "matched" /\ s.home = "pipeline"
                  THEN Emits({Candidate("pipeline_enforcement_action", "account", "known", "none")})
                  ELSE Nothing

(* An effective date makes it current for its sector.                       *)
RuleScope(tags) == IF "effective date" \in tags THEN "sector" ELSE "regulatory_calendar"

HasAnchor(tags)      == tags \cap {"effective date", "comment date", "compliance wording"} # {}
HasReliability(tags) == tags \cap {"CIP", "critical infrastructure", "reliability standard"} # {}
HasCipContext(tags)  == tags \cap {"critical infrastructure", "CIP standard", "RM docket", "Part 40"} # {}

(* Three rules over a document with a compliance clock; an enforcement      *)
(* notice whose title leads with a company is that account's as well.       *)
FederalRegisterRules(s) ==
    LET t == s.tags IN
    IF "title" \notin t \/ ~HasAnchor(t) THEN Nothing
    ELSE Emits(
      (IF {"TSA", "rulemaking", "security directive", "pipeline"} \subseteq t
       THEN {Candidate("tsa_security_directive", RuleScope(t), "class", "none")} ELSE {})
      \cup
      (IF {"FERC", "rulemaking", "reliability standard"} \subseteq t /\ HasCipContext(t)
       THEN {Candidate("nerc_cip_revision", RuleScope(t), "class", "none")} ELSE {})
      \cup
      (IF {"FERC", "notice", "enforcement"} \subseteq t /\ HasReliability(t)
       THEN {Candidate("nerc_enforcement", "sector", "class", "none")}
            \cup IF "company" \in t THEN {Hinted("nerc_enforcement")} ELSE {}
       ELSE {}))

(* _previous_snapshot: the rows of the same page first seen before row i,   *)
(* and of them the one first seen last; 0 without one.                      *)
PreviousSnapshot(raws, i) ==
    LET earlier == {j \in 1 .. i - 1 : raws[j].doc.name = raws[i].doc.name}
    IN IF earlier = {} THEN 0 ELSE CHOOSE j \in earlier : \A h \in earlier : h <= j

(* A CIP standard in the new or replaced text of a page: a tag stands for   *)
(* one place of the text, and a place the earlier snapshot has not got is   *)
(* in a region that difflib reports.                                        *)
PageDiff(raws, i) ==
    LET j == PreviousSnapshot(raws, i) IN
    IF j # 0 /\ raws[i].doc.says.tags \ raws[j].doc.says.tags # {}
    THEN Emits({Candidate("nerc_cip_revision", "sector", "class", "none")}) ELSE Nothing

(* The silent trial: its trigger allows no scope at all.                    *)
GdeltTrial(s) ==
    IF {"title", "merger", "watchlist term"} \subseteq s.tags /\ "market chatter" \notin s.tags
    THEN Emits({Hinted("ma_divestiture")}) ELSE Nothing

-----------------------------------------------------------------------------
(* SOURCES of each classifier module.                                       *)
ClassifiersOf(src) ==
    CASE src \in {"presswire_prnewswire", "presswire_globenewswire"} ->
           {"leadership", "company_statement"}
      [] src = "sec_edgar_submissions" -> {"leadership", "incident"}
      [] src \in {"federal_register", "nerc_pages"} -> {"regulatory"}
      [] src = "ransomware_live" -> {"incident_ransomware"}
      [] src \in {"the_record", "bleepingcomputer"} -> {"incident_security_rss"}
      [] src = "epa_echo" -> {"environmental_enforcement"}
      [] src = "usaspending" -> {"capital_project"}
      [] src = "phmsa_enforcement" -> {"phmsa_enforcement"}
      [] src = "gdelt" -> {"gdelt"}
      [] OTHER -> {}

Rule(k, src, raws, i) ==
    LET s == raws[i].doc.says IN
    CASE k = "leadership" -> IF src = "sec_edgar_submissions" THEN LeadershipEdgar(s)
                             ELSE LeadershipPresswire(s)
      [] k = "company_statement"         -> CompanyStatement(s)
      [] k = "incident"                  -> IncidentEdgar(s)
      [] k = "regulatory" -> IF src = "nerc_pages" THEN PageDiff(raws, i)
                             ELSE FederalRegisterRules(s)
      [] k = "incident_ransomware"       -> RansomwareListing(s)
      [] k = "incident_security_rss"     -> SecurityPress(src, s)
      [] k = "environmental_enforcement" -> EnvironmentalEnforcement(s)
      [] k = "capital_project"           -> CapitalProject(s)
      [] k = "phmsa_enforcement"         -> PhmsaEnforcement(s)
      [] k = "gdelt"                     -> GdeltTrial(s)

(* _process_candidate up to the insert: what becomes of one candidate.  The *)
(* quarantine of text without a source is not among the fates: these rules  *)
(* quote the row they read (SignalLifecycle has the check).                 *)
Fate(c, s) ==
    CASE c.scope \notin AllowedScopes(c.trigger) -> "dropped"
      [] c.scope \in AllowedScopes(c.trigger) /\ c.names = "class" -> "card"
      [] c.scope \in AllowedScopes(c.trigger) /\ c.names = "known" ->
           IF s.who = "matched" THEN "card" ELSE "dropped"
      [] c.scope \in AllowedScopes(c.trigger) /\ c.names = "hint" ->
           CASE s.ctx = "matched" -> "card"
             [] s.ctx = "review"  -> "review"
             [] s.ctx = "none"    -> "dropped"
=============================================================================
