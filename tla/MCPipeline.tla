----------------------------- MODULE MCPipeline -----------------------------
(* Small sources for Pipeline: two documents each, some with two texts.     *)
EXTENDS Pipeline

Text(tags, who, ctx) == [tags |-> tags, who |-> who, ctx |-> ctx, home |-> "pipeline"]
Plain == Text({}, "none", "none")

Doc(name, day, parts, says) ==
    [name |-> name, day |-> day, parts |-> parts, ided |-> TRUE, fit |-> TRUE, says |-> says]
NoId(d)  == [d EXCEPT !.ided = FALSE]
Unfit(d) == [d EXCEPT !.fit = FALSE]

OneSite == {1}

(* Another document: published as of today, without a date, or long past.   *)
Other(day) == Doc("b", day, OneSite, Plain)

(* A document that is listed with one text and may get the other.           *)
Changing(name, day, parts, one, two) == {Doc(name, day, parts, one), Doc(name, day, parts, two)}

Hired    == Text({"appointment", "company", "security title"}, "none", "matched")
Breached == Text({"victim verb", "cyber phrase", "company"}, "review", "review")
Filed    == Text({"8-K", "5.02", "1.05", "CSO", "security context"}, "matched", "none")
OffList  == Text({"8-K", "1.05"}, "none", "none")
Victim   == {"victim", "energy industry"}
Case     == {"JDC", "civil", "case name"}
Award    == {"award", "DOE or DHS"}
Action   == {"case type", "operator"}
Docket   == {"title", "effective date", "FERC", "rulemaking", "reliability standard", "CIP standard"}
Notice   == {"title", "comment date", "FERC", "notice", "enforcement", "CIP", "company"}
Merger   == {"title", "merger", "watchlist term"}
Page(n, standards) == Doc(n, Undated, OneSite, Text(standards, "none", "none"))

MCCatalog == [
    cisa_kev  |-> {Doc("a", 0, OneSite, Plain), Other(Undated), NoId(Doc("c", -2, OneSite, Plain))},
    cisa_ics  |-> {NoId(Doc("a", 0, OneSite, Plain)), Other(-1)},
    the_record |-> Changing("a", 0, OneSite, Breached, [Breached EXCEPT !.ctx = "matched"])
                   \cup {Other(Undated)},
    bleepingcomputer |-> {NoId(d) : d \in Changing("a", 0, OneSite, Text({"leak claim"}, "none", "none"),
                                                   [Breached EXCEPT !.who = "matched"])},
    ransomware_live |-> Changing("a", 0, OneSite, Text(Victim, "review", "matched"),
                                 Text(Victim, "matched", "matched"))
                        \cup {Doc("b", Undated, OneSite, Text(Victim, "none", "matched"))},
    presswire_prnewswire |-> Changing("a", 0, {1, 2}, Hired, Breached) \cup {Doc("b", -1, {2}, Plain)},
    presswire_globenewswire |-> {NoId(d) : d \in Changing("a", 0, OneSite, Hired, Breached)},
    nerc_pages |-> {Page("a", {"CIP-003"}), Page("a", {"CIP-005"}), Page("a", {"CIP-007"}),
                    Page("b", {})},
    sec_edgar_submissions |-> {Doc("a", 0, {1}, Filed), Doc("b", 0, {2}, OffList),
                               Unfit(Doc("c", 0, {2}, Plain))},
    sec_edgar_fulltext |-> {Doc("a", 0, {1, 2}, Plain), Doc("b", -1, {2}, Plain), Doc("c", 0, {2}, Plain)},
    federal_register |-> {Doc("a", 0, OneSite, Text(Docket, "none", "none")),
                          Doc("b", -1, OneSite, Text(Notice, "none", "matched")),
                          Doc("c", 0, OneSite, Text(Docket \ {"effective date"}, "none", "none"))},
    nvd   |-> {Doc("a", 0, OneSite, Plain), Doc("b", -1, OneSite, Plain), Doc("c", -2, OneSite, Plain)},
    eia   |-> {Doc("a", 0, OneSite, Plain), NoId(Other(Undated)), Doc("c", -2, OneSite, Plain)},
    phmsa_enforcement |-> {Doc("a", 0, OneSite, Text(Action, "review", "matched")),
                           Doc("b", 0, OneSite, Text(Action, "matched", "none")),
                           Unfit(Doc("c", 0, OneSite, Plain))},
    gdelt |-> {Doc("a", 0, {1, 2}, Text(Merger, "none", "matched")), NoId(Doc("b", 0, {2}, Plain)),
               Doc("c", Undated, {2}, Plain)},
    nerc_calendar    |-> {Doc("a", 0, {}, Plain), Doc("b", 2, {}, Plain), Doc("c", 1, {}, Plain)},
    nerc_enforcement |-> Changing("a", 0, {}, Plain, Text({"amended"}, "none", "none"))
                         \cup {Doc("b", -1, {}, Plain)},
    epa_echo |-> Changing("a", 0, {1, 2}, Text(Case, "none", "matched"),
                          Text(Case \cup {"settled"}, "none", "matched"))
                 \cup {Doc("b", -1, {2}, Plain)},
    usaspending |-> {Doc("a", 0, {1}, Text(Award, "none", "matched")),
                     Doc("b", 0, {1, 2}, Text(Award, "none", "review")),
                     Unfit(Doc("c", 0, {2}, Plain))}
  ]

MCSources  == DOMAIN MCCatalog
MCEpa      == {"epa_echo"}
MCClaims   == {"ransomware_live", "the_record"}
MCMaxPages ==
    [s \in {"sec_edgar_fulltext", "federal_register", "epa_echo"} |-> 1]
    @@ [s \in {"usaspending"} |-> 2]
MCParts ==
    [s \in {"nerc_pages"} |-> <<1>>] @@ [s \in {"presswire_globenewswire"} |-> <<1>>]
    @@ [s \in {"presswire_prnewswire", "sec_edgar_submissions", "sec_edgar_fulltext", "gdelt",
               "epa_echo", "usaspending"} |-> <<1, 2>>]
=============================================================================
