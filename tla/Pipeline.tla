------------------------------ MODULE Pipeline ------------------------------
(***************************************************************************)
(* One source from its site to its cards: what the site publishes, what    *)
(* runs of the source's fetcher store of it (store_raw_event), what runs   *)
(* of the source's classifiers make of the stored rows.                    *)
(*                                                                         *)
(* Runs hold the ingestion lock, one at a time (IngestLock); here a run is *)
(* one step.  How a run commits in batches and can be killed is IngestRun  *)
(* and SignalLifecycle, which also have rules that change; the rules here  *)
(* are those of the current parser_version.                                *)
(***************************************************************************)
EXTENDS Fetchers, ClassifierRules

CONSTANTS
    Sources,     \* the sources to look at
    Catalog,     \* the documents each can publish; day is relative to today
    MaxSite,     \* documents a site lists at a time
    LastDay,     \* bound: days that pass
    MaxEdits,    \* bound: documents published or changed
    MaxPending   \* bound: pending reviews of one row

(* What can be published, and the sources: those that are asked part by     *)
(* part, each document of which some part lists, and the others.            *)
Documents ==
    [name : STRING, day : Int \cup {Undated}, parts : SUBSET Int, ided : BOOLEAN, fit : BOOLEAN,
     says : [tags : SUBSET STRING, who : Verdicts, ctx : Verdicts, home : STRING]]

ByPart == {"presswire_prnewswire", "presswire_globenewswire", "nerc_pages", "gdelt", "epa_echo",
           "sec_edgar_submissions", "sec_edgar_fulltext", "usaspending"}
Singly == {"cisa_kev", "cisa_ics", "the_record", "bleepingcomputer", "ransomware_live", "eia", "nvd",
           "federal_register", "phmsa_enforcement", "nerc_calendar", "nerc_enforcement"}
Guarded == {"sec_edgar_fulltext", "federal_register", "epa_echo", "usaspending"}

ASSUME PipelineAssumption ==
    /\ Sources \subseteq DOMAIN Catalog \cap (ByPart \cup Singly)
    /\ \A s \in Sources : Catalog[s] \subseteq Documents
    /\ Sources \cap ByPart \subseteq DOMAIN Parts /\ Sources \cap Guarded \subseteq DOMAIN MaxPages
    /\ \A s \in Sources \cap ByPart : \A d \in Catalog[s] : d.parts \cap ToSet(Parts[s]) # {}
    /\ {MaxSite, MaxPending} \subseteq Nat \ {0} /\ {LastDay, MaxEdits} \subseteq Nat

VARIABLES
    src,     \* the source
    site,    \* what it lists, newest first
    today,
    edits,
    raws,    \* its raw_events, in order of first_seen_at
    cards    \* the signals of its rows

vars == <<src, site, today, edits, raws, cards>>

(* A row, with the classifiers that have processed it (classified_events),  *)
(* its pending reviews in review_queue, and whether one of them is decided. *)
Row(r) == [id |-> r.id, doc |-> r.doc, done |-> {}, pending |-> 0, decided |-> FALSE]

Init ==
    /\ src \in Sources
    /\ site = <<>> /\ today = Window /\ edits = 0
    /\ raws = <<>> /\ cards = {}

-----------------------------------------------------------------------------
(* The calendar lists by month, the enforcement archive by year.            *)
Placed(d) ==
    LET day == IF d.day = Undated THEN Undated ELSE today + d.day IN
    [d EXCEPT !.day = day,
              !.parts = CASE day # Undated /\ src = "nerc_calendar" -> {day \div MonthDays}
                          [] day # Undated /\ src = "nerc_enforcement" -> {day \div YearDays}
                          [] OTHER -> @]

Publish(d) ==
    /\ edits < MaxEdits /\ edits' = edits + 1
    /\ \A i \in DOMAIN site : site[i].name # d.name
    /\ LET new == <<Placed(d)>> \o site
       IN  site' = SubSeq(new, 1, Min({MaxSite, Len(new)}))
    /\ UNCHANGED <<src, today, raws, cards>>

(* A listed document gets another text.                                     *)
Amend(i, d) ==
    /\ edits < MaxEdits /\ edits' = edits + 1
    /\ site[i].name = d.name /\ site[i].says # d.says
    /\ site' = [site EXCEPT ![i].says = d.says, ![i].fit = d.fit]
    /\ UNCHANGED <<src, today, raws, cards>>

Tomorrow ==
    /\ today < Window + LastDay /\ today' = today + 1
    /\ UNCHANGED <<src, site, edits, raws, cards>>

-----------------------------------------------------------------------------
Stored(rs, id) == \E i \in DOMAIN rs : rs[i].id = id

(* store_raw_event, the i-th event of a run: 'new' or 'seen'.               *)
IsNew(got, i) ==
    ~Stored(raws, got[i].id) /\ \A j \in 1 .. i - 1 : got[j].id # got[i].id

NewRows(got) ==
    LET new == Only([i \in DOMAIN got |-> i], {i \in DOMAIN got : IsNew(got, i)})
    IN  [k \in DOMAIN new |-> Row(got[new[k]])]

Query(limit, up, form) ==
    [src |-> src, site |-> site, today |-> today, limit |-> limit, up |-> up, form |-> form]

(* A run stores what its fetcher yields, a prefix when a request fails; a   *)
(* row that is seen again keeps the payload it has.                         *)
FetchRun(limit, up, form) ==
    /\ raws' = raws \o NewRows(Fetch(src, Query(limit, up, form)).rows)
    /\ UNCHANGED <<src, site, today, edits, cards>>

-----------------------------------------------------------------------------
(* The rows a run of classifier k takes: those it has not processed, or all *)
(* with --force, in order, to its limit.                                    *)
Taken(k, mode, limit) ==
    LET rows == {i \in DOMAIN raws : mode = "force" \/ k \notin raws[i].done}
    IN  {i \in rows : limit = Unlimited \/ Cardinality({j \in rows : j < i}) < limit}

SaysOf(i) == raws[i].doc.says

Fated(k, i, fate) == {c \in Rule(k, src, raws, i).cands : Fate(c, SaysOf(i)) = fate}

(* Wrong on purpose: a name is queued each time the row is looked at.       *)
AsksEachTime(k, i) ==
    Cardinality(Fated(k, i, "review"))
    + IF Rule(k, src, raws, i).queue = "no" THEN 0 ELSE 1

(* Reviews the rule and the framework ask for; one kind of rule looks for a *)
(* pending one first.                                                       *)
Asks(k, i) ==
    Cardinality(Fated(k, i, "review"))
    + CASE Rule(k, src, raws, i).queue = "once"   -> IF raws[i].pending = 0 THEN 1 ELSE 0
        [] Rule(k, src, raws, i).queue = "always" -> 1
        [] OTHER                                  -> 0

(* signal_id: the trigger, the row, and the account or the scope.           *)
CardsOf(k, i) ==
    {[trigger |-> c.trigger, row |-> raws[i].id, holder |-> c.scope, tier |-> c.tier] :
        c \in Fated(k, i, "card")}

Classify(k, mode, limit) ==
    LET rows == Taken(k, mode, limit) IN
    /\ k \in ClassifiersOf(src)
    /\ \A i \in rows : raws[i].pending + Asks(k, i) <= MaxPending
    /\ raws' = [i \in DOMAIN raws |->
                  IF i \in rows
                  THEN [raws[i] EXCEPT !.done = @ \cup {k}, !.pending = @ + Asks(k, i)]
                  ELSE raws[i]]
    /\ cards' = cards \cup UNION {CardsOf(k, i) : i \in rows}
    /\ UNCHANGED <<src, site, today, edits>>

-----------------------------------------------------------------------------
(* triage_decision: a review leaves the queue, accepted or rejected; it     *)
(* makes no card, and the row is not classified again for it.  The          *)
(* candidates of one name are decided one by one; here, with the last.      *)
Triage(i) ==
    /\ raws[i].pending > 0
    /\ \E left \in 0 .. raws[i].pending - 1 :
          raws' = [raws EXCEPT ![i].pending = left, ![i].decided = TRUE]
    /\ UNCHANGED <<src, site, today, edits, cards>>

-----------------------------------------------------------------------------
Limits == {Unlimited, 1}
Asked  == 10    \* bound: more requests than a run makes

(* What can come over a run: a source that is down from some request on, a  *)
(* --limit, replies of another form.                                        *)
Turns == (Limits \X {0, 1, 2, Asked} \X {"known"}) \cup {<<0, 0, "known">>}
         \cup ({Unlimited} \X {Asked} \X {"uncounted", "empty"})

Site == (\E d \in Catalog[src] : Publish(d))
        \/ (\E i \in DOMAIN site, d \in Catalog[src] : Amend(i, d))
        \/ Tomorrow

Runs == (\E t \in Turns : FetchRun(t[1], t[2], t[3]))
        \/ (\E k \in ClassifiersOf(src), mode \in {"new", "force"}, limit \in Limits :
              Classify(k, mode, limit))

Next == Site \/ Runs \/ (\E i \in DOMAIN raws : Triage(i))

Spec == Init /\ [][Next]_vars

-----------------------------------------------------------------------------
Dated(d, lo, hi) == d.day # Undated /\ d.day \in lo .. hi

(* Documents a source cuts off without saying so, by its module's own guard: *)
(* what is as new and matches as well fills the pages it asks for.           *)
Ahead(i) == {j \in 1 .. i - 1 : site[j].day # Undated /\ site[j].day >= today - Window}
CutOff(i) ==
    CASE src \in {"federal_register", "sec_edgar_fulltext"} ->
           Cardinality(Ahead(i)) >= PageSize * MaxPages[src]
      [] src = "gdelt"            ->
           i > ApiCap \/ (site[i].day # Undated /\ site[i].day < today - MaxTimespan)
      [] src = "nerc_calendar"    ->
           site[i].day # Undated
           /\ site[i].day \div MonthDays >= today \div MonthDays + MaxMonths
      [] src = "nerc_enforcement" ->
           site[i].day # Undated /\ site[i].day \div YearDays <= today \div YearDays - MaxYears
      [] OTHER -> FALSE

(* What the windows and the filters of the sources promise to bring in.     *)
Wanted(i) ==
    LET d == site[i] IN
    /\ ~CutOff(i)
    /\ CASE src = "nerc_pages"       -> TRUE
         [] src = "nerc_calendar"    -> Dated(d, today, today + Window)
         [] src = "nerc_enforcement" -> d.fit /\ Dated(d, today - Window, today)
         [] src \in {"sec_edgar_submissions", "phmsa_enforcement", "epa_echo", "usaspending"} ->
              d.fit /\ Dated(d, today - Window, today)
         [] src \in {"sec_edgar_fulltext", "federal_register", "nvd"} ->
              Dated(d, today - Window, today)
         [] OTHER -> d.day = Undated \/ Dated(d, today - Window, today)

ContentKeyed(d) ==
    \/ src \in {"nerc_pages", "nerc_enforcement", "ransomware_live"}
    \/ ~d.ided /\ src \notin {"epa_echo", "phmsa_enforcement", "usaspending", "sec_edgar_fulltext"}

Keeps(row, d) == row.doc.name = d.name /\ (ContentKeyed(d) => row.doc.says = d.says)

(* A run that ends in success and was not limited has all it was to bring   *)
(* in: each page, span, feed, month and batch was asked for and read, and,  *)
(* where rows are keyed by content, an amended document has a row of its    *)
(* own.  (Replies the fetcher does not know are another matter: README.)    *)
SuccessIsComplete ==
    [][\A up \in {1, 2, Asked} :
         FetchRun(Unlimited, up, "known") /\ Fetch(src, Query(Unlimited, up, "known")).ok
         => \A i \in DOMAIN site : Wanted(i) => \E j \in DOMAIN raws' : Keeps(raws'[j], site[i])]_vars

(* The sources that publish other people's words.                           *)
Hearsay == {"ransomware_live", "the_record", "bleepingcomputer", "phmsa_enforcement"}

(* What is said of a company there is pinned on an account only if the name *)
(* alone gives it: the text around a name never settles it; elsewhere it    *)
(* may.  Only leak sites' claims, and all of a leak site's, are unconfirmed.*)
NamesAreEarned ==
    \A c \in cards, i \in DOMAIN raws : raws[i].id = c.row =>
        /\ c.holder = "account" =>
             /\ src \in Hearsay => SaysOf(i).who = "matched"
             /\ "matched" \in {SaysOf(i).who, SaysOf(i).ctx}
        /\ src = "ransomware_live" => c.tier = "unconfirmed_early_warning"
        /\ c.tier = "unconfirmed_early_warning" => src \in {"ransomware_live", "bleepingcomputer"}

(* Those that look for a pending review before they queue a name.           *)
LooksFirst == {"ransomware_live", "the_record", "bleepingcomputer"}

Doubtful(i) == \E k \in ClassifiersOf(src) : Rule(k, src, raws, i).queue # "no"

(* However often a row is classified, --force included, and whatever the    *)
(* operator has decided: at the sources that look first, no second review   *)
(* of a name waits beside the first (_enqueue_review_once); at all four a   *)
(* doubtful name waits or was decided, and never has a card.  PHMSA's rule  *)
(* queues on every pass, and the guard looks at pending reviews only: a     *)
(* name that was decided is queued again by --force.                        *)
OneReviewWaits ==
    src \in Hearsay =>
        \A i \in DOMAIN raws :
            /\ src \in LooksFirst => raws[i].pending <= 1
            /\ raws[i].pending > 0 \/ raws[i].decided => Doubtful(i)
            /\ Doubtful(i) => \A c \in cards : c.row # raws[i].id

(* A run in full would succeed and store nothing more, and every row has    *)
(* been through its classifiers.                                            *)
CaughtUp ==
    LET run == Fetch(src, Query(Unlimited, Asked, "known"))
    IN  /\ run.ok /\ NewRows(run.rows) = <<>>
        /\ \A i \in DOMAIN raws : raws[i].done = ClassifiersOf(src)

Carded(i) == \A k \in ClassifiersOf(src) : CardsOf(k, i) \subseteq cards

(* Nothing that deserves a card is lost between the site and the cards, in  *)
(* whatever order documents appear, change and age, runs fail or are        *)
(* limited and classifiers fall behind: once all have caught up, each       *)
(* wanted document is in a row, and every row has the cards of its text.    *)
NothingLost ==
    CaughtUp =>
        /\ \A i \in DOMAIN site : Wanted(i) => \E j \in DOMAIN raws : Keeps(raws[j], site[i])
        /\ \A j \in DOMAIN raws : Carded(j)

-----------------------------------------------------------------------------
(* environmental_enforcement.py: a case still in litigation has no decree   *)
(* to report, a settled one has; so once all have caught up a listed case   *)
(* that is settled has its card.                                            *)
SettledIsReported ==
    CaughtUp =>
        \A i \in DOMAIN site : Wanted(i) /\ "settled" \in site[i].says.tags =>
            \E c \in cards, j \in DOMAIN raws :
                c.row = raws[j].id /\ raws[j].doc.name = site[i].name
=============================================================================
