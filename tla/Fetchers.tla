------------------------------ MODULE Fetchers ------------------------------
(***************************************************************************)
(* What each fetcher of app/ingest asks of its source and what it yields:  *)
(* one operator per fetch_events().  A fetcher is a generator over the     *)
(* replies to its requests; run_source stores what it has yielded when a   *)
(* request fails.  A document is what one record of a source comes to:     *)
(*   name   the thing it is about         says  its text, for a classifier *)
(*   day    its date, or Undated          fit   of a kind the fetcher keeps*)
(*   parts  the feeds, pages, queries, entities or months that list it     *)
(*   ided   the source gives it an id                                      *)
(* A query q is the state a run meets: the site (newest document first),   *)
(* today, the --limit, how many requests get an answer, and the form of    *)
(* the replies: "known", "uncounted" (no total, no next page) or "empty"   *)
(* (the parts the fetcher reads are not there).                            *)
(***************************************************************************)
EXTENDS Integers, SequencesExt

CONSTANTS
    Undated,    \* no date, or none that parses
    Unlimited,  \* no --limit
    Window,     \* --window-days
    PageSize,   \* records of one reply of a paged source
    MaxPages,   \* MAX_PAGES, of each source that has one
    Parts,      \* the feeds, pages, entities, queries of the sources that have several
    ApiCap,     \* records GDELT gives for one query
    MaxTimespan,  \* days a GDELT query reaches back at most
    MaxSpan,    \* days NVD lets one request cover
    MonthDays, MaxMonths,  \* nerc_calendar
    YearDays, MaxYears     \* nerc_enforcement

ASSUME FetchersAssumption ==
    /\ Undated \notin Int /\ Unlimited \notin Int
    /\ {Window, PageSize, ApiCap, MaxTimespan, MaxSpan, MonthDays, MaxMonths, YearDays, MaxYears}
         \subseteq Nat \ {0}
    /\ \A s \in DOMAIN Parts : Parts[s] \in Seq(Nat)
    /\ \A s \in DOMAIN MaxPages : MaxPages[s] \in Nat \ {0}

-----------------------------------------------------------------------------
(* Keys of raw_events: the source's id, or the hash of the payload.         *)
Native(part, d)       == <<"id", d.name>>
EntityHit(part, d)    == <<"id", d.name, part>>
PayloadHash(part, d)  == <<"hash", d.name, d.says, d.day>>
PageHash(part, d)     == <<"hash", d.name, d.says>>
NativeOrHash(part, d) == IF d.ided THEN Native(part, d) ELSE PayloadHash(part, d)

Key(by, part, d) ==
    CASE by = "id"         -> Native(part, d)
      [] by = "entity hit" -> EntityHit(part, d)
      [] by = "page"       -> PageHash(part, d)
      [] by = "id or hash" -> NativeOrHash(part, d)
      [] OTHER             -> PayloadHash(part, d)

Since(q)  == q.today - Window
Docs(q)   == ToSet(q.site)
NotOld(q) == {d \in Docs(q) : d.day # Undated => d.day >= Since(q)}
Recent(q) == {d \in Docs(q) : d.day # Undated /\ d.day >= Since(q)}
Fit(q)    == {d \in Docs(q) : d.fit}

(* The elements of s that are in D, in their order.                         *)
Only(s, D) == FlattenSeq([i \in DOMAIN s |-> IF s[i] \in D THEN <<s[i]>> ELSE <<>>])

Answer(part, docs) == [ok |-> TRUE, part |-> part, docs |-> docs]
Fault              == [ok |-> FALSE, part |-> 0, docs |-> <<>>]

Served(q)         == IF q.form = "empty" THEN <<>> ELSE q.site
Listed(q, part)   == Only(Served(q), {d \in Docs(q) : part \in d.parts})
Matching(q, part) == Only(Listed(q, part), Recent(q))
PerPart(q, Ask(_)) == FlattenSeq([i \in DOMAIN Parts[q.src] |-> Ask(Parts[q.src][i])])

(* A listing cut into pages; a first page is always asked for.              *)
Pages(part, docs) ==
    [i \in 1 .. Max({1, (Len(docs) + PageSize - 1) \div PageSize}) |->
        Answer(part, SubSeq(docs, (i - 1) * PageSize + 1, Min({i * PageSize, Len(docs)})))]

UpTo(n, pages) == SubSeq(pages, 1, Min({n, Len(pages)}))

(* Without a count of records the first page is taken for the last.         *)
Counted(q, n) == IF q.form = "uncounted" THEN 1 ELSE n
AllPages(q)   == Len(q.site) + 1

(* Wrong on purpose: a listing longer than the guard is cut in silence.     *)
OrNothing(n, pages) == UpTo(n, pages)

(* A listing longer than the guard is an error.                             *)
OrFault(n, pages) ==
    IF n < Len(pages) THEN Append(UpTo(n, pages), Fault) ELSE pages

(* The run of a generator: the rows of the replies before the first failure *)
(* whose documents the fetcher keeps, to the limit.  It returns at the limit*)
(* without asking on, and does not ask at all with none to give.            *)
Fetched(q, replies, keep, by) ==
    LET asked == IF q.up < Len(replies) THEN Append(SubSeq(replies, 1, q.up), Fault)
                 ELSE replies
        bad   == {i \in DOMAIN asked : ~asked[i].ok}
        rows  == FlattenSeq(
                   [i \in 1 .. (IF bad = {} THEN Len(asked) ELSE Min(bad) - 1) |->
                     LET kept == Only(asked[i].docs, keep) IN
                     [j \in DOMAIN kept |->
                        [id |-> Key(by, asked[i].part, kept[j]), doc |-> kept[j]]]])
        full  == q.limit # Unlimited /\ Len(rows) >= q.limit
    IN  [rows |-> IF full THEN SubSeq(rows, 1, q.limit) ELSE rows,
         ok   |-> full \/ bad = {}]

-----------------------------------------------------------------------------
(* One reply holds the whole catalogue or feed.                             *)
Whole(q) == <<Answer(1, Served(q))>>

CisaKev(q)     == Fetched(q, Whole(q), NotOld(q), "id or hash")
CisaIcs(q)     == Fetched(q, Whole(q), NotOld(q), "id or hash")
SecurityRss(q) == Fetched(q, Whole(q), NotOld(q), "id or hash")
Ransomware(q)  == Fetched(q, Whole(q), NotOld(q), "hash")

(* Several feeds, one count; a feed that is down ends the run.              *)
Presswire(q) ==
    Fetched(q, PerPart(q, LAMBDA p : <<Answer(p, Listed(q, p))>>), NotOld(q), "id or hash")

(* The day's snapshot of each page, whatever its date.                      *)
NercPages(q) ==
    Fetched(q, PerPart(q, LAMBDA p : <<Answer(p, Listed(q, p))>>), Docs(q), "page")

(* The filings of each entity; those without a date compare as older.       *)
Edgar(q) ==
    Fetched(q, PerPart(q, LAMBDA p : <<Answer(p, Listed(q, p))>>),
            Fit(q) \cap Recent(q), "id or hash")

(* The search itself takes the window; pages beyond the guard are left, and *)
(* all but the first when the reply does not state a total.                 *)
EdgarFulltext(q) ==
    Fetched(q, PerPart(q, LAMBDA p :
                 UpTo(Counted(q, MaxPages["sec_edgar_fulltext"]), Pages(p, Matching(q, p)))),
            Docs(q), "entity hit")

(* It follows next_page_url, to the guard.                                  *)
FederalRegister(q) ==
    Fetched(q, UpTo(Counted(q, MaxPages["federal_register"]),
                    Pages(1, Only(Served(q), Recent(q)))),
            Docs(q), "id or hash")

(* Wrong on purpose: a span begins the day after the last one ended, and    *)
(* the first one a day late.                                                *)
NvdSpanOpen(q, i) ==
    LET from == Since(q) + (i - 1) * MaxSpan IN from + 1 .. Min({from + MaxSpan - 1, q.today})

(* The window in spans that share their ends, each paged to its total.      *)
NvdSpan(q, i) ==
    LET from == Since(q) + (i - 1) * MaxSpan IN from .. Min({from + MaxSpan, q.today})

Nvd(q) ==
    Fetched(q, FlattenSeq([i \in 1 .. (Window + MaxSpan - 1) \div MaxSpan |->
                 UpTo(Counted(q, AllPages(q)),
                      Pages(i, Only(Served(q), {d \in Docs(q) :
                                 d.day # Undated /\ d.day \in NvdSpan(q, i)})))]),
            Docs(q), "id or hash")

(* Pages to the stated total; without a total there is no second page.      *)
Eia(q) ==
    Fetched(q, UpTo(Counted(q, AllPages(q)), Pages(1, Served(q))), NotOld(q), "id or hash")

(* A body of some size that parses to no row at all is an error.            *)
Phmsa(q) ==
    Fetched(q, <<IF q.form = "empty" THEN Fault ELSE Answer(1, q.site)>>,
            Fit(q) \cap Recent(q), "id")

(* Articles of a chunk of watchlist terms in the timespan asked for, the    *)
(* first ApiCap in the order the site gives them, for no sort is asked for; *)
(* one met under an earlier chunk is not yielded again.                     *)
Spanned(q, part) ==
    {d \in Docs(q) : part \in d.parts
        /\ (d.day # Undated => d.day >= q.today - Min({Window, MaxTimespan}))}

Gdelt(q) ==
    LET Top(i) == LET found == Only(Served(q), Spanned(q, Parts[q.src][i]))
                  IN SubSeq(found, 1, Min({ApiCap, Len(found)}))
        Met(i) == {d \in Docs(q) : d.ided /\ \E j \in 1 .. i - 1 : Contains(Top(j), d)}
    IN Fetched(q, [i \in DOMAIN Parts[q.src] |-> Answer(i, Only(Top(i), Docs(q) \ Met(i)))],
               NotOld(q), "id or hash")

(* The months from today's to the one the window ends in.                   *)
NercCalendar(q) ==
    LET first == q.today \div MonthDays
        last  == Min({(q.today + Window) \div MonthDays, first + MaxMonths - 1})
    IN Fetched(q, [i \in 1 .. last - first + 1 |-> Answer(i, Listed(q, first + i - 1))],
               {d \in Docs(q) : d.day # Undated => d.day >= q.today}, "id or hash")

(* The year pages the window touches, newest first, all of their rows; a    *)
(* page without the embedded model is an error.                             *)
NercEnforcement(q) ==
    LET last  == q.today \div YearDays
        first == Max({0, Since(q) \div YearDays, last - MaxYears + 1})
    IN Fetched(q, [i \in 1 .. last - first + 1 |->
                     IF q.form = "empty" THEN Fault ELSE Answer(i, Listed(q, last - i + 1))],
               Fit(q), "hash")

(* Two queries, each to the page guard; rows beyond the guard are an error, *)
(* no count of rows is taken for none.                                      *)
EpaEcho(q) ==
    Fetched(q, PerPart(q, LAMBDA p :
                 IF q.form = "uncounted" THEN <<Answer(p, <<>>)>>
                 ELSE OrFault(MaxPages["epa_echo"], Pages(p, Listed(q, p)))),
            Fit(q) \cap Recent(q), "id")

(* Agencies times batches of watchlist terms; beyond the guard an error,    *)
(* unless the replies do not say whether there are more.                    *)
UsaSpending(q) ==
    Fetched(q, PerPart(q, LAMBDA p :
                 LET pages == Pages(p, Matching(q, p)) IN
                 CASE q.form = "empty"     -> <<Fault>>
                   [] q.form = "uncounted" -> UpTo(MaxPages["usaspending"], pages)
                   [] OTHER                -> OrFault(MaxPages["usaspending"], pages)),
            Fit(q), "id")

(* The fetcher of each row of source_policies.                              *)
Fetch(src, q) ==
    CASE src = "cisa_kev"              -> CisaKev(q)
      [] src = "cisa_ics"              -> CisaIcs(q)
      [] src \in {"the_record", "bleepingcomputer"} -> SecurityRss(q)
      [] src = "ransomware_live"       -> Ransomware(q)
      [] src \in {"presswire_prnewswire", "presswire_globenewswire"} -> Presswire(q)
      [] src = "nerc_pages"            -> NercPages(q)
      [] src = "sec_edgar_submissions" -> Edgar(q)
      [] src = "sec_edgar_fulltext"    -> EdgarFulltext(q)
      [] src = "federal_register"      -> FederalRegister(q)
      [] src = "nvd"                   -> Nvd(q)
      [] src = "eia"                   -> Eia(q)
      [] src = "phmsa_enforcement"     -> Phmsa(q)
      [] src = "gdelt"                 -> Gdelt(q)
      [] src = "nerc_calendar"         -> NercCalendar(q)
      [] src = "nerc_enforcement"      -> NercEnforcement(q)
      [] src = "epa_echo"              -> EpaEcho(q)
      [] src = "usaspending"           -> UsaSpending(q)
=============================================================================
