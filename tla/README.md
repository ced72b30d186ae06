# GridReaper: TLA+ models, model-checking runs and proofs

GridReaper ("GridSignals" in its own code) collects public events about energy
companies, classifies them into cards by deterministic rules, scores them, attaches
license plays and shows the result to one operator, who triages and edits. It is a set
of Python command-line jobs over one SQLite file, started by cron, and a web UI over the
same file. Two things are hard in it. One is the meeting of processes: jobs that commit
in pieces, are killed and started again, and share rows with each other and with the
operator. The other is the path of a fact: a document that appears, changes and ages at a
public source, must become a card that says neither more nor less, with a score that its
settings explain and figures that follow from what people said of it. This directory
models both.

Paths below are relative to the repository root (`app/...`, `deploy/...`).

Contents: 1 inventory · 2 modules · 3 runs · 4 bounds · 5 fairness and envelopes ·
6 proofs · 7 only model-checked · 8 known divergences · 9 not modelled · 10 plan ·
11 how to run.

## 1 Inventory

| Component | State it keeps | Operations | Hard behaviour | What makes it correct |
|---|---|---|---|---|
| Single-writer lockfile (`app/ingest/runner.py` `ingest_lock`) | a file with `{pid, ts}`, its mtime, a SIGTERM handler | open with O_EXCL, read, judge age, remove and re-create, write payload, release, clean up on SIGTERM | any number of processes, one system call at a time, killed anywhere | one body at a time; a dead lock ages out |
| Scheduled guard (`deploy/scheduled_run.sh`) | a second lockfile with a PID | take (`ln`), `kill -0`, remove, retake, trap, probe of the ingestion lock, `timeout` the pipeline | ticks and first loads overlap, TERM, container crash, PID reuse | one guarded pipeline at a time; a dead lock is broken |
| Ingestion runner (`run_source`, `store_raw_event`) | `raw_events`, `source_runs`, `source_policies` | policy and TTL check, fetch, insert-or-skip, commit every COMMIT_EVERY, close the ledger row | fetch fails mid-stream, kill between batches, TTL and cadence interact | ledger agrees with rows; what is published is stored in the end |
| Classification runner (`app/classify/runner.py`) | `signals`, `classified_events`, `review_queue` | per-event savepoint, mint, refresh text, quarantine, final reconcile (retract / restore) | events commit one by one and the reconcile at the end; rules change by deployment; several classifiers share events | the store says what today's rules say; a dismissed card is left alone; no text without a source |
| Scoring and supersede (`app/scoring.py`, `app/supersede.py`) | `signals.status`, scores | decay, un-decay never, supersede a proposal by its final rule | each job owns a part of `status` | as above |
| Incident tiers (`retier_incident`) | `incident_evidence_level`, `customer_facing_allowed`, `incident_tier_edits` | mint with a tier, re-tier with a reason | long chains of edits | the trail replays; outreach is cleared by a reasoned edit only |
| License facts and plays (`app/licensing.py`, `app/plays.py`, fact editor) | `license_facts`, `license_play_candidates`, `license_play_snapshots` | seed load, rebuild (no lock), operator edits, snapshot generation | rebuild commits between a generation's SELECTs; frozen text and live tier are combined | snapshots are immutable and explain themselves; cited facts stay; no uncleared opener |
| Precomputed aggregates (`app/aggregates.py`, `analytics_counts`) | `aggregate_state`, `signal_aggregates` | refresh, fingerprint, read SELECT by SELECT | reader takes no lock and no transaction | a count served was true at some moment of the request |
| Accuracy audit (`app/audit/judge.py`, `client.py`) | `audit`, `audit_runs` | sample round-robin, ask a paid model under a savepoint, write verdicts, finish, reap | operator commits during the call make the snapshot unwritable; ceiling cuts the sample | verdicts whole and once; spend bounded; coverage spread |
| Scoring, combos, obligations (`app/scoring.py`, `app/combos.py`, `app/obligations.py`) | score columns, the stamp of the tuning, `combo_rules`, `regulatory_obligations` | a rescoring pass, tuning edits with a pass of their own, derive and re-derive obligations, supersede | a pass reads its inputs one by one and a seed load takes no lock; combos look at cards the pass may decay | a score is explained by its stamp; frozen scores stay; a pass that decays nothing is final; a combo means what it says |
| Entity resolution, enrichment (`app/resolve.py`, `app/enrich_entities.py`) | aliases, collision terms, identifiers, the generated files | load an index, match, roll up to the top account, refresh identifiers | an index loaded at the start of a run is used through it; builds move aliases between files | a match is earned; cards go to live top accounts |
| Watchlist editors and their audit (`app/ui/data.py`, `routes/admin.py`) | `watchlist_entities` and its satellites, `config_audit` | add, edit, disable, reset, remove; aliases and terms; seed loads | long chains of legal calls over three writers of the same columns | the trail explains the tables; nothing dangles |
| Source fetchers (`app/ingest/*.py`) | none | pages, windows, feeds, months, limits, keys | pages cut off, sources fail half-way, documents change | a success is complete; nothing is lost |
| Classifier rules (`app/classify/*.py`) | none, reads of earlier rows | one rule per source and trigger | a name in a text, doubtful names, forced re-runs | a name is earned; one review waits at a time |
| Feedback and triage (`record_feedback`, `triage_decision`) | `feedback`, `entity_match_decisions`, `review_queue` | two writes with retries, outside the ingestion lock | a busy database, a dying web process | saved once and whole, or refused and said so |
| Precision ledger (`app/audit/precision.py`) | the monthly record files | rates, gates G1 and G2, spot check, half-life, monthly record | re-rated, re-tiered, re-judged cards; months; two surfaces | slices add up; a demotion is evidenced; a record stands |
| Seeds (`app/db/load_seeds.py`) | the seeded tables | upsert without a lock at every start | meets the editors of the same columns, and jobs | operator columns survive; see the rows above |
| Web UI, packaging, migrations, goldens, spikes | none of their own, or presentation | | | see section 9 |

How they interact: cron runs `scheduled_run.sh`, which runs `ingest_pipeline.sh`, which
runs the jobs in a fixed order, each its own process. Every job but `app.licensing`
takes the ingestion lock; so do the editors of the Admin page. Feedback and triage
write without the lock and retry on a busy database; the analytics reader takes
nothing. All shared state is in SQLite, so the unit of atomicity is the commit, and
that is the unit of the models: *one action is one commit, one SELECT made outside a
transaction, or one system call on a shared file*.

The hazards of the code are listed with their lines in `PROJECT.json`.

## 2 Modules

| Module | Models | Used by |
|---|---|---|
| `SingleWriter` | what a lock promises: one writer inside at a time | refined by the next two |
| `IngestLock` | `ingest_lock`, one system call per action, for any set of processes, of which `Threads` run off the main thread and install no handler | `MCIngestLock` |
| `ScheduledRun` | `scheduled_run.sh`, one command per action; the ingestion lock appears as what `-e` and `find -mmin` see of it | `MCScheduledRun` |
| `IngestRun` | `run_source` for one source, with cron, manual, `--force` and `--limit` runs, the operator's toggle, the clock | `MCIngestRun` |
| `SignalLifecycle` | `run_classifier` for any classifiers, with scoring, supersession, triage and deployments | `MCSignalLifecycle` |
| `IncidentTier` | the tier editor, its gate and its trail | extended by the next two |
| `Aggregates` | refresh and reader, composed with the tier editor and the status jobs | `MCAggregates` |
| `LicensePlays` | facts, candidates and snapshots, composed with the tier editor | `MCLicensePlays` |
| `AuditJudge` | the audit run, its client and its ledger | `MCAuditJudge` |
| `Obligations` | derivation of obligations, the text of an applicability rule and its two readers | extended by `Combos` |
| `Combos` | which combo expressions are accepted, when one fires | extended by `Scoring` |
| `Scoring` | the scoring pass, its editors, the moves of status around it | `MCScoring` |
| `Resolver` | the decision of `EntityResolver.resolve` and the rollup | extended by `Watchlist` |
| `Watchlist` | the editors with `config_audit`, seed loads, enrichment, a classification run | `MCWatchlist` |
| `Fetchers` | one operator per `fetch_events` of the 17 ingesters | extended by `Pipeline` |
| `ClassifierRules` | one operator per rule of the classifiers | extended by `Pipeline` |
| `Pipeline` | a source from its site to its cards, for each of the 19 sources | `MCPipeline` |
| `Precision` | the statistics of `precision.py` as operators on rows | instantiated by `PrecisionLedger` |
| `OperatorWrites` | feedback and triage, statement by statement, beside a run | extended by `PrecisionLedger` |
| `PrecisionLedger` | feedback, audit rows, tiers, the surfaces and the monthly record | `MCPrecision` |
| `*Proofs` | theorems of the module of that name | section 6 |

Correspondence of state and code, where it is not evident from the comments:

* `IngestLock`: `pc` is the place in `ingest_lock()`. `ts` is the age of the timestamp
  a call prepared, `stamp` that of the one in the file (`Nobody` while the file is
  zero-byte), `mtime` the file's. Ages are counted in ticks of `LOCK_STALE_S / Stale`
  and stop at `Stale`, since the code compares them with `LOCK_STALE_S` only. `Break`
  removes *whatever is at the path*, as `os.remove` does; `WritePayload` goes through
  the descriptor, so it does nothing to the path if the file there is another one.
* `ScheduledRun`: the lockfile's PID is a tick, `Dead` (no process has it) or `Foreign`
  (a process that is no tick has it). `ilock` moves freely among none, fresh and stale:
  the guard must not rely on anything about it. `orphans` are pipelines that outlive a
  killed shell; a tick is `Guarded` while its pipeline runs and its shell lives.
* `SignalLifecycle`: signal ids are deterministic (`_signal_id`), so the cards that can
  exist are a constant. `says` is what the current rule says of a card: nothing
  ("silent"), a candidate with sourced words ("sourced"), or one the provenance guard
  refuses ("unsourced"). It is chosen anew by `Redeploy` with a new parser_version and
  is fixed in between: this is the discipline the docstring of `app/classify/runner.py`
  asks for, and an assumption here. `torn` is history: the events of runs that died
  before they reconciled. `Dismiss` is external: nothing in the repository writes that
  status, though every job respects it.
* `IngestRun`: `mine` are the committed rows with the current run's id, `older` the
  rest, `batch` the uncommitted inserts. `age` is the age of the last success.
* `IncidentTier`: reasons are "given" or "none".
* `LicensePlays`: `origin` distinguishes the transform's facts (`sku_or_plan` set) from
  the operator's, `words` says who wrote the editable columns; `Base` are the commercial
  facts, which the matrix yields for each row, the rest of `Matrix` the gcc_high facts,
  which appear and go with their cell. A generation reads candidates, then facts, then
  all the rest in the transaction its first INSERT opens. A snapshot's `opener` is
  "asked" or "withheld" (`_outreach_safe_text`), `at` the length of the tier trail when
  it was written, a history variable. Seed loads upsert and never delete a row of
  `license_matrix` or `indicator_map`, hence `yields` and `mapped` keep their rows.
* `Aggregates`: `truths` collects, per dimension, what a live count would have given at
  each moment of a request; `restored` is history. The request-scoped memo is left out.
* `AuditJudge`: one signal is one savepoint; `OperatorCommit` after the first SELECT
  makes every later write of that savepoint fail (SQLITE_BUSY_SNAPSHOT). `bills` is
  what the client was charged, kept beside what the run records.
* `Scoring`: weights and multipliers are whole numbers of `1 / Neutral`, and the decay
  0.5^(age / half-life) is compared with the threshold by taking both sides to whole
  powers, so that no rounding is invented. A score is the record of the factors the code
  multiplies and stores (`score_base`, `score_fit`, ... and `scoring_config_version`,
  which is the digest of the tuning and appears as the tuning itself). `seen` and `torn`
  are history: what entities the pass saw, and whether a seed load fell into it.
  `pass` is what a pass has read so far; its four steps are the four statements outside
  a transaction, the UPDATEs commit together. A tuning edit runs a pass inside its own
  transaction, which is one step.
* `Obligations`: an applicability rule is a sequence of clauses as it is written to the
  column and parsed back; a store may hold the text of an earlier build.
* `Resolver`: a term is a normalized name. `Ratio` is what `difflib` gives for two terms
  in that order: the code selects by one order and scores by the other, and the ratio
  need not be symmetric. `CloseMatches` is the `n=8` of `get_close_matches`, and `Rank` the
  order of strings by which it breaks ties. A query's context is the set of the terms
  found in the text around the name.
* `Watchlist`: a row of an entity is its editable columns, identifiers, origin and
  active flag. `run` is what a classification's resolver has loaded. `files` are the
  hand-written seeds of the deployed build, `generated` the two files enrichment writes.
* `Fetchers`: a fetcher is a function from the state its requests meet (`site`, today,
  `--limit`, how many requests get an answer, the form of the replies) to the rows it
  yields before it ends, and whether it ends in success: a generator yields what it has
  before a request fails, and the runner commits that.
* `ClassifierRules`: of a text only the phrases, fields and codes its rule looks for are
  kept ("tags"), and of a name what the resolver says of it alone and in its context.
* `Pipeline`: a run of a fetcher and a run of a classifier are one step each. Runs hold
  the ingestion lock; how they commit in pieces and die is `IngestRun` and
  `SignalLifecycle`. What joins them here is the rows: `store_raw_event` keeps the first
  payload of an id. `Triage` is the operator's decision of a review (`triage_decision`):
  the guards of the classifiers look at pending reviews only, so it matters to them.
* `OperatorWrites`: `lock` is SQLite's writer lock. A click executes its statements, the
  first of which takes the lock, and commits; an attempt that finds the run there waits
  `busy_timeout` and is rolled back.
* `PrecisionLedger`: feedback and audit rows with the columns the two queries join to
  them; a rate is the pair of counts it divides. Days and months are small numbers.

Operators introduced with "Wrong on purpose" are plausible bugs of the definition that
follows them. They take part in no specification; each shows, when put in place of that
definition, that the property it is paired with in `PROJECT.json` can fail.

## 3 Runs

Eleven runs pass and one ends in a counterexample, which is its point. Numbers are
distinct states.

| Run | Question | Answer |
|---|---|---|
| `IngestLock` | Does the lockfile serialize its bodies, with kills, SIGTERM and threads, and does it recover? | Inside the envelope of section 5 it implements `SingleWriter`, and the residue of a kill, zero-byte or stamped, is always removed in the end (206,343). |
| `ScheduledRun` | Do ticks overlap, and does a crash wedge the schedule? | Inside the envelope guarded pipelines implement `SingleWriter`, whatever is killed and whatever orphans still run; a dead lock is broken, unless its PID belongs to a process that never ends (73,518). That is less than "ticks never overlap": a pipeline whose shell was killed runs on unguarded, and the next tick starts a second one beside it (section 8). |
| `IngestRun` | Does the ledger tell the truth, and does everything published arrive? | Yes, under TTL skips, skipped slots, batch failures, repeats and a kill (216,010). |
| `Lifecycle` | Two classifiers on one event, after any mix of deployments, errors, limits, triage, decay and a kill: does the store say what the rules say, can one hurt the other's cards or a dismissed card, does the store converge? | For every event classified at the current version it does, but for those of a run that is in progress or was killed; none is hurt; it converges, but for a killed run's events, if deployments end (107,664). |
| `Scoring` | With edits, retractions, restores, a seed load and kills around and inside a pass, does a stored score follow from what is stamped on it? | Yes, unless a seed load fell into the pass; frozen scores stay; a pass that decays nothing leaves nothing to the next; accepted combos mean their clauses (1,071,834). |
| `Watchlist` | Edits, two builds of seeds, a refresh of identifiers and a classification whose resolver is older than all of them: does the trail explain what edits and loads left, does anything but an edit move an operator's value, does anything dangle, is a match earned? | It does, but for what an entity was added with, which is in no row (section 8); nothing does (a theorem, section 6); nothing; it is, among the spellings that are looked at, which need not be all that are near enough (section 8; 223,585). |
| `Pipeline` | For each of the 19 sources: what does a success promise, what may a card say of a company, how often does a name wait for review, is anything lost between site and card? | A success brings in all that its window and caps promise; a card of hearsay names an account only if the name alone gives it; no second review waits beside the first where the rule looks (PHMSA's does not), and a doubtful name has no card; a name that was decided may come back (section 8); nothing is lost where rows are keyed as the source needs it (60,754). |
| `AuditRuns` | Are verdicts whole and unrepeated, is the ledger true, the ceiling kept, the coverage fair? | Yes, with crashes, refusals, failures that cost, and operator commits (90,990 up to symmetry). |
| `Precision` | Is a click saved once or refused, do the figures add up, does anything unverified move a gate, is a demotion evidenced alike on both surfaces, does a month's record stand? | Yes (528,756). |
| `AggregatesServed` | Can a request be served a count that was never true during the request? | Not from a live count, nor from a stored one unless a retracted card was restored since its refresh (2,278,851). |
| `LicensePlays` | With rebuilds between the reads of a generation and edits everywhere, are snapshots complete and explained, cited facts kept, openers shown with a reason only? | Yes (188,809). |
| `PipelineSettled` | `app/classify/environmental_enforcement.py:18-19`: a case is reported once it is "actually settled". | A case first stored in litigation is never reported: its row keeps the first payload, and its key, the case number, does not change. |

What the properties say is written above each definition; each relates two pieces of
state, or a state and its history. Type invariants are not among the runs' properties:
those of `IngestLock`, `ScheduledRun`, `IngestRun`, `SignalLifecycle`, `IncidentTier`,
`OperatorWrites` and `Scoring` are theorems (section 6), and the remaining modules state
their types in the comments of their variables.

## 4 Bounds

Every bound is a constant with a name.

* `IngestLock`: three processes, one of them a UI thread; `Stale = 2` gives a file that
  is fresh, older, stale; two deaths, so that the recovery of a recovery is reached. A
  third process matters: one dies, one breaks, one arrives.
* `ScheduledRun`: three invocations, three signals or crashes, one PID reuse.
* `SignalLifecycle`: two versions of each rule (a deployment), two classifiers that
  share an event, a card each, one kill. A third version adds nothing the second does
  not: rules compare versions for equality only. Supersession has no pair of cards in
  this run; in `Scoring` it has, and the theorems of section 6 hold for any pairs.
* `IngestRun`: two events with `COMMIT_EVERY` = 2 and up to four deliveries in a
  response, so that a repeat, a full batch and a partial batch all occur; a cadence and
  a TTL of three hours, since it is their equality that is delicate; one kill, two
  manual runs.
* `Aggregates`: two cards of different triggers and tiers, one re-tier, two refreshes,
  two commits during a request: enough for a retraction and a restore between two reads.
* `AuditJudge`: three signals in two strata, two checks, calls of one or two cents under
  a ceiling of three, two runs. Symmetry over the two signals of one stratum and over
  the checks; no liveness is checked there. The run really stops when its runs are
  used up, hence `CHECK_DEADLOCK FALSE`.
* `LicensePlays`: an early warning with two plays (one hidden in gov clouds) and an
  ordinary card; a commercial fact, a gcc_high fact that comes and goes, a fact of the
  operator's; two re-tiers (clear and suppress again), one seed load, one edit of facts
  or entities.

* `Scoring`: an incident and a project of one account and a rule about nobody that
  yields an obligation; two combos as seeded, and in the other seed files one with a
  `not_keyword` and two the parser refuses; two builds of the applicability table; one
  edit, one upset (a seed load or a kill), two moves of status, two days, which is what
  a decay with half-lives of one and two days needs.
* `Watchlist`: two seeded entities and one the operator adds that the second build seeds
  as well (the case where a load meets an operator's row); one bare collision term, one
  alias that moves between the files of the builds, three spellings near to one another
  with a cap of two (`CloseMatches`), so that the cap cuts; two edits, one classified
  event.
* `Pipeline`: two or three documents per source, of kinds chosen for its rule (settled
  and not, with and without an id, a date, a doubtful name), pages of one record, so that
  page bounds are met with two documents; windows and spans of one and two days over
  three days; four publications or changes in all, two pending reviews of a row.
* `Precision`: thresholds scaled to a few rows (a source is judged by two ratings), two
  months of one day each, two ratings, one triage, two audited cards, two attempts. The
  code's numbers appear in comparisons only.

The safety theorems of section 6 hold without these bounds.

## 5 Fairness and envelopes

Fairness is only what the scheduling gives. `IngestLock`: steps of a running call
happen, time goes on and stages are started; *not* that a body ends. `ScheduledRun`:
cron fires, shells run, `timeout` ends pipelines. `IngestRun`: cron fires and time
passes; strong fairness of *delivering* an event, since a fetch is allowed to fail any
number of times but not each time before the same event; `EventuallyStored` assumes the
operator leaves the source enabled in the end. `SignalLifecycle`: full nightly runs are
started again and again (strong, since another job may be running each time cron looks),
a run that is not killed goes on, and an event does not raise every night;
`EventuallyConverged` leaves out the events of a killed run, which no later run looks at
(section 8). `LicensePlays`: rebuilds and generations are started, and a generation does
not fail every night. `PrecisionLedger`: a request that is being served goes on; nothing
at all is asked of the run beside it, which may hold the database for ever.

Two modules are checked under an *envelope*: the code does not keep its promise outside
it, and the envelope says exactly what has to be avoided.

* `IngestLock`: `HoldsShort` (a call lasts less than `LOCK_STALE_S`; `timeout 110m` sees
  to it for the cron pipeline, nothing does for a manual run); `Undisturbed` (between a
  breaker's reading of the old lock and its remove, no lock appears at the path);
  `TimelyTerm` (no SIGTERM in the one statement between the release and the restored
  handler).
* `ScheduledRun`: `Undisturbed` (likewise) and `OrderlySignals` (a TERM finds the tick in
  its pipeline or at its end, and no new tick takes the lock while a TERMed shell is on
  its way out). Orphaned pipelines are inside the envelope, and the promise is about
  guarded pipelines only: no envelope short of "no shell is ever killed" would make it one
  about all pipelines.

The envelope is part of the specification's steps (`CarefulNext`), and fairness is of
steps inside the envelope, so that no state is made to look stuck by a step the
envelope forbids. Section 8 says what happens outside.

## 6 Proofs

All theorems are checked by TLAPS for every value of the constants that satisfies the
named assumptions, without the bounds' values mattering.

* `IngestProofs`, of `IngestLock` and `IngestRun`. The lock: `TypeCorrect`;
  `LockInvariant`: `LockInv` is inductive under `CarefulSpec`. `MutualExclusion` alone is not inductive: one needs that a holder's
  file is the one at the path, that it is as young as its holder's call, and that
  nobody who has judged a file stale is still to remove it while somebody holds. From it
  follow `SingleWriterAtATime` and `ImplementsSingleWriter`, the refinement of
  `SingleWriter` by `Inside`. The runs: `LedgerInv /\ CountsMatch` is inductive, since a
  batch holds nothing stored, so that a commit adds exactly its cardinality:
  `RunsTypeCorrect`, `LedgerTrue`.
* `ScheduledRunProofs`. The same argument with PIDs: `GuardInv` says whose PID is in the
  lock at each place of the script and what a breaker has read. `NoOverlap` (of guarded
  pipelines, for any number of orphans beside them), `ImplementsSingleWriter`. No theorem
  says that *pipelines* never overlap: they do.
* `SignalLifecycleProofs`. `LifecycleInv` strengthens `StoreFollowsRules` with
  `HistoryInv` (no row is from a version to come, so a deployment voids all claims) and
  `RunInv` (a run in progress remembers the cards it stands behind, and their text and
  queue rows are committed already). Reconciling then turns RunInv into
  StoreFollowsRules for the processed events. `StoreAgreesWithRules`,
  `ProvenanceHolds`, `DismissalStands`, `TypeCorrect`. `RunsAreConfined` needs besides
  that what a run has processed is of its own classifier's ingested events
  (`ProcessedInvariant`). Fairness plays no part.
* `TierProofs`, of `IncidentTier`, `LicensePlays` and `Aggregates`, which share the
  tier editor. `TypeCorrect`, and `TrailTrue` (the trail replays, the flag follows the
  tier, a clearing has its reason): the three are proved together, for the gate is applied
  to the flag and the replay is about the tier. `ImplementsIncidentTier` and
  `CountsKeepTrail`: every step of the plays and of the counted store maps to a step of
  the tier editor or a stutter, so the editor's theorems carry over (`PlaysKeepTrail`).
  `SnapshotsStay`. `CitedFactsStay`. `OpenersHaveReasons`: `OpenerWasCleared` remembers
  that the reason was in the trail when the opener was written; that the card is cleared
  *today* is `CfaFollowsTier`, and only the two together give what the operator sees.
  `SnapshotsExplain` needs `FactsComeFirst`: a candidate is committed with the base facts
  of its family, so that a generation, which reads candidates first and facts later, can
  miss none. `SlicesWereTrue` joins two invariants. `StoreTrue` says what a stored row of
  counts still owes to the store of now: while the fingerprint matches and nothing was
  restored, each status can only have gone *down* its order since the refresh, so that
  equal totals mean equal statuses (`SameCountsSameStatus`) and equal counts.
  `RequestTrue` says that the counts a request holds are in `truths`, those it was
  promised by the fingerprint included.
* `ScoringProofs`. `TypeCorrect`. `PassInvariant`: what a pass in progress has read is
  still what is stored, rules, tuning, profiles and active cards alike, because every
  writer of them takes the lock, unless the pass is torn by the one that does not, the
  seed load. `StampTrue` follows for the cards a pass stores, `ScoresFreeze` because the
  cards it stores to are those active when it read them. `PassesSettle`: with nothing
  torn and nothing decayed the stored scores are those of a pass begun now. `CombosMean`:
  the expression's order and the reference meaning agree, both readers of the
  applicability text included. `KnobsInert`: a weight `tuning_usage` does not report
  moves no active card's score.
* `WatchlistProofs`. `OnlyEarnedMatches` is a lemma about the decision of the resolver for
  every query and every index that is the index of some entities (`EarnedAlways`), for any
  cap on the spellings it looks at and a ratio that need not be symmetric; "the only near
  name" is said of those it looks at, since it does not hold of all (section 8).
  `NothingDangles` and `WatchlistTypeCorrect` follow from `WatchInv`, which adds that the
  resolver of a run in progress was loaded from entities that were live at that moment.
  `CardsGoToTheTop`: the walk up the relationships is a function on the naturals into a
  finite set, so it comes back to an account it has passed (`WalksClose`); the least
  number at which it does is where the code's `seen` set stops it. `TheTrailExplains`
  needs `AllAccounted`: beside what the property says of live entities, the invariant must
  say of removed ones that their last row is the removal, for the next entity of that name
  begins there, and that a column is either the last edit's since the last whole-entity
  row or one of a loaded build's. What an entity was added with is exempt by name, for the
  trail does not have it; `EditsAreRecorded` says what is left: a value that an operator
  gave or set changes in no other step than an edit that writes its row.
* `AuditProofs`, of `AuditJudge`, `OperatorWrites` and `PrecisionLedger`, which meet in
  the ledger.
  The click: `WritesTypeCorrect`, with what the statements done so far imply about the
  writer lock; `SavedWhole`: at a commit all statements of the click are done, so the
  tables change by all of them or not at all; `DecisionsAgree`: a review row that is no
  longer pending carries a decision, and the last agrees with it.
  The judge: `AuditInv` says that what is left of the queue is unaudited and distinct,
  that the run's record counts what its bills and rows hold, and that it is the only one
  that reads as running. `JudgedOnce`, `RunRowsTrue`, `SpendIsBounded` follow.
  `StrataShareTheBudget`: each prefix of a round-robin sample takes from a stratum within
  one of any other that has cards left (`RoundsAreFair`), by the greatest round a prefix
  has finished.
  The figures: `RecordsStay`: a rate over the rows of a month that is over reads only
  columns that no later click, verdict or re-tier changes (the lemmas named `...Alike`),
  so the record filed is the one that would be filed again. It has a hypothesis,
  `WaiverActive`, which is what `app/audit/precision.py` sets; with the waiver lifted the
  claim is false (section 8). `UnverifiedStaysApart`: the rows behind gate G1 are of
  accounts and of verified incidents, whichever ratings come. `DemotionFollowsEvidence`:
  the gate of both surfaces says exactly that the last words on the cards of a source
  number at least the floor and disagree beyond the threshold. `SlicesMakeTheWhole`: the
  rates by any dimension, the reasons, the disagreements by source and the half-life rows
  partition what they split, and so their counts add up. The last needs
  `ReasonsAreGiven` (only a rating that is not useful carries a reason, and it is one of
  the codes) and sums over sets, which the model takes as folds.

* `PipelineProofs`, of `Fetchers`, `ClassifierRules` and `Pipeline`. First what the
  operators on sequences do: `FlattenSeq` joins what it is given (`FlattenIs`), `Only`
  moves each element it keeps to its rank among those kept (`OnlyRanks`), the pages of a
  listing hold all of it (`PagesCover`), a document that is not cut off stands on one of
  the pages asked for (`RankWithinGuard`), the spans of NVD cover the window
  (`SpansCover`). Then one lemma on each fetcher (`...Good`; `FetchGood` joins them): what
  it yields has the key of its document, and a run in full that succeeds brings in each
  document the source promises. The invariant `PipeInv` says that a row keeps the document
  its key was made of, that a card is one its row deserves, that a row which has been
  through a classifier has all its cards of it, and that a review, pending or decided, was
  asked for by a rule that then gives no card. It is inductive because a rule reads only its row and the rows
  before it (`RuleStays`), which later fetches leave as they are (`StoredBy`).
  `SuccessBringsAll` and `NothingIsLost` follow with `SameKey` (one key, one document, and
  where content is hashed one text), `NamesEarned` and `OneWaits` with what each rule
  decides (`RuleIs`). They hold for every catalogue, window, page size, span, cap and list
  of parts that `PipelineAssumption` admits: each document of a source that is asked part
  by part is listed by one of its parts.

Where a definition recurses over data, its theorem is about a function that takes the
same steps: `FoldsAgree` shows that a fold over a finite set and such a function agree,
and the walks of `WatchlistProofs` are shown to exist and to be unique, both by the least
number at which they would differ. No induction theorem with an operator as its parameter
is used.

The assumptions named in the modules are what the code gives: finite sets of cards, of
checks, of entities; numbers that are not negative; marks (nobody, none, never) that are
none of the values they stand beside; the values a column of the schema admits. TLC
evaluates each of them in the run of its module.

## 7 Only model-checked

Liveness (`DeadLockAgesOut`, `DeadLockIsBroken`, `EventuallyConverged`,
`EventuallyStored`, `EventuallyPinned`, `EveryClickIsAnswered`): fairness and ENABLED are
out of the prover's reach.

Every other property of a passing run is stated by a theorem. `SettledIsReported` is
refuted by its run. `GuardedNeverOverlap` and `OnlyRecordedEdits` are proved and have no run
of their own: the first is part of what `SingleWriterSpec` says.

## 8 Known divergences

With a run (section 3): `PipelineSettled`.

Met while modelling; where the part is modelled the model does the same, and the properties
exempt it by name or by an envelope:

*Locks and runs*

* A manual run that overruns `LOCK_STALE_S` is joined by a second writer
  (`app/ingest/runner.py:132-138`); a body is never told that its lock was broken.
* Two writers that judged the same stale ingestion lock: the second unlinks the one the
  first has re-created.
* Scheduled ticks can overlap, by two ways, whereas `deploy/scheduled_run.sh:6-9` says:
  "Scheduled ticks never overlap EACH OTHER". A shell is killed alone (SIGKILL, the OOM
  killer) and the pipeline, its child under `timeout` (line 141), goes on; the next tick's
  `kill -0` (89) asks about the shell's PID only, finds it gone, breaks the lock (117) and
  starts a second pipeline; the ingestion lock still keeps the two pipelines' writing steps
  apart (`IngestLock`). And two ticks that judged the same dead lock: judgement (115), `rm` and
  `ln` (117) are three steps, so the second `rm` takes away the lock the first has just
  made, the race that lines 30-35 call impossible "once staleness means 'the recorded PID
  is gone'".
* A SIGTERM after `os.remove` and before the handler is restored unlinks the lock the
  next writer may have taken (`app/ingest/runner.py:150-159`).
* The TERM trap of `scheduled_run.sh:124` removes the lock and does not exit; a TERM
  before the pipeline starts lets it start without its lock.
* A tick lock whose PID the kernel gave to a long-lived process blocks all later ticks.
* Events are marked classified one commit at a time and retractions reconciled once, at
  the end (`app/classify/runner.py:588`): a run killed in between leaves cards up that the
  rules no longer emit, and later runs skip the events, whereas lines 37-39 say that a
  version bump is "self-correcting".
* A decayed card that is retracted and later emitted again returns as active
  (`app/classify/runner.py:489-491`), whereas `app/scoring.py:33-34` has "decayed stays
  decayed".
* The TTL counts from the end of the last success and several sources have a TTL of one
  cadence, so every other daily slot skips them. The health label then reads "error"
  (`app/ui/data.py:653-669`).

*Sources and rules*

* `_previous_snapshot` (`app/classify/regulatory.py:299-312`) orders by `first_seen_at`; a
  page that returns to an earlier text gets no row, so that its next change is compared
  with a text that is not the "immediately preceding snapshot" of line 55.
* PHMSA's rule queues a doubtful operator on every pass, without looking for a pending
  review (`app/classify/phmsa_enforcement.py:185`); `OneReviewWaits` bounds the reviews of
  the other three sources of hearsay only.
* `_enqueue_review_once` looks for a pending review only (`app/classify/ransomware.py:144-150`,
  `app/classify/security_rss.py:176-182`): a name that the operator has decided is queued
  again by the next `--force` pass, whereas `ransomware.py:66-69` says that the writes are
  guarded under `--force` "to stay stable".
* A reply of a form the fetcher does not know (no list where one is expected) is an empty
  success for most sources.

*Configuration and scores*

* `add_watchlist_entity` writes one audit row, `__add__`, with the name alone
  (`app/ui/data.py:1801-1808`); the other columns it stores are in no row, whereas its
  docstring (1785-1787) says that an entity a rebuild drops is "replayable from
  config_audit". `AuditExplains` exempts what an entity was added with.
* `_fuzzy` looks at the eight nearest spellings (`app/resolve.py:113-114`). When they are all
  of one entity, a rival at or above `MATCH_THRESHOLD` behind them is not seen, and the
  name is matched, whereas line 18 says "fuzzy ratio >= this and unambiguous". The run
  cuts off after two (`CloseMatches`).
* A seed load takes no lock: falling between the reads of a scoring pass it leaves scores
  stamped with a tuning that was never stored as a whole (`app/scoring.py:214`).
* A refresh of identifiers rewrites the generated files from what it finds today: what
  an earlier refresh found is gone from them, though the load keeps what it has stored.

*Aggregates, audit and precision*

* The aggregate fingerprint holds totals per status (`app/aggregates.py:121`): one card
  retracted and another, of a different trigger, restored leave it as it was, and stored
  counts are served as fresh, whereas `app/ui/data.py:2562` says "a stale aggregate is
  never served". `EachSliceWasTrue` exempts stored counts after a restore.
* `analytics_counts` reads its stamp and its counts by two SELECTs; a refresh between
  them pairs an old `as_of` with newer counts.
* A feedback or triage commit while the judge is asked makes the first INSERT fail, and
  the paid call is left out of `budget_spent` (`app/audit/judge.py:290`), which
  `0006_audit.sql:33` calls "estimated USD spent on judge calls this run". The ceiling is
  kept all the same: the client counts for itself.
* `g1_status` is computed over all rows, not over the month, though `format_report` says
  that "every line in this record describes one reporting month". The waiver hides it;
  with the waiver lifted, the `g1=` field of a record would move when it is rewritten.
* G1 counts feedback rows: a card rated twice counts twice.
* A re-click after a lost reply stores a second feedback row. Triaging a disposed row
  again overwrites its disposition and adds a decision.
* The spot-check floor of five cannot be reached in a month with fewer audited cards.
* A month whose record job does not run (a container down on the 1st) gets no record.
* The goldens command ends with an error when there is no golden at all.

*Licensing*

* A rebuild between a generation's reads and its commit can drop a fact the snapshot
  then cites (`app/plays.py:141`, `app/licensing.py:268`); the rebuild reports it as
  orphaned.
* A snapshot generated while a card is unconfirmed keeps its "Verification-first" text;
  once the card is promoted that text is what is surfaced as its outreach
  (`app/ui_web/render.py:1202`).
* An operator's fact whose id the matrix later yields becomes the transform's, and may
  be dropped when the matrix stops yielding it. An operator's edit of an uncited fact is
  lost when the fact leaves the matrix and returns.
* Gov posture is applied when a play is generated; a later change of it leaves earlier
  snapshots in place.

## 9 Not modelled

Templates, styles, routing and the wording of digests: presentation. Most reads of
`app/ui/data.py`: single SELECTs without state. `app/spikes`, `app/probe.py`: evaluations
that no job calls. `app/reverify.py`: a read-only sweep. Goldens: a developer's replay.
Migrations run once, before the server, each under a savepoint of its own; a backup is
one call of SQLite's. `deploy/entrypoint.sh` starts the first load through the guard,
which is a tick in `ScheduledRun`; how it relays SIGTERM is left out. The source-policy
editors write one row each; the enabled flag they set is the toggle of `IngestRun`.
Facilities are written by seed loads only and are read for a map.

Abstractions that a reader should know: a rebuild's SELECT of the matrix and its
transaction are one step (a seed load, run once by the entrypoint before the scheduler,
does not fall between them); `store_raw_event` compares content by identity; the audit's
`run` stands for the timestamp its rows share; patterns that find a phrase in a text,
normalization and the similarity of two terms are given, since what follows from them,
not how they are computed, is what the properties are about.

Smaller ones: every seed file of `Scoring` lists every trigger, so that base strengths are
replaced as a whole, while combo rules are upserted one by one. A GDELT query gets the
first articles in the order the site has them, since the request asks for no order. A tag of
a NERC page stands for one place of its text, so that the regions `difflib` reports come to
a set difference (`PageDiff`). A rule's cards quote the row they were made of, so that the
quarantine of unsourced text is not a fate in `ClassifierRules`; it is an action's part in
`SignalLifecycle`. `Keeps` asks for a row of each promised document: of a filing that
several accounts' queries hit, EDGAR full text stores one row per account, and that each is
there is not stated. An audit row a crash left running is "reaped" in `AuditJudge`, which
the table writes as `error` with a note. A review row of `Pipeline` is decided with all its
candidates.

## 10 Plan

Done, in the order of importance: the locks (`SingleWriter`, `IngestLock`,
`ScheduledRun`), the store (`SignalLifecycle`, `IngestRun`), what the operator relies on
(`IncidentTier`, `Aggregates`, `LicensePlays`), the audit (`AuditJudge`), scores
(`Obligations`, `Combos`, `Scoring`), the watchlist (`Resolver`, `Watchlist`), sources and
rules (`Fetchers`, `ClassifierRules`, `Pipeline`), the ledger (`Precision`,
`OperatorWrites`, `PrecisionLedger`).

What could follow: the source-policy editors and their part of `config_audit`; migrations
over a store of each earlier version; a composition of `Pipeline` with `SignalLifecycle`
in which the rules of a source change between its runs.

A theorem that could follow: that a classification run of `Pipeline`, taken apart into
its savepoints, is a run of `SignalLifecycle` under rules that do not change.

## 11 How to run

    tlc -workers 2 -config LicensePlays.cfg MCLicensePlays
    tlapm TierProofs.tla

Each `.cfg` goes with the MC module `PROJECT.json` names for it. Every run ends within
three minutes on two workers.
