--------------------------- MODULE SignalLifecycle ---------------------------
(***************************************************************************)
(* The life of a stored signal (a "card"): minted, refreshed, retracted    *)
(* and restored by classifier runs (app/classify/runner.py), decayed by    *)
(* the scoring pass (app/scoring.py), superseded by app/supersede.py.      *)
(*                                                                         *)
(* A card's signal_id is deterministic, so the cards that can ever exist   *)
(* are a constant set, each with its raw event and the one classifier that *)
(* can emit it.  What the rule of a classifier says of a card changes with *)
(* its parser_version only.  Every job runs under the ingestion lock       *)
(* (IngestLock), so a job is atomic but for the places where it commits:   *)
(* run_classifier commits after every event (the RELEASE of an outermost   *)
(* savepoint) and reconciles afterwards, in a transaction of its own.      *)
(***************************************************************************)
EXTENDS Naturals

CONSTANTS
    Events,        \* raw_events that may be ingested
    Classifiers,   \* a classifier on one of its sources
    Cards,         \* the signal_ids that can be minted
    EventOf,       \* card -> its raw event
    OwnerOf,       \* card -> its classifier, the extraction_version prefix
    SupersededBy,  \* pairs <<proposal, final>>: same trigger, a shared docket,
                   \* the final later
    Nobody,        \* no classifier runs
    MaxVersion,    \* bound: parser_versions of a classifier
    MaxKills       \* bound: runs killed before they end

ASSUME CardAssumption ==
    /\ EventOf \in [Cards -> Events]
    /\ OwnerOf \in [Cards -> Classifiers]
    /\ SupersededBy \subseteq Cards \X Cards
ASSUME NobodyAssumption == Nobody \notin Classifiers
ASSUME BoundAssumption == MaxVersion \in Nat \ {0} /\ MaxKills \in Nat

VARIABLES
    ingested,    \* raw events stored
    version,     \* parser_version of each classifier's code
    says,        \* what the current rule says of each card
    status,      \* signals.status, "absent" before the insert
    text,        \* extraction_version of the card's evidence, 0 if absent
    classified,  \* classified_events: <<event, classifier, version>>
    review,      \* provenance rows of review_queue, per event
    runner,      \* the classifier that runs, or Nobody
    extent,      \* "limited" when the run was given --limit, else "full"
    todo,        \* rows of the run's SELECT not reached yet
    processed,   \* processed_ids
    emitted,     \* emitted_ids
    kills,       \* runs killed so far
    torn         \* <<event, classifier>>: last classified by a run that was
                 \* killed before it reconciled

store == <<status, text, classified, review>>
run   == <<runner, extent, todo, processed, emitted>>
vars  == <<ingested, version, says, store, run, kills, torn>>

Statuses == {"absent", "active", "decayed", "superseded", "retracted", "dismissed"}

(* Of a card a rule emits nothing, a candidate all of whose words come from *)
(* the raw event or the classifier's source, or one with words of its own   *)
(* (R10.6).                                                                 *)
Verdicts == {"silent", "sourced", "unsourced"}

Versions == 1 .. MaxVersion

TypeOK ==
    /\ ingested \subseteq Events
    /\ version \in [Classifiers -> Versions]
    /\ says \in [Cards -> Verdicts]
    /\ status \in [Cards -> Statuses]
    /\ text \in [Cards -> 0 .. MaxVersion]
    /\ classified \subseteq Events \X Classifiers \X Versions
    /\ review \in [Events -> {"none", "pending", "decided"}]
    /\ runner \in Classifiers \cup {Nobody}
    /\ extent \in {"full", "limited"}
    /\ todo \subseteq ingested
    /\ processed \subseteq ingested
    /\ emitted \subseteq Cards
    /\ kills \in 0 .. MaxKills
    /\ torn \subseteq Events \X Classifiers
    /\ \A c \in Cards : status[c] = "absent" <=> text[c] = 0
    /\ runner = Nobody => todo = {}

Init ==
    /\ ingested = {}
    /\ version = [k \in Classifiers |-> 1]
    /\ says \in [Cards -> Verdicts]
    /\ status = [c \in Cards |-> "absent"]
    /\ text = [c \in Cards |-> 0]
    /\ classified = {}
    /\ review = [e \in Events |-> "none"]
    /\ runner = Nobody
    /\ extent = "full"
    /\ todo = {}
    /\ processed = {}
    /\ emitted = {}
    /\ kills = 0
    /\ torn = {}

-----------------------------------------------------------------------------
(* A fetcher stored a new raw event.                                        *)
Ingest(e) ==
    /\ runner = Nobody
    /\ e \notin ingested
    /\ ingested' = ingested \cup {e}
    /\ UNCHANGED <<version, says, store, run, kills, torn>>

(* A corrected rule ships with a new parser_version.                        *)
Redeploy(k) ==
    /\ runner = Nobody
    /\ version[k] < MaxVersion
    /\ version' = [version EXCEPT ![k] = @ + 1]
    /\ \E rule \in [{c \in Cards : OwnerOf[c] = k} -> Verdicts] :
         says' = [c \in Cards |-> IF OwnerOf[c] = k THEN rule[c] ELSE says[c]]
    /\ torn' = {t \in torn : t[2] # k}
    /\ UNCHANGED <<ingested, store, run, kills>>

(* Wrong on purpose: classified once, by whatever version.                  *)
ClassifiedOnce(e, k) == \E v \in Versions : <<e, k, v>> \in classified

CurrentlyClassified(e, k) == <<e, k, version[k]>> \in classified

(* run_classifier selects its rows: those not classified at this version,   *)
(* or all of them (--force).                                                *)
StartRun(k, rows, reach) ==
    /\ runner = Nobody
    /\ runner' = k
    /\ extent' = reach
    /\ todo' = {e \in ingested : rows = "all" \/ ~CurrentlyClassified(e, k)}
    /\ processed' = {}
    /\ emitted' = {}
    /\ UNCHANGED <<ingested, version, says, store, kills, torn>>

CardsOf(e, k) == {c \in Cards : EventOf[c] = e /\ OwnerOf[c] = k}

Stored(c) == status[c] # "absent"

(* insert-or-skip: the candidates that become new cards.                    *)
Minted(e, k) == {c \in CardsOf(e, k) : says[c] = "sourced" /\ ~Stored(c)}

(* Wrong on purpose: the text an operator dismissed is refreshed too.       *)
NeedsRefreshAlways(c, k) == Stored(c) /\ text[c] # version[k]

(* _refresh_stored_text looks at a stored card that is not dismissed and    *)
(* whose text an other version wrote.                                       *)
NeedsRefresh(c, k) == Stored(c) /\ status[c] # "dismissed" /\ text[c] # version[k]

(* Wrong on purpose: the refresh skips the provenance guard.                *)
RefreshedUnguarded(e, k) ==
    {c \in CardsOf(e, k) : says[c] # "silent" /\ NeedsRefresh(c, k)}

Refreshed(e, k) ==
    {c \in CardsOf(e, k) : says[c] = "sourced" /\ NeedsRefresh(c, k)}

(* The provenance guard, at the insert and at the refresh.                  *)
Quarantined(e, k) ==
    {c \in CardsOf(e, k) :
        says[c] = "unsourced" /\ (~Stored(c) \/ NeedsRefresh(c, k))}

(* Wrong on purpose: only fresh inserts count as emitted.                   *)
EmittedIfNew(e, k) == Minted(e, k)

(* The candidates for which _process_candidate returns the signal_id.       *)
Emitted(e, k) ==
    {c \in CardsOf(e, k) : says[c] # "silent" /\ (says[c] = "sourced" \/ Stored(c))}

(* One event's savepoint, released, i.e. committed.                         *)
ClassifyEvent(e) ==
    /\ e \in todo
    /\ LET k == runner IN
       /\ status' = [c \in Cards |-> IF c \in Minted(e, k) THEN "active" ELSE status[c]]
       /\ text' = [c \in Cards |-> IF c \in Minted(e, k) \cup Refreshed(e, k)
                                     THEN version[k] ELSE text[c]]
       /\ classified' = classified \cup {<<e, k, version[k]>>}
       /\ review' = IF Quarantined(e, k) = {} THEN review
                    ELSE [review EXCEPT ![e] = "pending"]
       /\ emitted' = emitted \cup Emitted(e, k)
    /\ todo' = todo \ {e}
    /\ processed' = processed \cup {e}
    /\ UNCHANGED <<ingested, version, says, runner, extent, kills, torn>>

(* The classifier raised on one event: its writes are rolled back and the   *)
(* run goes on without it.                                                  *)
EventErrors(e) ==
    /\ e \in todo
    /\ todo' = todo \ {e}
    /\ UNCHANGED <<ingested, version, says, store, runner, extent, processed,
                   emitted, kills, torn>>

ReconciledCoTenants(c) == Stored(c) /\ EventOf[c] \in processed

(* Evidence rows carry the owner's prefix and the run reached their event.  *)
Reconciled(c) == Stored(c) /\ OwnerOf[c] = runner /\ EventOf[c] \in processed

(* _reconcile_retractions and its commit end the run; with --limit the loop *)
(* may have stopped before its last row.                                    *)
Reconcile ==
    /\ runner # Nobody
    /\ todo = {} \/ extent = "limited"
    /\ status' = [c \in Cards |->
         IF ~Reconciled(c) THEN status[c]
         ELSE IF c \in emitted
           THEN IF status[c] = "retracted" THEN "active" ELSE status[c]
           ELSE IF status[c] = "dismissed" THEN status[c] ELSE "retracted"]
    /\ torn' = torn \ (processed \X {runner})
    /\ runner' = Nobody
    /\ extent' = "full"
    /\ todo' = {}
    /\ processed' = {}
    /\ emitted' = {}
    /\ UNCHANGED <<ingested, version, says, text, classified, review, kills>>

(* The process dies: what it committed stays.                               *)
Kill ==
    /\ runner # Nobody
    /\ kills < MaxKills
    /\ kills' = kills + 1
    /\ torn' = torn \cup (processed \X {runner})
    /\ runner' = Nobody
    /\ extent' = "full"
    /\ todo' = {}
    /\ processed' = {}
    /\ emitted' = {}
    /\ UNCHANGED <<ingested, version, says, store>>

(* rescore: of the active cards those whose score has come below the        *)
(* threshold; which they are depends on time and on the operator's weights. *)
Rescore ==
    /\ runner = Nobody
    /\ \E low \in SUBSET {c \in Cards : status[c] = "active"} :
         status' = [c \in Cards |-> IF c \in low THEN "decayed" ELSE status[c]]
    /\ UNCHANGED <<ingested, version, says, text, classified, review, run, kills, torn>>

(* supersede: every active proposal that a stored final rule follows.       *)
Superseded(c) ==
    status[c] = "active" /\ \E f \in Cards : Stored(f) /\ <<c, f>> \in SupersededBy

Supersede ==
    /\ runner = Nobody
    /\ status' = [c \in Cards |-> IF Superseded(c) THEN "superseded" ELSE status[c]]
    /\ UNCHANGED <<ingested, version, says, text, classified, review, run, kills, torn>>

(* The operator's own judgment of a card.  Nothing under src/ writes this   *)
(* status; its readers and the writers above respect it.                    *)
Dismiss(c) ==
    /\ runner = Nobody
    /\ Stored(c) /\ status[c] # "dismissed"
    /\ status' = [status EXCEPT ![c] = "dismissed"]
    /\ UNCHANGED <<ingested, version, says, text, classified, review, run, kills, torn>>

(* triage_decision on a quarantined event.                                  *)
Triage(e) ==
    /\ review[e] = "pending"
    /\ review' = [review EXCEPT ![e] = "decided"]
    /\ UNCHANGED <<ingested, version, says, status, text, classified, run, kills, torn>>

Next ==
    \/ \E e \in Events : Ingest(e) \/ ClassifyEvent(e) \/ EventErrors(e) \/ Triage(e)
    \/ \E k \in Classifiers :
         \/ Redeploy(k)
         \/ \E rows \in {"new", "all"}, reach \in {"full", "limited"} :
              StartRun(k, rows, reach)
    \/ Reconcile \/ Kill \/ Rescore \/ Supersede
    \/ \E c \in Cards : Dismiss(c)

Spec == Init /\ [][Next]_vars

(* The nightly pipeline starts every classifier in full, a run that is not  *)
(* killed goes on, and a classifier that raises on an event does not do so  *)
(* every night.                                                             *)
Fairness ==
    /\ \A k \in Classifiers :
         /\ SF_vars(StartRun(k, "new", "full"))
         /\ \A e \in Events : SF_vars(runner = k /\ ClassifyEvent(e))
    /\ WF_vars(Reconcile)
    /\ \A e \in Events : WF_vars(ClassifyEvent(e) \/ EventErrors(e))

FairSpec == Spec /\ Fairness

-----------------------------------------------------------------------------
(* What the docstring of runner.py calls reproducible from raw events plus  *)
(* current rules, for one card: a card the rule emits is stored, shown and  *)
(* worded by the rule, one it does not emit is not shown, one it would word *)
(* with text of its own keeps its old wording or waits in the review queue. *)
FollowsRule(c) ==
    /\ says[c] = "silent" => status[c] \in {"absent", "retracted", "dismissed"}
    /\ says[c] = "sourced" =>
         /\ status[c] \notin {"absent", "retracted"}
         /\ status[c] # "dismissed" => text[c] = version[OwnerOf[c]]
    /\ says[c] = "unsourced" =>
         /\ status[c] # "retracted"
         /\ ~Stored(c) => review[EventOf[c]] # "none"

InRun(c) == OwnerOf[c] = runner /\ EventOf[c] \in processed

(* At every moment the store follows the rules on all events classified at  *)
(* the current version, but for those whose run is still going on or was    *)
(* killed: errors, limits, co-tenants, decay and supersession do not matter.*)
StoreFollowsRules ==
    \A c \in Cards :
        CurrentlyClassified(EventOf[c], OwnerOf[c]) =>
            \/ FollowsRule(c)
            \/ InRun(c)
            \/ <<EventOf[c], OwnerOf[c]>> \in torn

(* R10.6 over the store: no card whose words the guard would refuse today   *)
(* was worded by today's rule, whichever path (insert, refresh) wrote it.   *)
TextIsSourced ==
    \A c \in Cards : text[c] = version[OwnerOf[c]] => says[c] # "unsourced"

(* What makes the two inductive: nothing was classified or worded by a      *)
(* version to come, and a run in progress remembers exactly the cards it    *)
(* stands behind, whose text and queue rows are already committed.          *)
HistoryInv ==
    /\ \A e \in Events, k \in Classifiers, v \in Versions :
         <<e, k, v>> \in classified => v <= version[k]
    /\ \A c \in Cards : text[c] <= version[OwnerOf[c]]

RunInv ==
    /\ runner = Nobody => processed = {}
    /\ \A c \in Cards : c \in emitted => InRun(c)
    /\ \A c \in Cards : InRun(c) =>
         /\ c \in emitted <=> says[c] # "silent" /\ Stored(c)
         /\ says[c] = "sourced" =>
              Stored(c) /\ (status[c] # "dismissed" => text[c] = version[OwnerOf[c]])
         /\ says[c] = "unsourced" /\ ~Stored(c) => review[EventOf[c]] # "none"

LifecycleInv == HistoryInv /\ RunInv /\ StoreFollowsRules /\ TextIsSourced

(* "A 'dismissed' signal is never overwritten": neither its status nor the  *)
(* text the operator judged, whatever runs.                                 *)
DismissedStands ==
    [][\A c \in Cards : status[c] = "dismissed" =>
          status'[c] = "dismissed" /\ text'[c] = text[c]]_vars

(* A run changes the status of its own classifier's cards only, and only    *)
(* on events it classified without error: a classifier that crashes         *)
(* retracts nothing, and a co-tenant's cards are out of reach.              *)
RunTouchesOnlyItsOwn ==
    [][runner # Nobody => \A c \in Cards : status'[c] # status[c] =>
          /\ OwnerOf[c] = runner
          /\ <<EventOf[c], runner, version[runner]>> \in classified']_vars

(* Nightly runs bring the store to what the current rules say of every      *)
(* ingested event, and keep it there once nothing more ships; but for what  *)
(* a killed run classified and never reconciled, which waits for the next   *)
(* parser_version.                                                          *)
Converged ==
    \A c \in Cards : EventOf[c] \in ingested =>
        /\ CurrentlyClassified(EventOf[c], OwnerOf[c])
        /\ FollowsRule(c) \/ <<EventOf[c], OwnerOf[c]>> \in torn

EventuallyConverged == <>[]Converged
=============================================================================
