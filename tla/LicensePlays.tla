---------------------------- MODULE LicensePlays ----------------------------
(***************************************************************************)
(* License facts and license-play snapshots: the rebuild of facts and play *)
(* candidates from the seeded matrix (app/licensing.py), the operator's    *)
(* fact editor (app/ui/data.py), and generate_snapshots (app/plays.py),    *)
(* which pins what a card recommends at that moment, the outreach opener   *)
(* included.  The opener follows the card's evidence tier (IncidentTier).  *)
(*                                                                         *)
(* generate_snapshots and the editors hold the ingestion lock; rebuild and *)
(* load_seeds take no lock.  Their commits fall between the SELECTs of a   *)
(* generation, which opens its transaction with its first INSERT.          *)
(***************************************************************************)
EXTENDS IncidentTier, FiniteSets

CONSTANTS
    Plays,        \* play_ids: an indicator_map row each
    PlaysOf,      \* card -> the plays of its trigger
    GovPlays,     \* the plays of GOV_UNAVAILABLE_FAMILIES
    Facts,        \* fact_ids that can be stored
    FactsOf,      \* play -> the facts of its family
    Matrix,       \* the facts the license matrix can yield
    Base,         \* those it always yields, the commercial segment
    MaxReloads,   \* bound: seed loads
    MaxFactEdits  \* bound: operator edits of facts and entities

ASSUME PlaysAssumption ==
    /\ PlaysOf \in [Cards -> SUBSET Plays] /\ GovPlays \subseteq Plays
    /\ FactsOf \in [Plays -> SUBSET Facts]
    /\ Base \subseteq Matrix /\ Matrix \subseteq Facts
ASSUME LimitsAssumption == MaxReloads \in Nat /\ MaxFactEdits \in Nat

VARIABLES
    yields,      \* what license_matrix yields now
    mapped,      \* indicator_map
    origin,      \* fact -> "transform" (sku_or_plan is set), "operator", "absent"
    words,       \* fact -> who wrote its editable columns
    candidates,  \* license_play_candidates
    gov,         \* the cards whose entity satisfies gov_suppressed
    snapshots,   \* license_play_snapshots: <<card, play>> -> record
    pc,          \* the running generation's next step, "idle" without one
    read,        \* the candidates and the facts it has read
    reloads, factEdits

license == <<yields, mapped, origin, words, candidates>>
plays   == <<snapshots, pc, read>>
bounds  == <<reloads, factEdits>>
vars    == <<tiers, license, gov, plays, bounds>>

Stored == {f \in Facts : origin[f] # "absent"}

Cited == UNION {snapshots[k].facts : k \in DOMAIN snapshots}

Nothing == [plays |-> {}, facts |-> {}]

Init ==
    /\ InitTiers
    /\ yields \in {Base \cup cells : cells \in SUBSET Matrix} /\ mapped \in SUBSET Plays
    /\ origin = [f \in Facts |-> "absent"]
    /\ words = [f \in Facts |-> "none"]
    /\ candidates = {} /\ gov = {}
    /\ snapshots = [k \in {} |-> Nothing]
    /\ pc = "idle" /\ read = Nothing
    /\ reloads = 0 /\ factEdits = 0

-----------------------------------------------------------------------------
(* load_seeds on a new image: a gcc_high cell is filled or emptied, a row   *)
(* is added; rows are upserted and never deleted.                           *)
LoadSeeds(cells, rows) ==
    /\ reloads < MaxReloads
    /\ reloads' = reloads + 1
    /\ yields' = Base \cup cells
    /\ mapped' = mapped \cup rows
    /\ UNCHANGED <<tiers, origin, words, candidates, gov, plays, factEdits>>

(* Wrong on purpose: facts no longer produced go, cited or not.             *)
DroppedAll == {f \in Stored \ yields : origin[f] = "transform"}

(* Transform-owned facts that are no longer produced and that no snapshot   *)
(* cites.                                                                   *)
Dropped == {f \in Stored \ yields : origin[f] = "transform" /\ f \notin Cited}

(* The upsert leaves the editable columns of a stored fact alone.           *)
WordsAfter(f) ==
    IF f \in yields \ Stored THEN "matrix" ELSE IF f \in Dropped THEN "none" ELSE words[f]

Pinned == {k[2] : k \in DOMAIN snapshots}

(* rebuild: facts are upserted (an operator's fact of the same id becomes   *)
(* the transform's), stale ones dropped, candidates regenerated, without    *)
(* the lock.  One transaction but for the SELECT of the matrix before it,   *)
(* which LoadSeeds, run once by the entrypoint, is not interleaved with.    *)
Rebuild ==
    /\ origin' = [f \in Facts |-> IF f \in yields THEN "transform"
                                  ELSE IF f \in Dropped THEN "absent" ELSE origin[f]]
    /\ words' = [f \in Facts |-> WordsAfter(f)]
    /\ candidates' = mapped \cup (candidates \cap Pinned)
    /\ UNCHANGED <<tiers, yields, mapped, gov, plays, bounds>>

OperatorEdits ==
    /\ pc = "idle"
    /\ factEdits < MaxFactEdits
    /\ factEdits' = factEdits + 1

(* add_license_fact under an id of the operator's choice.                   *)
AddFact(f) ==
    /\ OperatorEdits
    /\ f \notin Stored
    /\ origin' = [origin EXCEPT ![f] = "operator"]
    /\ words' = [words EXCEPT ![f] = "operator"]
    /\ UNCHANGED <<tiers, yields, mapped, candidates, gov, plays, reloads>>

(* update_license_fact: an editable column of any stored fact.              *)
UpdateFact(f) ==
    /\ OperatorEdits
    /\ f \in Stored
    /\ words' = [words EXCEPT ![f] = "operator"]
    /\ UNCHANGED <<tiers, yields, mapped, origin, candidates, gov, plays, reloads>>

(* update_watchlist_entity moves an account into a gov cloud or out of it.  *)
MoveEntity(c) ==
    /\ OperatorEdits
    /\ gov' = IF c \in gov THEN gov \ {c} ELSE gov \cup {c}
    /\ UNCHANGED <<tiers, license, plays, reloads>>

(* A classifier mints a card, the operator re-tiers one, under the lock.    *)
Mint(c) ==
    /\ pc = "idle"
    /\ MintTiered(c)
    /\ UNCHANGED <<license, gov, plays, bounds>>

OperatorRetiers(c) ==
    /\ pc = "idle"
    /\ \E t \in Tiers, reason \in {"given", "none"} : Retier(c, t, reason)
    /\ UNCHANGED <<license, gov, plays, bounds>>

-----------------------------------------------------------------------------
(* Wrong on purpose: the facts first, then the candidates.                  *)
SelectFactsFirst(n) ==
    IF n = 1 THEN [read EXCEPT !.facts = Stored] ELSE [read EXCEPT !.plays = candidates]

(* The two SELECTs of generate_snapshots, outside any transaction.          *)
Select(n) ==
    IF n = 1 THEN [read EXCEPT !.plays = candidates] ELSE [read EXCEPT !.facts = Stored]

(* generate_snapshots: the candidates first ...                             *)
ReadCandidates ==
    /\ pc = "idle"
    /\ pc' = "facts"
    /\ read' = Select(1)
    /\ UNCHANGED <<tiers, license, gov, snapshots, bounds>>

(* ... then the facts ...                                                   *)
ReadFacts ==
    /\ pc = "facts"
    /\ pc' = "insert"
    /\ read' = Select(2)
    /\ UNCHANGED <<tiers, license, gov, snapshots, bounds>>

(* Wrong on purpose: cards that have a play already are passed over.        *)
MissingOnNewCards ==
    {k \in Cards \X read.plays :
        tier[k[1]] # Absent /\ k[2] \in PlaysOf[k[1]]
        /\ k[1] \notin {s[1] : s \in DOMAIN snapshots}
        /\ ~(k[1] \in gov /\ k[2] \in GovPlays)}

(* ... then, for every signal and every candidate of its trigger, unless    *)
(* the row exists or R7.10 suppresses it ...                                *)
Missing ==
    {k \in Cards \X read.plays :
        /\ tier[k[1]] # Absent /\ k[2] \in PlaysOf[k[1]]
        /\ k \notin DOMAIN snapshots
        /\ ~(k[1] \in gov /\ k[2] \in GovPlays)}

(* Wrong on purpose: the opener is written whatever the tier.               *)
SnapshotAlwaysOpens(k) ==
    [facts |-> FactsOf[k[2]] \cap read.facts, opener |-> "asked", at |-> Len(edits)]

(* ... the text of this moment, an opener only if the card is cleared.      *)
Snapshot(k) ==
    [facts |-> FactsOf[k[2]] \cap read.facts,
     opener |-> IF allowed[k[1]] = 1 THEN "asked" ELSE "withheld",
     at |-> Len(edits)]

EndGeneration == pc' = "idle" /\ read' = Nothing

InsertSnapshots ==
    /\ pc = "insert"
    /\ \A k \in Missing : k[2] \in candidates
    /\ snapshots' = [k \in DOMAIN snapshots \cup Missing |->
                        IF k \in Missing THEN Snapshot(k) ELSE snapshots[k]]
    /\ EndGeneration
    /\ UNCHANGED <<tiers, license, gov, bounds>>

(* It is killed or raises: all of it is rolled back.                        *)
GenerationFails ==
    /\ pc # "idle"
    /\ EndGeneration
    /\ UNCHANGED <<tiers, license, gov, snapshots, bounds>>

Generate == ReadCandidates \/ ReadFacts \/ InsertSnapshots

Next ==
    \/ \E cells \in SUBSET (Matrix \ Base), rows \in SUBSET Plays : LoadSeeds(cells, rows)
    \/ Rebuild
    \/ \E f \in Facts : AddFact(f) \/ UpdateFact(f)
    \/ \E c \in Cards : MoveEntity(c) \/ Mint(c) \/ OperatorRetiers(c)
    \/ Generate \/ GenerationFails

PlaysSpec == Init /\ [][Next]_vars

(* The nightly pipeline rebuilds and generates; a generation does not fail  *)
(* every night.                                                             *)
Fairness ==
    /\ WF_vars(Rebuild) /\ WF_vars(ReadCandidates)
    /\ SF_vars(ReadFacts) /\ SF_vars(InsertSnapshots)

FairPlaysSpec == PlaysSpec /\ Fairness

-----------------------------------------------------------------------------
(* The card view surfaces outreach only while the card is cleared.          *)
ShowsOpener(k) == snapshots[k].opener = "asked" /\ allowed[k[1]] = 1

(* R7.12 through both frozen text and live tier: the opener of an early     *)
(* warning is on show only if the trail holds a reasoned edit that cleared  *)
(* the card before the opener was written, and the card is cleared today.   *)
OpenerHasReason ==
    \A k \in DOMAIN snapshots :
        MintTier[k[1]] = "unconfirmed" /\ ShowsOpener(k) =>
            /\ tier[k[1]] # "unconfirmed"
            /\ \E i \in 1 .. snapshots[k].at :
                 Of(i, k[1]) /\ edits[i].newCfa = 1 /\ edits[i].reason = "given"

(* What makes it inductive: the reason is in the trail from the moment the  *)
(* opener is written, cleared today or not.                                 *)
OpenerWasCleared ==
    \A k \in DOMAIN snapshots :
        /\ k[1] \in Cards /\ snapshots[k].at \in 0 .. Len(edits)
        /\ MintTier[k[1]] = "unconfirmed" /\ snapshots[k].opener = "asked" =>
             \E i \in 1 .. snapshots[k].at :
                Of(i, k[1]) /\ edits[i].newCfa = 1 /\ edits[i].reason = "given"

(* "License facts FIRST, or play snapshots come out empty while the run     *)
(* still succeeds" (ingest_pipeline.sh): a play is never pinned without the *)
(* commercial facts of its family, in whatever order the jobs run.          *)
SnapshotExplains ==
    \A k \in DOMAIN snapshots : FactsOf[k[2]] \cap Base \subseteq snapshots[k].facts

(* R7.6: a snapshot is never overwritten nor lost.                          *)
SnapshotsPinned ==
    [][\A k \in DOMAIN snapshots :
         k \in DOMAIN snapshots' /\ snapshots'[k] = snapshots[k]]_vars

(* "A fact cited by a snapshot is always kept", and with it what the        *)
(* operator wrote into it, whatever the matrix yields meanwhile.            *)
CitedFactsStand ==
    [][\A f \in Cited \cap Stored :
         f \in Stored' /\ (words[f] = "operator" => words'[f] = "operator")]_vars

(* "One row per (signal, matching candidate)": every card gets the plays of *)
(* its trigger in the end, whatever fails on the way (but for those a gov   *)
(* cloud may suppress).                                                     *)
EventuallyPinned ==
    \A c \in Cards : \A p \in PlaysOf[c] \ GovPlays :
        (tier[c] # Absent /\ p \in mapped) ~> (<<c, p>> \in DOMAIN snapshots)
=============================================================================
