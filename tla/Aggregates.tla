----------------------------- MODULE Aggregates -----------------------------
(***************************************************************************)
(* The precomputed counts of the Analytics tab (app/aggregates.py), their  *)
(* reader (analytics_counts, app/ui/data.py), and the writes that can make *)
(* them wrong: status flips of the pipeline's jobs (SignalLifecycle) and   *)
(* the operator's re-tiering of incidents (retier_incident).               *)
(*                                                                         *)
(* Writers hold the ingestion lock and commit once, so each is one step.   *)
(* The reader takes no lock and opens no transaction: each of its SELECTs  *)
(* sees the last commit before it.                                         *)
(***************************************************************************)
EXTENDS IncidentTier, FiniteSets

CONSTANTS
    TriggerOf,   \* card -> its trigger, which fixes its scope too
    Nobody,      \* no aggregate, no request
    Lowered,     \* what rescore and supersede make of an active card
    MaxRefresh,  \* bound: refreshes
    MaxDuring    \* bound: commits of the store during a request

ASSUME TriggerAssumption == DOMAIN TriggerOf = Cards /\ IsFiniteSet(Cards)
ASSUME RefreshAssumption == MaxRefresh \in Nat

VARIABLES
    status,     \* signals.status
    aggregate,  \* aggregate_state and signal_aggregates, or Nobody; with it,
                \* history: whether a card was restored since its refresh
    refreshes,  \* refreshes so far, the stamp of the last one
    reader,     \* a request in analytics_counts, or Nobody
    truths      \* per dimension, what a live count gave during the request

countVars == <<tiers, status, aggregate, refreshes, reader, truths>>

Statuses   == {"absent", "active", "retracted"} \cup Lowered
Dimensions == {"trigger", "tier"}
Filters    == {{"active"}, {"active", "retracted"}}

ASSUME LoweredAssumption == Lowered \cap {"absent", "active", "retracted"} = {}

-----------------------------------------------------------------------------
KeyOf(d, c) == IF d = "trigger" THEN TriggerOf[c] ELSE tier[c]

Keys(d) == IF d = "trigger" THEN {TriggerOf[c] : c \in Cards} ELSE Tiers

(* compute_counts: one GROUP BY; a NULL tier is no bucket.                  *)
Slice(d, filter) ==
    [k \in Keys(d) |->
        Cardinality({c \in Cards : status[c] \in filter /\ KeyOf(d, c) = k})]

Counts(filter) == [d \in Dimensions |-> Slice(d, filter)]

StoredCounts ==
    [at : Nat, basis : [Statuses \ {"absent"} -> Nat] \X Nat,
     counts : [Dimensions -> UNION {[Keys(d) -> Nat] : d \in Dimensions}],
     expired : {"yes", "no"}, restored : {"yes", "no"}]

ASSUME NobodyAssumption == Nobody \notin StoredCounts

(* Wrong on purpose: the fingerprint without the edits' high-water mark.    *)
FingerprintOfStatuses ==
    [s \in Statuses \ {"absent"} |-> Cardinality({c \in Cards : status[c] = s})]

(* basis_fingerprint: per-status counts and MAX(edit_id).                   *)
Fingerprint ==
    <<[s \in Statuses \ {"absent"} |-> Cardinality({c \in Cards : status[c] = s})],
      Len(edits)>>

CountsInit ==
    /\ status = [c \in Cards |-> "absent"]
    /\ InitTiers
    /\ aggregate = Nobody
    /\ refreshes = 0
    /\ reader = Nobody
    /\ truths = [d \in Dimensions |-> {}]

Answered == reader # Nobody /\ reader.pc \in {"served", "counted"}

(* A commit of the store: a request in flight may see it or not.  One that   *)
(* is answered reads no more, so it responds before anything else happens.   *)
Observed ==
    IF reader = Nobody THEN UNCHANGED <<reader, truths>>
    ELSE /\ ~Answered /\ reader.during < MaxDuring
         /\ reader' = [reader EXCEPT !.during = @ + 1]
         /\ truths' = [d \in Dimensions |-> truths[d] \cup {Slice(d, reader.filter)'}]

StatusCommit(new) ==
    /\ status' = new
    /\ UNCHANGED <<tiers, refreshes>>
    /\ Observed

(* A classifier mints a card.                                               *)
MintActive(c) ==
    /\ MintTiered(c)
    /\ status' = [status EXCEPT ![c] = "active"]
    /\ UNCHANGED <<aggregate, refreshes>>
    /\ Observed

(* The operator re-tiers one.                                               *)
RetierCounted(c) ==
    /\ \E t \in Tiers, reason \in {"given", "none"} : Retier(c, t, reason)
    /\ UNCHANGED <<status, aggregate, refreshes>>
    /\ Observed

(* _reconcile_retractions takes some cards down and restores others.        *)
Reconcile(retract, restore) ==
    /\ retract \subseteq {c \in Cards : status[c] \notin {"absent", "retracted"}}
    /\ restore \subseteq {c \in Cards : status[c] = "retracted"}
    /\ StatusCommit([c \in Cards |->
            IF c \in retract THEN "retracted"
            ELSE IF c \in restore THEN "active" ELSE status[c]])
    /\ aggregate' = IF aggregate = Nobody \/ restore = {} THEN aggregate
                    ELSE [aggregate EXCEPT !.restored = "yes"]

(* rescore decays, supersede supersedes active cards.                       *)
Flip(S, to) ==
    /\ S \subseteq {c \in Cards : status[c] = "active"}
    /\ StatusCommit([c \in Cards |-> IF c \in S THEN to ELSE status[c]])
    /\ UNCHANGED aggregate

(* refresh: state row and counts in one transaction, for active cards.      *)
Refresh ==
    /\ refreshes < MaxRefresh /\ ~Answered
    /\ refreshes' = refreshes + 1
    /\ aggregate' = [at |-> refreshes + 1, basis |-> Fingerprint,
                     counts |-> Counts({"active"}), expired |-> "no", restored |-> "no"]
    /\ UNCHANGED <<tiers, status, reader, truths>>

(* 26 hours have passed without a refresh.                                  *)
Expire ==
    /\ aggregate # Nobody /\ aggregate.expired = "no" /\ ~Answered
    /\ aggregate' = [aggregate EXCEPT !.expired = "yes"]
    /\ UNCHANGED <<tiers, status, refreshes, reader, truths>>

(* analytics_counts, SELECT by SELECT.  First the state row ...             *)
Request(filter) ==
    /\ reader = Nobody
    /\ reader' = [pc |-> IF aggregate = Nobody \/ filter # {"active"}
                           THEN "live" ELSE "basis",
                  filter |-> filter,
                  state |-> aggregate,
                  during |-> 0,
                  answer |-> [d \in {} |-> 0]]
    /\ truths' = [d \in Dimensions |-> {Slice(d, filter)}]
    /\ UNCHANGED <<tiers, status, aggregate, refreshes>>

(* ... then the fingerprint and the age ...                                 *)
CheckBasis ==
    /\ reader # Nobody /\ reader.pc = "basis"
    /\ reader' = [reader EXCEPT !.pc =
                    IF reader.state.basis = Fingerprint /\ reader.state.expired = "no"
                      THEN "stored" ELSE "live"]
    /\ UNCHANGED <<tiers, status, aggregate, refreshes, truths>>

(* ... then the stored counts ...                                           *)
ServeStored ==
    /\ reader # Nobody /\ reader.pc = "stored"
    /\ reader' = [reader EXCEPT !.pc = "served", !.answer = aggregate.counts,
                               !.state = aggregate]
    /\ UNCHANGED <<tiers, status, aggregate, refreshes, truths>>

(* ... or one live count per dimension, in this order.                      *)
CountLive(d) ==
    /\ reader # Nobody /\ reader.pc = "live"
    /\ IF d = "trigger" THEN DOMAIN reader.answer = {}
                        ELSE DOMAIN reader.answer = {"trigger"}
    /\ reader' = [reader EXCEPT
                    !.answer = [x \in DOMAIN @ \cup {d} |->
                                  IF x = d THEN Slice(d, reader.filter) ELSE @[x]],
                    !.pc = IF d = "tier" THEN "counted" ELSE "live"]
    /\ UNCHANGED <<tiers, status, aggregate, refreshes, truths>>

Respond ==
    /\ Answered
    /\ reader' = Nobody
    /\ truths' = [d \in Dimensions |-> {}]
    /\ UNCHANGED <<tiers, status, aggregate, refreshes>>

StoreCommit ==
    \/ \E c \in Cards : MintActive(c) \/ RetierCounted(c)
    \/ \E S \in SUBSET Cards, to \in Lowered : S # {} /\ Flip(S, to)

Read ==
    \/ \E filter \in Filters : Request(filter)
    \/ CheckBasis \/ ServeStored \/ (\E d \in Dimensions : CountLive(d)) \/ Respond

CountsNext ==
    \/ StoreCommit \/ Refresh \/ Expire \/ Read
    \/ \E retract, restore \in SUBSET Cards :
          retract \cup restore # {} /\ Reconcile(retract, restore)

AggregatesSpec == CountsInit /\ [][CountsNext]_countVars

-----------------------------------------------------------------------------
(* "A stale aggregate is never served": whichever path answers a request,   *)
(* and whatever is committed between its SELECTs, each dimension it returns *)
(* is what a live count gave at some moment of that request.  Stored counts *)
(* are exempt once a card was restored after their refresh: the fingerprint *)
(* cannot tell a restore of one card and a retraction of another apart.     *)
EachSliceWasTrue ==
    Answered
      /\ (reader.pc = "counted" \/ (reader.pc = "served" /\ reader.state.restored = "no"))
    => \A d \in Dimensions : reader.answer[d] \in truths[d]
=============================================================================
