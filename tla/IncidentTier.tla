---------------------------- MODULE IncidentTier ----------------------------
(***************************************************************************)
(* The evidence tier of incident cards and what it gates: a classifier     *)
(* mints a card with a tier (app/classify/runner.py), the operator         *)
(* re-tiers it (retier_incident, app/ui/data.py), every re-tier is kept in *)
(* an append-only trail, and the tier alone says whether the card may be a *)
(* basis for customer-facing outreach.  Both writers hold the ingestion    *)
(* lock and commit once.                                                   *)
(***************************************************************************)
EXTENDS Naturals, Sequences

CONSTANTS
    Cards,       \* signal_ids that can be minted
    MintTier,    \* card -> the tier its classifier gives it, or Plain
    Plain,       \* no incident
    Absent,      \* not minted
    MaxEdits     \* bound: re-tiers

Tiers == {"confirmed", "corroborated", "unconfirmed"}

ASSUME TierAssumption ==
    /\ MintTier \in [Cards -> Tiers \cup {Plain}]
    /\ Plain \notin Tiers \cup {Absent} /\ Absent \notin Tiers
ASSUME EditsAssumption == MaxEdits \in Nat

VARIABLES
    tier,       \* signals.incident_evidence_level
    allowed,    \* signals.customer_facing_allowed, 0 or 1
    edits       \* incident_tier_edits

tiers == <<tier, allowed, edits>>

Edits == [card : Cards, old : Tiers, new : Tiers, oldCfa : {0, 1}, newCfa : {0, 1},
          reason : {"given", "none"}]

TypeOK ==
    /\ tier \in [Cards -> Tiers \cup {Plain, Absent}]
    /\ allowed \in [Cards -> {0, 1}]
    /\ edits \in Seq(Edits)
    /\ Len(edits) <= MaxEdits

-----------------------------------------------------------------------------
(* customer_facing_for_tier: only an unconfirmed early warning suppresses.  *)
CustomerFacing(t) == IF t = "unconfirmed" THEN 0 ELSE 1

InitTiers ==
    /\ tier = [c \in Cards |-> Absent]
    /\ allowed = [c \in Cards |-> 0]
    /\ edits = <<>>

(* Wrong on purpose: a later run replaces the row instead of skipping it.   *)
MintAgain(c) ==
    /\ tier' = [tier EXCEPT ![c] = MintTier[c]]
    /\ allowed' = [allowed EXCEPT ![c] = CustomerFacing(MintTier[c])]
    /\ UNCHANGED edits

(* The INSERT; a later run that emits the card again leaves these alone.    *)
MintTiered(c) ==
    /\ tier[c] = Absent
    /\ tier' = [tier EXCEPT ![c] = MintTier[c]]
    /\ allowed' = [allowed EXCEPT ![c] = CustomerFacing(MintTier[c])]
    /\ UNCHANGED edits

(* Wrong on purpose: only a confirmation asks for a reason.                 *)
MayRetierLoosely(c, t, reason) ==
    t = "confirmed" /\ allowed[c] = 0 => reason = "given"

(* The trust gate: what clears a card for outreach needs a reason.          *)
MayRetier(c, t, reason) ==
    CustomerFacing(t) = 1 /\ allowed[c] = 0 => reason = "given"

Edit(c, t, reason) ==
    [card |-> c, old |-> tier[c], new |-> t, oldCfa |-> allowed[c],
     newCfa |-> CustomerFacing(t), reason |-> reason]

(* retier_incident, for a change; a no-op writes nothing.                   *)
Retier(c, t, reason) ==
    /\ tier[c] \in Tiers \ {t}
    /\ MayRetier(c, t, reason)
    /\ Len(edits) < MaxEdits
    /\ tier' = [tier EXCEPT ![c] = t]
    /\ allowed' = [allowed EXCEPT ![c] = CustomerFacing(t)]
    /\ edits' = Append(edits, Edit(c, t, reason))

NextTiers ==
    \E c \in Cards :
        \/ MintTiered(c)
        \/ \E t \in Tiers, reason \in {"given", "none"} : Retier(c, t, reason)

Spec == InitTiers /\ [][NextTiers]_tiers

-----------------------------------------------------------------------------
(* The trail of a card replays to what the card shows: every edit starts    *)
(* from the tier the previous one left, the first from the classifier's,    *)
(* and the last one left what is stored now.                                *)
Of(i, c) == edits[i].card = c

TrailReplays ==
    \A c \in Cards :
        LET mine == {i \in DOMAIN edits : Of(i, c)} IN
        /\ mine = {} => tier[c] \in {Absent, MintTier[c]}
        /\ mine # {} => tier[c] \in Tiers
        /\ \A i \in mine :
             /\ (\A j \in mine : j <= i) => edits[i].new = tier[c]
             /\ (\A j \in mine : i <= j) => edits[i].old = MintTier[c]
             /\ \A j \in mine : i < j /\ (\A k \in mine : k <= i \/ j <= k)
                                 => edits[j].old = edits[i].new

(* R7.12, R4.1: outreach is allowed by the tier alone, re-derived with every*)
(* edit.                                                                    *)
CfaFollowsTier ==
    /\ \A c \in Cards : tier[c] # Absent => allowed[c] = CustomerFacing(tier[c])
    /\ \A i \in DOMAIN edits : /\ edits[i].oldCfa = CustomerFacing(edits[i].old)
                               /\ edits[i].newCfa = CustomerFacing(edits[i].new)

(* The trust gate over the whole history: a card minted as an early warning *)
(* is cleared for outreach only if the trail holds a reasoned edit that     *)
(* cleared it and no later edit of that card suppressed it again.           *)
OutreachHasReason ==
    \A c \in Cards :
        MintTier[c] = "unconfirmed" /\ allowed[c] = 1 =>
            \E i \in DOMAIN edits :
                /\ Of(i, c) /\ edits[i].oldCfa = 0 /\ edits[i].newCfa = 1
                /\ edits[i].reason = "given"
                /\ \A j \in DOMAIN edits : j > i /\ Of(j, c) => edits[j].newCfa = 1
=============================================================================
