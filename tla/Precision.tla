------------------------------ MODULE Precision ------------------------------
(* The precision computations over the joined feedback and audit rows       *)
(* (app/audit/precision.py).  A rate is never a bare number in that module:  *)
(* here it is the pair of counts the code divides, and a comparison with a   *)
(* threshold is done on the counts.  The rows of a SELECT are a function of  *)
(* their places in it, and a selection of them keeps its places.  A feedback *)
(* row is a record with fields signal, verdict, reason, month, day, trigger, *)
(* source, scope, level and entity; an audit row has check and result        *)
(* instead of verdict and reason.                                            *)
EXTENDS Integers, Sequences, FiniteSets, SequencesExt

CONSTANTS
    None,            \* SQL NULL
    Primary,         \* DEFAULT_PRIMARY_TRIGGERS
    G1UsefulPct, G1AccuracyPct, G1MinDays, G1MinRated,
    WaiverActive,    \* G1_WAIVER_ACTIVE
    G2Pct, G2MinN,
    DisagreePct, MinComparable,
    SpotAbs, SpotPct, SpotFloor

Positive   == {"useful", "converted"}
Negative   == {"not_useful"}
AutoChecks == {"entity_match", "evidence_support"}
Scored     == {"pass", "fail"}

Ratio(of, over)  == [of |-> of, over |-> over]
NoEvidence(r)    == r.over = 0
Below(r, pct)    == 100 * r.of < pct * r.over
Above(r, pct)    == 100 * r.of > pct * r.over

AtLeast(a, b)    == IF a > b THEN a ELSE b
AtMost(a, b)     == IF a < b THEN a ELSE b

Count(rows, Test(_)) == Cardinality({i \in DOMAIN rows : Test(rows[i])})
Having(rows, key, v) == RestrictValues(rows, LAMBDA r : r[key] = v)
ValuesOf(rows, key)  == {rows[i][key] : i \in DOMAIN rows}
Latest(rows)         == rows[Max(DOMAIN rows)]

IsPositive(row) == row.verdict \in Positive
IsNegative(row) == row.verdict \in Negative
IsRated(row)    == IsPositive(row) \/ IsNegative(row)
IsObjective(row) == row.check \in AutoChecks
IsScored(row)   == IsObjective(row) /\ row.result \in Scored
IsCorrect(row)  == IsScored(row) /\ row.result = "pass"

(* Wrong on purpose: an unverified incident counts like any account card.   *)
IsAccountOfAnyTier(row) == row.scope \in {"account", "parent"} /\ row.entity # None

(* A card that counts for the account triggers: not an unverified incident, *)
(* of an account scope, and about an account.                               *)
IsAccount(row) ==
    /\ row.level # "unconfirmed_early_warning"
    /\ row.scope \in {"account", "parent"}
    /\ row.entity # None

---------------------------------------------------------------------------
(* Rates, whole and by a dimension of the card.                             *)

UsefulRate(rows) == Ratio(Count(rows, IsPositive), Count(rows, IsRated))

UsefulRateBy(rows, key) ==
    LET rated == RestrictValues(rows, IsRated)
    IN  [v \in ValuesOf(rated, key) |-> UsefulRate(Having(rated, key, v))]

Accuracy(rows) == Ratio(Count(rows, IsCorrect), Count(rows, IsScored))

AccuracyBy(rows, key) ==
    LET scored == RestrictValues(rows, IsScored)
    IN  [v \in ValuesOf(scored, key) |-> Accuracy(Having(scored, key, v))]

(* The reasons of the not_useful rows that give one.                        *)
ReasonCodes(rows) ==
    LET coded == RestrictValues(rows, LAMBDA r : IsNegative(r) /\ r.reason # None)
    IN  [c \in ValuesOf(coded, "reason") |-> Cardinality(DOMAIN Having(coded, "reason", c))]

---------------------------------------------------------------------------
(* The judge against the human, over the signals that have both.            *)

Judged(audit) == ValuesOf(RestrictValues(audit, IsObjective), "signal")

JudgeNegative(audit) ==
    ValuesOf(RestrictValues(audit, LAMBDA r : IsObjective(r) /\ r.result = "fail"), "signal")

(* The last verdict on a signal is the human's.                             *)
Human(rows) ==
    LET rated == RestrictValues(rows, IsRated)
    IN  [s \in ValuesOf(rated, "signal") |->
            IF IsPositive(Latest(Having(rated, "signal", s))) THEN "positive" ELSE "negative"]

Disagrees(audit, human, s) == (s \in JudgeNegative(audit)) # (human[s] = "negative")

Disagreement(audit, feedback) ==
    LET human == Human(feedback)
        both  == Judged(audit) \cap DOMAIN human
    IN  Ratio(Cardinality({s \in both : Disagrees(audit, human, s)}), Cardinality(both))

(* The source of a judged signal: the last its rows name, if any does.      *)
SourceOfJudged(audit, s) ==
    LET named == RestrictValues(audit, LAMBDA r : IsObjective(r) /\ r.signal = s /\ r.source # None)
    IN  IF DOMAIN named = {} THEN None ELSE Latest(named).source

(* Wrong on purpose: every rating is compared, not the last one of a card.  *)
DisagreementByRating(audit, feedback) ==
    LET compared == RestrictValues(feedback, LAMBDA r : IsRated(r) /\ r.signal \in Judged(audit))
        against(r) == (r.signal \in JudgeNegative(audit)) # IsNegative(r)
    IN  [x \in ValuesOf(compared, "source") |->
            Ratio(Count(Having(compared, "source", x), against),
                  Cardinality(DOMAIN Having(compared, "source", x)))]

DisagreementBySource(audit, feedback) ==
    LET human == Human(feedback)
        both  == Judged(audit) \cap DOMAIN human
        At(x) == {s \in both : SourceOfJudged(audit, s) = x}
    IN  [x \in {SourceOfJudged(audit, s) : s \in both} |->
            Ratio(Cardinality({s \in At(x) : Disagrees(audit, human, s)}), Cardinality(At(x)))]

---------------------------------------------------------------------------
(* Gate G2: which sources to demote, and the judge's veto over it.          *)

G2Cell(rows) ==
    LET precision == UsefulRate(rows)
    IN  [precision |-> precision, reason_codes |-> ReasonCodes(rows),
         demote |-> precision.over >= G2MinN /\ Below(precision, G2Pct)]

G2Status(feedback) ==
    LET rated == RestrictValues(feedback, IsRated)
    IN  [x \in ValuesOf(rated, "source") |-> G2Cell(Having(rated, "source", x))]

(* Wrong on purpose: the veto needs no floor of compared signals.           *)
G2GateWithoutFloor(cell, dis) ==
    CASE NoEvidence(dis)                               -> "na"
      [] Above(dis, DisagreePct) /\ cell.demote        -> "withheld"
      [] OTHER                                         -> "ok"

G2Gate(cell, dis) ==
    CASE NoEvidence(dis)                               -> "na"
      [] dis.over \in 1 .. (MinComparable - 1)         -> "below_floor"
      [] dis.over >= AtLeast(MinComparable, 1)
            /\ Above(dis, DisagreePct) /\ cell.demote  -> "withheld"
      [] OTHER                                         -> "ok"

G2Gated(g2, bySource) ==
    [x \in DOMAIN g2 |->
        LET dis  == IF x \in DOMAIN bySource THEN bySource[x] ELSE Ratio(0, 0)
            gate == G2Gate(g2[x], dis)
        IN  [precision |-> g2[x].precision, reason_codes |-> g2[x].reason_codes,
             disagreement |-> dis, gate |-> gate,
             demote |-> g2[x].demote /\ gate # "withheld"]]

---------------------------------------------------------------------------
(* The monthly spot check, and the half-life view.                          *)

CeilPct(pct, n) == (pct * n + 99) \div 100

InMonth(rows, m) == RestrictValues(rows, LAMBDA r : r.month = m)

SpotCheck(audit, feedback, m) ==
    LET audited  == Judged(InMonth(audit, m))
        reviewed == audited \cap DOMAIN Human(InMonth(feedback, m))
        n        == Cardinality(audited)
    IN  [reviewed |-> Cardinality(reviewed), audited |-> n,
         target |-> IF n = 0 THEN SpotFloor
                    ELSE AtLeast(SpotFloor, AtMost(SpotAbs, CeilPct(SpotPct, n)))]

(* Over a set of rows, one per card, with its latest verdict or none.       *)
HalfLife(rows, trigger) ==
    LET mine == {r \in rows : r.trigger = trigger}
    IN  [cards |-> Cardinality(mine),
         useful |-> Ratio(Cardinality({r \in mine : IsPositive(r)}),
                          Cardinality({r \in mine : IsRated(r)}))]

---------------------------------------------------------------------------
(* Gate G1: each primary trigger on its account cards, over all time.       *)

(* Days from the earliest rating to now.                                    *)
DaysSpan(rows, today) ==
    LET days == ValuesOf(RestrictValues(rows, IsRated), "day")
    IN  IF days = {} THEN 0
        ELSE AtLeast(0, today - (CHOOSE d \in days : \A e \in days : d <= e))

(* Why a trigger does not meet the gate.                                    *)
G1Reasons(useful, accuracy, span) ==
    (IF useful.over < G1MinRated THEN {"n"} ELSE {})
    \cup (IF span < G1MinDays THEN {"span"} ELSE {})
    \cup (IF NoEvidence(useful) \/ Below(useful, G1UsefulPct) THEN {"useful-rate"} ELSE {})
    \cup (IF NoEvidence(accuracy) \/ Below(accuracy, G1AccuracyPct)
          THEN {"auto-accuracy"} ELSE {})

G1Meets(useful, accuracy, span) ==
    /\ ~NoEvidence(useful) /\ ~Below(useful, G1UsefulPct)
    /\ ~NoEvidence(accuracy) /\ ~Below(accuracy, G1AccuracyPct)
    /\ span >= G1MinDays /\ useful.over >= G1MinRated

G1Cell(feedback, audit, today) ==
    LET useful   == UsefulRate(feedback)
        accuracy == Accuracy(audit)
        span     == DaysSpan(feedback, today)
    IN  [useful |-> useful, accuracy |-> accuracy, span |-> span,
         reasons |-> G1Reasons(useful, accuracy, span),
         meets |-> G1Meets(useful, accuracy, span)]

G1Status(feedback, audit, today) ==
    LET fb    == RestrictValues(feedback, IsAccount)
        au    == RestrictValues(audit, IsAccount)
        cells == [t \in Primary |->
                    G1Cell(Having(fb, "trigger", t), Having(au, "trigger", t), today)]
        all   == \A t \in Primary : cells[t].meets
    IN  [triggers |-> cells,
         separately |-> [feedback |-> UsefulRate(RestrictValues(feedback, LAMBDA r : ~IsAccount(r))),
                         audit |-> Accuracy(RestrictValues(audit, LAMBDA r : ~IsAccount(r)))],
         eligible |-> all,
         blocked |-> UNION {{t} \X cells[t].reasons : t \in {u \in Primary : ~cells[u].meets}},
         state |-> IF WaiverActive THEN "waived" ELSE IF all THEN "eligible" ELSE "blocked"]
==============================================================================
