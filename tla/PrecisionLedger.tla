--------------------------- MODULE PrecisionLedger ---------------------------
(* The ledger of human feedback and judge verdicts, and the surfaces that    *)
(* are computed from it: the Precision page, the Admin source table and the  *)
(* monthly record (app/ui/data.py, app/audit/precision.py).  The operator    *)
(* writes through OperatorWrites; the run that holds the database beside it  *)
(* may be the audit, which commits its verdicts on a card as it lets go.     *)
EXTENDS OperatorWrites, SequencesExt

CONSTANTS
    Cards,          \* the signals
    Trigger, Source, Scope, Entity,   \* of each card, by the joins
    Incidents,      \* the cards an operator may re-tier
    Unrated,        \* the level of a card that is not an incident
    Sampled,        \* the cards the audit run may draw
    Verdicts,       \* the judge's pairs of objective results, by check
    DaysPerMonth,
    MaxAudits,      \* bound on the cards the audit draws
    Primary, G1UsefulPct, G1AccuracyPct, G1MinDays, G1MinRated, WaiverActive,
    G2Pct, G2MinN, DisagreePct, MinComparable, SpotAbs, SpotPct, SpotFloor

INSTANCE Precision

Results == {"pass", "fail", "unclear", "not_applicable"}

ASSUME LedgerAssumption ==
    /\ IsFiniteSet(Cards) /\ Incidents \subseteq Cards /\ Sampled \subseteq Cards
    /\ None \notin Positive \cup Negative
    /\ DaysPerMonth \in Nat \ {0}
    /\ \A a \in Asks : a.kind = "feedback" =>
         a.signal \in Cards /\ a.verdict \in Positive \cup Negative
    /\ Verdicts \subseteq [entity_match : Results, evidence_support : Results]
    /\ {G2Pct, G2MinN, DisagreePct, MinComparable} \subseteq Nat

VARIABLES
    level,      \* signals.incident_evidence_level
    audit,      \* rows of audit, in order of ts and rowid
    filed       \* the monthly record files

vars == <<writeVars, level, audit, filed>>

Levels  == {"unconfirmed_early_warning", "confirmed_own_incident"}
Month(d) == d \div DaysPerMonth
Months  == 0 .. Month(LastDay)

Init ==
    /\ WritesInit
    /\ level \in [Cards -> Levels \cup {Unrated}]
    /\ \A c \in Cards : level[c] = IF c \in Incidents THEN "unconfirmed_early_warning" ELSE Unrated
    /\ audit = <<>>
    /\ filed = [m \in Months |-> None]

---------------------------------------------------------------------------
(* What the surfaces read.                                                  *)

FeedbackRows ==
    [i \in DOMAIN feedback |->
        LET r == feedback[i]
            c == r.signal
        IN  [signal |-> c, verdict |-> r.verdict, reason |-> r.reason,
             day |-> r.day, month |-> Month(r.day), trigger |-> Trigger[c], source |-> Source[c],
             scope |-> Scope[c], level |-> level[c], entity |-> Entity[c]]]

AuditRows ==
    [i \in DOMAIN audit |->
        LET r == audit[i]
            c == r.signal
        IN  [signal |-> c, check |-> r.check, result |-> r.result,
             day |-> r.day, month |-> Month(r.day), trigger |-> Trigger[c], source |-> Source[c],
             scope |-> Scope[c], level |-> level[c], entity |-> Entity[c]]]

(* One row per card: its latest verdict, None when it has none.             *)
HalfLifeRows ==
    LET latest(c) == LET mine == Having(feedback, "signal", c)
                     IN  IF DOMAIN mine = {} THEN None ELSE Latest(mine).verdict
    IN  {[signal |-> c, trigger |-> Trigger[c], verdict |-> latest(c)] : c \in Cards}

Dimensions == {"trigger", "source", "scope", "level"}

(* Wrong on purpose: the record also slices by a dimension that may change. *)
EveryDimension == Dimensions

ReportDimensions == {"trigger", "source", "scope"}

(* precision_report: all but G1 and the spot check see one month only.      *)
PageG2(m) ==
    LET fb == InMonth(FeedbackRows, m)
    IN  G2Gated(G2Status(fb), DisagreementBySource(InMonth(AuditRows, m), fb))

PrecisionReport(today) ==
    LET m  == Month(today)
        fb == InMonth(FeedbackRows, m)
        au == InMonth(AuditRows, m)
    IN  [useful_overall |-> UsefulRate(fb), auto_overall |-> Accuracy(au),
         g1 |-> G1Status(FeedbackRows, AuditRows, today),
         g2 |-> PageG2(m),
         spotcheck |-> SpotCheck(AuditRows, FeedbackRows, m),
         useful_by |-> [k \in Dimensions |-> UsefulRateBy(fb, k)],
         auto_by |-> [k \in Dimensions |-> AccuracyBy(au, k)],
         reason_codes |-> ReasonCodes(fb),
         disagreement |-> Disagreement(au, fb),
         halflife |-> [t \in {Trigger[c] : c \in Cards} |-> HalfLife(HalfLifeRows, t)]]

(* The same recommendation, composed again for the Admin source table.      *)
AdminG2(today) ==
    LET fb == InMonth(FeedbackRows, Month(today))
        au == InMonth(AuditRows, Month(today))
    IN  G2Gated(G2Status(fb), DisagreementBySource(au, fb))

(* The lines of the monthly record; the bucket of no source is not a source.*)
FormatReport(report) ==
    LET real == DOMAIN report.g2 \ {None}
    IN  [useful |-> report.useful_overall, auto |-> report.auto_overall,
         g1 |-> report.g1.state,
         demote |-> Cardinality({x \in real : report.g2[x].demote}), of |-> Cardinality(real),
         spot |-> <<report.spotcheck.reviewed, report.spotcheck.target>>,
         lines |-> [k \in ReportDimensions |-> <<report.useful_by[k], report.auto_by[k]>>]]

MonthEnd(m) == (m + 1) * DaysPerMonth - 1
Record(m)   == FormatReport(PrecisionReport(MonthEnd(m)))

---------------------------------------------------------------------------
Quiet == reply' = None /\ UNCHANGED <<day, tables, lock, write>>

(* The audit run commits its verdicts on one card.                          *)
AuditCommits(c, v) ==
    /\ RunCommits
    /\ Len(audit) < 2 * MaxAudits /\ \A i \in DOMAIN audit : audit[i].signal # c
    /\ audit' = audit \o <<
            [signal |-> c, check |-> "entity_match", result |-> v.entity_match, day |-> day],
            [signal |-> c, check |-> "evidence_support", result |-> v.evidence_support, day |-> day]>>
    /\ UNCHANGED <<level, filed>>

(* The re-tier control (module LicensePlays).                               *)
Retier(c, l) ==
    /\ lock = "free" /\ level[c] # l
    /\ level' = [level EXCEPT ![c] = l]
    /\ Quiet /\ UNCHANGED <<audit, filed>>

(* main: the record of the month before, its file replaced whole; a failure *)
(* to write it leaves the file as it was.                                   *)
FileReport ==
    LET m == Month(day) - 1
    IN  /\ m \in Months
        /\ filed' = [filed EXCEPT ![m] = Record(m)]
        /\ Quiet /\ UNCHANGED <<level, audit>>

Next ==
    \/ WritesNext /\ UNCHANGED <<level, audit, filed>>
    \/ \E c \in Sampled, v \in Verdicts : AuditCommits(c, v)
    \/ \E c \in Incidents, l \in Levels : Retier(c, l)
    \/ FileReport

(* A request that is being served goes on; nothing is asked of the run.     *)
Spec == Init /\ [][Next]_vars /\ WF_vars(WriteStep /\ UNCHANGED <<level, audit, filed>>)

---------------------------------------------------------------------------
(* The surfaces are a function of the tables, the tiers and the clock, so    *)
(* what is said of them is said where nothing is in progress.               *)
AtRest == lock = "free" /\ write = NoWrite /\ reply = None

(* The slices of a rate by any dimension add up to the rate, the reasons add *)
(* up to the negative ratings, the disagreement shown beside each source     *)
(* adds up to the one computed over all signals, and the half-life view      *)
(* rates as many cards as have a last verdict, each once.                    *)
Sum(ratios) ==
    FoldFunction(LAMBDA r, acc : Ratio(acc.of + r.of, acc.over + r.over), Ratio(0, 0), ratios)

SlicesAddUp == AtRest =>
    LET report == PrecisionReport(day)
        codes  == report.reason_codes
        human  == Human(FeedbackRows)
    IN  /\ \A k \in Dimensions : /\ Sum(report.useful_by[k]) = report.useful_overall
                                 /\ Sum(report.auto_by[k]) = report.auto_overall
        /\ FoldFunction(+, 0, codes) = report.useful_overall.over - report.useful_overall.of
        /\ Sum([x \in DOMAIN report.g2 |-> report.g2[x].disagreement]) = report.disagreement
        /\ Sum([t \in DOMAIN report.halflife |-> report.halflife[t].useful])
             = Ratio(Cardinality({s \in DOMAIN human : human[s] = "positive"}),
                     Cardinality(DOMAIN human))

(* A rating or a verdict on a card that is about no account, or on an        *)
(* incident nobody has verified, moves no figure of gate G1: it is as if it  *)
(* were not there, and it is counted apart, whatever the card's tier was     *)
(* when it was rated.                                                        *)
Counted(rows) ==
    RestrictValues(rows, LAMBDA r : /\ Entity[r.signal] # None
                                    /\ Scope[r.signal] \in {"account", "parent"}
                                    /\ level[r.signal] # "unconfirmed_early_warning")

UnverifiedMovesNothing == AtRest =>
    LET all  == G1Status(FeedbackRows, AuditRows, day)
        only == G1Status(Counted(FeedbackRows), Counted(AuditRows), day)
    IN  /\ all.triggers = only.triggers
        /\ all.separately.feedback.over
             = Len(feedback) - Cardinality(DOMAIN Counted(FeedbackRows))

(* A source is recommended for demotion, on the Precision page and in the    *)
(* Admin table alike, exactly when this month's ratings are many and poor    *)
(* enough, and the judge did not contradict the human's last word on too     *)
(* many of enough cards.                                                     *)
DemotionIsEvidenced == AtRest =>
    LET now(row)   == Month(row.day) = Month(day)
        ratings(x) == {i \in DOMAIN feedback : now(feedback[i]) /\ Source[feedback[i].signal] = x}
        good(x)    == {i \in ratings(x) : feedback[i].verdict # "not_useful"}
        faults(c)  == {i \in DOMAIN audit : now(audit[i]) /\ audit[i].signal = c
                                            /\ audit[i].result = "fail"}
        both(x)    == {i \in ratings(x) :
                         /\ \A j \in ratings(x) : j > i => feedback[j].signal # feedback[i].signal
                         /\ \E j \in DOMAIN audit : now(audit[j])
                                                    /\ audit[j].signal = feedback[i].signal}
        against(x) == {i \in both(x) : (i \in good(x)) # (faults(feedback[i].signal) = {})}
        n(S)       == Cardinality(S)
    IN  \A g2 \in {PageG2(Month(day)), AdminG2(day)}, x \in {Source[c] : c \in Cards} :
          (x \in DOMAIN g2 /\ g2[x].demote) <=>
            /\ n(ratings(x)) >= G2MinN /\ 100 * n(good(x)) < G2Pct * n(ratings(x))
            /\ ~(/\ n(both(x)) >= MinComparable
                 /\ 100 * n(against(x)) > DisagreePct * n(both(x)))

(* The record of a month stands: the job would write it again, whatever was  *)
(* rated, judged or re-tiered since.                                         *)
RecordStands == AtRest => \A m \in Months : filed[m] # None => filed[m] = Record(m)
==============================================================================
