----------------------------- MODULE AuditJudge -----------------------------
(***************************************************************************)
(* The accuracy audit (app/audit/judge.py, client.py): a run samples the   *)
(* signals without verdicts, asks a paid model about each, and writes one  *)
(* row per check.  The run holds the ingestion lock; the feedback and      *)
(* triage buttons of the UI do not.                                        *)
(*                                                                         *)
(* Each signal is one SAVEPOINT.  Its first SELECT takes a read snapshot,  *)
(* the model is asked under that snapshot, and a commit of another         *)
(* connection meanwhile makes the snapshot unfit to be written from.       *)
(***************************************************************************)
EXTENDS Naturals, Sequences, FiniteSets

CONSTANTS
    Signals,     \* signal_ids
    Stratum,     \* signal -> rank of its (trigger, source, scope)
    Checks,      \* schema.CHECKS
    Costs,       \* what one priced call may cost
    MaxUsd,      \* the per-run ceiling
    Idle,        \* no run in progress
    MaxRuns      \* bound: runs

ASSUME StratumAssumption == IsFiniteSet(Signals) /\ Stratum \in [Signals -> Nat]
ASSUME ChecksAssumption == IsFiniteSet(Checks) /\ Checks # {}
ASSUME CostAssumption == MaxUsd \in Nat /\ Costs \subseteq Nat \ {0} /\ IsFiniteSet(Costs)
ASSUME RunsAssumption == MaxRuns \in Nat

VARIABLES
    stored,     \* signals
    rows,       \* audit; its run stands for ts, which all rows of a run share
    runs,       \* audit_runs
    judge,      \* the run in progress, or Idle
    bills       \* per run, AuditClient.spent_usd

auditVars == <<stored, rows, runs, judge, bills>>

(* "reaped" is the status 'error' with REAP_NOTE in error_state.            *)
Skips    == {"skipped_no_key", "skipped_no_signals", "skipped_over_budget"}
Statuses == {"running", "reaped", "success", "error"} \cup Skips

-----------------------------------------------------------------------------
Now == Len(runs)

Unaudited == stored \ {r.signal : r \in rows}

Before(q, i) == Cardinality({j \in 1 .. i - 1 : Stratum[q[j]] = Stratum[q[i]]})

(* Wrong on purpose: one stratum is drained after another.                  *)
Drained(q) ==
    \A i, j \in DOMAIN q : i < j => Stratum[q[i]] <= Stratum[q[j]]

(* The strata in turn, one signal of each per round.                        *)
RoundRobin(q) ==
    \A i, j \in DOMAIN q : i < j =>
        \/ Before(q, i) < Before(q, j)
        \/ Before(q, i) = Before(q, j) /\ Stratum[q[i]] < Stratum[q[j]]

(* sample_signals: the shuffle within a stratum leaves any order possible.  *)
Samples(eligible, limit) ==
    LET n == Cardinality(eligible) IN
    {[i \in 1 .. (IF limit < n THEN limit ELSE n) |-> q[i]] : q \in {f \in [1 .. n -> eligible] :
        /\ \A i, j \in 1 .. n : i # j => f[i] # f[j]
        /\ RoundRobin(f)}}

AuditInit ==
    /\ stored = {}
    /\ rows = {}
    /\ runs = <<>>
    /\ judge = Idle
    /\ bills = <<>>

(* A classifier run, which needs the lock too.                              *)
Mint(s) ==
    /\ judge = Idle /\ s \notin stored
    /\ stored' = stored \cup {s}
    /\ UNCHANGED <<rows, runs, judge, bills>>

NewRun == [status |-> "running", sampled |-> 0, written |-> 0, spent |-> 0]

NewJudge == [pc |-> "sampling", queue |-> <<>>, at |-> 1, draft |-> {}, cost |-> 0,
             written |-> 0, spent |-> 0, failed |-> "no", snapshot |-> "none"]

(* Wrong on purpose: stranded rows are left.                                *)
StartUnreaped ==
    /\ judge = Idle /\ Len(runs) < MaxRuns
    /\ runs' = Append(runs, NewRun)
    /\ bills' = Append(bills, 0)
    /\ judge' = NewJudge
    /\ UNCHANGED <<stored, rows>>

(* run_audit: _reap_stranded_runs and the row of this run, one commit.      *)
Start ==
    /\ judge = Idle /\ Len(runs) < MaxRuns
    /\ runs' = Append([i \in DOMAIN runs |->
                         IF runs[i].status = "running"
                           THEN [runs[i] EXCEPT !.status = "reaped"] ELSE runs[i]],
                      NewRun)
    /\ bills' = Append(bills, 0)
    /\ judge' = NewJudge
    /\ UNCHANGED <<stored, rows>>

(* _finalize_run, and the process ends.                                     *)
Finalize(status) ==
    /\ runs' = [runs EXCEPT ![Now] = [status |-> status, sampled |-> Len(judge.queue),
                                      written |-> judge.written, spent |-> judge.spent]]
    /\ judge' = Idle
    /\ UNCHANGED <<stored, rows, bills>>

At(pc) == judge # Idle /\ judge.pc = pc

Skip == /\ At("sampling")
        /\ \/ Finalize("skipped_no_key")
           \/ Unaudited = {} /\ Finalize("skipped_no_signals")

Sample(limit) ==
    /\ At("sampling") /\ Unaudited # {}
    /\ \E q \in Samples(Unaudited, limit) :
         judge' = [judge EXCEPT !.pc = "next", !.queue = q]
    /\ UNCHANGED <<stored, rows, runs, bills>>

(* SAVEPOINT and assemble_record.                                           *)
Assemble ==
    /\ At("next") /\ judge.at <= Len(judge.queue)
    /\ judge' = [judge EXCEPT !.pc = "calling", !.snapshot = "fresh"]
    /\ UNCHANGED <<stored, rows, runs, bills>>

(* A feedback or triage commit.  It waits while the run has rows in its     *)
(* transaction, and nothing else stops it.                                  *)
OperatorCommit ==
    /\ judge # Idle /\ judge.snapshot = "fresh" /\ judge.draft = {}
    /\ judge' = [judge EXCEPT !.snapshot = "stale"]
    /\ UNCHANGED <<stored, rows, runs, bills>>

(* Wrong on purpose: the ceiling is compared with what the run recorded.    *)
OverBudgetByRun == judge.spent >= MaxUsd

(* AuditClient.over_budget.                                                 *)
OverBudget == bills[Now] >= MaxUsd

(* The client refuses and the run stops; with verdicts it is a success.     *)
StopOverBudget ==
    /\ At("calling") /\ OverBudget
    /\ Finalize(IF judge.written = 0 THEN "skipped_over_budget" ELSE "success")

NextSignal(j) == [j EXCEPT !.pc = "next", !.at = @ + 1, !.draft = {}, !.snapshot = "none"]

(* Transport or HTTP failure, or a paid answer that does not parse; a reply *)
(* without usage is priced at nothing, whether it parses or not.            *)
JudgeFails(cost) ==
    /\ At("calling") /\ ~OverBudget
    /\ bills' = [bills EXCEPT ![Now] = @ + cost]
    /\ judge' = [NextSignal(judge) EXCEPT !.spent = @ + cost, !.failed = "yes"]
    /\ UNCHANGED <<stored, rows, runs>>

JudgeAnswers(cost) ==
    /\ At("calling") /\ ~OverBudget
    /\ bills' = [bills EXCEPT ![Now] = @ + cost]
    /\ judge' = [judge EXCEPT !.pc = "writing", !.cost = cost]
    /\ UNCHANGED <<stored, rows, runs>>

(* Wrong on purpose: each verdict is committed by itself.                   *)
WriteVerdictAlone(check) ==
    /\ At("writing") /\ check \in Checks \ judge.draft
    /\ judge.snapshot = "stale" => judge.draft # {}
    /\ rows' = rows \cup {[signal |-> judge.queue[judge.at], check |-> check, run |-> Now]}
    /\ judge' = [judge EXCEPT !.draft = @ \cup {check}]
    /\ UNCHANGED <<stored, runs, bills>>

(* One INSERT INTO audit; the first one takes the write lock.               *)
WriteVerdict(check) ==
    /\ At("writing") /\ check \in Checks \ judge.draft
    /\ judge.snapshot = "fresh"
    /\ judge' = [judge EXCEPT !.draft = @ \cup {check}]
    /\ UNCHANGED <<stored, rows, runs, bills>>

(* The INSERT from a stale snapshot raises at once: ROLLBACK TO, RELEASE.   *)
LoseVerdicts ==
    /\ At("writing") /\ judge.snapshot = "stale"
    /\ judge' = [NextSignal(judge) EXCEPT !.failed = "yes"]
    /\ UNCHANGED <<stored, rows, runs, bills>>

(* The counts go up, and RELEASE commits the signal.                        *)
Release ==
    /\ At("writing") /\ judge.draft = Checks
    /\ rows' = rows \cup [signal : {judge.queue[judge.at]}, check : Checks, run : {Now}]
    /\ judge' = [NextSignal(judge) EXCEPT !.written = @ + Cardinality(Checks),
                                          !.spent = @ + judge.cost]
    /\ UNCHANGED <<stored, runs, bills>>

(* The loop is through.                                                     *)
Finish ==
    /\ At("next") /\ judge.at > Len(judge.queue)
    /\ Finalize(IF judge.failed = "yes" /\ judge.written = 0 THEN "error" ELSE "success")

(* The process dies; its open transaction is gone, its row stays running.   *)
Crash ==
    /\ judge # Idle
    /\ judge' = Idle
    /\ UNCHANGED <<stored, rows, runs, bills>>

Judging ==
    \/ Assemble \/ StopOverBudget \/ LoseVerdicts \/ Release \/ Finish
    \/ \E cost \in Costs \cup {0} : JudgeAnswers(cost) \/ JudgeFails(cost)
    \/ \E check \in Checks : WriteVerdict(check)

AuditNext ==
    \/ Start \/ Skip \/ Judging \/ OperatorCommit \/ Crash
    \/ \E s \in Signals : Mint(s)
    \/ \E limit \in 1 .. Cardinality(Signals) : Sample(limit)

AuditSpec == AuditInit /\ [][AuditNext]_auditVars

-----------------------------------------------------------------------------
RowsOf(s) == {r \in rows : r.signal = s}

(* R9.7, R9.12: an audited signal has a verdict for every check, all of the *)
(* same run and no run judges it again, whatever is killed, refused or      *)
(* committed in between.                                                    *)
AuditedOnceAndWhole ==
    \A s \in Signals : RowsOf(s) # {} =>
        \E i \in DOMAIN runs : RowsOf(s) = [signal : {s}, check : Checks, run : {i}]

(* R9.12: the row of a finished run says how many verdicts it left, and at  *)
(* most the run in progress reads as running.                               *)
LedgerTrue ==
    /\ \A i \in DOMAIN runs :
         runs[i].status \notin {"running", "reaped"} =>
             runs[i].written = Cardinality({r \in rows : r.run = i})
    /\ \A i \in DOMAIN runs : runs[i].status = "running" => i = Now

(* R10.1: no run pays more than the ceiling and the one call that reached   *)
(* it.                                                                      *)
CeilingHolds ==
    \A i \in DOMAIN bills : \A most \in Costs :
        (\A c \in Costs : c <= most) => bills[i] < MaxUsd + most

Tried(x) == Cardinality({i \in 1 .. judge.at - 1 : Stratum[judge.queue[i]] = x})

Eligible(x) == {s \in stored : Stratum[s] = x
                               /\ \A r \in RowsOf(s) : r.run = Now}

(* "Fair coverage on a partial run": wherever the ceiling stops a run, no   *)
(* stratum with signals left is two behind another.                         *)
SpreadsOverStrata ==
    judge # Idle => \A i, j \in DOMAIN judge.queue :
        LET x == Stratum[judge.queue[i]]
            y == Stratum[judge.queue[j]] IN
        Tried(x) < Cardinality(Eligible(x)) => Tried(y) <= Tried(x) + 1

=============================================================================
