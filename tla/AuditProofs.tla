------------------------ MODULE AuditProofs ------------------------
(***************************************************************************)
(* What the audit guarantees for every sample, budget, judge and night, and*)
(* what the ledger of ratings and verdicts does for every set of clicks,   *)
(* every number of attempts and every run beside them: nothing is half     *)
(* written, no card is judged twice, the figures computed from the ledger  *)
(* agree with its rows, and the record of a month that is over stands.     *)
(***************************************************************************)
EXTENDS PrecisionLedger, AuditJudge, SequenceTheorems, FunctionTheorems, FiniteSetTheorems,
        TLAPS

USE WritesAssumption DEF WritesAssumption

(* What a step does to the tables, the writer lock and the click.           *)
WriteOrQuiet == WritesNext \/ Quiet \/ UNCHANGED writeVars

LEMMA StepsWrite == [Next]_vars => WriteOrQuiet
  BY DEF Next, vars, WriteOrQuiet, AuditCommits, Retier, FileReport, WritesNext

(* A click has one statement or two, the last of which it never passes.     *)
LEMMA StatementFacts ==
    ASSUME NEW a \in Asks
    PROVE  /\ Statements(a) \in Seq({"feedback", "decision", "disposition"})
           /\ Len(Statements(a)) \in 1 .. 2
           /\ DOMAIN Statements(a) = 1 .. Len(Statements(a))
           /\ a.kind # "feedback" /\ a.row \in Candidates =>
                {Statements(a)[i] : i \in DOMAIN Statements(a)} = {"decision", "disposition"}
           /\ a.kind # "feedback" /\ a.row \notin Candidates =>
                {Statements(a)[i] : i \in DOMAIN Statements(a)} = {"disposition"}
           /\ a.kind = "feedback" =>
                {Statements(a)[i] : i \in DOMAIN Statements(a)} = {"feedback"}
  <1>1. CASE a.kind = "feedback"
    BY <1>1 DEF Statements
  <1>2. CASE a.kind # "feedback" /\ a.row \in Candidates
    BY <1>2 DEF Statements
  <1>3. CASE a.kind # "feedback" /\ a.row \notin Candidates
    BY <1>3 DEF Statements
  <1>4. QED
    BY <1>1, <1>2, <1>3

(* What a commit finds done is all the click's statements.                  *)
LEMMA CommitWhole ==
    ASSUME WritesTypeOK, Commit
    PROVE  /\ write.ask \in Asks
           /\ Apply(write.ask, {Statements(write.ask)[i] : i \in DOMAIN Statements(write.ask)})
  <1>1. write.ask \in Asks
    BY DEF Commit, WritesTypeOK
  <1>2. DOMAIN Statements(write.ask) = 1 .. write.done
    BY <1>1, StatementFacts DEF Commit
  <1>3. QED
    BY <1>1, <1>2 DEF Commit

(* What a commit does to the review tables, by the kind of click.           *)
LEMMA CommitReviews ==
    ASSUME WritesTypeOK, Commit
    PROVE  \/ UNCHANGED <<decisions, disposition>>
           \/ \E r \in Reviews, accept \in BOOLEAN :
                /\ disposition' = [disposition EXCEPT ![r] =
                                     IF accept THEN "accepted" ELSE "rejected"]
                /\ r \in Candidates =>
                     decisions' = [decisions EXCEPT ![r] =
                                     Append(@, IF accept THEN "reviewed" ELSE "rejected")]
                /\ r \notin Candidates => decisions' = decisions
  <1> DEFINE a == write.ask
             all == {Statements(a)[i] : i \in DOMAIN Statements(a)}
  <1>1. a \in Asks /\ Apply(a, all)
    BY CommitWhole
  <1>2. CASE a.kind = "feedback"
    <2>1. all = {"feedback"}
      BY <1>1, <1>2, StatementFacts
    <2>2. QED
      BY <1>1, <2>1 DEF Apply
  <1>3. CASE a.kind # "feedback" /\ a.row \in Candidates
    <2>1. all = {"decision", "disposition"}
      BY <1>1, <1>3, StatementFacts
    <2>2. a.row \in Reviews /\ a.accept \in BOOLEAN
      BY <1>1, <1>3
    <2>3. QED
      BY <1>1, <1>3, <2>1, <2>2 DEF Apply
  <1>4. CASE a.kind # "feedback" /\ a.row \notin Candidates
    <2>1. all = {"disposition"}
      BY <1>1, <1>4, StatementFacts
    <2>2. a.row \in Reviews /\ a.accept \in BOOLEAN
      BY <1>1, <1>4
    <2>3. QED
      BY <1>1, <1>4, <2>1, <2>2 DEF Apply
  <1>5. QED
    BY <1>2, <1>3, <1>4

(* A further try of a click is a click: one more attempt, nothing done.      *)
LEMMA ClickTyped ==
    ASSUME NEW A, NEW B, NEW C, NEW w \in [ask : A, attempt : B, done : C],
           NEW k \in B, NEW d \in C
    PROVE  [w EXCEPT !.attempt = k, !.done = d] \in [ask : A, attempt : B, done : C]
  BY Zenon

(* Types, however clicks, retries, deaths and runs interleave.              *)
THEOREM WritesTypeCorrect == Spec => []WritesTypeOK
<1>1. Init => WritesTypeOK
  BY DEF Init, WritesInit, WritesTypeOK
<1>2. WritesTypeOK /\ [Next]_vars => WritesTypeOK'
  <2> SUFFICES ASSUME WritesTypeOK, WriteOrQuiet PROVE WritesTypeOK'
    BY StepsWrite
  <2> USE DEF WritesTypeOK, tables, NoWrite
  <2>1. ASSUME NEW a \in Asks, Click(a) PROVE WritesTypeOK'
    BY <2>1 DEF Click
  <2>2. CASE Execute
    <3>1. write \in [ask : Asks, attempt : 1 .. Attempts, done : 0 .. 2]
      BY <2>2 DEF Execute
    <3>2. Len(Statements(write.ask)) \in 1 .. 2
      BY <3>1, StatementFacts
    <3>3. write.done + 1 \in 0 .. 2
      <4>1. write.done < Len(Statements(write.ask))
        BY <2>2 DEF Execute
      <4>2. write.done \in 0 .. 2
        BY <3>1
      <4>3. \A d \in 0 .. 2, n \in 1 .. 2 : d < n => d + 1 \in 0 .. 2
        OBVIOUS
      <4>4. QED
        BY ONLY <3>2, <4>1, <4>2, <4>3
    <3>4. QED
      BY <2>2, <3>1, <3>3 DEF Execute
  <2>3. CASE Commit
    <3>1. /\ decisions' \in [Reviews -> Seq({"reviewed", "rejected"})]
          /\ disposition' \in [Reviews -> {"pending", "accepted", "rejected"}]
      <4>1. CASE UNCHANGED <<decisions, disposition>>
        BY <4>1
      <4>2. ASSUME NEW r \in Reviews, NEW accept \in BOOLEAN,
                   disposition' = [disposition EXCEPT ![r] =
                                     IF accept THEN "accepted" ELSE "rejected"],
                   r \in Candidates =>
                     decisions' = [decisions EXCEPT ![r] =
                                     Append(@, IF accept THEN "reviewed" ELSE "rejected")],
                   r \notin Candidates => decisions' = decisions
            PROVE  /\ decisions' \in [Reviews -> Seq({"reviewed", "rejected"})]
                   /\ disposition' \in [Reviews -> {"pending", "accepted", "rejected"}]
        <5> DEFINE said == IF accept THEN "reviewed" ELSE "rejected"
        <5>1. said \in {"reviewed", "rejected"}
          OBVIOUS
        <5>2. decisions[r] \in Seq({"reviewed", "rejected"})
          OBVIOUS
        <5>3. Append(decisions[r], said) \in Seq({"reviewed", "rejected"})
          BY ONLY <5>1, <5>2
        <5>4. disposition' \in [Reviews -> {"pending", "accepted", "rejected"}]
          BY <4>2
        <5>5. decisions' \in [Reviews -> Seq({"reviewed", "rejected"})]
          BY <4>2, <5>2, <5>3
        <5>6. QED
          BY <5>4, <5>5
      <4>3. QED
        BY <2>3, <4>1, <4>2, CommitReviews
    <3>2. QED
      BY <2>3, <3>1 DEF Commit
  <2>4. CASE Busy
    <3>1. write \in [ask : Asks, attempt : 1 .. Attempts, done : 0 .. 2]
      BY <2>4 DEF Busy
    <3>2. \A k \in 1 .. Attempts : k < Attempts => k + 1 \in 1 .. Attempts
      OBVIOUS
    <3>3. write.attempt < Attempts => write.attempt + 1 \in 1 .. Attempts
      BY ONLY <3>1, <3>2
    <3>4. 0 \in 0 .. 2
      OBVIOUS
    <3>5. write.attempt < Attempts =>
            [write EXCEPT !.attempt = @ + 1, !.done = 0]
               \in [ask : Asks, attempt : 1 .. Attempts, done : 0 .. 2]
      BY ONLY <3>1, <3>3, <3>4, ClickTyped, Zenon
    <3>6. QED
      BY <2>4, <3>5 DEF Busy
  <2>5. CASE WebDies
    BY <2>5 DEF WebDies
  <2>6. CASE RunInserts \/ RunCommits \/ Tick \/ Quiet
    BY <2>6 DEF RunInserts, RunCommits, Tick, Quiet
  <2>7. CASE UNCHANGED writeVars
    BY <2>7 DEF writeVars
  <2>8. QED
    BY <2>1, <2>2, <2>3, <2>4, <2>5, <2>6, <2>7 DEF WriteOrQuiet, WritesNext, WriteStep
<1>3. QED
  BY <1>1, <1>2, PTL DEF Spec

(* The retries, for every number of attempts: a click that is answered        *)
(* "saved" was stored whole at that step, and no other step stores a row.   *)
THEOREM SavedWhole == Spec => SavedOnceOrTold
<1>1. WritesTypeOK /\ [Next]_vars =>
        [/\ tables' # tables => reply' = "saved"
         /\ reply' = "saved" =>
              LET a == write.ask
              IN  Apply(a, {Statements(a)[i] : i \in DOMAIN Statements(a)})]_writeVars
  <2> SUFFICES ASSUME WritesTypeOK, WriteOrQuiet, ~UNCHANGED writeVars
               PROVE  /\ tables' # tables => reply' = "saved"
                      /\ reply' = "saved" =>
                           Apply(write.ask, {Statements(write.ask)[i] :
                                               i \in DOMAIN Statements(write.ask)})
    BY StepsWrite
  <2>1. CASE Commit
    BY <2>1, CommitWhole DEF Commit
  <2>2. CASE ~Commit
    BY <2>2 DEF WriteOrQuiet, WritesNext, WriteStep, Click, Execute, Busy, WebDies,
                RunInserts, RunCommits, Tick, Quiet
  <2>3. QED
    BY <2>1, <2>2
<1>2. QED
  BY <1>1, WritesTypeCorrect, PTL DEF Spec, SavedOnceOrTold

(* Triage leaves a review row and its decision in step: a row the operator  *)
(* is done with says what the last human decision about it says.            *)
THEOREM DecisionsAgree == Spec => []DisposedIsDecided
<1>1. Init => DisposedIsDecided
  BY DEF Init, WritesInit, DisposedIsDecided
<1>2. WritesTypeOK /\ DisposedIsDecided /\ [Next]_vars => DisposedIsDecided'
  <2> SUFFICES ASSUME WritesTypeOK, DisposedIsDecided, WriteOrQuiet
               PROVE  DisposedIsDecided'
    BY StepsWrite
  <2>1. CASE UNCHANGED <<decisions, disposition>>
    BY <2>1 DEF DisposedIsDecided
  <2>2. ASSUME NEW r \in Reviews, NEW accept \in BOOLEAN,
               disposition' = [disposition EXCEPT ![r] =
                                 IF accept THEN "accepted" ELSE "rejected"],
               r \in Candidates =>
                 decisions' = [decisions EXCEPT ![r] =
                                 Append(@, IF accept THEN "reviewed" ELSE "rejected")],
               r \notin Candidates => decisions' = decisions
        PROVE  DisposedIsDecided'
    <3> DEFINE said == IF accept THEN "reviewed" ELSE "rejected"
    <3>1. /\ decisions[r] \in Seq({"reviewed", "rejected"})
          /\ said \in {"reviewed", "rejected"}
      BY DEF WritesTypeOK
    <3>2. /\ Append(decisions[r], said) # <<>>
          /\ Append(decisions[r], said)[Len(Append(decisions[r], said))] = said
      BY <3>1
    <3>3. \A x \in Candidates : x # r =>
            decisions'[x] = decisions[x] /\ disposition'[x] = disposition[x]
      BY <2>2 DEF WritesTypeOK
    <3>4. r \in Candidates => /\ decisions'[r] = Append(decisions[r], said)
                              /\ disposition'[r] = IF accept THEN "accepted" ELSE "rejected"
      BY <2>2 DEF WritesTypeOK
    <3>5. QED
      BY <3>2, <3>3, <3>4 DEF DisposedIsDecided
  <2>3. CASE Commit
    BY <2>1, <2>2, <2>3, CommitReviews
  <2>4. CASE ~Commit
    <3>1. UNCHANGED <<decisions, disposition>>
      BY <2>4 DEF WriteOrQuiet, WritesNext, WriteStep, Click, Execute, Busy, WebDies,
                  RunInserts, RunCommits, Tick, Quiet, tables, writeVars
    <3>2. QED
      BY <2>1, <3>1
  <2>5. QED
    BY <2>3, <2>4
<1>3. QED
  BY <1>1, <1>2, WritesTypeCorrect, PTL DEF Spec
-----------------------------------------------------------------------------
(* The audit run.                                                           *)
RunRows == [status : Statuses, sampled : Nat, written : Nat, spent : Nat]

JudgeRecords ==
    [pc : {"sampling", "next", "calling", "writing"}, queue : Seq(Signals), at : Nat \ {0},
     draft : SUBSET Checks, cost : Nat, written : Nat, spent : Nat,
     failed : {"yes", "no"}, snapshot : {"none", "fresh", "stale"}]

AuditTyped ==
    /\ stored \subseteq Signals
    /\ rows \subseteq [signal : Signals, check : Checks, run : 1 .. Len(runs)]
    /\ IsFiniteSet(rows)
    /\ runs \in Seq(RunRows)
    /\ bills \in Seq(Nat) /\ Len(bills) = Len(runs)
    /\ judge # Idle => judge \in JudgeRecords

(* The signals no other run has judged.                                     *)
Eligibles == {s \in stored : \A r \in RowsOf(s) : r.run = Now}

(* A queue that is the beginning of some round over all of them.            *)
SampleOf(q, E) ==
    /\ Len(q) <= Cardinality(E)
    /\ \E f \in [1 .. Cardinality(E) -> E] :
         /\ \A i, j \in 1 .. Cardinality(E) : i # j => f[i] # f[j]
         /\ RoundRobin(f)
         /\ \A i \in DOMAIN q : q[i] = f[i]

(* What a run knows of its own queue.                                       *)
QueueTrue(j) ==
    /\ j.at <= Len(j.queue) + 1
    /\ j.pc \in {"calling", "writing"} => j.at <= Len(j.queue)
    /\ \A i \in DOMAIN j.queue : j.at <= i => RowsOf(j.queue[i]) = {}
    /\ j.pc = "sampling" => j.queue = <<>> /\ \A r \in rows : r.run # Now
    /\ j.pc # "sampling" => SampleOf(j.queue, Eligibles)

JudgeTrue ==
    judge # Idle =>
        /\ 1 <= Now /\ runs[Now].status = "running"
        /\ judge.written = Cardinality({r \in rows : r.run = Now})
        /\ QueueTrue(judge)

AuditInv == AuditTyped /\ JudgeTrue /\ AuditedOnceAndWhole /\ LedgerTrue /\ CeilingHolds

LEMMA SamplesTyped ==
    ASSUME NEW eligible \in SUBSET Signals, NEW limit \in Nat, NEW q \in Samples(eligible, limit)
    PROVE  /\ Cardinality(eligible) \in Nat
           /\ q \in Seq(Signals) /\ Len(q) <= Cardinality(eligible)
           /\ \E f \in [1 .. Cardinality(eligible) -> eligible] :
                /\ \A i, j \in 1 .. Cardinality(eligible) : i # j => f[i] # f[j]
                /\ RoundRobin(f)
                /\ \A i \in DOMAIN q : q[i] = f[i]
<1> DEFINE n == Cardinality(eligible)
           m == IF limit < n THEN limit ELSE n
<1>1. n \in Nat
  BY StratumAssumption, FS_Subset, FS_CardinalityType DEF StratumAssumption
<1>2. PICK f \in [1 .. n -> eligible] :
        /\ \A i, j \in 1 .. n : i # j => f[i] # f[j]
        /\ RoundRobin(f)
        /\ q = [i \in 1 .. m |-> f[i]]
  BY DEF Samples
<1>3. m \in Nat /\ m <= n
  BY <1>1
<1>4. q \in [1 .. m -> Signals]
  BY <1>1, <1>2, <1>3
<1>5. q \in Seq(Signals) /\ Len(q) = m
  BY <1>3, <1>4
<1>6. \A i \in DOMAIN q : q[i] = f[i]
  BY <1>2, <1>3
<1>7. QED
  BY <1>1, <1>2, <1>3, <1>5, <1>6

LEMMA RunsAppend ==
    ASSUME NEW S, NEW q \in Seq(S), NEW e \in S
    PROVE  /\ Append(q, e) \in Seq(S) /\ Len(Append(q, e)) = Len(q) + 1
           /\ \A i \in DOMAIN q : Append(q, e)[i] = q[i]
           /\ Append(q, e)[Len(q) + 1] = e
           /\ Len(q) \in Nat /\ DOMAIN q = 1 .. Len(q)
  OBVIOUS

LEMMA NoRowsNoCount == ASSUME NEW i, \A r \in rows : r.run # i
                       PROVE  Cardinality({r \in rows : r.run = i}) = 0
<1>1. {r \in rows : r.run = i} = {}
  OBVIOUS
<1>2. QED
  BY <1>1, FS_EmptySet

(* While no row is written, every verdict stays where it is.                *)
LEMMA SameRows ==
    ASSUME UNCHANGED rows, AuditedOnceAndWhole, DOMAIN runs \subseteq DOMAIN runs'
    PROVE  AuditedOnceAndWhole'
<1>1. \A s \in Signals : RowsOf(s)' = RowsOf(s)
  BY DEF RowsOf
<1>2. SUFFICES ASSUME NEW s \in Signals, RowsOf(s)' # {}
               PROVE  \E i \in DOMAIN runs' : RowsOf(s)' = [signal : {s}, check : Checks, run : {i}]
  BY DEF AuditedOnceAndWhole
<1>3. PICK i \in DOMAIN runs : RowsOf(s) = [signal : {s}, check : Checks, run : {i}]
  BY <1>1, <1>2 DEF AuditedOnceAndWhole
<1>4. QED
  BY <1>1, <1>3

LEMMA StartKeeps == ASSUME AuditInv, Start PROVE AuditInv'
<1> DEFINE Reaped == [i \in DOMAIN runs |-> IF runs[i].status = "running"
                                             THEN [runs[i] EXCEPT !.status = "reaped"]
                                             ELSE runs[i]]
<1>1. /\ runs' = Append(Reaped, NewRun) /\ bills' = Append(bills, 0)
      /\ judge' = NewJudge /\ UNCHANGED <<stored, rows>>
  BY DEF Start
<1>2. /\ runs \in Seq(RunRows) /\ Len(runs) \in Nat /\ DOMAIN runs = 1 .. Len(runs)
      /\ bills \in Seq(Nat) /\ Len(bills) = Len(runs)
  BY DEF AuditInv, AuditTyped
<1>3. /\ Reaped \in Seq(RunRows) /\ Len(Reaped) = Len(runs)
      /\ \A i \in DOMAIN runs :
           /\ Reaped[i].written = runs[i].written
           /\ Reaped[i].status # "running"
           /\ Reaped[i].status # "reaped" => Reaped[i].status = runs[i].status
  <2>1. \A i \in DOMAIN runs : runs[i] \in RunRows
    BY <1>2
  <2>2. \A i \in DOMAIN runs :
           /\ Reaped[i] \in RunRows
           /\ Reaped[i].written = runs[i].written
           /\ Reaped[i].status # "running"
           /\ Reaped[i].status # "reaped" => Reaped[i].status = runs[i].status
    BY <2>1 DEF RunRows, Statuses
  <2>3. QED
    BY <1>2, <2>2
<1> HIDE DEF Reaped
<1>4. NewRun \in RunRows /\ NewRun.status = "running"
  BY DEF NewRun, RunRows, Statuses
<1>5. /\ runs' \in Seq(RunRows) /\ Len(runs') = Len(runs) + 1
      /\ DOMAIN runs' = 1 .. Len(runs) + 1
      /\ \A i \in DOMAIN runs : runs'[i] = Reaped[i]
      /\ runs'[Len(runs) + 1] = NewRun
  <2>1. /\ Append(Reaped, NewRun) \in Seq(RunRows)
        /\ Len(Append(Reaped, NewRun)) = Len(Reaped) + 1
        /\ DOMAIN Append(Reaped, NewRun) = 1 .. Len(Reaped) + 1
        /\ \A i \in DOMAIN Reaped : Append(Reaped, NewRun)[i] = Reaped[i]
        /\ Append(Reaped, NewRun)[Len(Reaped) + 1] = NewRun
        /\ DOMAIN Reaped = 1 .. Len(Reaped)
    BY <1>3, <1>4, RunsAppend
  <2>2. QED
    BY <1>1, <1>2, <1>3, <2>1
<1>6. /\ bills' \in Seq(Nat) /\ Len(bills') = Len(runs) + 1
      /\ DOMAIN bills' = 1 .. Len(runs) + 1
      /\ \A i \in 1 .. Len(runs) : bills'[i] = bills[i]
      /\ bills'[Len(runs) + 1] = 0
  BY <1>1, <1>2, RunsAppend
<1>7. /\ rows \subseteq [signal : Signals, check : Checks, run : 1 .. Len(runs)]
      /\ IsFiniteSet(rows) /\ stored \subseteq Signals
  BY DEF AuditInv, AuditTyped
<1>8. \A r \in rows : r.run \in 1 .. Len(runs)
  BY <1>7
<1>9. AuditTyped'
  <2>1. judge' \in JudgeRecords
    BY <1>1 DEF NewJudge, JudgeRecords
  <2>2. rows \subseteq [signal : Signals, check : Checks, run : 1 .. Len(runs) + 1]
    BY <1>2, <1>7
  <2>3. QED
    BY <1>1, <1>5, <1>6, <1>7, <2>1, <2>2 DEF AuditTyped
<1>10. JudgeTrue'
  <2>1. \A r \in rows : r.run # Len(runs) + 1
    BY <1>2, <1>8
  <2>2. Cardinality({r \in rows : r.run = Len(runs) + 1}) = 0
    BY <2>1, NoRowsNoCount
  <2>3. QueueTrue(judge)'
    BY <1>1, <1>5, <2>1 DEF QueueTrue, NewJudge, Now
  <2>4. judge'.written = 0
    BY <1>1 DEF NewJudge
  <2>5. QED
    BY <1>1, <1>2, <1>4, <1>5, <2>2, <2>3, <2>4 DEF JudgeTrue, Now
<1>11. AuditedOnceAndWhole'
  BY <1>1, <1>2, <1>5, SameRows DEF AuditInv
<1>12. LedgerTrue'
  <2>1. ASSUME NEW i \in DOMAIN runs
        PROVE  /\ runs'[i].status # "running"
               /\ runs'[i].status \notin {"running", "reaped"} =>
                    runs'[i].written = Cardinality({r \in rows : r.run = i})
    <3>1. runs[i].status \notin {"running", "reaped"} =>
             runs[i].written = Cardinality({r \in rows : r.run = i})
      BY DEF AuditInv, LedgerTrue
    <3>2. QED
      BY <1>3, <1>5, <3>1
  <2>2. \A i \in DOMAIN runs' : i \in DOMAIN runs \/ i = Len(runs')
    BY <1>2, <1>5
  <2>3. runs'[Len(runs')].status = "running"
    BY <1>4, <1>5
  <2>4. QED
    BY <1>1, <2>1, <2>2, <2>3 DEF LedgerTrue, Now
<1>13. CeilingHolds'
  <2>1. \A i \in 1 .. Len(runs) : \A most \in Costs :
          (\A c \in Costs : c <= most) => bills[i] < MaxUsd + most
    BY <1>2 DEF AuditInv, CeilingHolds
  <2>2. \A most \in Costs : 0 < MaxUsd + most
    BY CostAssumption DEF CostAssumption
  <2>3. QED
    BY <1>2, <1>6, <2>1, <2>2 DEF CeilingHolds
<1>14. QED
  BY <1>9, <1>10, <1>11, <1>12, <1>13 DEF AuditInv

LEMMA MintKeepsAudit == ASSUME AuditInv, NEW s \in Signals, Mint(s) PROVE AuditInv'
<1>1. judge = Idle /\ stored' = stored \cup {s} /\ UNCHANGED <<rows, runs, judge, bills>>
  BY DEF Mint
<1>2. AuditTyped' /\ JudgeTrue'
  BY <1>1 DEF AuditInv, AuditTyped, JudgeTrue
<1>3. AuditedOnceAndWhole'
  BY <1>1, SameRows DEF AuditInv
<1>4. LedgerTrue' /\ CeilingHolds'
  BY <1>1 DEF AuditInv, LedgerTrue, CeilingHolds, Now
<1>5. QED
  BY <1>2, <1>3, <1>4 DEF AuditInv

(* A run that ends says in its row how many verdicts it left.               *)
LEMMA FinalizeKeeps ==
    ASSUME AuditInv, judge # Idle, NEW st \in Statuses \ {"running", "reaped"}, Finalize(st)
    PROVE  AuditInv'
<1>1. /\ runs' = [runs EXCEPT ![Now] = [status |-> st, sampled |-> Len(judge.queue),
                                        written |-> judge.written, spent |-> judge.spent]]
      /\ judge' = Idle /\ UNCHANGED <<stored, rows, bills>>
  BY DEF Finalize
<1>2. /\ runs \in Seq(RunRows) /\ Len(runs) \in Nat /\ DOMAIN runs = 1 .. Len(runs)
      /\ judge \in JudgeRecords /\ 1 <= Now
      /\ judge.written = Cardinality({r \in rows : r.run = Now})
  BY DEF AuditInv, AuditTyped, JudgeTrue
<1> DEFINE Row == [status |-> st, sampled |-> Len(judge.queue),
                   written |-> judge.written, spent |-> judge.spent]
<1>3. Row \in RunRows
  <2>1. Len(judge.queue) \in Nat /\ judge.written \in Nat /\ judge.spent \in Nat
    BY <1>2 DEF JudgeRecords
  <2>2. QED
    BY <2>1 DEF RunRows
<1>4. /\ runs' \in Seq(RunRows) /\ Len(runs') = Len(runs) /\ DOMAIN runs' = DOMAIN runs
      /\ \A i \in DOMAIN runs : i # Now => runs'[i] = runs[i]
      /\ runs'[Now].status = st /\ runs'[Now].written = judge.written
  BY <1>1, <1>2, <1>3 DEF Now
<1>5. AuditTyped' /\ JudgeTrue'
  BY <1>1, <1>4 DEF AuditInv, AuditTyped, JudgeTrue
<1>6. AuditedOnceAndWhole'
  BY <1>1, <1>4, SameRows DEF AuditInv
<1>7. LedgerTrue'
  BY <1>1, <1>2, <1>4 DEF AuditInv, LedgerTrue, Now
<1>8. CeilingHolds'
  BY <1>1 DEF AuditInv, CeilingHolds
<1>9. QED
  BY <1>5, <1>6, <1>7, <1>8 DEF AuditInv

LEMMA CrashKeeps == ASSUME AuditInv, Crash PROVE AuditInv'
<1>1. judge' = Idle /\ UNCHANGED <<stored, rows, runs, bills>>
  BY DEF Crash
<1>2. AuditTyped' /\ JudgeTrue'
  BY <1>1 DEF AuditInv, AuditTyped, JudgeTrue
<1>3. AuditedOnceAndWhole'
  BY <1>1, SameRows DEF AuditInv
<1>4. LedgerTrue' /\ CeilingHolds'
  BY <1>1 DEF AuditInv, LedgerTrue, CeilingHolds, Now
<1>5. QED
  BY <1>2, <1>3, <1>4 DEF AuditInv

(* A step of the run itself: the row of the run, the signals and the        *)
(* verdicts stay, and the queue with them once it is drawn.                 *)
LEMMA JudgeMoves ==
    ASSUME AuditInv, judge # Idle, UNCHANGED <<stored, rows, runs>>,
           bills' \in Seq(Nat), Len(bills') = Len(runs), CeilingHolds',
           judge' \in JudgeRecords, judge'.written = judge.written, QueueTrue(judge')
    PROVE  AuditInv'
<1>1. AuditTyped'
  BY DEF AuditInv, AuditTyped
<1>2. QueueTrue(judge)'
  <2>1. /\ UNCHANGED Eligibles /\ \A s : RowsOf(s)' = RowsOf(s)
        /\ Now' = Now
    BY DEF Eligibles, RowsOf, Now
  <2>2. QED
    BY <2>1 DEF QueueTrue
<1>3. JudgeTrue'
  BY <1>2 DEF AuditInv, JudgeTrue, Now
<1>4. AuditedOnceAndWhole' /\ LedgerTrue'
  BY SameRows DEF AuditInv, LedgerTrue, Now
<1>5. QED
  BY <1>1, <1>3, <1>4 DEF AuditInv

LEMMA JudgeTypes ==
    ASSUME AuditInv, judge # Idle
    PROVE  /\ judge \in JudgeRecords /\ QueueTrue(judge)
           /\ judge.at \in Nat \ {0} /\ judge.queue \in Seq(Signals) /\ Len(judge.queue) \in Nat
           /\ judge.draft \subseteq Checks /\ judge.written \in Nat
           /\ judge.pc \in {"sampling", "next", "calling", "writing"}
           /\ 1 <= Now /\ Now \in DOMAIN runs /\ Now \in DOMAIN bills /\ Now \in Nat
           /\ bills \in Seq(Nat) /\ bills[Now] \in Nat /\ Len(bills) = Len(runs)
<1>1. /\ judge \in JudgeRecords /\ QueueTrue(judge) /\ 1 <= Now
      /\ runs \in Seq(RunRows) /\ bills \in Seq(Nat) /\ Len(bills) = Len(runs)
  BY DEF AuditInv, AuditTyped, JudgeTrue
<1>2. /\ judge.at \in Nat \ {0} /\ judge.queue \in Seq(Signals)
      /\ judge.draft \subseteq Checks /\ judge.written \in Nat
      /\ judge.pc \in {"sampling", "next", "calling", "writing"}
  BY <1>1 DEF JudgeRecords
<1>3. Len(judge.queue) \in Nat /\ Now \in DOMAIN runs /\ Now \in DOMAIN bills /\ Now \in Nat
  BY <1>1, <1>2 DEF Now
<1>4. bills[Now] \in Nat
  BY <1>1, <1>3
<1>5. QED
  BY <1>1, <1>2, <1>3, <1>4

LEMMA SampleKeeps ==
    ASSUME AuditInv, NEW limit \in 1 .. Cardinality(Signals), Sample(limit)
    PROVE  AuditInv'
<1>1. judge # Idle /\ judge.pc = "sampling" /\ UNCHANGED <<stored, rows, runs, bills>>
  BY DEF Sample, At
<1>2. PICK q \in Samples(Unaudited, limit) : judge' = [judge EXCEPT !.pc = "next", !.queue = q]
  BY DEF Sample
<1>3. limit \in Nat
  BY StratumAssumption, FS_CardinalityType DEF StratumAssumption
<1>4. Unaudited \in SUBSET Signals
  BY DEF AuditInv, AuditTyped, Unaudited
<1>5. q \in Seq(Signals) /\ SampleOf(q, Unaudited)
  BY <1>3, <1>4, SamplesTyped DEF SampleOf
<1>6. judge.queue = <<>> /\ \A r \in rows : r.run # Now
  BY <1>1, JudgeTypes DEF QueueTrue
<1>7. \A s : s \in Eligibles <=> s \in Unaudited
  BY <1>6 DEF Eligibles, Unaudited, RowsOf
<1>8. Eligibles = Unaudited
  BY <1>7
<1>9. ASSUME NEW i \in DOMAIN q PROVE RowsOf(q[i]) = {}
  <2>1. q[i] \in Unaudited
    <3>1. PICK f \in [1 .. Cardinality(Unaudited) -> Unaudited] : q[i] = f[i]
      BY <1>3, <1>4, SamplesTyped
    <3>2. i \in 1 .. Cardinality(Unaudited)
      BY <1>3, <1>4, <1>5, SamplesTyped
    <3>3. QED
      BY <3>1, <3>2
  <2>2. QED
    BY <2>1 DEF Unaudited, RowsOf
<1>10. /\ judge' \in JudgeRecords /\ judge'.written = judge.written /\ judge'.queue = q
       /\ judge'.pc = "next" /\ judge'.at = judge.at
  BY <1>1, <1>2, <1>5, JudgeTypes DEF JudgeRecords
<1>11. judge.at <= Len(q) + 1
  <2>1. judge.at <= Len(judge.queue) + 1
    BY <1>1, JudgeTypes DEF QueueTrue
  <2>2. Len(judge.queue) = 0 /\ Len(q) \in Nat /\ judge.at \in Nat
    BY <1>1, <1>5, <1>6, JudgeTypes
  <2>3. QED
    BY <2>1, <2>2
<1>12. QueueTrue(judge')
  BY <1>5, <1>8, <1>9, <1>10, <1>11 DEF QueueTrue
<1>13. QED
  BY <1>1, <1>10, <1>12, JudgeMoves, JudgeTypes DEF AuditInv, CeilingHolds

(* Steps that leave the run at its signal.                                  *)
LEMMA StayKeeps ==
    ASSUME AuditInv, Assemble \/ OperatorCommit \/ \E check \in Checks : WriteVerdict(check)
    PROVE  AuditInv'
<1>1. judge # Idle /\ UNCHANGED <<stored, rows, runs, bills>>
  BY DEF Assemble, OperatorCommit, WriteVerdict, At
<1>2. /\ judge \in JudgeRecords /\ QueueTrue(judge) /\ bills \in Seq(Nat) /\ Len(bills) = Len(runs)
  BY <1>1, JudgeTypes
<1>3. /\ judge' \in JudgeRecords /\ judge'.written = judge.written
      /\ judge'.queue = judge.queue /\ judge'.at = judge.at
      /\ \/ judge'.pc = judge.pc
         \/ judge'.pc = "calling" /\ judge.pc = "next" /\ judge.at <= Len(judge.queue)
  <2>1. CASE Assemble
    BY <1>2, <2>1 DEF Assemble, At, JudgeRecords
  <2>2. CASE OperatorCommit
    BY <1>2, <2>2 DEF OperatorCommit, JudgeRecords
  <2>3. CASE \E check \in Checks : WriteVerdict(check)
    <3>1. PICK check \in Checks : judge' = [judge EXCEPT !.draft = @ \cup {check}]
      BY <2>3 DEF WriteVerdict
    <3>2. judge.draft \cup {check} \in SUBSET Checks
      BY <1>2 DEF JudgeRecords
    <3>3. QED
      BY <1>2, <3>1, <3>2 DEF JudgeRecords
  <2>4. QED
    BY <2>1, <2>2, <2>3
<1>4. QueueTrue(judge')
  BY <1>2, <1>3 DEF QueueTrue
<1>5. CeilingHolds'
  BY <1>1 DEF AuditInv, CeilingHolds
<1>6. QED
  BY <1>1, <1>2, <1>3, <1>4, <1>5, JudgeMoves

(* A call is only made below the ceiling.                                   *)
LEMMA BillKeeps ==
    ASSUME AuditInv, judge # Idle, NEW cost \in Costs \cup {0}, ~OverBudget,
           bills' = [bills EXCEPT ![Now] = @ + cost]
    PROVE  bills' \in Seq(Nat) /\ Len(bills') = Len(bills) /\ CeilingHolds'
<1>1. /\ bills \in Seq(Nat) /\ Now \in DOMAIN bills /\ bills[Now] \in Nat
      /\ cost \in Nat /\ MaxUsd \in Nat /\ Costs \subseteq Nat
  <2>1. bills \in Seq(Nat) /\ Now \in DOMAIN bills /\ bills[Now] \in Nat
    BY JudgeTypes
  <2>2. QED
    BY <2>1, CostAssumption DEF CostAssumption
<1>2. bills' \in Seq(Nat) /\ Len(bills') = Len(bills) /\ DOMAIN bills' = DOMAIN bills
  BY <1>1
<1>3. /\ \A i \in DOMAIN bills : i # Now => bills'[i] = bills[i]
      /\ bills'[Now] = bills[Now] + cost
  BY <1>1
<1>4. bills[Now] < MaxUsd
  BY <1>1 DEF OverBudget
<1>5. ASSUME NEW i \in DOMAIN bills, NEW most \in Costs, \A c \in Costs : c <= most
      PROVE  bills'[i] < MaxUsd + most
  <2>1. CASE i = Now
    <3>1. cost <= most
      BY <1>1, <1>5
    <3>2. QED
      BY <1>1, <1>3, <1>4, <2>1, <3>1
  <2>2. CASE i # Now
    BY <1>3, <1>5, <2>2 DEF AuditInv, CeilingHolds
  <2>3. QED
    BY <2>1, <2>2
<1>6. QED
  BY <1>2, <1>5 DEF CeilingHolds

LEMMA AnswerKeeps ==
    ASSUME AuditInv, NEW cost \in Costs \cup {0}, JudgeAnswers(cost) PROVE AuditInv'
<1>1. /\ judge # Idle /\ judge.pc = "calling" /\ ~OverBudget
      /\ bills' = [bills EXCEPT ![Now] = @ + cost]
      /\ judge' = [judge EXCEPT !.pc = "writing", !.cost = cost]
      /\ UNCHANGED <<stored, rows, runs>>
  BY DEF JudgeAnswers, At
<1>2. bills' \in Seq(Nat) /\ Len(bills') = Len(bills) /\ CeilingHolds'
  BY <1>1, BillKeeps
<1>3. cost \in Nat
  BY CostAssumption DEF CostAssumption
<1>4. /\ judge' \in JudgeRecords /\ judge'.written = judge.written /\ judge'.queue = judge.queue
      /\ judge'.at = judge.at /\ judge'.pc = "writing"
  BY <1>1, <1>3, JudgeTypes DEF JudgeRecords
<1>5. QueueTrue(judge')
  BY <1>1, <1>4, JudgeTypes DEF QueueTrue
<1>6. QED
  BY <1>1, <1>2, <1>4, <1>5, JudgeMoves, JudgeTypes

LEMMA NextTyped ==
    ASSUME NEW j \in JudgeRecords
    PROVE  /\ NextSignal(j) \in JudgeRecords
           /\ NextSignal(j).written = j.written /\ NextSignal(j).queue = j.queue
           /\ NextSignal(j).at = j.at + 1 /\ NextSignal(j).pc = "next"
           /\ NextSignal(j).spent = j.spent /\ j.spent \in Nat
<1>1. /\ j.at \in Nat /\ j.spent \in Nat
      /\ {} \in SUBSET Checks /\ j.at + 1 \in Nat \ {0}
  BY DEF JudgeRecords
<1> DEFINE next == j.at + 1
<1>2. NextSignal(j) = [j EXCEPT !.pc = "next", !.at = next, !.draft = {}, !.snapshot = "none"]
  BY DEF NextSignal
<1>3. next \in Nat \ {0}
  BY <1>1
<1> HIDE DEF next
<1>4. NextSignal(j) \in JudgeRecords
  BY <1>1, <1>2, <1>3 DEF JudgeRecords
<1>5. /\ NextSignal(j).written = j.written /\ NextSignal(j).queue = j.queue
      /\ NextSignal(j).at = next /\ NextSignal(j).pc = "next" /\ NextSignal(j).spent = j.spent
  BY <1>2 DEF JudgeRecords
<1>6. QED
  BY <1>1, <1>4, <1>5 DEF next

LEMMA NextQueue ==
    ASSUME NEW j \in JudgeRecords, NEW k, QueueTrue(j), j.pc \in {"calling", "writing"},
           k.pc = "next", k.queue = j.queue, k.at = j.at + 1
    PROVE  QueueTrue(k)
<1>1. /\ j.at \in Nat /\ Len(j.queue) \in Nat /\ DOMAIN j.queue \subseteq Nat
      /\ j.at <= Len(j.queue) /\ SampleOf(j.queue, Eligibles)
      /\ \A i \in DOMAIN j.queue : j.at <= i => RowsOf(j.queue[i]) = {}
  BY DEF JudgeRecords, QueueTrue
<1>2. ASSUME NEW i \in DOMAIN k.queue, k.at <= i PROVE RowsOf(k.queue[i]) = {}
  <2>1. i \in DOMAIN j.queue /\ j.at + 1 <= i
    BY <1>2
  <2>2. j.at <= i
    BY <1>1, <2>1
  <2>3. QED
    BY <1>1, <2>1, <2>2
<1>3. k.at <= Len(k.queue) + 1
  BY <1>1
<1>4. QED
  BY <1>1, <1>2, <1>3 DEF QueueTrue

(* Steps to the next signal, without a verdict.                             *)
LEMMA FailKeeps ==
    ASSUME AuditInv, LoseVerdicts \/ \E cost \in Costs \cup {0} : JudgeFails(cost)
    PROVE  AuditInv'
<1>1. judge # Idle /\ judge.pc \in {"calling", "writing"} /\ UNCHANGED <<stored, rows, runs>>
  BY DEF LoseVerdicts, JudgeFails, At
<1>2. bills' \in Seq(Nat) /\ Len(bills') = Len(bills) /\ CeilingHolds'
  <2>1. CASE LoseVerdicts
    BY <1>1, <2>1, JudgeTypes DEF LoseVerdicts, AuditInv, CeilingHolds
  <2>2. ASSUME NEW cost \in Costs \cup {0}, JudgeFails(cost)
        PROVE  bills' \in Seq(Nat) /\ Len(bills') = Len(bills) /\ CeilingHolds'
    BY <1>1, <2>2, BillKeeps DEF JudgeFails
  <2>3. QED
    BY <2>1, <2>2
<1>3. judge \in JudgeRecords
  BY <1>1, JudgeTypes
<1> DEFINE next == NextSignal(judge)
<1>4. /\ next \in JudgeRecords /\ next.written = judge.written /\ next.queue = judge.queue
      /\ next.at = judge.at + 1 /\ next.pc = "next" /\ next.spent \in Nat
  BY <1>3, NextTyped
<1>5. /\ judge' \in JudgeRecords /\ judge'.written = judge.written /\ judge'.queue = judge.queue
      /\ judge'.at = judge.at + 1 /\ judge'.pc = "next"
  <2>1. CASE LoseVerdicts
    <3>1. judge' = [next EXCEPT !.failed = "yes"]
      BY <2>1 DEF LoseVerdicts
    <3>2. QED
      BY <1>4, <3>1 DEF JudgeRecords
  <2>2. ASSUME NEW cost \in Costs \cup {0}, JudgeFails(cost)
        PROVE  /\ judge' \in JudgeRecords /\ judge'.written = judge.written
               /\ judge'.queue = judge.queue
               /\ judge'.at = judge.at + 1 /\ judge'.pc = "next"
    <3>1. next.spent + cost \in Nat
      BY <1>4, CostAssumption DEF CostAssumption
    <3>2. judge' = [next EXCEPT !.spent = @ + cost, !.failed = "yes"]
      BY <2>2 DEF JudgeFails
    <3>3. QED
      BY <1>4, <3>1, <3>2 DEF JudgeRecords
  <2>3. QED
    BY <2>1, <2>2
<1>6. QueueTrue(judge')
  BY <1>1, <1>3, <1>5, NextQueue, JudgeTypes
<1>7. QED
  BY <1>1, <1>2, <1>5, <1>6, JudgeMoves, JudgeTypes

(* The rows one signal gets.                                                *)
LEMMA BlockCounts ==
    ASSUME NEW s, NEW n
    PROVE  /\ IsFiniteSet([signal : {s}, check : Checks, run : {n}])
           /\ Cardinality([signal : {s}, check : Checks, run : {n}]) = Cardinality(Checks)
<1> DEFINE Block == [signal : {s}, check : Checks, run : {n}]
           f == [c \in Checks |-> [signal |-> s, check |-> c, run |-> n]]
<1>1. f \in [Checks -> Block]
  OBVIOUS
<1>2. \A c, e \in Checks : f[c] = f[e] => c = e
  <2>1. \A c \in Checks : f[c].check = c
    OBVIOUS
  <2>2. QED
    BY <2>1
<1>3. \A r \in Block : \E c \in Checks : f[c] = r
  <2>1. ASSUME NEW r \in Block PROVE r.check \in Checks /\ r = [signal |-> s, check |-> r.check, run |-> n]
    OBVIOUS
  <2>2. QED
    BY <2>1
<1> HIDE DEF Block, f
<1>4. ExistsBijection(Checks, Block)
  BY <1>1, <1>2, <1>3, Fun_IsBij, Fun_ExistsBij
<1>5. QED
  BY <1>4, ChecksAssumption, FS_Bijection DEF ChecksAssumption, Block

LEMMA DisjointCounts ==
    ASSUME NEW S, NEW T, IsFiniteSet(S), IsFiniteSet(T), \A x \in S : x \notin T
    PROVE  Cardinality(S \cup T) = Cardinality(S) + Cardinality(T)
<1>1. S \cap T = {}
  OBVIOUS
<1>2. Cardinality(S \cap T) = 0
  BY <1>1, FS_EmptySet
<1>3. Cardinality(S) \in Nat /\ Cardinality(T) \in Nat
  BY FS_CardinalityType
<1>4. Cardinality(S \cup T) = Cardinality(S) + Cardinality(T) - Cardinality(S \cap T)
  BY FS_Union
<1>5. QED
  BY <1>2, <1>3, <1>4

LEMMA ReleaseKeeps == ASSUME AuditInv, Release PROVE AuditInv'
<1>1. /\ judge # Idle /\ judge.pc = "writing" /\ UNCHANGED <<stored, runs, bills>>
  BY DEF Release, At
<1>2. /\ judge \in JudgeRecords /\ QueueTrue(judge) /\ judge.queue \in Seq(Signals)
      /\ judge.at \in Nat \ {0} /\ Len(judge.queue) \in Nat
      /\ 1 <= Now /\ Now \in DOMAIN runs /\ Now \in Nat
  BY <1>1, JudgeTypes
<1>3. PICK s \in Signals : judge.at \in DOMAIN judge.queue /\ s = judge.queue[judge.at]
  <2>1. judge.at <= Len(judge.queue)
    BY <1>1, <1>2 DEF QueueTrue
  <2>2. QED
    BY <1>2, <2>1
<1> DEFINE Block == [signal : {s}, check : Checks, run : {Now}]
           next == NextSignal(judge)
<1>4. RowsOf(s) = {}
  <2>1. judge.at <= judge.at
    BY <1>2
  <2>2. QED
    BY <1>2, <1>3, <2>1 DEF QueueTrue
<1>20. /\ rows' = rows \cup Block
      /\ judge' = [next EXCEPT !.written = @ + Cardinality(Checks), !.spent = @ + judge.cost]
  BY <1>3 DEF Release
<1> HIDE DEF next
<1>5. /\ IsFiniteSet(Block) /\ Cardinality(Block) = Cardinality(Checks)
      /\ Cardinality(Checks) \in Nat
  BY BlockCounts, ChecksAssumption, FS_CardinalityType DEF ChecksAssumption
<1>6. \A r \in Block : r.signal = s /\ r.run = Now /\ r.check \in Checks
  OBVIOUS
<1>7. AuditTyped'
  <2>1. IsFiniteSet(rows)
    BY DEF AuditInv, AuditTyped
  <2>2. IsFiniteSet(rows')
    BY <1>1, <1>20, <1>5, <2>1, FS_Union
  <2>3. Block \subseteq [signal : Signals, check : Checks, run : 1 .. Len(runs)]
    BY <1>2, <1>3 DEF Now
  <2>4. judge' \in JudgeRecords
    <3>1. /\ next \in JudgeRecords /\ next.written \in Nat /\ next.spent \in Nat /\ judge.cost \in Nat
      BY <1>2, NextTyped DEF JudgeRecords, next
    <3>2. /\ next.written + Cardinality(Checks) \in Nat /\ next.spent + judge.cost \in Nat
      BY <1>5, <3>1
    <3>3. QED
      BY <1>1, <1>20, <3>1, <3>2 DEF JudgeRecords
  <2>5. QED
    BY <1>1, <1>20, <2>2, <2>3, <2>4 DEF AuditInv, AuditTyped
<1>8. \A x : x # s => RowsOf(x)' = RowsOf(x)
  BY <1>1, <1>20, <1>6 DEF RowsOf
<1>9. RowsOf(s)' = Block
  BY <1>1, <1>20, <1>4, <1>6 DEF RowsOf
<1>10. AuditedOnceAndWhole'
  <2>1. \A x \in Signals : x # s /\ RowsOf(x) # {} =>
          \E i \in DOMAIN runs : RowsOf(x) = [signal : {x}, check : Checks, run : {i}]
    BY DEF AuditInv, AuditedOnceAndWhole
  <2>2. SUFFICES ASSUME NEW x \in Signals, RowsOf(x)' # {}
                 PROVE  \E i \in DOMAIN runs : RowsOf(x)' = [signal : {x}, check : Checks, run : {i}]
    BY <1>1 DEF AuditedOnceAndWhole
  <2>3. CASE x = s
    BY <1>2, <1>9, <2>3
  <2>4. CASE x # s
    BY <1>8, <2>1, <2>2, <2>4
  <2>5. QED
    BY <2>3, <2>4
<1>11. \A i : i # Now => {r \in rows' : r.run = i} = {r \in rows : r.run = i}
  BY <1>1, <1>20, <1>6
<1>12. LedgerTrue'
  <2>1. runs[Now].status = "running"
    BY <1>1 DEF AuditInv, JudgeTrue
  <2>2. \A i \in DOMAIN runs : runs[i].status \notin {"running", "reaped"} => i # Now
    BY <2>1
  <2>3. \A i \in DOMAIN runs : runs[i].status \notin {"running", "reaped"} =>
             runs[i].written = Cardinality({r \in rows' : r.run = i})
    BY <1>11, <2>2 DEF AuditInv, LedgerTrue
  <2>4. QED
    BY <1>1, <1>20, <2>3 DEF AuditInv, LedgerTrue, Now
<1>13. judge'.written = Cardinality({r \in rows' : r.run = Now})
  <2> DEFINE Before0 == {r \in rows : r.run = Now}
  <2>1. {r \in rows' : r.run = Now} = Before0 \cup Block
    BY <1>1, <1>20, <1>6
  <2>2. \A x \in Before0 : x \notin Block
    BY <1>4, <1>6 DEF RowsOf
  <2>3. IsFiniteSet(Before0) /\ Cardinality(Before0) \in Nat /\ judge.written = Cardinality(Before0)
    <3>1. IsFiniteSet(rows) /\ Before0 \in SUBSET rows /\ judge.written = Cardinality(Before0)
      BY <1>1 DEF AuditInv, AuditTyped, JudgeTrue
    <3>2. QED
      BY <3>1, FS_Subset, FS_CardinalityType
  <2> HIDE DEF Before0, Block
  <2>4. Cardinality(Before0 \cup Block) = Cardinality(Before0) + Cardinality(Block)
    BY <1>5, <2>2, <2>3, DisjointCounts
  <2>5. judge'.written = judge.written + Cardinality(Checks)
    BY <1>1, <1>20, <1>2, NextTyped DEF JudgeRecords, next
  <2>6. QED
    BY <1>5, <2>1, <2>3, <2>4, <2>5
<1>14. /\ judge'.queue = judge.queue /\ judge'.at = judge.at + 1 /\ judge'.pc = "next"
  BY <1>1, <1>20, <1>2, NextTyped DEF JudgeRecords, next
<1>15. \A x : x \in Eligibles' <=> x \in Eligibles
  BY <1>1, <1>20, <1>4, <1>6, <1>8, <1>9 DEF Eligibles, Now
<1>16. QueueTrue(judge)'
  <2>1. Eligibles' = Eligibles
    BY <1>15
  <2>2. SampleOf(judge.queue, Eligibles) /\ judge.at + 1 <= Len(judge.queue) + 1
    BY <1>1, <1>20, <1>2 DEF QueueTrue
  <2>3. ASSUME NEW i \in DOMAIN judge.queue, judge.at + 1 <= i PROVE RowsOf(judge.queue[i])' = {}
    <3>1. i \in Nat /\ i # judge.at /\ judge.at <= i
      BY <1>2, <2>3
    <3>2. judge.queue[i] # s
      <4>1. PICK f \in [1 .. Cardinality(Eligibles) -> Eligibles] :
              /\ \A k, j \in 1 .. Cardinality(Eligibles) : k # j => f[k] # f[j]
              /\ \A k \in DOMAIN judge.queue : judge.queue[k] = f[k]
        BY <2>2 DEF SampleOf
      <4>2. Len(judge.queue) <= Cardinality(Eligibles) /\ Cardinality(Eligibles) \in Nat
        <5>1. Eligibles \in SUBSET Signals
          BY DEF Eligibles, AuditInv, AuditTyped
        <5>2. QED
          BY <2>2, <5>1, StratumAssumption, FS_Subset, FS_CardinalityType
             DEF SampleOf, StratumAssumption
      <4>3. i \in 1 .. Cardinality(Eligibles) /\ judge.at \in 1 .. Cardinality(Eligibles)
        BY <1>2, <1>3, <4>2
      <4>4. QED
        BY <1>3, <3>1, <4>1, <4>3
    <3>3. RowsOf(judge.queue[i]) = {}
      BY <1>2, <3>1 DEF QueueTrue
    <3>4. RowsOf(judge.queue[i])' = {r \in rows' : r.signal = judge.queue[i]}
      BY <1>14 DEF RowsOf
    <3>5. QED
      BY <1>1, <1>20, <1>6, <3>2, <3>3, <3>4 DEF RowsOf
  <2>4. QED
    BY <1>14, <2>1, <2>2, <2>3 DEF QueueTrue
<1>17. JudgeTrue'
  BY <1>1, <1>20, <1>13, <1>16 DEF AuditInv, JudgeTrue, Now
<1>18. CeilingHolds'
  BY <1>1 DEF AuditInv, CeilingHolds
<1>19. QED
  BY <1>7, <1>10, <1>12, <1>17, <1>18 DEF AuditInv

LEMMA AuditSteps == AuditInv /\ [AuditNext]_auditVars => AuditInv'
<1> SUFFICES ASSUME AuditInv, [AuditNext]_auditVars PROVE AuditInv'
  OBVIOUS
<1>1. CASE Start
  BY <1>1, StartKeeps
<1>2. CASE Skip
  BY <1>2, FinalizeKeeps DEF Skip, At, Statuses, Skips
<1>3. CASE Judging
  <2>1. CASE Assemble
    BY <2>1, StayKeeps
  <2>2. CASE StopOverBudget
    BY <2>2, FinalizeKeeps DEF StopOverBudget, At, Statuses, Skips
  <2>3. CASE LoseVerdicts
    BY <2>3, FailKeeps
  <2>4. CASE Release
    BY <2>4, ReleaseKeeps
  <2>5. CASE Finish
    BY <2>5, FinalizeKeeps DEF Finish, At, Statuses, Skips
  <2>6. ASSUME NEW cost \in Costs \cup {0}, JudgeAnswers(cost) PROVE AuditInv'
    BY <2>6, AnswerKeeps
  <2>7. CASE \E cost \in Costs \cup {0} : JudgeFails(cost)
    BY <2>7, FailKeeps
  <2>8. CASE \E check \in Checks : WriteVerdict(check)
    BY <2>8, StayKeeps
  <2>9. QED
    BY <1>3, <2>1, <2>2, <2>3, <2>4, <2>5, <2>6, <2>7, <2>8 DEF Judging
<1>4. CASE OperatorCommit
  BY <1>4, StayKeeps
<1>5. CASE Crash
  BY <1>5, CrashKeeps
<1>6. ASSUME NEW s \in Signals, Mint(s) PROVE AuditInv'
  BY <1>6, MintKeepsAudit
<1>7. ASSUME NEW limit \in 1 .. Cardinality(Signals), Sample(limit) PROVE AuditInv'
  BY <1>7, SampleKeeps
<1>8. CASE UNCHANGED auditVars
  <2>1. UNCHANGED <<stored, rows, runs, judge, bills>>
    BY <1>8 DEF auditVars
  <2>2. AuditTyped' /\ LedgerTrue' /\ CeilingHolds'
    BY <2>1 DEF AuditInv, AuditTyped, LedgerTrue, CeilingHolds, Now
  <2>3. AuditedOnceAndWhole'
    BY <2>1, SameRows DEF AuditInv
  <2>4. QueueTrue(judge)' <=> QueueTrue(judge)
    <3>1. /\ UNCHANGED Eligibles /\ \A s : RowsOf(s)' = RowsOf(s)
          /\ Now' = Now
      BY <2>1 DEF Eligibles, RowsOf, Now
    <3>2. QED
      BY <2>1, <3>1 DEF QueueTrue
  <2>5. JudgeTrue'
    BY <2>1, <2>4 DEF AuditInv, JudgeTrue, Now
  <2>6. QED
    BY <2>2, <2>3, <2>5 DEF AuditInv
<1>9. QED
  BY <1>1, <1>2, <1>3, <1>4, <1>5, <1>6, <1>7, <1>8 DEF AuditNext

LEMMA AuditStarts == AuditInit => AuditInv
<1> SUFFICES ASSUME AuditInit PROVE AuditInv
  OBVIOUS
<1>1. stored = {} /\ rows = {} /\ runs = <<>> /\ judge = Idle /\ bills = <<>>
  BY DEF AuditInit
<1>2. AuditTyped
  BY <1>1, FS_EmptySet DEF AuditTyped
<1>3. JudgeTrue /\ AuditedOnceAndWhole
  BY <1>1 DEF JudgeTrue, AuditedOnceAndWhole, RowsOf
<1>4. DOMAIN runs = {} /\ DOMAIN bills = {}
  BY <1>1
<1>5. LedgerTrue /\ CeilingHolds
  BY <1>4 DEF LedgerTrue, CeilingHolds
<1>6. QED
  BY <1>2, <1>3, <1>5 DEF AuditInv

LEMMA AuditHolds == AuditSpec => []AuditInv
  BY AuditStarts, AuditSteps, PTL DEF AuditSpec

(* A signal is judged by one run, with a verdict for every check, whatever  *)
(* is killed, refused or committed by the operator in between.              *)
THEOREM JudgedOnce == AuditSpec => []AuditedOnceAndWhole
<1>1. AuditInv => AuditedOnceAndWhole
  BY DEF AuditInv
<1>2. QED
  BY <1>1, AuditHolds, PTL

(* The row of a finished run says how many verdicts it left, and only the   *)
(* last run may read as running.                                            *)
THEOREM RunRowsTrue == AuditSpec => []LedgerTrue
<1>1. AuditInv => LedgerTrue
  BY DEF AuditInv
<1>2. QED
  BY <1>1, AuditHolds, PTL

(* No run pays more than the ceiling and the call that reached it.          *)
THEOREM SpendIsBounded == AuditSpec => []CeilingHolds
<1>1. AuditInv => CeilingHolds
  BY DEF AuditInv
<1>2. QED
  BY <1>1, AuditHolds, PTL

LEMMA LeastOf ==
    ASSUME NEW S \in SUBSET Nat, S # {}
    PROVE  \E m \in S : \A k \in S : m <= k
<1>1. \E m \in S : \A k \in S : ~ (<<k, m>> \in OpToRel(<, Nat))
  <2> HIDE DEF OpToRel
  <2>1. S \subseteq Nat
    OBVIOUS
  <2>2. QED
    BY <2>1, NatLessThanWellFounded, WFMin
<1>2. PICK m \in S : \A k \in S : ~ (<<k, m>> \in OpToRel(<, Nat))
  BY <1>1
<1>3. ASSUME NEW k \in S PROVE m <= k
  <2>1. k \in Nat /\ m \in Nat
    OBVIOUS
  <2>2. ~ (<<k, m>> \in OpToRel(<, Nat))
    BY <1>2
  <2>3. ~ (k < m)
    BY <2>1, <2>2 DEF OpToRel
  <2>4. QED
    BY <2>1, <2>3
<1>4. QED
  BY <1>3

LEMMA GreatestOf ==
    ASSUME NEW p \in Nat, NEW S \in SUBSET (1 .. p), S # {}
    PROVE  \E m \in S : \A k \in S : k <= m
<1> DEFINE T == {p - k : k \in S}
<1>1. T \in SUBSET Nat /\ T # {}
  <2>1. \A k \in S : p - k \in Nat
    OBVIOUS
  <2>2. QED
    BY <2>1
<1>2. PICK t \in T : \A u \in T : t <= u
  BY <1>1, LeastOf
<1>3. PICK m \in S : t = p - m
  BY <1>2
<1>4. ASSUME NEW k \in S PROVE k <= m
  <2>1. t <= p - k
    BY <1>2
  <2>2. QED
    BY <1>3, <2>1
<1>5. QED
  BY <1>4

(* A round over E, how many of a stratum it tries in its first p turns, and *)
(* how many of a stratum there are.                                         *)
IsRound(f, E, n) ==
    /\ n \in Nat /\ n = Cardinality(E) /\ f \in [1 .. n -> E]
    /\ \A i, j \in 1 .. n : i # j => f[i] # f[j]
    /\ RoundRobin(f)

TriedIn(f, p, z) == Cardinality({i \in 1 .. p : Stratum[f[i]] = z})
AllOf(E, z) == Cardinality({s \in E : Stratum[s] = z})

(* The round-robin argument, for any round over any set and any point at    *)
(* which it stops.                                                          *)
LEMMA RoundsAreFair ==
    ASSUME NEW E, NEW n, NEW f, NEW p, NEW x, NEW y,
           IsFiniteSet(E), IsRound(f, E, n), p \in 0 .. n, TriedIn(f, p, x) < AllOf(E, x)
    PROVE  TriedIn(f, p, y) <= TriedIn(f, p, x) + 1
<1>0. /\ n \in Nat /\ n = Cardinality(E) /\ f \in [1 .. n -> E] /\ p \in Nat /\ p <= n
      /\ \A i, j \in 1 .. n : i # j => f[i] # f[j]
      /\ RoundRobin(f)
      /\ Cardinality({i \in 1 .. p : Stratum[f[i]] = x}) < Cardinality({s \in E : Stratum[s] = x})
  BY DEF IsRound, TriedIn, AllOf
<1> DEFINE Of(z) == {i \in 1 .. p : Stratum[f[i]] = z}
           Ex == {s \in E : Stratum[s] = x}
<1>1. \A z : /\ IsFiniteSet(Of(z)) /\ Cardinality(Of(z)) \in Nat
             /\ Of(z) \in SUBSET (1 .. p)
  <2>1. IsFiniteSet(1 .. p) /\ \A z : Of(z) \in SUBSET (1 .. p)
    BY <1>0, FS_Interval
  <2> HIDE DEF Of
  <2>2. QED
    BY <2>1, FS_Subset, FS_CardinalityType
<1>2. \E s \in Ex : \A i \in 1 .. p : f[i] # s
  <2>1. SUFFICES ASSUME \A s \in Ex : \E i \in 1 .. p : f[i] = s PROVE FALSE
    OBVIOUS
  <2> DEFINE g == [i \in Of(x) |-> f[i]]
  <2>2. g \in [Of(x) -> Ex]
    BY <1>0
  <2>3. \A s \in Ex : \E i \in Of(x) : g[i] = s
    BY <2>1
  <2> HIDE DEF g, Of, Ex
  <2>4. g \in Surjection(Of(x), Ex)
    BY <2>2, <2>3, Fun_IsSurj
  <2>5. IsFiniteSet(Ex) /\ Cardinality(Ex) <= Cardinality(Of(x))
    BY <1>1, <2>4, FS_Surjection
  <2>6. Cardinality(Ex) \in Nat
    BY <2>5, FS_CardinalityType
  <2>7. Cardinality(Of(x)) < Cardinality(Ex)
    BY <1>0 DEF Of, Ex
  <2>8. QED
    BY <1>1, <2>5, <2>6, <2>7
<1>3. \A s \in E : \E i \in 1 .. n : f[i] = s
  <2>1. f \in Injection(1 .. n, E)
    BY <1>0, Fun_IsInj
  <2>2. Cardinality(1 .. n) = n
    BY <1>0, FS_Interval
  <2>3. f \in Surjection(1 .. n, E)
    BY <1>0, <2>1, <2>2, FS_Injection
  <2>4. QED
    BY <2>3 DEF Surjection
<1> DEFINE Later == {k \in 1 .. n : p < k /\ Stratum[f[k]] = x}
<1>4. Later # {}
  BY <1>0, <1>2, <1>3
<1>5. PICK k \in Later : \A j \in Later : k <= j
  <2>1. Later \in SUBSET Nat
    OBVIOUS
  <2>2. QED
    BY <1>4, <2>1, LeastOf
<1>6. Before(f, k) = Cardinality(Of(x))
  <2>1. \A j \in 1 .. k - 1 : Stratum[f[j]] = x => j <= p
    BY <1>0, <1>5
  <2>2. {j \in 1 .. k - 1 : Stratum[f[j]] = Stratum[f[k]]} = Of(x)
    BY <1>0, <1>5, <2>1
  <2>3. QED
    BY <2>2 DEF Before
<1>7. PICK cx \in Nat, cy \in Nat : cx = Cardinality(Of(x)) /\ cy = Cardinality(Of(y))
  BY <1>1
<1>8. SUFFICES ASSUME cy > cx + 1 PROVE FALSE
  <2>1. cy <= cx + 1
    BY <1>7, <1>8
  <2>2. QED
    BY <1>7, <2>1 DEF TriedIn
<1>9. Of(y) # {}
  <2>1. cy # 0
    BY <1>7, <1>8
  <2> HIDE DEF Of
  <2>2. QED
    BY <1>7, <2>1, FS_EmptySet
<1>10. PICK j \in Of(y) : \A i \in Of(y) : i <= j
  <2> HIDE DEF Of
  <2>1. p \in Nat
    BY <1>0
  <2>2. QED
    BY <1>1, <1>9, <2>1, GreatestOf
<1>11. Before(f, j) = cy - 1
  <2>1. {i \in 1 .. j - 1 : Stratum[f[i]] = Stratum[f[j]]} = Of(y) \ {j}
    BY <1>0, <1>10
  <2>2. Cardinality(Of(y) \ {j}) = cy - 1
    <3> HIDE DEF Of
    <3>1. QED
      BY <1>1, <1>7, <1>10, FS_RemoveElement
  <2>3. QED
    BY <2>1, <2>2 DEF Before
<1>12. Before(f, k) = cx
  BY <1>6, <1>7
<1>13. j < k /\ j \in DOMAIN f /\ k \in DOMAIN f
  BY <1>0, <1>5, <1>10
<1>14. Before(f, j) < Before(f, k) \/ Before(f, j) = Before(f, k)
  BY <1>0, <1>13 DEF RoundRobin
<1>15. cy - 1 < cx \/ cy - 1 = cx
  BY <1>11, <1>12, <1>14
<1>16. QED
  BY <1>7, <1>8, <1>15

(* Wherever the ceiling, a kill or a failure stops a run, no stratum with   *)
(* signals left is two behind another.                                      *)
THEOREM StrataShareTheBudget == AuditSpec => []SpreadsOverStrata
<1>1. ASSUME AuditInv PROVE SpreadsOverStrata
  <2>1. SUFFICES ASSUME judge # Idle, NEW i \in DOMAIN judge.queue, NEW j \in DOMAIN judge.queue,
                        Tried(Stratum[judge.queue[i]])
                          < Cardinality(Eligible(Stratum[judge.queue[i]]))
                 PROVE  Tried(Stratum[judge.queue[j]]) <= Tried(Stratum[judge.queue[i]]) + 1
    BY DEF SpreadsOverStrata
  <2> DEFINE x == Stratum[judge.queue[i]]
             y == Stratum[judge.queue[j]]
  <2>2. /\ QueueTrue(judge) /\ judge.queue \in Seq(Signals) /\ Len(judge.queue) \in Nat
        /\ judge.at \in Nat \ {0}
    BY <1>1, <2>1, JudgeTypes
  <2>3. judge.pc # "sampling"
    BY <2>1, <2>2 DEF QueueTrue
  <2>4. SampleOf(judge.queue, Eligibles) /\ judge.at <= Len(judge.queue) + 1
    BY <2>2, <2>3 DEF QueueTrue
  <2>5. IsFiniteSet(Eligibles)
    <3>1. Eligibles \in SUBSET Signals
      BY <1>1 DEF Eligibles, AuditInv, AuditTyped
    <3>2. QED
      BY <3>1, StratumAssumption, FS_Subset DEF StratumAssumption
  <2>6. PICK n \in Nat : n = Cardinality(Eligibles)
    BY <2>5, FS_CardinalityType
  <2>7. PICK f : /\ IsRound(f, Eligibles, n)
                /\ \A k \in DOMAIN judge.queue : judge.queue[k] = f[k]
    BY <2>4, <2>6 DEF SampleOf, IsRound
  <2>8. PICK p \in 0 .. n : p = judge.at - 1 /\ p <= Len(judge.queue)
    <3>1. Len(judge.queue) <= n
      BY <2>4, <2>6 DEF SampleOf
    <3>2. QED
      BY <2>2, <2>4, <3>1
  <2>9. \A z : Tried(z) = TriedIn(f, p, z)
    <3>1. ASSUME NEW k \in 1 .. p PROVE judge.queue[k] = f[k]
      <4>1. k \in DOMAIN judge.queue
        BY <2>2, <2>8
      <4>2. QED
        BY <2>7, <4>1
    <3>2. \A z : {k \in 1 .. judge.at - 1 : Stratum[judge.queue[k]] = z}
                 = {k \in 1 .. p : Stratum[f[k]] = z}
      BY <2>8, <3>1
    <3>3. QED
      BY <3>2 DEF Tried, TriedIn
  <2>10. \A z : Cardinality(Eligible(z)) = AllOf(Eligibles, z)
    <3>1. \A z : Eligible(z) = {s \in Eligibles : Stratum[s] = z}
      BY DEF Eligible, Eligibles
    <3>2. QED
      BY <3>1 DEF AllOf
  <2> HIDE DEF x, y
  <2>11. TriedIn(f, p, x) < AllOf(Eligibles, x)
    BY <2>1, <2>9, <2>10 DEF x
  <2>12. TriedIn(f, p, y) <= TriedIn(f, p, x) + 1
    BY <2>5, <2>7, <2>8, <2>11, RoundsAreFair
  <2>13. QED
    BY <2>9, <2>12 DEF x, y
<1>2. QED
  BY <1>1, AuditHolds, PTL

---------------------------------------------------------------------------
(* The precision ledger.  What the two tables hold, for the statistics.     *)
RatedRows ==
    [signal : Cards, verdict : Positive \cup Negative,
     reason : {a.reason : a \in {b \in Asks : b.kind = "feedback"}}, day : 0 .. LastDay]
JudgedRows == [signal : Cards, check : AutoChecks, result : Results, day : 0 .. LastDay]

LedgerTyped ==
    /\ WritesTypeOK
    /\ day \in 0 .. LastDay
    /\ feedback \in Seq(RatedRows)
    /\ audit \in Seq(JudgedRows)
    /\ filed = [m \in Months |-> filed[m]]

(* A step leaves the ratings alone or adds one, of today.                   *)
LEMMA RatingsGrow ==
    ASSUME LedgerTyped, [Next]_vars
    PROVE  \/ feedback' = feedback
           \/ \E row \in RatedRows : row.day = day /\ feedback' = Append(feedback, row)
  <1> USE LedgerAssumption DEF LedgerAssumption
  <1>0. WriteOrQuiet
    BY StepsWrite
  <1>1. CASE Commit
    <2> DEFINE a == write.ask
               all == {Statements(a)[i] : i \in DOMAIN Statements(a)}
    <2>1. a \in Asks /\ Apply(a, all)
      BY <1>1, CommitWhole DEF LedgerTyped
    <2>2. CASE a.kind = "feedback"
      <3> DEFINE row == [signal |-> a.signal, verdict |-> a.verdict, reason |-> a.reason, day |-> day]
      <3>1. all = {"feedback"}
        BY <2>1, <2>2, StatementFacts
      <3>2. feedback' = Append(feedback, row)
        BY <2>1, <3>1 DEF Apply
      <3>3. a.signal \in Cards /\ a.verdict \in Positive \cup Negative
        BY <2>1, <2>2
      <3>4. a.reason \in {b.reason : b \in {c \in Asks : c.kind = "feedback"}}
        BY <2>1, <2>2
      <3>5. row \in RatedRows /\ row.day = day
        BY <3>3, <3>4 DEF RatedRows, LedgerTyped
      <3>6. QED
        BY <3>2, <3>5
    <2>3. CASE a.kind # "feedback"
      <3>1. "feedback" \notin all
        BY <2>1, <2>3, StatementFacts
      <3>2. QED
        BY <2>1, <3>1 DEF Apply
    <2>4. QED
      BY <2>2, <2>3
  <1>2. CASE ~Commit
    <2>1. feedback' = feedback
      BY <1>0, <1>2 DEF WriteOrQuiet, WritesNext, WriteStep, Click, Execute, Busy, WebDies,
                RunInserts, RunCommits, Tick, Quiet, tables, writeVars
    <2>2. QED
      BY <2>1
  <1>3. QED
    BY <1>1, <1>2

(* A step leaves the verdicts alone or adds the two of a card, of today.    *)
LEMMA VerdictsGrow ==
    ASSUME LedgerTyped, [Next]_vars
    PROVE  \/ audit' = audit
           \/ \E x, y \in JudgedRows : x.day = day /\ y.day = day /\ audit' = audit \o <<x, y>>
  <1> USE LedgerAssumption DEF LedgerAssumption
  <1>1. ASSUME NEW c \in Sampled, NEW v \in Verdicts, AuditCommits(c, v)
        PROVE  \E x, y \in JudgedRows : x.day = day /\ y.day = day /\ audit' = audit \o <<x, y>>
    <2> DEFINE x == [signal |-> c, check |-> "entity_match", result |-> v.entity_match, day |-> day]
               y == [signal |-> c, check |-> "evidence_support", result |-> v.evidence_support,
                     day |-> day]
    <2>1. c \in Cards /\ v.entity_match \in Results /\ v.evidence_support \in Results
      OBVIOUS
    <2>2. x \in JudgedRows /\ y \in JudgedRows
      BY <2>1 DEF JudgedRows, AutoChecks, LedgerTyped
    <2>3. audit' = audit \o <<x, y>>
      BY <1>1 DEF AuditCommits
    <2>4. x.day = day /\ y.day = day
      OBVIOUS
    <2>5. QED
      BY <2>2, <2>3, <2>4
  <1>2. CASE ~ \E c \in Sampled, v \in Verdicts : AuditCommits(c, v)
    BY <1>2 DEF Next, Retier, FileReport, vars
  <1>3. QED
    BY <1>1, <1>2

(* The clock goes a day at a time.                                          *)
LEMMA ClockGoes == ASSUME LedgerTyped, [Next]_vars PROVE day' \in {day, day + 1} \cap 0 .. LastDay
  <1>1. CASE Tick
    BY <1>1 DEF Tick, LedgerTyped
  <1>2. CASE ~Tick
    <2>1. day' = day
      BY <1>2, StepsWrite DEF WriteOrQuiet, WritesNext, WriteStep, Click, Execute, Commit, Busy,
         WebDies, RunInserts, RunCommits, Quiet, writeVars
    <2>2. QED
      BY <2>1 DEF LedgerTyped
  <1>3. QED
    BY <1>1, <1>2

LEMMA LedgerTypes == Spec => []LedgerTyped
<1>1. Init => LedgerTyped
  <2> SUFFICES ASSUME Init PROVE LedgerTyped
    OBVIOUS
  <2>1. WritesTypeOK
    BY DEF Init, WritesInit, WritesTypeOK
  <2>2. filed = [m \in Months |-> filed[m]]
    BY DEF Init
  <2>3. feedback = <<>> /\ audit = <<>> /\ day = 0
    BY DEF Init, WritesInit
  <2>4. QED
    BY <2>1, <2>2, <2>3, EmptySeq DEF LedgerTyped
<1>2. LedgerTyped /\ WritesTypeOK' /\ [Next]_vars => LedgerTyped'
  <2> SUFFICES ASSUME LedgerTyped, WritesTypeOK', [Next]_vars PROVE LedgerTyped'
    OBVIOUS
  <2>1. day' \in 0 .. LastDay
    BY ClockGoes
  <2>2. feedback' \in Seq(RatedRows)
    <3>1. feedback \in Seq(RatedRows)
      BY DEF LedgerTyped
    <3>2. \A row \in RatedRows : Append(feedback, row) \in Seq(RatedRows)
      BY <3>1, AppendProperties
    <3>3. QED
      BY <3>1, <3>2, RatingsGrow
  <2>3. audit' \in Seq(JudgedRows)
    <3>1. ASSUME NEW x \in JudgedRows, NEW y \in JudgedRows PROVE audit \o <<x, y>> \in Seq(JudgedRows)
      BY ConcatProperties DEF LedgerTyped
    <3>2. QED
      BY <3>1, VerdictsGrow DEF LedgerTyped
  <2>4. filed' = [m \in Months |-> filed'[m]]
    <3>1. CASE FileReport
      BY <3>1 DEF FileReport, LedgerTyped
    <3>2. CASE ~FileReport
      BY <3>2 DEF Next, AuditCommits, Retier, vars, LedgerTyped
    <3>3. QED
      BY <3>1, <3>2
  <2>5. QED
    BY <2>1, <2>2, <2>3, <2>4 DEF LedgerTyped
<1>3. QED
  BY <1>1, <1>2, WritesTypeCorrect, PTL DEF Spec

---------------------------------------------------------------------------
(* The monthly record.  Rows that agree but for the tier of their card give *)
(* the same record, and the rows of a month that is over are no longer      *)
(* added to.                                                                *)
IsRows(table) == \E n \in Nat : DOMAIN table \in SUBSET (1 .. n)

CardColumns     == {"signal", "trigger", "source", "scope"}
FeedbackColumns == CardColumns \cup {"verdict", "reason"}
AuditColumns    == CardColumns \cup {"check", "result"}

Alike(columns, r, s) ==
    /\ IsRows(r) /\ DOMAIN r = DOMAIN s
    /\ \A i \in DOMAIN r : \A key \in columns : r[i][key] = s[i][key]

LEMMA LatestIs ==
    ASSUME NEW table, IsRows(table), DOMAIN table # {}
    PROVE  /\ Max(DOMAIN table) \in DOMAIN table
           /\ \A i \in DOMAIN table : i <= Max(DOMAIN table)
<1>1. PICK n \in Nat : DOMAIN table \in SUBSET (1 .. n)
  BY DEF IsRows
<1> DEFINE S == DOMAIN table
<1>2. S \in SUBSET (1 .. n) /\ S # {}
  BY <1>1
<1> HIDE DEF S
<1>3. \E m \in S : \A k \in S : k <= m
  BY <1>2, GreatestOf
<1>4. \E m \in S : \A k \in S : m >= k
  BY <1>2, <1>3
<1>5. Max(S) \in S /\ \A k \in S : Max(S) >= k
  BY <1>4 DEF Max
<1>6. QED
  BY <1>2, <1>5 DEF S

(* A selection of places that are the same in both.                         *)
LEMMA PickedAlike ==
    ASSUME NEW columns, NEW r, NEW s, Alike(columns, r, s), NEW D \in SUBSET DOMAIN r
    PROVE  Alike(columns, [i \in D |-> r[i]], [i \in D |-> s[i]])
<1>1. \E n \in Nat : D \in SUBSET (1 .. n)
  BY DEF Alike, IsRows
<1>2. QED
  BY <1>1 DEF Alike, IsRows

(* A selection by columns that agree picks the same places.                 *)
LEMMA HavingAlike ==
    ASSUME NEW columns, NEW r, NEW s, Alike(columns, r, s), NEW key \in columns, NEW v
    PROVE  Alike(columns, Having(r, key, v), Having(s, key, v))
<1> DEFINE D == {i \in DOMAIN r : r[i][key] = v}
<1>1. D = {i \in DOMAIN s : s[i][key] = v}
  BY DEF Alike
<1>2. Having(r, key, v) = [i \in D |-> r[i]] /\ Having(s, key, v) = [i \in D |-> s[i]]
  BY <1>1 DEF Having, RestrictValues, Restrict
<1>3. D \in SUBSET DOMAIN r
  OBVIOUS
<1> HIDE DEF D
<1>4. QED
  BY <1>2, <1>3, PickedAlike

LEMMA RatedAlike ==
    ASSUME NEW r, NEW s, Alike(FeedbackColumns, r, s)
    PROVE  Alike(FeedbackColumns, RestrictValues(r, IsRated), RestrictValues(s, IsRated))
<1> DEFINE D == {i \in DOMAIN r : IsRated(r[i])}
<1>0. \A i \in DOMAIN r : r[i]["verdict"] = s[i]["verdict"]
  BY DEF Alike, FeedbackColumns
<1>1. D = {i \in DOMAIN s : IsRated(s[i])}
  BY <1>0 DEF Alike, IsRated, IsPositive, IsNegative
<1>2. RestrictValues(r, IsRated) = [i \in D |-> r[i]] /\ RestrictValues(s, IsRated) = [i \in D |-> s[i]]
  BY <1>1 DEF RestrictValues, Restrict
<1>3. D \in SUBSET DOMAIN r
  OBVIOUS
<1> HIDE DEF D
<1>4. QED
  BY <1>2, <1>3, PickedAlike

LEMMA ScoredAlike ==
    ASSUME NEW r, NEW s, Alike(AuditColumns, r, s)
    PROVE  Alike(AuditColumns, RestrictValues(r, IsScored), RestrictValues(s, IsScored))
<1> DEFINE D == {i \in DOMAIN r : IsScored(r[i])}
<1>0. \A i \in DOMAIN r : r[i]["check"] = s[i]["check"] /\ r[i]["result"] = s[i]["result"]
  BY DEF Alike, AuditColumns
<1>1. D = {i \in DOMAIN s : IsScored(s[i])}
  BY <1>0 DEF Alike, IsScored, IsObjective
<1>2. RestrictValues(r, IsScored) = [i \in D |-> r[i]] /\ RestrictValues(s, IsScored) = [i \in D |-> s[i]]
  BY <1>1 DEF RestrictValues, Restrict
<1>3. D \in SUBSET DOMAIN r
  OBVIOUS
<1> HIDE DEF D
<1>4. QED
  BY <1>2, <1>3, PickedAlike

LEMMA ValuesAlike ==
    ASSUME NEW columns, NEW r, NEW s, Alike(columns, r, s), NEW key \in columns
    PROVE  ValuesOf(r, key) = ValuesOf(s, key)
  BY DEF Alike, ValuesOf

LEMMA UsefulAlike ==
    ASSUME NEW r, NEW s, Alike(FeedbackColumns, r, s)
    PROVE  UsefulRate(r) = UsefulRate(s)
<1>0. DOMAIN r = DOMAIN s /\ \A i \in DOMAIN r : r[i]["verdict"] = s[i]["verdict"]
  BY DEF Alike, FeedbackColumns
<1>1. {i \in DOMAIN r : IsPositive(r[i])} = {i \in DOMAIN s : IsPositive(s[i])}
  BY <1>0 DEF IsPositive
<1>2. {i \in DOMAIN r : IsRated(r[i])} = {i \in DOMAIN s : IsRated(s[i])}
  BY <1>0 DEF IsRated, IsPositive, IsNegative
<1>3. QED
  BY <1>1, <1>2 DEF UsefulRate, Count

LEMMA AccuracyAlike ==
    ASSUME NEW r, NEW s, Alike(AuditColumns, r, s)
    PROVE  Accuracy(r) = Accuracy(s)
<1>0. DOMAIN r = DOMAIN s /\ \A i \in DOMAIN r : r[i]["check"] = s[i]["check"] /\ r[i]["result"] = s[i]["result"]
  BY DEF Alike, AuditColumns
<1>1. {i \in DOMAIN r : IsCorrect(r[i])} = {i \in DOMAIN s : IsCorrect(s[i])}
  BY <1>0 DEF IsCorrect, IsScored, IsObjective
<1>2. {i \in DOMAIN r : IsScored(r[i])} = {i \in DOMAIN s : IsScored(s[i])}
  BY <1>0 DEF IsScored, IsObjective
<1>3. QED
  BY <1>1, <1>2 DEF Accuracy, Count

LEMMA UsefulByAlike ==
    ASSUME NEW r, NEW s, Alike(FeedbackColumns, r, s), NEW key \in CardColumns
    PROVE  UsefulRateBy(r, key) = UsefulRateBy(s, key)
<1> DEFINE p == RestrictValues(r, IsRated)
           q == RestrictValues(s, IsRated)
<1>1. Alike(FeedbackColumns, p, q) /\ key \in FeedbackColumns
  BY RatedAlike DEF FeedbackColumns
<1> HIDE DEF p, q
<1>2. ValuesOf(p, key) = ValuesOf(q, key)
  BY <1>1, ValuesAlike
<1>3. ASSUME NEW v PROVE UsefulRate(Having(p, key, v)) = UsefulRate(Having(q, key, v))
  BY <1>1, HavingAlike, UsefulAlike
<1>4. [v \in ValuesOf(p, key) |-> UsefulRate(Having(p, key, v))]
        = [v \in ValuesOf(q, key) |-> UsefulRate(Having(q, key, v))]
  BY <1>2, <1>3
<1>5. QED
  BY <1>4 DEF UsefulRateBy, p, q

LEMMA AccuracyByAlike ==
    ASSUME NEW r, NEW s, Alike(AuditColumns, r, s), NEW key \in CardColumns
    PROVE  AccuracyBy(r, key) = AccuracyBy(s, key)
<1> DEFINE p == RestrictValues(r, IsScored)
           q == RestrictValues(s, IsScored)
<1>1. Alike(AuditColumns, p, q) /\ key \in AuditColumns
  BY ScoredAlike DEF AuditColumns
<1> HIDE DEF p, q
<1>2. ValuesOf(p, key) = ValuesOf(q, key)
  BY <1>1, ValuesAlike
<1>3. ASSUME NEW v PROVE Accuracy(Having(p, key, v)) = Accuracy(Having(q, key, v))
  BY <1>1, HavingAlike, AccuracyAlike
<1>4. [v \in ValuesOf(p, key) |-> Accuracy(Having(p, key, v))]
        = [v \in ValuesOf(q, key) |-> Accuracy(Having(q, key, v))]
  BY <1>2, <1>3
<1>5. QED
  BY <1>4 DEF AccuracyBy, p, q

LEMMA ReasonsAlike ==
    ASSUME NEW r, NEW s, Alike(FeedbackColumns, r, s)
    PROVE  ReasonCodes(r) = ReasonCodes(s)
<1> DEFINE D == {i \in DOMAIN r : IsNegative(r[i]) /\ r[i].reason # None}
           p == [i \in D |-> r[i]]
           q == [i \in D |-> s[i]]
<1>0. DOMAIN r = DOMAIN s
      /\ \A i \in DOMAIN r : r[i]["verdict"] = s[i]["verdict"] /\ r[i]["reason"] = s[i]["reason"]
  BY DEF Alike, FeedbackColumns
<1>1. D = {i \in DOMAIN s : IsNegative(s[i]) /\ s[i].reason # None}
  BY <1>0 DEF IsNegative
<1>2. /\ ReasonCodes(r) = [c \in ValuesOf(p, "reason") |-> Cardinality(DOMAIN Having(p, "reason", c))]
      /\ ReasonCodes(s) = [c \in ValuesOf(q, "reason") |-> Cardinality(DOMAIN Having(q, "reason", c))]
  BY <1>1 DEF ReasonCodes, RestrictValues, Restrict
<1>3. Alike(FeedbackColumns, p, q)
  BY PickedAlike
<1>4. "reason" \in FeedbackColumns
  BY DEF FeedbackColumns
<1> HIDE DEF p, q, D
<1>5. ValuesOf(p, "reason") = ValuesOf(q, "reason")
  BY <1>3, <1>4, ValuesAlike
<1>6. ASSUME NEW c PROVE DOMAIN Having(p, "reason", c) = DOMAIN Having(q, "reason", c)
  <2>1. Alike(FeedbackColumns, Having(p, "reason", c), Having(q, "reason", c))
    BY <1>3, <1>4, HavingAlike
  <2>2. QED
    BY <2>1 DEF Alike
<1>7. QED
  BY <1>2, <1>5, <1>6

LEMMA CellAlike ==
    ASSUME NEW r, NEW s, Alike(FeedbackColumns, r, s)
    PROVE  G2Cell(r) = G2Cell(s)
  BY UsefulAlike, ReasonsAlike DEF G2Cell

LEMMA StatusAlike ==
    ASSUME NEW r, NEW s, Alike(FeedbackColumns, r, s)
    PROVE  G2Status(r) = G2Status(s)
<1> DEFINE p == RestrictValues(r, IsRated)
           q == RestrictValues(s, IsRated)
<1>1. Alike(FeedbackColumns, p, q) /\ "source" \in FeedbackColumns
  BY RatedAlike DEF FeedbackColumns, CardColumns
<1>2. /\ G2Status(r) = [x \in ValuesOf(p, "source") |-> G2Cell(Having(p, "source", x))]
      /\ G2Status(s) = [x \in ValuesOf(q, "source") |-> G2Cell(Having(q, "source", x))]
  BY DEF G2Status
<1> HIDE DEF p, q
<1>3. ValuesOf(p, "source") = ValuesOf(q, "source")
  BY <1>1, ValuesAlike
<1>4. ASSUME NEW x PROVE G2Cell(Having(p, "source", x)) = G2Cell(Having(q, "source", x))
  BY <1>1, HavingAlike, CellAlike
<1>5. QED
  BY <1>2, <1>3, <1>4

LEMMA HumanAlike ==
    ASSUME NEW r, NEW s, Alike(FeedbackColumns, r, s)
    PROVE  Human(r) = Human(s)
<1> DEFINE p == RestrictValues(r, IsRated)
           q == RestrictValues(s, IsRated)
           Said(table, x) == IF IsPositive(Latest(Having(table, "signal", x))) THEN "positive" ELSE "negative"
<1>1. Alike(FeedbackColumns, p, q) /\ "signal" \in FeedbackColumns /\ "verdict" \in FeedbackColumns
  BY RatedAlike DEF FeedbackColumns, CardColumns
<1>2. /\ Human(r) = [x \in ValuesOf(p, "signal") |-> Said(p, x)]
      /\ Human(s) = [x \in ValuesOf(q, "signal") |-> Said(q, x)]
  BY DEF Human
<1> HIDE DEF p, q
<1>3. ValuesOf(p, "signal") = ValuesOf(q, "signal")
  BY <1>1, ValuesAlike
<1>4. ASSUME NEW x \in ValuesOf(p, "signal") PROVE Said(p, x) = Said(q, x)
  <2> DEFINE P == Having(p, "signal", x)
             Q == Having(q, "signal", x)
  <2>1. Alike(FeedbackColumns, P, Q)
    BY <1>1, HavingAlike
  <2>2. DOMAIN P # {}
    BY DEF Having, RestrictValues, Restrict, ValuesOf
  <2> HIDE DEF P, Q
  <2>3. Max(DOMAIN P) \in DOMAIN P /\ DOMAIN P = DOMAIN Q
    BY <2>1, <2>2, LatestIs DEF Alike
  <2>4. Latest(P)["verdict"] = Latest(Q)["verdict"]
    BY <1>1, <2>1, <2>3 DEF Alike, Latest
  <2>5. IsPositive(Latest(P)) = IsPositive(Latest(Q))
    BY <2>4 DEF IsPositive
  <2>6. QED
    BY <2>5 DEF P, Q
<1> HIDE DEF Said
<1>5. QED
  BY <1>2, <1>3, <1>4

LEMMA JudgedAlike ==
    ASSUME NEW r, NEW s, Alike(AuditColumns, r, s)
    PROVE  Judged(r) = Judged(s) /\ JudgeNegative(r) = JudgeNegative(s)
<1>0. DOMAIN r = DOMAIN s
      /\ \A i \in DOMAIN r : /\ r[i]["check"] = s[i]["check"] /\ r[i]["result"] = s[i]["result"]
                             /\ r[i]["signal"] = s[i]["signal"]
  BY DEF Alike, AuditColumns, CardColumns
<1>1. \A x : x \in Judged(r) <=> \E i \in DOMAIN r : IsObjective(r[i]) /\ r[i].signal = x
  BY DEF Judged, ValuesOf, RestrictValues, Restrict
<1>2. \A x : x \in Judged(s) <=> \E i \in DOMAIN s : IsObjective(s[i]) /\ s[i].signal = x
  BY DEF Judged, ValuesOf, RestrictValues, Restrict
<1>3. \A x : x \in JudgeNegative(r) <=>
               \E i \in DOMAIN r : IsObjective(r[i]) /\ r[i].result = "fail" /\ r[i].signal = x
  BY DEF JudgeNegative, ValuesOf, RestrictValues, Restrict
<1>4. \A x : x \in JudgeNegative(s) <=>
               \E i \in DOMAIN s : IsObjective(s[i]) /\ s[i].result = "fail" /\ s[i].signal = x
  BY DEF JudgeNegative, ValuesOf, RestrictValues, Restrict
<1>5. \A i \in DOMAIN r : IsObjective(r[i]) <=> IsObjective(s[i])
  BY <1>0 DEF IsObjective
<1>6. \A x : x \in Judged(r) <=> x \in Judged(s)
  BY <1>0, <1>1, <1>2, <1>5
<1>7. \A x : x \in JudgeNegative(r) <=> x \in JudgeNegative(s)
  BY <1>0, <1>3, <1>4, <1>5
<1>8. QED
  BY <1>6, <1>7

LEMMA SourceAlike ==
    ASSUME NEW r, NEW s, Alike(AuditColumns, r, s), NEW x
    PROVE  SourceOfJudged(r, x) = SourceOfJudged(s, x)
<1> DEFINE D == {i \in DOMAIN r : IsObjective(r[i]) /\ r[i].signal = x /\ r[i].source # None}
           p == [i \in D |-> r[i]]
           q == [i \in D |-> s[i]]
<1>0. DOMAIN r = DOMAIN s
      /\ \A i \in DOMAIN r : /\ r[i]["check"] = s[i]["check"] /\ r[i]["source"] = s[i]["source"]
                             /\ r[i]["signal"] = s[i]["signal"]
  BY DEF Alike, AuditColumns, CardColumns
<1>1. D = {i \in DOMAIN s : IsObjective(s[i]) /\ s[i].signal = x /\ s[i].source # None}
  BY <1>0 DEF IsObjective
<1>2. /\ SourceOfJudged(r, x) = IF DOMAIN p = {} THEN None ELSE Latest(p).source
      /\ SourceOfJudged(s, x) = IF DOMAIN q = {} THEN None ELSE Latest(q).source
  BY <1>1 DEF SourceOfJudged, RestrictValues, Restrict
<1>3. Alike(AuditColumns, p, q) /\ "source" \in AuditColumns
  BY PickedAlike DEF AuditColumns, CardColumns
<1> HIDE DEF p, q, D
<1>4. CASE DOMAIN p # {}
  <2>1. Max(DOMAIN p) \in DOMAIN p /\ DOMAIN p = DOMAIN q
    BY <1>3, <1>4, LatestIs DEF Alike
  <2>2. Latest(p)["source"] = Latest(q)["source"]
    BY <1>3, <2>1 DEF Alike, Latest
  <2>3. QED
    BY <1>2, <2>1, <2>2
<1>5. CASE DOMAIN p = {}
  BY <1>2, <1>3, <1>5 DEF Alike
<1>6. QED
  BY <1>4, <1>5

LEMMA DisagreementAlike ==
    ASSUME NEW a, NEW b, Alike(AuditColumns, a, b), NEW r, NEW s, Alike(FeedbackColumns, r, s)
    PROVE  DisagreementBySource(a, r) = DisagreementBySource(b, s)
<1>1. Human(r) = Human(s) /\ Judged(a) = Judged(b) /\ JudgeNegative(a) = JudgeNegative(b)
  BY HumanAlike, JudgedAlike
<1>2. \A x : SourceOfJudged(a, x) = SourceOfJudged(b, x)
  BY SourceAlike
<1> DEFINE human == Human(r)
           both == Judged(a) \cap DOMAIN human
           Where(x) == {y \in both : SourceOfJudged(a, y) = x}
           Against(x) == {y \in Where(x) : (y \in JudgeNegative(a)) # (human[y] = "negative")}
           D == [x \in {SourceOfJudged(a, y) : y \in both} |->
                   Ratio(Cardinality(Against(x)), Cardinality(Where(x)))]
<1>3. DisagreementBySource(a, r) = D
  BY DEF DisagreementBySource, Disagrees
<1>4. DisagreementBySource(b, s) = D
  BY <1>1, <1>2 DEF DisagreementBySource, Disagrees
<1>5. QED
  BY <1>3, <1>4

(* The record of a month, from the month's own rows: with the waiver of     *)
(* gate G1 on, nothing else of the tables is in it.                         *)
GatedOf(fb, au) == G2Gated(G2Status(fb), DisagreementBySource(au, fb))

SpotOf(fb, au) ==
    LET n == Cardinality(Judged(au))
    IN  <<Cardinality(Judged(au) \cap DOMAIN Human(fb)),
          IF n = 0 THEN SpotFloor ELSE AtLeast(SpotFloor, AtMost(SpotAbs, CeilPct(SpotPct, n)))>>

RecordOf(fb, au) ==
    LET real == DOMAIN GatedOf(fb, au) \ {None}
    IN  [useful |-> UsefulRate(fb), auto |-> Accuracy(au), g1 |-> "waived",
         demote |-> Cardinality({x \in real : GatedOf(fb, au)[x].demote}), of |-> Cardinality(real),
         spot |-> SpotOf(fb, au),
         lines |-> [k \in ReportDimensions |-> <<UsefulRateBy(fb, k), AccuracyBy(au, k)>>]]

LEMMA MonthsAre ==
    /\ \A m \in Nat : Month(MonthEnd(m)) = m
    /\ \A d \in Nat : Month(d) \in Nat /\ Month(d) <= Month(d + 1)
<1>0. DaysPerMonth \in Nat \ {0}
  BY LedgerAssumption DEF LedgerAssumption
<1>1. ASSUME NEW m \in Nat PROVE ((m + 1) * DaysPerMonth - 1) \div DaysPerMonth = m
  BY <1>0
<1>2. ASSUME NEW d \in Nat PROVE /\ d \div DaysPerMonth \in Nat
                                 /\ d \div DaysPerMonth <= (d + 1) \div DaysPerMonth
  BY <1>0
<1>3. QED
  BY <1>1, <1>2 DEF Month, MonthEnd

LEMMA RecordIs ==
    ASSUME WaiverActive, NEW m \in Nat
    PROVE  Record(m) = RecordOf(InMonth(FeedbackRows, m), InMonth(AuditRows, m))
<1> DEFINE fb == InMonth(FeedbackRows, m)
           au == InMonth(AuditRows, m)
           report == PrecisionReport(MonthEnd(m))
<1>1. Month(MonthEnd(m)) = m
  BY MonthsAre
<1>2. report.useful_overall = UsefulRate(fb) /\ report.auto_overall = Accuracy(au)
  BY <1>1 DEF PrecisionReport
<1>3. report.g2 = GatedOf(fb, au)
  BY <1>1 DEF PrecisionReport, PageG2, GatedOf
<1>4. report.g1.state = "waived"
  BY DEF PrecisionReport, G1Status
<1>5. <<report.spotcheck.reviewed, report.spotcheck.target>> = SpotOf(fb, au)
  BY <1>1 DEF PrecisionReport, SpotCheck, SpotOf
<1>6. \A k \in ReportDimensions :
        report.useful_by[k] = UsefulRateBy(fb, k) /\ report.auto_by[k] = AccuracyBy(au, k)
  BY <1>1 DEF PrecisionReport, ReportDimensions, Dimensions
<1> HIDE DEF report, fb, au
<1>7. FormatReport(report) = RecordOf(fb, au)
  BY <1>2, <1>3, <1>4, <1>5, <1>6 DEF FormatReport, RecordOf
<1>8. QED
  BY <1>7 DEF Record, report, fb, au

LEMMA RecordAlike ==
    ASSUME NEW r, NEW s, Alike(FeedbackColumns, r, s), NEW a, NEW b, Alike(AuditColumns, a, b)
    PROVE  RecordOf(r, a) = RecordOf(s, b)
<1>1. UsefulRate(r) = UsefulRate(s) /\ Accuracy(a) = Accuracy(b)
  BY UsefulAlike, AccuracyAlike
<1>2. GatedOf(r, a) = GatedOf(s, b)
  BY StatusAlike, DisagreementAlike DEF GatedOf
<1>3. SpotOf(r, a) = SpotOf(s, b)
  BY HumanAlike, JudgedAlike DEF SpotOf
<1>4. \A k \in ReportDimensions :
        UsefulRateBy(r, k) = UsefulRateBy(s, k) /\ AccuracyBy(a, k) = AccuracyBy(b, k)
  BY UsefulByAlike, AccuracyByAlike DEF ReportDimensions, CardColumns
<1>5. QED
  BY <1>1, <1>2, <1>3, <1>4 DEF RecordOf

(* The rows of a month that is over are those of the month before the step, *)
(* whatever it adds or re-tiers.                                            *)
LEMMA MonthRowsStand ==
    ASSUME LedgerTyped, [Next]_vars, NEW m \in Nat, m < Month(day)
    PROVE  /\ Alike(FeedbackColumns, InMonth(FeedbackRows, m), InMonth(FeedbackRows, m)')
           /\ Alike(AuditColumns, InMonth(AuditRows, m), InMonth(AuditRows, m)')
<1> DEFINE D == {i \in DOMAIN feedback : Month(feedback[i].day) = m}
           E == {i \in DOMAIN audit : Month(audit[i].day) = m}
<1>1. /\ InMonth(FeedbackRows, m) = [i \in D |-> FeedbackRows[i]]
      /\ InMonth(AuditRows, m) = [i \in E |-> AuditRows[i]]
  BY DEF InMonth, RestrictValues, Restrict, FeedbackRows, AuditRows
<1>2. /\ InMonth(FeedbackRows, m)' = [i \in D' |-> FeedbackRows'[i]]
      /\ InMonth(AuditRows, m)' = [i \in E' |-> AuditRows'[i]]
  BY DEF InMonth, RestrictValues, Restrict, FeedbackRows, AuditRows
<1>3. D' = D /\ \A i \in D : feedback'[i] = feedback[i]
  <2>1. CASE feedback' = feedback
    BY <2>1
  <2>2. ASSUME NEW row \in RatedRows, row.day = day, feedback' = Append(feedback, row)
        PROVE  D' = D /\ \A i \in D : feedback'[i] = feedback[i]
    <3>1. feedback \in Seq(RatedRows)
      BY DEF LedgerTyped
    <3>2. /\ DOMAIN feedback' = DOMAIN feedback \cup {Len(feedback) + 1}
          /\ \A i \in DOMAIN feedback : feedback'[i] = feedback[i]
          /\ feedback'[Len(feedback) + 1] = row
      BY <2>2, <3>1
    <3>3. Month(feedback'[Len(feedback) + 1].day) # m
      BY <2>2, <3>2, MonthsAre DEF LedgerTyped
    <3>4. \A i : i \in D' <=> i \in D
      BY <3>2, <3>3
    <3>5. QED
      BY <3>2, <3>4
  <2>3. QED
    BY <2>1, <2>2, RatingsGrow
<1>4. E' = E /\ \A i \in E : audit'[i] = audit[i]
  <2>1. CASE audit' = audit
    BY <2>1
  <2>2. ASSUME NEW x \in JudgedRows, NEW y \in JudgedRows, x.day = day, y.day = day,
               audit' = audit \o <<x, y>>
        PROVE  E' = E /\ \A i \in E : audit'[i] = audit[i]
    <3>1. audit \in Seq(JudgedRows)
      BY DEF LedgerTyped
    <3>2. /\ DOMAIN audit' = DOMAIN audit \cup {Len(audit) + 1, Len(audit) + 2}
          /\ \A i \in DOMAIN audit : audit'[i] = audit[i]
          /\ audit'[Len(audit) + 1] = x /\ audit'[Len(audit) + 2] = y
      BY <2>2, <3>1
    <3>3. Month(x.day) # m /\ Month(y.day) # m
      BY <2>2, MonthsAre DEF LedgerTyped
    <3>4. \A i : i \in E' <=> i \in E
      BY <3>2, <3>3
    <3>5. QED
      BY <3>2, <3>4
  <2>3. QED
    BY <2>1, <2>2, VerdictsGrow
<1>5. \A i \in D : \A key \in FeedbackColumns : FeedbackRows[i][key] = FeedbackRows'[i][key]
  <2> SUFFICES ASSUME NEW i \in D, NEW key \in FeedbackColumns
               PROVE  FeedbackRows[i][key] = FeedbackRows'[i][key]
    OBVIOUS
  <2>1. i \in DOMAIN feedback /\ i \in DOMAIN feedback' /\ feedback'[i] = feedback[i]
    BY <1>3
  <2>2. QED
    BY <2>1 DEF FeedbackRows, FeedbackColumns, CardColumns
<1>6. \A i \in E : \A key \in AuditColumns : AuditRows[i][key] = AuditRows'[i][key]
  <2> SUFFICES ASSUME NEW i \in E, NEW key \in AuditColumns
               PROVE  AuditRows[i][key] = AuditRows'[i][key]
    OBVIOUS
  <2>1. i \in DOMAIN audit /\ i \in DOMAIN audit' /\ audit'[i] = audit[i]
    BY <1>4
  <2>2. QED
    BY <2>1 DEF AuditRows, AuditColumns, CardColumns
<1>7. (\E n \in Nat : D \in SUBSET (1 .. n)) /\ (\E n \in Nat : E \in SUBSET (1 .. n))
  <2>1. feedback \in Seq(RatedRows) /\ audit \in Seq(JudgedRows)
    BY DEF LedgerTyped
  <2>2. D \in SUBSET (1 .. Len(feedback)) /\ Len(feedback) \in Nat
    BY <2>1
  <2>3. E \in SUBSET (1 .. Len(audit)) /\ Len(audit) \in Nat
    BY <2>1
  <2>4. QED
    BY <2>2, <2>3
<1> HIDE DEF D, E
<1>8. Alike(FeedbackColumns, InMonth(FeedbackRows, m), InMonth(FeedbackRows, m)')
  <2> DEFINE r == [i \in D |-> FeedbackRows[i]]
             s == [i \in D |-> FeedbackRows'[i]]
  <2>1. Alike(FeedbackColumns, r, s)
    BY <1>5, <1>7 DEF Alike, IsRows
  <2>2. InMonth(FeedbackRows, m) = r /\ InMonth(FeedbackRows, m)' = s
    BY <1>1, <1>2, <1>3
  <2>3. QED
    BY <2>1, <2>2
<1>9. Alike(AuditColumns, InMonth(AuditRows, m), InMonth(AuditRows, m)')
  <2> DEFINE r == [i \in E |-> AuditRows[i]]
             s == [i \in E |-> AuditRows'[i]]
  <2>1. Alike(AuditColumns, r, s)
    BY <1>6, <1>7 DEF Alike, IsRows
  <2>2. InMonth(AuditRows, m) = r /\ InMonth(AuditRows, m)' = s
    BY <1>1, <1>2, <1>4
  <2>3. QED
    BY <2>1, <2>2
<1>10. QED
  BY <1>8, <1>9

(* main, over any months, ratings, verdicts, re-tiers and retries: the      *)
(* record on file of a month is what the job would write of it again.  The  *)
(* waiver of gate G1 is on, as G1_WAIVER_ACTIVE says.                       *)
RecordInv == \A m \in Months : filed[m] # None => m < Month(day) /\ filed[m] = Record(m)

RecordsFromMonths ==
    \A m \in Nat : Record(m) = RecordOf(InMonth(FeedbackRows, m), InMonth(AuditRows, m))

THEOREM RecordsStay == ASSUME WaiverActive PROVE Spec => []RecordStands
<1>1. Init => RecordInv
  BY DEF Init, RecordInv
<1>0. RecordsFromMonths
  BY RecordIs DEF RecordsFromMonths
<1>2. LedgerTyped /\ RecordsFromMonths /\ RecordsFromMonths' /\ RecordInv /\ [Next]_vars => RecordInv'
  <2> SUFFICES ASSUME LedgerTyped, RecordsFromMonths, RecordsFromMonths', RecordInv, [Next]_vars, NEW m \in Months, filed'[m] # None
               PROVE  m < Month(day') /\ filed'[m] = Record(m)'
    BY DEF RecordInv
  <2>0. m \in Nat /\ day \in Nat /\ Month(day) \in Nat /\ Month(day') \in Nat /\ Month(day) <= Month(day')
    <3>1. LastDay \in Nat /\ day \in 0 .. LastDay /\ day' \in {day, day + 1}
      BY ClockGoes DEF LedgerTyped
    <3>2. Month(LastDay) \in Nat
      BY <3>1, MonthsAre
    <3>3. QED
      BY <3>1, <3>2, MonthsAre DEF Months
  <2>1. m < Month(day) /\ filed'[m] = Record(m)
    <3>1. CASE FileReport
      <4>1. CASE m = Month(day) - 1
        BY <2>0, <3>1, <4>1 DEF FileReport, LedgerTyped
      <4>2. CASE m # Month(day) - 1
        <5>1. filed'[m] = filed[m]
          BY <3>1, <4>2 DEF FileReport, LedgerTyped
        <5>2. QED
          BY <5>1 DEF RecordInv
      <4>3. QED
        BY <4>1, <4>2
    <3>2. CASE ~FileReport
      <4>1. filed' = filed
        BY <3>2 DEF Next, AuditCommits, Retier, vars
      <4>2. QED
        BY <4>1 DEF RecordInv
    <3>3. QED
      BY <3>1, <3>2
  <2>2. Record(m) = RecordOf(InMonth(FeedbackRows, m), InMonth(AuditRows, m))
    BY <2>0 DEF RecordsFromMonths
  <2>3. Record(m)' = RecordOf(InMonth(FeedbackRows, m), InMonth(AuditRows, m))'
    BY <2>0 DEF RecordsFromMonths
  <2>4. RecordOf(InMonth(FeedbackRows, m), InMonth(AuditRows, m))
          = RecordOf(InMonth(FeedbackRows, m), InMonth(AuditRows, m))'
    BY <2>0, <2>1, MonthRowsStand, RecordAlike
  <2>5. QED
    BY <2>0, <2>1, <2>2, <2>3, <2>4
<1>3. RecordInv => RecordStands
  BY DEF RecordInv, RecordStands
<1>4. QED
  BY <1>0, <1>1, <1>2, <1>3, LedgerTypes, PTL DEF Spec

---------------------------------------------------------------------------
(* Gate G1.  The rows a gate counts are the ones of cards that count.       *)
LEMMA CountedIsAccount ==
    /\ RestrictValues(Counted(FeedbackRows), IsAccount) = RestrictValues(FeedbackRows, IsAccount)
    /\ RestrictValues(Counted(AuditRows), IsAccount) = RestrictValues(AuditRows, IsAccount)
    /\ \A i \in DOMAIN feedback : IsAccount(FeedbackRows[i]) <=> i \in DOMAIN Counted(FeedbackRows)
<1> DEFINE Of(c) == /\ Entity[c] # None /\ Scope[c] \in {"account", "parent"}
                    /\ level[c] # "unconfirmed_early_warning"
           D == {i \in DOMAIN feedback : Of(feedback[i].signal)}
           E == {i \in DOMAIN audit : Of(audit[i].signal)}
<1>1. \A i \in DOMAIN feedback : IsAccount(FeedbackRows[i]) <=> Of(feedback[i].signal)
  BY DEF IsAccount, FeedbackRows
<1>2. \A i \in DOMAIN audit : IsAccount(AuditRows[i]) <=> Of(audit[i].signal)
  BY DEF IsAccount, AuditRows
<1>3. DOMAIN FeedbackRows = DOMAIN feedback /\ DOMAIN AuditRows = DOMAIN audit
  BY DEF FeedbackRows, AuditRows
<1>4. Counted(FeedbackRows) = [i \in D |-> FeedbackRows[i]]
  BY DEF Counted, RestrictValues, Restrict, FeedbackRows
<1>5. Counted(AuditRows) = [i \in E |-> AuditRows[i]]
  BY DEF Counted, RestrictValues, Restrict, AuditRows
<1> HIDE DEF Of
<1>6. {i \in DOMAIN FeedbackRows : IsAccount(FeedbackRows[i])} = D
      /\ {i \in D : IsAccount(FeedbackRows[i])} = D
  BY <1>1, <1>3
<1>7. {i \in DOMAIN AuditRows : IsAccount(AuditRows[i])} = E
      /\ {i \in E : IsAccount(AuditRows[i])} = E
  BY <1>2, <1>3
<1>8. DOMAIN Counted(FeedbackRows) = D /\ DOMAIN Counted(AuditRows) = E
  BY <1>4, <1>5
<1>9. RestrictValues(Counted(FeedbackRows), IsAccount) = [i \in D |-> FeedbackRows[i]]
  <2>1. {i \in DOMAIN Counted(FeedbackRows) : IsAccount(Counted(FeedbackRows)[i])} = D
    BY <1>4, <1>6, <1>8
  <2>2. QED
    BY <1>4, <2>1 DEF RestrictValues, Restrict
<1>10. RestrictValues(Counted(AuditRows), IsAccount) = [i \in E |-> AuditRows[i]]
  <2>1. {i \in DOMAIN Counted(AuditRows) : IsAccount(Counted(AuditRows)[i])} = E
    BY <1>5, <1>7, <1>8
  <2>2. QED
    BY <1>5, <2>1 DEF RestrictValues, Restrict
<1>11. /\ RestrictValues(FeedbackRows, IsAccount) = [i \in D |-> FeedbackRows[i]]
       /\ RestrictValues(AuditRows, IsAccount) = [i \in E |-> AuditRows[i]]
  BY <1>6, <1>7 DEF RestrictValues, Restrict
<1>12. \A i \in DOMAIN feedback : IsAccount(FeedbackRows[i]) <=> i \in D
  BY <1>1
<1>13. QED
  BY <1>8, <1>9, <1>10, <1>11, <1>12

(* g1_status, for any cards, ratings, verdicts and re-tiers: what is said   *)
(* of a card of no account, or of an incident nobody verified, is counted   *)
(* apart and moves no figure of the gate.                                   *)
THEOREM UnverifiedStaysApart == Spec => []UnverifiedMovesNothing
<1>1. LedgerTyped => UnverifiedMovesNothing
  <2> SUFFICES ASSUME LedgerTyped
               PROVE  LET all  == G1Status(FeedbackRows, AuditRows, day)
                          only == G1Status(Counted(FeedbackRows), Counted(AuditRows), day)
                      IN  /\ all.triggers = only.triggers
                          /\ all.separately.feedback.over
                               = Len(feedback) - Cardinality(DOMAIN Counted(FeedbackRows))
    BY DEF UnverifiedMovesNothing
  <2> DEFINE all  == G1Status(FeedbackRows, AuditRows, day)
             only == G1Status(Counted(FeedbackRows), Counted(AuditRows), day)
             Cells(fb, au) == [t \in Primary |->
                    G1Cell(Having(fb, "trigger", t), Having(au, "trigger", t), day)]
  <2>1. all.triggers = Cells(RestrictValues(FeedbackRows, IsAccount), RestrictValues(AuditRows, IsAccount))
    BY DEF G1Status
  <2>2. only.triggers = Cells(RestrictValues(Counted(FeedbackRows), IsAccount),
                              RestrictValues(Counted(AuditRows), IsAccount))
    BY DEF G1Status
  <2>3. all.triggers = only.triggers
    BY <2>1, <2>2, CountedIsAccount
  <2> DEFINE D == DOMAIN Counted(FeedbackRows)
             n == Len(feedback)
             apart == RestrictValues(FeedbackRows, LAMBDA r : ~IsAccount(r))
  <2>4. n \in Nat /\ DOMAIN feedback = 1 .. n /\ \A i \in 1 .. n : feedback[i] \in RatedRows
    BY DEF LedgerTyped
  <2>5. D \subseteq 1 .. n
    BY <2>4 DEF Counted, RestrictValues, Restrict, FeedbackRows
  <2>6. DOMAIN apart = (1 .. n) \ D /\ \A i \in DOMAIN apart : apart[i] = FeedbackRows[i]
    <3>1. DOMAIN apart = {i \in DOMAIN feedback : ~IsAccount(FeedbackRows[i])}
      BY DEF RestrictValues, Restrict, FeedbackRows
    <3>2. \A i \in DOMAIN feedback : IsAccount(FeedbackRows[i]) <=> i \in D
      BY CountedIsAccount
    <3>3. \A i \in DOMAIN apart : apart[i] = FeedbackRows[i]
      BY DEF RestrictValues, Restrict
    <3>4. QED
      BY <2>4, <3>1, <3>2, <3>3
  <2>7. \A i \in DOMAIN feedback : IsRated(FeedbackRows[i])
    BY <2>4 DEF IsRated, IsPositive, IsNegative, FeedbackRows, RatedRows
  <2> HIDE DEF D, n
  <2>8. {i \in DOMAIN apart : IsRated(apart[i])} = (1 .. n) \ D
    BY <2>4, <2>6, <2>7
  <2>9. all.separately.feedback.over = Cardinality((1 .. n) \ D)
    <3>1. all.separately.feedback = UsefulRate(apart)
      BY DEF G1Status
    <3>2. UsefulRate(apart).over = Cardinality({i \in DOMAIN apart : IsRated(apart[i])})
      BY DEF UsefulRate, Ratio, Count
    <3>3. QED
      BY <2>8, <3>1, <3>2
  <2>10. Cardinality((1 .. n) \ D) = n - Cardinality(D)
    <3>1. IsFiniteSet(1 .. n) /\ Cardinality(1 .. n) = n
      <4>1. 1 \in Int /\ n \in Int /\ n \in Nat
        BY <2>4
      <4>2. QED
        BY <4>1, FS_Interval
    <3>2. (1 .. n) \cap D = D
      BY <2>5
    <3>3. Cardinality((1 .. n) \ D) = Cardinality(1 .. n) - Cardinality((1 .. n) \cap D)
      BY <3>1, FS_Difference
    <3>4. QED
      BY <3>1, <3>2, <3>3
  <2>11. QED
    BY <2>3, <2>9, <2>10 DEF D, n
<1>2. QED
  BY <1>1, LedgerTypes, PTL

---------------------------------------------------------------------------
(* The demotion.  The ratings and the verdicts of the month, by source and  *)
(* by card, in the words of the property.                                   *)
ThisMonth(row)  == Month(row.day) = Month(day)
Ratings         == {i \in DOMAIN feedback : ThisMonth(feedback[i])}
JudgedNow       == {j \in DOMAIN audit : ThisMonth(audit[j])}
RatingsOf(x)    == {i \in DOMAIN feedback : ThisMonth(feedback[i]) /\ Source[feedback[i].signal] = x}
GoodOf(x)       == {i \in RatingsOf(x) : feedback[i].verdict # "not_useful"}
FaultsOf(c)     == {i \in DOMAIN audit : ThisMonth(audit[i]) /\ audit[i].signal = c
                                           /\ audit[i].result = "fail"}
BothOf(x)       == {i \in RatingsOf(x) :
                      /\ \A j \in RatingsOf(x) : j > i => feedback[j].signal # feedback[i].signal
                      /\ \E j \in DOMAIN audit : ThisMonth(audit[j])
                                                 /\ audit[j].signal = feedback[i].signal}
AgainstOf(x)    == {i \in BothOf(x) : (i \in GoodOf(x)) # (FaultsOf(feedback[i].signal) = {})}
FeedbackNow     == [i \in Ratings |-> FeedbackRows[i]]
AuditNow        == [j \in JudgedNow |-> AuditRows[j]]

LEMMA NowAre ==
    ASSUME LedgerTyped
    PROVE  /\ InMonth(FeedbackRows, Month(day)) = FeedbackNow
           /\ InMonth(AuditRows, Month(day)) = AuditNow
           /\ \A i \in DOMAIN feedback : feedback[i] \in RatedRows
           /\ \A j \in DOMAIN audit : audit[j] \in JudgedRows
           /\ Len(feedback) \in Nat /\ DOMAIN feedback = 1 .. Len(feedback)
           /\ Len(audit) \in Nat /\ DOMAIN audit = 1 .. Len(audit)
<1>1. {i \in DOMAIN FeedbackRows : FeedbackRows[i].month = Month(day)} = Ratings
  BY DEF FeedbackRows, Ratings, ThisMonth
<1>2. {j \in DOMAIN AuditRows : AuditRows[j].month = Month(day)} = JudgedNow
  BY DEF AuditRows, JudgedNow, ThisMonth
<1>3. QED
  BY <1>1, <1>2 DEF InMonth, RestrictValues, Restrict, FeedbackNow, AuditNow, LedgerTyped

(* Every rating of the month is one, and counts for its card's source.      *)
LEMMA StatusNow ==
    ASSUME LedgerTyped, NEW x
    PROVE  /\ RestrictValues(FeedbackNow, IsRated) = FeedbackNow
           /\ x \in DOMAIN G2Status(FeedbackNow) <=> RatingsOf(x) # {}
           /\ RatingsOf(x) # {} =>
                G2Status(FeedbackNow)[x].demote =
                  (/\ Cardinality(RatingsOf(x)) >= G2MinN
                   /\ 100 * Cardinality(GoodOf(x)) < G2Pct * Cardinality(RatingsOf(x)))
<1>1. \A i \in Ratings : /\ IsRated(FeedbackNow[i])
                         /\ IsPositive(FeedbackNow[i]) <=> feedback[i].verdict # "not_useful"
                         /\ FeedbackNow[i].source = Source[feedback[i].signal]
  BY NowAre DEF Ratings, FeedbackNow, FeedbackRows, RatedRows, IsRated, IsPositive, IsNegative, Positive, Negative
<1>2. RestrictValues(FeedbackNow, IsRated) = FeedbackNow
  <2>1. DOMAIN FeedbackNow = Ratings
    BY DEF FeedbackNow
  <2>2. {i \in DOMAIN FeedbackNow : IsRated(FeedbackNow[i])} = Ratings
    BY <1>1, <2>1
  <2>3. QED
    BY <2>2 DEF RestrictValues, Restrict, FeedbackNow
<1> DEFINE mine == Having(FeedbackNow, "source", x)
<1>3. /\ DOMAIN mine = RatingsOf(x)
      /\ \A i \in RatingsOf(x) : mine[i] = FeedbackNow[i]
      /\ RatingsOf(x) \subseteq Ratings
  <2>1. DOMAIN FeedbackNow = Ratings
    BY DEF FeedbackNow
  <2>2. {i \in DOMAIN FeedbackNow : FeedbackNow[i]["source"] = x} = RatingsOf(x)
    BY <1>1, <2>1 DEF Ratings, RatingsOf
  <2>3. QED
    BY <2>2 DEF Having, RestrictValues, Restrict, Ratings, RatingsOf
<1>4. DOMAIN G2Status(FeedbackNow) = ValuesOf(FeedbackNow, "source")
  BY <1>2 DEF G2Status
<1>5. x \in DOMAIN G2Status(FeedbackNow) <=> RatingsOf(x) # {}
  BY <1>1, <1>4 DEF ValuesOf, FeedbackNow, Ratings, RatingsOf
<1>6. UsefulRate(mine) = [of |-> Cardinality(GoodOf(x)), over |-> Cardinality(RatingsOf(x))]
  <2> HIDE DEF mine
  <2>1. {i \in DOMAIN mine : IsPositive(mine[i])} = GoodOf(x)
    BY <1>1, <1>3 DEF GoodOf
  <2>2. {i \in DOMAIN mine : IsRated(mine[i])} = RatingsOf(x)
    BY <1>1, <1>3
  <2>3. QED
    BY <2>1, <2>2 DEF UsefulRate, Count, Ratio
<1>7. ASSUME RatingsOf(x) # {} PROVE G2Status(FeedbackNow)[x] = G2Cell(mine)
  BY <1>2, <1>4, <1>5, <1>7 DEF G2Status
<1> HIDE DEF mine
<1>8. G2Cell(mine).demote =
        (/\ Cardinality(RatingsOf(x)) >= G2MinN
         /\ 100 * Cardinality(GoodOf(x)) < G2Pct * Cardinality(RatingsOf(x)))
  <2> DEFINE u == UsefulRate(mine)
  <2>1. G2Cell(mine).demote = (u.over >= G2MinN /\ 100 * u.of < G2Pct * u.over)
    BY DEF G2Cell, Below
  <2>2. u.of = Cardinality(GoodOf(x)) /\ u.over = Cardinality(RatingsOf(x))
    BY <1>6
  <2> HIDE DEF u
  <2>3. QED
    BY <2>1, <2>2
<1>9. QED
  BY <1>2, <1>5, <1>7, <1>8

(* The human's last word on a card of the month, and the judge's.           *)
LEMMA LastWord ==
    ASSUME LedgerTyped, NEW x, NEW i \in BothOf(x)
    PROVE  /\ feedback[i].signal \in DOMAIN Human(FeedbackNow)
           /\ Human(FeedbackNow)[feedback[i].signal] = IF i \in GoodOf(x) THEN "positive" ELSE "negative"
<1> DEFINE s == feedback[i].signal
           said == Having(FeedbackNow, "signal", s)
           S == {k \in Ratings : feedback[k].signal = s}
<1>1. i \in Ratings /\ Source[s] = x
  BY DEF BothOf, RatingsOf, Ratings
<1>2. \A k \in Ratings : FeedbackNow[k].signal = feedback[k].signal
                         /\ FeedbackNow[k].verdict = feedback[k].verdict
  BY DEF FeedbackNow, FeedbackRows, Ratings
<1>3. DOMAIN said = S /\ \A k \in S : said[k] = FeedbackNow[k]
  <2>1. DOMAIN FeedbackNow = Ratings
    BY DEF FeedbackNow
  <2>2. {k \in DOMAIN FeedbackNow : FeedbackNow[k]["signal"] = s} = S
    BY <1>2, <2>1
  <2>3. QED
    BY <2>2 DEF Having, RestrictValues, Restrict
<1>4. IsRows(said)
  <2>1. S \in SUBSET (1 .. Len(feedback)) /\ Len(feedback) \in Nat
    BY NowAre DEF Ratings
  <2>2. QED
    BY <1>3, <2>1 DEF IsRows
<1>5. i \in S
  BY <1>1
<1>6. \A k \in S : k <= i
  <2>1. \A k \in S : k \in RatingsOf(x) /\ k \in Nat /\ feedback[k].signal = s
    BY <1>1, NowAre DEF Ratings, RatingsOf
  <2>2. i \in Nat /\ \A k \in RatingsOf(x) : k > i => feedback[k].signal # s
    BY NowAre DEF BothOf, RatingsOf
  <2>3. QED
    BY <2>1, <2>2
<1>7. Max(DOMAIN said) = i
  <2>1. Max(DOMAIN said) \in S /\ i <= Max(DOMAIN said)
    BY <1>3, <1>4, <1>5, LatestIs
  <2>2. Max(DOMAIN said) \in Nat /\ i \in Nat
    BY <2>1, <1>1, NowAre DEF Ratings
  <2>3. QED
    BY <1>6, <2>1, <2>2
<1>8. Latest(said).verdict = feedback[i].verdict
  BY <1>1, <1>2, <1>3, <1>5, <1>7 DEF Latest
<1>9. s \in DOMAIN Human(FeedbackNow)
      /\ Human(FeedbackNow)[s] = IF IsPositive(Latest(said)) THEN "positive" ELSE "negative"
  BY <1>1, <1>2, StatusNow DEF Human, ValuesOf, FeedbackNow
<1>10. feedback[i].verdict \in Positive \cup Negative /\ i \in RatingsOf(x)
  BY NowAre DEF RatedRows, BothOf, RatingsOf
<1> HIDE DEF said
<1>11. IsPositive(Latest(said)) <=> i \in GoodOf(x)
  BY <1>8, <1>10 DEF IsPositive, Positive, Negative, GoodOf
<1>12. QED
  BY <1>9, <1>11

(* The judge's verdicts of the month, by card, and the card's source.       *)
LEMMA JudgeNow ==
    ASSUME LedgerTyped, NEW s
    PROVE  /\ s \in Judged(AuditNow) <=> \E j \in JudgedNow : audit[j].signal = s
           /\ s \in JudgeNegative(AuditNow) <=> FaultsOf(s) # {}
           /\ s \in Judged(AuditNow) => SourceOfJudged(AuditNow, s) = Source[s]
<1>1. \A j \in JudgedNow : /\ IsObjective(AuditNow[j])
                           /\ AuditNow[j].signal = audit[j].signal
                           /\ AuditNow[j].result = audit[j].result
                           /\ AuditNow[j].source = Source[audit[j].signal]
  BY NowAre DEF JudgedNow, AuditNow, AuditRows, JudgedRows, IsObjective
<1>2. DOMAIN AuditNow = JudgedNow
  BY DEF AuditNow
<1>3. s \in Judged(AuditNow) <=> \E j \in JudgedNow : audit[j].signal = s
  BY <1>1, <1>2 DEF Judged, ValuesOf, RestrictValues, Restrict
<1>4. s \in JudgeNegative(AuditNow) <=> \E j \in JudgedNow : audit[j].signal = s /\ audit[j].result = "fail"
  <2> DEFINE D == {j \in JudgedNow : audit[j].result = "fail"}
             failed == [j \in D |-> AuditNow[j]]
  <2>1. {j \in DOMAIN AuditNow : IsObjective(AuditNow[j]) /\ AuditNow[j].result = "fail"} = D
    BY <1>1, <1>2
  <2>2. RestrictValues(AuditNow, LAMBDA r : IsObjective(r) /\ r.result = "fail") = failed
    BY <2>1 DEF RestrictValues, Restrict
  <2>3. JudgeNegative(AuditNow) = {failed[j]["signal"] : j \in D}
    BY <2>2 DEF JudgeNegative, ValuesOf
  <2>4. QED
    BY <1>1, <2>3
<1>5. s \in JudgeNegative(AuditNow) <=> FaultsOf(s) # {}
  BY <1>4 DEF FaultsOf, JudgedNow
<1>6. ASSUME s \in Judged(AuditNow) PROVE SourceOfJudged(AuditNow, s) = Source[s]
  <2> DEFINE D == {j \in JudgedNow : audit[j].signal = s /\ Source[s] # None}
             named == [j \in D |-> AuditNow[j]]
  <2>1. RestrictValues(AuditNow, LAMBDA r : IsObjective(r) /\ r.signal = s /\ r.source # None) = named
    <3>1. {j \in DOMAIN AuditNow : IsObjective(AuditNow[j]) /\ AuditNow[j].signal = s
                                     /\ AuditNow[j].source # None} = D
      BY <1>1, <1>2
    <3>2. QED
      BY <3>1 DEF RestrictValues, Restrict
  <2>2. SourceOfJudged(AuditNow, s) = IF DOMAIN named = {} THEN None ELSE Latest(named).source
    BY <2>1 DEF SourceOfJudged
  <2>3. \A j \in D : named[j].source = Source[s]
    BY <1>1
  <2>4. IsRows(named)
    <3>1. D \in SUBSET (1 .. Len(audit)) /\ Len(audit) \in Nat
      BY NowAre DEF JudgedNow
    <3>2. QED
      BY <3>1 DEF IsRows
  <2>5. DOMAIN named = D
    OBVIOUS
  <2>6. CASE Source[s] = None
    BY <2>2, <2>5, <2>6
  <2>7. CASE Source[s] # None
    <3>1. D # {}
      BY <1>3, <1>6, <2>7
    <3> HIDE DEF named, D
    <3>2. Max(DOMAIN named) \in D
      BY <2>4, <2>5, <3>1, LatestIs
    <3>3. QED
      BY <2>2, <2>3, <2>5, <3>1, <3>2 DEF Latest
  <2>8. QED
    BY <2>6, <2>7
<1>7. QED
  BY <1>3, <1>5, <1>6

(* The cards of a source that have both words are as many as their latest   *)
(* ratings, and so are the ones on which the words differ.                  *)
CardsAt(x) ==
    {s \in Judged(AuditNow) \cap DOMAIN Human(FeedbackNow) : SourceOfJudged(AuditNow, s) = x}
Disputed(x) == {s \in CardsAt(x) : Disagrees(AuditNow, Human(FeedbackNow), s)}

LEMMA RatingsFinite ==
    ASSUME LedgerTyped, NEW S \in SUBSET DOMAIN feedback
    PROVE  IsFiniteSet(S) /\ Cardinality(S) \in Nat
<1>1. 1 \in Int /\ Len(feedback) \in Int /\ Len(feedback) \in Nat
  BY NowAre
<1>2. IsFiniteSet(1 .. Len(feedback))
  BY <1>1, FS_Interval
<1>3. S \in SUBSET (1 .. Len(feedback))
  BY NowAre
<1>4. IsFiniteSet(S)
  BY <1>2, <1>3, FS_Subset
<1>5. QED
  BY <1>4, FS_CardinalityType

(* A card that has both words has one latest rating of the month.           *)
LEMMA OneLatest ==
    ASSUME LedgerTyped, NEW x
    PROVE  /\ \A i \in BothOf(x) : feedback[i].signal \in CardsAt(x)
           /\ \A i, j \in BothOf(x) : feedback[i].signal = feedback[j].signal => i = j
           /\ \A s \in CardsAt(x) : \E i \in BothOf(x) : feedback[i].signal = s
<1>1. ASSUME NEW i \in BothOf(x) PROVE feedback[i].signal \in CardsAt(x)
  <2> DEFINE s == feedback[i].signal
  <2>1. s \in DOMAIN Human(FeedbackNow)
    BY LastWord
  <2>2. Source[s] = x /\ \E j \in JudgedNow : audit[j].signal = s
    BY DEF BothOf, RatingsOf, JudgedNow
  <2>3. QED
    BY <2>1, <2>2, JudgeNow DEF CardsAt
<1>2. ASSUME NEW i \in BothOf(x), NEW j \in BothOf(x), feedback[i].signal = feedback[j].signal
      PROVE  i = j
  <2>1. i \in RatingsOf(x) /\ j \in RatingsOf(x) /\ i \in Nat /\ j \in Nat
    BY NowAre DEF BothOf, RatingsOf
  <2>2. ~(j > i) /\ ~(i > j)
    BY <1>2, <2>1 DEF BothOf
  <2>3. QED
    BY <2>1, <2>2
<1>3. ASSUME NEW s \in CardsAt(x) PROVE \E i \in BothOf(x) : feedback[i].signal = s
  <2> DEFINE S == {k \in Ratings : feedback[k].signal = s}
  <2>1. s \in Judged(AuditNow) /\ s \in DOMAIN Human(FeedbackNow) /\ SourceOfJudged(AuditNow, s) = x
    BY DEF CardsAt
  <2>2. Source[s] = x /\ \E j \in JudgedNow : audit[j].signal = s
    BY <2>1, JudgeNow
  <2>3. DOMAIN Human(FeedbackNow) = ValuesOf(FeedbackNow, "signal")
    BY StatusNow DEF Human
  <2>4. S # {}
    BY <2>1, <2>3 DEF ValuesOf, FeedbackNow, FeedbackRows, Ratings
  <2>5. S \in SUBSET (1 .. Len(feedback)) /\ Len(feedback) \in Nat
    BY NowAre DEF Ratings
  <2> HIDE DEF S
  <2>6. PICK i \in S : \A k \in S : k <= i
    BY <2>4, <2>5, GreatestOf
  <2>7. i \in RatingsOf(x) /\ feedback[i].signal = s
    BY <2>2 DEF S, Ratings, RatingsOf
  <2>8. \A j \in RatingsOf(x) : j > i => feedback[j].signal # s
    <3>1. SUFFICES ASSUME NEW j \in RatingsOf(x), j > i, feedback[j].signal = s PROVE FALSE
      OBVIOUS
    <3>2. j \in S
      BY <3>1 DEF S, Ratings, RatingsOf
    <3>3. j <= i /\ j \in Nat /\ i \in Nat
      BY <2>5, <2>6, <3>2
    <3>4. QED
      BY <3>1, <3>3
  <2>9. i \in BothOf(x)
    BY <2>2, <2>7, <2>8 DEF BothOf, JudgedNow
  <2>10. QED
    BY <2>7, <2>9
<1>4. QED
  BY <1>1, <1>2, <1>3

LEMMA WordsCounted ==
    ASSUME LedgerTyped, NEW x
    PROVE  /\ Cardinality(CardsAt(x)) = Cardinality(BothOf(x))
           /\ Cardinality(Disputed(x)) = Cardinality(AgainstOf(x))
           /\ CardsAt(x) = {} => BothOf(x) = {}
<1> DEFINE Card(S) == [i \in S |-> feedback[i].signal]
<1>1. BothOf(x) \in SUBSET DOMAIN feedback /\ AgainstOf(x) \in SUBSET DOMAIN feedback
  BY DEF BothOf, AgainstOf, RatingsOf
<1>2. \A i \in BothOf(x) : feedback[i].signal \in Disputed(x) <=> i \in AgainstOf(x)
  <2> SUFFICES ASSUME NEW i \in BothOf(x)
               PROVE  feedback[i].signal \in Disputed(x) <=> i \in AgainstOf(x)
    OBVIOUS
  <2> DEFINE s == feedback[i].signal
  <2>1. s \in CardsAt(x)
    BY OneLatest
  <2>2. Human(FeedbackNow)[s] = "negative" <=> i \notin GoodOf(x)
    BY LastWord
  <2>3. s \in JudgeNegative(AuditNow) <=> FaultsOf(s) # {}
    BY JudgeNow
  <2> HIDE DEF s
  <2>4. Disagrees(AuditNow, Human(FeedbackNow), s) <=> ((i \in GoodOf(x)) # (FaultsOf(s) = {}))
    <3>1. Disagrees(AuditNow, Human(FeedbackNow), s)
            <=> ~(s \in JudgeNegative(AuditNow) <=> Human(FeedbackNow)[s] = "negative")
      BY DEF Disagrees
    <3>2. ((i \in GoodOf(x)) # (FaultsOf(s) = {})) <=> ~(i \in GoodOf(x) <=> FaultsOf(s) = {})
      OBVIOUS
    <3>3. QED
      BY <2>2, <2>3, <3>1, <3>2
  <2>5. QED
    BY <2>1, <2>4 DEF Disputed, AgainstOf, s
<1>3. Card(BothOf(x)) \in Bijection(BothOf(x), CardsAt(x))
  BY OneLatest DEF Bijection, Injection, Surjection, IsInjective
<1>4. Card(AgainstOf(x)) \in Bijection(AgainstOf(x), Disputed(x))
  <2>1. AgainstOf(x) \subseteq BothOf(x) /\ Disputed(x) \subseteq CardsAt(x)
    BY DEF AgainstOf, Disputed
  <2>2. \A s \in Disputed(x) : \E i \in AgainstOf(x) : feedback[i].signal = s
    BY <1>2, <2>1, OneLatest
  <2>3. \A i \in AgainstOf(x) : feedback[i].signal \in Disputed(x)
    BY <1>2, <2>1
  <2>4. QED
    BY <2>1, <2>2, <2>3, OneLatest DEF Bijection, Injection, Surjection, IsInjective
<1>5. IsFiniteSet(BothOf(x)) /\ IsFiniteSet(AgainstOf(x))
  BY <1>1, RatingsFinite
<1>6. Cardinality(CardsAt(x)) = Cardinality(BothOf(x))
  BY <1>3, <1>5, FS_Bijection DEF ExistsBijection
<1>7. Cardinality(Disputed(x)) = Cardinality(AgainstOf(x))
  BY <1>4, <1>5, FS_Bijection DEF ExistsBijection
<1>8. CardsAt(x) = {} => BothOf(x) = {}
  BY OneLatest
<1>9. QED
  BY <1>6, <1>7, <1>8

(* The veto, in counts.                                                     *)
LEMMA GateIs ==
    ASSUME NEW cell, NEW dis, dis.over \in Nat, dis.of \in Nat, MinComparable \in Nat
    PROVE  G2Gate(cell, dis) = "withheld" <=>
             /\ dis.over # 0 /\ dis.over >= MinComparable
             /\ Above(dis, DisagreePct) /\ cell.demote
<1>1. AtLeast(MinComparable, 1) = IF MinComparable > 1 THEN MinComparable ELSE 1
  BY DEF AtLeast
<1>2. CASE dis.over = 0
  BY <1>1, <1>2 DEF G2Gate, NoEvidence
<1>3. CASE dis.over # 0 /\ dis.over < MinComparable
  <2>1. dis.over \in 1 .. (MinComparable - 1)
    BY <1>3
  <2>2. ~(dis.over >= AtLeast(MinComparable, 1)) /\ ~NoEvidence(dis)
    BY <1>1, <1>3 DEF NoEvidence
  <2>3. G2Gate(cell, dis) = "below_floor"
    BY <2>1, <2>2 DEF G2Gate
  <2>4. QED
    BY <1>3, <2>3
<1>4. CASE dis.over # 0 /\ dis.over >= MinComparable
  <2>1. dis.over \notin 1 .. (MinComparable - 1)
    BY <1>4
  <2>2. dis.over >= AtLeast(MinComparable, 1) /\ ~NoEvidence(dis)
    BY <1>1, <1>4 DEF NoEvidence
  <2>3. QED
    BY <1>4, <2>1, <2>2 DEF G2Gate
<1>5. QED
  BY <1>2, <1>3, <1>4

(* The verdict on one source, in the words of the property.                 *)
Evidenced(x) ==
    /\ Cardinality(RatingsOf(x)) >= G2MinN
    /\ 100 * Cardinality(GoodOf(x)) < G2Pct * Cardinality(RatingsOf(x))
    /\ ~(/\ Cardinality(BothOf(x)) >= MinComparable
         /\ 100 * Cardinality(AgainstOf(x)) > DisagreePct * Cardinality(BothOf(x)))

LEMMA DemotedIs ==
    ASSUME LedgerTyped, NEW x
    PROVE  (x \in DOMAIN AdminG2(day) /\ AdminG2(day)[x].demote) <=> Evidenced(x)
<1> DEFINE g2 == G2Status(FeedbackNow)
           by == DisagreementBySource(AuditNow, FeedbackNow)
           dis == IF x \in DOMAIN by THEN by[x] ELSE Ratio(0, 0)
           n == Cardinality(BothOf(x))
           k == Cardinality(AgainstOf(x))
           all == Cardinality(RatingsOf(x))
           good == Cardinality(GoodOf(x))
<1>0. {G2Pct, G2MinN, DisagreePct, MinComparable} \subseteq Nat
  BY LedgerAssumption DEF LedgerAssumption
<1>1. AdminG2(day) = G2Gated(g2, by)
  BY NowAre DEF AdminG2
<1>2. DOMAIN AdminG2(day) = DOMAIN g2
  BY <1>1 DEF G2Gated
<1>3. n \in Nat /\ k \in Nat /\ all \in Nat /\ good \in Nat
  <2>1. /\ BothOf(x) \in SUBSET DOMAIN feedback /\ AgainstOf(x) \in SUBSET DOMAIN feedback
        /\ RatingsOf(x) \in SUBSET DOMAIN feedback /\ GoodOf(x) \in SUBSET DOMAIN feedback
    BY DEF BothOf, AgainstOf, RatingsOf, GoodOf
  <2>2. QED
    BY <2>1, RatingsFinite
<1>4. dis = [of |-> k, over |-> n]
  <2>1. DOMAIN by = {SourceOfJudged(AuditNow, s) : s \in Judged(AuditNow) \cap DOMAIN Human(FeedbackNow)}
    BY DEF DisagreementBySource
  <2>2. x \in DOMAIN by <=> CardsAt(x) # {}
    BY <2>1 DEF CardsAt
  <2>3. x \in DOMAIN by => by[x] = Ratio(Cardinality(Disputed(x)), Cardinality(CardsAt(x)))
    BY <2>1 DEF DisagreementBySource, Disputed, CardsAt
  <2>4. CASE x \in DOMAIN by
    BY <2>3, <2>4, WordsCounted DEF Ratio
  <2>5. CASE x \notin DOMAIN by
    <3>1. BothOf(x) = {} /\ AgainstOf(x) = {}
      BY <2>2, <2>5, WordsCounted DEF AgainstOf
    <3>2. n = 0 /\ k = 0
      BY <3>1, FS_EmptySet
    <3>3. QED
      BY <2>5, <3>2 DEF Ratio
  <2>6. QED
    BY <2>4, <2>5
<1>5. CASE RatingsOf(x) = {}
  <2>1. x \notin DOMAIN g2
    BY <1>5, StatusNow
  <2>2. GoodOf(x) = {} /\ all = 0 /\ good = 0
    BY <1>5, FS_EmptySet DEF GoodOf
  <2>3. ~Evidenced(x)
    BY <1>0, <2>2 DEF Evidenced
  <2>4. QED
    BY <1>2, <2>1, <2>3
<1>6. CASE RatingsOf(x) # {}
  <2> DEFINE poor == all >= G2MinN /\ 100 * good < G2Pct * all
             veto == n >= MinComparable /\ 100 * k > DisagreePct * n
  <2>1. x \in DOMAIN g2 /\ (g2[x].demote = poor)
    BY <1>6, StatusNow
  <2>2. AdminG2(day)[x].demote = (g2[x].demote /\ G2Gate(g2[x], dis) # "withheld")
    BY <1>1, <2>1 DEF G2Gated
  <2> HIDE DEF g2, by, dis
  <2>3. dis.over \in Nat /\ dis.of \in Nat /\ dis.over = n /\ dis.of = k
    BY <1>3, <1>4
  <2>4. G2Gate(g2[x], dis) = "withheld" <=>
          /\ dis.over # 0 /\ dis.over >= MinComparable
          /\ Above(dis, DisagreePct) /\ g2[x].demote
    BY <1>0, <2>3, GateIs
  <2>5. (dis.over # 0 /\ dis.over >= MinComparable /\ Above(dis, DisagreePct)) <=> veto
    <3>1. Above(dis, DisagreePct) <=> 100 * k > DisagreePct * n
      BY <2>3 DEF Above
    <3>2. CASE n = 0
      <4>1. BothOf(x) = {}
        <5>1. BothOf(x) \in SUBSET DOMAIN feedback
          BY DEF BothOf, RatingsOf
        <5>2. QED
          BY <3>2, <5>1, RatingsFinite, FS_EmptySet
      <4>2. k = 0
        BY <4>1, FS_EmptySet DEF AgainstOf
      <4>3. ~veto
        BY <1>0, <3>2, <4>2
      <4>4. QED
        BY <2>3, <3>2, <4>3
    <3>3. CASE n # 0
      BY <2>3, <3>1, <3>3
    <3>4. QED
      BY <3>2, <3>3
  <2>6. Evidenced(x) <=> poor /\ ~veto
    BY DEF Evidenced
  <2> HIDE DEF poor, veto
  <2>7. (g2[x].demote /\ G2Gate(g2[x], dis) # "withheld") <=> poor /\ ~veto
    BY <2>1, <2>4, <2>5
  <2>8. QED
    BY <1>2, <2>1, <2>2, <2>6, <2>7
<1>7. QED
  BY <1>5, <1>6

(* The Precision page and the Admin table, for any thresholds, cards, months*)
(* and any order of ratings and verdicts: a demotion is recommended exactly *)
(* on the evidence of the month, unless the judge disputes enough of it.    *)
THEOREM DemotionFollowsEvidence == Spec => []DemotionIsEvidenced
<1>1. LedgerTyped => DemotionIsEvidenced
  <2> SUFFICES ASSUME LedgerTyped PROVE DemotionIsEvidenced
    OBVIOUS
  <2>1. PageG2(Month(day)) = AdminG2(day)
    BY DEF PageG2, AdminG2
  <2>2. \A x \in {Source[c] : c \in Cards} :
          (x \in DOMAIN AdminG2(day) /\ AdminG2(day)[x].demote) <=> Evidenced(x)
    BY DemotedIs
  <2>3. QED
    BY <2>1, <2>2 DEF DemotionIsEvidenced, Evidenced, RatingsOf, GoodOf, FaultsOf, BothOf, AgainstOf, ThisMonth
<1>2. QED
  BY <1>1, LedgerTypes, PTL

---------------------------------------------------------------------------
(* The slices.  A fold over a finite set is any function that takes the same*)
(* steps: two of them that start alike and step alike are one.              *)
LEMMA FoldsAgree ==
    ASSUME NEW D, IsFiniteSet(D), NEW g, NEW h, g[{}] = h[{}],
           \A s \in SUBSET D : s # {} /\ g[s \ {CHOOSE x \in s : TRUE}] = h[s \ {CHOOSE x \in s : TRUE}]
                                 => g[s] = h[s]
    PROVE  g[D] = h[D]
<1> DEFINE Bad == {n \in Nat : \E s \in SUBSET D : Cardinality(s) = n /\ g[s] # h[s]}
<1>1. SUFFICES ASSUME g[D] # h[D] PROVE FALSE
  OBVIOUS
<1>2. \A s \in SUBSET D : IsFiniteSet(s) /\ Cardinality(s) \in Nat
  BY FS_Subset, FS_CardinalityType
<1>3. Bad # {} /\ Bad \in SUBSET Nat
  BY <1>1, <1>2
<1>4. PICK n \in Bad : \A k \in Bad : n <= k
  <2> HIDE DEF Bad
  <2>1. QED
    BY <1>3, LeastOf
<1>5. PICK s \in SUBSET D : Cardinality(s) = n /\ g[s] # h[s]
  OBVIOUS
<1>6. s # {}
  BY <1>5
<1> DEFINE x == CHOOSE x \in s : TRUE
           t == s \ {x}
<1>7. x \in s
  BY <1>6
<1> HIDE DEF x
<1>8. t \in SUBSET D /\ Cardinality(t) = n - 1 /\ n - 1 \in Nat
  <2>1. IsFiniteSet(s) /\ Cardinality(t) = Cardinality(s) - 1
    BY <1>2, <1>7, FS_RemoveElement
  <2>2. Cardinality(t) \in Nat
    BY <1>2
  <2>3. QED
    BY <1>5, <2>1, <2>2
<1>9. g[t] = h[t]
  <2>1. n \in Nat /\ n - 1 \notin Bad
    BY <1>3, <1>4
  <2>2. QED
    BY <1>8, <2>1
<1>10. QED
  BY <1>5, <1>6, <1>9 DEF x

LEMMA SumIs ==
    ASSUME NEW f, IsFiniteSet(DOMAIN f), NEW h,
           h = [s \in SUBSET DOMAIN f |->
                  IF s = {} THEN Ratio(0, 0)
                  ELSE LET x == CHOOSE x \in s : TRUE
                       IN  Ratio(h[s \ {x}].of + f[x].of, h[s \ {x}].over + f[x].over)]
    PROVE  Sum(f) = h[DOMAIN f]
<1> DEFINE D == DOMAIN f
           Step(g) == [s \in SUBSET D |->
                  IF s = {} THEN Ratio(0, 0)
                  ELSE LET x == CHOOSE x \in s : TRUE
                       IN  Ratio(g[s \ {x}].of + f[x].of, g[s \ {x}].over + f[x].over)]
           fold == CHOOSE g : g = Step(g)
<1>1. Sum(f) = fold[D]
  BY DEF Sum, FoldFunction, FoldFunctionOnSet, MapThenFoldSet
<1>2. fold = Step(fold)
  <2>1. h = Step(h)
    OBVIOUS
  <2> HIDE DEF Step
  <2>2. QED
    BY <2>1
<1> HIDE DEF fold
<1>3. fold[D] = h[D]
  <2>1. fold[{}] = h[{}]
    BY <1>2
  <2>2. \A s \in SUBSET D :
          s # {} /\ fold[s \ {CHOOSE x \in s : TRUE}] = h[s \ {CHOOSE x \in s : TRUE}]
            => fold[s] = h[s]
    <3> SUFFICES ASSUME NEW s \in SUBSET D, s # {},
                        fold[s \ {CHOOSE x \in s : TRUE}] = h[s \ {CHOOSE x \in s : TRUE}]
                 PROVE  fold[s] = h[s]
      OBVIOUS
    <3> DEFINE x == CHOOSE x \in s : TRUE
    <3>1. fold[s] = Ratio(fold[s \ {x}].of + f[x].of, fold[s \ {x}].over + f[x].over)
      BY <1>2
    <3>2. h[s] = Ratio(h[s \ {x}].of + f[x].of, h[s \ {x}].over + f[x].over)
      OBVIOUS
    <3>3. fold[s \ {x}] = h[s \ {x}]
      OBVIOUS
    <3> HIDE DEF x
    <3>4. QED
      BY ONLY <3>1, <3>2, <3>3
  <2>3. IsFiniteSet(D)
    OBVIOUS
  <2> HIDE DEF D
  <2>4. QED
    BY ONLY <2>1, <2>2, <2>3, FoldsAgree
<1>4. QED
  BY <1>1, <1>3

LEMMA CountsIs ==
    ASSUME NEW f, IsFiniteSet(DOMAIN f), NEW h,
           h = [s \in SUBSET DOMAIN f |->
                  IF s = {} THEN 0
                  ELSE LET x == CHOOSE x \in s : TRUE IN f[x] + h[s \ {x}]]
    PROVE  FoldFunction(+, 0, f) = h[DOMAIN f]
<1> DEFINE D == DOMAIN f
           Step(g) == [s \in SUBSET D |->
                  IF s = {} THEN 0
                  ELSE LET x == CHOOSE x \in s : TRUE IN f[x] + g[s \ {x}]]
           fold == CHOOSE g : g = Step(g)
<1>1. FoldFunction(+, 0, f) = fold[D]
  BY DEF FoldFunction, FoldFunctionOnSet, MapThenFoldSet
<1>2. fold = Step(fold)
  <2>1. h = Step(h)
    OBVIOUS
  <2> HIDE DEF Step
  <2>2. QED
    BY <2>1
<1> HIDE DEF fold
<1>3. fold[D] = h[D]
  <2>1. fold[{}] = h[{}]
    BY <1>2
  <2>2. \A s \in SUBSET D :
          s # {} /\ fold[s \ {CHOOSE x \in s : TRUE}] = h[s \ {CHOOSE x \in s : TRUE}]
            => fold[s] = h[s]
    BY <1>2
  <2>3. IsFiniteSet(D)
    OBVIOUS
  <2> HIDE DEF D
  <2>4. QED
    BY ONLY <2>1, <2>2, <2>3, FoldsAgree
<1>4. QED
  BY <1>1, <1>3

(* The parts of a finite set, taken one after another, add up to it.        *)
Whole(parts, s) == UNION {parts[v] : v \in s}

LEMMA WholeIs ==
    ASSUME NEW parts, NEW D, NEW S, \A v \in D : parts[v] \subseteq S,
           \A i \in S : \E v \in D : i \in parts[v]
    PROVE  Whole(parts, D) = S
  BY DEF Whole

LEMMA PartsAdd ==
    ASSUME NEW D, NEW U, IsFiniteSet(U), NEW parts \in [D -> SUBSET U],
           \A v, w \in D : v # w => parts[v] \cap parts[w] = {},
           NEW s \in SUBSET D, NEW x \in s
    PROVE  /\ Cardinality(Whole(parts, s)) = Cardinality(Whole(parts, s \ {x})) + Cardinality(parts[x])
           /\ Cardinality(Whole(parts, {})) = 0
<1> DEFINE A == Whole(parts, s \ {x})
           B == parts[x]
<1>1. A \in SUBSET U /\ B \in SUBSET U
  BY DEF Whole
<1>2. Whole(parts, s) = A \cup B /\ A \cap B = {}
  BY DEF Whole
<1>3. Whole(parts, {}) = {}
  BY DEF Whole
<1> HIDE DEF A, B
<1>4. IsFiniteSet(A) /\ IsFiniteSet(B)
  BY <1>1, FS_Subset
<1>5. Cardinality(A) \in Nat /\ Cardinality(B) \in Nat
  BY <1>4, FS_CardinalityType
<1>6. Cardinality(A \cup B) = Cardinality(A) + Cardinality(B)
  <2>1. Cardinality(A \cup B) = Cardinality(A) + Cardinality(B) - Cardinality(A \cap B)
    BY <1>4, FS_Union
  <2>2. Cardinality(A \cap B) = 0
    BY <1>2, FS_EmptySet
  <2>3. QED
    BY <1>5, <2>1, <2>2
<1>7. QED
  BY <1>2, <1>3, <1>6, FS_EmptySet DEF A, B

LEMMA RatiosAdd ==
    ASSUME NEW D, IsFiniteSet(D), NEW U, IsFiniteSet(U),
           NEW of \in [D -> SUBSET U], NEW over \in [D -> SUBSET U],
           \A v, w \in D : v # w => of[v] \cap of[w] = {} /\ over[v] \cap over[w] = {}
    PROVE  Sum([v \in D |-> Ratio(Cardinality(of[v]), Cardinality(over[v]))])
             = Ratio(Cardinality(Whole(of, D)), Cardinality(Whole(over, D)))
<1> DEFINE f == [v \in D |-> Ratio(Cardinality(of[v]), Cardinality(over[v]))]
           h == [s \in SUBSET D |-> Ratio(Cardinality(Whole(of, s)), Cardinality(Whole(over, s)))]
<1>1. ASSUME NEW s \in SUBSET D
      PROVE  h[s] = IF s = {} THEN Ratio(0, 0)
                    ELSE LET x == CHOOSE x \in s : TRUE
                         IN  Ratio(h[s \ {x}].of + f[x].of, h[s \ {x}].over + f[x].over)
  <2>1. CASE s = {}
    <3>1. Whole(of, {}) = {} /\ Whole(over, {}) = {}
      BY DEF Whole
    <3>2. QED
      BY <2>1, <3>1, FS_EmptySet
  <2>2. CASE s # {}
    <3> DEFINE x == CHOOSE x \in s : TRUE
    <3>1. x \in s
      BY <2>2
    <3> HIDE DEF x
    <3>2. Cardinality(Whole(of, s)) = Cardinality(Whole(of, s \ {x})) + Cardinality(of[x])
      BY <3>1, PartsAdd
    <3>3. Cardinality(Whole(over, s)) = Cardinality(Whole(over, s \ {x})) + Cardinality(over[x])
      <4>1. \A v, w \in D : v # w => over[v] \cap over[w] = {}
        OBVIOUS
      <4>2. QED
        BY <3>1, <4>1, PartsAdd
    <3>4. h[s] = Ratio(h[s \ {x}].of + f[x].of, h[s \ {x}].over + f[x].over)
      BY <3>1, <3>2, <3>3 DEF Ratio
    <3>5. QED
      BY <2>2, <3>4 DEF x
  <2>3. QED
    BY <2>1, <2>2
<1>2. DOMAIN f = D
  OBVIOUS
<1>3. h = [s \in SUBSET DOMAIN f |->
             IF s = {} THEN Ratio(0, 0)
             ELSE LET x == CHOOSE x \in s : TRUE
                  IN  Ratio(h[s \ {x}].of + f[x].of, h[s \ {x}].over + f[x].over)]
  <2>1. h = [s \in SUBSET D |-> h[s]]
    OBVIOUS
  <2> HIDE DEF h, f
  <2>2. QED
    BY <1>1, <1>2, <2>1
<1>4. h[D] = Ratio(Cardinality(Whole(of, D)), Cardinality(Whole(over, D)))
  OBVIOUS
<1> HIDE DEF h, f
<1>5. Sum(f) = h[D]
  BY <1>2, <1>3, SumIs
<1>6. QED
  BY <1>4, <1>5 DEF f

LEMMA CountsAdd ==
    ASSUME NEW D, IsFiniteSet(D), NEW U, IsFiniteSet(U), NEW of \in [D -> SUBSET U],
           \A v, w \in D : v # w => of[v] \cap of[w] = {}
    PROVE  FoldFunction(+, 0, [v \in D |-> Cardinality(of[v])]) = Cardinality(Whole(of, D))
<1> DEFINE f == [v \in D |-> Cardinality(of[v])]
           h == [s \in SUBSET D |-> Cardinality(Whole(of, s))]
<1>1. ASSUME NEW s \in SUBSET D
      PROVE  h[s] = IF s = {} THEN 0 ELSE LET x == CHOOSE x \in s : TRUE IN f[x] + h[s \ {x}]
  <2>1. CASE s = {}
    <3>1. Whole(of, {}) = {}
      BY DEF Whole
    <3>2. QED
      BY <2>1, <3>1, FS_EmptySet
  <2>2. CASE s # {}
    <3> DEFINE x == CHOOSE x \in s : TRUE
    <3>1. x \in s
      BY <2>2
    <3> HIDE DEF x
    <3>2. Cardinality(Whole(of, s)) = Cardinality(Whole(of, s \ {x})) + Cardinality(of[x])
      BY <3>1, PartsAdd
    <3>3. Cardinality(Whole(of, s \ {x})) \in Nat /\ Cardinality(of[x]) \in Nat
      <4>1. Whole(of, s \ {x}) \in SUBSET U /\ of[x] \in SUBSET U
        BY <3>1 DEF Whole
      <4>2. QED
        BY <4>1, FS_Subset, FS_CardinalityType
    <3>4. h[s] = f[x] + h[s \ {x}]
      BY <3>1, <3>2, <3>3
    <3>5. QED
      BY <2>2, <3>4 DEF x
  <2>3. QED
    BY <2>1, <2>2
<1>2. DOMAIN f = D
  OBVIOUS
<1>3. h = [s \in SUBSET DOMAIN f |->
             IF s = {} THEN 0 ELSE LET x == CHOOSE x \in s : TRUE IN f[x] + h[s \ {x}]]
  <2>1. h = [s \in SUBSET D |-> h[s]]
    OBVIOUS
  <2> HIDE DEF h, f
  <2>2. QED
    BY <1>1, <1>2, <2>1
<1>4. h[D] = Cardinality(Whole(of, D))
  OBVIOUS
<1> HIDE DEF h, f
<1>5. FoldFunction(+, 0, f) = h[D]
  BY <1>2, <1>3, CountsIs
<1>6. QED
  BY <1>4, <1>5 DEF f

LEMMA RowsFinite ==
    ASSUME NEW table, IsRows(table)
    PROVE  /\ IsFiniteSet(DOMAIN table)
           /\ \A S \in SUBSET DOMAIN table : IsFiniteSet(S) /\ Cardinality(S) \in Nat
<1>1. PICK n \in Nat : DOMAIN table \in SUBSET (1 .. n)
  BY DEF IsRows
<1>2. IsFiniteSet(1 .. n)
  <2>1. 1 \in Int /\ n \in Int
    OBVIOUS
  <2>2. QED
    BY <2>1, FS_Interval
<1>3. IsFiniteSet(DOMAIN table)
  BY <1>1, <1>2, FS_Subset
<1>4. QED
  BY <1>3, FS_Subset, FS_CardinalityType

LEMMA ImageFinite ==
    ASSUME NEW f, IsFiniteSet(DOMAIN f)
    PROVE  IsFiniteSet({f[i] : i \in DOMAIN f})
<1> DEFINE T == {f[i] : i \in DOMAIN f}
           g == [i \in DOMAIN f |-> f[i]]
<1>1. g \in Surjection(DOMAIN f, T)
  BY DEF Surjection
<1>2. QED
  BY <1>1, FS_Surjection

LEMMA ValuesFinite ==
    ASSUME NEW table, IsRows(table), NEW key
    PROVE  IsFiniteSet(ValuesOf(table, key))
<1> DEFINE f == [i \in DOMAIN table |-> table[i][key]]
<1>1. ValuesOf(table, key) = {f[i] : i \in DOMAIN f}
  BY DEF ValuesOf
<1>2. DOMAIN f = DOMAIN table
  OBVIOUS
<1> HIDE DEF f
<1>3. QED
  BY <1>1, <1>2, RowsFinite, ImageFinite

(* The rates by a dimension add up to the rate.                             *)
LEMMA UsefulSlices ==
    ASSUME NEW table, IsRows(table), NEW key
    PROVE  Sum(UsefulRateBy(table, key)) = UsefulRate(table)
<1> DEFINE rated == RestrictValues(table, IsRated)
           D == ValuesOf(rated, key)
           U == DOMAIN table
           over == [v \in D |-> {i \in U : IsRated(table[i]) /\ table[i][key] = v}]
           of == [v \in D |-> {i \in U : IsPositive(table[i]) /\ table[i][key] = v}]
<1>1. DOMAIN rated = {i \in U : IsRated(table[i])} /\ \A i \in DOMAIN rated : rated[i] = table[i]
  BY DEF RestrictValues, Restrict
<1>2. IsRows(rated)
  BY <1>1 DEF IsRows
<1>3. IsFiniteSet(D) /\ IsFiniteSet(U)
  BY <1>2, ValuesFinite, RowsFinite
<1>4. ASSUME NEW v \in D
      PROVE  UsefulRate(Having(rated, key, v)) = Ratio(Cardinality(of[v]), Cardinality(over[v]))
  <2> DEFINE mine == Having(rated, key, v)
  <2>1. DOMAIN mine = over[v] /\ \A i \in DOMAIN mine : mine[i] = table[i]
    BY <1>1 DEF Having, RestrictValues, Restrict
  <2>2. {i \in DOMAIN mine : IsPositive(mine[i])} = of[v]
    BY <2>1 DEF IsRated
  <2>3. {i \in DOMAIN mine : IsRated(mine[i])} = over[v]
    BY <2>1
  <2>4. QED
    BY <2>2, <2>3 DEF UsefulRate, Count
<1>5. UsefulRateBy(table, key) = [v \in D |-> Ratio(Cardinality(of[v]), Cardinality(over[v]))]
  BY <1>4 DEF UsefulRateBy
<1>6. Whole(over, D) = {i \in U : IsRated(table[i])}
  <2>1. \A i \in U : IsRated(table[i]) => table[i][key] \in D
    BY <1>1 DEF ValuesOf
  <2>2. /\ \A v \in D : over[v] \subseteq {i \in U : IsRated(table[i])}
        /\ \A i \in {i \in U : IsRated(table[i])} : \E v \in D : i \in over[v]
    BY <2>1
  <2>3. QED
    BY <2>2, WholeIs
<1>7. Whole(of, D) = {i \in U : IsPositive(table[i])}
  <2>1. \A i \in U : IsPositive(table[i]) => table[i][key] \in D
    BY <1>1 DEF ValuesOf, IsRated
  <2>2. /\ \A v \in D : of[v] \subseteq {i \in U : IsPositive(table[i])}
        /\ \A i \in {i \in U : IsPositive(table[i])} : \E v \in D : i \in of[v]
    BY <2>1
  <2>3. QED
    BY <2>2, WholeIs
<1>8. /\ of \in [D -> SUBSET U] /\ over \in [D -> SUBSET U]
      /\ \A v, w \in D : v # w => of[v] \cap of[w] = {} /\ over[v] \cap over[w] = {}
  OBVIOUS
<1> HIDE DEF of, over, D
<1>9. Sum(UsefulRateBy(table, key)) = Ratio(Cardinality(Whole(of, D)), Cardinality(Whole(over, D)))
  BY <1>3, <1>5, <1>8, RatiosAdd
<1>10. QED
  BY <1>6, <1>7, <1>9 DEF UsefulRate, Count

LEMMA AccuracySlices ==
    ASSUME NEW table, IsRows(table), NEW key
    PROVE  Sum(AccuracyBy(table, key)) = Accuracy(table)
<1> DEFINE scored == RestrictValues(table, IsScored)
           D == ValuesOf(scored, key)
           U == DOMAIN table
           over == [v \in D |-> {i \in U : IsScored(table[i]) /\ table[i][key] = v}]
           of == [v \in D |-> {i \in U : IsCorrect(table[i]) /\ table[i][key] = v}]
<1>1. DOMAIN scored = {i \in U : IsScored(table[i])} /\ \A i \in DOMAIN scored : scored[i] = table[i]
  BY DEF RestrictValues, Restrict
<1>2. IsRows(scored)
  BY <1>1 DEF IsRows
<1>3. IsFiniteSet(D) /\ IsFiniteSet(U)
  BY <1>2, ValuesFinite, RowsFinite
<1>4. ASSUME NEW v \in D
      PROVE  Accuracy(Having(scored, key, v)) = Ratio(Cardinality(of[v]), Cardinality(over[v]))
  <2> DEFINE mine == Having(scored, key, v)
  <2>1. DOMAIN mine = over[v] /\ \A i \in DOMAIN mine : mine[i] = table[i]
    BY <1>1 DEF Having, RestrictValues, Restrict
  <2>2. {i \in DOMAIN mine : IsCorrect(mine[i])} = of[v]
    BY <2>1 DEF IsCorrect
  <2>3. {i \in DOMAIN mine : IsScored(mine[i])} = over[v]
    BY <2>1
  <2>4. QED
    BY <2>2, <2>3 DEF Accuracy, Count
<1>5. AccuracyBy(table, key) = [v \in D |-> Ratio(Cardinality(of[v]), Cardinality(over[v]))]
  BY <1>4 DEF AccuracyBy
<1>6. Whole(over, D) = {i \in U : IsScored(table[i])}
  <2>1. \A i \in U : IsScored(table[i]) => table[i][key] \in D
    BY <1>1 DEF ValuesOf
  <2>2. /\ \A v \in D : over[v] \subseteq {i \in U : IsScored(table[i])}
        /\ \A i \in {i \in U : IsScored(table[i])} : \E v \in D : i \in over[v]
    BY <2>1
  <2>3. QED
    BY <2>2, WholeIs
<1>7. Whole(of, D) = {i \in U : IsCorrect(table[i])}
  <2>1. \A i \in U : IsCorrect(table[i]) => table[i][key] \in D
    BY <1>1 DEF ValuesOf, IsCorrect
  <2>2. /\ \A v \in D : of[v] \subseteq {i \in U : IsCorrect(table[i])}
        /\ \A i \in {i \in U : IsCorrect(table[i])} : \E v \in D : i \in of[v]
    BY <2>1
  <2>3. QED
    BY <2>2, WholeIs
<1>8. /\ of \in [D -> SUBSET U] /\ over \in [D -> SUBSET U]
      /\ \A v, w \in D : v # w => of[v] \cap of[w] = {} /\ over[v] \cap over[w] = {}
  OBVIOUS
<1> HIDE DEF of, over, D
<1>9. Sum(AccuracyBy(table, key)) = Ratio(Cardinality(Whole(of, D)), Cardinality(Whole(over, D)))
  BY <1>3, <1>5, <1>8, RatiosAdd
<1>10. QED
  BY <1>6, <1>7, <1>9 DEF Accuracy, Count

(* The reasons of the ratings that give one add up to them, and where every *)
(* negative rating gives one, to the negative ratings.                      *)
LEMMA ReasonSlices ==
    ASSUME NEW table, IsRows(table), \A i \in DOMAIN table : IsNegative(table[i]) => table[i].reason # None
    PROVE  FoldFunction(+, 0, ReasonCodes(table)) = UsefulRate(table).over - UsefulRate(table).of
<1> DEFINE coded == RestrictValues(table, LAMBDA r : IsNegative(r) /\ r.reason # None)
           D == ValuesOf(coded, "reason")
           U == DOMAIN table
           of == [v \in D |-> {i \in U : IsNegative(table[i]) /\ table[i]["reason"] = v}]
           rated == {i \in U : IsRated(table[i])}
           good == {i \in U : IsPositive(table[i])}
           poor == {i \in U : IsNegative(table[i])}
<1>1. DOMAIN coded = poor /\ \A i \in DOMAIN coded : coded[i] = table[i]
  BY DEF RestrictValues, Restrict
<1>2. IsRows(coded)
  BY <1>1 DEF IsRows
<1>3. IsFiniteSet(D) /\ IsFiniteSet(U)
  BY <1>2, ValuesFinite, RowsFinite
<1>4. ASSUME NEW v \in D PROVE DOMAIN Having(coded, "reason", v) = of[v]
  BY <1>1 DEF Having, RestrictValues, Restrict
<1>5. ReasonCodes(table) = [v \in D |-> Cardinality(of[v])]
  BY <1>4 DEF ReasonCodes
<1>6. Whole(of, D) = poor
  <2>1. \A i \in U : IsNegative(table[i]) => table[i]["reason"] \in D
    BY <1>1 DEF ValuesOf
  <2>2. /\ \A v \in D : of[v] \subseteq poor
        /\ \A i \in poor : \E v \in D : i \in of[v]
    BY <2>1
  <2>3. QED
    BY <2>2, WholeIs
<1>7. of \in [D -> SUBSET U] /\ \A v, w \in D : v # w => of[v] \cap of[w] = {}
  OBVIOUS
<1> HIDE DEF of, D
<1>8. FoldFunction(+, 0, ReasonCodes(table)) = Cardinality(poor)
  BY <1>3, <1>5, <1>6, <1>7, CountsAdd
<1>9. UsefulRate(table) = Ratio(Cardinality(good), Cardinality(rated))
  BY DEF UsefulRate, Count
<1>10. poor = rated \ good /\ rated \cap good = good
  BY DEF IsRated, IsPositive, IsNegative, Positive, Negative
<1>11. Cardinality(poor) = Cardinality(rated) - Cardinality(good)
  <2>1. IsFiniteSet(rated)
    BY RowsFinite
  <2> HIDE DEF poor, rated, good
  <2>2. Cardinality(rated \ good) = Cardinality(rated) - Cardinality(rated \cap good)
    BY <2>1, FS_Difference
  <2>3. QED
    BY <1>10, <2>2
<1>12. UsefulRate(table).over - UsefulRate(table).of = Cardinality(poor)
  BY <1>9, <1>11 DEF Ratio
<1> HIDE DEF poor
<1>13. QED
  BY <1>8, <1>12, Zenon

(* The disagreement shown beside each rated source, over all of them.       *)
LEMMA DisagreementSlices ==
    ASSUME LedgerTyped
    PROVE  Sum([x \in DOMAIN AdminG2(day) |-> AdminG2(day)[x].disagreement])
             = Disagreement(AuditNow, FeedbackNow)
<1> DEFINE g2 == G2Status(FeedbackNow)
           by == DisagreementBySource(AuditNow, FeedbackNow)
           D == DOMAIN g2
           U == Judged(AuditNow) \cap DOMAIN Human(FeedbackNow)
           over == [x \in D |-> CardsAt(x)]
           of == [x \in D |-> Disputed(x)]
<1>1. AdminG2(day) = G2Gated(g2, by)
  BY NowAre DEF AdminG2
<1>2. DOMAIN AdminG2(day) = D
  BY <1>1 DEF G2Gated
<1>3. ASSUME NEW x \in D
      PROVE  AdminG2(day)[x].disagreement = Ratio(Cardinality(of[x]), Cardinality(over[x]))
  <2>1. AdminG2(day)[x].disagreement = IF x \in DOMAIN by THEN by[x] ELSE Ratio(0, 0)
    BY <1>1 DEF G2Gated
  <2>2. DOMAIN by = {SourceOfJudged(AuditNow, s) : s \in U}
    BY DEF DisagreementBySource
  <2>3. x \in DOMAIN by <=> CardsAt(x) # {}
    BY <2>2 DEF CardsAt
  <2>4. x \in DOMAIN by => by[x] = Ratio(Cardinality(Disputed(x)), Cardinality(CardsAt(x)))
    BY <2>2 DEF DisagreementBySource, Disputed, CardsAt
  <2>5. CASE x \in DOMAIN by
    BY <2>1, <2>4, <2>5
  <2>6. CASE x \notin DOMAIN by
    <3>1. CardsAt(x) = {} /\ Disputed(x) = {}
      BY <2>3, <2>6 DEF Disputed
    <3>2. QED
      BY <2>1, <2>6, <3>1, FS_EmptySet
  <2>7. QED
    BY <2>5, <2>6
<1>4. [x \in DOMAIN AdminG2(day) |-> AdminG2(day)[x].disagreement]
        = [x \in D |-> Ratio(Cardinality(of[x]), Cardinality(over[x]))]
  <2> HIDE DEF D, of, over
  <2>1. QED
    BY <1>2, <1>3
<1>5. IsRows(FeedbackNow)
  <2>1. DOMAIN FeedbackNow \in SUBSET (1 .. Len(feedback)) /\ Len(feedback) \in Nat
    BY NowAre DEF FeedbackNow, Ratings
  <2>2. QED
    BY <2>1 DEF IsRows
<1>6. D = ValuesOf(FeedbackNow, "source") /\ DOMAIN Human(FeedbackNow) = ValuesOf(FeedbackNow, "signal")
  BY StatusNow DEF G2Status, Human
<1>7. IsFiniteSet(D) /\ IsFiniteSet(U)
  <2>1. IsFiniteSet(D) /\ IsFiniteSet(DOMAIN Human(FeedbackNow))
    BY <1>5, <1>6, ValuesFinite
  <2> HIDE DEF D
  <2>2. QED
    BY <2>1, FS_Intersection
<1>8. \A s \in U : SourceOfJudged(AuditNow, s) \in D
  <2> SUFFICES ASSUME NEW s \in U PROVE SourceOfJudged(AuditNow, s) \in D
    OBVIOUS
  <2>1. SourceOfJudged(AuditNow, s) = Source[s]
    BY JudgeNow
  <2>2. PICK i \in Ratings : feedback[i].signal = s
    BY <1>6 DEF ValuesOf, FeedbackNow, FeedbackRows, Ratings
  <2>3. i \in RatingsOf(Source[s])
    BY <2>2 DEF Ratings, RatingsOf
  <2>4. Source[s] \in D
    BY <2>3, StatusNow
  <2>5. QED
    BY <2>1, <2>4
<1>9. Whole(over, D) = U
  BY <1>8 DEF Whole, CardsAt
<1>10. Whole(of, D) = {s \in U : Disagrees(AuditNow, Human(FeedbackNow), s)}
  BY <1>8 DEF Whole, CardsAt, Disputed
<1>11. /\ of \in [D -> SUBSET U] /\ over \in [D -> SUBSET U]
       /\ \A v, w \in D : v # w => of[v] \cap of[w] = {} /\ over[v] \cap over[w] = {}
  BY DEF CardsAt, Disputed
<1>12. Disagreement(AuditNow, FeedbackNow) = Ratio(Cardinality(Whole(of, D)), Cardinality(Whole(over, D)))
  BY <1>9, <1>10 DEF Disagreement
<1> HIDE DEF D, U, of, over
<1>13. QED
  BY <1>4, <1>7, <1>11, <1>12, RatiosAdd

(* The half-life view has a row per card, with its last word if it has one. *)
RowOf(c) == [signal |-> c, trigger |-> Trigger[c],
             verdict |-> LET mine == Having(feedback, "signal", c)
                         IN  IF DOMAIN mine = {} THEN None ELSE Latest(mine).verdict]

LEMMA CardRows == HalfLifeRows = {RowOf(c) : c \in Cards}
  BY DEF HalfLifeRows, RowOf

LEMMA WordOf ==
    ASSUME LedgerTyped, NEW c \in Cards
    PROVE  /\ IsRated(RowOf(c)) <=> c \in DOMAIN Human(FeedbackRows)
           /\ IsPositive(RowOf(c)) <=>
                c \in DOMAIN Human(FeedbackRows) /\ Human(FeedbackRows)[c] = "positive"
           /\ DOMAIN Human(FeedbackRows) \subseteq Cards
<1> DEFINE S == {i \in DOMAIN feedback : feedback[i].signal = c}
           mine == Having(feedback, "signal", c)
           said == Having(FeedbackRows, "signal", c)
<1>0. None \notin Positive \cup Negative
  BY LedgerAssumption DEF LedgerAssumption
<1>1. /\ DOMAIN FeedbackRows = DOMAIN feedback
      /\ \A i \in DOMAIN feedback : /\ FeedbackRows[i].signal = feedback[i].signal
                                    /\ FeedbackRows[i].verdict = feedback[i].verdict
                                    /\ feedback[i].verdict \in Positive \cup Negative
                                    /\ feedback[i].signal \in Cards
                                    /\ IsRated(FeedbackRows[i])
  BY NowAre DEF FeedbackRows, RatedRows, IsRated, IsPositive, IsNegative
<1>2. RestrictValues(FeedbackRows, IsRated) = FeedbackRows
  <2>1. {i \in DOMAIN FeedbackRows : IsRated(FeedbackRows[i])} = DOMAIN feedback
    BY <1>1
  <2>2. QED
    BY <2>1 DEF RestrictValues, Restrict, FeedbackRows
<1>3. DOMAIN mine = S /\ \A i \in S : mine[i] = feedback[i]
  BY DEF Having, RestrictValues, Restrict
<1>4. DOMAIN said = S /\ \A i \in S : said[i] = FeedbackRows[i]
  BY <1>1 DEF Having, RestrictValues, Restrict
<1>5. DOMAIN Human(FeedbackRows) = {feedback[i].signal : i \in DOMAIN feedback}
  BY <1>1, <1>2 DEF Human, ValuesOf
<1>6. c \in DOMAIN Human(FeedbackRows) <=> S # {}
  BY <1>5
<1>7. IsRows(mine)
  <2>1. S \in SUBSET (1 .. Len(feedback)) /\ Len(feedback) \in Nat
    BY NowAre
  <2>2. QED
    BY <1>3, <2>1 DEF IsRows
<1>8. RowOf(c).verdict = IF S = {} THEN None ELSE Latest(mine).verdict
  BY <1>3 DEF RowOf
<1>9. CASE S = {}
  <2>1. RowOf(c).verdict = None
    BY <1>8, <1>9
  <2>2. ~IsRated(RowOf(c)) /\ ~IsPositive(RowOf(c))
    BY <1>0, <2>1 DEF IsRated, IsPositive, IsNegative
  <2>3. QED
    BY <1>1, <1>5, <1>6, <1>9, <2>2
<1>10. CASE S # {}
  <2> HIDE DEF mine, said
  <2>1. Max(DOMAIN mine) \in S
    BY <1>3, <1>7, <1>10, LatestIs
  <2>2. Latest(mine).verdict = Latest(said).verdict /\ Latest(mine).verdict \in Positive \cup Negative
    BY <1>1, <1>3, <1>4, <2>1 DEF Latest
  <2>3. Human(FeedbackRows)[c] = IF IsPositive(Latest(said)) THEN "positive" ELSE "negative"
    BY <1>2, <1>6, <1>10 DEF Human, said
  <2>4. IsPositive(RowOf(c)) <=> IsPositive(Latest(said))
    BY <1>8, <1>10, <2>2 DEF IsPositive
  <2>5. IsRated(RowOf(c))
    BY <1>8, <1>10, <2>2 DEF IsRated, IsPositive, IsNegative
  <2>6. QED
    BY <1>1, <1>5, <1>6, <1>10, <2>3, <2>4, <2>5
<1>11. QED
  BY <1>9, <1>10

LEMMA HalfLifeSlices ==
    ASSUME LedgerTyped
    PROVE  LET human == Human(FeedbackRows)
           IN  Sum([t \in {Trigger[c] : c \in Cards} |-> HalfLife(HalfLifeRows, t).useful])
                 = Ratio(Cardinality({s \in DOMAIN human : human[s] = "positive"}),
                         Cardinality(DOMAIN human))
<1> DEFINE human == Human(FeedbackRows)
           D == {Trigger[c] : c \in Cards}
           U == HalfLifeRows
           over == [t \in D |-> {r \in U : r.trigger = t /\ IsRated(r)}]
           of == [t \in D |-> {r \in U : r.trigger = t /\ IsPositive(r)}]
           good == {s \in DOMAIN human : human[s] = "positive"}
           Row(S) == [c \in S |-> RowOf(c)]
<1>1. IsFiniteSet(Cards)
  BY LedgerAssumption DEF LedgerAssumption
<1>2. IsFiniteSet(D)
  <2> DEFINE f == [c \in Cards |-> Trigger[c]]
  <2>1. D = {f[c] : c \in DOMAIN f} /\ DOMAIN f = Cards
    OBVIOUS
  <2> HIDE DEF f, D
  <2>2. QED
    BY <1>1, <2>1, ImageFinite
<1>3. IsFiniteSet(U)
  <2> DEFINE f == [c \in Cards |-> RowOf(c)]
  <2>1. U = {f[c] : c \in DOMAIN f} /\ DOMAIN f = Cards
    BY CardRows
  <2> HIDE DEF f, U
  <2>2. QED
    BY <1>1, <2>1, ImageFinite
<1>4. ASSUME NEW t \in D
      PROVE  HalfLife(HalfLifeRows, t).useful = Ratio(Cardinality(of[t]), Cardinality(over[t]))
  <2> DEFINE mine == {r \in U : r.trigger = t}
  <2>1. {r \in mine : IsPositive(r)} = of[t] /\ {r \in mine : IsRated(r)} = over[t]
    OBVIOUS
  <2>2. HalfLife(U, t).useful = Ratio(Cardinality({r \in mine : IsPositive(r)}),
                                      Cardinality({r \in mine : IsRated(r)}))
    BY DEF HalfLife
  <2>3. QED
    BY <2>1, <2>2
<1>5. Whole(over, D) = {r \in U : IsRated(r)} /\ Whole(of, D) = {r \in U : IsPositive(r)}
  <2>1. \A r \in U : r.trigger \in D
    BY CardRows DEF RowOf
  <2>2. /\ \A t \in D : over[t] \subseteq {r \in U : IsRated(r)}
        /\ \A r \in {r \in U : IsRated(r)} : \E t \in D : r \in over[t]
        /\ \A t \in D : of[t] \subseteq {r \in U : IsPositive(r)}
        /\ \A r \in {r \in U : IsPositive(r)} : \E t \in D : r \in of[t]
    BY <2>1
  <2> HIDE DEF D, U, over, of
  <2>3. QED
    BY <2>2, WholeIs
<1>6. /\ of \in [D -> SUBSET U] /\ over \in [D -> SUBSET U]
      /\ \A v, w \in D : v # w => of[v] \cap of[w] = {} /\ over[v] \cap over[w] = {}
  OBVIOUS
<1>7. Sum([t \in D |-> HalfLife(HalfLifeRows, t).useful])
        = Ratio(Cardinality(Whole(of, D)), Cardinality(Whole(over, D)))
  <2> HIDE DEF D, U, of, over
  <2>1. [t \in D |-> HalfLife(HalfLifeRows, t).useful]
          = [t \in D |-> Ratio(Cardinality(of[t]), Cardinality(over[t]))]
    BY <1>4
  <2>2. QED
    BY <1>2, <1>3, <1>6, <2>1, RatiosAdd
<1>8. \A c, d \in Cards : RowOf(c) = RowOf(d) => c = d
  <2>1. \A c \in Cards : RowOf(c).signal = c
    BY DEF RowOf
  <2>2. QED
    BY <2>1
<1>9. \A c \in Cards : /\ IsRated(RowOf(c)) <=> c \in DOMAIN human
                       /\ IsPositive(RowOf(c)) <=> c \in good
  BY WordOf
<1>10. DOMAIN human \subseteq Cards
  <2>1. CASE Cards = {}
    <3>1. DOMAIN feedback = {}
      BY <2>1, NowAre DEF RatedRows
    <3>2. DOMAIN human = {}
      BY <3>1 DEF Human, ValuesOf, RestrictValues, Restrict, FeedbackRows
    <3>3. QED
      BY <3>2
  <2>2. CASE Cards # {}
    BY <2>2, WordOf
  <2>3. QED
    BY <2>1, <2>2
<1> HIDE DEF human
<1>11. Row(DOMAIN human) \in Bijection(DOMAIN human, {r \in U : IsRated(r)})
  BY <1>8, <1>9, <1>10, CardRows DEF Bijection, Injection, Surjection, IsInjective
<1>12. Row(good) \in Bijection(good, {r \in U : IsPositive(r)})
  BY <1>8, <1>9, <1>10, CardRows DEF Bijection, Injection, Surjection, IsInjective
<1>13. IsFiniteSet(DOMAIN human) /\ IsFiniteSet(good)
  <2>1. good \in SUBSET Cards /\ DOMAIN human \in SUBSET Cards
    BY <1>10
  <2>2. QED
    BY <1>1, <2>1, FS_Subset
<1>14. Cardinality({r \in U : IsRated(r)}) = Cardinality(DOMAIN human)
  BY <1>11, <1>13, FS_Bijection DEF ExistsBijection
<1>15. Cardinality({r \in U : IsPositive(r)}) = Cardinality(good)
  BY <1>12, <1>13, FS_Bijection DEF ExistsBijection
<1>16. QED
  BY <1>5, <1>7, <1>14, <1>15 DEF human

(* A click in progress was found valid, so a negative rating has a reason.  *)
ReasonsGiven ==
    /\ write # NoWrite => IsValid(write.ask)
    /\ \A i \in DOMAIN feedback : feedback[i].verdict = "not_useful" => feedback[i].reason # None

LEMMA ReasonsAreGiven == Spec => []ReasonsGiven
<1>1. Init => ReasonsGiven
  BY DEF Init, WritesInit, ReasonsGiven
<1>2. LedgerTyped /\ ReasonsGiven /\ [Next]_vars => ReasonsGiven'
  <2> SUFFICES ASSUME LedgerTyped, ReasonsGiven, [Next]_vars PROVE ReasonsGiven'
    OBVIOUS
  <2>0. WriteOrQuiet
    BY StepsWrite
  <2>1. write' # NoWrite => IsValid(write'.ask)
    <3>1. CASE \E a \in Asks : Click(a)
      BY <3>1 DEF Click, ReasonsGiven
    <3>2. CASE ~ \E a \in Asks : Click(a)
      <4>1. CASE write = NoWrite
        BY <2>0, <3>2, <4>1 DEF WriteOrQuiet, WritesNext, WriteStep, Execute, Commit, Busy, WebDies,
           RunInserts, RunCommits, Tick, Quiet, writeVars
      <4>2. CASE write # NoWrite
        <5>1. write \in [ask : Asks, attempt : 1 .. Attempts, done : 0 .. 2]
          BY <4>2 DEF LedgerTyped, WritesTypeOK
        <5>2. write' = NoWrite \/ write'.ask = write.ask
          BY <2>0, <3>2, <4>2, <5>1 DEF WriteOrQuiet, WritesNext, WriteStep, Execute, Commit, Busy,
             WebDies, RunInserts, RunCommits, Tick, Quiet, writeVars
        <5>3. QED
          BY <4>2, <5>2 DEF ReasonsGiven
      <4>3. QED
        BY <4>1, <4>2
    <3>3. QED
      BY <3>1, <3>2
  <2>2. \A i \in DOMAIN feedback' : feedback'[i].verdict = "not_useful" => feedback'[i].reason # None
    <3>1. CASE feedback' = feedback
      BY <3>1 DEF ReasonsGiven
    <3>2. CASE feedback' # feedback
      <4>1. Commit
        BY <2>0, <3>2 DEF WriteOrQuiet, WritesNext, WriteStep, Click, Execute, Busy, WebDies,
                RunInserts, RunCommits, Tick, Quiet, tables, writeVars
      <4> DEFINE a == write.ask
                 all == {Statements(a)[i] : i \in DOMAIN Statements(a)}
                 row == [signal |-> a.signal, verdict |-> a.verdict, reason |-> a.reason, day |-> day]
      <4>2. a \in Asks /\ Apply(a, all)
        BY <4>1, CommitWhole DEF LedgerTyped
      <4>3. feedback' = Append(feedback, row) /\ "feedback" \in all
        BY <3>2, <4>2 DEF Apply
      <4>4. a.kind = "feedback"
        BY <4>2, <4>3, StatementFacts
      <4>5. row.verdict = "not_useful" => row.reason # None
        BY <4>1, <4>4 DEF ReasonsGiven, IsValid, Commit
      <4>6. feedback \in Seq(RatedRows)
        BY DEF LedgerTyped
      <4> HIDE DEF row
      <4>7. \A i \in DOMAIN feedback' :
              (i \in DOMAIN feedback /\ feedback'[i] = feedback[i]) \/ feedback'[i] = row
        BY <4>3, <4>6
      <4>8. QED
        BY <4>5, <4>7 DEF ReasonsGiven
    <3>3. QED
      BY <3>1, <3>2
  <2>3. QED
    BY <2>1, <2>2 DEF ReasonsGiven
<1>3. QED
  BY <1>1, <1>2, LedgerTypes, PTL DEF Spec

(* precision_report, for any cards, sources, ratings, verdicts and clock: a *)
(* rate's slices, the reasons, the disagreements beside the sources and the *)
(* half-life rows add up to the figures they split.                         *)
THEOREM SlicesMakeTheWhole == Spec => []SlicesAddUp
<1>1. LedgerTyped /\ ReasonsGiven => SlicesAddUp
  <2> SUFFICES ASSUME LedgerTyped, ReasonsGiven PROVE SlicesAddUp
    OBVIOUS
  <2> DEFINE report == PrecisionReport(day)
             human == Human(FeedbackRows)
             D == {Trigger[c] : c \in Cards}
  <2>1. IsRows(FeedbackNow) /\ IsRows(AuditNow)
    <3>1. /\ DOMAIN FeedbackNow \in SUBSET (1 .. Len(feedback)) /\ Len(feedback) \in Nat
          /\ DOMAIN AuditNow \in SUBSET (1 .. Len(audit)) /\ Len(audit) \in Nat
      BY NowAre DEF FeedbackNow, Ratings, AuditNow, JudgedNow
    <3>2. QED
      BY <3>1 DEF IsRows
  <2>2. /\ report.useful_overall = UsefulRate(FeedbackNow)
        /\ report.auto_overall = Accuracy(AuditNow)
        /\ report.reason_codes = ReasonCodes(FeedbackNow)
        /\ report.disagreement = Disagreement(AuditNow, FeedbackNow)
        /\ report.g2 = AdminG2(day)
    BY NowAre DEF PrecisionReport, PageG2, AdminG2
  <2>3. \A k \in Dimensions : /\ report.useful_by[k] = UsefulRateBy(FeedbackNow, k)
                              /\ report.auto_by[k] = AccuracyBy(AuditNow, k)
    BY NowAre DEF PrecisionReport
  <2>4. report.halflife = [t \in D |-> HalfLife(HalfLifeRows, t)]
    BY DEF PrecisionReport
  <2> HIDE DEF report
  <2>5. \A k \in Dimensions : /\ Sum(report.useful_by[k]) = report.useful_overall
                              /\ Sum(report.auto_by[k]) = report.auto_overall
    BY <2>1, <2>2, <2>3, UsefulSlices, AccuracySlices
  <2>6. FoldFunction(+, 0, report.reason_codes) = report.useful_overall.over - report.useful_overall.of
    <3>1. \A i \in DOMAIN FeedbackNow : IsNegative(FeedbackNow[i]) => FeedbackNow[i].reason # None
      BY DEF FeedbackNow, FeedbackRows, Ratings, IsNegative, Negative, ReasonsGiven
    <3>2. QED
      BY <2>1, <2>2, <3>1, ReasonSlices
  <2>7. Sum([x \in DOMAIN report.g2 |-> report.g2[x].disagreement]) = report.disagreement
    BY <2>2, DisagreementSlices
  <2>8. Sum([t \in DOMAIN report.halflife |-> report.halflife[t].useful])
          = Ratio(Cardinality({s \in DOMAIN human : human[s] = "positive"}), Cardinality(DOMAIN human))
    <3>1. [t \in DOMAIN report.halflife |-> report.halflife[t].useful]
            = [t \in D |-> HalfLife(HalfLifeRows, t).useful]
      BY <2>4
    <3>2. QED
      BY <3>1, HalfLifeSlices
  <2>9. QED
    BY <2>5, <2>6, <2>7, <2>8 DEF SlicesAddUp, report
<1>2. QED
  BY <1>1, LedgerTypes, ReasonsAreGiven, PTL
=============================================================================
