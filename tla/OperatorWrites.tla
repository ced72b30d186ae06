---------------------------- MODULE OperatorWrites ----------------------------
(* The two writes the operator makes without the ingestion lock, feedback and  *)
(* triage, beside a run that holds SQLite's writer lock from its first insert  *)
(* to its next commit (app/ui/data.py).                                        *)
EXTENDS Integers, Sequences, FiniteSets

CONSTANTS
    None,           \* SQL NULL
    Reviews,        \* rows of review_queue
    Candidates,     \* those that name a candidate entity
    Asks,           \* what the operator may click
    Attempts,       \* 1 + Len(WRITE_RETRY_DELAYS_S)
    LastDay, MaxRatings, MaxTriage    \* bounds: days, feedback rows, triage clicks

ASSUME WritesAssumption ==
    /\ Candidates \subseteq Reviews /\ Attempts \in Nat \ {0} /\ LastDay \in Nat
    /\ None \notin {"saved", "busy", "invalid"}
    /\ \A a \in Asks :
         \/ a.kind = "feedback"
         \/ a.kind = "triage" /\ a.row \in Reviews /\ a.accept \in BOOLEAN

VARIABLES
    day,            \* the UTC clock
    feedback,       \* rows of feedback, in order of ts and rowid
    decisions,      \* entity_match_decisions by a human, of each review row
    disposition,    \* of each review row
    lock,           \* who holds SQLite's writer lock
    write,          \* the click in progress: what, which attempt, statements done
    reply           \* the answer a step gives the click, if any

tables    == <<feedback, decisions, disposition>>
writeVars == <<day, tables, lock, write, reply>>

NoWrite == [ask |-> None, attempt |-> 0, done |-> 0]

WritesInit ==
    /\ day = 0
    /\ feedback = <<>>
    /\ decisions = [r \in Reviews |-> <<>>]
    /\ disposition = [r \in Reviews |-> "pending"]
    /\ lock = "free" /\ write = NoWrite /\ reply = None

(* The statements of a click's transaction: a row that names no candidate     *)
(* entity is disposed of without a decision.                                  *)
Statements(a) ==
    IF a.kind = "feedback" THEN <<"feedback">>
    ELSE IF a.row \in Candidates THEN <<"decision", "disposition">>
    ELSE <<"disposition">>

IsValid(a) == a.kind = "feedback" => (a.verdict = "not_useful" => a.reason # None)

Triaged == {r \in Reviews : disposition[r] # "pending"}

InBound(a) ==
    IF a.kind = "feedback" THEN Len(feedback) < MaxRatings
                           ELSE Cardinality(Triaged \ {a.row}) < MaxTriage
                                /\ Len(decisions[a.row]) < MaxTriage

Click(a) ==
    /\ write = NoWrite /\ InBound(a)
    /\ IF IsValid(a)
       THEN write' = [ask |-> a, attempt |-> 1, done |-> 0] /\ reply' = None
       ELSE reply' = "invalid" /\ UNCHANGED write
    /\ UNCHANGED <<day, tables, lock>>

(* What a set of statements of a click, once committed, does to the tables.   *)
Apply(a, done) ==
    /\ feedback' = IF "feedback" \in done
                   THEN Append(feedback, [signal |-> a.signal, verdict |-> a.verdict,
                                          reason |-> a.reason, day |-> day])
                   ELSE feedback
    /\ decisions' = IF "decision" \in done
                    THEN [decisions EXCEPT ![a.row] =
                            Append(@, IF a.accept THEN "reviewed" ELSE "rejected")]
                    ELSE decisions
    /\ disposition' = IF "disposition" \in done
                      THEN [disposition EXCEPT ![a.row] =
                              IF a.accept THEN "accepted" ELSE "rejected"]
                      ELSE disposition

(* Wrong on purpose: each statement is committed as it is executed.      *)
ExecuteAndCommit ==
    /\ write # NoWrite /\ lock \in {"free", "operator"}
    /\ write.done < Len(Statements(write.ask))
    /\ write' = [write EXCEPT !.done = @ + 1]
    /\ lock' = "free" /\ reply' = None
    /\ Apply(write.ask, {Statements(write.ask)[write.done + 1]})
    /\ UNCHANGED day

(* A statement takes the writer lock, unless an earlier one took it.          *)
Execute ==
    /\ write # NoWrite /\ lock \in {"free", "operator"}
    /\ write.done < Len(Statements(write.ask))
    /\ write' = [write EXCEPT !.done = @ + 1]
    /\ lock' = "operator" /\ reply' = None
    /\ UNCHANGED <<day, tables>>

Commit ==
    /\ write # NoWrite /\ write.done = Len(Statements(write.ask))
    /\ Apply(write.ask, {Statements(write.ask)[i] : i \in 1 .. write.done})
    /\ write' = NoWrite /\ reply' = "saved" /\ lock' = "free"
    /\ UNCHANGED day

(* Wrong on purpose: a busy database is tried again for ever.           *)
BusyForEver ==
    /\ write # NoWrite /\ lock = "run"
    /\ write' = [write EXCEPT !.done = 0] /\ reply' = None
    /\ UNCHANGED <<day, tables, lock>>

(* The database stayed busy: roll back, and wait for another try or give up.  *)
Busy ==
    /\ write # NoWrite /\ lock = "run"
    /\ IF write.attempt < Attempts
       THEN write' = [write EXCEPT !.attempt = @ + 1, !.done = 0] /\ reply' = None
       ELSE write' = NoWrite /\ reply' = "busy"
    /\ UNCHANGED <<day, tables, lock>>

(* The web process dies before it commits.                                    *)
WebDies ==
    /\ write # NoWrite
    /\ write' = NoWrite /\ reply' = None
    /\ lock' = IF lock = "operator" THEN "free" ELSE lock
    /\ UNCHANGED <<day, tables>>

RunInserts ==
    /\ lock = "free" /\ lock' = "run" /\ reply' = None
    /\ UNCHANGED <<day, tables, write>>

RunCommits ==
    /\ lock = "run" /\ lock' = "free" /\ reply' = None
    /\ UNCHANGED <<day, tables, write>>

(* A click is answered within the day.                                        *)
Tick ==
    /\ day < LastDay /\ write = NoWrite
    /\ day' = day + 1 /\ reply' = None
    /\ UNCHANGED <<tables, lock, write>>

WriteStep == Execute \/ Commit \/ Busy

WritesNext ==
    \/ \E a \in Asks : Click(a)
    \/ WriteStep
    \/ WebDies
    \/ RunInserts
    \/ RunCommits
    \/ Tick

WritesSpec == WritesInit /\ [][WritesNext]_writeVars

---------------------------------------------------------------------------
WritesTypeOK ==
    /\ decisions \in [Reviews -> Seq({"reviewed", "rejected"})]
    /\ disposition \in [Reviews -> {"pending", "accepted", "rejected"}]
    /\ lock \in {"free", "run", "operator"}
    /\ write = NoWrite \/ write \in [ask : Asks, attempt : 1 .. Attempts, done : 0 .. 2]
    /\ reply \in {None, "saved", "busy", "invalid"}

(* A click is saved whole, at the step that says so, or leaves nothing: a     *)
(* busy answer means that neither table of a triage decision was written,     *)
(* however its attempts and the run's transactions interleaved.               *)
SavedOnceOrTold ==
    [][ /\ tables' # tables => reply' = "saved"
        /\ reply' = "saved" =>
             LET a == write.ask
             IN  Apply(a, {Statements(a)[i] : i \in DOMAIN Statements(a)}) ]_writeVars

(* A review row the operator is not still asked about carries a human         *)
(* decision, when it has a candidate to decide about, and the last decision   *)
(* says what the row says.                                                    *)
DisposedIsDecided ==
    \A r \in Candidates :
        /\ disposition[r] = "pending" <=> decisions[r] = <<>>
        /\ disposition[r] # "pending" =>
             (disposition[r] = "accepted" <=> decisions[r][Len(decisions[r])] = "reviewed")

(* Every click is answered, though the run never let go of the database.      *)
EveryClickIsAnswered == write # NoWrite ~> write = NoWrite

==============================================================================
