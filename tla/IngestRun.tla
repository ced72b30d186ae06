------------------------------ MODULE IngestRun ------------------------------
(***************************************************************************)
(* One source and its runs, app/ingest/runner.py: run_source() with its    *)
(* policy checks, its batches and its ledger row, cron and manual runs,    *)
(* and the operator's toggle (set_source_enabled, app/ui/data.py).         *)
(*                                                                         *)
(* Runs hold the ingestion lock (IngestLock), so there is one at a time.   *)
(* Of the ledger (source_runs) the code only ever asks for the last row    *)
(* and for the last success.  Time is counted in hours.                    *)
(***************************************************************************)
EXTENDS Naturals, FiniteSets

CONSTANTS
    Events,       \* what the source can publish
    Never,        \* no success yet
    Cadence,      \* hours between two cron runs
    Ttl,          \* source_policies.ttl, in hours
    Batch,        \* COMMIT_EVERY
    MaxRunHours,  \* `timeout` of a tick, in hours
    MaxManual,    \* bound: runs an operator starts
    MaxKills,     \* bound: runs killed
    MaxSeen       \* bound: events one response delivers, repeats included

ASSUME NeverAssumption == Never \notin Nat
ASSUME TimeAssumption ==
    Cadence \in Nat \ {0} /\ Ttl \in Nat /\ MaxRunHours \in Nat
ASSUME BatchAssumption == Batch \in Nat \ {0}
ASSUME BoundAssumption == MaxManual \in Nat /\ MaxKills \in Nat /\ MaxSeen \in Nat
ASSUME EventsAssumption == IsFiniteSet(Events)

VARIABLES
    enabled,    \* source_policies.enabled, "on" or "off"
    published,  \* what a fetch would deliver
    hour,       \* hours since the last cron slot
    due,        \* the slot's run is still to start, "yes" or "no"
    phase,         \* the running run's next step, "idle" without one
    mode,       \* how it was started: cron, manual, --force, --limit
    ran,        \* hours it has been going
    todo,       \* events its response still holds
    seen, new,  \* its counters
    batch,      \* events it inserted since its last commit
    mine,       \* committed raw_events with its run_id
    older,      \* committed raw_events with an earlier run_id
    last,       \* status of the ledger's last row, "none" without one
    recorded,   \* records_new of the last row
    age,        \* hours since the last success finished, capped
    manual, kills

policy == <<enabled, published, hour, due>>
run    == <<phase, mode, ran, todo, seen, new, batch>>
rows   == <<mine, older>>
ledger == <<last, recorded, age>>
bounds == <<manual, kills>>
runVars   == <<policy, run, rows, ledger, bounds>>

MaxAge   == Cadence + Ttl + 1
Modes    == {"cron", "manual", "force", "limit"}
Statuses == {"running", "success", "error", "skipped_disabled", "skipped_ttl"}

(* Types; and a run's own rows are not those of an earlier run.             *)
RunsTypeOK ==
    /\ enabled \in {"on", "off"} /\ due \in {"yes", "no"}
    /\ published \subseteq Events
    /\ hour \in 0 .. Cadence - 1
    /\ phase \in {"idle", "policy", "fetch", "success", "error"}
    /\ mode \in Modes
    /\ ran \in 0 .. MaxRunHours
    /\ todo \subseteq published
    /\ seen \in 0 .. MaxSeen /\ new \in 0 .. MaxSeen
    /\ batch \subseteq Events /\ mine \subseteq Events /\ older \subseteq Events
    /\ last \in Statuses \cup {"none"}
    /\ recorded \in 0 .. MaxSeen
    /\ age \in 0 .. MaxAge \cup {Never}
    /\ manual \in 0 .. MaxManual /\ kills \in 0 .. MaxKills

RunsInit ==
    /\ enabled = "on" /\ published = {} /\ hour = 0 /\ due = "yes"
    /\ phase = "idle" /\ mode = "cron" /\ ran = 0 /\ todo = {}
    /\ seen = 0 /\ new = 0 /\ batch = {}
    /\ mine = {} /\ older = {}
    /\ last = "none" /\ recorded = 0 /\ age = Never
    /\ manual = 0 /\ kills = 0

-----------------------------------------------------------------------------
Stored == mine \cup older

Publish(e) ==
    /\ e \notin published
    /\ published' = published \cup {e}
    /\ UNCHANGED <<enabled, hour, due, run, rows, ledger, bounds>>

(* set_source_enabled, under the ingestion lock.                            *)
Toggle ==
    /\ phase = "idle"
    /\ enabled' = IF enabled = "on" THEN "off" ELSE "on"
    /\ UNCHANGED <<published, hour, due, run, rows, ledger, bounds>>

(* An hour passes; a cron slot comes up and is served before the next hour, *)
(* a run lasts no longer than the tick's `timeout` lets it.                 *)
Hour ==
    /\ due = "no"
    /\ phase # "idle" => ran < MaxRunHours
    /\ ran' = IF phase = "idle" THEN 0 ELSE ran + 1
    /\ hour' = (hour + 1) % Cadence
    /\ due' = IF hour' = 0 THEN "yes" ELSE "no"
    /\ age' = IF age = Never THEN Never ELSE IF age < MaxAge THEN age + 1 ELSE age
    /\ UNCHANGED <<enabled, published, phase, mode, todo, seen, new, batch, rows,
                   last, recorded, bounds>>

(* The tick finds the ingestion lock held: a recorded skip.                 *)
SlotSkipped ==
    /\ due = "yes" /\ phase # "idle"
    /\ due' = "no"
    /\ UNCHANGED <<enabled, published, hour, run, rows, ledger, bounds>>

(* run_source inserts its 'running' row and commits.                        *)
StartRun(m) ==
    /\ phase = "idle"
    /\ phase' = "policy" /\ mode' = m /\ ran' = 0
    /\ seen' = 0 /\ new' = 0
    /\ older' = Stored /\ mine' = {}
    /\ last' = "running" /\ recorded' = 0
    /\ UNCHANGED <<enabled, published, hour, todo, batch, age, kills>>

CronRun == due = "yes" /\ due' = "no" /\ StartRun("cron") /\ UNCHANGED manual

ManualRun(m) ==
    /\ manual < MaxManual
    /\ manual' = manual + 1
    /\ StartRun(m) /\ UNCHANGED due

(* _finish_run with a status, and commit.                                   *)
Finish(status, count) ==
    /\ phase' = "idle" /\ mode' = "cron" /\ ran' = 0
    /\ last' = status /\ recorded' = count
    /\ age' = IF status = "success" THEN 0 ELSE age
    /\ seen' = 0 /\ new' = 0
    /\ UNCHANGED <<policy, todo, batch, rows, bounds>>

(* Wrong on purpose: any row of the ledger counts, the run's own included.  *)
FreshAfterAnyRun == mode # "force" /\ last # "none" /\ Ttl > 0

(* The last success is younger than the TTL, and nobody forces the run.     *)
Fresh == mode # "force" /\ age # Never /\ age < Ttl

CheckPolicy ==
    /\ phase = "policy"
    /\ \/ enabled = "off" /\ Finish("skipped_disabled", 0)
       \/ enabled = "on" /\ Fresh /\ Finish("skipped_ttl", 0)
       \/ /\ enabled = "on" /\ ~Fresh
          /\ phase' = "fetch" /\ todo' = published
          /\ UNCHANGED <<policy, mode, ran, seen, new, batch, rows, ledger, bounds>>

Commit == mine' = mine \cup batch /\ batch' = {}

(* store_raw_event: insert or touch; a response may repeat an event.  Every *)
(* Batch events the run commits.                                            *)
Pull(e) ==
    /\ phase = "fetch" /\ e \in todo /\ seen < MaxSeen
    /\ todo' \in {todo, todo \ {e}}
    /\ seen' = seen + 1
    /\ LET fresh == {e} \ (Stored \cup batch) IN
       /\ new' = IF fresh = {} THEN new ELSE new + 1
       /\ IF (seen + 1) % Batch = 0
            THEN mine' = mine \cup batch \cup fresh /\ batch' = {}
            ELSE batch' = batch \cup fresh /\ UNCHANGED mine
    /\ UNCHANGED <<policy, phase, mode, ran, older, ledger, bounds>>

(* The generator is exhausted, or stopped at --limit; or it raised.         *)
FetchEnds ==
    /\ phase = "fetch"
    /\ todo = {} \/ mode = "limit"
    /\ phase' = "success"
    /\ todo' = {}
    /\ Commit
    /\ UNCHANGED <<policy, mode, ran, seen, new, older, ledger, bounds>>

(* Wrong on purpose: the open batch is rolled back with the exception.      *)
FetchFailsRolledBack ==
    /\ phase = "fetch"
    /\ phase' = "error"
    /\ todo' = {} /\ batch' = {}
    /\ UNCHANGED <<policy, mode, ran, seen, new, mine, older, ledger, bounds>>

FetchFails ==
    /\ phase = "fetch"
    /\ phase' = "error"
    /\ todo' = {}
    /\ Commit
    /\ UNCHANGED <<policy, mode, ran, seen, new, older, ledger, bounds>>

CloseRun == phase \in {"success", "error"} /\ Finish(phase, new)

(* The process dies: the open batch is rolled back, the row stays 'running'.*)
Kill ==
    /\ phase # "idle" /\ kills < MaxKills
    /\ kills' = kills + 1
    /\ phase' = "idle" /\ mode' = "cron" /\ ran' = 0
    /\ todo' = {} /\ batch' = {} /\ seen' = 0 /\ new' = 0
    /\ UNCHANGED <<policy, rows, ledger, manual>>

RunsNext ==
    \/ \E e \in Events : Publish(e) \/ Pull(e)
    \/ \E m \in Modes \ {"cron"} : ManualRun(m)
    \/ Toggle \/ Hour \/ SlotSkipped \/ CronRun \/ CheckPolicy
    \/ FetchEnds \/ FetchFails \/ CloseRun \/ Kill

RunsSpec == RunsInit /\ [][RunsNext]_runVars

(* cron fires, a run goes on, an hour passes; and a source does not fail    *)
(* every time before it has delivered the same event.                       *)
RunsFairness ==
    /\ WF_runVars(Hour) /\ WF_runVars(SlotSkipped) /\ WF_runVars(CronRun)
    /\ WF_runVars(CheckPolicy) /\ WF_runVars(CloseRun)
    /\ WF_runVars(FetchEnds \/ FetchFails)
    /\ \A e \in Events : SF_runVars(Pull(e) /\ e \notin todo')

FairRuns == RunsSpec /\ RunsFairness

-----------------------------------------------------------------------------
(* The ledger tells the truth about the store: records_new of a run that    *)
(* reached _finish_run is the number of raw_events that carry its run_id,   *)
(* whatever failed, repeated or was committed on the way.                   *)
CountsMatch ==
    /\ phase \in {"fetch", "success", "error"} => new = Cardinality(mine \cup batch)
    /\ phase = "idle" /\ last # "running" => recorded = Cardinality(mine)

(* What makes it inductive: a batch is open during a fetch only and holds   *)
(* nothing stored, a run's rows are no earlier run's, nothing is counted    *)
(* before the fetch, and a run that has not ended reads 'running'.          *)
LedgerInv ==
    /\ phase # "idle" => last = "running"
    /\ phase # "fetch" => batch = {}
    /\ phase = "policy" => mine = {} /\ new = 0
    /\ batch \cap Stored = {}
    /\ mine \cap older = {}
    /\ phase = "idle" /\ last = "none" => mine = {}

(* R10.3 and R3.1: whatever fails or is killed, a published event is stored *)
(* in the end by a nightly run, provided the source stays enabled.          *)
EventuallyStored ==
    <>[](enabled = "on") => \A e \in Events : (e \in published) ~> (e \in Stored)
=============================================================================
