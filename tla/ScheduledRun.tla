---------------------------- MODULE ScheduledRun ----------------------------
(***************************************************************************)
(* The guard around a scheduled tick, deploy/scheduled_run.sh: a lockfile  *)
(* that records the PID of the shell that took it, judged by `kill -0`,    *)
(* and one probe of the ingestion lock (IngestLock) before the pipeline    *)
(* starts.  First-load runs (deploy/entrypoint.sh) go through it too.      *)
(*                                                                         *)
(* One step is one command of the script.  A PID no process has is Dead; a *)
(* dead PID the kernel gave to an other process is Foreign.                *)
(***************************************************************************)
EXTENDS Naturals

CONSTANTS
    Ticks,        \* invocations of the script that may be alive together
    Nobody,       \* no lockfile, nothing read
    Dead,         \* a PID that no process has
    Foreign,      \* a PID of a process that is no tick
    MaxSignals,   \* bound: TERMs, kills and container crashes
    MaxReuse      \* bound: dead PIDs given away again

ASSUME PidAssumption ==
    /\ Nobody \notin Ticks /\ Dead \notin Ticks /\ Foreign \notin Ticks
    /\ Nobody # Dead /\ Nobody # Foreign /\ Dead # Foreign
ASSUME BoundAssumption == MaxSignals \in Nat /\ MaxReuse \in Nat

VARIABLES
    pc,        \* the command each tick is about to run, "off" without a process
    tlock,     \* the PID in PIPELINE_LOCK, Nobody if there is no such file
    seen,      \* the PID a tick has read from it
    ilock,     \* the ingestion lock, as `-e` and `find -mmin` see it
    orphans,   \* ticks whose pipeline goes on without its guard
    signals,   \* TERMs, kills and crashes so far
    reuses     \* PIDs given away so far

vars == <<pc, tlock, seen, ilock, orphans, signals, reuses>>

Pids == Ticks \cup {Dead, Foreign}
PCs  == {"off", "take", "read", "judge", "remove", "retake", "trap",
         "probe", "find", "sweep", "run", "exit", "termed"}

TypeOK ==
    /\ pc \in [Ticks -> PCs]
    /\ tlock \in Pids \cup {Nobody}
    /\ seen \in [Ticks -> Pids \cup {Nobody}]
    /\ ilock \in {"none", "fresh", "stale"}
    /\ orphans \subseteq Ticks
    /\ signals \in 0 .. MaxSignals
    /\ reuses \in 0 .. MaxReuse

Init ==
    /\ pc = [t \in Ticks |-> "off"]
    /\ tlock = Nobody
    /\ seen = [t \in Ticks |-> Nobody]
    /\ ilock = "none"
    /\ orphans = {}
    /\ signals = 0
    /\ reuses = 0

-----------------------------------------------------------------------------
Goto(t, next) == pc' = [pc EXCEPT ![t] = next]

(* The processes in S are gone: their PIDs, wherever they are written, are  *)
(* Dead.                                                                    *)
Gone(S, lock) ==
    /\ pc' = [t \in Ticks |-> IF t \in S THEN "off" ELSE pc[t]]
    /\ seen' = [t \in Ticks |-> IF t \in S THEN Nobody
                                ELSE IF seen[t] \in S THEN Dead ELSE seen[t]]
    /\ tlock' = IF lock \in S THEN Dead ELSE lock

(* cron, or the first-load gate of entrypoint.sh.                           *)
Start(t) ==
    /\ pc[t] = "off" /\ t \notin orphans
    /\ Goto(t, "take")
    /\ UNCHANGED <<tlock, seen, ilock, orphans, signals, reuses>>

(* take_lock: `ln` of a file that already holds the PID; all or nothing.    *)
TakeLock(t) ==
    /\ pc[t] = "take"
    /\ \/ tlock = Nobody /\ tlock' = t /\ Goto(t, "trap")
       \/ tlock # Nobody /\ Goto(t, "read") /\ UNCHANGED tlock
    /\ UNCHANGED <<seen, ilock, orphans, signals, reuses>>

(* pipeline_lock_dead: `head -n 1`, nothing when the file is gone ...       *)
ReadPid(t) ==
    /\ pc[t] = "read"
    /\ seen' = [seen EXCEPT ![t] = tlock]
    /\ Goto(t, "judge")
    /\ UNCHANGED <<tlock, ilock, orphans, signals, reuses>>

(* Wrong on purpose: only a lock without a PID counts as dead.              *)
LooksDeadIfEmpty(t) == seen[t] = Nobody

LooksDead(t) == seen[t] \in {Nobody, Dead}

(* ... then `kill -0`.  A tick that finds the lock live is a recorded skip; *)
(* its trap is not set yet.                                                 *)
Judge(t) ==
    /\ pc[t] = "judge"
    /\ \/ LooksDead(t) /\ Goto(t, "remove") /\ UNCHANGED <<seen, tlock>>
       \/ ~LooksDead(t) /\ Gone({t}, tlock)
    /\ UNCHANGED <<ilock, orphans, signals, reuses>>

(* rm -f of whatever is there by now.                                       *)
RemoveDead(t) ==
    /\ pc[t] = "remove"
    /\ tlock' = Nobody
    /\ Goto(t, "retake")
    /\ UNCHANGED <<seen, ilock, orphans, signals, reuses>>

(* Wrong on purpose: the second attempt overwrites instead of linking.      *)
RetakeOver(t) ==
    /\ pc[t] = "retake"
    /\ tlock' = t
    /\ Goto(t, "trap")
    /\ UNCHANGED <<seen, ilock, orphans, signals, reuses>>

Retake(t) ==
    /\ pc[t] = "retake"
    /\ \/ tlock = Nobody /\ tlock' = t /\ Goto(t, "trap") /\ UNCHANGED seen
       \/ tlock # Nobody /\ Gone({t}, tlock)
    /\ UNCHANGED <<ilock, orphans, signals, reuses>>

(* trap 'rm -f "$PIPELINE_LOCK"' EXIT INT TERM                              *)
SetTrap(t) ==
    /\ pc[t] = "trap"
    /\ Goto(t, "probe")
    /\ UNCHANGED <<tlock, seen, ilock, orphans, signals, reuses>>

(* [ -e "$LOCK" ]                                                           *)
Probe(t) ==
    /\ pc[t] = "probe"
    /\ Goto(t, IF ilock = "none" THEN "run" ELSE "find")
    /\ UNCHANGED <<tlock, seen, ilock, orphans, signals, reuses>>

(* is_stale: a lock in use, or gone meanwhile, makes the tick a skip.       *)
FindStale(t) ==
    /\ pc[t] = "find"
    /\ Goto(t, IF ilock = "stale" THEN "sweep" ELSE "exit")
    /\ UNCHANGED <<tlock, seen, ilock, orphans, signals, reuses>>

Sweep(t) ==
    /\ pc[t] = "sweep"
    /\ ilock' = "none"
    /\ Goto(t, "run")
    /\ UNCHANGED <<tlock, seen, orphans, signals, reuses>>

(* `timeout 110m` returns: done, failed, or killed after its 110 minutes.   *)
PipelineEnds(t) ==
    /\ pc[t] = "run"
    /\ Goto(t, "exit")
    /\ UNCHANGED <<tlock, seen, ilock, orphans, signals, reuses>>

(* The EXIT trap, and the end of the process.                               *)
Exit(t) ==
    /\ pc[t] \in {"exit", "termed"}
    /\ Gone({t}, Nobody)
    /\ UNCHANGED <<ilock, orphans, signals, reuses>>

(* The TERM trap: rm -f, and the script goes on with its next command.      *)
(* While the pipeline runs the shell defers it to the pipeline's end.       *)
Term(t) ==
    /\ pc[t] \in {"probe", "find", "sweep", "exit"}
    /\ signals < MaxSignals
    /\ signals' = signals + 1
    /\ tlock' = Nobody
    /\ Goto(t, IF pc[t] = "exit" THEN "termed" ELSE pc[t])
    /\ UNCHANGED <<seen, ilock, orphans, reuses>>

(* The shell alone is killed (SIGKILL, or TERM before the trap is set); the *)
(* pipeline it had started goes on.                                         *)
Killed(t) ==
    /\ pc[t] # "off"
    /\ signals < MaxSignals
    /\ signals' = signals + 1
    /\ Gone({t}, tlock)
    /\ orphans' = IF pc[t] = "run" THEN orphans \cup {t} ELSE orphans
    /\ UNCHANGED <<ilock, reuses>>

OrphanEnds(t) ==
    /\ t \in orphans
    /\ orphans' = orphans \ {t}
    /\ UNCHANGED <<pc, tlock, seen, ilock, signals, reuses>>

(* The container goes down: every process with it, the files stay.          *)
Crash ==
    /\ signals < MaxSignals
    /\ signals' = signals + 1
    /\ Gone(Ticks, tlock)
    /\ orphans' = {}
    /\ UNCHANGED <<ilock, reuses>>

(* The kernel gives the PID in the lock to an other process, which ends in  *)
(* its own time, or never.                                                  *)
PidReused ==
    /\ tlock = Dead /\ reuses < MaxReuse
    /\ tlock' = Foreign
    /\ reuses' = reuses + 1
    /\ UNCHANGED <<pc, seen, ilock, orphans, signals>>

PidFreed ==
    /\ tlock = Foreign
    /\ tlock' = Dead
    /\ UNCHANGED <<pc, seen, ilock, orphans, signals, reuses>>

(* Steps and manual runs take, release and break the ingestion lock, which  *)
(* ages while a run holds it and after its holder has died.                 *)
Ingestion ==
    /\ ilock' \in {"none", "fresh", "stale"}
    /\ ilock = "none" => ilock' # "stale"
    /\ UNCHANGED <<pc, tlock, seen, orphans, signals, reuses>>

Step(t) ==
    \/ TakeLock(t) \/ ReadPid(t) \/ Judge(t) \/ RemoveDead(t) \/ Retake(t)
    \/ SetTrap(t) \/ Probe(t) \/ FindStale(t) \/ Sweep(t) \/ PipelineEnds(t)
    \/ Exit(t)

Next ==
    \/ \E t \in Ticks : Start(t) \/ Step(t) \/ Term(t) \/ Killed(t) \/ OrphanEnds(t)
    \/ Crash \/ PidReused \/ PidFreed \/ Ingestion

Spec == Init /\ [][Next]_vars

-----------------------------------------------------------------------------
(* The tick has taken the lock and has not run its EXIT trap.               *)
Holding(t) == pc[t] \in {"trap", "probe", "find", "sweep", "run", "exit"}

(* The pipelines whose shell still stands guard.                            *)
Guarded == {t \in Ticks : pc[t] = "run"}

(* What the script keeps of "Scheduled ticks never overlap EACH OTHER"      *)
(* (lines 6-9): two pipelines never both have a living guard.  No more than *)
(* that: a shell that is killed leaves its pipeline in orphans, `kill -0`   *)
(* asks about the shell, and the next tick runs a second pipeline beside it *)
(* (Cardinality(Guarded \cup orphans) reaches 2).                           *)
GuardedNeverOverlap == \A t, u \in Guarded : t = u

(* The operating envelope under which the guard keeps that promise; two     *)
(* ticks that break one dead lock together are outside it, and may both run.*)
Taken == tlock' \in Ticks /\ tlock' # tlock

(* Nobody takes the lock between a tick's reading the PID in it and its     *)
(* removing the file.                                                       *)
Undisturbed ==
    Taken => \A t \in Ticks : pc[t] \in {"judge", "remove"} => pc'[t] # pc[t]

(* TERM finds a tick in its pipeline, not in the instant before it; and     *)
(* nobody takes the lock until a TERMed tick has run its second trap.       *)
OrderlySignals ==
    /\ \A t \in Ticks : pc[t] \in {"probe", "find", "sweep"} => ~Term(t)
    /\ Taken => \A t \in Ticks : pc[t] # "termed"

Careful == Undisturbed /\ OrderlySignals

CarefulNext == Next /\ Careful

CarefulSpec == Init /\ [][CarefulNext]_vars

(* cron fires every night, the kernel runs the shells, `timeout` makes sure *)
(* that a pipeline ends, with or without its guard.                         *)
Fairness ==
    \A t \in Ticks : /\ WF_vars(Start(t) /\ Careful)
                     /\ WF_vars(Step(t) /\ Careful)
                     /\ WF_vars(OrphanEnds(t) /\ Careful)

FairSpec == CarefulSpec /\ Fairness

(* What carries GuardedNeverOverlap from step to step.                      *)
GuardInv ==
    /\ \A t \in Ticks : Holding(t) => tlock = t
    /\ \A t \in Ticks : pc[t] = "judge" => seen[t] = tlock \/ tlock \notin Ticks
    /\ \A t \in Ticks : pc[t] = "remove" => tlock \notin Ticks
    /\ \A t \in Ticks : pc[t] = "termed" => tlock = Nobody

(* The guard implements the single-writer promise for whole pipelines, as   *)
(* long as it lives: a pipeline begins when no other is under guard, and is *)
(* out of the guard's care at its own end or at the death of its shell.     *)
SW == INSTANCE SingleWriter WITH Writers <- Ticks, inside <- Guarded

SingleWriterSpec == SW!Spec

(* "Neither is possible once staleness means the recorded PID is gone": the *)
(* lock of a tick that died is broken by some later tick, unless the kernel *)
(* has given its PID to a process that stays for ever.                      *)
DeadLockIsBroken ==
    \/ (tlock \in {Dead, Foreign}) ~> (tlock \notin {Dead, Foreign})
    \/ <>[](tlock = Foreign)
=============================================================================
