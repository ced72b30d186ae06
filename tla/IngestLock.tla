----------------------------- MODULE IngestLock -----------------------------
(***************************************************************************)
(* The single-writer lockfile of app/ingest/runner.py: ingest_lock(), the  *)
(* SIGTERM handler it installs, and the processes that use it (a pipeline  *)
(* stage, a manual run, the UI's Admin save in a worker thread).           *)
(*                                                                         *)
(* One step is one system call on the lockfile.  The clock is kept as      *)
(* ages: how long ago a timestamp was taken, saturating at Stale, which is *)
(* all the code ever asks of it ("age < LOCK_STALE_S").  The lockfile is   *)
(* known by the writer that created it; a writer that holds an open        *)
(* descriptor of a file that was since unlinked writes to nowhere.         *)
(***************************************************************************)
EXTENDS Naturals, FiniteSets

CONSTANTS
    Writers,      \* the processes that call ingest_lock()
    Threads,      \* those that call it off the main thread: no SIGTERM handler
    Nobody,       \* "no file", "no timestamp"
    Stale,        \* LOCK_STALE_S, in clock ticks
    MaxDeaths     \* bound: how often processes are killed in one behaviour

ASSUME ThreadsAssumption == Threads \subseteq Writers
ASSUME NobodyAssumption  == Nobody \notin Writers /\ Nobody \notin Nat
ASSUME StaleAssumption   == Stale \in Nat \ {0}
ASSUME DeathsAssumption  == MaxDeaths \in Nat

VARIABLES
    pc,        \* where each writer is in ingest_lock()
    ts,        \* age of the `ts` in the payload a writer prepared
    probe,     \* age of the `ts` a writer read from a held lockfile, or Nobody
    owner,     \* creator of the lockfile now at `path`, Nobody if there is none
    stamp,     \* age of the ts in its payload, Nobody while it is zero-byte
    mtime,     \* age of the file's mtime
    deaths     \* kills so far

vars == <<pc, ts, probe, owner, stamp, mtime, deaths>>
file == <<owner, stamp, mtime>>

Ages == 0 .. Stale
PCs  == {"idle", "open", "busy", "age", "break", "recreate", "created",
         "installed", "critical", "release", "restore"}

(* Types; and only a file that exists carries a payload.                    *)
TypeOK ==
    /\ pc \in [Writers -> PCs]
    /\ ts \in [Writers -> Ages]
    /\ probe \in [Writers -> Ages \cup {Nobody}]
    /\ owner \in Writers \cup {Nobody}
    /\ stamp \in Ages \cup {Nobody}
    /\ mtime \in Ages
    /\ deaths \in 0 .. MaxDeaths
    /\ owner = Nobody => stamp = Nobody

Init ==
    /\ pc = [w \in Writers |-> "idle"]
    /\ ts = [w \in Writers |-> 0]
    /\ probe = [w \in Writers |-> Nobody]
    /\ owner = Nobody
    /\ stamp = Nobody
    /\ mtime = 0
    /\ deaths = 0

-----------------------------------------------------------------------------
(* Ages count up to Stale, all the code tells apart.                        *)
Older(a) == IF a < Stale THEN a + 1 ELSE a

OlderStamp(a) == IF a = Nobody THEN Nobody ELSE Older(a)

Unlinked == owner' = Nobody /\ stamp' = Nobody /\ mtime' = 0

CreatedBy(w) == owner' = w /\ stamp' = Nobody /\ mtime' = 0

Goto(w, next) == pc' = [pc EXCEPT ![w] = next]

(* The call ends: its locals are gone.                                      *)
Exit(w) ==
    /\ Goto(w, "idle")
    /\ ts' = [ts EXCEPT ![w] = 0]
    /\ probe' = [probe EXCEPT ![w] = Nobody]

(* payload = json.dumps({pid, ts: now}) comes before the open.              *)
Begin(w) ==
    /\ pc[w] = "idle"
    /\ Goto(w, "open")
    /\ ts' = [ts EXCEPT ![w] = 0]
    /\ UNCHANGED <<probe, file, deaths>>

(* os.open(O_CREAT | O_EXCL), or FileExistsError.                           *)
Open(w) ==
    /\ pc[w] = "open"
    /\ \/ owner = Nobody /\ CreatedBy(w) /\ Goto(w, "created")
       \/ owner # Nobody /\ Goto(w, "busy") /\ UNCHANGED file
    /\ UNCHANGED <<ts, probe, deaths>>

(* _read_lock: the payload's ts, None for a missing or zero-byte file.      *)
ReadLock(w) ==
    /\ pc[w] = "busy"
    /\ Goto(w, "age")
    /\ probe' = [probe EXCEPT ![w] = stamp]
    /\ UNCHANGED <<ts, file, deaths>>

(* Wrong on purpose: a lock without a payload counts as stale; and an age   *)
(* taken from the payload alone.                                            *)
LockAgeAncient(w) == IF probe[w] # Nobody THEN probe[w]
                     ELSE IF owner # Nobody THEN Stale ELSE Nobody

LockAgeFromPayload(w) == probe[w]

(* _lock_age_seconds: the ts just read, else the mtime of whatever file is  *)
(* there now, else None.                                                    *)
LockAge(w) == IF probe[w] # Nobody THEN probe[w]
              ELSE IF owner # Nobody THEN mtime ELSE Nobody

LooksStale(w) == LockAge(w) # Nobody /\ LockAge(w) >= Stale

(* The lock is live, or its age unknown: RuntimeError.                      *)
Refused(w) ==
    /\ pc[w] = "age"
    /\ ~LooksStale(w)
    /\ Exit(w)
    /\ UNCHANGED <<file, deaths>>

JudgedStale(w) ==
    /\ pc[w] = "age"
    /\ LooksStale(w)
    /\ Goto(w, "break")
    /\ UNCHANGED <<ts, probe, file, deaths>>

(* os.remove(path) of whatever is there, or FileNotFoundError.              *)
Break(w) ==
    /\ pc[w] = "break"
    /\ \/ owner # Nobody /\ Unlinked /\ Goto(w, "recreate") /\ UNCHANGED <<ts, probe>>
       \/ owner = Nobody /\ Exit(w) /\ UNCHANGED file
    /\ UNCHANGED deaths

(* The second O_EXCL open; its FileExistsError is not caught.               *)
Recreate(w) ==
    /\ pc[w] = "recreate"
    /\ \/ owner = Nobody /\ CreatedBy(w) /\ Goto(w, "created") /\ UNCHANGED <<ts, probe>>
       \/ owner # Nobody /\ Exit(w) /\ UNCHANGED file
    /\ UNCHANGED deaths

(* signal.signal(SIGTERM, ...), on the main thread only.                    *)
InstallHandler(w) ==
    /\ pc[w] = "created"
    /\ Goto(w, "installed")
    /\ UNCHANGED <<ts, probe, file, deaths>>

(* os.write through the descriptor of the file this call created.           *)
WritePayload(w) ==
    /\ pc[w] = "installed"
    /\ Goto(w, "critical")
    /\ IF owner = w
         THEN stamp' = ts[w] /\ mtime' = 0 /\ UNCHANGED owner
         ELSE UNCHANGED file
    /\ UNCHANGED <<ts, probe, deaths>>

(* The with-body returns or raises.                                         *)
BodyEnds(w) ==
    /\ pc[w] = "critical"
    /\ Goto(w, "release")
    /\ UNCHANGED <<ts, probe, file, deaths>>

(* finally: os.remove(path), whoever's file that is; OSError suppressed.    *)
Release(w) ==
    /\ pc[w] = "release"
    /\ Goto(w, "restore")
    /\ Unlinked
    /\ UNCHANGED <<ts, probe, deaths>>

(* The previous SIGTERM disposition is back.                                *)
RestoreHandler(w) ==
    /\ pc[w] = "restore"
    /\ Exit(w)
    /\ UNCHANGED <<file, deaths>>

HandlerInstalled(w) ==
    w \notin Threads /\ pc[w] \in {"installed", "critical", "release", "restore"}

(* _sigterm_cleanup_handler, SIG_DFL branch: remove the file, then die.     *)
Sigterm(w) ==
    /\ HandlerInstalled(w)
    /\ deaths < MaxDeaths
    /\ Unlinked
    /\ Exit(w)
    /\ deaths' = deaths + 1

(* SIGKILL, power loss, or SIGTERM with no handler installed: no cleanup.   *)
Killed(w) ==
    /\ pc[w] # "idle"
    /\ deaths < MaxDeaths
    /\ Exit(w)
    /\ deaths' = deaths + 1
    /\ UNCHANGED file

(* An hour passes (Stale ticks are two hours).                              *)
Tick ==
    /\ ts' = [w \in Writers |-> IF pc[w] = "idle" THEN 0 ELSE Older(ts[w])]
    /\ probe' = [w \in Writers |-> OlderStamp(probe[w])]
    /\ stamp' = OlderStamp(stamp)
    /\ mtime' = IF owner = Nobody THEN 0 ELSE Older(mtime)
    /\ UNCHANGED <<pc, owner, deaths>>

(* One call of ingest_lock(), from the prepared payload to the restored     *)
(* handler, without the body it protects.                                   *)
Step(w) ==
    \/ Open(w) \/ ReadLock(w) \/ Refused(w) \/ JudgedStale(w) \/ Break(w)
    \/ Recreate(w) \/ InstallHandler(w) \/ WritePayload(w) \/ Release(w)
    \/ RestoreHandler(w)

Next ==
    \/ \E w \in Writers :
         Begin(w) \/ Step(w) \/ BodyEnds(w) \/ Sigterm(w) \/ Killed(w)
    \/ Tick

Spec == Init /\ [][Next]_vars

-----------------------------------------------------------------------------
(* A writer that created a lockfile and has not removed one since.          *)
Holding(w) == pc[w] \in {"created", "installed", "critical", "release"}

Inside == {w \in Writers : pc[w] = "critical"}

(* R3.2: the body of at most one ingest_lock() runs at a time.              *)
MutualExclusion == Cardinality(Inside) <= 1

(* The operating envelope under which the lockfile keeps R3.2.              *)

(* No call lasts Stale: the tick's `timeout 110m` sees to it for the cron   *)
(* pipeline, nothing does for a manual run.                                 *)
HoldsShort == \A w \in Writers : Holding(w) => ts[w] < Stale

(* No lockfile appears between a writer's reading the old one and acting on *)
(* what it read: a lock may vanish meanwhile, but nobody takes it anew.     *)
Undisturbed ==
    \A w \in Writers :
        pc[w] \in {"age", "break"} /\ owner' \notin {owner, Nobody} => pc'[w] # pc[w]

(* SIGTERM does not arrive after the release, while the handler still is    *)
(* installed.                                                               *)
TimelyTerm == \A w \in Writers : pc[w] = "restore" => ~Sigterm(w)

Careful == HoldsShort' /\ Undisturbed /\ TimelyTerm

CarefulNext == Next /\ Careful

CarefulSpec == Init /\ [][CarefulNext]_vars

(* Cron starts stages again and again, the kernel runs them, and time goes  *)
(* on, as far as the envelope lets them; nothing says that a body ends, and *)
(* nobody has to die.                                                       *)
Fairness ==
    /\ WF_vars(Tick /\ Careful)
    /\ \A w \in Writers : WF_vars(Begin(w) /\ Careful) /\ WF_vars(Step(w) /\ Careful)

FairSpec == CarefulSpec /\ Fairness

(* The lockfile implements the single-writer promise, inside the envelope.  *)
SW == INSTANCE SingleWriter WITH inside <- Inside

SingleWriterSpec == SW!Spec

(* The invariant that makes MutualExclusion inductive inside the envelope:  *)
(* a holder's file is the one at `path`, it is as young as the holder says, *)
(* and nobody is about to break the file of a holder.                       *)
LockInv ==
    /\ \A w \in Writers : Holding(w) =>
         /\ owner = w
         /\ mtime <= ts[w]
         /\ stamp = IF pc[w] \in {"created", "installed"} THEN Nobody ELSE ts[w]
    /\ \A w \in Writers : pc[w] = "break" => \A v \in Writers : ~Holding(v)
    /\ \A w \in Writers : pc[w] = "age" /\ probe[w] # Nobody =>
         owner = Nobody \/ stamp = probe[w]

(* A lock whose creator is gone, the residue of a kill.                     *)
DeadLock == owner # Nobody /\ (owner \in Writers => ~Holding(owner))

(* "ages out instead of wedging ingestion forever" (_lock_age_seconds): the *)
(* residue of a kill, zero-byte or stamped, is removed in the end.          *)
DeadLockAgesOut == DeadLock ~> ~DeadLock
=============================================================================
