---------------------------- MODULE IngestProofs ----------------------------
(***************************************************************************)
(* What the ingestion runner guarantees.  Its lock, for every set of       *)
(* writers and every Stale: its types always, and inside the envelope      *)
(* (CarefulSpec) that the body of one ingest_lock() at a time runs, i.e.   *)
(* that the lockfile implements SingleWriter.  Its runs, for every source: *)
(* their types, and that records_new counts the raw events a run really    *)
(* added.                                                                  *)
(***************************************************************************)
EXTENDS IngestLock, IngestRun, FiniteSetTheorems, TLAPS

USE ThreadsAssumption, NobodyAssumption, StaleAssumption, DeathsAssumption
    DEF ThreadsAssumption, NobodyAssumption, StaleAssumption, DeathsAssumption

LEMMA AgeTypes ==
    /\ 0 \in Ages
    /\ \A a \in Ages : Older(a) \in Ages
    /\ \A a \in Ages \cup {Nobody} : OlderStamp(a) \in Ages \cup {Nobody}
    /\ OlderStamp(Nobody) = Nobody
  BY DEF Ages, Older, OlderStamp

(* Time passes alike for a file and for the writer it is younger than.      *)
LEMMA OlderMonotone ==
    /\ \A a, b \in Ages : a <= b => Older(a) <= Older(b)
    /\ \A a \in Ages : OlderStamp(a) = Older(a)
  BY DEF Ages, Older, OlderStamp

(* The four facts about the file at `path` and the locals keep their types  *)
(* whatever the operating system does: kills, SIGTERM, time, races.         *)
THEOREM TypeCorrect == Spec => []TypeOK
<1>1. Init => TypeOK
  BY DEF Init, TypeOK, PCs, Ages
<1>2. TypeOK /\ [Next]_vars => TypeOK'
  <2> SUFFICES ASSUME TypeOK, [Next]_vars PROVE TypeOK'
    OBVIOUS
  <2> USE DEF TypeOK, PCs, file, Goto, Exit, Unlinked, CreatedBy
  <2>1. ASSUME NEW w \in Writers, Begin(w) PROVE TypeOK'
    BY <2>1 DEF Begin, Ages
  <2>2. ASSUME NEW w \in Writers, Open(w) PROVE TypeOK'
    BY <2>2 DEF Open, Ages
  <2>3. ASSUME NEW w \in Writers, ReadLock(w) PROVE TypeOK'
    BY <2>3 DEF ReadLock
  <2>4. ASSUME NEW w \in Writers, Refused(w) PROVE TypeOK'
    BY <2>4 DEF Refused, Ages
  <2>5. ASSUME NEW w \in Writers, JudgedStale(w) PROVE TypeOK'
    BY <2>5 DEF JudgedStale
  <2>6. ASSUME NEW w \in Writers, Break(w) PROVE TypeOK'
    BY <2>6 DEF Break, Ages
  <2>7. ASSUME NEW w \in Writers, Recreate(w) PROVE TypeOK'
    BY <2>7 DEF Recreate, Ages
  <2>8. ASSUME NEW w \in Writers, InstallHandler(w) PROVE TypeOK'
    BY <2>8 DEF InstallHandler
  <2>9. ASSUME NEW w \in Writers, WritePayload(w) PROVE TypeOK'
    BY <2>9 DEF WritePayload, Ages
  <2>10. ASSUME NEW w \in Writers, BodyEnds(w) PROVE TypeOK'
    BY <2>10 DEF BodyEnds
  <2>11. ASSUME NEW w \in Writers, Release(w) PROVE TypeOK'
    BY <2>11 DEF Release, Ages
  <2>12. ASSUME NEW w \in Writers, RestoreHandler(w) PROVE TypeOK'
    BY <2>12 DEF RestoreHandler, Ages
  <2>13. ASSUME NEW w \in Writers, Sigterm(w) PROVE TypeOK'
    BY <2>13 DEF Sigterm, Ages
  <2>14. ASSUME NEW w \in Writers, Killed(w) PROVE TypeOK'
    BY <2>14 DEF Killed, Ages
  <2>15. CASE Tick
    BY <2>15, AgeTypes DEF Tick
  <2>16. CASE UNCHANGED vars
    BY <2>16 DEF vars
  <2>17. QED
    BY <2>1, <2>2, <2>3, <2>4, <2>5, <2>6, <2>7, <2>8, <2>9, <2>10, <2>11,
       <2>12, <2>13, <2>14, <2>15, <2>16 DEF Next, Step
<1>3. QED
  BY <1>1, <1>2, PTL DEF Spec

LEMMA CarefulIsSpec == CarefulSpec => Spec
<1>1. [CarefulNext]_vars => [Next]_vars
  BY DEF CarefulNext
<1>2. QED
  BY <1>1, PTL DEF CarefulSpec, Spec

-----------------------------------------------------------------------------
(* The inductive invariant of the envelope.  Two steps carry the argument:  *)
(* Open and Recreate, which find no file and therefore no holder, and       *)
(* JudgedStale, which is possible only once the file's holder is gone,      *)
(* since a holder's file is no older than the holder, which is young.       *)
THEOREM LockInvariant == CarefulSpec => []LockInv
<1>1. Init => LockInv
  BY DEF Init, LockInv, Holding
<1>2. TypeOK /\ TypeOK' /\ LockInv /\ [CarefulNext]_vars => LockInv'
  <2> SUFFICES ASSUME TypeOK, TypeOK', LockInv, [CarefulNext]_vars PROVE LockInv'
    OBVIOUS
  <2> USE DEF TypeOK, LockInv, Holding
  <2>1. CASE UNCHANGED vars
    BY <2>1 DEF vars
  <2>2. CASE CarefulNext
    <3> HoldsShort' /\ Undisturbed /\ TimelyTerm
      BY <2>2 DEF CarefulNext, Careful
    <3> USE DEF Goto, Exit, file, PCs
    <3>1. ASSUME NEW w \in Writers, Begin(w) PROVE LockInv'
      BY <3>1 DEF Begin
    <3>2. ASSUME NEW w \in Writers, Open(w) PROVE LockInv'
      BY <3>2 DEF Open, CreatedBy, Ages, Undisturbed
    <3>3. ASSUME NEW w \in Writers, ReadLock(w) PROVE LockInv'
      BY <3>3 DEF ReadLock
    <3>4. ASSUME NEW w \in Writers, Refused(w) PROVE LockInv'
      BY <3>4 DEF Refused
    <3>5. ASSUME NEW w \in Writers, JudgedStale(w) PROVE LockInv'
      <4>1. ASSUME NEW v \in Writers, Holding(v) PROVE FALSE
        <5>1. owner = v /\ v # Nobody /\ ts[v] < Stale /\ mtime <= ts[v]
          BY <3>5, <4>1 DEF JudgedStale, HoldsShort
        <5>2. probe[w] # Nobody => probe[w] = ts[v]
          BY <3>5, <4>1 DEF JudgedStale
        <5>3. LockAge(w) = ts[v] \/ LockAge(w) = mtime
          BY <5>1, <5>2 DEF LockAge
        <5>4. LockAge(w) >= Stale
          BY <3>5 DEF JudgedStale, LooksStale
        <5>5. QED
          BY <5>1, <5>3, <5>4 DEF Ages
      <4>2. QED
        BY <3>5, <4>1 DEF JudgedStale
    <3>6. ASSUME NEW w \in Writers, Break(w) PROVE LockInv'
      BY <3>6 DEF Break, Unlinked, Undisturbed
    <3>7. ASSUME NEW w \in Writers, Recreate(w) PROVE LockInv'
      BY <3>7 DEF Recreate, CreatedBy, Ages, Undisturbed
    <3>8. ASSUME NEW w \in Writers, InstallHandler(w) PROVE LockInv'
      BY <3>8 DEF InstallHandler
    <3>9. ASSUME NEW w \in Writers, WritePayload(w) PROVE LockInv'
      <4>1. owner = w /\ stamp = Nobody
        BY <3>9 DEF WritePayload
      <4>2. \A v \in Writers : Holding(v) => v = w
        BY <4>1
      <4>3. stamp' = ts[w] /\ mtime' = 0 /\ owner' = w /\ 0 <= ts[w]
        BY <3>9, <4>1 DEF WritePayload, Ages
      <4>4. QED
        BY <3>9, <4>1, <4>2, <4>3 DEF WritePayload
    <3>10. ASSUME NEW w \in Writers, BodyEnds(w) PROVE LockInv'
      BY <3>10 DEF BodyEnds
    <3>11. ASSUME NEW w \in Writers, Release(w) PROVE LockInv'
      BY <3>11 DEF Release, Unlinked, Undisturbed
    <3>12. ASSUME NEW w \in Writers, RestoreHandler(w) PROVE LockInv'
      BY <3>12 DEF RestoreHandler
    <3>13. ASSUME NEW w \in Writers, Sigterm(w) PROVE LockInv'
      <4>1. pc[w] \in {"installed", "critical", "release"}
        BY <3>13 DEF Sigterm, HandlerInstalled, TimelyTerm
      <4>2. \A v \in Writers : Holding(v) => v = w
        BY <4>1
      <4>3. owner' # owner
        BY <3>13, <4>1 DEF Sigterm, Unlinked
      <4>4. QED
        BY <3>13, <4>1, <4>2, <4>3 DEF Sigterm, Unlinked, Undisturbed
    <3>14. ASSUME NEW w \in Writers, Killed(w) PROVE LockInv'
      BY <3>14 DEF Killed
    <3>15. CASE Tick
      <4>1. ASSUME NEW w \in Writers, Holding(w)
            PROVE  /\ owner' = w
                   /\ mtime' <= ts'[w]
                   /\ stamp' = IF pc[w] \in {"created", "installed"}
                                 THEN Nobody ELSE ts'[w]
        <5>1. /\ owner' = w /\ ts[w] \in Ages /\ mtime \in Ages
              /\ ts'[w] = Older(ts[w])
              /\ mtime' = Older(mtime)
              /\ stamp' = OlderStamp(stamp)
          BY <3>15, <4>1 DEF Tick
        <5>2. mtime' <= ts'[w]
          BY <4>1, <5>1, OlderMonotone
        <5>3. stamp' = IF pc[w] \in {"created", "installed"} THEN Nobody ELSE ts'[w]
          BY <4>1, <5>1, AgeTypes, OlderMonotone
        <5>4. QED
          BY <5>1, <5>2, <5>3
      <4>2. ASSUME NEW w \in Writers, pc[w] = "age", probe'[w] # Nobody
            PROVE  owner' = Nobody \/ stamp' = probe'[w]
        BY <3>15, <4>2, AgeTypes DEF Tick
      <4>3. UNCHANGED pc
        BY <3>15 DEF Tick
      <4>4. QED
        BY <4>1, <4>2, <4>3
    <3>16. QED
      BY <2>2, <3>1, <3>2, <3>3, <3>4, <3>5, <3>6, <3>7, <3>8, <3>9, <3>10,
         <3>11, <3>12, <3>13, <3>14, <3>15 DEF CarefulNext, Next, Step
  <2>3. QED
    BY <2>1, <2>2
<1>3. QED
  BY <1>1, <1>2, TypeCorrect, CarefulIsSpec, PTL DEF CarefulSpec

(* Two writers inside would both be the creator of the one lockfile.        *)
LEMMA AtMostOneInside ==
    ASSUME LockInv PROVE \A v, w \in Inside : v = w
  BY DEF LockInv, Inside, Holding

(* R3.2 inside the envelope: at most one ingest_lock() body runs.           *)
THEOREM SingleWriterAtATime == CarefulSpec => []MutualExclusion
<1>1. LockInv => MutualExclusion
  <2> SUFFICES ASSUME LockInv PROVE MutualExclusion
    OBVIOUS
  <2>1. CASE Inside = {}
    BY <2>1, FS_EmptySet DEF MutualExclusion
  <2>2. CASE Inside # {}
    <3>1. PICK w \in Inside : TRUE
      BY <2>2
    <3>2. Inside = {w}
      BY <3>1, AtMostOneInside
    <3>3. QED
      BY <3>2, FS_Singleton DEF MutualExclusion
  <2>3. QED
    BY <2>1, <2>2
<1>2. QED
  BY <1>1, LockInvariant, PTL

(* The lockfile implements SingleWriter: WritePayload is Enter; the end of  *)
(* the body, a SIGTERM or a kill inside it is Leave; all else stutters.     *)
THEOREM ImplementsSingleWriter == CarefulSpec => SingleWriterSpec
<1>1. Init => SW!Init
  BY DEF Init, SW!Init, Inside
<1>2. TypeOK /\ LockInv /\ [CarefulNext]_vars => [SW!Next]_Inside
  <2> SUFFICES ASSUME TypeOK, LockInv, [CarefulNext]_vars PROVE [SW!Next]_Inside
    OBVIOUS
  <2> USE DEF Inside, TypeOK, Goto, Exit
  <2>1. CASE UNCHANGED vars
    BY <2>1 DEF vars
  <2>2. ASSUME NEW w \in Writers, WritePayload(w) PROVE SW!Enter(w)
    <3>1. \A v \in Writers : pc[v] # "critical"
      BY <2>2 DEF WritePayload, LockInv, Holding
    <3>2. QED
      BY <2>2, <3>1 DEF WritePayload, SW!Enter
  <2>3. ASSUME NEW w \in Writers, pc[w] = "critical",
               BodyEnds(w) \/ Sigterm(w) \/ Killed(w)
        PROVE  SW!Leave(w)
    BY <2>3 DEF BodyEnds, Sigterm, Killed, SW!Leave
  <2>4. ASSUME NEW w \in Writers, pc[w] # "critical", Sigterm(w) \/ Killed(w)
        PROVE  UNCHANGED Inside
    BY <2>4 DEF Sigterm, Killed
  <2>5. ASSUME NEW w \in Writers,
               \/ Begin(w) \/ Open(w) \/ ReadLock(w) \/ Refused(w)
               \/ JudgedStale(w) \/ Break(w) \/ Recreate(w)
               \/ InstallHandler(w) \/ Release(w) \/ RestoreHandler(w)
        PROVE  UNCHANGED Inside
    BY <2>5 DEF Begin, Open, ReadLock, Refused, JudgedStale, Break, Recreate,
                InstallHandler, Release, RestoreHandler
  <2>6. CASE Tick
    BY <2>6 DEF Tick
  <2>7. ASSUME NEW w \in Writers, BodyEnds(w) PROVE pc[w] = "critical"
    BY <2>7 DEF BodyEnds
  <2>8. QED
    BY <2>1, <2>2, <2>3, <2>4, <2>5, <2>6, <2>7
       DEF CarefulNext, Next, Step, SW!Next
<1>3. QED
  BY <1>1, <1>2, TypeCorrect, CarefulIsSpec, LockInvariant, PTL
     DEF CarefulSpec, SingleWriterSpec, SW!Spec

---------------------------------------------------------------------------
(* The runs and their ledger.                                               *)
USE NeverAssumption, TimeAssumption, BatchAssumption, BoundAssumption,
    EventsAssumption
    DEF NeverAssumption, TimeAssumption, BatchAssumption, BoundAssumption,
        EventsAssumption

(* The counters count an event of the response at most once per delivery.   *)
Counted == new <= seen /\ (phase = "idle" => seen = 0)

Types == RunsTypeOK /\ Counted

LEMMA HourTypes ==
    /\ \A h \in Nat : (h + 1) % Cadence \in 0 .. Cadence - 1
    /\ \A a \in 0 .. MaxAge : (IF a < MaxAge THEN a + 1 ELSE a) \in 0 .. MaxAge
    /\ 0 \in 0 .. MaxAge
  BY DEF MaxAge

(* Whatever fails, is killed or is switched off, the run's locals and the   *)
(* ledger keep their types.                                                 *)
THEOREM RunsTypeCorrect == RunsSpec => []RunsTypeOK
<1>1. RunsInit => Types
  BY DEF RunsInit, Types, RunsTypeOK, Counted, Modes
<1>2. Types /\ [RunsNext]_runVars => Types'
  <2> SUFFICES ASSUME Types, [RunsNext]_runVars PROVE Types'
    OBVIOUS
  <2> USE DEF Types, RunsTypeOK, Counted, Modes, Statuses, policy, run, rows, ledger,
              bounds, Stored
  <2>1. ASSUME NEW e \in Events, Publish(e) PROVE Types'
    BY <2>1 DEF Publish
  <2>2. ASSUME NEW e \in Events, Pull(e) PROVE Types'
    BY <2>2 DEF Pull
  <2>3. ASSUME NEW m \in Modes \ {"cron"}, ManualRun(m) PROVE Types'
    BY <2>3 DEF ManualRun, StartRun
  <2>4. CASE Toggle \/ SlotSkipped
    BY <2>4 DEF Toggle, SlotSkipped
  <2>5. CASE Hour
    BY <2>5, HourTypes DEF Hour
  <2>6. CASE CronRun
    BY <2>6 DEF CronRun, StartRun
  <2>7. CASE CheckPolicy
    BY <2>7, HourTypes DEF CheckPolicy, Finish
  <2>8. CASE FetchEnds \/ FetchFails
    BY <2>8 DEF FetchEnds, FetchFails, Commit
  <2>9. CASE CloseRun
    BY <2>9, HourTypes DEF CloseRun, Finish
  <2>10. CASE Kill
    BY <2>10 DEF Kill
  <2>11. CASE UNCHANGED runVars
    BY <2>11 DEF runVars
  <2>12. QED
    BY <2>1, <2>2, <2>3, <2>4, <2>5, <2>6, <2>7, <2>8, <2>9, <2>10, <2>11 DEF RunsNext
<1>3. QED
  BY <1>1, <1>2, PTL DEF RunsSpec, Types

(* Sets of events are finite, and one more element is one more.             *)
LEMMA CardinalityGrows ==
    ASSUME NEW S \in SUBSET Events, NEW e \in Events
    PROVE  /\ IsFiniteSet(S)
           /\ Cardinality({}) = 0
           /\ e \notin S => Cardinality(S \cup {e}) = Cardinality(S) + 1
  BY FS_Subset, FS_AddElement, FS_EmptySet

(* An event joins the batch only if it is neither stored nor in it, so the  *)
(* counter, the batch and the committed rows move together.                 *)
THEOREM LedgerTrue == RunsSpec => [](LedgerInv /\ CountsMatch)
<1>1. RunsInit => LedgerInv /\ CountsMatch
  BY FS_EmptySet DEF RunsInit, LedgerInv, CountsMatch, Stored
<1>2. RunsTypeOK /\ LedgerInv /\ CountsMatch /\ [RunsNext]_runVars => (LedgerInv /\ CountsMatch)'
  <2> SUFFICES ASSUME RunsTypeOK, LedgerInv, CountsMatch, [RunsNext]_runVars
               PROVE  (LedgerInv /\ CountsMatch)'
    OBVIOUS
  <2> USE DEF RunsTypeOK, LedgerInv, CountsMatch, policy, run, rows, ledger, bounds, Stored
  <2>1. ASSUME NEW e \in Events, Publish(e) PROVE (LedgerInv /\ CountsMatch)'
    BY <2>1 DEF Publish
  <2>2. ASSUME NEW e \in Events, Pull(e) PROVE (LedgerInv /\ CountsMatch)'
    <3> DEFINE fresh == {e} \ (Stored \cup batch)
    <3>1. (mine \cup batch)' = (mine \cup batch) \cup fresh
      BY <2>2 DEF Pull
    <3>2. new' = Cardinality((mine \cup batch)')
      <4>1. CASE fresh = {}
        BY <2>2, <3>1, <4>1 DEF Pull
      <4>2. CASE fresh # {}
        <5>1. fresh = {e} /\ e \notin mine \cup batch
          BY <4>2
        <5>2. Cardinality((mine \cup batch) \cup {e}) = Cardinality(mine \cup batch) + 1
          BY <5>1, CardinalityGrows
        <5>3. new' = new + 1
          BY <2>2, <4>2 DEF Pull
        <5>4. new = Cardinality(mine \cup batch)
          BY <2>2 DEF Pull
        <5>5. QED
          BY <3>1, <5>1, <5>2, <5>3, <5>4
      <4>3. QED
        BY <4>1, <4>2
    <3>3. batch' \cap Stored' = {} /\ mine' \cap older' = {}
      BY <2>2 DEF Pull
    <3>4. QED
      BY <2>2, <3>2, <3>3 DEF Pull
  <2>3. ASSUME NEW m \in Modes, StartRun(m) PROVE (LedgerInv /\ CountsMatch)'
    BY <2>3 DEF StartRun
  <2>4. CASE Toggle \/ SlotSkipped \/ Hour
    BY <2>4 DEF Toggle, SlotSkipped, Hour
  <2>5. CASE CheckPolicy
    BY <2>5, FS_EmptySet DEF CheckPolicy, Finish
  <2>6. CASE FetchEnds \/ FetchFails
    BY <2>6 DEF FetchEnds, FetchFails, Commit
  <2>7. CASE CloseRun
    <3>1. batch = {} /\ mine \cup batch = mine
      BY <2>7 DEF CloseRun
    <3>2. QED
      BY <2>7, <3>1 DEF CloseRun, Finish
  <2>8. CASE Kill
    BY <2>8 DEF Kill
  <2>9. CASE UNCHANGED runVars
    BY <2>9 DEF runVars
  <2>10. "cron" \in Modes
    BY DEF Modes
  <2>11. QED
    BY <2>1, <2>2, <2>3, <2>4, <2>5, <2>6, <2>7, <2>8, <2>9, <2>10
       DEF RunsNext, ManualRun, CronRun
<1>3. QED
  BY <1>1, <1>2, RunsTypeCorrect, PTL DEF RunsSpec
=============================================================================
