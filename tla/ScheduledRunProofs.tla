------------------------- MODULE ScheduledRunProofs -------------------------
(***************************************************************************)
(* What the guard of scheduled_run.sh guarantees for every set of ticks:   *)
(* its types always, and inside its envelope (CarefulSpec) that at most    *)
(* one pipeline runs under a living guard, i.e. that the tick lock         *)
(* implements SingleWriter for the guarded ones.                           *)
(***************************************************************************)
EXTENDS ScheduledRun, TLAPS

USE PidAssumption, BoundAssumption DEF PidAssumption, BoundAssumption

(* Processes come and go, PIDs are reused, signals arrive at any command:   *)
(* the script's state keeps its types.                                      *)
THEOREM TypeCorrect == Spec => []TypeOK
<1>1. Init => TypeOK
  BY DEF Init, TypeOK, PCs, Pids
<1>2. TypeOK /\ [Next]_vars => TypeOK'
  <2> SUFFICES ASSUME TypeOK, [Next]_vars PROVE TypeOK'
    OBVIOUS
  <2> USE DEF TypeOK, PCs, Pids, Goto, Gone
  <2>1. ASSUME NEW t \in Ticks, Start(t) PROVE TypeOK'
    BY <2>1 DEF Start
  <2>2. ASSUME NEW t \in Ticks, TakeLock(t) PROVE TypeOK'
    BY <2>2 DEF TakeLock
  <2>3. ASSUME NEW t \in Ticks, ReadPid(t) PROVE TypeOK'
    BY <2>3 DEF ReadPid
  <2>4. ASSUME NEW t \in Ticks, Judge(t) PROVE TypeOK'
    BY <2>4 DEF Judge
  <2>5. ASSUME NEW t \in Ticks, RemoveDead(t) PROVE TypeOK'
    BY <2>5 DEF RemoveDead
  <2>6. ASSUME NEW t \in Ticks, Retake(t) PROVE TypeOK'
    BY <2>6 DEF Retake
  <2>7. ASSUME NEW t \in Ticks, SetTrap(t) PROVE TypeOK'
    BY <2>7 DEF SetTrap
  <2>8. ASSUME NEW t \in Ticks, Probe(t) PROVE TypeOK'
    BY <2>8 DEF Probe
  <2>9. ASSUME NEW t \in Ticks, FindStale(t) PROVE TypeOK'
    BY <2>9 DEF FindStale
  <2>10. ASSUME NEW t \in Ticks, Sweep(t) PROVE TypeOK'
    BY <2>10 DEF Sweep
  <2>11. ASSUME NEW t \in Ticks, PipelineEnds(t) PROVE TypeOK'
    BY <2>11 DEF PipelineEnds
  <2>12. ASSUME NEW t \in Ticks, Exit(t) PROVE TypeOK'
    BY <2>12 DEF Exit
  <2>13. ASSUME NEW t \in Ticks, Term(t) PROVE TypeOK'
    BY <2>13 DEF Term
  <2>14. ASSUME NEW t \in Ticks, Killed(t) PROVE TypeOK'
    BY <2>14 DEF Killed
  <2>15. ASSUME NEW t \in Ticks, OrphanEnds(t) PROVE TypeOK'
    BY <2>15 DEF OrphanEnds
  <2>16. CASE Crash
    BY <2>16 DEF Crash
  <2>17. CASE PidReused \/ PidFreed
    BY <2>17 DEF PidReused, PidFreed
  <2>18. CASE Ingestion
    BY <2>18 DEF Ingestion
  <2>19. CASE UNCHANGED vars
    BY <2>19 DEF vars
  <2>20. QED
    BY <2>1, <2>2, <2>3, <2>4, <2>5, <2>6, <2>7, <2>8, <2>9, <2>10, <2>11, <2>12,
       <2>13, <2>14, <2>15, <2>16, <2>17, <2>18, <2>19 DEF Next, Step
<1>3. QED
  BY <1>1, <1>2, PTL DEF Spec

LEMMA CarefulIsSpec == CarefulSpec => Spec
<1>1. [CarefulNext]_vars => [Next]_vars
  BY DEF CarefulNext
<1>2. QED
  BY <1>1, PTL DEF CarefulSpec, Spec

(* The tick lock's inductive invariant: whoever is past take_lock owns the  *)
(* file, and a PID judged dead is the PID the file still holds.             *)
THEOREM GuardInvariant == CarefulSpec => []GuardInv
<1>1. Init => GuardInv
  BY DEF Init, GuardInv, Holding
<1>2. TypeOK /\ GuardInv /\ [CarefulNext]_vars => GuardInv'
  <2> SUFFICES ASSUME TypeOK, GuardInv, [CarefulNext]_vars PROVE GuardInv'
    OBVIOUS
  <2> USE DEF TypeOK, PCs, Pids, GuardInv, Holding, Goto, Gone
  <2>1. CASE UNCHANGED vars
    BY <2>1 DEF vars
  <2> SUFFICES ASSUME Next, Undisturbed, OrderlySignals PROVE GuardInv'
    BY <2>1 DEF CarefulNext, Careful
  <2>3. ASSUME NEW t \in Ticks, Start(t) \/ ReadPid(t) \/ SetTrap(t) \/ Probe(t)
                                \/ FindStale(t) \/ Sweep(t) \/ PipelineEnds(t)
        PROVE GuardInv'
    BY <2>3 DEF Start, ReadPid, SetTrap, Probe, FindStale, Sweep, PipelineEnds
  <2>4. ASSUME NEW t \in Ticks, TakeLock(t) PROVE GuardInv'
    BY <2>4 DEF TakeLock, Taken, Undisturbed, OrderlySignals
  <2>5. ASSUME NEW t \in Ticks, Judge(t) PROVE GuardInv'
    BY <2>5 DEF Judge, LooksDead
  <2>6. ASSUME NEW t \in Ticks, RemoveDead(t) PROVE GuardInv'
    BY <2>6 DEF RemoveDead
  <2>7. ASSUME NEW t \in Ticks, Retake(t) PROVE GuardInv'
    BY <2>7 DEF Retake, Taken, Undisturbed, OrderlySignals
  (* Only a tick that owns the file, or finds none, runs the EXIT trap.     *)
  <2>8. ASSUME NEW t \in Ticks, Exit(t) PROVE GuardInv'
    BY <2>8 DEF Exit
  <2>9. ASSUME NEW t \in Ticks, Term(t) PROVE GuardInv'
    <3>1. pc[t] = "exit"
      BY <2>9 DEF OrderlySignals, Term
    <3>2. QED
      BY <2>9, <3>1 DEF Term
  <2>10. ASSUME NEW t \in Ticks, Killed(t) PROVE GuardInv'
    BY <2>10 DEF Killed
  <2>11. ASSUME NEW t \in Ticks, OrphanEnds(t) PROVE GuardInv'
    BY <2>11 DEF OrphanEnds
  <2>12. CASE Crash
    BY <2>12 DEF Crash
  <2>13. CASE PidReused \/ PidFreed
    BY <2>13 DEF PidReused, PidFreed
  <2>14. CASE Ingestion
    BY <2>14 DEF Ingestion
  <2>15. QED
    BY <2>3, <2>4, <2>5, <2>6, <2>7, <2>8, <2>9, <2>10, <2>11, <2>12, <2>13, <2>14
       DEF Next, Step
<1>3. QED
  BY <1>1, <1>2, TypeCorrect, CarefulIsSpec, PTL DEF CarefulSpec

(* Two scheduled pipelines never both run under a living guard, inside the  *)
(* envelope: the tick lock names at most one tick.  Shells may be killed    *)
(* and leave their pipelines behind; those are not counted.                 *)
THEOREM NoOverlap == CarefulSpec => []GuardedNeverOverlap
<1>1. GuardInv => GuardedNeverOverlap
  BY DEF GuardInv, Holding, Guarded, GuardedNeverOverlap
<1>2. QED
  BY <1>1, GuardInvariant, PTL

(* The guard implements SingleWriter for the guarded pipelines: the probe   *)
(* or the sweep that lets the pipeline start is Enter; its end, the death   *)
(* of its shell or a crash is Leave.                                        *)
THEOREM ImplementsSingleWriter == CarefulSpec => SingleWriterSpec
<1>1. Init => SW!Init
  BY DEF Init, SW!Init, Guarded
<1>2. TypeOK /\ GuardInv /\ [CarefulNext]_vars => [SW!Next]_Guarded
  <2> SUFFICES ASSUME TypeOK, GuardInv, [CarefulNext]_vars
               PROVE  [SW!Next]_Guarded
    OBVIOUS
  <2> USE DEF TypeOK, PCs, Guarded, Goto, Gone
  <2>1. CASE UNCHANGED vars
    BY <2>1 DEF vars
  <2> SUFFICES ASSUME Next PROVE [SW!Next]_Guarded
    BY <2>1 DEF CarefulNext
  <2>3. ASSUME NEW t \in Ticks, Probe(t) \/ Sweep(t) PROVE [SW!Next]_Guarded
    <3>1. Guarded = {}
      BY <2>3 DEF Probe, Sweep, GuardInv, Holding
    <3>2. Guarded' = {} \/ Guarded' = {t}
      BY <2>3, <3>1 DEF Probe, Sweep
    <3>3. QED
      BY <3>1, <3>2 DEF SW!Next, SW!Enter
  (* The pipeline of a killed shell goes on, but out of its guard's care.   *)
  <2>4. ASSUME NEW t \in Ticks, PipelineEnds(t) \/ Killed(t)
        PROVE  [SW!Next]_Guarded
    <3>1. Guarded' = Guarded \ {t}
      BY <2>4 DEF PipelineEnds, Killed
    <3>2. QED
      BY <3>1 DEF SW!Next, SW!Leave
  <2>5. CASE Crash
    <3>1. Guarded' = {}
      BY <2>5 DEF Crash
    <3>2. Guarded = {} \/ \E t \in Ticks : Guarded = {t}
      BY DEF GuardInv, Holding
    <3>3. QED
      BY <3>1, <3>2 DEF SW!Next, SW!Leave
  <2>6. ASSUME NEW t \in Ticks,
               \/ Start(t) \/ TakeLock(t) \/ ReadPid(t) \/ Judge(t) \/ RemoveDead(t)
               \/ Retake(t) \/ SetTrap(t) \/ FindStale(t) \/ Exit(t) \/ Term(t)
               \/ OrphanEnds(t)
        PROVE  Guarded' = Guarded
    BY <2>6 DEF Start, TakeLock, ReadPid, Judge, RemoveDead, Retake, SetTrap,
                      FindStale, Exit, Term, OrphanEnds
  <2>7. CASE PidReused \/ PidFreed \/ Ingestion
    BY <2>7 DEF PidReused, PidFreed, Ingestion
  <2>8. QED
    BY <2>3, <2>4, <2>5, <2>6, <2>7 DEF Next, Step
<1>3. QED
  BY <1>1, <1>2, TypeCorrect, CarefulIsSpec, GuardInvariant, PTL
     DEF CarefulSpec, SingleWriterSpec, SW!Spec
=============================================================================
