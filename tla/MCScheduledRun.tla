--------------------------- MODULE MCScheduledRun ---------------------------
(* A cron tick, a first-load run and a tick that outlives its cadence.      *)
EXTENDS ScheduledRun

CONSTANTS cron, firstload, late

ThreeTicks == {cron, firstload, late}
=============================================================================
