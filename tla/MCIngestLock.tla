---------------------------- MODULE MCIngestLock ----------------------------
(* Two pipeline stages and one Admin save contend for the lockfile.         *)
EXTENDS IngestLock, TLC

CONSTANTS stage, manual, admin

MainWriters == {stage, manual, admin}
AdminThread == {admin}
=============================================================================
