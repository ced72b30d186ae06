----------------------------- MODULE MCIngestRun -----------------------------
(* Two events; a day of three hours, so that a run can end an hour after it *)
(* began, and a TTL of a day.                                               *)
EXTENDS IngestRun

CONSTANTS e1, e2

TwoEvents == {e1, e2}
=============================================================================
