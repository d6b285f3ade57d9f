--------------------------- MODULE HourlyStoreMC ---------------------------
(***************************************************************************)
(* Instances of HourlyStore for TLC.                                       *)
(***************************************************************************)
EXTENDS HourlyStore

AllContinue == [w \in Writers |-> "continue"]
AllEnd == [w \in Writers |-> "end"]

\* The app's ingest continues, the backfill script retries.
IngestAndBackfill == [w \in Writers |-> IF w = "ingest" THEN "continue" ELSE "retry"]
=============================================================================
