------------------------------ MODULE IngestMC ------------------------------
(***************************************************************************)
(* The feeds and the outage board: a behaviour is about one feed, or about *)
(* the outages, which have their own tables and jobs.                      *)
(***************************************************************************)
EXTENDS Feeds

CONSTANTS MaxMrid, PAGE_SIZE, LOOKBACK_DAYS, OutageDays, OutageRevisions,
          MaxChanges

\* One zone and one border.
Passes == <<<<"zone">>, <<"border">>>>

VARIABLES board, day, rows, job, snap, changes, outageFaults, part

Outages == INSTANCE Outages
    WITH MaxDay <- OutageDays,
         MaxRevision <- OutageRevisions, today <- day, faults <- outageFaults

outages == <<board, day, rows, job, snap, changes, outageFaults>>
allVars == <<part, vars, outages>>

IngestInit ==
    /\ Init /\ Outages!Init
    /\ part \in {"feeds", "outages"}
    /\ part = "outages" => feed = CHOOSE f \in Feeds : TRUE

OfFeeds(A) == part = "feeds" /\ A /\ UNCHANGED <<part, outages>>
OfOutages(A) == part = "outages" /\ A /\ UNCHANGED <<part, vars>>
IngestNext == OfFeeds(Next) \/ OfOutages(Outages!Next)

\* The fairness of both modules.  A job starts when none runs and its steps follow
\* one another, so they go on as one action; as the part stays, a disjunction over
\* the parts is fair to the one that moves.
Proceeds == OfFeeds(RunJob \/ Step("job")) \/ OfOutages(Outages!_run_outages \/ Outages!ReadBoard)
IngestFairness ==
    /\ WF_allVars(Proceeds)
    /\ WF_allVars(OfOutages(Outages!_run_outage_snapshot))
IngestSpec == IngestInit /\ [][IngestNext]_allVars /\ IngestFairness

-----------------------------------------------------------------------------
\* Feeds!Healed, where the feeds move (scheduler.py's jobs and backfill): what a job
\* covers is stored in the end, whatever failed, was cached or was killed before.
FeedHeals == <>[](part = "feeds" => Healed)
\* Outages!OutagesComplete (entsoe_outages.py:243-339): every revision that stays
\* listed is stored in the end, although pages are read from a moving board.
OutagesComplete == Outages!OutagesComplete
\* Outages!SnapshotSettles (outage_history.py:85-109): the hourly record settles
\* on the listed messages that stand and run.
SnapshotSettles == Outages!SnapshotSettles
=============================================================================
