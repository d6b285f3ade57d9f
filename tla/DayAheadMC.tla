----------------------------- MODULE DayAheadMC -----------------------------
(***************************************************************************)
(* Instances of DayAhead for TLC.  A behaviour of ScenarioSpec is either   *)
(* the jobs of the app with commits that succeed, or the daily job with    *)
(* the backfill in a process of its own, commits that fail and kills.      *)
(*                                                                         *)
(* The jobs of the scheduler store a day only while it is in their window, *)
(* a bounded number of times: nothing is stored for good by repetition.    *)
(* What one run achieves is therefore stated of that run, with history     *)
(* variables that say which runs under way could undo it.                  *)
(***************************************************************************)
EXTENDS DayAhead

\* All jobs in the app, or the backfill in a process of its own.
OneProcess == [j \in Jobs |-> "app"]
BackfillApart == [j \in Jobs |-> IF j = "backfill" THEN "script" ELSE "app"]

\* The scheduler's jobs overwrite, the backfill reads the cache.
CronOverwrites == [j \in Jobs |-> j # "backfill"]

\* `daily` is _run_power_daily, at night and at startup, over seven days of which the
\* instance keeps yesterday, today and tomorrow; `midday` is the midday and the
\* afternoon job.
Windows == [j \in Jobs |-> CASE j = "daily" -> 3 [] j = "midday" -> 2 [] OTHER -> 0]

\* The jobs of the scheduler run in one process, the app.
Cron == Jobs \ {"backfill"}
ASSUME AppAssumption == \A j, k \in Cron : Process[j] = Process[k] /\ Overwrite[j]
ASSUME BackfillAssumption == "backfill" \in Jobs => ~Overwrite["backfill"]

VARIABLES
    scenario,
    behind,    \* history: days that a run under way may hold an outdated answer for
    stored,    \* history: days a run of the scheduler stored as published, see Stores
    crossed,   \* history: days whose hours two runs wrote at once, per run
    torn       \* history: days whose views a fault or such a run may have left apart
mcVars == <<dayAheadVars, scenario, behind, stored, crossed, torn>>

\* The steps of a run that the history follows.
Begins(j) == stage[j] = "idle" /\ stage'[j] # "idle"
Over(j) == stage'[j] = "idle"
StoresHours(j) == stage[j] = "hourly" /\ stage'[j] = "means"
StoresRows(j) == stage[j] = "daily" /\ stage'[j] = "quarter"
Between(j) == stage[j] \in {"means", "daily"}
Restated == {d \in Days : published'[d] # published[d]}

\* Answers: one out of the cache may be outdated, one from the source is when the
\* day was restated since the run began.
Answers ==
    behind' = [j \in Jobs |->
        IF Over(j) THEN {}
        ELSE IF Begins(j) THEN IF Overwrite[j] THEN {} ELSE Days
        ELSE behind[j] \cup (IF stage[j] = "idle" THEN {} ELSE Restated)]

\* A run of the scheduler that was asked for the day stores its hours while no run
\* under way is behind on it.
Stores ==
    stored' = (stored \ Restated) \cup
        {d \in Days : \E j \in Cron : StoresHours(j) /\ d \in wanted[j]
                                      /\ \A k \in Jobs : d \notin behind[k]}

\* The days of a run's document that another run is between its commits on.
Shared(j) == {d \in DocDays(j) : \E k \in Jobs \ {j} : Between(k) /\ d \in DocDays(k)}

Crosses ==
    crossed' = [j \in Jobs |->
        IF Over(j) THEN {}
        ELSE IF StoresHours(j) THEN Shared(j)
        ELSE crossed[j] \cup {d \in Days : Between(j) /\ d \in DocDays(j) /\
                 \E k \in Jobs \ {j} : StoresHours(k) /\ d \in DocDays(k)}]

\* A run that ends between its first two commits tears the days it wrote, two runs
\* that cross tear those they share; a run that stores its rows uncrossed mends.
Tears ==
    LET mended == UNION {DocDays(j) \ crossed[j] : j \in {k \in Jobs : StoresRows(k)}}
        cut == UNION {DocDays(j) : j \in {k \in Jobs : Between(k) /\ Over(k)}}
        met == UNION {Shared(j) : j \in {k \in Jobs : StoresHours(k)}}
    IN torn' = (torn \ mended) \cup cut \cup met

Recorded == Answers /\ Stores /\ Crosses /\ Tears

\* Bound: the hours the source publishes beside the backfill.
BackfillHours == {1}
Within ==
    /\ scenario' = scenario
    /\ scenario = "app" => stage'["backfill"] = "idle" /\ faults' = 0
    /\ scenario = "backfill" =>
          /\ stage'["midday"] = "idle"
          /\ \A d \in Days : Priced(published'[d]) \subseteq BackfillHours

HistoryInit ==
    /\ behind = [j \in Jobs |-> {}]
    /\ stored = {}
    /\ crossed = [j \in Jobs |-> {}]
    /\ torn = {}

ScenarioInit == DayAheadInit /\ HistoryInit /\ scenario \in {"app", "backfill"}
ScenarioNext == DayAheadNext /\ Recorded /\ Within
ScenarioSpec == ScenarioInit /\ [][ScenarioNext]_mcVars

\* Every job at once, as DayAheadSpec has it.
FreeSpec ==
    /\ DayAheadInit /\ HistoryInit /\ scenario = "free"
    /\ [][DayAheadNext /\ Recorded /\ scenario' = scenario]_mcVars

-----------------------------------------------------------------------------
\* ViewsAgree of the jobs of the app whose commits succeed (and every variable has
\* its type).
ViewsAgreeInApp == DayAheadTypeOK /\ (scenario = "app" => ViewsAgree)

\* What the source published for a day stays stored, once a run of the scheduler
\* whose window holds the day (scheduler.py:131, 295, 327) stored it with no older
\* answer on its way: later runs that overlap, fail, are killed, read the cached month
\* or no longer ask for the day leave it so, until the day is restated.
RestatementsStay ==
    \A d \in stored, h \in DayHours : published[d][h] # NoPrice => hourly[d][h] = published[d][h]

\* entsoe_prices.py:354, `no two views of the desk ever disagree`, with failing
\* commits, kills and a backfill in its own process: between runs the views of a day
\* agree unless a run was cut between its first two commits or crossed another there,
\* and the next run that asks for the day and is neither repairs them.
ViewsRepaired ==
    Settled => \A d \in Days \ torn : daily[d] = Mean(hourly[d]) /\ DetailAgrees(d)
=============================================================================
