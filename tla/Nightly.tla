------------------------------ MODULE Nightly ------------------------------
(***************************************************************************)
(* The nightly jobs that keep tables and files derived from the record:    *)
(* convergence bands, records, episodes, forecast scores, and the Parquet  *)
(* archive with its manifest.                                              *)
(*                                                                         *)
(* The sources are two hourly series of one hour a day, the price of a     *)
(* zone and that of its neighbour (which also stands for the forecast of   *)
(* the first).  The jobs run on the event loop in the order of their cron  *)
(* times, and the ingests that change the sources run between them; the    *)
(* archive is built in a thread beside the ingests and, started at 05:40,  *)
(* has ended by 23:42.  Any of them may be cut off.                        *)
(***************************************************************************)
EXTENDS Readings

CONSTANTS Days,          \* the days of the record
          Prices,        \* the prices a publication may give
          WINDOW,        \* days a nightly job goes back (10)
          DaysPerYear,   \* days of an archive file
          MaxChanges,    \* bound: publications and revisions
          MaxFaults      \* bound: failed jobs and kills

\* A day of the model has one hour; there is a record to start from, and its
\* prices are plausible ones (records.py), so that an extreme is only ever replaced.
ASSUME NightlyAssumption ==
    /\ HoursPerDay = 1 /\ SeasonalLag \in Nat
    /\ Days \subseteq Nat /\ IsFiniteSet(Days) /\ \E d, e \in Days : d < e
    /\ Prices \subseteq -500..4000 /\ Prices # {}

METRICS == <<"full", "low", "hours", "spread">>
\* start_scheduler: 05:40, 23:42, 23:45, 23:50, 23:58.
CRON == <<"archive", "derived", "records", "episodes", "scoreboard">>
YearOf(d) == d \div DaysPerYear

VARIABLES
    price, other,   \* day -> price, of the zone and of its neighbour
    today,
    agenda,         \* the jobs still to come today
    conv,           \* metric -> day -> stored value
    scores,         \* day -> row of forecast_score_daily
    episodes,       \* start -> [end, days, status] of negative_prices
    records,        \* kind -> [value, ts]
    files,          \* year -> content of its file
    manifest,       \* year -> content its entry describes
    build,          \* the archive build: [todo, entries, hot] or None
    todo,           \* the metrics the derived job has still to store
    fresh,          \* table -> days it was derived for since they last changed
    changes, faults

sources == <<price, other, today>>
tables == <<conv, scores, episodes, records, fresh>>
archive == <<files, manifest, build>>
bounds == <<changes, faults>>
vars == <<sources, agenda, tables, archive, todo, bounds>>

-----------------------------------------------------------------------------
(* What each table should say *)

InWindow == {d \in Days : today - WINDOW <= d /\ d <= today}
\* The auction has already published tomorrow.
ConvWindow == {d \in Days : today - WINDOW <= d /\ d <= today + 1}
\* A day of convergence, as one entry of each metric.
Bands(d) == store_convergence([x \in {d} \cap DOMAIN price |-> price[x]],
                              [x \in {d} \cap DOMAIN other |-> other[x]])
DayScore(d) == ScoresOf(other, price, {d})[d]
PriceDaily == [d \in DOMAIN price |-> [mean |-> price[d], neg |-> IF price[d] < 0 THEN 3 ELSE 0]]
Runs0 == _price_runs(PriceDaily, "negative_hours")
Content(y) == [d \in {x \in DOMAIN price : YearOf(x) = y} |-> price[d]]

-----------------------------------------------------------------------------
(* The record changes: an ingest publishes or revises a day *)

Upserted(f, d, v) == [x \in DOMAIN f \cup {d} |-> IF x = d THEN v ELSE f[x]]
\* A day's scores also read the day before and the one a seasonal lag back.
Touched(d) == {d, d + 1, d + SeasonalLag}
Publish(side, d, v) ==
    /\ todo = <<>> /\ changes < MaxChanges
    /\ changes' = changes + 1
    /\ IF side = "price" THEN price' = Upserted(price, d, v) /\ UNCHANGED other
       ELSE other' = Upserted(other, d, v) /\ UNCHANGED price
    /\ price' # price \/ other' # other
    /\ fresh' = [scores |-> fresh.scores \ Touched(d),
                 episodes |-> {}, records |-> {}]
    /\ UNCHANGED <<today, agenda, conv, scores, episodes, records, archive, todo, faults>>
Midnight ==
    /\ agenda = <<>> /\ todo = <<>> /\ build = None
    /\ today' = IF today = Max(Days) THEN today ELSE today + 1
    /\ agenda' = CRON
    /\ UNCHANGED <<price, other, tables, archive, todo, bounds>>

-----------------------------------------------------------------------------
(* The jobs on the event loop *)

Fires(name) ==
    /\ agenda # <<>> /\ Head(agenda) = name /\ todo = <<>> /\ build = None
    /\ agenda' = Tail(agenda)

\* _run_derived_stats_nightly: a metric is one upsert_hourly, one commit.
StartConvergence ==
    /\ Fires("derived")
    /\ todo' = METRICS
    /\ UNCHANGED <<sources, tables, archive, bounds>>
StoreWindow(D) ==
    /\ todo # <<>>
    /\ LET m == Head(todo)
           days == {d \in D : Bands(d) # <<>>}
       IN  conv' = [conv EXCEPT ![m] = [d \in DOMAIN @ \cup days |->
                        IF d \in days THEN Bands(d)[d][m] ELSE @[d]]]
    /\ todo' = Tail(todo)
    /\ UNCHANGED <<sources, agenda, scores, episodes, records, fresh, archive, bounds>>
\* A variant whose window ends yesterday.
StoreMetricShort == StoreWindow(InWindow \ {today})
StoreMetric == StoreWindow(ConvWindow)

\* compute_records: every extreme anew; one that no plausible value has any more
\* keeps its row.
StoreRecords ==
    /\ Fires("records")
    /\ LET new == compute_records(price, "price.dayahead")
       IN  records' = [k \in DOMAIN records \cup DOMAIN new |->
                          IF k \in DOMAIN new THEN new[k] ELSE records[k]]
    /\ fresh' = [fresh EXCEPT !.records = Days]
    /\ UNCHANGED <<sources, conv, scores, episodes, archive, todo, bounds>>

\* _upsert, keyed by the first day of a run.
_upsert(rows, runs) ==
    [s \in DOMAIN rows \cup {r.start : r \in runs} |->
        IF \E r \in runs : r.start = s
        THEN LET run == CHOOSE r \in runs : r.start = s
             IN  [end |-> run.end, days |-> run.days, status |-> Status(run, today)]
        ELSE rows[s]]
\* A variant that never retracts a run.
Kept(rows, runs) == rows
\* compute_episodes: what the recompute did not see is deleted.
Retracted(rows, runs) == [s \in DOMAIN rows \cap {r.start : r \in runs} |-> rows[s]]
compute_episodes ==
    /\ Fires("episodes")
    /\ \E runs \in {Runs0} : episodes' = Retracted(_upsert(episodes, runs), runs)
    /\ fresh' = [fresh EXCEPT !.episodes = Days]
    /\ UNCHANGED <<sources, conv, scores, records, archive, todo, bounds>>

\* forecast_score.compute_and_store_range over the finished days of the window;
\* a day without a common hour loses its row.
StoreScores ==
    /\ Fires("scoreboard")
    /\ LET D == InWindow \ {today}
           row == [d \in D |-> DayScore(d)]
           with == {d \in D : row[d] # None}
       IN  /\ scores' = [d \in (DOMAIN scores \ D) \cup with |->
                            IF d \in D THEN row[d] ELSE scores[d]]
           /\ fresh' = [fresh EXCEPT !.scores = @ \cup D]
    /\ UNCHANGED <<sources, conv, episodes, records, archive, todo, bounds>>

\* A job raises before its commit and is logged, or a commit of the derived job
\* does: what it had not stored waits for the next night.
JobFails ==
    /\ faults < MaxFaults
    /\ faults' = faults + 1
    /\ \/ todo # <<>> /\ todo' = <<>> /\ UNCHANGED agenda
       \/ todo = <<>> /\ build = None /\ agenda # <<>> /\ agenda' = Tail(agenda) /\ UNCHANGED todo
    /\ UNCHANGED <<sources, tables, archive, changes>>
\* The process is killed; the scheduler of the next one goes on with the agenda.
Kill ==
    /\ todo # <<>> \/ build # None
    /\ faults < MaxFaults
    /\ faults' = faults + 1
    /\ todo' = <<>> /\ build' = None
    /\ UNCHANGED <<sources, agenda, tables, files, manifest, changes>>

-----------------------------------------------------------------------------
(* build_archive *)

Hot == {YearOf(today), YearOf(today) - 1}
Oldest == YearOf(Min(DOMAIN price))
\* The manifest is read, and the hot years are fixed, when the build starts.
StartBuild ==
    /\ Fires("archive")
    /\ build' = IF DOMAIN price = {} THEN None ELSE
                [todo |-> [i \in 1..(YearOf(today) - Oldest + 1) |-> Oldest + i - 1],
                 entries |-> manifest, hot |-> Hot]
    /\ UNCHANGED <<sources, tables, files, manifest, todo, bounds>>
\* A year file: skipped when it is cold and exists, written whole otherwise.
build_year_file ==
    /\ build # None /\ build.todo # <<>>
    /\ LET y == Head(build.todo)
           rows == Content(y)
           skip == (y \notin build.hot /\ y \in DOMAIN files) \/ rows = <<>>
       IN  /\ files' = IF skip THEN files ELSE Upserted(files, y, rows)
           /\ build' = [build EXCEPT !.todo = Tail(@),
                                     !.entries = IF skip THEN @ ELSE Upserted(@, y, rows)]
    /\ UNCHANGED <<sources, agenda, tables, manifest, todo, bounds>>
\* A variant that leaves out the entries of the files this build wrote over.
EntriesCarried(entries) == [y \in DOMAIN entries \cap DOMAIN manifest |-> manifest[y]]
\* Entries whose file vanished drop out.
Entries(entries) == [y \in DOMAIN entries \cap DOMAIN files |-> entries[y]]
ReplaceManifest ==
    /\ build # None /\ build.todo = <<>>
    /\ manifest' = Entries(build.entries)
    /\ build' = None
    /\ UNCHANGED <<sources, agenda, tables, files, todo, bounds>>

-----------------------------------------------------------------------------
Init ==
    /\ price = [d \in Days \ {Max(Days)} |-> IF d <= 2 THEN Min(Prices) ELSE Max(Prices)]
    /\ other = [d \in Days |-> Max(Prices)]
    /\ today = Max(Days) - 1
    /\ agenda = CRON
    /\ conv = [m \in Range(METRICS) |-> <<>>]
    /\ scores = <<>> /\ episodes = <<>> /\ records = <<>>
    /\ files = <<>> /\ manifest = <<>> /\ build = None /\ todo = <<>>
    /\ fresh = [t \in {"scores", "episodes", "records"} |-> {}]
    /\ changes = 0 /\ faults = 0

Jobs == StartConvergence \/ StoreMetric \/ StoreScores \/ compute_episodes \/ StoreRecords
Build == StartBuild \/ build_year_file \/ ReplaceManifest
Next ==
    \/ \E side \in {"price", "other"}, d \in Days, v \in Prices : Publish(side, d, v)
    \/ Midnight \/ Jobs \/ Build \/ JobFails \/ Kill

\* The days go by, the scheduler fires each job at its time, and what runs proceeds.
\* The agenda leaves only one of these steps possible at a time.
Proceeds == Midnight \/ Jobs \/ Build
Fairness == WF_vars(Proceeds)
Spec == Init /\ [][Next]_vars /\ Fairness

-----------------------------------------------------------------------------
(* Properties *)

\* What a job wrote for the days it covered is what their hours give, until one
\* of those hours changes: scores and episodes as compute_and_store_range and
\* compute_episodes store them, a retracted run included.
TablesMatch ==
    /\ \A d \in fresh.scores :
        LET row == DayScore(d)
        IN  IF row = None THEN d \notin DOMAIN scores
            ELSE d \in DOMAIN scores /\ scores[d] = row
    /\ fresh.episodes # {} =>
        LET runs == Runs0 IN
        /\ DOMAIN episodes = {r.start : r \in runs}
        /\ \A r \in runs : episodes[r.start].end = r.end /\ episodes[r.start].days = r.days
    /\ fresh.records # {} => compute_records(price, "price.dayahead") = records

\* The convergence series of every day of the window are what its hours give.
BandsStored ==
    \A d \in ConvWindow : Bands(d) # <<>> =>
        \A m \in Range(METRICS) : d \in DOMAIN conv[m] /\ conv[m][d] = Bands(d)[d][m]
\* The manifest describes the files of the two hot years as they are and as the
\* record is.
HotYearsListed ==
    \A y \in Hot : Content(y) # <<>> =>
        /\ y \in DOMAIN files /\ files[y] = Content(y)
        /\ y \in DOMAIN manifest /\ manifest[y] = Content(y)

=============================================================================
