------------------------------ MODULE DayAhead ------------------------------
(***************************************************************************)
(* Day-ahead prices of one bidding zone: `ingest_day_ahead` of             *)
(* backend/power/entsoe_prices.py, run by the nightly, midday, afternoon   *)
(* and startup jobs of the scheduler and by the backfill script, over the  *)
(* raw cache of the zone's month.                                          *)
(*                                                                         *)
(* A run asks for the days of a window that moves with the date, fetches   *)
(* the month's document, keeps its own days and writes them in three       *)
(* commits: the hourly series (the canonical store), the daily rows        *)
(* derived from it (PowerPriceDaily.mean_price and EnergyPrice.close), the *)
(* quarter-hourly series.  Nothing after the fetch awaits, so jobs of one  *)
(* process do not interleave there; another process, a failing commit or a *)
(* kill may.                                                               *)
(***************************************************************************)
EXTENDS Integers, FiniteSets, FiniteSetsExt

CONSTANTS
    Days, DayHours,  \* delivery days of the month, hours of a day
    Prices,       \* integer prices
    NoPrice,      \* not published, not stored
    NoDoc,        \* no document
    Jobs,         \* jobs that run ingest_day_ahead
    Process,      \* Process[j]: the process job j runs in
    Overwrite,    \* Overwrite[j]: whether j re-fetches a cached month
    Recent,       \* Recent[j]: the days j asks for, up to tomorrow; 0 for all of the month
    LastDay,      \* bound: the last date
    MaxFaults,    \* bound: commits that fail, processes killed
    MaxPublish    \* bound: publications of the source

\* What the source publishes for a day, or the store keeps: a price per hour.
Curves == [DayHours -> Prices \cup {NoPrice}]
Empty == [h \in DayHours |-> NoPrice]

ASSUME DayAheadAssumption ==
    /\ MaxFaults \in Nat /\ MaxPublish \in Nat /\ LastDay \in Nat
    /\ Days \subseteq Int /\ Recent \in [Jobs -> Nat]
    /\ NoDoc \notin [Days -> Curves]

\* A mean is kept as the sum and the number of its terms; no row, no mean.
NoMean == [sum |-> 0, n |-> 0]
Priced(c) == {h \in DayHours : c[h] # NoPrice}
Mean(c) == IF Priced(c) = {} THEN NoMean
           ELSE [sum |-> MapThenSumSet(LAMBDA h : c[h], Priced(c)),
                 n |-> Cardinality(Priced(c))]
Means == {Mean(c) : c \in Curves}

VARIABLES
    published,   \* the source's document: a curve per day
    cache,       \* the month's blob in the raw cache
    hourly,      \* power_hourly, series price.dayahead: a curve per day
    quarter,     \* power_hourly, series price.dayahead.qh: a curve per day
    daily,       \* PowerPriceDaily.mean_price = EnergyPrice.close, per day
    detail,      \* PowerPriceDaily.hourly_prices (and min, max): a curve per day
    today,       \* the UTC date
    stage, wanted, doc, means, seen,   \* per job: the run in progress
    publications, faults

tables == <<hourly, quarter, daily, detail>>
local == <<wanted, doc, means, seen>>
dayAheadVars == <<published, cache, tables, today, stage, local, publications, faults>>

DayAheadInit ==
    /\ published = [d \in Days |-> Empty]
    /\ cache = NoDoc
    /\ hourly = [d \in Days |-> Empty]
    /\ quarter = [d \in Days |-> Empty]
    /\ daily = [d \in Days |-> NoMean]
    /\ detail = [d \in Days |-> Empty]
    /\ today = 0
    /\ stage = [j \in Jobs |-> "idle"]
    /\ wanted = [j \in Jobs |-> {}]
    /\ doc = [j \in Jobs |-> NoDoc]
    /\ means = [j \in Jobs |-> [d \in Days |-> NoMean]]
    /\ seen = [j \in Jobs |-> {}]
    /\ publications = 0
    /\ faults = 0

\* ENTSO-E publishes or restates a day: a later document may add hours, change
\* prices and leave hours out (the store keeps those).
Publish ==
    /\ publications < MaxPublish
    /\ publications' = publications + 1
    /\ \E d \in Days, c \in Curves \ {Empty} :
         published' = [published EXCEPT ![d] = c]
    /\ UNCHANGED <<cache, tables, today, stage, local, faults>>

\* Midnight.
Tick ==
    /\ today < LastDay
    /\ today' = today + 1
    /\ UNCHANGED <<published, cache, tables, stage, local, publications, faults>>

-----------------------------------------------------------------------------
(* The event loop of a process *)

Waiting == {"idle", "fetch", "answered"}
LoopFree(j) ==
    \A k \in Jobs \ {j} : Process[k] = Process[j] => stage[k] \in Waiting

Goto(j, l) == stage' = [stage EXCEPT ![j] = l]

\* The run is over: its locals are gone.
Ends(j) ==
    /\ Goto(j, "idle")
    /\ wanted' = [wanted EXCEPT ![j] = {}]
    /\ doc' = [doc EXCEPT ![j] = NoDoc]
    /\ means' = [means EXCEPT ![j] = [d \in Days |-> NoMean]]
    /\ seen' = [seen EXCEPT ![j] = {}]

-----------------------------------------------------------------------------
(* ingest_day_ahead *)

\* Mutation: the scheduler's jobs use the cached month too.
UsesCacheAlways(j) == cache # NoDoc

\* fetch_or_cache: a cached month answers unless the job overwrites.
UsesCache(j) == ~Overwrite[j] /\ cache # NoDoc

\* The n days that end tomorrow.
_power_recent_days(n, t) == (t + 2 - n) .. (t + 1)

\* The days a run that read the date t asks for.
Asks(j, t) == IF Recent[j] = 0 THEN Days ELSE Days \cap _power_recent_days(Recent[j], t)

\* `if day in wanted`: what the run keeps of the month's document.
Only(days, document) == [d \in Days |-> IF d \in days THEN document[d] ELSE Empty]

\* The job read the date when it began; this zone's turn may come after midnight.
Start(j) ==
    /\ stage[j] = "idle"
    /\ LoopFree(j)
    /\ \E t \in {today - 1, today} :
         /\ wanted' = [wanted EXCEPT ![j] = Asks(j, t)]
         /\ IF UsesCache(j)
            THEN doc' = [doc EXCEPT ![j] = Only(Asks(j, t), cache)] /\ Goto(j, "hourly")
            ELSE Goto(j, "fetch") /\ UNCHANGED doc
    /\ UNCHANGED <<published, cache, tables, today, means, seen, publications, faults>>

\* The source answers with what it publishes at that moment.
Answer(j) ==
    /\ stage[j] = "fetch"
    /\ doc' = [doc EXCEPT ![j] = published]
    /\ Goto(j, "answered")
    /\ UNCHANGED <<published, cache, tables, today, wanted, means, seen, publications, faults>>

\* An HTTP error: the month is skipped, nothing is written.
HttpFails(j) ==
    /\ stage[j] = "fetch"
    /\ LoopFree(j)
    /\ Ends(j)
    /\ UNCHANGED <<published, cache, tables, today, publications, faults>>

\* The job resumes; write_cached keeps an existing blob unless overwriting, and
\* the cache takes the whole month whatever days the run asked for.
Resume(j) ==
    /\ stage[j] = "answered"
    /\ LoopFree(j)
    /\ cache' = IF Overwrite[j] \/ cache = NoDoc THEN doc[j] ELSE cache
    /\ doc' = [doc EXCEPT ![j] = Only(wanted[j], doc[j])]
    /\ Goto(j, "hourly")
    /\ UNCHANGED <<published, tables, today, wanted, means, seen, publications, faults>>

\* The days asked for that the document has prices for (stats_by_day).
DocDays(j) == {d \in Days : Priced(doc[j][d]) # {}}

\* ON CONFLICT DO UPDATE: the document's hours replace stored ones, the others
\* stay.
Merge(old, new) ==
    [d \in Days |-> [h \in DayHours |->
        IF new[d][h] # NoPrice THEN new[d][h] ELSE old[d][h]]]

\* First commit: the canonical hourly series.
WriteHourly(j) ==
    /\ stage[j] = "hourly"
    /\ hourly' = Merge(hourly, doc[j])
    /\ Goto(j, "means")
    /\ UNCHANGED <<published, cache, quarter, daily, detail, today, local, publications, faults>>

\* Mutation: the mean is that of the document (the code before the fix the
\* comment in ingest_day_ahead describes).
DocumentMean(j, d) == Mean(doc[j][d])

\* _canonical_daily_mean: the day's mean over the stored hourly series.
CanonicalMean(j, d) == Mean(hourly[d])

\* The daily loop reads each day's mean and whether its row exists.
ReadMeans(j) ==
    /\ stage[j] = "means"
    /\ means' = [means EXCEPT ![j] = [d \in Days |->
                    IF d \in DocDays(j) THEN CanonicalMean(j, d) ELSE NoMean]]
    /\ seen' = [seen EXCEPT ![j] = {d \in Days : daily[d] # NoMean}]
    /\ Goto(j, "daily")
    /\ UNCHANGED <<published, cache, tables, today, wanted, doc, publications, faults>>

\* Rows the run inserts although another process inserted them meanwhile: the
\* unique (date, zone) and (date, symbol) keys refuse the whole commit.
Clashes(j) == {d \in DocDays(j) \ seen[j] : daily[d] # NoMean}

\* Mutation: a daily row that exists is not updated.
WriteDailyOnce(j) ==
    /\ stage[j] = "daily"
    /\ Clashes(j) = {}
    /\ daily' = [d \in Days |-> IF d \in DocDays(j) \ seen[j] THEN means[j][d] ELSE daily[d]]
    /\ detail' = [d \in Days |-> IF d \in DocDays(j) \ seen[j] THEN doc[j][d] ELSE detail[d]]
    /\ Goto(j, "quarter")
    /\ UNCHANGED <<published, cache, hourly, quarter, today, local, publications, faults>>

\* Second commit: the daily rows, the mean from the store and the rest from
\* the document.
WriteDaily(j) ==
    /\ stage[j] = "daily"
    /\ Clashes(j) = {}
    /\ daily' = [d \in Days |-> IF d \in DocDays(j) THEN means[j][d] ELSE daily[d]]
    /\ detail' = [d \in Days |-> IF d \in DocDays(j) THEN doc[j][d] ELSE detail[d]]
    /\ Goto(j, "quarter")
    /\ UNCHANGED <<published, cache, hourly, quarter, today, local, publications, faults>>

\* Third commit: the quarter-hourly points.
WriteQuarter(j) ==
    /\ stage[j] = "quarter"
    /\ quarter' = Merge(quarter, doc[j])
    /\ Ends(j)
    /\ UNCHANGED <<published, cache, hourly, daily, detail, today, publications, faults>>

\* The unique key refuses the daily commit: the exception goes to the job's
\* handler, which logs it; what the first commit wrote stays.
DailyClashes(j) ==
    /\ stage[j] = "daily"
    /\ Clashes(j) # {}
    /\ Ends(j)
    /\ UNCHANGED <<published, cache, tables, today, publications, faults>>

\* A commit raises for another reason (a locked database, a full disk).
CommitFails(j) ==
    /\ faults < MaxFaults
    /\ faults' = faults + 1
    /\ stage[j] \in {"hourly", "daily", "quarter"}
    /\ Ends(j)
    /\ UNCHANGED <<published, cache, tables, today, publications>>

\* The process is killed inside a run, with all its jobs, and started again.
Peers(j) == {k \in Jobs : Process[k] = Process[j]}
Cleared(f, j, v) == [k \in Jobs |-> IF k \in Peers(j) THEN v ELSE f[k]]

Kill(j) ==
    /\ faults < MaxFaults
    /\ faults' = faults + 1
    /\ stage[j] # "idle"
    /\ stage' = Cleared(stage, j, "idle")
    /\ wanted' = Cleared(wanted, j, {})
    /\ doc' = Cleared(doc, j, NoDoc)
    /\ means' = Cleared(means, j, [d \in Days |-> NoMean])
    /\ seen' = Cleared(seen, j, {})
    /\ UNCHANGED <<published, cache, tables, today, publications>>

Ingest(j) ==
    \/ HttpFails(j) \/ Resume(j) \/ WriteHourly(j) \/ ReadMeans(j)
    \/ WriteDaily(j) \/ DailyClashes(j) \/ WriteQuarter(j)

DayAheadNext ==
    \/ Publish
    \/ Tick
    \/ \E j \in Jobs : Start(j) \/ Answer(j) \/ Ingest(j) \/ CommitFails(j) \/ Kill(j)

DayAheadSpec == DayAheadInit /\ [][DayAheadNext]_dayAheadVars

-----------------------------------------------------------------------------
(* Properties *)

Docs == [Days -> Curves]

\* Every variable has its type; a run that writes has a document.
DayAheadTypeOK ==
    /\ published \in Docs
    /\ cache \in Docs \cup {NoDoc}
    /\ hourly \in Docs
    /\ quarter \in Docs
    /\ daily \in [Days -> Means]
    /\ detail \in Docs
    /\ stage \in [Jobs -> Waiting \cup {"hourly", "means", "daily", "quarter"}]
    /\ today \in 0 .. LastDay
    /\ wanted \in [Jobs -> SUBSET Days]
    /\ doc \in [Jobs -> Docs \cup {NoDoc}]
    /\ \A j \in Jobs : doc[j] = NoDoc <=> stage[j] \in {"idle", "fetch"}
    /\ means \in [Jobs -> [Days -> Means]]
    /\ seen \in [Jobs -> SUBSET Days]
    /\ publications \in 0 .. MaxPublish
    /\ faults \in 0 .. MaxFaults

\* No run is between its first and its last commit.
Settled == \A j \in Jobs : stage[j] \in Waiting \cup {"hourly"}

\* The hours of the day the row has a price for carry the stored price.
DetailAgrees(d) == \A h \in Priced(detail[d]) : detail[d][h] = hourly[d][h]

\* _canonical_daily_mean, `guarantees no two views of the desk ever disagree on
\* a zone's daily price`: whenever no run is in the middle of its commits, each
\* day's stored daily price is the mean of the stored hourly prices, and the
\* row's own hourly prices are those of the hourly series.  It holds for the
\* jobs of one process whose commits succeed.
ViewsAgree ==
    Settled => \A d \in Days : daily[d] = Mean(hourly[d]) /\ DetailAgrees(d)
=============================================================================
