# A TLA+ verification project for Obsyd

Obsyd is a European power and gas desk: a FastAPI application on one SQLite
database (write-ahead log), an APScheduler that fetches ENTSO-E, ENTSOG, GIE,
Elexon and other sources, tables derived from what was fetched, a metered public
API, alert rules with an inbox, and a front end. This directory holds TLA+ models
of its ingest, storage, derivation, serving and account logic, the TLC
configurations that check them, and TLAPS proofs about most of them: the write
path of the hourly store, the day-ahead ingest, the raw cache, the nightly
tables, the grid pipelines, the metering and the guards of the API, the alert
rules, login, billing and the social account, and the figures and answers of the
desk, with the radar and the question box.

Contents

1. The system and its parts
2. Modules and how they correspond to the code
3. What each run checks and shows
4. Bounds, and why they are enough
5. Fairness
6. What is proved
7. Disagreements between the code and its documentation
8. What is not modelled, and the plan
9. Running the tools

## 1. The system and its parts

### How it runs

Three kinds of concurrency meet in this program, and the models keep them apart.

* **Coroutines.** The scheduler's fetching jobs are coroutines on one event
  loop. They interleave only where they `await` (a network request), and never
  in the synchronous code between two awaits, such as `upsert_hourly`.
* **Threads.** Endpoints are plain `def` handlers, so Starlette runs each in a
  thread of its pool; some jobs run in the scheduler's thread pool. They
  interleave between any two statements, except under a `threading.Lock`.
* **Processes.** Backfill and migration scripts, and the ingest process when the
  roles are split, share the database file and the raw-cache directory with the
  app. They interleave between any two SQL statements or system calls, and each
  can be killed alone.

A database session is created with `autoflush=False`, and Python's `sqlite3`
issues `BEGIN` only before the first INSERT, UPDATE or DELETE. The SELECTs
before it therefore run in autocommit mode and are not protected by the
transaction that follows; the write lock is taken by the first write and
released by the commit. A write that waits longer than `busy_timeout` for the
lock raises, and a connection whose read snapshot has been overtaken by another
commit cannot become a writer at all.

### Inventory

| Component | State | Operations | Shares state with | What is hard | What makes it correct |
|---|---|---|---|---|---|
| Hourly store (`power/hourly_store.py`) | `power_hourly`, `series_dim`, `zone_dim`, `power_revision`, `ingest_arrival` | `upsert_hourly`, `_record_ledger`, dimension get-or-create, `read_hourly` | every ingest and backfill | reads before the lock, pending objects after a failure, chunks in one transaction, killed writers | rows refer to dimension rows; the revision ledger is exact; the arrival log adds up; what may still be locked while a caller awaits |
| Error handling around it (`collectors/scheduler.py`, `scripts/power_backfill.py`) | the session a step hands on | log and continue, retry, end | hourly store | a failed flush, a stale snapshot on a reused session | every call and its retries end |
| Raw cache (`gas/raw_cache.py`) | `<key>.json.gz`, `.json`, `.json.gz.tmp` | `read_cached`, `write_cached`, `fetch_or_cache` | all fetchers, the migration | shared temporary name, kills, answers out of order | entries decode, are not lost, change only to what was fetched |
| Cache migration (`scripts/compress_raw_cache.py`) | the same files | `_compress`, `compress_tree` | raw cache | decides on what it saw, unlinks by name | harmless until a caller writes what it converts |
| Day-ahead ingest (`power/entsoe_prices.py`) | hourly, quarter-hourly and daily prices | `ingest_day_ahead` | hourly store, raw cache | three commits, overlapping runs, a moving window, a backfill process | the daily price is the mean of the hours; what was stored as published stays |
| Parsers (`power/entsoe_*.py`, `elexon.py`, `neso.py`, `energy_charts_flows.py`) | none | one parser per document | every ingest | compressed curves, resolutions, both sides of a border, pumping | a document says the same however it is written, as far as its parser fills |
| Grid, load, generation (`power/entsoe_grid.py`, `elexon.py`, `daily.py`) | hourly series, daily rows, mix | fetch, derive, rederive | hourly store | documents missing, a residual over several commits | no partial load; daily rows are means of their hours; convergence |
| Other feeds (`power/`, `gas/`: 19 ingests) | hourly and daily tables, cache | job with overwrite, backfill without | raw cache | errors cached or raised, empty texts, legs, provisional values | what a job covers is stored in the end |
| Outages (`power/entsoe_outages.py`, `outage_history.py`) | messages by (mrid, revision), hourly snapshots | paged fetch, upsert, snapshot | hourly store | paging a moving list, duplicates in a page | every listed revision arrives; a snapshot counts what stands |
| Derived tables (`episodes.py`, `records.py`, `convergence.py`, `forecast_score.py`, ...) | tables recomputed from the store | recompute, retract | hourly store | recomputation against moving input, several commits | equal to a recomputation from scratch |
| Archive (`power/archive.py`) | year files and a manifest | nightly rewrite | ingests | a record that moves during the build, kills | the manifest describes what is there |
| Radar (`signals/detectors/`, `signals/evaluator.py`) | alerts | detect, upsert | store | one predicate read in several places, exact and rounded | radar and desk say the same, but for the rounding |
| Read endpoints (`routes/power.py`, `api_v1.py`, `scoreboard.py`, `quality.py`, `gas.py`) | caches | panels, series, rankings | store | one figure computed in two ways | independent ways agree |
| Question box (`power/ask.py`) | none | `answer_structured` | store | years that are not on record | missing years are named |
| Gas desk (`gas/`) | flows, demand, balance | sync, model, balance | raw cache | one flow reported by several operators, a keeper that changes | one report of a flow counts |
| API keys (`auth/api_keys.py`) | `api_keys` | create, revoke, resolve | metering | check and insert in two statements | the cap on active keys, but for overlapping requests |
| Metering (`metering.py`) | counters in memory, `api_usage_daily` | `record`, `usage_today`, `flush`, report | API keys, scheduler | counts move between memory and ledger while both are read | nothing is lost or counted twice |
| API guards (`api_guard.py`) | a semaphore, a TTL cache, a lock | `heavy_query_guard`, `cached_value`, `warm_value` | v1 endpoints, `coverage_warm` | a scan under a lock, a job outside it | slots conserved, values fresh, one scan per TTL |
| Alert rules (`routes/alert_rules.py`, `notifications/alert_runner.py`) | `alert_rules`, `user_alert_events` | create, patch, delete, mark seen; the runner | evaluators, subscriptions | edits during a run, one commit for all | cooldown; rules and inbox agree |
| Login and limits (`auth/`, `routes/auth.py`, `waitlist.py`) | windows, used links, sign-ups | request, verify, sign up | endpoints in threads | unlocked check-then-append, pruning, restarts | limits hold; a link is used once |
| Billing (`routes/webhooks.py`, `auth/subscription_check.py`) | `subscriptions` | one handler per event | alert rules, API (tier) | repeated, lost and reordered events | the last event decides |
| Social account (`social/`) | ledger of posts | compose, post, record | store | a kill between post and record, a second run meanwhile | no post twice otherwise |
| Scheduler (`collectors/scheduler.py`, `ingest_main.py`) | jobs, roles | register, fire, coalesce | all jobs | order, overlap, restart | part of the jobs above |
| Freshness, watchdog, retention; email; migrations; dormant verticals; front end | | | | presentation, or one statement | |

`PROJECT.json` lists every component with its sources and status, and under
"hazards" the lines at which something hard to test may go wrong, each with the
properties that would notice.

## 2. Modules and how they correspond to the code

A component with state has a module of its own: its state as variables, one
action per step that other actors can observe separately. A component that only
computes is a module of operators with the names of the code's functions.
Definitions whose comment begins "A variant" or "Mutation:" are wrong forms of
the definition that follows; they belong to no specification and show that the
properties notice them. `*MC` modules give values to constants that are
functions or sequences and put modules with disjoint state side by side: the
variable `part` says which of them a behaviour moves. Modules that are put side by
side have no name in common (`GuardSpec`, `LoginSpec`, `CacheSpec`), so that a run
checks the very definitions the theorems are about, and one module can hold
proofs about two of them.

### HourlyStore and LedgerStore

`HourlyStore` models `upsert_hourly` and what it calls, for sessions `Writers` on
one database. `store`, `dims`, `revisions`, `arrivals` are the committed tables;
`version` counts commits of the log; `lock` is SQLite's write lock. For each
writer `pc` is the place in the call and `tx`, `snap`, `newDims`, `newRevs`,
`pending`, `written`, `session` are its connection and its SQLAlchemy session.

| Action | Code |
|---|---|
| `Submit` | a caller calls `upsert_hourly` with a batch, without its None values and de-duplicated; it may be empty |
| `ReturnEmpty` | `if not rows: return 0`, after the ids are resolved: no commit, a new dimension row and its lock stay |
| `LookupDim`, `LookupInactive`, `CreateDim`, `CreateDimFails` | `resolve_series_id`, `resolve_zone_id`: SELECT, then add and flush; the flush may meet a lock, a stale snapshot, a row inserted meanwhile |
| `ReadExisting`, `RecordLedger`, `RecordLedgerFails` | `_record_ledger`: the SELECT of existing values, the epsilon comparison, the revision INSERT, the arrival object that stays pending |
| `UpsertChunk`, `UpsertChunkFails` | the loop over `_BATCH` rows |
| `Commit` | flush of pending arrivals, commit of everything |
| `CallerContinues` / `CallerRetries`, `CallerGivesUp` / `CallerEnds` | the scheduler's per-step `except`; `_with_retry`; a job that ends with the exception |
| `EndJob`, `Crash` | the session is closed; the process dies |
| `OtherLocks`, `OtherCommits` | writers of other tables on the same file |

SQLite and SQLAlchemy are external: their part is modelled from how this code
configures and uses them (autocommit SELECTs, snapshot upgrade fails when
stale, `PendingRollbackError` after a failed flush). A statement that fails
outside a flush leaves the transaction as it was; a failed flush rolls back.
Values are integers in units of `REVISION_FLOOR`, so that the epsilon test of
the ledger, `max(floor, 0.1 %)`, is exact.

`LedgerStore` is what readers are promised: a batch lands in one step, and with
it exactly the revisions of the values it replaces (`Put`), beside commits to
other tables (`Elsewhere`). `HourlyStore` instantiates it with `table <- store`,
`ledger <- revisions`, `clock <- version`; with one writer it implements it
(`ImplementsLedgerStore`, checked and proved).

### RawCache

One cache entry at system-call granularity. Directory entries `gz`, `tmp` point
to inodes with data; `legacy` is the uncompressed file. Coroutines of one
process do not interleave in `write_cached` (`LoopFree`), processes do.
`Call`, `Answer`, `Resume`, `Check`, `OpenTmp`, `WriteTmp`, `Replace`, `UnlinkLegacy`
are `fetch_or_cache` and `write_cached`; the migration has its own steps for
`_compress` (open, write, verify, replace, weigh, unlink). `Crash` kills a
process with all of its coroutines between any two calls. Callers with and without
`overwrite` run beside the migration; `raced`, a history variable of `RawCacheMC`,
remembers that one of them wrote while it converted, and the properties speak of the
time before.

### DayAhead

`ingest_day_ahead` for one zone's month: `Start` asks for the days of a window that
moves with the date (`Asks`: seven days up to tomorrow at night, today and tomorrow
at midday, the whole month for the backfill), `Answer` and `Resume` are the
read-through fetch, which caches the month and keeps the days asked for (`Only`),
then the hourly commit, the means read back from the store, the daily commit, the
quarter-hourly commit. `Tick` is midnight; a job may begin on the day before and
reach the zone after it. A mean is kept as sum and count, so it is
exact. Parsing is abstracted to the curve it returns; a later document may
omit hours that the store keeps. `CommitFails` and `Kill` end a run between two
commits. The history variables of `DayAheadMC` say of a day which runs hold an
older answer for it (`behind`), whether a run of the scheduler stored it as published
(`stored`), which runs wrote its hours at once (`crossed`) and whether that or a fault
may have left its views apart (`torn`).

### Grid

The load and generation pipelines of one zone: `ingest_grid`, the load and the
generation forecast, and `ingest_elexon`; the initial state says which. A run
fetches its documents one by one (`FetchOk`, `FetchFails`), then commits the
daily rows and each hourly series without awaiting (`Derive`, `CommitDaily`,
`CommitSeries`); `Abandon` is a raising commit or a kill between two of them.
`rederive` is `scripts/rederive_daily.py`.

### Feeds

The nineteen other feeds as rows of `FeedTable`. Each row is the feed's fetch
(which of an acknowledgement, a 400 and an error is a document, an empty text or
an exception), its ingest (which legs a day needs, whether an error is caught,
when rows are written, whether days outside the window are dropped, whether
values are carried forward) and what its job asks for. `RunJob` overwrites the
cache, `run_backfill` beside it reads it; `Fetch`, `ReadCached`, `Raised` and
`Kill` are the steps of either.

### Outages

A board per query lists messages that are posted, revised, withdrawn and
expired (external) while `ingest_outages` reads it page by page. `FetchFails`,
`PassFails` and `Kill` are the three ways a run is cut short; a page with two
rows of one key fails as a whole, because the query for existing rows does not
see rows that were only added. `_run_outage_snapshot` writes what stands and
runs.

### Nightly

The jobs of the night in the order of their cron times, over two price series:
convergence in four commits (`StoreMetric`), records, episodes with retraction,
forecast scores, and the archive build in a thread (`StartBuild`,
`build_year_file`, `ReplaceManifest`) while ingests change the record. Its
formulas are those of `Derived` and `Readings`, so the tables hold what the code
would compute. `fresh` is a history variable: the days a table was derived for
since their hours last changed.

### Documents, and the readers: Figures, Derived, Readings, Desk, Panels, PublicApi, Detectors, Questions, Gas

Operators, one per function of the code, over a database that is a record of
functions (`Desk` says which). `Figures` has exact rationals, rounding, order
statistics and z-scores. `Documents` has the parsers: periods with resolution and
A03 fills in the parsers that have them, consumption keys, border sides, bids and
JSON rows. `Derived` and
`Readings` have the statistics, `Desk` and `Panels` the endpoints of
`routes/power.py`, `PublicApi` the v1 API, the scoreboard and the quality pages,
`Detectors` the radar and the evaluators of the alert rules, `Questions` the
answers of the question box, `Gas` the registry, the ingest of flows into
it, the gas balance and its panels. `DocumentsMC`
and `DeskMC` ask them over small documents and records with holes; the state is
one question, the clock and the cache of the marginal overview. `DeskMC` evaluates
more panels than its properties read: each operator is run at least once on these
records, which shows that it is defined there and no more.

XML and JSON are abstracted to the records they carry, and wording and columns
are left out. Sums and means are exact, where the code has floats: rounding
appears where the code compares a rounded value.

### ApiUsage

Keys and metering of one email. Steps are one critical section under `metering._lock`,
one SELECT, or one commit. `recorded` and `lost` are history variables: what `record`
was called with and what restarts and failed flushes took; `overtaken` and `late` are
the threads about to mint on a count that another mint has outdated, and the keys so
minted. A report is its rows per day (`ReadLedger`), the date it calls today
(`NameToday`) and the tail that `usage_today` finds under the date it asks for itself
(`ReadTail`); the flush, midnight and other requests may come in between.

### ApiGuard

The semaphore, the cache lock and the TTL slots, with a bounded clock. A cached
value is identified by the instant its scan read the store, which is what
freshness is about. The warming job scans outside the lock, as in the code; a
run is assumed to be shorter than its period (seconds against half an hour), so
`max_instances` never skips one.

### AlertRules, Login, Billing, Social

`AlertRules` has the endpoints and the runner of one email. The runner's session
does not autoflush: a run stages, and one commit lands everything. Ids are
allocated as SQLite does for an INTEGER PRIMARY KEY without `AUTOINCREMENT`; `uid`
is a history field that says which creation a row or a notification belongs to.
An evaluator is a choice of no trigger, a trigger, or an exception
(`Detectors` has the evaluators themselves).

`Login` has the sliding windows of `ratelimit.py`, the request for a link in one
step of the event loop, and `verify_magic_link` and the sign-up on pool threads
statement by statement; the limiter and the used links die with the process.
`Billing` has a shop whose events are repeated, lost and reordered (external), the
handler of each event, and `require_pro`; `InPaidPeriod` is the shop's view of who has
paid: active, in grace, or cancelled and not yet expired (`subscription_check.py:16-22`).
`Social` has the choice of the post, the ledger, the request that may fail after the
post is out, the kill in between, and the job's run beside one started by hand in
another process (`Runners`): from the lookup in the ledger to the line written there
nothing keeps the other out.
`AccountsMC` puts the four side by side, as `ApiMC` does with `ApiUsage` and
`ApiGuard`.

### How they fit together

`DayAhead`, `Grid` and `Feeds` use a raw-cache entry and a commit of the store as
atomic steps; `RawCache` and `HourlyStore` look inside them, and `LedgerStore` is
the interface: one commit, all of it, with its revisions. `Documents` is inside
what the ingests call an answer. `Nightly` and `DeskMC` share the formulas of
`Derived` and `Readings`: the first asks whether the stored tables follow the
record, the second whether the formulas say what they should. The two-process
configurations of section 7 show where the assumption of an atomic step stops.

## 3. What each run checks and shows

Passing runs.

| Run | Properties | Shows |
|---|---|---|
| HourlyStoreSole | `ArrivalTotals`, `NoLockAcrossCalls`, `ImplementsLedgerStore` | one job among writers of other tables, with timeouts, stale snapshots and kills, that ends when a call raises: it implements `LedgerStore`, the arrival log adds up to rows and revisions, and a call that leaves with the write lock is that of an empty batch with a new key, which returned and left nothing but dimension rows uncommitted |
| HourlyStoreTwo | `DimsCoverRows`, `BatchResolved` | ingest (continues) and backfill (retries) on one series: the dimension rows of every stored row are there, and every call comes to an end |
| Stores | `NoPartialFileUnlessRaced`, `FetchedIsKept`, `NoStaleResurfaces`; `NightlyMatches`, `NightlySettles` | two coroutines, overwriting or not, and the migration on a cache entry, until one of them writes while it converts: the entry decodes, is not lost, changes only when a fetched payload is moved into place; the nightly jobs: what a job wrote is what the hours give, and bands and archive heal after failed commits and cut-off builds |
| DayAhead | `ViewsAgreeInApp`, `RestatementsStay`, `ViewsRepaired` | nightly and midday runs overlap in one process, or the nightly one beside a backfill process meets failing commits and kills, over midnights that move the windows: the daily price is the mean of the hours; what a run of the scheduler stored as published, with no older answer on its way, stays until it is restated; between runs the views of a day agree unless a run was cut or crossed another, and the next one that asks for the day and is neither repairs them |
| Grid | `NoPartialLoad`, `DailyMeansAgree`, `Converges` | four pipelines with failing requests and cut-off runs: half of a zone's load is never stored as all, the hourly and daily residuals agree, later runs repair everything |
| Ingest | `FeedHeals`; `OutagesComplete`, `SnapshotSettles` | nineteen feeds, job beside backfill, with errors, kills and cached answers: what a job covers is stored in the end; pages read from a moving board: every listed revision arrives and the snapshot settles on it |
| Desk | `ParsersFaithful`, `EpisodesMatch`, `RadarMatchesDesk`, `ReadingsAgree`, `CaptureAgrees`, `DaysPoolToHours`, `GapsNamed`, `OneReportCounts` | figures computed in two places agree (dictionaries and SQL, one zone and all zones, days and hours; radar and desk, unless a rounded share crosses a limit), the scans find what their reference definition names, missing years are named, one report of each gas flow counts, also when the keeper of a place changes between two syncs (an export once per key) |
| Api | `EverythingAccounted`, `ReportNotOver`, `KeyCap`, `AllFlushed`; `SlotsConserved`, `ServedFresh`, `HerdAnswered` | two threads, flushes that may fail, midnight, a restart: nothing is counted twice or vanishes unaccounted, no report bills too much, the key cap is passed only by keys minted on a count another request had outdated, and by fewer than there are threads, everything not lost reaches the ledger; three threads for two slots, failing scans and the job: no slot leaks, nothing stale is served and a warmed key stays warm, a herd scans once and every request is answered |
| Accounts | `CooldownSpacing`, `InboxMatchesRules`; `MailsLimited`, `LinkUsedOnce`; `LastEventDecides`; `PostedOnce` | rules deleted, paused and created during a run, ids reused, commits failing: fires are a cooldown apart, rules and inbox agree; mails stay within their windows and a link gives one session, but for a restart and a request that passed its check just before; the last event handled settles the tier; a post goes out again only after a run cut between post and ledger, or beside a run that overlaps it |

Three regular runs end in a counterexample: HourlyStorePhantom,
RawCacheTwoProcesses and AlertRulesDeleted check a sentence of the documentation
that the code does not keep. Further configurations, not among the regular runs,
check other such sentences in the same way; section 7 lists both.

For most of these sentences there is a condition under which they hold, and a
passing run of it: the ledger with one writer (`ImplementsLedgerStore`),
`ArrivalTotals` with a job that ends, `NoPartialFileUnlessRaced` with one process,
`FetchedIsKept` until a caller writes what the migration converts, `ViewsAgreeInApp`,
`KeyCap` but for keys minted on an outdated count, `LastEventDecides` for the last event
handled, `PostedOnce` for runs that were neither cut nor overlapped, `RadarMatchesDesk`
but for shares rounded over a limit, `OneReportCounts` but for a keeper that left.

Deadlock is not checked: a job ends, and every bound on calls, time and
publications ends in a state without successor.

## 4. Bounds, and why they are enough

* **HourlyStore.** One or two series (one excluded from the ledger), one zone,
  one or two hours, batches with none, one or two of them, values around the epsilon
  thresholds (0, 2000, 2002: a move
  above the absolute floor and below 0.1 % is covered), three batches, chunks of
  one or two rows, two attempts, up to two foreign commits. Two writers already
  give every order of read, lock and commit; a third batch is needed for a
  pending arrival object to be committed by a later step and for a revision of a
  revision. The theorems of section 6 remove these bounds for the safety
  properties they cover.
* **RawCache.** Two callers and the migration share one temporary name; two versions
  and two calls let each caller fetch, overwriting or not, with the older payload
  arriving after the newer one, before, during and after the migration's steps; three
  calls in the two-process run. Two inodes per actor suffice
  because an actor has at most one file open and one published.
* **Nightly.** Five days in years of two, so that there are hot and cold years; a
  window of two days, so that a day leaves it; one publication and one fault,
  each at any moment of the night. A run of negative days is there from the
  start, so that a revision can shorten, split or retract it.
* **DayAhead.** One day of two hours, two prices, two publications, one fault; windows
  of three days (nightly, of the seven), two (midday) and the month (backfill), and dates
  0 to 2: the day is in both windows, in the nightly one alone, and in the second night's
  only for a run that began before midnight. Two publications are what a stale answer
  needs. Days are independent: a run handles each by itself within the same commits. In
  the scenario of the backfill the source publishes one of the hours.
* **Grid.** One day of two hours, a zone of two load areas with values that tell
  sums of one area from sums of both, three fuels, one publication and one fault.
  Two hours are what a fuel published for some hours only needs. What was
  published before the first run varies: part of the load or all of it, one hour
  of solar and of the estimates of embedded generation, none or all of wind and
  of another fuel.
* **Feeds.** Four days in months of two, windows of one and two days, two
  revisions, one publication and one fault, so that a provisional value is
  cached, revised and asked for again across a month boundary; every feed is an
  initial state.
* **Outages.** Two messages and pages of one, so that a page boundary lies between
  them; two changes of the board, each at any moment of a run: a message is
  posted and then revised, shortened or withdrawn, or a second one shifts the
  page that is being read.
* **Desk.** Two hours a day, five or six days, two zones, values on both sides of
  each threshold; calendars of months of three days and years of two months.
  Thresholds counted in days or hours are scaled down with them and are
  constants. Holes are enumerated, as they are what the figures disagree on. Loads of 20
  give shares of few decimals; records of loads of 1007 have a share that four decimals
  round down, beside days at and above it, so that the tail day is rounded. The gas cases
  are all parts of a registry with two operators at one place and a pair at a border, and
  those of two registries in turn that differ in the operators of one place or in an
  export's keys, with both directions at Bacton.
* **ApiUsage.** Two threads and three keys in all under a cap of one (two threads that
  are about to mint meet both bounds of `KeyCap` exactly, and a key minted on time can
  follow a late one's revocation), a request that records twice
  (itself and its points), two days, one restart. The theorems cover any number
  of each for the accounts, the reports and the cap.
* **ApiGuard.** Three threads for two slots, so that one is refused and two wait
  for one lock; TTL of four ticks with a warming period of two, the ratio of the
  code, and five ticks of time, so that values expire and are refilled; a run of
  the job takes up to one tick, less than its period.
* **AlertRules.** Two rules at a time and three in all, a cap of one trigger per
  run, a cooldown of two periods within three: a rule fires, cools down and fires
  again, the cap cuts a run short, and an id is reused.
* **Login, Billing, Social.** Two pool threads; a minute of one tick, an hour of
  three and a link's life of two, so that a used link is pruned while a request
  is under way; two subscriptions with three events each and one repeated or
  lost; three runs by the job and by hand on two days, each of which may overlap the
  others, and one fault. A record counts as fresh on its own day only, so that the second
  day has a post of its own.

The theorems of section 6 remove these bounds for the safety properties of all
modules but Outages and Feeds (which state none) and, in Desk, of the parsers and
the gas flows. In Nightly a day keeps one hour; the figures of Desk are proved for
days of any length.

## 5. Fairness

* **HourlyStore**: weak fairness of a call's own steps and its handler (a running
  process is scheduled) and of the commit of a foreign writer (the transactions
  of this program are finite). No fairness for submitting, crashing, or for
  success rather than timeout.
* **Grid**: weak fairness of `Work`, the start and the steps of a run, and of
  midnight. **Feeds**: of the start of a job and of its steps, whether they
  succeed or fail; none for the days and none for the backfill. **Outages**: of the
  job's start, of its reading of the board and of the snapshot. **Nightly**: of
  `Proceeds`, the one step that the night's order makes possible at a time.
  Requests have timeouts, so a step ends. Faults and publications are finite,
  which is what "once the sources are quiet" means.
* **ApiUsage**: weak fairness of drain and commit: the job fires every five
  minutes and `max_instances=1` lets a started flush end.
* **ApiGuard**: weak fairness of a step of some thread: as long as a thread can go
  on, one does. None for the job, and the lock is not assumed to be handed out
  in order.

Where steps exclude each other the `*MC` modules state their fairness as that of
one action, which is the same and costs TLC less.

RawCache, DayAhead, AlertRules, Login, Billing, Social and Desk state only safety, and
need none. A job of the day-ahead ingest stores a day only while it is in its window, so
nothing about a day follows from jobs that go on for ever: what a run achieves is stated
of that run.

## 6. What is proved

Eight modules hold the proofs, 43 theorems for a reader and the lemmas they rest
on.

| Module | About | Theorems |
|---|---|---|
| `WritePathProofs` | `HourlyStore`, `DayAhead` | types, lock, references, ledger, refinement, arrivals; daily views, restatements |
| `StoresProofs` | `RawCache`, `Nightly` | entries; stored tables |
| `GridProofs` | `Grid` | no partial load; daily means |
| `DataTheorems` | sums, ends and runs of finite sets | lemmas only |
| `FigureProofs` | `Derived`, `Readings`, `Panels`, `PublicApi`, `Detectors`, `Gas`, and lemmas on `Questions` | bands, scores, situations, gas points and supply |
| `DeskProofs` | `DeskMC` and its reference definitions | capture prices, episodes, outage map, radar, question box; the invariants of the run Desk |
| `ApiProofs` | `ApiUsage`, `ApiGuard` | accounts, key cap, reports; slots, scans, freshness |
| `AccountsProofs` | `AlertRules`, `Login`, `Billing`, `Social` | cooldown, inbox; mails, links; tier; posts |

### The hourly store

`WritePathProofs` proves, for any sets of series, zones, writers and values,
any finite set of hours, any mix of error handling and any number of batches,
attempts and foreign commits (assumption `ConstantAssumption` of `HourlyStore`):

* `TypeCorrect`: `Spec => []TypeOK`.
* `LockReleased`: `Spec => NoLockAcrossCalls`. A caller of `upsert_hourly` goes on to
  await the network; it does so with the write lock only after the call of an empty
  batch, which returned, and with nothing but dimension rows uncommitted.
* `ReferentialIntegrity`: `Spec => []DimsCoverRows`. Dimension ids are flushed,
  not committed, before they are used; still no row refers to a dimension row
  that is not committed, whoever created it, failed or was killed.
* `SoleWriterLedger`: with one writer (`SoleWriter`), `Spec => LedgerExact`,
  whatever contention and failures it meets.
* `SoleWriterRefines`: with one writer, `Spec => ImplementsLedgerStore`. Every
  step of the write path is a `Put` of `LedgerStore`, a commit `Elsewhere`, or
  leaves the abstract store alone.
* `SoleWriterArrivals`: with one writer whose job ends with an exception
  (`JobsEnd`), `Spec => []ArrivalTotals`. The condition is the one under which the
  sentence holds: HourlyStorePhantom refutes it for a caller that continues.

The argument. None of these is inductive alone. `IInv` conjoins `TypeOK` with
`TransactionInv` (a connection is in a write transaction exactly when it holds the lock,
and only then has uncommitted rows) and `CallInv` (at each place of the call, what has
been read and inserted is the batch's; a handler never runs with the lock, and who holds
it before the first chunk has uncommitted dimension rows). Without the second, `Commit`
could land rows of another batch; without the first, a rollback could leave uncommitted
rows behind. `NoLockAcrossCalls` follows step by step: of the steps that end a call only
the return of the empty batch leaves a transaction open, and `CallInv` says what is in
it. Referential integrity adds `DimsInv`: after its lookup a key is committed or in the
writer's own transaction, and a snapshot never shows a dimension row that is not
committed. The step that needs it is the failed flush, which drops the writer's
uncommitted dimension rows: it also ends the call, so nothing refers to them afterwards.
Exactness of the ledger adds `SoleInv`: with one writer, what was read before the lock
was taken is still what the commit overwrites, also in a retry on a session with an open
read transaction, and the uncommitted revision rows are those of the batch.
`CommitLedger` then shows that these rows are those the change of the table calls for,
hour by hour, and the refinement takes them as the rows of `Put`. The arrival log adds
`PendingInv` (the session holds the batch's arrival from the diff to the commit, and
none before and after: an exception leaves it there, and only the end of the job takes
it away) and `RevisionsOld` (the revisions on record are older than the next commit). A
commit then adds new hours to rows that were not there and revisions to older ones, so
the counts add up. Each invariant is preserved action by action; the lemmas on batches,
tables and the epsilon test are stated once at the beginning.

### The day-ahead ingest

`WritePathProofs` proves, for any jobs, days, prices and overlaps
(`DayAheadAssumption`, and `AppAssumption`: the jobs other than the backfill share a
process):

* `ViewsAgreeAlone`: with every job in one process and no commit that fails,
  `DayAheadSpec => []ViewsAgree`. Whenever no run is between its commits, each daily
  row is the mean of the stored hours of its day and carries its prices.
* `ViewsAgreeOfApp`: `ScenarioSpec => []ViewsAgreeInApp`, the specification of the run:
  the same in the scenario without backfill and without failing commits, and types in
  both.
* `RestatementsKept`: `ScenarioSpec => []RestatementsStay`, and the same of `FreeSpec`,
  where all jobs, faults and a backfill run at once. What a job of the scheduler stored of
  a day as published, while no older answer for it was on its way, stays until the day is
  restated.

`AppInv` says why: one run at most is past its fetch (`OneWriter`, which is the event
loop: no await between the commits), only the days of the document it writes may
disagree meanwhile (`OthersAgree`), the hours of that document are already stored
(`DocumentStored`), and the means it read back are still those of the table
(`ReadsCurrent`). The second theorem carries `AppInv` as long as the jobs at work are
those of one process (`Together`); DayAheadRace (section 7) shows it lost beside a
backfill. For the third, `Fresh` says that a run whose answer is not outdated holds what
is published now, and that so does the cache unless such an answer is on its way to it;
`AllHeld` that the stored days have their published hours.

### Raw cache and nightly tables

`StoresProofs` proves of the nightly jobs, for any days, windows, publications,
failing jobs and kills (`NightlyAssumption`),

* `TablesKept`: `StoresSpec => []NightlyMatches`. What a job stored for scores, episodes
  and records is what the hours give, retracted rows included, from the job that
  wrote it until one of those hours changes.

`NightInv` has a clause per table (`ScoresMatch`, `EpisodesStored`, `RecordsMatch`),
and that the record is never empty and holds plausible prices (`OnRecord`): an
extreme without a plausible value keeps its old row, so the sentence would fail for
records otherwise. Three facts about the formulas carry it. A day's score reads that
day, the day before and the one a seasonal lag before, so the job that scores a
window derives all it claims, and an ingest makes no other day stale. Two maximal
runs with the same first day are one run, so that episodes keyed by their start
neither collide nor survive. And an extreme of a table that is replaced row by row
is the extreme of the record. The assumption keeps one hour a day and prices
between -500 and 4000.

Of the raw cache it proves, for any number of callers, calls and versions, coroutines
of one process that overwrite or not (`OneLoop`) and the migration beside them, with kills
at any system call (`CacheAssumption`: actors, inodes and contents are told apart), until a
caller writes while the migration converts:

* `EntryDecodes`: `RaceSpec => [](CacheTypeOK /\ NoPartialFileUnlessRaced)`.
* `FetchedStays`: `RaceSpec => FetchedIsKept`.
* `NoneResurfaces`: `RaceSpec => NoStaleResurfaces`.

`CacheInv` says whose turn it is (`Turns`: of the callers of one loop at most one
is between `open` and `replace`) and, until `raced`, what the migration relies on while
it converts (`Scenes`: the plain blob it read is there, no caller is at the files, there
is no archive until it moves its own into place) and what the files hold at each place of
a call (`Contents`: the temporary file is empty when it is to be written and the whole
payload when it is to be published). A caller may overwrite at any other moment, and the
migration then finds its archive, or none of its plain blobs.
Without `Turns` the second writer truncates the file the first is about to
publish, which is RawCacheTwoProcesses; without `Scenes` the migration publishes an older
payload over a newer one or unlinks the last, which is RawCacheMigrationLoses.

### The grid

`GridProofs` proves, for any components of a zone, days, hours, values and faults
(`GridAssumption`: a day has hours, areas are not named like fuels, published values
are integers):

* `LoadNeverPartial`: `Spec => []NoPartialLoad`. A stored hour of load.actual is the
  sum of a published value of every component, never of some of them.
* `DailyMeansHold`: `Spec => []DailyMeansAgree`. On a day whose share may be claimed and
  whose residual covers every hour, the daily residual is the mean of the hourly
  ones, although a fuel may be published for some hours only.

For the first, `GridInv` follows the values from the sources (`SourcesSay`) through the
documents of the run (`RunHas`) and the queue of its commits (`QueueFull`) to the store
(`StoreFull`): the sum is formed where all components are there, and what is queued or
stored has been such a sum. The second needs only that all curves are curves
(`CurvesOnly`) and arithmetic: where each hour has its residual, the sums of load,
wind and solar over the day are those over the hours of the residual, and sums add
up (`ResidualsAddUp`).

### The data: sums, ends, runs

Figures are folds over finite sets, and no prover here instantiates an induction
theorem. `DataTheorems` does without: the cardinalities of the subsets for which a
claim fails have a least element (`WFMin`), and a smallest such subset has only good
ones below it. So it shows that a total does not depend on the order of the fold,
takes one element at a time, adds up, and is the sum over the groups of any
partition, for integers and ratios; that a finite set of integers has its first and
last; and that a scan day by day, joining over holes of one day, finds the maximal
runs of a set of days and nothing else. Recursive functions are treated in the same
way.

### The figures of the desk

`FigureProofs` speaks of every record, whatever the run Desk asks. `DeskProofs` has the
general theorems that are stated with the reference definitions of `DeskMC`, and reads
the invariants of the run off both.

* `CaptureOfMonth`: for any price and generation series and any month,
  `capture_metrics` and the GROUP BY of `_FUEL_SQL` give the same figures or both none,
  and the price with floor 0 is never below the plain one.
* `BandsPool`: the convergence bands put together from stored days are those of all
  hours of the window, and the mean gap is weighted by hours, however unequal the
  days.
* `ScoresPool`: window scores pooled from daily rows are the scores of all common
  hours; days without one weigh nothing.
* `GroupRunsFinds`: `group_runs` yields the maximal runs of the qualifying days,
  joined over gaps of one day, and nothing else, a day in a hole among the gaps.
* `SituationsReadAlike`: for messages that end at some time and keep their document,
  `load_power_situations_bulk` is `load_power_situation` of each zone.
* `CaptureComputedTwice`, `WindowsPool`, `EpisodesAreRuns`: `DeskSpec => []CaptureAgrees`,
  `[]DaysPoolToHours` and `[]EpisodesMatch`, from the general ones and the fact that the
  cases of the run are such records.

### Map, radar and question box

* `MapOfAnyOrder`: for any finite set of messages told apart by their id, each event of
  the map is the tightest report of its key with all its reporting zones, in
  whichever order the query returns the rows; the map is a scan over rows, and the
  claim holds after every prefix of it.
* `RadarIsDesk` (`DeskProofs`): for any record, any window and any history, the radar
  raises a zone, as of its last day with all its hours, if and only if the desk flags
  that day, and the desk flags no later one, unless the day's share is rounded over a
  limit. The radar compares the share itself with the tail of the month and 15 %; the
  desk compares the four decimals it shows with the rounded tail. If rounding carries a
  share across a limit, the two are at most half of a ten-thousandth apart
  (`RoundIsNear`, `CrossedIsNear`), and if it does not, the comparisons agree, because the
  threshold of the tail is itself the share of a day on record (`TailIsShare`). The tail
  day may be such a day: section 7.
* `YearsNamed`: for any record with finitely many hours per series, any metric, zones
  and window, every year asked for is shown in a column of a yearly answer or named
  in a note about it, and not both. The notes follow the oldest hour and the gaps
  after it, and no year before the oldest hour's can be shown.
* `ReadTwiceReadAlike`, `RadarAndDesk`, `CasesNameTheirGaps`: `DeskSpec =>
  []ReadingsAgree`, `[]RadarMatchesDesk` and `[]GapsNamed`.

### Gas

* `OneOperatorStays` (`FigureProofs`): for any finite registry whose rows are told
  apart by their point id, whatever was stored before, `sync_points` leaves exactly one
  classified operator active per point key and direction, one with data if any has,
  and no unclassified one.
* `LargestReportCounts` (`FigureProofs`): for any finite points and flows, the supply
  of a day adds up one largest report per physical place and direction, the
  interconnector to the UK by its net and only as supply.

The second collapses keys of one place that the first leaves apart, so both are
needed for an import. The exports to Ukraine are added up over all active points of
their class, so they count once per key, and a keeper that has left the registry stays
active beside the new one. What comes of both, from the registry to the residual and
over a change of keeper, is `OneReportCounts`, which is model-checked only.

They and the figures rest on named assumptions of the modules they speak of: `None` is
no number, record, zone, class or document (`NoneAssumption`, `FiguresAssumption`,
`BandsAssumption`, `ScoresAssumption`, `OutageAssumption`, `ClassAssumption`), a day has
hours (`DayAssumption`), months and years have parts (`CalendarAssumption`), the
percentile is a proper fraction (`PercentileAssumption`), the baseline is a number of
days (`BaselineAssumption`), and the days of the cases are finitely many
(`DeskAssumption`).

### Metering and guards of the API

`ApiProofs` proves, for any finite non-empty set of threads and any number
of keys, requests and days (`UsageAssumption`), with flushes that fail and a
restart:

* `UsageAccounted`: `Spec => []EverythingAccounted`. Recorded usage is in the
  ledger, in the running flush or in memory exactly once, or was lost by a
  restart or a failed flush.
* `KeysBounded`: `Spec => []KeyCap`. Active keys that were not minted on a count
  another request's INSERT had outdated never exceed the cap; active keys and threads
  about to mint one together exceed it by fewer than there are threads. One thread
  alone keeps the cap.
* `ReportsNotOver`: `Spec => []ReportNotOver`. A report bills no day with more than
  was recorded on it, the tail counted for the day it was read for.

All use `BooksOK`: types, a key for every metered request, and nothing drained
between two flushes; without the last a drain would overwrite counts that are
not yet committed. The account is kept by the laws of merging ledgers (neutral,
commutative, associative), proved entry by entry; `Record` adds the same tally
on both sides. For the cap, counting needs a free place while at most all
threads are minting, and minting trades a thread for a key (`RaceBound`); a thread that
no mint has overtaken still sees a free place (`CountsHold`). For the reports,
`ReportsOK` says that the rows a report has read are still at most the ledger,
which only grows; the account then bounds rows and tail together, although a
flush may have moved the tail in between.

It proves of the guards, for any threads, keys, slots and clock
(`GuardAssumption`; a run of the job is shorter than its period):

* `SlotsKept`: `GuardSpec => []SlotsConserved`.
* `ScansKeptApart`: `GuardSpec => ScansSpaced`. Scans that requests pay for one key are
  a TTL apart.
* `ServesFresh`: `GuardSpec => []ServedFresh`, where the period of the job and a run of
  it fit into the TTL (`WarmAssumption`; 1800 s, seconds, and 3600 s in the code).

Slots need only the count of threads by place. The other two need `GuardInv`: who
holds the lock (`Locked`), that no time of a thread or slot is ahead of the clock
(`Clocks`), that the job's runs begin on time (`OnTime`), and that a thread only
scans when there is nothing good to serve (`ScansApart`); `Warmth` follows a run
of the job from one slot to the next and shows that a slot never expires before
the next run stores.

### Accounts

`AccountsProofs` proves of the alert rules, for any number of rules, runs and edits
(`AlertAssumption`):

* `CooldownKept`: `Spec => []CooldownSpacing`.
* `InboxAndRulesAgree`: `Spec => []InboxMatchesRules`.

`AlertInv` speaks of the rows the run has loaded as well as of the table, because
they part during a run: a loaded row knows the last notification of its rule
(`LoadedKnows`), as a row of the table does (`RowsKnow`), and a uid is given once
(`UidsOnce`), so that a reused id does not inherit a cooldown. `RunsApart` says that
what the inbox holds is older than the running run.

Of login it proves, for any threads, addresses, windows, caps, links and calls
(`LoginAssumption`; addresses and IP addresses are told apart):

* `LinksUsedOnce`: `LoginSpec => []LinkUsedOnce`.
* `LimitsHold`: `LoginSpec => []MailsLimited`, sign-ups on pool threads included:
  their race (section 7) reaches no window of the mails.

For the links `LoginInv` adds `Remembered`: a link that gave a
session of this process is among the used ones until it expires; and `Numbered`,
which orders the sessions. For the limits `LimitInv` adds `Covered`: a window still
has the hit of every mail that counts in it, because its key is pruned by no other
window (the reason for the distinct keys of `magic_link_rules`); a numbered hit
per mail then bounds the mails by the length of the deque (`HitsBound`).

Of billing it proves `EventsDecide`, `BillingSpec => []LastEventDecides`, for any
subscriptions and any repeated, lost and reordered events (`BillingAssumption`).
`BillingInv` has one row per subscription (`OneRow`), says that an event under way
or handled fits the status it carries and that the newest one has the shop's
status (`MailCurrent`, `RowsFollow`).

Of the social account it proves `PostsOnce`, `SocialSpec => []PostedOnce`, for any
runners, zones, figures, days, runs and faults (`SocialAssumption`). `SocialInv` says that a
key that was posted is in the ledger, among the cut ones, or that of a run about to write
its line (`PostsRemembered`), that a run about to post has not posted its key unless
the key was raced (`NotYetPosted`), and that two runs of one key are known as such
(`OverlapsSeen`).

### Assumptions, models, and what is left to TLC

Every assumption is evaluated by TLC on the constants of the runs, those that are
definitions through `CacheConstants` of `StoresMC`, `GuardConstants` of `ApiMC` and
`AccountConstants` of `AccountsMC`; and each inductive invariant of a module
with actions was model-checked (with its sets bounded where TLC cannot enumerate
them). Proving changed the models in a few places: choices among
overlapping conditions are chains of IF, in the order of the code; the runner's
queue of rules is a set, since the order of evaluation is not fixed; a deque of
the limiter is the set of its hits, numbered in their order; sums and scans are the
folds of the community modules or recursive functions; the notes of a yearly answer
are an operator of their own; and a usage report keeps its days apart instead of
adding them up, which brought out `ReportNamesDay` of section 7.

Only model-checked: all liveness (`BatchResolved`, `Converges`, `NightlySettles`,
`FeedHeals`, `OutagesComplete`, `SnapshotSettles`, `AllFlushed`, `HerdAnswered`), which
needs ENABLED and fairness and is outside the prover's reach; and three safety
properties: `ParsersFaithful`, which relates pairs of small documents that are
enumerated one by one, `OneReportCounts`, which follows registries that are, and
`ViewsRepaired`. Induction over data has no theorem to cite either; least
counterexamples and closed forms reach the figures above, each by hand. The refuted
sentences of section 7 have their counterexamples, and nothing to prove.

## 7. Disagreements between the code and its documentation

For each, TLC finds a counterexample to a sentence of a docstring or comment,
quoted beside the property. The first three are regular runs, listed with their
quotations in `PROJECT.json`; the next four have a configuration here; the rest
is followed by the configurations and constants that show it. Below it are
disagreements that need no run.

| Configuration (module) | Property | What the code does | What is said of it |
|---|---|---|---|
| HourlyStorePhantom (`HourlyStoreMC`) | `ArrivalTotals` | a failed step's arrival object is committed by the next step, without its data | `hourly_store.py:110` "lands data + ledger atomically" |
| RawCacheTwoProcesses (`RawCacheMC`) | `NoPartialFile` | two processes share the temporary name; a half-written file is published | `raw_cache.py:5` "avoid partial files" |
| AlertRulesDeleted (`AlertRules`) | `TriggersLand` | a rule deleted during a run makes the whole run's commit fail | `alert_runner.py:16` "one rule failing doesn't abort the run" |
| HourlyStoreStaleLedger (`HourlyStoreMC`) | `LedgerExact` | with two writers the ledger's old value may not be the one overwritten | `energy.py:252` "one row per REAL value change" |
| RawCacheMigrationLoses (`RawCacheMC`) | `NeverLost` | beside an overwriting caller the migration removes the only readable copy | `compress_raw_cache.py:3` "can run at any time" |
| DayAheadRace (`DayAheadMC`) | `ViewsAgree` | hourly and daily views differ beside a backfill until a later run | `entsoe_prices.py:354` "no two views of the desk ever disagree" |
| ApiUsageReportRace (`ApiUsage`) | `ReportComplete` | a report during a flush sees the counts in neither place | `keys.py:81` "must not read zero" |
| (`ApiUsage`) | `ReportNamesDay` | the report asks for the date twice; between the two midnight may pass, and the new day's tail is shown, and billed, under the old day | `keys.py:114` "Today includes the un-flushed in-memory tail" |
| (`ApiUsage`) | `CapAsStated` | two `create_key` requests count before either inserts, and both mint: more active keys than the cap | `api_keys.py:25-26` "Active (unrevoked) keys per email", 5, and `:42` "Raises ValueError at the active-key cap" |
| (`AlertRules`) | `TrialCap` | pause, create, resume passes the trial limit | `routes/alert_rules.py:4` "capped at TRIAL_RULE_LIMIT active rules" |
| (`Billing`) | `ExpiredIsNotPro` | a late or repeated `subscription_created` restores an expired customer | `webhooks.py:8` "subscription_expired → deactivate Pro" |
| (`Billing`) | `CancelledIsNotPro` | `subscription_cancelled` keeps Pro until the paid period ends, as `subscription_check.py:16-22` says | `webhooks.py:7` "subscription_cancelled → deactivate Pro" |
| (`Social`) | `NeverTwice` | a kill between the post and the ledger line, or a second run before that line, posts again | `social/runner.py:2-3` and `scheduler.py:518-519` "so a re-fire never double-posts a LIVE tweet" |
| (`Login`) | `SignupsLimited` | sign-ups call the limiter from pool threads, two of which pass the check together | `ratelimit.py:6` "so no lock is needed" |
| (`Feeds`) | `OneLegNets` | a direction without schedules answers 400, is cached as an empty text and fails to parse: the border's month is skipped | `entsoe_exchange.py:237` "still nets against an implicit zero on the other" |
| (`DocumentsMC`) | `AuctionsFilled` | the quarter-hour parser of the intraday auctions reads the published positions only; what an A03 curve omits is missing | `entsoe_ida.py:21-22` "A44 A03-curves omit repeated values; positions are resolved exactly like entsoe_prices' quarter-hour parser" |
| (`DeskMC`) | `OneDoor` | the desk asks with a share of four decimals (`routes/power.py:466`), the radar with the share itself; on a tail day whose share is rounded down they part | `dunkelflaute.py:200` "This is the one door to the predicate" |
| (`DeskMC`) | `OnlyTheKeeper` | `sync_points` clears the active flag of no point that has left the registry: its former keeper stays active beside the new one, and an export counts twice | `entsog.py:84-85` "Keep exactly one operator per (pointKey, direction)", "Only the keeper stays active" |

A configuration for the last eleven has the module's specification (`Spec`,
`BillingSpec`, `SocialSpec`, `DeskSpec`; for `Login` `SignupSpec`), the property as
INVARIANT (`OneLegNets` as PROPERTY), `CHECK_DEADLOCK FALSE`, and

* `ReportNamesDay`: the constants of ApiUsageReportRace with two threads and two days;
* `TrialCap`: `Tier = "trial"`, `TRIAL_RULE_LIMIT = 1`, `MAX_TRIGGERS_PER_RUN = 2`,
  `Outcomes = {"trigger"}`, `DeletesIn = {}`, `Edits = TRUE`, two edits, and otherwise
  the constants of AlertRulesDeleted;
* `CapAsStated`: Api.cfg, with `CapAsStated` among its INVARIANTS;
* `CancelledIsNotPro`: Accounts.cfg, with it among its INVARIANTS;
* `AuctionsFilled`, `OneDoor`, `OnlyTheKeeper`: Desk.cfg, with each as the INVARIANT;
* `ExpiredIsNotPro`: two subscriptions, four events, one fault;
* `NeverTwice`: Accounts.cfg, with it among its INVARIANTS; with `MaxPostFaults = 0` the
  two overlapping runs are what TLC finds;
* `SignupsLimited`: two threads, `SignupCap = 1`, time 4, three calls, and otherwise the
  constants of Accounts;
* `OneLegNets`: `Feeds = {"sched"}` and otherwise the constants of Ingest.

Disagreements of words, met while modelling:

* `hourly_store.py:3-5` calls `upsert_hourly` "batched so the write lock is released
  frequently". All chunks of a call are one transaction with one commit, and the return
  of an empty batch (`:89-90`) does not commit at all: a dimension row just flushed, and the
  lock, stay until the connection's next call with points. `NoLockAcrossCalls` says that
  nothing else does this. Most callers test their points before they call.
* `entsoe_exchange.py:16`: "Every other ENTSO-E series this repo ingests is curveType A01".
  `entsoe_ida.py:21`, `entsoe_unit_generation.py:41` and `entsoe_imbalance.py:55` say A03 of
  theirs. `:24-26` warns of handing an A03 document to `parse_load_hourly` or
  `parse_imbalance_quarter_hourly`; the second fills by now (`_expand_a03`), the first does
  not. `FillTransparent` is about the parsers that fill; `WrittenPositionsOnly` says that
  load, generation, auctions, reservoirs and balancing read the written positions and
  nothing else, which for balancing is meant (`entsoe_balancing.py:74-81`). The parsers of
  the day-ahead prices fill nothing either (`entsoe_prices.py:93-174`); in `DayAhead` an
  hour they do not see is one that the document leaves out.

## 8. What is not modelled, and the plan

Not modelled, and why:

* **Freshness, watchdog and retention**: timestamps compared with thresholds and
  one DELETE of old rows, without state that other parts change. The staleness
  gates of the desk and of the radar are modelled with them.
* **Scheduler roles, misfire grace and coalescing**: APScheduler's own behaviour;
  the models take from it the order, the windows and the exception handling of
  the jobs.
* **Free-text questions** (string matching), **email composition** (formatting,
  paused in the code), **text and images of posts**, **XML and JSON syntax**,
  **Parquet encoding**, **token signatures** (cryptography): abstracted to the
  value they carry.
* **Schema migrations**: DDL that runs before anything else.
* **The memo of the dunkelflaute thresholds** (`dunkelflaute.py:124`): it is keyed by the
  newest date and the number of rows, so that a restatement of a stored day does not
  refresh it before the next insert; the models compute thresholds anew.
* **Restatements outside every window**: no job asks for a day again once it has left its
  window, and nothing is claimed of such a day.
* **The dormant verticals** (vessels, oil inventories, chokepoints), **evaluator.py's
  rules for them**, **the front end and the client**: not on the paths the desk runs.

Plan for later work:

1. Theorems about `Outages`: a stored row is never lost or changed.
2. A second abstract specification, a counter that never loses, implemented by
   `ApiUsage` without failing flushes.
3. The scheduler's roles and misfires, composed with the watchdog.

## 9. Running the tools

    tlasany HourlyStore.tla
    tlc -workers 2 -config Stores.cfg StoresMC
    tlc -workers 2 -config ApiUsageReportRace.cfg ApiUsage
    tlapm WritePathProofs.tla

The modules with proofs are `WritePathProofs`, `StoresProofs`, `GridProofs`,
`DataTheorems`, `FigureProofs`, `DeskProofs`, `ApiProofs` and `AccountsProofs`. Each
run's module and configuration are listed in `PROJECT.json`; section 7 names the
modules of the other configurations.
