------------------------------- MODULE Feeds -------------------------------
(***************************************************************************)
(* The document feeds of power/ and gas/: how each reads an answer of its  *)
(* source, what it keeps in the raw cache, what it does with an error, and *)
(* when it stores; the jobs that refresh a window of days, and the         *)
(* backfill beside them that reads the cache.  A behaviour is about one    *)
(* feed.  A value is the number of its revision; a stored day holds the    *)
(* value of every leg (direction, country, dataset) that went into it.     *)
(***************************************************************************)
EXTENDS Integers, Sequences, FiniteSetsExt

CONSTANTS None,
          MaxDay,         \* the last day of the model
          DaysPerMonth,   \* days of a document
          LONG, SHORT,    \* the windows of 7 (12) and of 2 (3) days
          Feeds,          \* the feeds of this run
          MaxRevision,    \* bound: revisions of a day
          MaxPublish,     \* bound: publications
          MaxFaults       \* bound: error answers and kills

Days == 0..MaxDay
ASSUME WindowAssumption == {LONG, SHORT, DaysPerMonth, MaxDay} \subseteq Nat \ {0}

-----------------------------------------------------------------------------
(* How an answer is read: "doc" is parsed (and cached), "empty" is cached as *)
(* no data, "raise" is an HTTPError that leaves the cache alone.             *)

Answers(ack200, ack400, error) ==
    [ok |-> "doc", ack200 |-> ack200, ack400 |-> ack400, error |-> error]
Raises == Answers("doc", "raise", "raise")     \* raise_for_status
_fetch_ntc_month == Answers("doc", "empty", "raise")
_fetch_balancing_month == Answers("doc", "empty", "raise")
_fetch_units_window == Answers("empty", "raise", "raise")
_fetch_exchange_month == Answers("doc", "empty", "empty")
_fetch_net_position_week == Answers("doc", "empty", "empty")
_fetch_units_year == Answers("doc", "empty", "empty")
_fetch_imbalance_month == Raises
_fetch_ida_month == Raises
_fetch_zone_year == Raises
_fetch_capacity_year == Raises
_fetch_capacity_day == Raises       \* after its tries at a 429
_fetch_range == Raises              \* the same
fetch_day == Raises
fetch_embedded == Raises
_fetch_gie_day == Raises
fetch_flows_day == Raises
_fetch_burn_month == Raises
fetch_city_temps == Raises

(* What the ingest does.  catch: an error skips the document instead of      *)
(* ending the run.  need: the legs a day cannot do without.  empty: what an  *)
(* empty text does to its period.  write: each period or all at the end.     *)
(* wanted: only the days asked for.  fill: days a value is carried forward.  *)
(* cached: which documents are kept.  acks: how no data is said.             *)

Plain == [catch |-> TRUE, legs |-> {1}, need |-> {}, empty |-> "skip", write |-> "end",
          wanted |-> FALSE, fill |-> 0, cached |-> "always", acks |-> {"ack200", "ack400"}]
Json == [Plain EXCEPT !.acks = {"ack200"}]
ingest_ntc == [Plain EXCEPT !.write = "each"]
ingest_scheduled_exchanges == [Plain EXCEPT !.write = "each", !.legs = {1, 2}, !.need = {1, 2}, !.empty = "raise"]
ingest_net_positions == Plain
ingest_imbalance == [Plain EXCEPT !.wanted = TRUE]
ingest_balancing == [Plain EXCEPT !.wanted = TRUE]
ingest_unit_generation_window == Plain
ingest_production_units == Plain
ingest_ida == [Plain EXCEPT !.write = "each"]
ingest_hydro == Plain
ingest_installed_capacity == Plain
ingest_capacity_prices == Plain
ingest_cbpf == [Json EXCEPT !.legs = {1, 2}, !.wanted = TRUE, !.cached = "finished"]
\* Leg 1 is the estimate of NESO, asked first; a day needs the four datasets of leg 2.
ingest_elexon == [Json EXCEPT !.legs = {1, 2}, !.need = {2}, !.write = "each"]
ingest_congestion_costs == [Json EXCEPT !.catch = FALSE]
ingest_storage == [Json EXCEPT !.catch = FALSE]
ingest_lng == [Json EXCEPT !.catch = FALSE]
ingest_weather == [Json EXCEPT !.catch = FALSE]
ingest_flows == [Json EXCEPT !.catch = FALSE, !.write = "each", !.fill = SHORT]
ingest_power_burn == [Plain EXCEPT !.legs = {1, 2}, !.wanted = TRUE]

(* The days a job asks for, from back days ago to ahead, and which of their  *)
(* documents: all, or the first or the last only.                            *)

Asks(back, ahead, unit, which) == [back |-> back, ahead |-> ahead, unit |-> unit, which |-> which]
recent_months == Asks(LONG, 0, "month", "all")
recent_weeks == Asks(LONG, 0, "month", "all")
_power_recent_days == Asks(LONG, 1, "month", "all")
_intraday_days == Asks(SHORT, 0, "month", "all")
_run_ida_prices == Asks(0, 1, "month", "all")
_run_capacity_prices == Asks(SHORT, 0, "day", "all")
_run_unit_generation == Asks(LONG, -1, "day", "all")
_run_elexon == Asks(SHORT, 0, "day", "all")
_run_hydro_weekly == Asks(LONG, 0, "month", "last")
_run_capacity_monthly == Asks(0, 0, "month", "last")
_run_smard_congestion == Asks(LONG, 0, "history", "all")
_gas_recent_days == Asks(LONG, -1, "day", "all")
_gas_recent_months == Asks(LONG, -1, "month", "first")

Feed(fetch, ingest, asks) == [fetch |-> fetch, ingest |-> ingest, asks |-> asks]
BackfillSources == {"imbalance", "balancing", "cbpf", "sched", "netpos", "ntc", "reserve", "unit_gen"}
FeedTable == [name \in Feeds |->
    CASE name = "ntc"      -> Feed(_fetch_ntc_month, ingest_ntc, _intraday_days)
      [] name = "sched"    -> Feed(_fetch_exchange_month, ingest_scheduled_exchanges, recent_months)
      [] name = "netpos"   -> Feed(_fetch_net_position_week, ingest_net_positions, recent_weeks)
      [] name = "imbalance" -> Feed(_fetch_imbalance_month, ingest_imbalance, _power_recent_days)
      [] name = "balancing" -> Feed(_fetch_balancing_month, ingest_balancing, _power_recent_days)
      [] name = "unit_gen" -> Feed(_fetch_units_window, ingest_unit_generation_window, _run_unit_generation)
      [] name = "units"    -> Feed(_fetch_units_year, ingest_production_units, _run_capacity_monthly)
      [] name = "ida"      -> Feed(_fetch_ida_month, ingest_ida, _run_ida_prices)
      [] name = "hydro"    -> Feed(_fetch_zone_year, ingest_hydro, _run_hydro_weekly)
      [] name = "capacity" -> Feed(_fetch_capacity_year, ingest_installed_capacity, _run_capacity_monthly)
      [] name = "reserve"  -> Feed(_fetch_capacity_day, ingest_capacity_prices, _run_capacity_prices)
      [] name = "cbpf"     -> Feed(_fetch_range, ingest_cbpf, _power_recent_days)
      [] name = "elexon"   -> Feed(fetch_day, ingest_elexon, _run_elexon)
      [] name = "smard"    -> Feed(Raises, ingest_congestion_costs, _run_smard_congestion)
      [] name = "agsi"     -> Feed(_fetch_gie_day, ingest_storage, _gas_recent_days)
      [] name = "alsi"     -> Feed(_fetch_gie_day, ingest_lng, _gas_recent_days)
      [] name = "weather"  -> Feed(fetch_city_temps, ingest_weather, _gas_recent_days)
      [] name = "entsog"   -> Feed(fetch_flows_day, ingest_flows, _gas_recent_days)
      [] name = "burn"     -> Feed(_fetch_burn_month, ingest_power_burn, _gas_recent_months)]

-----------------------------------------------------------------------------
VARIABLES
    feed,      \* the feed this behaviour is about
    source,    \* leg -> day -> revision the source publishes
    today,
    cache,     \* <<period, leg>> -> text: [xml, points], points a day -> revision
    store,     \* day -> [leg -> revision]; leg 0 is a value carried forward
    run,       \* "job" or "backfill" -> the run under way, or None
    backfills, published, faults

vars == <<feed, source, today, cache, store, run, backfills, published, faults>>
F == FeedTable[feed]

FetchOf(leg) == IF feed = "elexon" /\ leg = 1 THEN fetch_embedded ELSE F.fetch

PeriodOf(d) ==
    CASE F.asks.unit = "day" -> d [] F.asks.unit = "month" -> d \div DaysPerMonth [] OTHER -> 0
DaysOf(p) == {d \in Days : PeriodOf(d) = p}
Points(leg, p) == [d \in DaysOf(p) \cap DOMAIN source[leg] |-> source[leg][d]]
Put(f, x, v) == [y \in DOMAIN f \cup {x} |-> IF y = x THEN v ELSE f[y]]
Over(f, g) == [x \in DOMAIN f \cup DOMAIN g |-> IF x \in DOMAIN g THEN g[x] ELSE f[x]]

Window == {d \in Days : today - F.asks.back <= d /\ d <= today + F.asks.ahead}
Periods ==
    LET P == {PeriodOf(d) : d \in Window}
    IN  IF P = {} THEN {}
        ELSE CASE F.asks.which = "all" -> P
               [] F.asks.which = "first" -> {Min(P)}
               [] F.asks.which = "last" -> {PeriodOf(today)}
\* The days a run of the job brings in.
Covered == {d \in Window : PeriodOf(d) \in Periods}

-----------------------------------------------------------------------------
(* The source publishes or revises a day; time passes *)

Publish(leg, d) ==
    /\ published < MaxPublish
    /\ published' = published + 1
    /\ d <= today + 1
    /\ LET rev == IF d \in DOMAIN source[leg] THEN source[leg][d] + 1 ELSE 1
       IN  /\ rev <= MaxRevision
           /\ source' = [source EXCEPT ![leg] = Put(@, d, rev)]
    /\ UNCHANGED <<feed, today, cache, store, run, backfills, faults>>
Midnight ==
    /\ today < MaxDay /\ run["job"] = None
    /\ today' = today + 1
    /\ UNCHANGED <<feed, source, cache, store, run, backfills, published, faults>>

-----------------------------------------------------------------------------
(* A run: the documents of its periods one leg at a time *)

\* The numbers of a range in order.
Ascending(P) == [i \in 1..Cardinality(P) |-> Min(P) + i - 1]
Legs == Ascending(F.ingest.legs)
Start(periods, days, overwrite) ==
    IF periods = {} THEN None ELSE
    [todo |-> Ascending(periods), days |-> days, overwrite |-> overwrite,
     legs |-> Legs, got |-> <<>>, ok |-> TRUE, acc |-> <<>>]
\* A variant that leaves the cache to answer.
AsksCache(periods, days) == Start(periods, days, FALSE)
AsksSource(periods, days) == Start(periods, days, TRUE)
RunJob ==
    /\ run["job"] = None
    /\ run' = [run EXCEPT !["job"] = AsksSource(Periods, Window)]
    /\ UNCHANGED <<feed, source, today, cache, store, backfills, published, faults>>
\* run_backfill: month by month, an ingest each, without overwrite.
run_backfill ==
    /\ run["backfill"] = None /\ backfills = 0 /\ feed \in BackfillSources
    /\ backfills' = 1
    /\ run' = [run EXCEPT !["backfill"] = Start({PeriodOf(d) : d \in 0..today}, 0..today, FALSE)]
    /\ UNCHANGED <<feed, source, today, cache, store, published, faults>>

\* A day's row is made of the legs that have it.
Rows(r) ==
    LET D == UNION {DOMAIN r.got[l] : l \in DOMAIN r.got}
    IN  [d \in IF F.ingest.wanted THEN D \cap r.days ELSE D |->
            [l \in {x \in DOMAIN r.got : d \in DOMAIN r.got[x]} |-> r.got[l][d]]]
\* _forward_fill: a gap in the window takes the last real value, where no row is.
Filled(rows, days) ==
    LET Real(d) == d \in DOMAIN rows /\ 0 \notin DOMAIN rows[d]
        Before(d) == {e \in days : e < d /\ Real(e) /\ d - e <= F.ingest.fill
                                 /\ \A x \in days : (e < x /\ x < d) => ~Real(x)}
        gaps == {d \in days : d \notin DOMAIN rows /\ Before(d) # {}}
    IN  Over(rows, [d \in gaps |-> [l \in {0} |-> rows[Max(Before(d))][1]]])
\* The head period is complete: its rows are stored now, or with the last of them.
Close(p, r) ==
    LET acc == IF r.ok THEN Over(r.acc, Rows(r)) ELSE r.acc
        last == Tail(r.todo) = <<>>
        now == F.ingest.write = "each" \/ last \/ p = "backfill"
        rows == IF now THEN Over(store, acc) ELSE store
    IN  /\ store' = IF last /\ F.ingest.fill > 0 THEN Filled(rows, r.days) ELSE rows
        /\ run' = [run EXCEPT ![p] =
                     IF last THEN None
                     ELSE [r EXCEPT !.todo = Tail(@), !.legs = Legs, !.got = <<>>,
                                    !.ok = TRUE, !.acc = IF now THEN <<>> ELSE acc]]
\* The leg was read as points, or gave none at all and the period may be lost.
LegRead(p, leg, points, ok) ==
    \E s \in {[run[p] EXCEPT !.legs = Tail(@), !.ok = @ /\ ok,
                            !.got = IF ok /\ points # None THEN Put(@, leg, points) ELSE @]} :
        IF s.legs = <<>> THEN Close(p, s)
        ELSE run' = [run EXCEPT ![p] = s] /\ UNCHANGED store
\* An empty text is no document: some parsers raise on it.
Parsed(p, leg, text) ==
    IF text.xml THEN LegRead(p, leg, text.points, TRUE)
    ELSE LegRead(p, leg, None, F.ingest.empty = "skip")

Kept(p, period) ==
    F.ingest.cached = "always" \/ (p = "backfill" /\ \A d \in DaysOf(period) : d < today)
ReadCached(p) ==
    /\ run[p] # None
    /\ LET r == run[p]
           key == <<Head(r.todo), Head(r.legs)>>
       IN  /\ ~r.overwrite /\ key \in DOMAIN cache
           /\ Parsed(p, Head(r.legs), cache[key])
    /\ UNCHANGED <<feed, source, today, cache, backfills, published, faults>>
\* What the source may answer: an acknowledgement when it has nothing, or an error.
Statuses(leg, period) ==
    (IF Points(leg, period) = <<>> THEN F.ingest.acks ELSE {"ok"})
    \cup (IF faults < MaxFaults THEN {"error"} ELSE {})
Fetch(p) ==
    /\ run[p] # None
    /\ LET r == run[p]
           period == Head(r.todo)
           leg == Head(r.legs)
       IN  /\ r.overwrite \/ <<period, leg>> \notin DOMAIN cache
           /\ \E status \in Statuses(leg, period) :
                LET read == FetchOf(leg)[status]
                    text == [xml |-> read = "doc", points |-> Points(leg, period)]
                IN  /\ faults' = IF status = "error" THEN faults + 1 ELSE faults
                    /\ IF read = "raise"
                       THEN /\ F.ingest.catch /\ LegRead(p, leg, None, leg \notin F.ingest.need)
                            /\ UNCHANGED cache
                       ELSE /\ cache' = IF Kept(p, period) THEN Put(cache, <<period, leg>>, text) ELSE cache
                            /\ Parsed(p, leg, text)
    /\ UNCHANGED <<feed, source, today, backfills, published>>
\* An error nobody catches in the ingest ends the run; rows it had added may be
\* committed by the step that uses the session next.
Raised(p) ==
    /\ run[p] # None /\ ~F.ingest.catch /\ faults < MaxFaults
    /\ F.fetch["error"] = "raise"
    /\ faults' = faults + 1
    /\ store' \in {store, Over(store, run[p].acc)}
    /\ run' = [run EXCEPT ![p] = None]
    /\ UNCHANGED <<feed, source, today, cache, backfills, published>>
Kill(p) ==
    /\ run[p] # None /\ faults < MaxFaults
    /\ faults' = faults + 1
    /\ run' = [run EXCEPT ![p] = None]
    /\ UNCHANGED <<feed, source, today, cache, store, backfills, published>>

-----------------------------------------------------------------------------
Init ==
    /\ feed \in Feeds
    /\ source = [l \in F.ingest.legs |-> [d \in {0, MaxDay - 2} |-> 1]]
    /\ today = MaxDay - 1
    /\ cache = <<>> /\ store = <<>>
    /\ run = [p \in {"job", "backfill"} |-> None]
    /\ backfills = 0 /\ published = 0 /\ faults = 0
Step(p) == ReadCached(p) \/ Fetch(p) \/ Raised(p)
Next ==
    \/ \E leg \in F.ingest.legs, d \in Days : Publish(leg, d)
    \/ Midnight \/ RunJob \/ run_backfill
    \/ \E p \in {"job", "backfill"} : Step(p) \/ Kill(p)

\* The scheduler runs the job again and again, and its run goes on.  The days need
\* not go by, and a backfill may stop half way.
Fairness == WF_vars(RunJob) /\ WF_vars(Step("job"))
Spec == Init /\ [][Next]_vars /\ Fairness

-----------------------------------------------------------------------------
(* Properties *)

Published(d) == [l \in {x \in F.ingest.legs : d \in DOMAIN source[x]} |-> source[l][d]]
\* parse_step_series raises on the text of a leg that had nothing.
QuietLeg(d) == F.ingest.empty = "raise" /\ \E l \in F.ingest.legs : Points(l, PeriodOf(d)) = <<>>
Stored(d) == (DOMAIN Published(d) # {} /\ F.ingest.need \subseteq DOMAIN Published(d))
                => (d \in DOMAIN store /\ store[d] = Published(d))

\* Once the source is quiet, every day its job covers holds the last revision of
\* all its legs, whatever errors, kills and cached answers came before and
\* whatever a backfill wrote beside the job.
Healed == \A d \in Covered : QuietLeg(d) \/ Stored(d)

\* entsoe_exchange.net_exchange: an hour of one leg nets against zero on the other.
OneLegNets == <>[](\A d \in Covered : DOMAIN Published(d) # {} =>
                        d \in DOMAIN store /\ store[d] = Published(d))

=============================================================================
