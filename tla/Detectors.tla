----------------------------- MODULE Detectors -----------------------------
(***************************************************************************)
(* The anomaly radar's detectors (backend/signals/detectors) and the       *)
(* evaluators of the users' alert rules (signals/user_alert_rules.py).     *)
(*                                                                         *)
(* A detector returns a set of results [rule, zone, severity, as_of,       *)
(* max_age]; an evaluator the severity it fires with, or None.             *)
(***************************************************************************)
EXTENDS Panels

CONSTANTS NP_WINDOW,               \* days of the negative-price baseline (45)
          NP_MIN_HOURS,            \* negative hours before a look (3)
          IMB_WINDOW_DAYS, FS_WINDOW_DAYS, SENT_WINDOW,
          SPIKE_MIN_DELTA_EUR,     \* 25
          IMB_WARN_FLOOR_EUR, IMB_CRIT_FLOOR_EUR,   \* 300, 500
          RECORD_MIN_COVERAGE_DAYS,                 \* 365
          SAT_MIN_HOURS, SAT_CRIT_MIN_HOURS, SAT_WINDOW_HOURS,    \* 4, 8, 24
          COMPLETENESS_NORM_DAYS, COMPLETENESS_MIN_NORM_DAYS,     \* 30, 14
          RESTATE_WINDOW, RESTATE_MIN_HOURS, RESTATE_CRIT_HOURS,  \* 24 h, 3, 12
          REVISION_MATURITY        \* hours before a change is a restatement

DetectorResult(rule, zone, severity, as_of, max_age) ==
    [rule |-> rule, zone |-> zone, severity |-> severity, as_of |-> as_of, max_age |-> max_age]
_MAX_AGE_DAYS == [power |-> 3, gas |-> 4, sentiment |-> 3, oil |-> 10]
is_stale(as_of, max_age, today) == today - as_of > max_age
\* run_all_detectors: what is old is dropped, a result without a date is not.
Emitted(results, today) ==
    {r \in results : r.as_of = None \/ ~is_stale(r.as_of, r.max_age, today)}

\* The newest n days of a record.
Newest(S, n) == {d \in S : Cardinality({e \in S : e > d}) < n}
Sev(critical) == IF critical THEN "critical" ELSE "warning"
\* The z-score of the newest day of f against the n days before it.
TrailingZ(f, n) ==
    trailing_zscore(f[Max(DOMAIN f)], f, Newest(DOMAIN f, n + 1) \ {Max(DOMAIN f)})

-----------------------------------------------------------------------------
(* Prices *)

detect_negative_prices(db) ==
    LET f(z) == [d \in DOMAIN db.price[z] |-> db.price[z][d].neg]
        Z(z) == IF f(z) = <<>> \/ Latest(f(z)) < NP_MIN_HOURS THEN None ELSE TrailingZ(f(z), NP_WINDOW)
    IN  {DetectorResult("negative_prices", z, Sev(ZAtLeast(Z(z), Int1(3))), Max(DOMAIN f(z)),
                        _MAX_AGE_DAYS.power) :
            z \in {x \in Zones : Z(x) # None /\ ZAtLeast(Z(x), Int1(2))}}
evaluate_negative_prices(db, zone) ==
    LET f == [d \in {x \in DOMAIN db.price[zone] : db.price[zone][x].neg # None} |->
                db.price[zone][d].neg]
        top == Max(DOMAIN db.price[zone])
        S == (Newest(DOMAIN db.price[zone], NP_WINDOW + 1) \ {top}) \cap DOMAIN f
        z == trailing_zscore(f[top], f, S)
    IN  IF \/ zone \notin Zones \/ db.price[zone] = <<>> \/ top \notin DOMAIN f \/ f[top] < NP_MIN_HOURS
        THEN None
        ELSE IF z = None THEN None
        ELSE IF ~ZAtLeast(z, Int1(2)) THEN None ELSE Sev(ZAtLeast(z, Int1(3)))
\* detect_price_spikes: either tail, and far enough from the mean.
detect_price_spikes(db) ==
    LET With(z) == {d \in Newest(DOMAIN db.price[z], BASELINE_DAYS + 1) : db.price[z][d].mean # None}
        top(z) == Max(DOMAIN db.price[z])
        f(z) == [d \in With(z) |-> db.price[z][d].mean]
        base(z) == With(z) \ {top(z)}
        Z(z) == IF db.price[z] = <<>> \/ top(z) \notin With(z) THEN None
                ELSE trailing_zscore(f(z)[top(z)], f(z), base(z))
        Far(z) == LET n == Cardinality(base(z))
                  IN  Abs(n * f(z)[top(z)] - SumOver(f(z), base(z))) >= n * SPIKE_MIN_DELTA_EUR
    IN  {DetectorResult("price_spike", z, Sev(ZAbsAtLeast(Z(z), Ratio(7, 2))), top(z),
                        _MAX_AGE_DAYS.power) :
            z \in {x \in Zones : Z(x) # None /\ ZAbsAtLeast(Z(x), Ratio(5, 2)) /\ Far(x)}}
Breached(value, direction, threshold) ==
    /\ direction \in {"above", "below"} /\ value # None
    /\ direction = "above" => value >= threshold
    /\ direction = "below" => value <= threshold
\* A price, spark or crack spread against the user's threshold.
evaluate_dayahead_spike(db, zone, direction, threshold) ==
    /\ zone \in Zones /\ db.price[zone] # <<>>
    /\ Breached(Latest(db.price[zone]).mean, direction, threshold)
evaluate_spark_spread_breach(history, direction, threshold) ==
    history # <<>> /\ Breached(Latest(history), direction, threshold)
evaluate_crack_spread_breach(history, direction, threshold) ==
    history # <<>> /\ Breached(Latest(history), direction, threshold)

-----------------------------------------------------------------------------
(* Dunkelflaute and outages *)

\* The newest day with every hour of load and of generation.
ClaimableDay(grid) ==
    LET S == {d \in DOMAIN grid : share_is_claimable(grid[d])}
    IN  IF S = {} THEN None ELSE IF HasLoad(grid[Max(S)]) THEN Max(S) ELSE None
detect_dunkelflaute(db) ==
    LET day(z) == ClaimableDay(db.grid[z])
        Is(z) == /\ day(z) # None
                 /\ is_dunkelflaute(Share(db.grid[z][day(z)]),
                                    zone_thresholds(db.grid[z], MonthOfYear(day(z))))
                 /\ renewable_share_reliable(db.mix[z], day(z), db.grid[z][day(z)].load)
    IN  {DetectorResult("dunkelflaute", z, "warning", day(z), _MAX_AGE_DAYS.power) :
            z \in {x \in Zones : Is(x)}}
evaluate_dunkelflaute(db, zone, threshold) ==
    LET day == ClaimableDay(db.grid[zone])
        limit == IF threshold = None THEN ABSOLUTE_THRESHOLD ELSE Ratio(threshold, 100)
    IN  /\ zone \in Zones /\ day # None
        /\ Below(Share(db.grid[zone][day]), limit)
        /\ renewable_share_reliable(db.mix[zone], day, db.grid[zone][day].load)
detect_forced_outages(db, now) ==
    LET S(z) == forced_outage_severity(forced_outage_mw_now(db.outages, z, now),
                                       installed_capacity_mw(db.installed[z]))
    IN  {DetectorResult("forced_outages", z, S(z), Today(now), _MAX_AGE_DAYS.power) :
            z \in {x \in {o.zone : o \in db.outages} \cap Zones : S(x) # None}}
evaluate_forced_outage(db, zone, now) ==
    IF zone \notin Zones THEN None
    ELSE forced_outage_severity(forced_outage_mw_now(db.outages, zone, now),
                                installed_capacity_mw(db.installed[zone]))
published_unit_capacity_mw(units) ==
    IF units = <<>> THEN None
    ELSE LET total == SumOver(Latest(units), DOMAIN Latest(units))
         IN  IF total = 0 THEN None ELSE total

-----------------------------------------------------------------------------
(* Imbalance, reservoirs, records, episodes, borders *)

\* detect_imbalance_extremes: the largest size of each day, the newest against
\* the days before it in the window.
detect_imbalance_extremes(db, now) ==
    LET f(z) == Since(Hourly(db, "imbalance.price", z), now - (IMB_WINDOW_DAYS + 1) * HoursPerDay)
        peak(z) == [d \in {DayOfHour(h) : h \in DOMAIN f(z)} |->
                      Max({Abs(f(z)[h]) : h \in {x \in DOMAIN f(z) : DayOfHour(x) = d}})]
        days(z) == DOMAIN peak(z)
        Z(z) == IF Cardinality(days(z)) < 2 THEN None
                ELSE trailing_zscore(Latest(peak(z)), peak(z), days(z) \ {Max(days(z))})
    IN  {DetectorResult("imbalance_extreme", z,
                        Sev(ZAtLeast(Z(z), Ratio(7, 2)) /\ Latest(peak(z)) >= IMB_CRIT_FLOOR_EUR),
                        Max(days(z)), 4) :
            z \in {x \in Zones : /\ Z(x) # None /\ ZAtLeast(Z(x), Ratio(5, 2))
                                 /\ Latest(peak(x)) >= IMB_WARN_FLOOR_EUR}}
detect_hydro_deviations(db) ==
    LET f(z) == Hourly(db, "hydro.reservoir", z)
        Is(z) == f(z) # <<>> /\ same_week_band(f(z)).n >= 3
                 /\ same_week_band(f(z)).vs_band \in {"below", "above"}
    IN  {DetectorResult("hydro_deviation", z, "warning", Max(DOMAIN f(z)), HYDRO_STALE_DAYS) :
            z \in {x \in HYDRO_ZONES : Is(x)}}
\* detect_record_breaks: fresh records of series a year on record, one result a
\* zone.
detect_record_breaks(db, now) ==
    LET Covered(r, z) == LET f == Hourly(db, r.series, z)
                         IN  f # <<>> /\ now - Min(DOMAIN f) >= RECORD_MIN_COVERAGE_DAYS * HoursPerDay
        mine(z) == {r \in db.records[z] : r.ts >= now - RECORD_FRESH_DAYS * HoursPerDay /\ Covered(r, z)}
    IN  {DetectorResult("record_break", z, "info", DayOfHour(Max({r.ts : r \in mine(z)})),
                        _MAX_AGE_DAYS.power) : z \in {x \in Zones : mine(x) # {}}}
EPISODE_RANK_TOP_N == 3
\* answers: zone -> kind -> zone_episodes
detect_episode_rank(answers) ==
    {DetectorResult("episode_rank", z, IF answers[z].rank = 1 THEN "warning" ELSE "info",
                    answers[z].active.end, _MAX_AGE_DAYS.power) :
        z \in {x \in DOMAIN answers : /\ answers[x].available /\ answers[x].active # None
                                      /\ answers[x].rank # None
                                      /\ answers[x].rank <= EPISODE_RANK_TOP_N}}
\* detect_interconnector_saturation: hours of the last day in which the flow
\* filled the capacity offered in its direction; the exporting zone is named.
detect_interconnector_saturation(flow, ntc, now) ==
    LET From(f) == Since(f, now - SAT_WINDOW_HOURS)
        F(b) == From(Get(flow, b, <<>>))
        Cap(b, h) == Get(From(Get(ntc, b, <<>>)), h, 0)
        Along(b) == IF b \in DOMAIN flow THEN {h \in DOMAIN F(b) : F(b)[h] > 0 /\ Cap(b, h) > 0}
                    ELSE {h \in DOMAIN F(<<b[2], b[1]>>) : F(<<b[2], b[1]>>)[h] < 0 /\ Cap(b, h) > 0}
        Size(b, h) == Abs(IF b \in DOMAIN flow THEN F(b)[h] ELSE F(<<b[2], b[1]>>)[h])
        At(b, pct) == {h \in Along(b) : 100 * Size(b, h) >= pct * Cap(b, h)}
        full == {b \in DOMAIN ntc : Cardinality(At(b, 95)) >= SAT_MIN_HOURS}
        Of(z) == {b \in full : b[1] = z}
    IN  {DetectorResult("interconnector_saturated", z,
                        Sev(\E b \in Of(z) : Cardinality(At(b, 99)) >= SAT_CRIT_MIN_HOURS),
                        DayOfHour(Max(UNION {Along(b) : b \in Of(z)})), _MAX_AGE_DAYS.power) :
            z \in {b[1] : b \in full}}

-----------------------------------------------------------------------------
(* The record's own incidents *)

\* quality: <<zone, series>> -> day -> [present, expected]
detect_completeness_drops(quality, today) ==
    LET days == {d \in UNION {DOMAIN quality[c] : c \in DOMAIN quality} : d <= today - 1}
        y == Max(days)
        Rows(c) == {d \in DOMAIN quality[c] : /\ y - COMPLETENESS_NORM_DAYS <= d /\ d <= y
                                              /\ quality[c][d].expected > 0}
        Full(c, d) == Ratio(quality[c][d].present, quality[c][d].expected)
        Norm(c) == Rows(c) \ {y}
        dropped == {c \in DOMAIN quality :
                      /\ c[1] \in Zones /\ y \in Rows(c)
                      /\ 2 * quality[c][y].present < quality[c][y].expected
                      /\ Cardinality(Norm(c)) >= COMPLETENESS_MIN_NORM_DAYS
                      /\ AtMost(Ratio(9 * Cardinality(Norm(c)), 10),
                                RatioSum([d \in Norm(c) |-> Full(c, d)], Norm(c)))}
    IN  IF days = {} THEN {}
        ELSE {DetectorResult("quality_completeness_drop", z,
                    Sev(\E c \in dropped : c[1] = z /\ quality[c][y].present = 0),
                    y, _MAX_AGE_DAYS.power) : z \in {c[1] : c \in dropped}}

_abs_floor(series) ==
    CASE series \in {"load.actual", "gen.wind", "flow"} -> 50
      [] series = "price.dayahead" -> 5
      [] OTHER -> 10
\* _recent_revisions: the ledger from its end, up to the first entry that is
\* older than the window.
_recent_revisions(ledger, cutoff) ==
    LET old == {i \in DOMAIN ledger : ledger[i].at < cutoff}
    IN  {ledger[i] : i \in {k \in DOMAIN ledger : old = {} \/ k > Max(old)}}
\* detect_major_restatements: hours changed by more than a fifth after they
\* were mature, the largest change of each hour.
detect_major_restatements(ledger, now) ==
    LET big == {r \in _recent_revisions(ledger, now - RESTATE_WINDOW) :
                  /\ r.at - r.ts > REVISION_MATURITY /\ r.zone \in Zones
                  /\ Abs(r.new - r.old) >= _abs_floor(r.series)
                  /\ 5 * Abs(r.new - r.old) > Max({Abs(r.old), 1})}
        Of(z, s) == {r \in big : r.zone = z /\ r.series = s}
        Hours(z, s) == {r.ts : r \in Of(z, s)}
        Change(r) == Ratio(Abs(r.new - r.old), Max({Abs(r.old), 1}))
        Largest(R) == Change(Ranked(LAMBDA x, y : Below(Change(x), Change(y)), R, Cardinality(R)))
        Frac(z, s) == [h \in Hours(z, s) |-> Largest({x \in Of(z, s) : x.ts = h})]
        Nth(z, s, k) == LET f == Frac(z, s)
                        IN  f[Ranked(LAMBDA g, h : Below(f[g], f[h]), DOMAIN f, k)]
        Twice(z, s) == LET n == Cardinality(Hours(z, s))    \* twice the median
                       IN  Plus(Nth(z, s, (n + 1) \div 2), Nth(z, s, (n + 2) \div 2))
        series(z) == {s \in {r.series : r \in big} : Cardinality(Hours(z, s)) >= RESTATE_MIN_HOURS}
        Critical(z, s) == Cardinality(Hours(z, s)) >= RESTATE_CRIT_HOURS \/ AtMost(Int1(1), Twice(z, s))
    IN  {DetectorResult("quality_major_restatement", z, Sev(\E s \in series(z) : Critical(z, s)),
                        DayOfHour(Max({r.at : r \in {x \in big : x.zone = z /\ x.series \in series(z)}})),
                        _MAX_AGE_DAYS.power) :
            z \in {x \in Zones : series(x) # {}}}

-----------------------------------------------------------------------------
(* Gas, oil and news *)

GasLevels == [SIGNAL |-> "critical", WATCH |-> "warning"]
\* balance: day -> level (None: no flag)
detect_gas_balance(balance) ==
    IF balance = <<>> \/ Latest(balance) \notin DOMAIN GasLevels THEN {}
    ELSE {DetectorResult("gas_balance", "EU", GasLevels[Latest(balance)], Max(DOMAIN balance),
                         _MAX_AGE_DAYS.gas)}
evaluate_gas_balance(balance) == balance # <<>> /\ Latest(balance) \in DOMAIN GasLevels
\* Days of supply, supply-demand and freight: a state that is new.
NewState(f, state) ==
    LET before == DOMAIN f \ {Max(DOMAIN f)}
    IN  f # <<>> /\ Latest(f) = state /\ (before = {} \/ f[Max(before)] # state)
detect_days_of_supply(f) ==
    IF NewState(f, "TIGHT")
    THEN {DetectorResult("days_of_supply", "us", "warning", Max(DOMAIN f), _MAX_AGE_DAYS.oil)} ELSE {}
detect_supply_demand_divergence(f) ==
    IF NewState(f, "DIVERGENCE")
    THEN {DetectorResult("supply_demand_divergence", "us", "warning", Max(DOMAIN f), _MAX_AGE_DAYS.oil)} ELSE {}
\* detect_freight_divergence: a flag that was not the flag before.
detect_freight_divergence(f) ==
    IF f # <<>> /\ Latest(f) # None
       /\ (Cardinality(DOMAIN f) = 1 \/ f[Max(DOMAIN f \ {Max(DOMAIN f)})] # Latest(f))
    THEN {DetectorResult("freight_divergence", "tanker", "info", Max(DOMAIN f), _MAX_AGE_DAYS.oil)} ELSE {}
\* detect_floating_storage: events that ran on the newest day against the days
\* before; events: a set of [zone, first, last].
detect_floating_storage(events) ==
    LET anchor == Max({e.last : e \in events})
        n(z) == [d \in (anchor - FS_WINDOW_DAYS)..anchor |->
                   Cardinality({e \in events : e.zone = z /\ e.first <= d /\ d <= e.last})]
        base == (anchor - FS_WINDOW_DAYS)..(anchor - 1)
        Z(z) == trailing_zscore(n(z)[anchor], n(z), base)
        Is(z) == Z(z) # None /\ SumOver(n(z), base) >= 2 * Cardinality(base) /\ ZAtLeast(Z(z), Int1(2))
    IN  IF events = {} THEN {}
        ELSE {DetectorResult("floating_storage", z, Sev(ZAtLeast(Z(z), Int1(3))), anchor,
                             _MAX_AGE_DAYS.oil) : z \in {x \in {e.zone : e \in events} : Is(x)}}
evaluate_floating_storage_surge(events, zone, min_vessels, cutoff) ==
    /\ min_vessels >= 1
    /\ Cardinality({e \in events : /\ e.active /\ e.last >= cutoff
                                   /\ zone = "*" \/ e.zone = zone}) >= min_vessels
\* check_flow_anomaly: today against the month before, unless yesterday was one.
FLOW_MIN_HISTORY == 16
check_flow_anomaly(counts, days) ==
    LET Z(k) == trailing_zscore(counts[k], counts, (k + 1)..Min({k + days, Len(counts)}))
        Anomalous(k) == Z(k) # None /\ ZAbsAtLeast(Z(k), Int1(2))
    IN  Len(counts) >= FLOW_MIN_HISTORY /\ Anomalous(1) /\ ~Anomalous(2)
check_cushing_drawdown(f) == Cardinality(DOMAIN f) >= 2 /\
    Latest(f) - f[Max(DOMAIN f \ {Max(DOMAIN f)})] < -3000
\* evaluate_chokepoint_anomaly: the newest count against the mean of the month.
evaluate_chokepoint_anomaly(f, now, threshold, direction) ==
    LET base == {d \in DOMAIN f : now - 30 <= d /\ d < Max(DOMAIN f)}
        counts == {d \in base : f[d] # None}
        n == Cardinality(counts)
        sum == SumOver(f, counts)
        gap == Latest(f) * n - sum          \* n times the difference to the mean
    IN  /\ f # <<>> /\ direction \in {"above", "below", "either"}
        /\ Cardinality(base) >= 5 /\ counts # {} /\ sum > 0
        /\ 100 * Abs(gap) >= threshold * sum
        /\ direction = "above" => gap >= 0
        /\ direction = "below" => gap <= 0
\* detect_sentiment_risk: a high score, or one high for its month.
detect_sentiment_risk(f) ==
    LET z == TrailingZ(f, SENT_WINDOW)
        rel == z # None /\ ZAtLeast(z, Int1(2)) /\ Latest(f) >= 6
    IN  IF f = <<>> THEN {}
        ELSE IF Latest(f) >= 8 \/ rel
        THEN {DetectorResult("sentiment_risk", "", IF Latest(f) >= 8 THEN "warning" ELSE "info",
                             Max(DOMAIN f), _MAX_AGE_DAYS.sentiment)}
        ELSE {}

\* validate_params: schema: key -> [required, options] (None: a number) with
\* its bounds.
validate_params(schema, params) ==
    \A k \in DOMAIN schema :
        /\ schema[k].required => k \in DOMAIN params
        /\ k \in DOMAIN params => params[k] \in schema[k].options
=============================================================================
