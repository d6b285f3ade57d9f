-------------------------------- MODULE Desk --------------------------------
(***************************************************************************)
(* The panels of the power desk (backend/routes/power.py).  An answer is   *)
(* a function of the database and of the hour it is asked in.              *)
(*                                                                         *)
(* db: price[z]: day -> [mean, neg, hourly]; energy[s]: day -> close of a  *)
(* symbol, the zones and TTF; grid[z]: day -> [load, wind, solar,          *)
(* residual, lh, gh]; mix[z]: day -> psr -> mean; fc[z]: day -> [load,     *)
(* wind, solar, hourly]; flow: <<from, to>> -> day -> mean; hours:         *)
(* <<series, zone>> -> hour -> value; outages: set of messages;            *)
(* installed[z]: year -> MW; units[z]: unit -> hour -> MW; registry: unit  *)
(* -> year -> nominal; records[z]: set of [series, kind, value, ts]; ntc:  *)
(* <<from, to>> -> hour -> MW; balancing: <<product, what, direction,      *)
(* zone>> -> hour -> value; reserve: product -> hour -> price.             *)
(***************************************************************************)
EXTENDS Readings

CONSTANTS DEFAULT_ZONE,
          Heat,              \* heat rate of the gas plant, a ratio
          BASELINE_DAYS,     \* days of the situation's baseline (90)
          SparkDays,         \* days back a spark spread is looked for (14)
          A73_ZONES, NTC_BORDER_SET, HYDRO_ZONES, PRODUCT_SUFFIXES

ASSUME BaselineAssumption == BASELINE_DAYS \in Nat

Unavailable == [available |-> FALSE]
On(f, W) == [d \in DOMAIN f \cap W |-> f[d]]
Latest(f) == f[Max(DOMAIN f)]
Hourly(db, series, z) == Get(db.hours, <<series, z>>, <<>>)
\* read_hourly with a start.
Since(f, start) == [h \in {x \in DOMAIN f : x >= start} |-> f[h]]
Today(now) == DayOfHour(now)

_resolve_zone(z) == IF z \in Zones THEN z ELSE DEFAULT_ZONE
_window(now, days) == (Today(now) - days)..Today(now)

PANEL_MAX_AGE_DAYS ==
    [day_ahead |-> 2, grid |-> 3, generation_mix |-> 3, marginal |-> 3, flows |-> 3,
     flows_hourly |-> 3, imbalance |-> 4, spark |-> 4, load_forecast |-> 2,
     balancing |-> 2, capacity_prices |-> 2, units_generation |-> 10]
SITUATION_STALE_DAYS == 1
LIVE_MAX_AGE_DAYS == 1
HYDRO_STALE_DAYS == 16
RECORD_FRESH_DAYS == 7

_freshness(as_of, now, max) ==
    [as_of |-> as_of,
     age_days |-> IF as_of = None THEN None ELSE Today(now) - as_of,
     stale |-> as_of # None /\ Today(now) - as_of > max]
_panel_freshness(f, now, panel) ==
    _freshness(IF f = <<>> THEN None ELSE Max(DOMAIN f), now, PANEL_MAX_AGE_DAYS[panel])

-----------------------------------------------------------------------------
(* Prices *)

get_day_ahead(db, zone, now, days) ==
    LET z == _resolve_zone(zone)
        daily == On(db.price[z], _window(now, days))
        closes == On(db.energy[z], _window(now, days))
        f == IF daily # <<>> THEN [d \in DOMAIN daily |-> daily[d].mean] ELSE closes
    IN  IF f = <<>> THEN Unavailable
        ELSE [available |-> TRUE, zone |-> z, data |-> f, latest |-> Latest(f),
              negative_days |-> Cardinality({d \in DOMAIN daily : daily[d].neg > 0}),
              fresh |-> _panel_freshness(f, now, "day_ahead")]

\* _dedupe_hourly: the mean of the points of an hour; points: a sequence of
\* <<hour, price>>.
_dedupe_hourly(points) ==
    LET ok == {i \in DOMAIN points : points[i][1] # None /\ points[i][2] # None}
        Of(h) == {i \in ok : points[i][1] = h}
    IN  [h \in {points[i][1] : i \in ok} |->
            Ratio(MapThenSumSet(LAMBDA i : points[i][2], Of(h)), Cardinality(Of(h)))]
\* _day_ahead_qh: the day asked for, or the newest day of the quarter hours.
_day_ahead_qh(db, z, day) ==
    LET f == Hourly(db, "price.dayahead.qh", z)
        use == IF day # None THEN day ELSE IF f = <<>> THEN 0 ELSE DayOfHour(Max(DOMAIN f))
        points == IF day # None THEN On(f, HoursOf(day)) ELSE Since(f, use * HoursPerDay)
    IN  IF points = <<>> THEN Unavailable
        ELSE [available |-> TRUE, zone |-> z, date |-> use, data |-> points]
get_day_ahead_hourly(db, zone, day, resolution) ==
    LET z == _resolve_zone(zone)
        with == {d \in DOMAIN db.price[z] :
                   db.price[z][d].hourly # None /\ (day = None \/ d = day)}
        data == _dedupe_hourly(db.price[z][Max(with)].hourly)
    IN  IF resolution = "qh" THEN _day_ahead_qh(db, z, day)
        ELSE IF with = {} THEN Unavailable
        ELSE [available |-> data # <<>>, zone |-> z, date |-> Max(with), data |-> data]

Spark(power, gas, heat) ==
    [d \in DOMAIN power \cap DOMAIN gas |->
        Minus(Int1(power[d]), Ratio(gas[d] * heat.sum, heat.n))]
get_spark_spread(db, zone, now, days, heat) ==
    LET z == _resolve_zone(zone)
        W == _window(now, days)
        f == Spark(On(db.energy[z], W), On(db.energy["TTF"], W), heat)
    IN  IF f = <<>> THEN Unavailable
        ELSE [available |-> TRUE, zone |-> z, latest |-> Latest(f),
              data |-> [d \in DOMAIN f |-> [dirty |-> f[d], breakeven |-> breakeven_eua(f[d], heat)]],
              fresh |-> _panel_freshness(f, now, "spark")]

-----------------------------------------------------------------------------
(* Grid *)

\* _grid_row_values: figures only where there is a load and some generation was
\* published; the share to four decimals.
_grid_row_values(r) ==
    LET ok == /\ HasLoad(r)
              /\ r.wind # None \/ r.solar # None \/ (r.gh # None /\ r.gh > 0)
    IN  [load |-> r.load, lh |-> r.lh, gh |-> r.gh,
         residual |-> IF ok THEN r.load - Or0(r.wind) - Or0(r.solar) ELSE None,
         renewable_share |-> IF ok THEN Round(Share(r), 10000) ELSE None]
\* The share of a row and the one kept of it lie on different sides of a limit,
\* which is then at most half of a ten-thousandth away.
RoundedOver(r, limit) ==
    /\ Below(Round(Share(r), 10000), limit) # Below(Share(r), limit)
    /\ Abs(Share(r).sum * limit.n - limit.sum * r.load) <= (limit.n * r.load) \div 20000
\* A variant that flags a day whose hours are not all in.
AnyShare(row) == row.renewable_share
ClaimedShare(row) == IF share_is_claimable(row) THEN row.renewable_share ELSE None
_flag_dunkelflaute(db, z, rows) ==
    flag_days(db.grid[z], [d \in DOMAIN rows |-> ClaimedShare(rows[d])],
              reliable_days(db.grid[z], db.mix[z], DOMAIN rows))
GridRows(db, z, W) ==
    [d \in DOMAIN db.grid[z] \cap W |-> _grid_row_values(db.grid[z][d])]
get_grid(db, zone, now, days) ==
    LET z == _resolve_zone(zone)
        rows == GridRows(db, z, _window(now, days))
        flags == _flag_dunkelflaute(db, z, rows)
    IN  IF rows = <<>> THEN Unavailable
        ELSE [available |-> TRUE, zone |-> z, data |-> rows, latest |-> Latest(rows),
              dunkelflaute |-> {d \in DOMAIN rows : flags[d]},
              fresh |-> _panel_freshness(rows, now, "grid")]

get_load_forecast(db, zone, now, days) ==
    LET z == _resolve_zone(zone)
        from == Today(now) - days
        f == [d \in {x \in DOMAIN db.fc[z] : x >= from} |-> db.fc[z][d]]
        Actual(d) == IF d \in DOMAIN db.grid[z] THEN db.grid[z][d].load ELSE None
        row == [d \in DOMAIN f |->
                  [forecast |-> f[d].load, actual |-> Actual(d),
                   error |-> IF Actual(d) = None THEN None ELSE Actual(d) - f[d].load,
                   residual |-> IF f[d].wind = None \/ f[d].solar = None THEN None
                                ELSE f[d].load - f[d].wind - f[d].solar]]
    IN  IF f = <<>> THEN Unavailable
        ELSE [available |-> TRUE, zone |-> z, data |-> row,
              forward |-> {d \in DOMAIN f : row[d].actual = None},
              scored |-> {d \in DOMAIN f : row[d].error # None /\ f[d].load # 0},
              fresh |-> _panel_freshness(f, now, "load_forecast")]
get_load_forecast_hourly(db, zone, day) ==
    LET z == _resolve_zone(zone)
        with == {d \in DOMAIN db.fc[z] : db.fc[z][d].hourly # None /\ (day = None \/ d = day)}
    IN  IF with = {} THEN Unavailable
        ELSE [available |-> db.fc[z][Max(with)].hourly # <<>>, zone |-> z, date |-> Max(with),
              data |-> db.fc[z][Max(with)].hourly]
get_generation_mix(db, zone, now, days) ==
    LET z == _resolve_zone(zone)
        f == On(db.mix[z], _window(now, days))
    IN  IF f = <<>> THEN Unavailable
        ELSE [available |-> TRUE, zone |-> z, data |-> f,
              types |-> UNION {DOMAIN f[d] : d \in DOMAIN f},
              total_mw |-> SumOver(Latest(f), DOMAIN Latest(f)),
              fresh |-> _panel_freshness(f, now, "generation_mix")]

-----------------------------------------------------------------------------
(* The situation of a zone *)

\* severity_from_zscore of a z-score rounded to two decimals.
severity_from_zscore(z) ==
    IF ZAbsAtLeast(z, Ratio(599, 200)) THEN "critical"
    ELSE IF ZAbsAtLeast(z, Ratio(399, 200)) THEN "warning" ELSE "info"
_series_zscore(f) ==
    LET S == {d \in DOMAIN f : f[d] # None}
    IN  IF Cardinality(S) < 2 THEN None ELSE trailing_zscore(f[Max(S)], f, S \ {Max(S)})
_worst_state(severities) ==
    IF "critical" \in severities THEN "STRESSED"
    ELSE IF "warning" \in severities THEN "ELEVATED" ELSE "CALM"
Component(f, now, max) ==
    [available |-> f # <<>>,
     fresh |-> _freshness(IF f = <<>> THEN None ELSE Max(DOMAIN f), now, max)]
build_power_situation(z, price, grid, flagged, spark, coverage, forced, installed, now) ==
    LET close == [d \in DOMAIN price |-> price[d].mean]
        residual == [d \in DOMAIN grid |-> grid[d].residual]
        zs == {_series_zscore(close), _series_zscore(residual)} \ {None}
        neg == IF price = <<>> THEN 0 ELSE Or0(Latest(price).neg)
        dunkelflaute == grid # <<>> /\ flagged /\ coverage
        fo == IF forced = None THEN None ELSE forced_outage_severity(forced, installed)
        severities == {severity_from_zscore(s) : s \in zs}
                      \cup (IF dunkelflaute \/ neg > 0 THEN {"warning"} ELSE {})
                      \cup ({fo} \ {None})
        parts == [price |-> Component(price, now, SITUATION_STALE_DAYS),
                  grid |-> Component(grid, now, SITUATION_STALE_DAYS),
                  spark |-> Component(spark, now, PANEL_MAX_AGE_DAYS.spark)]
        dates == DOMAIN price \cup DOMAIN grid
    IN  [available |-> dates # {}, zone |-> z, state |-> _worst_state(severities),
         as_of |-> IF dates = {} THEN None ELSE Max(dates),
         stale |-> \E c \in DOMAIN parts : parts[c].available /\ parts[c].fresh.stale,
         components |-> parts, dunkelflaute |-> dunkelflaute, negative |-> neg > 0,
         forced_outages |-> fo, renewable_reliable |-> coverage,
         breakeven |-> IF spark = <<>> THEN None ELSE breakeven_eua(Round(Latest(spark), 100), Heat)]
_latest_spark(db, z, now) ==
    LET W == _window(now, SparkDays)
        f == Spark(On(db.energy[z], W), On(db.energy["TTF"], W), Heat)
    IN  IF f = <<>> THEN f ELSE On(f, {Max(DOMAIN f)})

load_power_situation(db, zone, now) ==
    LET z == _resolve_zone(zone)
        W == _window(now, BASELINE_DAYS)
        grid == GridRows(db, z, W)
        last == Max(DOMAIN grid)
    IN  build_power_situation(z, On(db.price[z], W), grid,
            grid # <<>> /\ _flag_dunkelflaute(db, z, grid)[last],
            _latest_spark(db, z, now),
            grid = <<>> \/ renewable_share_reliable(db.mix[z], last, db.grid[z][last].load),
            forced_outage_mw_now(db.outages, z, now), installed_capacity_mw(db.installed[z]), now)
\* load_power_situations_bulk: every zone from one query per table; only the
\* newest row of a zone is flagged, by the coverage of that row alone.
load_power_situations_bulk(db, now) ==
    LET W == _window(now, BASELINE_DAYS)
        Grid(z) == GridRows(db, z, W)
        Last(z) == Max(DOMAIN Grid(z))
        CoverageOk(z) ==
            Grid(z) = <<>> \/
              LET load == db.grid[z][Last(z)].load
                  total == generation_total_mw(db.mix[z], Last(z))
              IN  /\ Or0(load) > 0 /\ total # None
                  /\ AtMost(Ratio(COVERAGE_MIN_RATIO.sum * load, COVERAGE_MIN_RATIO.n), Int1(total))
        Flagged(z) ==
            Grid(z) # <<>> /\ flag_days(db.grid[z],
                [d \in {Last(z)} |-> ClaimedShare(Latest(Grid(z)))],
                IF CoverageOk(z) THEN {Last(z)} ELSE {})[Last(z)]
    IN  [z \in Zones |->
            build_power_situation(z, On(db.price[z], W), Grid(z), Flagged(z),
                _latest_spark(db, z, now), CoverageOk(z),
                forced_outage_totals_now(db.outages, z, now),
                installed_capacity_mw(db.installed[z]), now)]
build_power_overview(db, now) ==
    {s \in Range(load_power_situations_bulk(db, now)) : s.available}
=============================================================================
