----------------------------- MODULE Readings ------------------------------
(***************************************************************************)
(* Readings of the record: the outages that run, the technology that sets  *)
(* the price, the drivers of a day, delivery products, the live day,       *)
(* duration curves, reservoir bands, forecast scores, quality flags and    *)
(* carbon intensity.                                                       *)
(***************************************************************************)
EXTENDS Derived

CONSTANTS Zones,             \* POWER_ZONES
          ZERO_RUN_MIN_HOURS,    \* hours of zeros that are a flag (6)
          ACTIVITY_WINDOW_DAYS,  \* days around a day that make it expected (30)
          DurationHours,         \* hours before a duration curve (480)
          SeasonalLag,           \* the weekly lag of the seasonal baseline (168)
          SummerStart, SummerEnd \* the hours between which CET is CEST

ASSUME OutageAssumption == None \notin Zones \cup {"A77", "A78"}

-----------------------------------------------------------------------------
(* Outage messages: [mrid, revision, zone, other, doc, kind, status, nominal, *)
(* available, start, end, unit]; a revision replaces the one before.          *)

\* A variant that looks at the end of the message before its revisions.
EndsFirst(outages, zone, after, doc) ==
    LET mine == {o \in outages : /\ doc = None \/ o.doc = doc
                                 /\ zone = None \/ o.zone = zone
                                    \/ (doc = "A78" /\ o.other = zone)
                                 /\ after = None \/ o.end >= after}
    IN  {o \in mine : \A p \in mine : (p.zone = o.zone /\ p.mrid = o.mrid) => p.revision <= o.revision}
\* latest_outage_revisions: the newest revision of each message; ending_after
\* keeps a message when any revision of it ends late enough. A line's message
\* belongs to both zones it connects.
latest_outage_revisions(outages, zone, after, doc) ==
    LET mine == {o \in outages : /\ doc = None \/ o.doc = doc
                                 /\ zone = None \/ o.zone = zone
                                    \/ (doc = "A78" /\ o.other = zone)}
        relevant == {o.mrid : o \in {p \in mine : after = None \/ p.end >= after}}
    IN  {o \in mine : /\ o.mrid \in relevant
                      /\ \A p \in mine : (p.zone = o.zone /\ p.mrid = o.mrid)
                                             => p.revision <= o.revision}
Runs(o, now) == o.status = "active" /\ o.start <= now /\ now <= o.end
Offline(o) == o.nominal - Or0(o.available)
_running_forced(rows, now) ==
    {o \in rows : Runs(o, now) /\ o.kind = "A54" /\ o.nominal # None}
forced_outage_mw_now(outages, zone, now) ==
    MapThenSumSet(Offline,
        _running_forced(latest_outage_revisions(outages, zone, now, "A77"), now))
\* forced_outage_totals_now: one query for all zones, ranked over every
\* document type, the type read off the newest revision.
forced_outage_totals_now(outages, zone, now) ==
    LET relevant == {o.mrid : o \in {p \in outages : p.end >= now /\ p.doc = "A77"}}
        ranked == {o \in outages : /\ o.mrid \in relevant
                                   /\ \A p \in outages : (p.zone = o.zone /\ p.mrid = o.mrid)
                                          => p.revision <= o.revision}
    IN  MapThenSumSet(Offline, {o \in _running_forced(ranked, now) : o.zone = zone /\ o.doc = "A77"})
\* offline_mw_at, snapshot_outages: the total and the forced part.
offline_mw_at(rows, at) ==
    LET up == {o \in rows : Runs(o, at) /\ o.nominal # None}
    IN  [total |-> MapThenSumSet(Offline, up),
         forced |-> MapThenSumSet(Offline, {o \in up : o.kind = "A54"})]
snapshot_outages(outages, zone, now) ==
    LET rows == latest_outage_revisions(outages, zone, now, "A77")
    IN  IF rows = {} THEN None ELSE offline_mw_at(rows, now)

\* forced_outage_severity: by share of the fleet with a floor, by size without
\* a fleet.
forced_outage_severity(mw, installed) ==
    IF Or0(installed) # 0
    THEN IF 100 * mw >= 8 * installed /\ mw >= 500 THEN "critical"
         ELSE IF 100 * mw >= 3 * installed /\ mw >= 300 THEN "warning" ELSE None
    ELSE IF mw >= 3000 THEN "critical" ELSE IF mw >= 1000 THEN "warning" ELSE None
\* installed: year -> capacity, of the newest year.
installed_capacity_mw(installed) ==
    IF DOMAIN installed = {} \/ installed[Max(DOMAIN installed)] = 0 THEN None
    ELSE installed[Max(DOMAIN installed)]

-----------------------------------------------------------------------------
(* marginal *)

DISPATCHABLE_ORDER == <<"nuclear", "lignite", "hard_coal", "gas", "oil">>
MIN_MW == 200
MIN_SHARE_PCT == Ratio(15, 10)
CONSISTENCY_BANDS ==
    [must_run_renewables |-> <<None, 5>>, nuclear |-> <<None, 40>>, lignite |-> <<20, 90>>,
     hard_coal |-> <<30, 120>>, gas |-> <<40, 250>>, oil |-> <<90, None>>,
     hydro_flex |-> <<None, None>>]
_consistency(tech, price) ==
    LET b == CONSISTENCY_BANDS[tech]
    IN  IF (b[1] # None /\ price < b[1]) \/ (b[2] # None /\ price > b[2])
        THEN "tension" ELSE "ok"
\* attribute_hour: the dearest band that runs in earnest; flexible hydro when it
\* outruns all of those; renewables at a price of zero or below.
attribute_hour(price, bands, total) ==
    LET Mw(b) == Get(bands, b, 0)
        Qualifies(b) == Mw(b) >= MIN_MW /\ AtMost(MIN_SHARE_PCT, Ratio(100 * Mw(b), total))
        up == {i \in DOMAIN DISPATCHABLE_ORDER : Qualifies(DISPATCHABLE_ORDER[i])}
        tech == IF price <= 0 THEN "must_run_renewables"
                ELSE IF Qualifies("hydro_flex")
                        /\ \A i \in up : Mw("hydro_flex") > Mw(DISPATCHABLE_ORDER[i])
                THEN "hydro_flex"
                ELSE IF up # {} THEN DISPATCHABLE_ORDER[Max(up)]
                ELSE "must_run_renewables"
    IN  [tech |-> tech, mw |-> Mw(tech), consistency |-> _consistency(tech, price)]
\* compute_marginal: the hours up to the running one with a price and any
\* generation; gen: psr -> series, band: psr -> band (None: counted in the total).
compute_marginal(prices, gen, band, now, hours) ==
    LET In(f) == {h \in DOMAIN f : now - hours <= h /\ h <= now}
        With(h) == {p \in DOMAIN gen : h \in In(gen[p])}
        Total(h) == MapThenSumSet(LAMBDA p : gen[p][h], With(h))
        Bands(h) == [b \in {band[p] : p \in With(h)} \ {None} |->
                        MapThenSumSet(LAMBDA p : gen[p][h], {p \in With(h) : band[p] = b})]
        shown == {h \in In(prices) : With(h) # {} /\ Total(h) > 0}
        att == [h \in shown |-> attribute_hour(prices[h], Bands(h), Total(h))]
    IN  IF shown = {} THEN [available |-> FALSE]
        ELSE [available |-> TRUE, hourly |-> att, as_of |-> Max(shown),
              ok |-> Cardinality({h \in shown : att[h].consistency = "ok"}),
              tech_hours |-> [t \in {att[h].tech : h \in shown} |->
                                Cardinality({h \in shown : att[h].tech = t})]]
\* compute_marginal_overview: every zone's latest hour; the zones without one.
compute_marginal_overview(answers) ==
    LET with == {z \in DOMAIN answers : answers[z].available}
    IN  [available |-> with # {}, missing |-> DOMAIN answers \ with,
         zones |-> [z \in with |-> [at |-> answers[z].as_of,
                                    att |-> answers[z].hourly[answers[z].as_of]]]]

-----------------------------------------------------------------------------
(* drivers *)

NOTABLE_Z == Ratio(1, 1)
ANALOG_BAND_MW == 1000
ANALOG_MIN_N == 10
_driver(value, f, S) ==
    IF value = None THEN None
    ELSE LET z == IF Cardinality(S) >= 2 THEN trailing_zscore(value, f, S) ELSE None
         IN  [value |-> value, z |-> z, n |-> Cardinality(S),
              notable |-> z # None /\ ZAbsAtLeast(z, NOTABLE_Z),
              direction |-> IF z = None THEN None ELSE IF z.num < 0 THEN "below" ELSE "above"]
\* net_position_by_day: a border counts for the zone it leaves and against the
\* zone it enters.
net_position_by_day(flow, zone, start) ==
    LET On(d) == {b \in DOMAIN flow : d \in DOMAIN flow[b] /\ zone \in {b[1], b[2]}}
    IN  [d \in {x \in UNION {DOMAIN flow[b] : b \in DOMAIN flow} : x >= start /\ On(x) # {}} |->
            MapThenSumSet(LAMBDA b : IF b[1] = zone THEN flow[b][d] ELSE -flow[b][d], On(d))]
\* _analogs: the prices of the days with a residual load like today's.
_analogs(grid, price, residual, today) ==
    LET S == {d \in (DOMAIN grid \cap DOMAIN price) \ {today} :
                /\ grid[d].residual # None /\ price[d].mean # None
                /\ Abs(grid[d].residual - residual) <= ANALOG_BAND_MW}
        f == [d \in S |-> price[d].mean]
    IN  IF Cardinality(S) < ANALOG_MIN_N THEN [enough |-> FALSE, n |-> Cardinality(S)]
        ELSE [enough |-> TRUE, n |-> Cardinality(S), mean_price |-> MeanOver(f, S),
              p10 |-> percentile(f, S, Ratio(1, 10)), p90 |-> percentile(f, S, Ratio(9, 10))]
market_net_position(net, today) ==
    LET S == {h \in DOMAIN net : h >= (today - 1) * HoursPerDay}
    IN  IF S = {} THEN [available |-> FALSE]
        ELSE [available |-> TRUE, as_of |-> DayOfHour(Max(S)), mean |-> MeanOver(net, S),
              direction |-> IF SumOver(net, S) > 0 THEN "exporting" ELSE "importing",
              export_hours |-> Cardinality({h \in S : net[h] > 0})]
\* A driver is in the headline when it is notable, an outage by its share of
\* the fleet (by size without one).
_outage_is_headline_worthy(mw, installed) ==
    IF installed # None THEN AtMost(Ratio(10, 10), Round(Ratio(100 * mw, installed), 10))
    ELSE mw >= 500
\* compute_drivers: the newest grid day against the days before it in the window.
compute_drivers(grid, price, flow, outages, installed, zone, today, now, baseline) ==
    LET g == {d \in DOMAIN grid : d >= today - baseline}
        p == {d \in DOMAIN price : d >= today - baseline}
        gd == Max(g)
        pd == Max(p)
        Col(c) == [d \in {x \in g : grid[x][c] # None} |-> grid[d][c]]
        Grid(c) == _driver(grid[gd][c], Col(c), DOMAIN Col(c) \ {gd})
        close == [d \in {x \in p : price[x].mean # None} |-> price[d].mean]
        net == net_position_by_day(flow, zone, today - baseline)
        forced == forced_outage_mw_now(outages, zone, now)
    IN  IF g = {} \/ p = {} THEN [available |-> FALSE]
        ELSE [available |-> TRUE, as_of |-> Max({gd, pd}),
              price |-> _driver(price[pd].mean, close, DOMAIN close \ {pd}), price_date |-> pd,
              drivers |-> [k \in {"residual", "wind", "solar", "net"} |->
                  IF k = "net" THEN _driver(Get(net, gd, None), net, DOMAIN net \ {gd})
                  ELSE Grid(k)],
              outage |-> IF forced > 0 THEN forced ELSE None,
              headline_outage |-> forced > 0 /\ _outage_is_headline_worthy(forced, installed),
              analogs |-> IF grid[gd].residual = None THEN [enough |-> FALSE, n |-> 0]
                          ELSE _analogs(grid, price, grid[gd].residual, gd)]

-----------------------------------------------------------------------------
(* products: base, peak and off-peak on the clock of the market *)

PEAK_HOURS == 8..19
RAMP_HOURS == 3
Local(h) == h + (IF SummerStart <= h /\ h < SummerEnd THEN 2 ELSE 1)
market_day(h) == [day |-> DayOfHour(Local(h)), hour |-> Local(h) % HoursPerDay]
is_peak_hour(hour, day) == day % 7 < 5 /\ hour \in PEAK_HOURS
\* _ramp: the steepest rise over RAMP_HOURS published hours.
_ramp(f) ==
    LET n == Cardinality(DOMAIN f)
        Nth(k) == f[NthSmallest([h \in DOMAIN f |-> h], DOMAIN f, k)]
    IN  IF n <= RAMP_HOURS THEN None
        ELSE Max({Nth(k + RAMP_HOURS) - Nth(k) : k \in 1..(n - RAMP_HOURS)})
day_products(f, day) ==
    LET peak == {h \in DOMAIN f : is_peak_hour(h, day)}
        off == DOMAIN f \ peak
    IN  [base |-> MeanOver(f, DOMAIN f),
         peak |-> IF peak = {} THEN None ELSE MeanOver(f, peak),
         off_peak |-> IF off = {} THEN None ELSE MeanOver(f, off),
         hours |-> Cardinality(DOMAIN f), peak_hours |-> Cardinality(peak), ramp |-> _ramp(f)]
\* compute_products: the last days with enough hours; an hour the clock repeats
\* keeps its second price.
compute_products(prices, now, days) ==
    LET use == {h \in DOMAIN prices : h >= now - (days + 1) * HoursPerDay}
        Of(d) == {h \in use : market_day(h).day = d}
        At(d) == [k \in {market_day(h).hour : h \in Of(d)} |->
                    prices[Max({h \in Of(d) : market_day(h).hour = k})]]
        full == {d \in {market_day(h).day : h \in use} : Cardinality(DOMAIN At(d)) >= FullHours}
        last == {d \in full : Cardinality({e \in full : e > d}) < days}
    IN  IF last = {} THEN [available |-> FALSE]
        ELSE [available |-> TRUE, as_of |-> Max(last),
              rows |-> [d \in last |-> day_products(At(d), d)]]

-----------------------------------------------------------------------------
(* live: today's published hours, yesterday's while today has none *)

Within(f, day) == [h \in DOMAIN f \cap HoursOf(day) |-> f[h]]
\* _zone_net_flow over iter_border_points: flows of the borders of a zone, as
\* its exports.  flow: <<from, to>> -> series.
iter_border_points(flow, zone) ==
    [n \in {b[2] : b \in {x \in DOMAIN flow : x[1] = zone}} \cup
           {b[1] : b \in {x \in DOMAIN flow : x[2] = zone}} |->
        IF <<zone, n>> \in DOMAIN flow THEN flow[<<zone, n>>]
        ELSE [h \in DOMAIN flow[<<n, zone>>] |-> -flow[<<n, zone>>][h]]]
_zone_net_flow(flow, zone, day) ==
    LET f == iter_border_points(flow, zone)
        With(h) == {n \in DOMAIN f : h \in DOMAIN f[n]}
    IN  [h \in {x \in HoursOf(day) : With(x) # {}} |->
            MapThenSumSet(LAMBDA n : f[n][h], With(h))]
compute_live(load, load_fc, gen, flow, zone, now) ==
    LET today == DayOfHour(now)
        day == IF Within(load, today) # <<>> THEN today ELSE today - 1
        actual == Within(load, day)
        last == Max(DOMAIN actual)
        running == {p \in DOMAIN gen : last \in DOMAIN gen[p]}
    IN  IF zone \notin Zones \/ actual = <<>> THEN [available |-> FALSE]
        ELSE [available |-> TRUE, day |-> day, latest_actual |-> last,
              lag |-> Max({0, now - (last + 1)}),
              net_flow |-> _zone_net_flow(flow, zone, day),
              vs_forecast |-> IF Get(load_fc, last, 0) = 0 THEN None
                              ELSE Ratio(actual[last] - load_fc[last], load_fc[last]),
              gen_total |-> IF running = {} THEN None
                            ELSE MapThenSumSet(LAMBDA p : gen[p][last], running)]

(* duration: the hours of the window by size *)

_quantile_desc(f, S, pct) ==
    LET n == Cardinality(S)
        Nth(i) == NthSmallest(f, S, n - i)
        lo == (pct * (n - 1)) \div 100
        hi == Min({lo + 1, n - 1})
    IN  Plus(Int1(Nth(lo)), Ratio((Nth(hi) - Nth(lo)) * (pct * (n - 1) - 100 * lo), 100))
compute_duration(f, now, days) ==
    LET S == {h \in DOMAIN f : h >= now - days * HoursPerDay}
    IN  IF Cardinality(S) < DurationHours THEN [available |-> FALSE]
        ELSE [available |-> TRUE, as_of |-> DayOfHour(Max(S)), mean |-> MeanOver(f, S),
              curve |-> [pct \in {0, 25, 50, 75, 100} |-> _quantile_desc(f, S, pct)]]

\* same_week_band: the readings nearest to each whole number of years back (364
\* days; a tick of f is a day), within four days.
same_week_band(f) ==
    LET last == Max(DOMAIN f)
        Target(i) == last - i * 364
        years == 1..((last - Min(DOMAIN f) + 4) \div 364)
        Near(i) == {k \in DOMAIN f : Abs(k - Target(i)) <= 4}
        Best(i) == CHOOSE k \in Near(i) :
                      \A j \in Near(i) : \/ Abs(k - Target(i)) < Abs(j - Target(i))
                                         \/ Abs(k - Target(i)) = Abs(j - Target(i)) /\ k <= j
        band == {i \in years : Near(i) # {}}
        values == {f[Best(i)] : i \in band}
    IN  [n |-> Cardinality(band),
         vs_band |-> IF band = {} THEN None ELSE IF f[last] < Min(values) THEN "below"
                     ELSE IF f[last] > Max(values) THEN "above" ELSE "within"]

-----------------------------------------------------------------------------
(* forecast_score *)

MAPE_ACTUAL_FLOOR_MW == 100
\* The scores of a day, and that the absent value is none of them.
DayScores ==
    [n_hours : Nat, bias : Ratios, mae : Ratios, mse : Ratios, mape : Ratios \cup {None},
     persistence : Ratios \cup {None}, seasonal : Ratios \cup {None}]
ASSUME ScoresAssumption == None \notin DayScores /\ None \notin Ratios
_baseline_mae(actual, hours, lag) ==
    LET S == {h \in hours : h - lag \in DOMAIN actual}
    IN  IF S = {} THEN None
        ELSE MeanOver([h \in S |-> Abs(actual[h] - actual[h - lag])], S)
score_hours(forecast, actual, hours) ==
    LET err == [h \in hours |-> forecast[h] - actual[h]]
        big == {h \in hours : Abs(actual[h]) >= MAPE_ACTUAL_FLOOR_MW}
    IN  IF hours = {} THEN None
        ELSE [n_hours |-> Cardinality(hours), bias |-> MeanOver(err, hours),
              mae |-> MeanOver([h \in hours |-> Abs(err[h])], hours),
              mse |-> MeanOver([h \in hours |-> err[h] * err[h]], hours),
              mape |-> IF big = {} THEN None
                       ELSE LET s == RatioSum([h \in big |-> Ratio(Abs(err[h]), Abs(actual[h]))], big)
                            IN  Ratio(100 * s.sum, s.n * Cardinality(big)),
              persistence |-> _baseline_mae(actual, hours, HoursPerDay),
              seasonal |-> _baseline_mae(actual, hours, SeasonalLag)]
\* compute_and_store_range: the scores of each day; a day without a common hour
\* has no row.
ScoresOf(forecast, actual, days) ==
    [d \in days |->
        score_hours(forecast, actual, DOMAIN forecast \cap DOMAIN actual \cap HoursOf(d))]

-----------------------------------------------------------------------------
(* quality *)

PV_NIGHT_FLOOR_MW == 50
rule_pv_at_night(f, day) ==
    LET on == DOMAIN f \cap HoursOf(day)
        limit == Max({100 * PV_NIGHT_FLOOR_MW} \cup {f[h] : h \in on})
        night == {day * HoursPerDay + k : k \in {0, HoursPerDay - 2, HoursPerDay - 1}}
    IN  {h \in on \cap night : 100 * f[h] > limit}
\* rule_zero_run: hours in a run of at least ZERO_RUN_MIN_HOURS zeros.
rule_zero_run(f, day) ==
    LET zero == {h \in DOMAIN f \cap HoursOf(day) : f[h] = 0}
    IN  {h \in zero : \E a \in zero, b \in zero :
            a <= h /\ h <= b /\ a..b \subseteq zero /\ b - a + 1 >= ZERO_RUN_MIN_HOURS}
_quantile(f, S, q) ==
    LET n == Cardinality(S)
        lo == (q.sum * (n - 1)) \div q.n
        rest == q.sum * (n - 1) - q.n * lo
        Nth(i) == NthSmallest(f, S, i + 1)
    IN  Plus(Int1(Nth(lo)),
             IF rest = 0 THEN Zero ELSE Ratio((Nth(lo + 1) - Nth(lo)) * rest, q.n))
_iqr(f, S) ==
    IF Cardinality(S) < 4 THEN Zero
    ELSE Minus(_quantile(f, S, Ratio(3, 4)), _quantile(f, S, Ratio(1, 4)))
\* rule_step_jump: steps eight times as large as the spread of the steps before.
STEP_JUMP_IQR_MULT == 8
rule_step_jump(f, day, lookback, floor) ==
    LET steps == {h \in DOMAIN f : h - 1 \in DOMAIN f}
        delta == [h \in steps |-> f[h] - f[h - 1]]
        from == (day - lookback) * HoursPerDay
        iqr == _iqr(delta, {h \in steps : from <= h /\ h < day * HoursPerDay})
    IN  {h \in steps \cap HoursOf(day) :
            /\ Below(Ratio(STEP_JUMP_IQR_MULT * iqr.sum, iqr.n), Int1(Abs(delta[h])))
            /\ Abs(delta[h]) > floor}
rule_gen_below_load_exports(gen, load, exported, has_flows) ==
    /\ load # None /\ load > 0 /\ gen # None /\ has_flows
    /\ 100 * gen >= 60 * load
    /\ load + exported > 0
    /\ 10 * gen < 9 * (load + exported)
\* compute_and_store_range: a day is expected when it or a day near it has a
\* point; solar is expected over the span it reports.
QualityOf(f, solar, day) ==
    LET on == DOMAIN f \cap HoursOf(day)
        near == UNION {HoursOf(d) : d \in (day - ACTIVITY_WINDOW_DAYS)..(day + ACTIVITY_WINDOW_DAYS)}
    IN  IF on = {} /\ DOMAIN f \cap near = {} THEN None
        ELSE [present |-> Cardinality(on),
              expected |-> IF solar /\ on # {} THEN Max(on) - Min(on) + 1 ELSE HoursPerDay,
              flags |-> IF solar THEN rule_pv_at_night(f, day) ELSE rule_zero_run(f, day)]

-----------------------------------------------------------------------------
(* co2: storage is left out, consumption (negative) is no generation *)

MIN_TOTAL_MW == 50
Co2Of(gen, factor, storage) ==
    LET With(h) == {p \in (DOMAIN gen \cap DOMAIN factor) \ storage :
                      h \in DOMAIN gen[p] /\ gen[p][h] >= 0}
        Total(h) == MapThenSumSet(LAMBDA p : gen[p][h], With(h))
    IN  [h \in {x \in UNION {DOMAIN gen[p] : p \in DOMAIN gen} : Total(x) >= MIN_TOTAL_MW} |->
            Ratio(MapThenSumSet(LAMBDA p : gen[p][h] * factor[p], With(h)), Total(h))]

(* spark: the carbon price at which the spread is gone *)

CO2_PER_MWH_TH == Ratio(202, 1000)
breakeven_eua(dirty, heat) ==
    IF dirty.sum <= 0 \/ heat.sum <= 0 THEN None
    ELSE Ratio(dirty.sum * heat.n * CO2_PER_MWH_TH.n, dirty.n * heat.sum * CO2_PER_MWH_TH.sum)
clean_spark(dirty, heat, eua) ==
    IF eua = None THEN None
    ELSE Minus(dirty, Ratio(eua * heat.sum * CO2_PER_MWH_TH.sum, heat.n * CO2_PER_MWH_TH.n))
=============================================================================
