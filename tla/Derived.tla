------------------------------ MODULE Derived ------------------------------
(***************************************************************************)
(* The statistics backend/power derives from the hourly store and the      *)
(* daily tables: thresholds, episodes, records, capture prices,            *)
(* convergence, borders, marginal technology, drivers, delivery products,  *)
(* forecast scores, quality flags and carbon intensity.                    *)
(*                                                                         *)
(* A series is a function of the hours it has; a day of an hour is         *)
(* DayOfHour, a month of a day MonthOf.  Values are integers and means are *)
(* exact.                                                                  *)
(***************************************************************************)
EXTENDS Figures

CONSTANTS DaysPerMonth, MonthsPerYear,   \* the calendar of the model
          MIN_MONTH_HISTORY,     \* days of a month before it has a tail (60)
          MIN_HISTORY_DAYS,      \* days of record before a rank (365)
          MIN_BASELINE_N,        \* values before a z-score (14)
          TailPercentile,        \* TAIL_PERCENTILE, SPIKE_TAIL (2/100), a ratio
          TB_MIN_HOURS,          \* hours before a day has a spread (20)
          MIN_DAYS, MIN_PRICE_HOURS,     \* capture: days, hours of a month (20, 480)
          FullHours              \* hours before a delivery day counts (20)

ASSUME CalendarAssumption == {DaysPerMonth, MonthsPerYear} \subseteq Nat \ {0}
ASSUME PercentileAssumption ==
    TailPercentile \in Ratios /\ 0 <= TailPercentile.sum /\ TailPercentile.sum < TailPercentile.n

MonthOf(day) == day \div DaysPerMonth
MonthOfYear(day) == MonthOf(day) % MonthsPerYear
HoursOf(day) == (day * HoursPerDay)..(day * HoursPerDay + HoursPerDay - 1)

-----------------------------------------------------------------------------
(* Percentiles: borders.percentile rounds the rank a tie to even, SQL a tie  *)
(* upwards.                                                                  *)

percentile(f, S, q) ==
    LET n == Cardinality(S)
        idx == Round(Ratio(q.sum * (n - 1), q.n), 1).sum
    IN  IF S = {} THEN None ELSE NthSmallest(f, S, Min({idx, n - 1}) + 1)
SqlRank(q, n) == (2 * q.sum * (n - 1) + q.n) \div (2 * q.n) + 1

trailing_zscore(x, f, S) ==
    IF Cardinality(S) < MIN_BASELINE_N THEN None
    ELSE LET z == ZScore(x, f, S) IN IF z.var = 0 THEN None ELSE z

-----------------------------------------------------------------------------
(* dunkelflaute and coverage.  grid: day -> [load, wind, solar, lh, gh]      *)

ABSOLUTE_THRESHOLD == Ratio(15, 100)
MIN_FLEET_SHARE == Ratio(10, 100)
COVERAGE_MIN_RATIO == Ratio(60, 100)

Share(r) == Ratio(Or0(r.wind) + Or0(r.solar), r.load)
HasLoad(r) == r.load # None /\ r.load > 0
ByShare(grid, S, k) ==
    Share(grid[Ranked(LAMBDA x, y : Below(Share(grid[x]), Share(grid[y])), S, k)])

\* zone_thresholds: a zone has a tail when its median share shows a fleet and
\* the month is long enough on record.
zone_thresholds(grid, month) ==
    LET all == {d \in DOMAIN grid : HasLoad(grid[d])}
        mine == {d \in all : MonthOfYear(d) = month}
        n == Cardinality(mine)
    IN  IF \/ all = {} \/ n < MIN_MONTH_HISTORY
           \/ Below(ByShare(grid, all, (Cardinality(all) + 1) \div 2), MIN_FLEET_SHARE)
        THEN [eligible |-> FALSE]
        ELSE [eligible |-> TRUE,
              tail_share |-> ByShare(grid, mine, SqlRank(TailPercentile, n))]

is_dunkelflaute(share, threshold) ==
    /\ threshold.eligible
    /\ Below(share, threshold.tail_share)
    /\ Below(share, ABSOLUTE_THRESHOLD)

flag_days(grid, shares, reliable) ==
    [d \in DOMAIN shares |->
        /\ shares[d] # None
        /\ d \in reliable
        /\ is_dunkelflaute(shares[d], zone_thresholds(grid, MonthOfYear(d)))]

\* mix: day -> psr -> mean output.
generation_total_mw(mix, d) ==
    IF d \in DOMAIN mix THEN SumOver(mix[d], DOMAIN mix[d]) ELSE None
renewable_share_reliable(mix, d, load) ==
    LET total == generation_total_mw(mix, d)
    IN  /\ load # None /\ load > 0 /\ total # None
        /\ AtMost(Ratio(COVERAGE_MIN_RATIO.sum * load, COVERAGE_MIN_RATIO.n), Int1(total))
reliable_days(grid, mix, days) ==
    {d \in DOMAIN grid \cap days :
        HasLoad(grid[d]) /\ renewable_share_reliable(mix, d, grid[d].load)}

share_is_claimable(r) == r.lh = HoursPerDay /\ r.gh = HoursPerDay

-----------------------------------------------------------------------------
(* episodes *)

MAX_GAP_DAYS == 1
MIN_DURATION_DAYS == 2
MIN_POPULATED == Ratio(8, 10)
NEGATIVE_HOURS_MIN == 3

\* A variant that bridges a longer hole.
BridgesMore(gap) == gap > MAX_GAP_DAYS + 1
EndsRun(gap) == gap > MAX_GAP_DAYS

\* group_runs, day by day: current holds the qualifying days of the open run,
\* gap the days since the last of them.
ScanState(f, good, last) ==
    LET scan[d \in (Min(DOMAIN f) - 1)..last] ==
          IF d < Min(DOMAIN f) THEN [current |-> {}, gap |-> 0, runs |-> {}]
          ELSE LET s == scan[d - 1]
               IN  IF d \in good THEN [s EXCEPT !.current = @ \cup {d}, !.gap = 0]
                   ELSE IF s.current = {} THEN s
                   ELSE IF EndsRun(s.gap + 1)
                   THEN [current |-> {}, gap |-> 0, runs |-> s.runs \cup {s.current}]
                   ELSE [s EXCEPT !.gap = @ + 1]
    IN  scan[last]
\* _close: the span with its holes, the deepest day (the first of equals).
_close(days, f, lowest) ==
    LET Deeper(a, b) == IF lowest THEN Below(a, b) ELSE a > b
        span == Max(days) - Min(days) + 1
        deepest == {d \in days : \A e \in days : ~Deeper(f[e], f[d])}
    IN  [start |-> Min(days), end |-> Max(days), days |-> span,
         depth_date |-> Min(deepest), depth |-> f[Min(deepest)],
         populated |-> Ratio(Cardinality(days), span)]
\* qualifying: the days the predicate holds; lowest: whether less is deeper.
group_runs(f, qualifying, holes, lowest) ==
    IF DOMAIN f = {} THEN {}
    ELSE LET good == (qualifying \cap DOMAIN f) \ holes
             s == ScanState(f, good, Max(DOMAIN f))
             closed == s.runs \cup (IF s.current = {} THEN {} ELSE {s.current})
         IN  {r \in {_close(days, f, lowest) : days \in closed} :
                r.days >= MIN_DURATION_DAYS /\ AtMost(MIN_POPULATED, r.populated)}

_dunkelflaute_runs(grid, reliable) ==
    LET f == [d \in {x \in DOMAIN grid : HasLoad(grid[x])} |-> Share(grid[d])]
        dark == {d \in DOMAIN f : is_dunkelflaute(f[d], zone_thresholds(grid, MonthOfYear(d)))}
    IN  group_runs(f, dark, DOMAIN grid \ reliable, TRUE)

_monthly_cutoffs(f) ==
    LET Of(m) == {d \in DOMAIN f : MonthOfYear(d) = m}
    IN  [m \in {x \in 0..(MonthsPerYear - 1) : Cardinality(Of(x)) >= MIN_MONTH_HISTORY} |->
            percentile(f, Of(m), Minus(Int1(1), TailPercentile))]

\* price: day -> [mean, neg]
_price_runs(price, column) ==
    IF column = "negative_hours"
    THEN LET f == [d \in {x \in DOMAIN price : price[x].neg # None} |-> price[d].neg]
         IN  group_runs(f, {d \in DOMAIN f : f[d] >= NEGATIVE_HOURS_MIN}, {}, FALSE)
    ELSE LET f == [d \in {x \in DOMAIN price : price[x].mean # None} |-> price[d].mean]
             cut == _monthly_cutoffs(f)
             high == {d \in DOMAIN f : MonthOfYear(d) \in DOMAIN cut /\ f[d] >= cut[MonthOfYear(d)]}
         IN  group_runs(f, high, {}, FALSE)

_runs_for_kind(grid, price, mix, kind) ==
    CASE kind = "dunkelflaute" ->
            _dunkelflaute_runs(grid, reliable_days(grid, mix, DOMAIN grid))
      [] kind = "negative_prices" -> _price_runs(price, "negative_hours")
      [] kind = "price_spike" -> _price_runs(price, "mean_price")

\* _upsert: yesterday's run is still active.
Status(run, today) == IF run.end >= today - 1 THEN "active" ELSE "resolved"

\* zone_episodes: the newest active run and its rank by length, stable among
\* equals in the order of newest start; no rank on a short record.
zone_episodes(rows, history_days) ==
    LET active == {r \in rows : r.status = "active"}
        newest == CHOOSE r \in active : \A q \in active : q.start <= r.start
    IN  IF rows = {} THEN [available |-> FALSE]
        ELSE [available |-> TRUE, count |-> Cardinality(rows),
              active |-> IF active = {} THEN None ELSE newest,
              rank |-> IF active = {} \/ history_days < MIN_HISTORY_DAYS THEN None
                       ELSE 1 + Cardinality({r \in rows : \/ r.days > newest.days
                                                          \/ /\ r.days = newest.days
                                                             /\ r.start > newest.start})]

-----------------------------------------------------------------------------
(* records: the extremes of the plausible values, the first hour of each *)

_bounds(series) ==
    CASE series \in {"spread.da_imbalance", "imbalance.price.qh"} -> <<-20000, 20000>>
      [] series = "price.negative_hours" -> <<0, 24>>
      [] series \in {"price.dayahead", "price.dayahead.qh", "price.mid"} -> <<-500, 4000>>
      [] series = "load.actual" -> <<100, 200000>>
      [] series = "residual.actual" -> <<-100000, 200000>>
      [] series = "co2.intensity.lifecycle" -> <<0, 900>>
compute_records(f, series) ==
    LET ok == {h \in DOMAIN f : _bounds(series)[1] <= f[h] /\ f[h] <= _bounds(series)[2]}
        First(v) == Min({h \in ok : f[h] = v})
    IN  IF ok = {} THEN <<>>
        ELSE [kind \in {"max", "min"} |->
                LET v == IF kind = "max" THEN Max({f[h] : h \in ok}) ELSE Min({f[h] : h \in ok})
                IN  [value |-> v, ts |-> First(v)]]

-----------------------------------------------------------------------------
(* capture: the same figures computed by a function over dicts and by SQL *)

Positive(p) == IF p > 0 THEN p ELSE 0
\* The figures of a month; the absent value is none of them.
CaptureFigures ==
    [hours : Nat, days : Nat, capture_price : Ratios, capture_price_floor0 : Ratios,
     negative_gen : Ratios, negative_hours : Nat]
ASSUME FiguresAssumption == None \notin CaptureFigures
\* A variant that weighs every hour of generation, priced or not.
capture_over_all(prices, generation) ==
    LET hours == DOMAIN generation \cap DOMAIN prices
        total == SumOver(generation, DOMAIN generation)
    IN  IF prices = <<>> \/ total <= 0 THEN None
        ELSE [hours |-> Cardinality(hours), days |-> Cardinality({DayOfHour(h) : h \in hours}),
              capture_price |-> Ratio(SumOver([h \in hours |-> prices[h] * generation[h]], hours), total),
              capture_price_floor0 |->
                  Ratio(SumOver([h \in hours |-> Positive(prices[h]) * generation[h]], hours), total),
              negative_gen |-> Ratio(SumOver(generation, {h \in hours : prices[h] < 0}), total),
              negative_hours |-> Cardinality({h \in hours : prices[h] < 0 /\ generation[h] > 0})]
capture_metrics(prices, generation) ==
    LET hours == DOMAIN generation \cap DOMAIN prices
        total == SumOver(generation, hours)
    IN  IF prices = <<>> \/ total <= 0 THEN None
        ELSE [hours |-> Cardinality(hours), days |-> Cardinality({DayOfHour(h) : h \in hours}),
              capture_price |-> Ratio(SumOver([h \in hours |-> prices[h] * generation[h]], hours), total),
              capture_price_floor0 |->
                  Ratio(SumOver([h \in hours |-> Positive(prices[h]) * generation[h]], hours), total),
              negative_gen |-> Ratio(SumOver(generation, {h \in hours : prices[h] < 0}), total),
              negative_hours |-> Cardinality({h \in hours : prices[h] < 0 /\ generation[h] > 0})]
\* _FUEL_SQL, _aggregate: joined rows grouped by month, a month without
\* generation dropped.
Joined(prices, generation, month) ==
    {<<h, prices[h], generation[h]>> : h \in
        {x \in DOMAIN prices \cap DOMAIN generation : MonthOf(DayOfHour(x)) = month}}
FuelGen(rows) == SumOver([r \in rows |-> r[3]], rows)
FuelFigures(rows) ==
    LET Per(case) == Ratio(SumOver(case, rows), FuelGen(rows))
    IN  [hours |-> Cardinality(rows),
         days |-> Cardinality({DayOfHour(r[1]) : r \in rows}),
         capture_price |-> Per([r \in rows |-> r[2] * r[3]]),
         capture_price_floor0 |-> Per([r \in rows |-> IF r[2] > 0 THEN r[2] * r[3] ELSE 0]),
         negative_gen |-> Per([r \in rows |-> IF r[2] < 0 THEN r[3] ELSE 0]),
         negative_hours |-> SumOver([r \in rows |-> IF r[2] < 0 /\ r[3] > 0 THEN 1 ELSE 0], rows)]
_aggregate(prices, generation, start) ==
    LET Rows(m) == {r \in Joined(prices, generation, m) : r[1] >= start}
    IN  [m \in {x \in {MonthOf(DayOfHour(h)) : h \in DOMAIN generation} : FuelGen(Rows(x)) > 0} |->
            FuelFigures(Rows(m))]
\* _PRICE_SQL: the baseload mean of each month.
_price_months(prices, start) ==
    LET Of(m) == {h \in DOMAIN prices : h >= start /\ MonthOf(DayOfHour(h)) = m}
    IN  [m \in {MonthOf(DayOfHour(h)) : h \in {x \in DOMAIN prices : x >= start}} |->
            [baseload |-> MeanOver(prices, Of(m)), hours |-> Cardinality(Of(m))]]
_window_start(today, months) == (MonthOf(today) - months) * DaysPerMonth * HoursPerDay

\* compute_capture: complete months before the running one, a fuel only where
\* it ran on enough days; no factor against a baseload of nothing.
STALE_AFTER_DAYS == 45
compute_capture(prices, fuels, today, months) ==
    LET start == _window_start(today, months)
        pm == _price_months(prices, start)
        full == {m \in DOMAIN pm : m < MonthOf(today) /\ pm[m].hours >= MIN_PRICE_HOURS}
        Of(f) == _aggregate(prices, fuels[f], start)
        Months(f) == {m \in DOMAIN Of(f) \cap full : Of(f)[m].days >= MIN_DAYS}
        with == {f \in DOMAIN fuels : Months(f) # {}}
        latest == Max(UNION {Months(f) : f \in with})
        as_of == DayOfHour(Max({h \in DOMAIN prices : MonthOf(DayOfHour(h)) = latest}))
    IN  IF full = {} \/ with = {} THEN [available |-> FALSE]
        ELSE [available |-> TRUE, latest_month |-> latest, as_of |-> as_of,
              stale |-> today - as_of > STALE_AFTER_DAYS,
              fuels |-> [f \in with |-> [m \in Months(f) |->
                  [row |-> Of(f)[m],
                   value_factor |-> IF pm[m].baseload.sum > 0
                       THEN LET c == Of(f)[m].capture_price
                            IN  Ratio(c.sum * pm[m].baseload.n, c.n * pm[m].baseload.sum)
                       ELSE None]]]]

-----------------------------------------------------------------------------
(* convergence: hours of full, moderate and low price convergence *)

FULL_EUR == 1
LOW_EUR == 10
band_counts(spreads, S) ==
    [full |-> Cardinality({h \in S : spreads[h] <= FULL_EUR}),
     low |-> Cardinality({h \in S : spreads[h] > LOW_EUR})]
\* store_convergence: the four daily series of a border, over the common hours.
store_convergence(pa, pb) ==
    LET both == DOMAIN pa \cap DOMAIN pb
        gap == [h \in both |-> Abs(pa[h] - pb[h])]
        On(d) == {h \in both : DayOfHour(h) = d}
    IN  [d \in {DayOfHour(h) : h \in both} |->
            [full |-> band_counts(gap, On(d)).full, low |-> band_counts(gap, On(d)).low,
             hours |-> Cardinality(On(d)), spread |-> MeanOver(gap, On(d))]]
\* The figures of a border, and that the absent value is none of them.
BandFigures == [hours : Int, full : Int, low : Int, moderate : Int, mean_abs_spread : Ratios]
ASSUME BandsAssumption == None \notin BandFigures
\* compute_convergence: sums of what is stored, an absent metric counting 0; the
\* mean spread is weighted by the hours of its day.
compute_convergence(days) ==
    LET total(m) == SumOver([d \in DOMAIN days |-> Get(days[d], m, 0)], DOMAIN days)
        with == {d \in DOMAIN days : {"spread", "hours"} \subseteq DOMAIN days[d]}
        weighted == RatioSum(
                      [d \in with |-> Ratio(days[d].spread.sum * days[d].hours, days[d].spread.n)], with)
    IN  IF total("hours") = 0 THEN None
        ELSE [hours |-> total("hours"), full |-> total("full"), low |-> total("low"),
              moderate |-> total("hours") - total("full") - total("low"),
              mean_abs_spread |-> Ratio(weighted.sum, weighted.n * total("hours"))]

-----------------------------------------------------------------------------
(* derived_stats *)

store_negative_hours(price, from) ==
    [d \in {x \in DOMAIN price : x >= from} |-> price[d].neg]
TB_WINDOWS == {1, 2, 4}
\* store_tb_spreads: the n dearest minus the n cheapest hours of a day.
store_tb_spreads(prices, n) ==
    LET On(d) == {h \in DOMAIN prices : DayOfHour(h) = d}
        Count(d) == Cardinality(On(d))
        Sum(d, ks) == MapThenSumSet(LAMBDA k : NthSmallest(prices, On(d), k), ks)
    IN  [d \in {x \in {DayOfHour(h) : h \in DOMAIN prices} : Count(x) >= TB_MIN_HOURS} |->
            Sum(d, (Max({Count(d) - n, 0}) + 1)..Count(d)) - Sum(d, 1..Min({n, Count(d)}))]
store_da_imbalance_spread(da, imb) ==
    [h \in DOMAIN da \cap DOMAIN imb |-> imb[h] - da[h]]

-----------------------------------------------------------------------------
(* borders *)

COUPLED_EPS_EUR == 1
RAIL_PERCENTILE == Ratio(95, 100)
\* _rail_thresholds: SQL's nearest rank of the absolute flow.
_rail_thresholds(flow, start) ==
    LET S == {h \in DOMAIN flow : h >= start}
        size == [h \in S |-> Abs(flow[h])]
    IN  IF S = {} THEN None
        ELSE NthSmallest(size, S, SqlRank(RAIL_PERCENTILE, Cardinality(S)))
\* border_metrics: flow > 0 is an export of the first zone; a split hour is
\* counter-price when power left the dearer zone.
border_metrics(pa, pb, flow, rail) ==
    LET hours == DOMAIN pa \cap DOMAIN pb
        gap == [h \in hours |-> Abs(pa[h] - pb[h])]
        split == {h \in hours : gap[h] > COUPLED_EPS_EUR}
        counter == {h \in split \cap DOMAIN flow :
                      flow[h] # 0 /\ (flow[h] > 0) = (pa[h] > pb[h])}
        flowing == hours \cap DOMAIN flow
    IN  [hours |-> Cardinality(hours), split |-> Cardinality(split),
         coupled |-> Cardinality(hours) - Cardinality(split),
         counter |-> Cardinality(counter), p95 |-> percentile(gap, hours, RAIL_PERCENTILE),
         at_rail |-> IF rail = None \/ rail = 0 THEN 0
                     ELSE Cardinality({h \in flowing : Abs(flow[h]) >= rail}),
         flow_hours |-> Cardinality(flowing),
         latest_spread |-> IF hours = {} THEN None ELSE pa[Max(hours)] - pb[Max(hours)],
         latest_flow |-> IF flow = <<>> THEN None ELSE flow[Max(DOMAIN flow)],
         as_of |-> IF hours = {} THEN None ELSE DayOfHour(Max(hours))]
loop_flow(physical, scheduled) ==
    LET hours == DOMAIN physical \cap DOMAIN scheduled
        diff == [h \in hours |-> physical[h] - scheduled[h]]
    IN  IF hours = {} THEN None
        ELSE [hours |-> Cardinality(hours), mean |-> MeanOver(diff, hours),
              p95 |-> percentile([h \in hours |-> Abs(diff[h])], hours, RAIL_PERCENTILE)]
\* ntc_utilization: the capacity offered in the direction of the flow.
ntc_utilization(flow, ntc_fwd, ntc_rev) ==
    LET Cap(h) == Get(IF flow[h] >= 0 THEN ntc_fwd ELSE ntc_rev, h, None)
        hours == {h \in DOMAIN flow : Cap(h) # None /\ Cap(h) > 0}
        util == [h \in hours |-> Ratio(100 * Abs(flow[h]), Cap(h))]
    IN  IF hours = {} THEN None
        ELSE [hours |-> Cardinality(hours), latest |-> util[Max(hours)], latest_ts |-> Max(hours),
              ge_90 |-> Cardinality({h \in hours : AtMost(Int1(90), util[h])})]
\* compute_borders: a border of two priced zones; the schedule before the
\* metered flow; borders of aggregates are named, not measured.
compute_borders(prices, physical, scheduled, ntc, start, railStart, Resolvable) ==
    LET From(f) == [h \in {x \in DOMAIN f : x >= start} |-> f[h]]
        P(b) == From(Get(physical, b, <<>>))
        S(b) == From(Get(scheduled, b, <<>>))
        all == {b \in DOMAIN physical \cup DOMAIN scheduled : P(b) # <<>> \/ S(b) # <<>>}
        priced == DOMAIN prices
        joinable == {b \in all : {b[1], b[2]} \subseteq priced}
        Flows(b) == IF S(b) # <<>> THEN S(b) ELSE P(b)
        Rail(b) == _rail_thresholds(IF S(b) # <<>> THEN scheduled[b] ELSE physical[b], railStart)
        M(b) == border_metrics(From(prices[b[1]]), From(prices[b[2]]), Flows(b), Rail(b))
        shown == {b \in joinable : M(b).hours > 0}
        Util(b) == ntc_utilization(Flows(b), From(Get(ntc, b, <<>>)),
                                   From(Get(ntc, <<b[2], b[1]>>, <<>>)))
    IN  [available |-> shown # {},
         borders |-> [b \in shown |->
            [m |-> M(b), util |-> Util(b),
             source |-> IF S(b) # <<>> THEN "scheduled" ELSE "physical",
             expensive |-> IF Abs(M(b).latest_spread) <= COUPLED_EPS_EUR THEN None
                           ELSE IF M(b).latest_spread > 0 THEN b[1] ELSE b[2],
             loop |-> loop_flow(P(b), S(b))]],
         superseded |-> {b \in all \ joinable : {b[1], b[2]} \subseteq Resolvable},
         uncoverable |-> {b \in all \ joinable : ~({b[1], b[2]} \subseteq Resolvable)}]
\* compute_spread: one border, of the metered flow only.
compute_spread(prices, physical, ntc, b, start, railStart) ==
    LET From(f) == [h \in {x \in DOMAIN f : x >= start} |-> f[h]]
        flow == From(Get(physical, b, <<>>))
        m == border_metrics(From(prices[b[1]]), From(prices[b[2]]), flow,
                            _rail_thresholds(Get(physical, b, <<>>), railStart))
    IN  IF \/ ~({b[1], b[2]} \subseteq DOMAIN prices) \/ flow = <<>> \/ m.hours = 0
        THEN [available |-> FALSE]
        ELSE [available |-> TRUE, m |-> m,
              util |-> ntc_utilization(flow, From(Get(ntc, b, <<>>)),
                                       From(Get(ntc, <<b[2], b[1]>>, <<>>)))]
=============================================================================
