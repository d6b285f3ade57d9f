-------------------------------- MODULE Gas --------------------------------
(***************************************************************************)
(* The gas balance: which operator's report of a point counts (entsog,     *)
(* classification), supply (validation), modelled demand (demand), and the *)
(* residual against storage with its flags (balance), and the panels of    *)
(* routes/gas.  Figures are in the unit they are rounded to.               *)
(***************************************************************************)
EXTENDS Desk

CONSTANTS SMOOTH_WINDOW, Z_LOOKBACK, Z_MIN_HISTORY, SIGNAL_RUN,   \* 7, 90, 30, 3
          MIN_CALIBRATION_MONTHS,   \* months before a calibration (6)
          DaysPerWeek               \* 7

WATCH_Z == Ratio(2, 1)
SIGNAL_Z == Ratio(3, 1)
GAS_STALE_DAYS == 3

-----------------------------------------------------------------------------
(* The registry: rows [op, key, phys, dir, eu, adj, kind, hasData]; the      *)
(* label of a point is its physical name and the operator's suffix.          *)

CLASSES == {"import_pipeline", "interconnector_uk", "export_ua", "lng_entry", "production_entry"}
ASSUME ClassAssumption == None \notin CLASSES
classify_point(row) ==
    IF ~row.eu THEN None
    ELSE IF row.kind = "medgaz" THEN "import_pipeline"
    ELSE IF row.adj = "UK" THEN "interconnector_uk"
    ELSE IF row.adj = "UA" /\ row.dir = "exit" THEN "export_ua"
    ELSE IF row.kind = "lng" /\ row.dir = "entry" THEN "lng_entry"
    ELSE IF row.kind = "production" /\ row.dir = "entry" THEN "production_entry"
    ELSE IF row.kind = "non_eu" /\ row.dir = "entry" /\ row.adj = "supplier" THEN "import_pipeline"
    ELSE None
make_point_id(row) == <<row.op, row.key, row.dir>>
\* A variant that keeps every operator active.
sync_every_operator(points, registry) ==
    [p \in DOMAIN points \cup {make_point_id(r) : r \in registry} |->
        IF \A r \in registry : make_point_id(r) # p THEN points[p]
        ELSE LET row == CHOOSE r \in registry : make_point_id(r) = p
             IN  [phys |-> row.phys, dir |-> row.dir, class |-> classify_point(row),
                  active |-> classify_point(row) # None]]
\* sync_points: one operator per point and direction stays active, one with data
\* before one without, then in the order of their keys; a point that left the
\* registry keeps its row.
sync_points(points, registry) ==
    LET Before(r, s) == \/ r.hasData /\ ~s.hasData
                        \/ r.hasData = s.hasData /\ r.op < s.op
        Keeps(r) == /\ classify_point(r) # None
                    /\ \A s \in registry : (s.key = r.key /\ s.dir = r.dir /\ classify_point(s) # None)
                                               => ~Before(s, r)
    IN  [p \in DOMAIN points \cup {make_point_id(r) : r \in registry} |->
            IF \A r \in registry : make_point_id(r) # p THEN points[p]
            ELSE LET row == CHOOSE r \in registry : make_point_id(r) = p
                 IN  [phys |-> row.phys, dir |-> row.dir, class |-> classify_point(row),
                      active |-> Keeps(row)]]

-----------------------------------------------------------------------------
(* gas: points, flows: <<point, day>> -> value, and per day lng, burn,       *)
(* demand: [heat, industrial], storage: [injection, withdrawal].             *)

Place(gas, p) == <<gas.points[p].phys, gas.points[p].dir>>
\* ingest_flows: what the active points report overwrites the days' flows of them.
ingest_flows(gas, days, reported) ==
    LET new == {p \in DOMAIN gas.points : gas.points[p].active} \X days
    IN  [gas EXCEPT !.flows = [k \in DOMAIN @ \cup new |->
                                  IF k \in new THEN reported[Place(gas, k[1])] ELSE @[k]]]
FlowDays(gas) == {k[2] : k \in DOMAIN gas.flows}
\* compute_daily_supply: the largest report of each physical point and direction
\* counts, of those whose operator is active.
CountedPoints(gas, production, d) ==
    LET classes == {"import_pipeline", "interconnector_uk"}
                   \cup (IF production THEN {"production_entry"} ELSE {})
    IN  {p \in DOMAIN gas.points : /\ <<p, d>> \in DOMAIN gas.flows
                                   /\ gas.points[p].active /\ gas.points[p].class \in classes}
Reported(gas, p, d) == Or0(gas.flows[<<p, d>>])
LargestReports(gas, S, d) ==
    LET At(k) == {p \in S : Place(gas, p) = k}
        Size(p) == Abs(Reported(gas, p, d))
    IN  {CHOOSE p \in At(k) : \A q \in At(k) : Size(q) <= Size(p) : k \in {Place(gas, p) : p \in S}}
SupplyOf(gas, S, d, class, dirs) ==
    SumOver([p \in S |-> Reported(gas, p, d)],
        {p \in S : gas.points[p].class = class /\ gas.points[p].dir \in dirs})
compute_daily_supply(gas, production) ==
    LET Sum(d, class, dirs) ==
            SupplyOf(gas, LargestReports(gas, CountedPoints(gas, production, d), d), d, class, dirs)
        Uk(d) == Sum(d, "interconnector_uk", {"entry"}) - Sum(d, "interconnector_uk", {"exit"})
        All(d, class) == Sum(d, class, {"entry", "exit"})
        Lng(d) == Or0(Get(gas.lng, d, None))
    IN  [d \in {x \in FlowDays(gas) : CountedPoints(gas, production, x) # {}} \cup DOMAIN gas.lng |->
            [pipeline |-> All(d, "import_pipeline"), production |-> All(d, "production_entry"),
             lng |-> Lng(d), uk_net |-> Uk(d),
             supply |-> All(d, "import_pipeline") + All(d, "production_entry") + Lng(d) + Max({0, Uk(d)})]]

\* _iso_week, weekly_supply, compare_to_bruegel, validate
weekly_supply(daily) ==
    [w \in {d \div DaysPerWeek : d \in DOMAIN daily} |->
        MapThenSumSet(LAMBDA d : daily[d].supply, {d \in DOMAIN daily : d \div DaysPerWeek = w})]
compare_to_bruegel(model, bruegel) ==
    LET weeks == DOMAIN model \cap DOMAIN bruegel
        passed == {w \in weeks : bruegel[w] # 0 /\ 100 * Abs(model[w] - bruegel[w]) <= 5 * Abs(bruegel[w])}
    IN  [weeks |-> weeks, passed |-> passed,
         milestone |-> weeks # {} /\ 10 * Cardinality(passed) >= 8 * Cardinality(weeks)]
validate(gas, bruegel) == compare_to_bruegel(weekly_supply(compute_daily_supply(gas, FALSE)), bruegel)

-----------------------------------------------------------------------------
(* Demand: weather: <<day, country>> -> degree days; eurostat: country ->    *)
(* month -> consumption.                                                     *)

Times(a, b) == Ratio(a.sum * b.sum, a.n * b.n)
eu_daily_hdd(weather, weights) ==
    LET With(d) == {c \in DOMAIN weights : /\ weights[c] # 0 /\ <<d, c>> \in DOMAIN weather
                                           /\ weather[<<d, c>>] # None}
    IN  [d \in {k[1] : k \in {x \in DOMAIN weather : With(x[1]) # {}}} |->
            Ratio(MapThenSumSet(LAMBDA c : weather[<<d, c>>] * weights[c], With(d)), SumOver(weights, With(d)))]
MonthSum(f) ==
    [m \in {MonthOf(d) : d \in DOMAIN f} |->
        RatioSum(f, {d \in DOMAIN f : MonthOf(d) = m})]
_power_monthly(burn) == MonthSum([d \in {x \in DOMAIN burn : burn[x] # None} |-> Int1(burn[d])])
eu_monthly_total(eurostat) ==
    [m \in UNION {DOMAIN eurostat[c] : c \in DOMAIN eurostat} |->
        MapThenSumSet(LAMBDA c : eurostat[c][m], {c \in DOMAIN eurostat : m \in DOMAIN eurostat[c]})]
\* calibrate: least squares net = a + b * hdd; months of one and the same hdd
\* give the solution of least norm.
calibrate(net, hdd) ==
    LET months == DOMAIN net \cap DOMAIN hdd
        n == Int1(Cardinality(months))
        X == RatioSum(hdd, months)
        Y == RatioSum(net, months)
        XY == RatioSum([m \in months |-> Times(hdd[m], net[m])], months)
        var == Minus(Times(n, RatioSum([m \in months |-> Times(hdd[m], hdd[m])], months)), Times(X, X))
        b == LET cov == Minus(Times(n, XY), Times(X, Y)) IN Ratio(cov.sum * var.n, cov.n * var.sum)
        x == hdd[CHOOSE m \in months : TRUE]
        flat == Ratio(Y.sum * x.n * x.n, Y.n * n.sum * (x.n * x.n + x.sum * x.sum))
        rest == Minus(Y, Times(b, X))
    IN  IF Cardinality(months) < MIN_CALIBRATION_MONTHS THEN None
        ELSE IF var.sum = 0 THEN [a |-> flat, b |-> Times(flat, x)]
        ELSE [a |-> Ratio(rest.sum, rest.n * n.sum), b |-> b]
\* compute_demand: written for every day with degree days, none without a calibration.
compute_demand(gas, weather, eurostat) ==
    LET weights == [c \in {x \in DOMAIN eurostat : eurostat[x] # <<>>} |-> SumOver(eurostat[c], DOMAIN eurostat[c])]
        daily == eu_daily_hdd(weather, weights)
        total == eu_monthly_total(eurostat)
        power == _power_monthly(gas.burn)
        net == [m \in DOMAIN total |-> Minus(Int1(total[m]), Get(power, m, Zero))]
        fit == calibrate(net, MonthSum(daily))
        AtLeast0(r) == IF r.sum < 0 THEN 0 ELSE Round(r, 1).sum
    IN  IF weights = <<>> \/ daily = <<>> THEN gas
        ELSE IF fit = None THEN gas
        ELSE [gas EXCEPT !.demand = [d \in DOMAIN gas.demand \cup DOMAIN daily |->
                IF d \in DOMAIN daily
                THEN [heat |-> AtLeast0(Times(fit.b, daily[d])),
                      industrial |-> AtLeast0(Ratio(fit.a.sum, fit.a.n * DaysPerMonth)),
                      version |-> IF power # <<>> THEN "power" ELSE "nopower"]
                ELSE gas.demand[d]]]

-----------------------------------------------------------------------------
(* The residual.                                                             *)

_export_ua_by_day(gas, d) ==
    SumOver([k \in DOMAIN gas.flows |-> Or0(gas.flows[k])],
        {k \in DOMAIN gas.flows : /\ k[2] = d /\ k[1] \in DOMAIN gas.points
                                  /\ gas.points[k[1]].active /\ gas.points[k[1]].class = "export_ua"})
BalanceRow(gas, s, d) ==
    LET exports == _export_ua_by_day(gas, d) + Max({0, -s.uk_net})
        demand == Or0(gas.demand[d].heat) + Or0(gas.demand[d].industrial) + Or0(Get(gas.burn, d, None))
        actual == Or0(gas.storage[d].injection) - Or0(gas.storage[d].withdrawal)
        implied == s.supply - demand - exports
    IN  [day |-> d, supply |-> s.supply, demand |-> demand, exports |-> exports,
         implied_delta |-> implied, actual_delta |-> actual, residual |-> actual - implied]

\* _dominant_mover: the component furthest, in deviations, from its last days.
_dominant_mover(rows, i) ==
    LET last == Max({1, i - SMOOTH_WINDOW})..(i - 1)
        Z(k) == ZScore(rows[i][k], [j \in last |-> rows[j][k]], last)
        moved == {k \in {"supply", "demand", "exports"} :
                    Cardinality(last) >= 3 /\ Z(k).var > 0 /\ Z(k).num # 0}
        Further(k, l) == Z(k).num * Z(k).num * Z(l).var >= Z(l).num * Z(l).num * Z(k).var
    IN  IF moved = {} THEN <<"supply", 1>>
        ELSE LET k == CHOOSE x \in moved : \A y \in moved : Further(x, y)
             IN  <<k, IF Z(k).num >= 0 THEN 1 ELSE -1>>
\* _add_smoothing_and_flags: rows are the days that could be computed, in order.
_add_smoothing_and_flags(rows) ==
    LET n == Len(rows)
        smooth == [i \in SMOOTH_WINDOW..n |->
                     MapThenSumSet(LAMBDA j : rows[j].residual, (i - SMOOTH_WINDOW + 1)..i)]
        z == [i \in 1..n |->
                IF i < SMOOTH_WINDOW THEN None
                ELSE LET last == Max({SMOOTH_WINDOW, i - Z_LOOKBACK})..(i - 1)
                     IN  IF Cardinality(last) < Z_MIN_HISTORY THEN None
                         ELSE LET s == ZScore(smooth[i], smooth, last) IN IF s.var = 0 THEN None ELSE s]
        run[i \in 0..n] ==
            IF i = 0 \/ z[i] = None THEN 0
            ELSE IF ~ZAbsAtLeast(z[i], SIGNAL_Z) THEN 0 ELSE run[i - 1] + 1
        Flag(i) == IF z[i] = None THEN None
                   ELSE IF ~ZAbsAtLeast(z[i], WATCH_Z) THEN None
                   ELSE [level |-> IF run[i] >= SIGNAL_RUN THEN "SIGNAL" ELSE "WATCH",
                         by |-> _dominant_mover(rows, i)]
    IN  [i \in 1..n |-> [row |-> rows[i], residual_7d |-> Get(smooth, i, None), z |-> z[i], flag |-> Flag(i)]]

\* compute_balance: a day needs supply, demand and storage, not the power burn.
compute_balance(gas) ==
    LET supply == compute_daily_supply(gas, TRUE)
        days == DOMAIN supply \cap DOMAIN gas.demand \cap DOMAIN gas.storage
        Nth(i) == Ranked(LAMBDA x, y : x < y, days, i)
    IN  _add_smoothing_and_flags([i \in 1..Cardinality(days) |-> BalanceRow(gas, supply[Nth(i)], Nth(i))])
\* persist, compute_and_persist: days that can no longer be computed keep their row.
persist(table, rows) ==
    [d \in DOMAIN table \cup {rows[i].row.day : i \in DOMAIN rows} |->
        IF \E i \in DOMAIN rows : rows[i].row.day = d
        THEN rows[CHOOSE i \in DOMAIN rows : rows[i].row.day = d] ELSE table[d]]

-----------------------------------------------------------------------------
\* The panels of routes/gas: a table over a window, with its age.
gas_panel(table, now, days) ==
    LET rows == On(table, _window(now, days))
    IN  IF rows = <<>> THEN Unavailable
        ELSE [available |-> TRUE, data |-> rows, newest |-> Latest(rows),
              fresh |-> _freshness(Max(DOMAIN rows), now, GAS_STALE_DAYS)]
get_supply(gas, now, days) == gas_panel(compute_daily_supply(gas, FALSE), now, days)
get_storage(gas, now, days) == gas_panel(gas.storage, now, days)
get_lng(gas, now, days) == gas_panel(gas.lng, now, days)
get_power_burn(gas, now, days) == gas_panel(gas.burn, now, days)
\* get_demand: the note says the power burn is separate when the version has
\* "power" in it, which "nopower" has too.
get_demand(gas, now, days) ==
    LET p == gas_panel(gas.demand, now, days)
    IN  IF ~p.available THEN p ELSE [panel |-> p, separate |-> p.newest.version \in {"power", "nopower"}]
get_balance(table, now, days) ==
    LET p == gas_panel(table, now, days)
    IN  IF ~p.available THEN p
        ELSE [panel |-> p, latest |-> p.newest,
              active_flags |-> {d \in DOMAIN p.data : p.data[d].flag # None}]
\* get_storage_countries: countries: day -> country -> fill; no total.
get_storage_countries(countries, country, now, days) ==
    LET mine == [d \in {x \in DOMAIN countries : country = None \/ country \in DOMAIN countries[x]} |->
                   IF country = None THEN countries[d] ELSE [c \in {country} |-> countries[d][c]]]
        p == gas_panel(mine, now, days)
    IN  IF ~p.available THEN p ELSE [panel |-> p, latest |-> p.newest]
=============================================================================
