------------------------------- MODULE Panels -------------------------------
(***************************************************************************)
(* The desk's panels on flows, balancing, outages, units, reservoirs and   *)
(* carbon (the second half of backend/routes/power.py).                    *)
(***************************************************************************)
EXTENDS Desk

-----------------------------------------------------------------------------
(* Flows *)

\* get_flows: each border with its newest value of the window, the panel dated
\* by the newest day of all of them.
get_flows(db, now, days) ==
    LET W == _window(now, days)
        shown == {b \in DOMAIN db.flow : DOMAIN db.flow[b] \cap W # {}}
        dates == UNION {DOMAIN db.flow[b] \cap W : b \in shown}
    IN  IF shown = {} THEN Unavailable
        ELSE [available |-> TRUE,
              borders |-> [b \in shown |-> [net |-> Latest(On(db.flow[b], W)),
                             forward |-> Latest(On(db.flow[b], W)) >= 0]],
              latest |-> {b \in shown : Max(dates) \in DOMAIN db.flow[b]},
              fresh |-> _panel_freshness([d \in dates |-> d], now, "flows")]

\* actual_keys: the series that add up to what was forecast.
get_forecast_error(db, zone, now, days, forecast_key, actual_keys) ==
    LET z == _resolve_zone(zone)
        From(k) == Since(Hourly(db, k, z), now - days * HoursPerDay)
        fc == From(forecast_key)
        With(h) == {k \in actual_keys : h \in DOMAIN From(k)}
        common == {h \in DOMAIN fc : With(h) # {}}
        err == [h \in common |-> MapThenSumSet(LAMBDA k : From(k)[h], With(h)) - fc[h]]
    IN  IF common = {} THEN Unavailable
        ELSE [available |-> TRUE, zone |-> z, n_hours |-> Cardinality(common),
              bias |-> MeanOver(err, common),
              mae |-> MeanOver([h \in common |-> Abs(err[h])], common)]

\* _neighbor_ntc: the capacity offered in the hour and direction of the flow.
_neighbor_ntc(db, z, n, h, mw) ==
    LET f == Get(db.ntc, IF mw >= 0 THEN <<z, n>> ELSE <<n, z>>, <<>>)
    IN  IF {z, n} \notin NTC_BORDER_SET \/ Get(f, h, 0) <= 0 THEN None
        ELSE Ratio(100 * Abs(mw), f[h])
get_flows_hourly(db, borders, zone, now, hours) ==
    LET z == _resolve_zone(zone)
        f == iter_border_points([b \in DOMAIN borders |-> Since(borders[b], now - hours)], z)
        shown == {n \in DOMAIN f : f[n] # <<>>}
        newest == Max({Max(DOMAIN f[n]) : n \in shown})
    IN  IF shown = {} THEN Unavailable
        ELSE [available |-> TRUE, zone |-> z,
              borders |-> [n \in shown |->
                [latest |-> Latest(f[n]),
                 utilization |-> _neighbor_ntc(db, z, n, Max(DOMAIN f[n]), Latest(f[n]))]],
              fresh |-> _freshness(DayOfHour(newest), now, PANEL_MAX_AGE_DAYS.flows_hourly)]

-----------------------------------------------------------------------------
(* Imbalance, balancing and capacity *)

\* The hour of the largest size, the first of equals.
Peak(f) == Min({h \in DOMAIN f : \A k \in DOMAIN f : Abs(f[k]) <= Abs(f[h])})
get_imbalance(db, zone, now, days, series) ==
    LET z == _resolve_zone(zone)
        f == Since(Hourly(db, series, z), now - days * HoursPerDay)
    IN  IF f = <<>> THEN Unavailable
        ELSE [available |-> TRUE, zone |-> z, latest |-> Latest(f), peak |-> f[Peak(f)],
              fresh |-> _freshness(DayOfHour(Max(DOMAIN f)), now, PANEL_MAX_AGE_DAYS.imbalance)]
\* get_balancing: up and down of a product, an hour with a price or a volume;
\* up before down where both are the newest.
get_balancing(db, zone, now, days, product) ==
    LET z == _resolve_zone(zone)
        From(what, dir) == Since(Get(db.balancing, <<product, what, dir, z>>, <<>>), now - days * HoursPerDay)
        rows == [dir \in {"up", "down"} |->
                   [h \in DOMAIN From("price", dir) \cup DOMAIN From("vol", dir) |->
                      [price |-> Get(From("price", dir), h, None),
                       vol |-> Get(From("vol", dir), h, None)]]]
        all == DOMAIN rows["up"] \cup DOMAIN rows["down"]
        dir == IF Max(all) \in DOMAIN rows["up"] THEN "up" ELSE "down"
        priced == DOMAIN From("price", "up") \cup DOMAIN From("price", "down")
    IN  IF all = {} THEN Unavailable
        ELSE [available |-> TRUE, zone |-> z, rows |-> rows, direction |-> dir,
              latest |-> rows[dir][Max(all)],
              peak |-> IF priced = {} THEN None
                       ELSE Max({Abs(p) : p \in UNION {
                           {From("price", d)[h] : h \in DOMAIN From("price", d)} : d \in {"up", "down"}}}),
              fresh |-> _freshness(DayOfHour(Max(all)), now, PANEL_MAX_AGE_DAYS.balancing)]
get_capacity_prices(db, zone, now, days) ==
    LET f == [p \in PRODUCT_SUFFIXES |->
                Since(Get(db.reserve, p, <<>>), now - days * HoursPerDay)]
        with == {p \in PRODUCT_SUFFIXES : f[p] # <<>>}
    IN  IF _resolve_zone(zone) # DEFAULT_ZONE \/ with = {} THEN Unavailable
        ELSE [available |-> TRUE, products |-> f,
              latest |-> [p \in PRODUCT_SUFFIXES |-> IF p \in with THEN Latest(f[p]) ELSE None],
              fresh |-> _freshness(DayOfHour(Max({Max(DOMAIN f[p]) : p \in with})), now,
                                   PANEL_MAX_AGE_DAYS.capacity_prices)]
get_records(db, zone, now) ==
    LET z == _resolve_zone(zone)
    IN  IF db.records[z] = {} THEN Unavailable
        ELSE [available |-> TRUE, zone |-> z, records |-> db.records[z],
              fresh |-> {r \in db.records[z] : r.ts >= now - RECORD_FRESH_DAYS * HoursPerDay}]

-----------------------------------------------------------------------------
(* Caches in front of an answer: the body is kept, its age is not. *)

get_marginal(answer, now) ==
    IF ~answer.available THEN answer
    ELSE [available |-> TRUE, body |-> answer,
          fresh |-> _freshness(DayOfHour(answer.as_of), now, PANEL_MAX_AGE_DAYS.marginal)]
\* cached: [body, at], the overview and the hour it was computed in.
get_marginal_overview(cached, now) ==
    IF ~cached.body.available THEN cached.body
    ELSE [available |-> TRUE, missing |-> cached.body.missing,
          stale |-> [z \in DOMAIN cached.body.zones |->
                _freshness(DayOfHour(cached.body.zones[z].at), now, PANEL_MAX_AGE_DAYS.marginal).stale],
          fresh |-> _freshness(DayOfHour(Max({cached.body.zones[z].at : z \in DOMAIN cached.body.zones})),
                               now, PANEL_MAX_AGE_DAYS.marginal)]
get_convergence(body, as_of, now) ==
    IF body = None THEN Unavailable
    ELSE [available |-> TRUE, body |-> body, fresh |-> _freshness(as_of, now, 3)]
get_live(answer, now) ==
    IF ~answer.available THEN answer
    ELSE [available |-> TRUE, body |-> answer,
          fresh |-> _freshness(DayOfHour(answer.latest_actual), now, LIVE_MAX_AGE_DAYS)]

-----------------------------------------------------------------------------
(* Outages *)

Shown(o, now, horizon) ==
    o.status = "active" /\ o.end >= now /\ o.start <= now + horizon * HoursPerDay
get_outages(outages, zone, now, horizon) ==
    LET z == _resolve_zone(zone)
        gen == latest_outage_revisions(outages, z, None, "A77")
        lines == latest_outage_revisions(outages, z, None, "A78")
        up == {o \in gen : Shown(o, now, horizon) /\ Runs(o, now) /\ o.nominal # None}
    IN  IF gen \cup lines = {} THEN Unavailable
        ELSE [available |-> TRUE, zone |-> z,
              total_offline |-> MapThenSumSet(Offline, up),
              forced_offline |-> MapThenSumSet(Offline, {o \in up : o.kind = "A54"}),
              outages |-> {o \in gen : Shown(o, now, horizon)},
              transmission |-> {[line |-> o, other |-> IF o.other = z THEN o.zone ELSE o.other] :
                                  o \in {x \in lines : Shown(x, now, horizon)}}]

\* The event of two reports of a line to keep: the tighter one, a figure before
\* none, the smaller message id among equals.
KeepTighter(new, old) ==
    IF \/ new.available # None /\ (old.available = None \/ new.available < old.available)
       \/ new.available = old.available /\ new.mrid < old.mrid
    THEN new ELSE old
MergeKey(o) ==
    IF o.unit # None THEN <<o.unit, o.start, o.end>> ELSE <<o.mrid>>
\* get_transmission_outages_europe: rows in the order the query returns them; the
\* reports of an event are merged one by one, the first one opens it.
NoEvent == [event |-> None, by |-> {}]
MergeReport(o, old) ==
    [event |-> IF old.by = {} THEN o ELSE KeepTighter(o, old.event), by |-> old.by \cup {o.zone}]
MergedOf(rows, use, k) ==
    LET merged[i \in 0..Len(rows)] ==
            IF i = 0 THEN NoEvent
            ELSE IF i \in use /\ MergeKey(rows[i]) = k THEN MergeReport(rows[i], merged[i - 1])
            ELSE merged[i - 1]
    IN  merged[Len(rows)]
get_transmission_outages_europe(rows, now, horizon) ==
    LET use == {i \in DOMAIN rows : Shown(rows[i], now, horizon)}
    IN  {MergedOf(rows, use, MergeKey(rows[i])) : i \in use}

-----------------------------------------------------------------------------
(* Units, reservoirs, carbon *)

UNIT_WINDOW_DAYS == 14
\* _unit_registry_for: the newest year of a unit.
_unit_registry_for(db, u) ==
    IF u \in DOMAIN db.registry THEN Latest(db.registry[u]) ELSE None
\* The outage of a unit: a forced one is not replaced by a planned one.
OutageOf(db, z, u, now) ==
    LET up == {o \in latest_outage_revisions(db.outages, z, now, "A77") :
                 Runs(o, now) /\ o.unit = u}
        forced == {o \in up : o.kind = "A54"}
    IN  IF up = {} THEN None ELSE IF forced # {} THEN "forced" ELSE "planned"
get_units_generation(db, zone, now) ==
    LET z == _resolve_zone(zone)
        f == Get(db.units, z, <<>>)
        hours == UNION {DOMAIN f[u] : u \in DOMAIN f}
        start == (DayOfHour(Max(hours)) - UNIT_WINDOW_DAYS) * HoursPerDay
        shown == {u \in DOMAIN f : \E h \in DOMAIN f[u] : h >= start}
        Last(u) == Max(DOMAIN f[u])
        Day(u) == On(f[u], HoursOf(DayOfHour(Last(u))))
        Nominal(u) == _unit_registry_for(db, u)
    IN  IF z \notin A73_ZONES \/ hours = {} THEN Unavailable
        ELSE [available |-> TRUE, zone |-> z,
              units |-> [u \in shown |->
                [current |-> f[u][Last(u)], at |-> Last(u),
                 day_avg |-> MeanOver(Day(u), DOMAIN Day(u)),
                 utilization |-> IF Or0(Nominal(u)) = 0 THEN None
                                 ELSE Ratio(100 * f[u][Last(u)], Nominal(u)),
                 outage |-> OutageOf(db, z, u, now)]],
              readings |-> MapThenSumSet(LAMBDA u : f[u][Last(u)], shown),
              fresh |-> _freshness(DayOfHour(Max(hours)), now, PANEL_MAX_AGE_DAYS.units_generation)]
get_unit_history(db, zone, u, now, hours) ==
    LET z == _resolve_zone(zone)
        f == Get(Get(db.units, z, <<>>), u, <<>>)
    IN  IF f = <<>> THEN Unavailable
        ELSE [available |-> TRUE, zone |-> z, nominal |-> _unit_registry_for(db, u),
              data |-> Since(f, Max(DOMAIN f) - (hours - 1)),
              fresh |-> _freshness(DayOfHour(Max(DOMAIN f)), now, PANEL_MAX_AGE_DAYS.units_generation)]
\* get_hydro: readings by day; the panel is as old as its newest zone.
get_hydro(db, now) ==
    LET f == [z \in {x \in HYDRO_ZONES : Hourly(db, "hydro.reservoir", x) # <<>>} |->
                Hourly(db, "hydro.reservoir", z)]
        Before(z) == {d \in DOMAIN f[z] : d < Max(DOMAIN f[z])}
    IN  IF f = <<>> THEN Unavailable
        ELSE [available |-> TRUE,
              zones |-> [z \in DOMAIN f |->
                [level |-> Latest(f[z]), as_of |-> Max(DOMAIN f[z]), band |-> same_week_band(f[z]),
                 wow |-> IF Before(z) = {} THEN None ELSE Latest(f[z]) - f[z][Max(Before(z))]]],
              fresh |-> _freshness(Max({Max(DOMAIN f[z]) : z \in DOMAIN f}), now, HYDRO_STALE_DAYS)]
get_co2(db, zone, now, hours) ==
    LET z == _resolve_zone(zone)
        From(k) == Since(Hourly(db, k, z), now - hours)
        f == From("co2.intensity.lifecycle")
    IN  IF f = <<>> THEN Unavailable
        ELSE [available |-> TRUE, zone |-> z,
              hourly |-> [h \in DOMAIN f |-> <<f[h], Get(From("co2.intensity.direct"), h, None)>>],
              fresh |-> _freshness(DayOfHour(Max(DOMAIN f)), now, 2)]
=============================================================================
