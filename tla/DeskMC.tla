------------------------------- MODULE DeskMC -------------------------------
(***************************************************************************)
(* The derived figures, the desk, the public API and the radar over small  *)
(* records, and the parsers of DocumentsMC over small documents: a case is *)
(* picked, asked about, and asked about again while time passes.           *)
(***************************************************************************)
EXTENDS TLC, DocumentsMC, PublicApi, Detectors, Questions, Gas

CONSTANTS GridDays, PriceDays,   \* the days of a record
          MaxNow                 \* bound: hours that pass

\* The hour a case is first asked about; the desk's window holds the days of a grid.
Start == 9
ASSUME DeskAssumption ==
    /\ GridDays \subseteq Nat /\ IsFiniteSet(GridDays)
    /\ PriceDays \subseteq Nat /\ IsFiniteSet(PriceDays)
    /\ {"z1", "z2"} \subseteq Zones
    /\ GridDays # {} /\ GridDays \subseteq _window(Start, 4)

MCTail == Ratio(1, 2)
MCHeat == Ratio(2, 1)
MCBorders == {{"z1", "z2"}}

Row(load, wind, gh) ==
    [load |-> load, wind |-> wind, solar |-> 0, lh |-> IF load = None THEN 0 ELSE HoursPerDay,
     gh |-> gh, residual |-> IF load = None THEN None ELSE load - wind]
\* A dark and a bright day, a day whose generation is incomplete, one without load.
GridRow == {Row(20, 1, HoursPerDay), Row(20, 8, HoursPerDay), Row(20, 1, 1), Row(None, 1, HoursPerDay)}
\* Shares that four decimals round down, up, up to the limit of 15% itself, and
\* down above it.
FineRow == {Row(1007, w, HoursPerDay) : w \in {123, 130, 151, 158}}
PriceRow == {[mean |-> 2, neg |-> 0, hourly |-> <<<<0, 8>>, <<0, 12>>, <<1, None>>>>],
             [mean |-> 8, neg |-> 0, hourly |-> None], [mean |-> -1, neg |-> 3, hourly |-> None]}
Partial(D, V) == UNION {[S -> V] : S \in SUBSET D}

Empty == [price |-> [z \in Zones |-> <<>>], energy |-> [z \in Zones \cup {"TTF"} |-> <<>>],
          grid |-> [z \in Zones |-> <<>>], mix |-> [z \in Zones |-> <<>>],
          fc |-> [z \in Zones |-> <<>>], flow |-> <<>>, hours |-> <<>>, outages |-> {},
          installed |-> [z \in Zones |-> <<>>], units |-> <<>>, registry |-> <<>>,
          records |-> [z \in Zones |-> {}], capacity |-> [z \in Zones |-> <<>>],
          ntc |-> <<>>, balancing |-> <<>>, reserve |-> <<>>]
OnZ1(f) == [z \in Zones |-> IF z = "z1" THEN f ELSE <<>>]

\* Outage messages: two of a plant, two reports of one line by its two zones.
Plant(id, rev, end, kind, state) ==
    [mrid |-> id, revision |-> rev, zone |-> "z1", other |-> None, doc |-> "A77", kind |-> kind,
     status |-> state, nominal |-> 4000, available |-> None, start |-> 0, end |-> end, unit |-> "u1"]
Line(id, rev, zone, other, avail, unit) ==
    [mrid |-> id, revision |-> rev, zone |-> zone, other |-> other, doc |-> "A78", kind |-> "A53",
     status |-> "active", nominal |-> None, available |-> avail, start |-> 0, end |-> 12, unit |-> unit]
Plants == {Plant(1, 1, 12, "A54", "active"), Plant(1, 2, 2, "A54", "active"),
           Plant(1, 3, 12, "A54", "withdrawn"), Plant(2, 1, 12, "A53", "active"),
           Plant(2, 2, 12, "A54", "active")}
Lines == {Line(i, 1, "z1", "z2", a, u) : i \in {3, 5}, a \in {None, 50}, u \in {None, "l1"}}
         \cup {Line(4, r, "z2", "z1", a, "l1") : r \in {1, 2}, a \in {None, 50, 20}}
\* A message has one text per revision.
OneText(S) == \A o, p \in S : (o.mrid = p.mrid /\ o.revision = p.revision) => o = p

Case(kind, db, f, g) == [kind |-> kind, db |-> db, f |-> f, g |-> g]
GridDb(g, m) == [Empty EXCEPT !.grid = OnZ1(g), !.mix = OnZ1([d \in GridDays |-> [B04 |-> m]])]
PriceDb(p) == [Empty EXCEPT !.price = OnZ1(p)]
OutageDb(S) == [Empty EXCEPT !.outages = S]
\* Records, and mixes that cover no load and every load.
Grids == [GridDays -> GridRow] \cup [GridDays -> FineRow]
Mixes == {8, 1007}
GridCases == {Case("grid", GridDb(g, m), <<>>, <<>>) : g \in Grids, m \in Mixes}
PriceCases == {Case("price", PriceDb(p), <<>>, <<>>) : p \in Partial(PriceDays, PriceRow)}
HourCases ==
    {Case("hours", Empty, f, g) : f \in Partial(0..3, {-4, 1}), g \in Partial(0..3, {0, 7})}
OutageCases ==
    {Case("outages", OutageDb(S), <<>>, <<>>) :
        S \in {T \in SUBSET (Plants \cup Lines) : Cardinality(T) <= 3 /\ OneText(T)}}
Cases == GridCases \cup PriceCases \cup HourCases \cup OutageCases

\* One full record, for the answers that read several tables.
Sample ==
    LET days == 0..3
        hours == 0..7
    IN  [Empty EXCEPT
          !.price = [z \in Zones |-> [d \in days |-> [mean |-> d + 4, neg |-> d, hourly |-> <<<<0, d>>>>]]],
          !.energy = [s \in Zones \cup {"TTF"} |-> [d \in days |-> IF s = "TTF" THEN 20 ELSE 60 + d]],
          !.grid = [z \in Zones |-> [d \in days |-> Row(20, 2 * d + 1, HoursPerDay)]],
          !.mix = [z \in Zones |-> [d \in days |-> [B04 |-> 70, B19 |-> 20]]],
          !.fc = [z \in Zones |-> [d \in days |-> [load |-> 95, wind |-> 9, solar |-> None, hourly |-> <<1>>]]],
          !.flow = [b \in {<<"z1", "z2">>} |-> [d \in days |-> 10 * d - 15]],
          !.hours = [k \in {"load.actual", "load.forecast", "price.dayahead", "price.dayahead.qh",
                            "imbalance.price", "co2.intensity.lifecycle", "hydro.reservoir"} \X Zones |->
                       [h \in hours |-> CASE k[1] = "load.forecast" -> 90 [] k[1] = "load.actual" -> 100
                                         [] OTHER -> 100 + h]],
          !.ntc = [b \in {<<"z1", "z2">>} |-> [h \in hours |-> 120]],
          !.balancing = [k \in {"afrr"} \X {"price", "vol"} \X {"up", "down"} \X Zones |->
                            [h \in hours |-> h - 2]],
          !.reserve = [p \in {"fcr"} |-> [h \in hours |-> 3]],
          !.outages = Plants \cup {Line(3, 1, "z1", "z2", 50, "l1")},
          !.installed = [z \in Zones |-> [y \in {1, 2} |-> 5000 * y]],
          !.units = [z \in {"z1"} |-> [u \in {"u1"} |-> [h \in hours |-> 10 * h]]],
          !.registry = [u \in {"u1"} |-> [y \in {1} |-> 100]],
          !.records = [z \in Zones |-> {[series |-> "load.actual", kind |-> "max", value |-> 107, ts |-> 7]}],
          !.capacity = [z \in Zones |-> [y \in {1} |-> [B19 |-> 50]]]]
Samples == {Case("sample", Sample, <<>>, <<>>),
            Case("sample", [Sample EXCEPT !.grid = [z \in Zones |-> <<>>], !.price = [z \in Zones |-> <<>>]],
                 <<>>, <<>>)}

\* Records with holes for the question box: a series whose record may end early,
\* another one, and a zone whose record ended in the first year.
AskHours == {0, 7, 12, 24, 36}
AskDb(f, g) ==
    [Empty EXCEPT !.hours =
        [k \in ({"load.actual", "price.negative_hours", "gen.B16", "gen.B18", "price.dayahead", "gen.B19"}
                    \X {"z1"}) \cup {<<"load.actual", "z2">>} |->
            IF k[2] = "z2" THEN [h \in {3} |-> 5]
            ELSE IF k[1] \in {"price.dayahead", "gen.B19"} THEN g ELSE f]]
AskCases ==
    {Case("ask", AskDb(f, g), f, g) :
        f \in {[h \in S |-> h + 1] : S \in SUBSET AskHours},
        g \in {[h \in S |-> 2] : S \in SUBSET {7, 12, 24, 25}}}
AskNow == 40
QuestionsOf ==
    [id : DOMAIN METRIC_BY_ID, from : {None, 0, 1, 2, 3}, to : {None, 1, 2, 3}, zones : {<<"z1">>, <<"z1", "z2">>}]
AnswerTo(c, q) == answer_structured(c.db, q.id, q.zones, q.from, q.to, AskNow)

\* A registry of gas points: at an import point and at an export point two operators
\* under one key and one under another, the interconnector and production.
Report(op, key, phys, dir, adj, kind, data) ==
    [op |-> op, key |-> key, phys |-> phys, dir |-> dir, eu |-> TRUE, adj |-> adj, kind |-> kind, hasData |-> data]
Emden ==
    {Report(1, "k1", "emden", "entry", "supplier", "non_eu", FALSE),
     Report(2, "k1", "emden", "entry", "supplier", "non_eu", TRUE),
     Report(3, "k2", "emden", "entry", "supplier", "non_eu", TRUE)}
Budince ==
    {Report(1, "k5", "budince", "exit", "UA", "non_eu", TRUE),
     Report(2, "k5", "budince", "exit", "UA", "non_eu", TRUE)}
OtherKey == Report(2, "k7", "budince", "exit", "UA", "non_eu", TRUE)
Others ==
    {Report(1, "k3", "groningen", "entry", "EU", "production", TRUE),
     Report(1, "k4", "bacton", "entry", "UK", "non_eu", TRUE),
     Report(1, "k4", "bacton", "exit", "UK", "non_eu", TRUE),
     [Report(4, "k6", "kursk", "entry", "supplier", "non_eu", TRUE) EXCEPT !.eu = FALSE]}
FlowAt == [emden |-> 50, groningen |-> 7, bacton |-> 0, budince |-> 11, kursk |-> 90]
NoGas ==
    [points |-> <<>>, flows |-> <<>>, lng |-> [d \in {0, 1} |-> 13], burn |-> [d \in {1} |-> 5],
     demand |-> [d \in {0, 1} |-> [heat |-> 17, industrial |-> 3, version |-> "nopower"]],
     storage |-> [d \in {0, 1} |-> [injection |-> 19, withdrawal |-> 2]]]
\* Two days are ingested under one registry; it is synced again (in the week's job)
\* and the second day, still in the daily job's window, is ingested once more.
GasOf(former, R, in, out) ==
    LET reported == [k \in (DOMAIN FlowAt) \X {"entry", "exit"} |->
                        IF k[1] # "bacton" THEN FlowAt[k[1]] ELSE IF k[2] = "entry" THEN in ELSE out]
        before == ingest_flows([NoGas EXCEPT !.points = sync_points(@, former)], {0, 1}, reported)
    IN  ingest_flows([before EXCEPT !.points = sync_points(@, R)], {1}, reported)
GasCase(former, R, in, out) ==
    [kind |-> "gas", db |-> Empty, former |-> former, registry |-> R, in |-> in, out |-> out]
GasCases ==
    {GasCase(R, R, i, o) : R \in SUBSET (Emden \cup Budince \cup Others), i \in {0, 4}, o \in {0, 9}}
    \cup {GasCase(Others \cup S, Others \cup T, 4, 9) : S, T \in SUBSET Emden}
    \cup {GasCase(Others \cup S, Others \cup T, 4, 9) : S, T \in SUBSET (Budince \cup {OtherKey})}
\* Eight days of storage movements, for the flags.
FlagCases == {[kind |-> "flags", db |-> Empty, move |-> m] : m \in [0..7 -> {0, 9}]}

VARIABLES asked,     \* the case
          now,       \* the hour
          cached,    \* the overview in the cache: [body, at]
          answer     \* the last answer

deskVars == <<asked, now, cached, answer>>
NoDocument == [kind |-> "none"]
NoCase == Case("none", Empty, <<>>, <<>>)

DeskInit ==
    /\ \/ Init /\ asked = NoCase
       \/ input = NoDocument /\ parsed = None /\ asked \in Cases \cup Samples
       \/ input = NoDocument /\ parsed = None /\ asked \in AskCases
       \/ input = NoDocument /\ parsed = None /\ asked \in GasCases
       \/ input = NoDocument /\ parsed = None /\ asked \in FlagCases
    /\ now = Start /\ cached = None /\ answer = None

ParseDocument == input # NoDocument /\ Parse /\ UNCHANGED deskVars

Modelled(gas) ==
    compute_demand(gas, [k \in (0..5) \X {"a", "b"} |-> k[1] % 4],
                   [x \in {"a", "b"} |-> IF x = "a" THEN [m \in {0, 1} |-> 1 + m] ELSE <<>>])
GasAnswers(gas, model, table) ==
    <<model.demand, get_supply(gas, 3, 9), get_storage(gas, 3, 9), get_lng(gas, 3, 9),
      get_power_burn(gas, 3, 9), get_demand(model, 3, 9), get_balance(table, 3, 9),
      validate(gas, [w \in {0} |-> 140]),
      get_storage_countries([d \in {0, 1} |-> [x \in {"a"} |-> 40]], "a", 3, 9)>>
Answers(c) ==
    CASE c.kind = "grid" ->
            <<get_grid(c.db, "z1", now, 4), load_power_situation(c.db, "z1", now),
              build_power_overview(c.db, now), detect_dunkelflaute(c.db),
              evaluate_dunkelflaute(c.db, "z1", None)>>
      [] c.kind = "price" ->
            <<get_day_ahead(c.db, "z1", now, 4), get_day_ahead_hourly(c.db, "z1", None, "hourly"),
              detect_negative_prices(c.db), detect_price_spikes(c.db),
              evaluate_negative_prices(c.db, "z1"), evaluate_dayahead_spike(c.db, "z1", "above", 5),
              [k \in {"negative_prices", "price_spike"} |->
                 zone_episodes({[status |-> Status(r, Today(now)), start |-> r.start, end |-> r.end,
                                 days |-> r.days] : r \in _runs_for_kind(<<>>, c.db.price["z1"], <<>>, k)},
                               Cardinality(DOMAIN c.db.price["z1"]))],
              store_negative_hours(c.db.price["z1"], 1)>>
      [] c.kind = "hours" ->
            <<capture_metrics(c.f, c.g), compute_capture(c.f, [s \in {"B19"} |-> c.g], 4, 2),
              compute_records(c.f, "price.dayahead"), [n \in TB_WINDOWS |-> store_tb_spreads(c.f, n)],
              store_da_imbalance_spread(c.f, c.g),
              compute_borders([z \in {"z1", "z2"} |-> IF z = "z1" THEN c.f ELSE c.g],
                              [b \in {<<"z1", "z2">>} |-> c.f], [b \in {<<"z1", "z2">>} |-> c.g],
                              [b \in {<<"z1", "z2">>} |-> c.g], 0, 0, Zones),
              compute_spread([z \in {"z1", "z2"} |-> IF z = "z1" THEN c.f ELSE c.g],
                             [b \in {<<"z1", "z2">>} |-> c.f], <<>>, <<"z1", "z2">>, 0, 0),
              detect_interconnector_saturation([b \in {<<"z1", "z2">>} |-> c.f],
                  [b \in {<<"z1", "z2">>, <<"z2", "z1">>} |-> c.g], now),
              scoreboard_profile(c.f, c.g, now, 4), compute_products(c.f, now, 2),
              compute_live(c.f, c.g, [p \in {"B19"} |-> c.g], [b \in {<<"z1", "z2">>} |-> c.g], "z1", 3),
              compute_duration(c.f, now, 5), QualityOf(c.g, TRUE, 1), QualityOf(c.g, FALSE, 1),
              rule_step_jump(c.g, 1, 1, 2), rule_gen_below_load_exports(70, 80, 5, TRUE),
              Co2Of([p \in {"B19"} |-> c.g], [p \in {"B19"} |-> 3], {}),
              _to_daily(c.f)>>
      [] c.kind = "outages" ->
            <<get_outages(c.db.outages, "z1", now, 30), snapshot_outages(c.db.outages, "z1", now),
              detect_forced_outages(c.db, now), evaluate_forced_outage(c.db, "z1", now)>>
      [] c.kind = "ask" ->
            <<{q \in QuestionsOf : AnswerTo(c, q).available},
              {answer_query(c.db, [phrases |-> p, places |-> z, years |-> y, since |-> TRUE], AskNow) :
                  p \in {{}, {[length |-> 4, metric |-> "load"], [length |-> 3, metric |-> "mix"]}},
                  z \in {<<>>, <<<<"z1", "z2">>, <<"z1">>>>}, y \in {{}, {1}, {1, 2}}},
              filter_options(AskNow)>>
      [] c.kind = "gas" ->
            LET gas == GasOf(c.former, c.registry, c.in, c.out)
            IN  GasAnswers(gas, Modelled(gas), persist(<<>>, compute_balance(gas)))
      [] c.kind = "flags" ->
            LET gas == [NoGas EXCEPT
                          !.lng = [d \in 0..7 |-> 13 + (d % 2)],
                          !.demand = [d \in 0..7 |-> [heat |-> 1, industrial |-> 1, version |-> "power"]],
                          !.storage = [d \in 0..7 |-> [injection |-> c.move[d], withdrawal |-> None]]]
            IN  [i \in 1..8 |-> compute_balance(gas)[i].flag]
      [] c.kind = "sample" -> None

Ask ==
    /\ asked.kind \notin {"none", "sample"} /\ answer = None
    /\ answer' = Answers(asked)
    /\ UNCHANGED <<asked, now, cached, input, parsed>>

\* The desk and the API on the full record.
SampleAnswers(db) ==
    LET Load(z) == Hourly(db, "load.actual", z)
        Fc(z) == Hourly(db, "load.forecast", z)
        scores == [k \in {"z1"} \X {"load", "wind"} |-> ScoresOf(Fc("z1"), Load("z1"), 0..3)]
        quality == [k \in {<<"z1", "load.actual">>} |->
                      [d \in 0..3 |-> [present |-> IF d = 3 THEN 0 ELSE 2, expected |-> 2, flags |-> {}]]]
        ledger == <<[zone |-> "z1", series |-> "load.actual", ts |-> 1, old |-> 100, new |-> 500, at |-> 6],
                    [zone |-> "z1", series |-> "load.actual", ts |-> 1, old |-> 500, new |-> 100, at |-> 8]>>
        arrivals == {[zone |-> "z1", series |-> "load.actual", at |-> 8, max_ts |-> 7]}
        ep == [z \in Zones |-> zone_episodes({[status |-> "active", start |-> 1, end |-> 3, days |-> 3]}, 9)]
    IN  <<load_power_situations_bulk(db, now), get_spark_spread(db, "z1", now, 9, Heat),
          get_load_forecast(db, "z1", now, 9), get_load_forecast_hourly(db, "z9", None),
          get_generation_mix(db, "z1", now, 9), get_day_ahead_hourly(db, "z1", None, "qh"),
          get_flows(db, now, 9), get_forecast_error(db, "z1", now, 9, "load.forecast", {"load.actual"}),
          get_flows_hourly(db, [b \in {<<"z1", "z2">>} |-> Load("z1")], "z1", now, 9),
          get_imbalance(db, "z1", now, 9, "imbalance.price"), get_balancing(db, "z1", now, 9, "afrr"),
          get_capacity_prices(db, "z1", now, 9), get_records(db, "z1", now),
          get_units_generation(db, "z1", now), get_unit_history(db, "z1", "u1", now, 3),
          get_hydro(db, now), get_co2(db, "z1", now, 9),
          get_convergence(compute_convergence(store_convergence(Load("z1"), Fc("z1"))), 3, now),
          get_live(compute_live(Load("z1"), Fc("z1"), <<>>, <<>>, "z1", now), now),
          compute_drivers(db.grid["z1"], db.price["z1"], db.flow, db.outages, 5000, "z1", 4, now, 9),
          get_marginal(compute_marginal([h \in 0..7 |-> 50], [p \in {"B04"} |-> Load("z1")],
                                        [p \in {"B04"} |-> "gas"], now, 9), now),
          market_net_position(Load("z1"), 3), clean_spark(Int1(50), Heat, 80),
          [pro \in BOOLEAN |->
            <<series(db, pro, "imbalance.price", "z1", None, None, now, "daily", "json"),
              snapshot(db, pro, "load.actual", 0, 6), catalog(db, pro, _coverage_by_series(db))>>],
          genmix(db, "z1", 0, 3, TRUE), capacity(db, "z1", None), _coverage_window(db), sitemap_data(db),
          get_production_units([z \in {"z1"} |-> [y \in {1} |-> [u \in {"u1"} |-> 9]]], "z1"),
          status([k \in {"a", "b"} |-> k = "a"]),
          scoreboard_summary(scores, "z1", now), scoreboard_monthly(scores, "z1", "load", now),
          _ranking_payload(scores, db.capacity, {"B19"}, "wind", now, 30),
          quality_summary(_summary_payload(quality, ledger, arrivals, now), 3, now),
          quality_series(quality, arrivals, "load.actual", "z1", now, 30),
          quality_revisions(ledger, arrivals, {}, "load.actual", "z1", now, 30, TRUE),
          detect_completeness_drops(quality, 4), detect_major_restatements(ledger, now),
          detect_imbalance_extremes(db, now), detect_hydro_deviations(db),
          detect_record_breaks(db, now), detect_episode_rank(ep),
          published_unit_capacity_mw([y \in {1} |-> [u \in {"u1"} |-> 9]])>>
AskSample ==
    /\ asked.kind = "sample" /\ answer = None
    /\ answer' = SampleAnswers(asked.db)
    /\ UNCHANGED <<asked, now, cached, input, parsed>>

\* The gas, oil and news detectors, on what they read, and the emitted set.
OtherAnswers ==
    LET f == [d \in 0..3 |-> IF d = 3 THEN 9 ELSE d]
        events == {[zone |-> "s", first |-> 3, last |-> 3, active |-> TRUE]}
        found == UNION {detect_gas_balance([d \in {1} |-> "WATCH"]),
                        detect_days_of_supply([d \in {1, 2} |-> IF d = 2 THEN "TIGHT" ELSE "OK"]),
                        detect_supply_demand_divergence([d \in {1} |-> "DIVERGENCE"]),
                        detect_freight_divergence([d \in {1, 2} |-> d]),
                        detect_floating_storage(events), detect_sentiment_risk(f)}
    IN  <<Emitted(found, Today(now)), evaluate_gas_balance([d \in {1} |-> "WATCH"]),
          evaluate_floating_storage_surge(events, "*", 1, 2),
          evaluate_spark_spread_breach(f, "above", 8),
          evaluate_crack_spread_breach(f, "below", 8),
          evaluate_chokepoint_anomaly([d \in 0..6 |-> d], 6, 20, "either"),
          check_flow_anomaly([i \in 1..20 |-> IF i = 1 THEN 50 ELSE i % 3], 15),
          check_cushing_drawdown([d \in {1, 2} |-> -4000 * d]),
          validate_params([k \in {"zone"} |-> [required |-> TRUE, options |-> Zones]],
                          [k \in {"zone"} |-> "z1"])>>
AskOther ==
    /\ asked.kind = "sample" /\ answer = None
    /\ answer' = OtherAnswers
    /\ UNCHANGED <<asked, now, cached, input, parsed>>

\* The overview of the marginal technology is computed and kept ...
Overview(at) ==
    compute_marginal_overview([z \in Zones |->
        compute_marginal([h \in 0..8 |-> 50], [p \in {"B04"} |-> [h \in 0..8 |-> 300]],
                         [p \in {"B04"} |-> "gas"], at, 8)])
CacheOverview ==
    /\ asked.kind = "sample" /\ cached = None
    /\ cached' = [body |-> Overview(now), at |-> now]
    /\ UNCHANGED <<asked, now, answer, input, parsed>>
\* ... and served from the cache.
ServeOverview ==
    /\ cached # None
    /\ answer' = get_marginal_overview(cached, now)
    /\ UNCHANGED <<asked, now, cached, input, parsed>>
Pass ==
    /\ asked.kind = "sample" /\ now < MaxNow
    /\ now' = now + 1
    /\ answer' = None
    /\ UNCHANGED <<asked, cached, input, parsed>>

DeskNext ==
    \/ ParseDocument \/ Ask \/ AskSample \/ AskOther
    \/ CacheOverview \/ ServeOverview \/ Pass
DeskSpec == DeskInit /\ [][DeskNext]_<<input, parsed, deskVars>>

-----------------------------------------------------------------------------
\* The runs of a set of days: joined over holes of one day, none longer.
RunsOf(G) ==
    {R \in SUBSET G : /\ R # {} /\ R = G \cap Min(R)..Max(R)
                      /\ \A x \in Min(R)..(Max(R) - 1) : {x, x + 1} \cap R # {}
                      /\ G \cap {Min(R) - 2, Min(R) - 1, Max(R) + 1, Max(R) + 2} = {}}
Spans(G) == {<<Min(R), Max(R)>> : R \in {Q \in RunsOf(G) :
                /\ Max(Q) > Min(Q) /\ 10 * Cardinality(Q) >= 8 * (Max(Q) - Min(Q) + 1)}}
SpansOf(runs) == {<<r.start, r.end>> : r \in runs}

\* The scan of episodes.group_runs, which carries the open run and its holes
\* from day to day, finds the maximal runs of qualifying days with holes of at
\* most one day, of two days and four fifths populated: none is lost at the end
\* of the record, merged with its neighbour or reported with its holes at the
\* edge. For dunkelflaute the qualifying days are those of the calibrated
\* predicate with a covered mix, for prices those with three negative hours.
EpisodesMatch ==
    /\ asked.kind = "grid" =>
        LET grid == asked.db.grid["z1"]
            dark == {d \in reliable_days(grid, asked.db.mix["z1"], GridDays) :
                       is_dunkelflaute(Share(grid[d]), zone_thresholds(grid, MonthOfYear(d)))}
        IN  SpansOf(_runs_for_kind(grid, <<>>, asked.db.mix["z1"], "dunkelflaute")) = Spans(dark)
    /\ asked.kind = "price" =>
        LET price == asked.db.price["z1"]
        IN  SpansOf(_runs_for_kind(<<>>, price, <<>>, "negative_prices"))
                = Spans({d \in DOMAIN price : price[d].neg >= NEGATIVE_HOURS_MIN})

\* On the newest day with all its hours the radar and the desk say the same of a
\* zone (dunkelflaute.flag_days), and the desk claims no day the radar has to wait
\* for. The desk compares the share it shows, of four decimals, and the radar the
\* share itself: they part only on a day whose share is rounded over the zone's
\* tail or over 15%, one at most half of a ten-thousandth away.
RadarMatchesDesk ==
    asked.kind = "grid" =>
        LET grid == asked.db.grid["z1"]
            desk == get_grid(asked.db, "z1", now, 4).dunkelflaute
            radar == detect_dunkelflaute(asked.db)
            day == ClaimableDay(grid)
        IN  /\ \A r \in radar : r.as_of = day
            /\ \A d \in desk : day # None /\ d <= day
            /\ (radar # {}) # (day # None /\ day \in desk) =>
                   \E limit \in {zone_thresholds(grid, MonthOfYear(day)).tail_share, ABSOLUTE_THRESHOLD} :
                       RoundedOver(grid[day], limit)

\* "This is the one door to the predicate" (dunkelflaute.py:200): then there would be
\* no such day. The tail day itself is one, when rounding lowers its share (no run
\* checks it).
OneDoor ==
    asked.kind = "grid" =>
        LET day == ClaimableDay(asked.db.grid["z1"])
        IN  (detect_dunkelflaute(asked.db) # {})
                = (day # None /\ day \in get_grid(asked.db, "z1", now, 4).dunkelflaute)

\* The situation of a zone read alone and read with all the others is the same:
\* load_power_situation asks per zone, load_power_situations_bulk ranks the
\* revisions of every zone and document in one query and applies the guards to
\* the newest row alone.
SituationsAgree ==
    asked.kind # "none" =>
        load_power_situations_bulk(asked.db, now)
            = [z \in Zones |-> load_power_situation(asked.db, z, now)]

SameFigures(a, b) ==
    /\ a.hours = b.hours /\ a.days = b.days /\ a.negative_hours = b.negative_hours
    /\ \A k \in {"capture_price", "capture_price_floor0", "negative_gen"} : Same(a[k], b[k])
\* The capture figures are computed twice, by capture_metrics over dicts and by
\* _FUEL_SQL in the database: month by month they are the same, a month without
\* generation is missing from both, and the floored price is never the lower.
CaptureAgrees ==
    asked.kind = "hours" =>
        LET sql == _aggregate(asked.f, asked.g, 0)
            Of(x, m) == [h \in {k \in DOMAIN x : MonthOf(DayOfHour(k)) = m} |-> x[h]]
        IN  \A m \in {0, 1} :
                LET dicts == capture_metrics(Of(asked.f, m), Of(asked.g, m))
                IN  /\ (dicts = None) = (m \notin DOMAIN sql)
                    /\ dicts # None => /\ SameFigures(dicts, sql[m])
                                       /\ AtMost(dicts.capture_price, dicts.capture_price_floor0)

\* What is kept per day and put together over a window is what all the hours of
\* the window give: the convergence bands and their mean spread
\* (store_convergence, compute_convergence), the errors of a forecast (score_hours,
\* scoreboard._aggregate), whatever the number of hours a day has.
DaysPoolToHours ==
    asked.kind = "hours" =>
        LET f == asked.f
            g == asked.g
            both == DOMAIN f \cap DOMAIN g
            gap == [h \in both |-> Abs(f[h] - g[h])]
            bands == compute_convergence(store_convergence(f, g))
            window == aggregate_scores(ScoresOf(f, g, 0..3))
            pooled == score_hours(f, g, both)
        IN  /\ (both = {}) = (bands = None) /\ (both = {}) = (window = None)
            /\ both # {} =>
                /\ bands.hours = Cardinality(both)
                /\ bands.full = Cardinality({h \in both : gap[h] <= 1})
                /\ bands.moderate = Cardinality({h \in both : 1 < gap[h] /\ gap[h] <= 10})
                /\ Same(bands.mean_abs_spread, MeanOver(gap, both))
                /\ window.n_hours = pooled.n_hours
                /\ \A k \in {"mae", "bias", "mse"} : Same(window[k], pooled[k])

\* A column of a yearly answer shows or names every year asked for, and not both.
YearsShownOrNamed(q, a) ==
    LET Named(z) == UNION {n.years : n \in {m \in a.coverage : m.zone = z /\ m.kind # "partial"}}
        Asked(first) == (IF q.from = None THEN first ELSE q.from)..a.interpreted.to
        NoneMissing(shown, all) == shown # {} => Asked(Min(all)) \subseteq all
        Covered(z, shown) == NoneMissing(shown, shown \cup Named(z)) /\ shown \cap Named(z) = {}
    IN  (a.available /\ a.interpreted.grain = "yearly") =>
            IF q.id = "mix" THEN Covered(a.interpreted.zones[1], a.periods)
            ELSE \A z \in DOMAIN a.columns : Covered(z, DOMAIN a.columns[z])
\* "Years asked for but not on record are named, never silently trimmed" (ask.py):
\* of a column of a yearly answer every year of the window is shown or named in a
\* note, before the record, inside it and up to its end, for one series, for two
\* technologies, for the capture factor whose short years are dropped, and for the
\* mix, and no year that is shown is named missing.
GapsNamed ==
    asked.kind = "ask" => \A q \in QuestionsOf : YearsShownOrNamed(q, AnswerTo(asked, q))

\* What a day's balance holds of the gas of a registry, with n export rows.
Holds(row, R, n, uk_in, uk_out, burn) ==
    LET At(phys, dir) == \E r \in R : r.phys = phys /\ r.dir = dir
        Flow(phys, dir, v) == IF At(phys, dir) THEN v ELSE 0
        uk == Flow("bacton", "entry", uk_in) - Flow("bacton", "exit", uk_out)
    IN  /\ row.supply = Flow("emden", "entry", 50) + Flow("groningen", "entry", 7) + 13 + Max({0, uk})
        /\ row.exports = 11 * n + Max({0, -uk})
        /\ row.residual = 17 - (row.supply - 20 - burn - row.exports)
\* One of the operators' reports of a flow counts (entsog.py:84, validation.py:40):
\* on a day ingested under the registry on record an import place counts once under
\* however many keys, the interconnector by its net, as supply or as export, and
\* an export once for each key. It does so when the registry has changed since and
\* both operators have rows of the day, but for an export whose operator left the
\* registry: its row stays active and counts besides. Of a day before the change
\* nothing counts twice; it may not count at all.
OneReportCounts ==
    asked.kind = "gas" =>
        LET rows == compute_balance(GasOf(asked.former, asked.registry, asked.in, asked.out))
            KeysOf(S) == {r.key : r \in {x \in S : x.phys = "budince"}}
            n == Cardinality(KeysOf(asked.registry))
            gone == Cardinality({r \in asked.former \ asked.registry : r.phys = "budince"})
            all == asked.former \cup asked.registry
        IN  /\ DOMAIN rows = {1, 2}
            /\ \E x \in n..(n + gone) : Holds(rows[2].row, all, x, asked.in, asked.out, 5)
            /\ \E x \in 0..Cardinality(KeysOf(asked.former)), R \in {all, all \ Emden} :
                    Holds(rows[1].row, R, x, asked.in, asked.out, 0)
            /\ asked.former = asked.registry =>
                   Holds(rows[1].row, asked.registry, n, asked.in, asked.out, 0)

\* "Keep exactly one operator per (pointKey, direction) ... Only the keeper stays
\* active" (entsog.py:84): not after its predecessor left the registry (no run
\* checks it).
OnlyTheKeeper ==
    asked.kind = "gas" =>
        LET points == GasOf(asked.former, asked.registry, asked.in, asked.out).points
            active == {p \in DOMAIN points : points[p].active}
        IN  \A p, q \in active : p[2] = q[2] /\ p[3] = q[3] => p = q

Orders(S) == {s \in [1..Cardinality(S) -> S] : \A x \in S : \E i \in DOMAIN s : s[i] = x}
\* The map of line outages does not depend on the order the ranked query returns
\* the rows in ("row order from the ranked query is not guaranteed"), and every
\* zone that reported a line is named with it.
MergeOrderFree ==
    asked.kind = "outages" =>
        LET rows == latest_outage_revisions(asked.db.outages, None, now, "A78")
            merged == {get_transmission_outages_europe(s, now, 30) : s \in Orders(rows)}
        IN  /\ Cardinality(merged) = 1
            /\ \A events \in merged : \A o \in rows : Shown(o, now, 30) =>
                   \E e \in events : o.zone \in e.by /\ MergeKey(o) = MergeKey(e.event)

\* What is read twice is read the same: the situation of a zone alone and among
\* all zones, the lines of the map in any order of the rows.
ReadingsAgree == SituationsAgree /\ MergeOrderFree
=============================================================================
