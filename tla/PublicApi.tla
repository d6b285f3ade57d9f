----------------------------- MODULE PublicApi -----------------------------
(***************************************************************************)
(* The public API (backend/routes/api_v1.py), the forecast scoreboard      *)
(* (routes/scoreboard.py) and the data-quality pages (routes/quality.py).  *)
(*                                                                         *)
(* Besides Desk's database: capacity[z]: year -> psr -> MW; scores: <<zone, *)
(* series>> -> day -> [n_hours, mae, mse, bias, mape, persistence,         *)
(* seasonal]; quality: <<zone, series>> -> day -> [present, expected,      *)
(* flags]; ledger: the revisions [zone, series, ts, old, new, at] in the   *)
(* order they were written; arrivals: set of [zone, series, at, max_ts].   *)
(***************************************************************************)
EXTENDS Panels

CONSTANTS Premium,               \* the series only a subscriber may read
          MAX_SCAN_ROWS, MAX_JSON_POINTS, MAX_REVISION_ROWS,
          DEFAULT_WINDOW_DAYS,   \* 30
          SnapshotHours,         \* 744
          SUMMARY_WINDOW_DAYS,   \* the windows of the scoreboard
          SUMMARY_SHORT_DAYS, SUMMARY_LONG_DAYS,    \* 30, 90
          MATURITY,              \* REVISION_MATURITY_S, in hours
          ARRIVAL_STALE_DAYS, SCOREBOARD_MAX_AGE, QUALITY_MAX_AGE

is_premium_series(s) == s \in Premium
Refused(status) == [available |-> FALSE, status |-> status]
freshness_meta(as_of, now, max) == _freshness(as_of, now, max)

-----------------------------------------------------------------------------
(* Series *)

_to_daily(f) ==
    LET Of(d) == {h \in DOMAIN f : DayOfHour(h) = d}
    IN  [d \in {DayOfHour(h) : h \in DOMAIN f} |->
            [value |-> MeanOver(f, Of(d)), hours |-> Cardinality(Of(d))]]
\* series: the default window ends with the record, so published hours of
\* tomorrow are in it; the cap on a scan and the cap on a JSON answer refuse.
series(db, pro, key, zone, start, end, now, resolution, format) ==
    LET from == IF start # None THEN start
                ELSE (IF end = None THEN now ELSE end) - DEFAULT_WINDOW_DAYS * HoursPerDay
        f == Hourly(db, key, zone)
        points == On(f, {h \in DOMAIN f : from <= h /\ (end = None \/ h < end)})
        rows == IF resolution = "daily" THEN _to_daily(points) ELSE points
        n == Cardinality(DOMAIN rows)
    IN  IF is_premium_series(key) /\ ~pro THEN Refused(403)
        ELSE IF end # None /\ from >= end THEN Refused(400)
        ELSE IF Cardinality(DOMAIN points) > MAX_SCAN_ROWS THEN Unavailable
        ELSE IF format = "json" /\ n > MAX_JSON_POINTS THEN Unavailable
        ELSE [available |-> rows # <<>> \/ format # "json", data |-> rows, metered |-> n,
              to |-> IF end # None THEN end ELSE IF rows = <<>> THEN None ELSE Max(DOMAIN rows)]
snapshot(db, pro, key, start, end) ==
    LET col == [z \in {x \in Zones : Hourly(db, key, x) # <<>>} |->
                  On(Hourly(db, key, z), start..(end - 1))]
        with == {z \in DOMAIN col : col[z] # <<>>}
    IN  IF is_premium_series(key) /\ ~pro THEN Refused(403)
        ELSE IF end - start > SnapshotHours \/ with = {} THEN Unavailable
        ELSE [available |-> TRUE, timestamps |-> UNION {DOMAIN col[z] : z \in with},
              zones |-> [z \in with |-> col[z]],
              metered |-> MapThenSumSet(LAMBDA z : Cardinality(DOMAIN col[z]), with)]
genmix(db, zone, start, end, monthly) ==
    LET f == On(db.mix[_resolve_zone(zone)], start..end)
        Bucket(d) == IF monthly THEN MonthOf(d) ELSE d
        Of(b, p) == {d \in DOMAIN f : Bucket(d) = b /\ p \in DOMAIN f[d]}
        types == UNION {DOMAIN f[d] : d \in DOMAIN f}
    IN  IF f = <<>> THEN Unavailable
        ELSE [available |-> TRUE, fuels |-> types,
              data |-> [b \in {Bucket(d) : d \in DOMAIN f} |->
                  [p \in {q \in types : Of(b, q) # {}} |->
                      Ratio(MapThenSumSet(LAMBDA d : f[d][p], Of(b, p)), Cardinality(Of(b, p)))]]]
capacity(db, zone, year) ==
    LET f == db.capacity[_resolve_zone(zone)]
        y == IF year = None /\ f # <<>> THEN Max(DOMAIN f) ELSE year
    IN  IF y = None \/ y \notin DOMAIN f THEN Unavailable
        ELSE [available |-> TRUE, year |-> y, total_mw |-> SumOver(f[y], DOMAIN f[y]), data |-> f[y]]
\* units: zone -> year -> unit -> nominal
get_production_units(units, zone) ==
    LET f == Get(units, zone, <<>>)
    IN  IF f = <<>> THEN Unavailable
        ELSE [available |-> TRUE, year |-> Max(DOMAIN f), units |-> Latest(f),
              published |-> MapThenSumSet(LAMBDA u : Or0(Latest(f)[u]), DOMAIN Latest(f))]
_coverage_window(db) ==
    LET hours == UNION {DOMAIN db.hours[k] : k \in DOMAIN db.hours}
    IN  IF hours = {} THEN [from |-> None, to |-> None] ELSE [from |-> Min(hours), to |-> Max(hours)]
_coverage_by_series(db) ==
    {[series |-> k[1], zone |-> k[2], from |-> Min(DOMAIN db.hours[k]), to |-> Max(DOMAIN db.hours[k])] :
        k \in {x \in DOMAIN db.hours : db.hours[x] # <<>>}}
\* catalog: the coverage may come from a cache, the filter does not.
catalog(db, pro, cached) ==
    LET keys == {k \in {x[1] : x \in DOMAIN db.hours} : pro \/ ~is_premium_series(k)}
    IN  [available |-> keys # {}, series |-> keys,
         coverage_by_series |-> {r \in cached : pro \/ ~is_premium_series(r.series)}]
sitemap_data(db) == {k \in {x[1] : x \in DOMAIN db.hours} : ~is_premium_series(k)}
\* status: the sources of the desk, healthy when all of them are fresh.
status(fresh) ==
    [healthy |-> DOMAIN fresh # {} /\ \A k \in DOMAIN fresh : fresh[k],
     fresh_count |-> Cardinality({k \in DOMAIN fresh : fresh[k]})]

-----------------------------------------------------------------------------
(* Scoreboard *)

\* A variant that averages the days instead of the hours.
aggregate_by_day(rows) ==
    LET S == {d \in DOMAIN rows : rows[d] # None}
        Over(f) == LET s == RatioSum([d \in S |-> rows[d][f]], S) IN Ratio(s.sum, s.n * Cardinality(S))
    IN  IF S = {} THEN None
        ELSE [days |-> Cardinality(S), n_hours |-> MapThenSumSet(LAMBDA d : rows[d].n_hours, S),
              mae |-> Over("mae"), bias |-> Over("bias"), mse |-> Over("mse"),
              mape |-> None, skill_persistence |-> None, skill_seasonal |-> None]
\* Over the days T of a scoreboard: their hours, a figure weighted by them, and
\* the days that have the figure.
ScoredHours(rows, T) == SumOver([d \in T |-> rows[d].n_hours], T)
ScoredSum(rows, f, T) ==
    RatioSum([d \in T |-> Ratio(rows[d][f].sum * rows[d].n_hours, rows[d][f].n)], T)
ScoredWith(rows, f) == {d \in DOMAIN rows : rows[d] # None /\ rows[d][f] # None}
\* The mean of a figure, and the skill against a baseline.
ScoredMean(rows, f) ==
    LET T == ScoredWith(rows, f)
        s == ScoredSum(rows, f, T)
    IN  IF T = {} THEN None ELSE Ratio(s.sum, s.n * ScoredHours(rows, T))
ScoredSkill(rows, f) ==
    LET base == ScoredSum(rows, f, ScoredWith(rows, f))
        mine == ScoredSum(rows, "mae", ScoredWith(rows, f))
    IN  IF base.sum <= 0 THEN None
        ELSE Minus(Int1(1), Ratio(mine.sum * base.n, mine.n * base.sum))
\* The figures of a window, and that the absent value is none of them.
WindowFigures ==
    [days : Nat, n_hours : Int, mae : Ratios \cup {None}, bias : Ratios \cup {None},
     mse : Ratios \cup {None}, mape : Ratios \cup {None},
     skill_persistence : Ratios \cup {None}, skill_seasonal : Ratios \cup {None}]
ASSUME WindowAssumption == None \notin WindowFigures
\* _aggregate of scoreboard.py: days weighted by their hours; a day without a
\* figure drops out of that figure only.
aggregate_scores(rows) ==
    LET S == {d \in DOMAIN rows : rows[d] # None}
    IN  IF S = {} THEN None
        ELSE [days |-> Cardinality(S), n_hours |-> ScoredHours(rows, S),
              mae |-> ScoredMean(rows, "mae"), bias |-> ScoredMean(rows, "bias"),
              mse |-> ScoredMean(rows, "mse"), mape |-> ScoredMean(rows, "mape"),
              skill_persistence |-> ScoredSkill(rows, "persistence"),
              skill_seasonal |-> ScoredSkill(rows, "seasonal")]
scoreboard_summary(scores, zone, now) ==
    LET mine == {k \in DOMAIN scores : k[1] = zone /\ scores[k] # <<>>}
        Window(k, w) == On(scores[k], {d \in DOMAIN scores[k] : d >= Today(now) - w})
        longest == Max(SUMMARY_WINDOW_DAYS)
        shown == {k \in mine : Window(k, longest) # <<>>}
    IN  IF zone \notin Zones THEN Refused(400)
        ELSE [available |-> shown # {},
              series |-> [s \in {k[2] : k \in shown} |->
                  [w \in SUMMARY_WINDOW_DAYS |-> aggregate_scores(Window(<<zone, s>>, w))]],
              fresh |-> freshness_meta(IF mine = {} THEN None
                            ELSE Max(UNION {DOMAIN scores[k] : k \in mine}), now, SCOREBOARD_MAX_AGE)]
\* _latest_capacity: each zone and technology at its own newest year.
_latest_capacity(f, labels) ==
    LET With(p) == {y \in DOMAIN f : p \in DOMAIN f[y]}
    IN  MapThenSumSet(LAMBDA p : IF With(p) = {} THEN 0 ELSE f[Max(With(p))][p], labels)
\* The zones with a figure, each with those that do better.
Ranking(figures) ==
    LET entries == {z \in Zones : figures[z].shown}
        ranked == {z \in entries : figures[z].metric # None}
    IN  [available |-> entries # {}, unranked |-> entries \ ranked,
         better |-> [z \in ranked |-> {y \in ranked : Below(figures[y].metric, figures[z].metric)}]]
\* _ranking_payload: load by MAPE, wind and solar by the error per installed MW,
\* residual by the error; a zone without the metric is shown unranked.
_ranking_payload(scores, caps, labels, name, now, window) ==
    LET Recent(f) == On(f, {d \in DOMAIN f : d >= Today(now) - window})
        Metric(agg, cap) == CASE name = "load" -> agg.mape
                              [] name \in {"wind", "solar"} ->
                                   IF cap > 0 THEN Ratio(agg.mae.sum, agg.mae.n * cap) ELSE None
                              [] name = "residual" -> agg.mae
        Figure(z, agg) == IF agg = None THEN [shown |-> FALSE, metric |-> None]
                          ELSE [shown |-> TRUE, metric |-> Metric(agg, _latest_capacity(caps[z], labels))]
    IN  Ranking([z \in Zones |-> Figure(z, aggregate_scores(Recent(Get(scores, <<z, name>>, <<>>))))])
scoreboard_monthly(scores, zone, name, now) ==
    LET f == Get(scores, <<zone, name>>, <<>>)
        agg == [m \in {MonthOf(d) : d \in DOMAIN f} |->
                  aggregate_scores(On(f, {d \in DOMAIN f : MonthOf(d) = m}))]
        data == {m \in DOMAIN agg : agg[m] # None}
    IN  IF zone \notin Zones THEN Refused(400)
        ELSE [available |-> data # {}, data |-> On(agg, data),
              fresh |-> freshness_meta(IF f = <<>> THEN None ELSE Max(DOMAIN f), now, SCOREBOARD_MAX_AGE)]
scoreboard_profile(forecast, actual, now, window) ==
    LET W == (now - window * HoursPerDay)..(now - 1)
        both == DOMAIN forecast \cap DOMAIN actual \cap W
    IN  [available |-> both # {},
         hours |-> [k \in 0..(HoursPerDay - 1) |->
             score_hours(forecast, actual, {h \in both : h % HoursPerDay = k})]]

-----------------------------------------------------------------------------
(* Quality *)

_delta_pct(old, new) == IF old = 0 THEN None ELSE Ratio(100 * (new - old), Abs(old))
_pctl(f, S, q) == IF S = {} THEN None ELSE Round(_quantile(f, S, q), 1)
\* _latest_frontier_lags: the newest hour a pair ever received, and how late its
\* first batch was.
_latest_frontier_lags(arrivals, zone, key) ==
    LET mine == {a \in arrivals : a.zone = zone /\ a.series = key /\ a.max_ts # None}
        top == Max({a.max_ts : a \in mine})
    IN  IF mine = {} THEN None
        ELSE Min({a.at : a \in {x \in mine : x.max_ts = top}}) - top
_summary_payload(quality, ledger, arrivals, now) ==
    LET Days(k, w) == {d \in DOMAIN quality[k] : d >= Today(now) - w}
        Known(k, w) == {d \in Days(k, w) : quality[k][d].expected > 0}
        Mean(k, w) ==
            IF Known(k, w) = {} THEN None
            ELSE LET s == RatioSum([d \in Known(k, w) |-> Ratio(quality[k][d].present, quality[k][d].expected)],
                                   Known(k, w))
                 IN  Ratio(s.sum, s.n * Cardinality(Known(k, w)))
    IN  [k \in {x \in DOMAIN quality : x[1] \in Zones /\ Days(x, SUMMARY_LONG_DAYS) # {}} |->
            [completeness_30d |-> Mean(k, SUMMARY_SHORT_DAYS),
             completeness_90d |-> Mean(k, SUMMARY_LONG_DAYS),
             flagged |-> Cardinality({d \in Days(k, SUMMARY_SHORT_DAYS) : quality[k][d].flags # {}}),
             revisions |-> Cardinality({i \in DOMAIN ledger :
                 /\ <<ledger[i].zone, ledger[i].series>> = k
                 /\ ledger[i].at >= now - SUMMARY_SHORT_DAYS * HoursPerDay}),
             lag |-> _latest_frontier_lags(arrivals, k[1], k[2])]]
\* quality_summary, scoreboard_ranking: a cached payload, its age judged now.
quality_summary(cached, as_of, now) ==
    [data |-> cached, fresh |-> freshness_meta(as_of, now, QUALITY_MAX_AGE)]
quality_series(quality, arrivals, key, zone, now, days) ==
    LET f == Get(quality, <<zone, key>>, <<>>)
        rows == On(f, {d \in DOMAIN f : d >= Today(now) - days})
        batches == {a \in arrivals : /\ a.zone = zone /\ a.series = key /\ a.max_ts # None
                                     /\ a.at >= now - days * HoursPerDay}
        lag == [a \in batches |-> a.at - a.max_ts]
    IN  IF zone \notin Zones THEN Refused(400)
        ELSE [available |-> rows # <<>>, data |-> rows, n_batches |-> Cardinality(batches),
              median |-> _pctl(lag, batches, Ratio(1, 2)), p90 |-> _pctl(lag, batches, Ratio(9, 10)),
              fresh |-> freshness_meta(IF rows = <<>> THEN None ELSE Max(DOMAIN rows), now, QUALITY_MAX_AGE)]
\* quality_revisions: derived series have no ledger; an hour revised twice is
\* shown with its last change; the ledger is as fresh as the last poll.
quality_revisions(ledger, arrivals, derived, key, zone, now, days, mature) ==
    LET rows == {i \in DOMAIN ledger :
                   /\ ledger[i].zone = zone /\ ledger[i].series = key
                   /\ ledger[i].at >= now - days * HoursPerDay
                   /\ mature => ledger[i].at - ledger[i].ts > MATURITY}
        Of(h) == {i \in rows : ledger[i].ts = h}
        Last(h) == Ranked(LAMBDA i, j : \/ ledger[i].at > ledger[j].at
                                        \/ ledger[i].at = ledger[j].at /\ i > j, Of(h), 1)
        twice == {h \in {ledger[i].ts : i \in rows} : Cardinality(Of(h)) > 1}
        polled == {a.at : a \in {x \in arrivals : x.zone = zone /\ x.series = key}}
    IN  IF zone \notin Zones THEN Refused(400)
        ELSE IF key \in derived \/ Cardinality(rows) > MAX_REVISION_ROWS THEN Unavailable
        ELSE [available |-> rows # {}, count |-> Cardinality(rows),
              restated |-> [h \in twice |->
                  [n |-> Cardinality(Of(h)), last |-> _delta_pct(ledger[Last(h)].old, ledger[Last(h)].new)]],
              fresh |-> freshness_meta(IF polled = {} THEN None ELSE DayOfHour(Max(polled)), now,
                                       ARRIVAL_STALE_DAYS)]
=============================================================================
