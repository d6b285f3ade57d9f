------------------------------ MODULE Questions ------------------------------
(***************************************************************************)
(* power/ask.py, the question box: a question is parsed or refused, then   *)
(* answered from the hourly store per year (per month for a single year),  *)
(* with notes on what of the years asked for is not on record.             *)
(***************************************************************************)
EXTENDS Desk
SeqExt == INSTANCE SequencesExt

CONSTANTS MAX_ZONES,             \* zones of an answer (8)
          MIN_GEN_HOURS_YEAR,    \* hours before a year has a capture factor (1000)
          MIN_PRICE_HOURS_YEAR   \* hours before a year has a baseload (4320)

Metric(series, agg, psr, fuels) == [series |-> series, agg |-> agg, capture |-> psr, fuels |-> fuels]
\* The kinds of metric: a total, a level, two technologies, a capture factor, the mix.
METRIC_BY_ID ==
    [negative_hours |-> Metric({"price.negative_hours"}, "sum", None, FALSE),
     load           |-> Metric({"load.actual"}, "mean", None, FALSE),
     wind           |-> Metric({"gen.B18", "gen.B19"}, "mean", None, FALSE),
     capture_solar  |-> Metric({"capture.B16.factor"}, "mean", "gen.B16", FALSE),
     mix            |-> Metric({}, "mean", None, TRUE)]

MonthOfHour(h) == MonthOf(DayOfHour(h))
YearOfHour(h) == MonthOfHour(h) \div MonthsPerYear
YearStart(y) == y * MonthsPerYear * DaysPerMonth * HoursPerDay

\* parse_query: a question is [phrases: the metric phrases in it, with their
\* length, places: the zones of each place in it (longest name first), years,
\* since].
parse_query(q, now) ==
    LET phrase == CHOOSE p \in q.phrases : \A r \in q.phrases : r.length <= p.length
        zones == SeqExt!FoldLeft(
                    LAMBDA done, z : IF SeqExt!Contains(done, z) THEN done ELSE Append(done, z),
                    <<>>, SeqExt!FlattenSeq(q.places))
        from == IF q.years = {} THEN None ELSE Min(q.years)
        to == IF q.years = {} \/ (Cardinality(q.years) = 1 /\ q.since)
              THEN YearOfHour(now) ELSE Max(q.years)
    IN  IF q.phrases = {} THEN [ok |-> FALSE, problem |-> "metric"]
        ELSE IF zones = <<>> THEN [ok |-> FALSE, problem |-> "zone"]
        ELSE [ok |-> TRUE, metric |-> phrase.metric,
              zones |-> SubSeq(zones, 1, Min({Len(zones), MAX_ZONES})),
              year_from |-> from, year_to |-> Min({to, YearOfHour(now)})]

\* filter_options
filter_options(now) == [metrics |-> DOMAIN METRIC_BY_ID, places |-> Zones, years |-> {0, YearOfHour(now)}]

-----------------------------------------------------------------------------
\* The hours of f in a window, by period.
InWindow(f, start, end) == {h \in DOMAIN f : Or0(start) <= h /\ h < end}
PeriodOf(h, monthly) == IF monthly THEN MonthOfHour(h) ELSE YearOfHour(h)
_aggregate_periods(f, monthly, agg, start, end) ==
    LET S == InWindow(f, start, end)
        Of(p) == {h \in S : PeriodOf(h, monthly) = p}
    IN  [p \in {PeriodOf(h, monthly) : h \in S} |->
            IF agg = "sum" THEN Int1(SumOver(f, Of(p))) ELSE MeanOver(f, Of(p))]

\* _capture_factor_yearly: the generation-weighted price of a year over its mean
\* price; a fragment of a year has none.
_capture_factor_yearly(price, gen, start, end) ==
    LET both == InWindow(gen, start, end) \cap DOMAIN price
        Of(S, y) == {h \in S : YearOfHour(h) = y}
        Priced(y) == Of(InWindow(price, start, end), y)
        Gen(y) == SumOver(gen, Of(both, y))
        Value(y) == MapThenSumSet(LAMBDA h : price[h] * gen[h], Of(both, y))
        full == {y \in {YearOfHour(h) : h \in both} :
                   /\ Gen(y) # 0 /\ Cardinality(Of(both, y)) >= MIN_GEN_HOURS_YEAR
                   /\ SumOver(price, Priced(y)) > 0
                   /\ Cardinality(Priced(y)) >= MIN_PRICE_HOURS_YEAR}
    IN  [y \in full |-> Ratio(Value(y) * Cardinality(Priced(y)), Gen(y) * SumOver(price, Priced(y)))]

\* _oldest, over several series.
_oldest(db, series, zone) ==
    LET hours == UNION {DOMAIN Hourly(db, s, zone) : s \in series}
    IN  IF hours = {} THEN None ELSE Min(hours)

Note(zone, kind, years) == [zone |-> zone, kind |-> kind, years |-> years]
\* _coverage_note: the years before the record, and a first year that is partial.
_coverage_note(zone, oldest, from, to, monthly) ==
    LET first == YearOfHour(oldest)
    IN  IF oldest = None THEN {}
        ELSE (IF from = None \/ first <= from THEN {}
              ELSE {Note(zone, "not on record", from..(first - 1))})
             \cup {n \in {Note(zone, "partial", {first})} :
                     /\ ~monthly /\ oldest - YearStart(first) >= HoursPerDay
                     /\ from = None \/ first >= from
                     /\ first <= to}
\* A variant that stops a year short.
gap_note_short(zone, present, first, from, to) ==
    LET gaps == (IF from = None THEN first ELSE Max({first, from}))..(to - 1) \ present
    IN  IF gaps = {} THEN {} ELSE {Note(zone, "no data", gaps)}
\* _gap_note, _compress_years: the years missing inside the record.
_gap_note(zone, present, first, from, to) ==
    LET gaps == (IF from = None THEN first ELSE Max({first, from}))..to \ present
    IN  IF gaps = {} THEN {} ELSE {Note(zone, "no data", gaps)}

GEN_KEYS == {"gen.B16", "gen.B18", "gen.B19"}
Echo(id, zones, from, to, monthly) ==
    [metric |-> id, zones |-> zones, from |-> from, to |-> to, grain |-> IF monthly THEN "monthly" ELSE "yearly"]
\* _sentence, _sentence_fuels: the newest complete period and what it is compared with.
_sentence(lead, column, complete) ==
    LET have == complete \cap DOMAIN column
    IN  IF have = {} THEN None
        ELSE [of |-> lead, latest |-> Max(have), first |-> Min(have),
              peak |-> CHOOSE p \in have : \A q \in have : AtMost(column[q], column[p])]
_sentence_fuels(columns, complete) ==
    LET latest == Max(complete)
        with == {c \in DOMAIN columns : latest \in DOMAIN columns[c]}
        lead == CHOOSE c \in with : \A e \in with : AtMost(columns[e][latest], columns[c][latest])
    IN  IF with = {} THEN None ELSE _sentence(lead, columns[lead], {Min(complete), latest})

\* The notes about the years of a zone, given those that are shown.
ColumnNotes(zone, oldest, from, to, monthly, shown) ==
    _coverage_note(zone, oldest, from, to, monthly)
    \cup (IF monthly \/ shown = {} THEN {} ELSE _gap_note(zone, shown, YearOfHour(oldest), from, to))

\* The columns of an answer and its notes: zones for a metric, fuels for the mix.
FuelColumns(db, zones, from, to, monthly, start, end) ==
    LET zone == zones[1]
        Of(k) == _aggregate_periods(Hourly(db, k, zone), monthly, "mean", start, end)
        fuels == {k \in GEN_KEYS : Of(k) # <<>>}
        present == UNION {DOMAIN Of(k) : k \in fuels}
    IN  [columns |-> [k \in fuels |-> Of(k)], labels |-> fuels, zones |-> <<zone>>,
         coverage |->
            (IF Len(zones) > 1 THEN {Note(zone, "one place", {})} ELSE {})
            \cup ColumnNotes(zone, _oldest(db, fuels, zone), from, to, monthly, present)]
\* A capture factor per year is weighted by generation, one per month is as stored.
OldestSeries(metric, monthly) ==
    IF metric.capture # None /\ ~monthly THEN {metric.capture} ELSE metric.series
ZoneColumn(db, metric, z, monthly, start, end) ==
    LET Of(s) == _aggregate_periods(Hourly(db, s, z), monthly, metric.agg, start, end)
        With(p) == {s \in metric.series : p \in DOMAIN Of(s)}
    IN  IF metric.capture # None /\ ~monthly
        THEN _capture_factor_yearly(Hourly(db, "price.dayahead", z), Hourly(db, metric.capture, z),
                                    start, end)
        ELSE [p \in UNION {DOMAIN Of(s) : s \in metric.series} |->
                RatioSum([s \in With(p) |-> Of(s)[p]], With(p))]
ZoneColumns(db, metric, zones, from, to, monthly, start, end) ==
    LET Column(z) == ZoneColumn(db, metric, z, monthly, start, end)
        Oldest(z) == _oldest(db, OldestSeries(metric, monthly), z)
        Notes(z) ==
            IF Oldest(z) = None THEN {Note(z, "none", {})}
            ELSE ColumnNotes(z, Oldest(z), from, to, monthly, DOMAIN Column(z))
    IN  [columns |-> [z \in {x \in SeqExt!ToSet(zones) : Column(x) # <<>>} |-> Column(z)],
         labels |-> SeqExt!ToSet(zones), zones |-> zones,
         coverage |-> UNION {Notes(z) : z \in SeqExt!ToSet(zones)}]

\* The answer of the columns found: what is complete, what is still running.
Sentence(columns, fuels, zones, complete) ==
    LET lead == zones[Min({i \in DOMAIN zones : zones[i] \in DOMAIN columns})]
    IN  IF fuels THEN _sentence_fuels(columns, complete) ELSE _sentence(lead, columns[lead], complete)
Complete(periods, running) ==
    LET before == {p \in periods : p < running} IN IF before = {} THEN periods ELSE before
ShownAnswer(found, fuels, zones, echo, periods, running) ==
    [available |-> TRUE, coverage |-> found.coverage, interpreted |-> [echo EXCEPT !.zones = found.zones],
     columns |-> found.columns, labels |-> found.labels, periods |-> periods,
     partial_period |-> IF running \in periods THEN running ELSE None,
     sentence |-> Sentence(found.columns, fuels, zones, Complete(periods, running))]
AnswerOf(found, fuels, zones, echo, running) ==
    IF found.columns = <<>>
    THEN [available |-> FALSE, coverage |-> found.coverage,
          interpreted |-> [echo EXCEPT !.zones = found.zones]]
    ELSE ShownAnswer(found, fuels, zones, echo,
               UNION {DOMAIN found.columns[c] : c \in DOMAIN found.columns}, running)

\* The zones of a question that are known, no more than an answer shows.
KnownZones(asked) ==
    LET known == SelectSeq(asked, LAMBDA z : z \in Zones)
    IN  SubSeq(known, 1, Min({Len(known), MAX_ZONES}))
answer_structured(db, id, asked, year_from, year_to, now) ==
    LET metric == METRIC_BY_ID[id]
        zones == KnownZones(asked)
        to == IF year_to = None THEN YearOfHour(now) ELSE Min({year_to, YearOfHour(now)})
        monthly == year_from = to
        start == IF year_from = None THEN None ELSE YearStart(year_from)
        end == YearStart(to + 1)
        found == IF metric.fuels
                 THEN FuelColumns(db, zones, year_from, to, monthly, start, end)
                 ELSE ZoneColumns(db, metric, zones, year_from, to, monthly, start, end)
    IN  IF id \notin DOMAIN METRIC_BY_ID THEN [available |-> FALSE, problem |-> "metric"]
        ELSE IF zones = <<>> THEN [available |-> FALSE, problem |-> "zone"]
        ELSE AnswerOf(found, metric.fuels, zones, Echo(id, None, year_from, to, monthly),
                      PeriodOf(now, monthly))

\* answer: the text front end.
answer_query(db, q, now) ==
    LET parsed_q == parse_query(q, now)
    IN  IF ~parsed_q.ok THEN [available |-> FALSE, problem |-> parsed_q.problem]
        ELSE answer_structured(db, parsed_q.metric, parsed_q.zones, parsed_q.year_from, parsed_q.year_to, now)
=============================================================================
