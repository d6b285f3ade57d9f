----------------------------- MODULE Documents -----------------------------
(***************************************************************************)
(* What the parsers of backend/power make of the documents they fetch: the *)
(* ENTSO-E time series of entsoe_grid, entsoe_exchange, entsoe_imbalance,  *)
(* entsoe_balancing, entsoe_ida, entsoe_hydro, entsoe_unit_generation and  *)
(* entsoe_reserves, the JSON rows of elexon and neso, and the border       *)
(* series of energy_charts_flows.                                          *)
(*                                                                         *)
(* Time is counted in ticks of the finest resolution, PerHour to the hour. *)
(* A document is a sequence of periods, each carrying the attributes of    *)
(* the TimeSeries it belongs to; a parsed series is a function of the      *)
(* hours (or ticks) it covers.  A mean is kept exactly, as the sum and the *)
(* number of its terms.                                                    *)
(***************************************************************************)
EXTENDS Figures

CONSTANT PerHour          \* ticks of an hour (4: quarter hours)

ASSUME TimeAssumption == PerHour \in Nat \ {0}

HourOf(t) == t \div PerHour
DayOf(t) == t \div (PerHour * HoursPerDay)

-----------------------------------------------------------------------------
(* Means and sums of the points that fall in a bucket *)

\* The terms, (curve, tick) pairs, that fall in bucket b, and their mean.
Terms(curves, Bucket(_), b) ==
    {x \in UNION {{i} \X DOMAIN curves[i] : i \in DOMAIN curves} :
        Bucket(x[2]) = b}
MeanOf(curves, S) ==
    Ratio(MapThenSumSet(LAMBDA x : curves[x[1]][x[2]], S), Cardinality(S))
Buckets(curves, Bucket(_)) ==
    {Bucket(t) : t \in UNION {DOMAIN curves[i] : i \in DOMAIN curves}}
MeanBy(curves, Bucket(_)) ==
    [b \in Buckets(curves, Bucket) |-> MeanOf(curves, Terms(curves, Bucket, b))]
SumBy(curves, Bucket(_)) ==
    [b \in Buckets(curves, Bucket) |->
        Ratio(MeanOf(curves, Terms(curves, Bucket, b)).sum, 1)]
Tick(t) == t

-----------------------------------------------------------------------------
(* Periods.  A period has ts (its TimeSeries), key (what that series is    *)
(* about), curve (its curveType), start, end (None when the element is     *)
(* absent), step (ticks of a position; None: a resolution the table does   *)
(* not know) and points: position -> value, unreadable points left out.    *)

\* The points as they are published: a value at the tick of its position.
Published(p) ==
    IF p.step = None THEN <<>>
    ELSE [t \in {p.start + p.step * (i - 1) : i \in DOMAIN p.points} |->
            p.points[(t - p.start) \div p.step + 1]]

\* _period_slots: a step curve. A position that is not published repeats the
\* value before it, up to the end of the period (up to the last published
\* position when the end is absent); nothing before the first value.
_period_slots(p) ==
    IF p.step = None \/ DOMAIN p.points = {} THEN <<>>
    ELSE LET total == IF p.end = None THEN Max(DOMAIN p.points)
                      ELSE Max({1, (p.end - p.start) \div p.step})
             Upto(i) == {j \in DOMAIN p.points : j <= i}
             held == {i \in 1..total : Upto(i) # {}}
         IN  [t \in {p.start + p.step * (i - 1) : i \in held} |->
                p.points[Max(Upto((t - p.start) \div p.step + 1))]]

\* _period_slot_count: None without an end after the start.
_period_slot_count(p) ==
    IF p.end = None \/ p.end <= p.start THEN None
    ELSE (p.end - p.start) \div p.step

\* _expand_a03: only a curve of type A03 is filled; each point runs to the next
\* one, the last to the slot count (one slot without a count), and a point past
\* the count stays.
_expand_a03(p) ==
    IF p.curve # "A03" \/ p.step = None THEN Published(p)
    ELSE LET n == _period_slot_count(p)
             Next(i) == LET later == {j \in DOMAIN p.points : j > i}
                        IN  IF later # {} THEN Min(later)
                            ELSE IF n = None THEN i + 1 ELSE n + 1
             From(k) == {i \in DOMAIN p.points : i <= k /\ (k < Next(i) \/ k = i)}
             reach == DOMAIN p.points \cup {Next(i) - 1 : i \in DOMAIN p.points}
             slots == IF reach = {} THEN {}
                      ELSE {k \in 1..Max(reach) : From(k) # {}}
         IN  [t \in {p.start + p.step * (k - 1) : k \in slots} |->
                p.points[Max(From((t - p.start) \div p.step + 1))]]

Curves(doc, Read(_)) == [i \in DOMAIN doc |-> Read(doc[i])]
Keys(doc) == {doc[i].key : i \in DOMAIN doc}
Only(doc, Test(_)) == SelectSeq(doc, Test)

-----------------------------------------------------------------------------
(* entsoe_grid: A65 load, A75 generation by type *)

\* _series_psr_key: a series that names an outBiddingZone is consumption
\* (pumping), kept apart from the generation of the same type; without a type
\* it has no key.
_series_psr_key(p) == IF p.psr = None THEN None ELSE <<p.psr, p.consumes>>
base_psr(key) == key[1]
is_consumption_key(key) == key[2]

parse_load(doc) == MeanBy(Curves(doc, Published), DayOf)

parse_load_hourly(doc) == MeanBy(Curves(doc, Published), HourOf)

parse_generation_by_type(doc) ==
    [k \in {_series_psr_key(doc[i]) : i \in DOMAIN doc} \ {None} |->
        MeanBy(Curves(Only(doc, LAMBDA p : _series_psr_key(p) = k), Published),
               DayOf)]

parse_generation_hourly(doc) ==
    [k \in {_series_psr_key(doc[i]) : i \in DOMAIN doc} \ {None} |->
        MeanBy(Curves(Only(doc, LAMBDA p : _series_psr_key(p) = k), Published),
               HourOf)]

(* entsoe_exchange: A09 scheduled exchange, A25 net position *)

parse_step_series(doc) == MeanBy(Curves(doc, _period_slots), HourOf)

\* Net a -> b: a direction that publishes nothing in an hour counts as zero.
net_exchange(ab, ba) ==
    [h \in DOMAIN ab \cup DOMAIN ba |-> Minus(Get(ab, h, Zero), Get(ba, h, Zero))]

\* Exports (the zone is the out domain) count positive, imports negative.
Signed(p, zone) ==
    LET f == _period_slots(p)
    IN  [t \in DOMAIN f |-> IF p.out = zone THEN f[t] ELSE -f[t]]
parse_net_position(doc, zone) ==
    MeanBy(Curves(Only(doc, LAMBDA p : zone \in {p.out, p.in}),
                  LAMBDA p : Signed(p, zone)),
           HourOf)

(* entsoe_imbalance: A85, hourly and quarter-hourly *)

parse_imbalance_prices(doc) == MeanBy(Curves(doc, _expand_a03), HourOf)

parse_imbalance_quarter_hourly(doc) ==
    MeanBy(Curves(Only(doc, LAMBDA p : p.step = 1), _expand_a03), Tick)

(* entsoe_ida: the three intraday auctions; entsoe_hydro: weekly filling, a  *)
(* tick being a week there.                                                  *)

parse_ida_prices(doc, SEQUENCES) ==
    [s \in {k \in SEQUENCES :
              \E i \in DOMAIN doc : /\ doc[i].key = k /\ doc[i].step = 1
                                    /\ DOMAIN doc[i].points # {}} |->
        MeanBy(Curves(Only(doc, LAMBDA p : p.key = s /\ p.step = 1), Published),
               Tick)]

parse_reservoir_filling(doc) ==
    MeanBy(Curves(Only(doc, LAMBDA p : p.step = 1), Published), Tick)

(* entsoe_balancing: A84 prices are averaged over the hour, A83 energies are *)
(* added up.                                                                 *)

\* _walk_points: one series per product and direction; other pairs are ignored.
_walk_points(doc, key) == Curves(Only(doc, LAMBDA p : p.key = key), Published)
parse_balancing_prices(doc) ==
    [k \in Keys(doc) \ {None} |-> MeanBy(_walk_points(doc, k), HourOf)]
parse_balancing_volumes(doc) ==
    [k \in Keys(doc) \ {None} |-> SumBy(_walk_points(doc, k), HourOf)]

\* _merge_wanted: documents of one month merge hour by hour, the later wins.
_merge_wanted(acc, parsed, wanted) ==
    [h \in DOMAIN acc \cup {x \in DOMAIN parsed : x \div HoursPerDay \in wanted} |->
        IF h \in DOMAIN parsed /\ h \div HoursPerDay \in wanted
        THEN parsed[h] ELSE acc[h]]

\* entsoe_unit_generation: consumption series are skipped; several series of a
\* unit are averaged as series, whatever their resolutions.
parse_unit_generation(doc, unit) ==
    LET mine == {i \in DOMAIN doc : doc[i].key = unit /\ ~doc[i].consumes}
        series == {doc[i].ts : i \in mine}
        Of(s) == MeanBy(Curves(Only(doc, LAMBDA p : /\ p.key = unit /\ ~p.consumes
                                                    /\ p.ts = s), _period_slots),
                        HourOf)
        With(h) == {s \in series : h \in DOMAIN Of(s)}
        Total(h) == MapThenFoldSet(Plus, Zero, LAMBDA s : Of(s)[h],
                                   LAMBDA S : CHOOSE s \in S : TRUE, With(h))
    IN  [h \in UNION {DOMAIN Of(s) : s \in series} |->
            Ratio(Total(h).sum, Total(h).n * Cardinality(With(h)))]

-----------------------------------------------------------------------------
(* entsoe_reserves: A15 accepted bids, a sequence of [q, p] per block *)

\* aggregate_bids: bids with a price and a positive quantity count.
aggregate_bids(bids) ==
    LET priced == {i \in DOMAIN bids : bids[i].q # None /\ bids[i].p # None
                                       /\ bids[i].q > 0}
        total == MapThenSumSet(LAMBDA i : bids[i].q, priced)
    IN  IF priced = {} THEN [weighted_avg |-> None, marginal |-> None, total_qty |-> 0]
        ELSE [weighted_avg |->
                 Ratio(MapThenSumSet(LAMBDA i : bids[i].q * bids[i].p, priced), total),
              marginal |-> Max({bids[i].p : i \in priced}),
              total_qty |-> total]

\* _series_suffix: FCR has one symmetric product, the others one per direction.
_series_suffix(product, direction) ==
    IF product = "fcr" THEN <<"fcr">>
    ELSE IF direction \in {"pos", "neg"} THEN <<product, direction>> ELSE None

\* _aggregate_and_densify: an FCR price is for a block of four hours and is
\* quartered; the value of a block stands in each of its hours.
FcrBlockHours == 4
_aggregate_and_densify(bids, suffix, from, to) ==
    LET avg == aggregate_bids(bids).weighted_avg
    IN  IF avg = None THEN <<>>
        ELSE [h \in from..(to - 1) |->
                IF suffix = <<"fcr">> THEN Ratio(avg.sum, FcrBlockHours * avg.n)
                ELSE avg]

-----------------------------------------------------------------------------
(* elexon and neso: rows of a settlement half hour *)

\* parse_mid: the hour's price is weighted by volume; without any volume it is
\* the plain mean.  Rows of another day or without a price are skipped.
parse_mid(rows, day) ==
    LET use == {i \in DOMAIN rows : DayOf(rows[i].t) = day /\ rows[i].price # None}
        In(h) == {i \in use : HourOf(rows[i].t) = h}
        Vol(i) == IF rows[i].vol = None THEN 0 ELSE rows[i].vol
        volume(h) == MapThenSumSet(Vol, In(h))
    IN  [h \in {HourOf(rows[i].t) : i \in use} |->
            IF volume(h) > 0
            THEN Ratio(MapThenSumSet(LAMBDA i : rows[i].price * Vol(i), In(h)), volume(h))
            ELSE Ratio(MapThenSumSet(LAMBDA i : rows[i].price, In(h)),
                       Cardinality(In(h)))]

\* parse_demand, parse_system_prices: the plain mean of the hour's rows.
PlainMean(rows, day) ==
    LET use == {i \in DOMAIN rows : DayOf(rows[i].t) = day /\ rows[i].price # None}
        In(h) == {i \in use : HourOf(rows[i].t) = h}
    IN  [h \in {HourOf(rows[i].t) : i \in use} |->
            Ratio(MapThenSumSet(LAMBDA i : rows[i].price, In(h)), Cardinality(In(h)))]
parse_demand(rows, day) == PlainMean(rows, day)
parse_system_prices(rows, day) == PlainMean(rows, day)

\* parse_fuelinst: each fuel is averaged over the hour, and the fuels of one
\* ENTSO-E type are added.  Interconnectors and unknown fuels are left out.
parse_fuelinst(rows, day, FUEL_TO_PSR, psr) ==
    LET fuels == {f \in DOMAIN FUEL_TO_PSR : FUEL_TO_PSR[f] = psr}
        Of(f) == PlainMean(SelectSeq(rows, LAMBDA r : r.fuel = f), day)
        With(h) == {f \in fuels : h \in DOMAIN Of(f)}
    IN  [h \in UNION {DOMAIN Of(f) : f \in fuels} |->
            MapThenFoldSet(Plus, Zero, LAMBDA f : Of(f)[h],
                           LAMBDA S : CHOOSE f \in S : TRUE, With(h))]

-----------------------------------------------------------------------------
(* energy_charts_flows: border flows as one of the two countries reports them *)

\* _border_series: a positive number is an import of the country asked; stored
\* flows are positive from the first zone of the sorted pair to the second.
Sign(queried, canon) == IF queried = canon[1] THEN -1 ELSE 1

parse_cbpf_hourly(data, queried, canon) ==
    MeanBy(<<[t \in DOMAIN data |-> Sign(queried, canon) * data[t]]>>, HourOf)

parse_cbpf(data, queried, canon) ==
    MeanBy(<<[t \in DOMAIN data |-> Sign(queried, canon) * data[t]]>>, DayOf)

\* ingest_cbpf: the two countries' estimates of a border are averaged, and one
\* alone stands when the other is missing.
BothSides(f, g) ==
    [x \in DOMAIN f \cup DOMAIN g |->
        IF x \notin DOMAIN g THEN f[x] ELSE IF x \notin DOMAIN f THEN g[x]
        ELSE LET s == Plus(f[x], g[x]) IN Ratio(s.sum, 2 * s.n)]
=============================================================================
