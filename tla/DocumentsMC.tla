---------------------------- MODULE DocumentsMC ----------------------------
(***************************************************************************)
(* The parsers of Documents over every small document: one state per       *)
(* document, parsed in one step.                                           *)
(***************************************************************************)
EXTENDS Documents

CONSTANTS Values,      \* the quantities and prices of a point
          Wide,        \* positions of a period of the finest resolution
          MaxBids      \* bids of a reserve block

DayTicks == PerHour * HoursPerDay

\* Points of n positions, some of them unpublished.
PointSets(n) == UNION {[S -> Values] : S \in SUBSET (1..n)}

Piece(start, end, step, curve, points) ==
    [ts |-> 1, key |-> "k", psr |-> "B10", consumes |-> FALSE, out |-> "A",
     in |-> "B", curve |-> curve, start |-> start, end |-> end, step |-> step,
     points |-> points]

Fine == {Piece(0, e, 1, "A03", f) : e \in {None, Wide}, f \in PointSets(Wide)}
Coarse == {Piece(s, s + 2 * PerHour, PerHour, "A03", f) :
             s \in {0, PerHour}, f \in PointSets(2)}
Unreadable == Piece(0, Wide, None, "A03", [i \in {1} |-> 1])
Pieces == Fine \cup Coarse \cup {Unreadable}

Bids == [q : {None, 0, 1, 3}, p : Values \cup {None}]

\* Rows of a day's half hours: at most one row a tick, of one of two fuels.
Rows(f) == [i \in 1..DayTicks |->
              [t |-> i - 1, price |-> f[i], vol |-> i % 3, fuel |-> "x"]]

Inputs ==
    [kind : {"one"}, doc : {<<p>> : p \in Pieces}]
    \cup [kind : {"two"}, doc : {<<p, q>> : p \in Coarse, q \in Coarse}]
    \cup [kind : {"bids"}, doc : UNION {[1..n -> Bids] : n \in 0..MaxBids}]
    \cup [kind : {"rows"}, doc : {Rows(f) : f \in [1..DayTicks -> Values \cup {None}]}]

VARIABLES input, parsed
vars == <<input, parsed>>

Init == input \in Inputs /\ parsed = None

\* Every parser that reads such a document.
Parse ==
    /\ parsed = None
    /\ parsed' =
        CASE input.kind \in {"one", "two"} ->
                <<parse_load_hourly(input.doc), parse_load(input.doc),
                  parse_step_series(input.doc), parse_imbalance_prices(input.doc),
                  parse_ida_prices(input.doc, {"k"}), parse_reservoir_filling(input.doc)>>
          [] input.kind = "bids" -> <<aggregate_bids(input.doc)>>
          [] input.kind = "rows" -> <<parse_mid(input.doc, 0), parse_system_prices(input.doc, 0)>>
    /\ UNCHANGED input

Next == Parse
Spec == Init /\ [][Next]_vars

-----------------------------------------------------------------------------
Periodic == input.kind \in {"one", "two"}
Readable(doc) == \A i \in DOMAIN doc : doc[i].step # None

\* The first published position of a period starts it.
StartsAtOne(p) == 1 \in DOMAIN p.points
InRange(p) == p.end # None => \A i \in DOMAIN p.points :
                  p.start + p.step * i <= p.end

\* The period with every position written out, and with repetitions left out.
WrittenOut(p) ==
    LET f == _period_slots(p)
        n == {i \in 1..DayTicks : p.start + p.step * (i - 1) \in DOMAIN f}
    IN  [p EXCEPT !.points = [i \in n |-> f[p.start + p.step * (i - 1)]]]
Compressed(p) ==
    [p EXCEPT !.points =
        LET new == {i \in DOMAIN p.points :
                      i - 1 \in DOMAIN p.points => p.points[i - 1] # p.points[i]}
        IN  [i \in new |-> p.points[i]]]
Each(doc, Op(_)) == [i \in DOMAIN doc |-> Op(doc[i])]

\* A curve of type A03 leaves out positions that repeat the one before. The
\* parsers that fill (entsoe_exchange._period_slots for A09, A25 and the units,
\* entsoe_imbalance._expand_a03 for A85) say the same of a document whether such
\* positions are left out or written, hourly or quarter-hourly, and the two
\* fills, written twice in the code, read a period with an end alike.
FillTransparent ==
    (/\ Periodic /\ Readable(input.doc)
     /\ \A i \in DOMAIN input.doc : InRange(input.doc[i])) =>
        LET full == Each(input.doc, WrittenOut)
            short == Each(full, Compressed)
            ended == \A i \in DOMAIN input.doc : input.doc[i].end # None
        IN  /\ ended => SameSeries(parse_step_series(short), parse_load_hourly(full))
            /\ SameSeries(parse_step_series(full), parse_step_series(input.doc))
            /\ ended => /\ SameSeries(parse_imbalance_prices(short),
                                      parse_step_series(input.doc))
                        /\ SameSeries(parse_imbalance_quarter_hourly(short),
                                      parse_imbalance_quarter_hourly(full))
                        /\ SameSeries(parse_net_position(short, "A"),
                                      parse_net_position(full, "A"))
                        /\ SameSeries(parse_unit_generation(short, "k"),
                                      parse_unit_generation(full, "k"))

\* Every position of the period that falls in hour h is written.
WrittenThrough(p, h) ==
    {t \in DOMAIN _period_slots(p) : HourOf(t) = h} \subseteq DOMAIN Published(p)
Ida(doc) == LET bySequence == parse_ida_prices(doc, {"k"})
            IN  IF "k" \in DOMAIN bySequence THEN bySequence["k"] ELSE <<>>
Part(f, g) == DOMAIN f \subseteq DOMAIN g /\ \A x \in DOMAIN f : Same(f[x], g[x])

\* The other parsers (load, generation, intraday auctions, reservoirs, balancing)
\* fill nothing: an hour they speak of has a written position, and one written
\* through is read as the filling parsers read it; the tick series of a
\* compressed period is a part of the full one's. A position left out is lost
\* to them, in an hourly mean without a trace. For the activated balancing
\* energy that is meant (entsoe_balancing.py:74-81).
WrittenPositionsOnly ==
    (/\ Periodic /\ Readable(input.doc)
     /\ \A i \in DOMAIN input.doc : InRange(input.doc[i])) =>
        LET doc == input.doc
            load == parse_load_hourly(doc)
            steps == parse_step_series(doc)
            written == {HourOf(t) : t \in UNION {DOMAIN Published(doc[i]) : i \in DOMAIN doc}}
            full == Each(doc, WrittenOut)
            short == Each(full, Compressed)
        IN  /\ DOMAIN load = written
            /\ DOMAIN parse_balancing_prices(doc)["k"] = written
            /\ \A h \in written : (\A i \in DOMAIN doc : WrittenThrough(doc[i], h)) =>
                   /\ Same(load[h], steps[h])
                   /\ Same(parse_generation_hourly(doc)[<<"B10", FALSE>>][h], steps[h])
            /\ Len(doc) = 1 =>
                   /\ Part(Ida(short), Ida(full))
                   /\ Part(parse_reservoir_filling(short), parse_reservoir_filling(full))

\* "A44 A03-curves omit repeated values" (entsoe_ida.py:21): if so, an auction's
\* prices are those of the document written in full. parse_ida_prices does not
\* fill, and a compressed document breaks this (no run checks it).
AuctionsFilled ==
    (Periodic /\ Readable(input.doc) /\ Len(input.doc) = 1) =>
        LET full == Each(input.doc, WrittenOut)
        IN  SameSeries(Ida(Each(full, Compressed)), Ida(full))

\* The period at the finest resolution: each position PerHour times.
Refined(p) ==
    IF p.step # PerHour THEN p
    ELSE [p EXCEPT !.step = 1,
            !.points = [i \in {(j - 1) * PerHour + k :
                                 j \in DOMAIN p.points, k \in 1..PerHour} |->
                          p.points[(i - 1) \div PerHour + 1]]]

\* What is said of an hour does not depend on the resolution the publisher
\* chose for it (the three entries of _RESOLUTION_HOURS): hourly positions and
\* the same value at every quarter give the same hour and the same day, except
\* that energies (A83), which are added, grow with the number of positions.
ResolutionTransparent ==
    (Periodic /\ Readable(input.doc)) =>
        LET fine == Each(input.doc, Refined)
            coarse == \A i \in DOMAIN input.doc : input.doc[i].step = PerHour
            Scaled(f) == [h \in DOMAIN f |-> Ratio(PerHour * f[h].sum, f[h].n)]
        IN  /\ SameSeries(parse_load_hourly(fine), parse_load_hourly(input.doc))
            /\ coarse => SameSeries(parse_load(fine), parse_load(input.doc))
            /\ SameSeries(parse_step_series(fine), parse_step_series(input.doc))
            /\ SameSeries(parse_balancing_prices(fine)["k"],
                          parse_balancing_prices(input.doc)["k"])
            /\ coarse => SameSeries(parse_balancing_volumes(fine)["k"],
                                    Scaled(parse_balancing_volumes(input.doc)["k"]))

\* Pumping is published under the type of the plant that pumps
\* (entsoe_grid._series_psr_key, parse_unit_generation): a consumption series
\* added to a document leaves every generation series of it as it was.
PumpingKeptApart ==
    (Periodic /\ Readable(input.doc)) =>
        \A q \in {Piece(0, Wide, 1, "A03", [i \in {1, 2} |-> 5])} :
            LET pump == [q EXCEPT !.consumes = TRUE, !.ts = 2]
                more == Append(input.doc, pump)
                plants == {k \in DOMAIN parse_generation_hourly(more) :
                             base_psr(k) = "B10" /\ ~is_consumption_key(k)}
            IN  \A gen \in plants :
                /\ SameSeries(parse_generation_hourly(more)[gen],
                              parse_generation_hourly(input.doc)[gen])
                /\ SameSeries(parse_generation_by_type(more)[gen],
                              parse_generation_by_type(input.doc)[gen])
                /\ SameSeries(parse_unit_generation(more, "k"),
                              parse_unit_generation(input.doc, "k"))

Negated(f) == [x \in DOMAIN f |-> Ratio(-f[x].sum, f[x].n)]
Turned(p) == [p EXCEPT !.out = p.in, !.in = p.out]

\* A border says the same seen from either side: swapping the directions of the
\* scheduled exchange or the domains of a net position negates it, and a flow
\* reported by one country as an import and by the other as an export of the
\* same size is stored as one number (energy_charts_flows._border_series),
\* whichever of the two reports arrives.
BorderSidesAgree ==
    (Periodic /\ Readable(input.doc)) =>
        LET there == parse_step_series(<<input.doc[1]>>)
            back == parse_step_series(Tail(input.doc))
            data == Published(input.doc[1])
            other == [t \in DOMAIN data |-> -data[t]]
            canon == <<"A", "B">>
            mine == parse_cbpf_hourly(data, "A", canon)
            theirs == parse_cbpf_hourly(other, "B", canon)
        IN  /\ SameSeries(net_exchange(there, back),
                          Negated(net_exchange(back, there)))
            /\ SameSeries(parse_net_position(input.doc, "A"),
                          Negated(parse_net_position(Each(input.doc, Turned), "A")))
            /\ SameSeries(mine, theirs)
            /\ SameSeries(BothSides(mine, theirs), mine)
            /\ SameSeries(parse_cbpf(data, "A", canon), parse_cbpf(other, "B", canon))

\* A weighted price is a price somebody paid or between two of them, and it
\* does not depend on how the answer was cut into pages or on bids of no
\* quantity (entsoe_reserves.aggregate_bids over _fetch_capacity_day's pages,
\* elexon.parse_mid); the marginal price is never below it.
WeightedPriceWithinBids ==
    /\ input.kind = "bids" =>
        LET bids == input.doc
            all == aggregate_bids(bids)
            priced == {i \in DOMAIN bids : bids[i].q \notin {None, 0} /\ bids[i].p # None}
            turned == [i \in DOMAIN bids |-> bids[Len(bids) + 1 - i]]
        IN  /\ (all.weighted_avg = None) = (priced = {})
            /\ all.weighted_avg # None =>
                /\ AtMost(Ratio(Min({bids[i].p : i \in priced}), 1), all.weighted_avg)
                /\ AtMost(all.weighted_avg, Ratio(all.marginal, 1))
                /\ Same(aggregate_bids(turned).weighted_avg, all.weighted_avg)
                /\ Same(aggregate_bids(SelectSeq(bids, LAMBDA b : b.q # 0)).weighted_avg,
                        all.weighted_avg)
    /\ input.kind = "rows" =>
        LET mid == parse_mid(input.doc, 0)
            Prices(h) == {input.doc[i].price :
                            i \in {j \in DOMAIN input.doc : HourOf(j - 1) = h}} \ {None}
        IN  /\ \A h \in DOMAIN mid :
                 /\ AtMost(Ratio(Min(Prices(h)), 1), mid[h])
                 /\ AtMost(mid[h], Ratio(Max(Prices(h)), 1))
            /\ DOMAIN mid = {h \in 0..(HoursPerDay - 1) : Prices(h) # {}}
\* A publication cut into parts means what the whole means: the documents of a
\* month are merged hour by hour, so two with different hours read as one and
\* of two with the same hour the later one stands (_merge_wanted); an FCR
\* price, which is for its block of four hours, comes back when the block's
\* hours are added (_aggregate_and_densify); a type that GB reports as two
\* fuels gets the sum of both in every hour (elexon.parse_fuelinst).
PartsMakeTheWhole ==
    /\ input.kind = "two" =>
        LET first == parse_load_hourly(<<input.doc[1]>>)
            second == parse_load_hourly(<<input.doc[2]>>)
            days == {0, 1}
            both == _merge_wanted(_merge_wanted(<<>>, first, days), second, days)
        IN  /\ DOMAIN first \cap DOMAIN second = {} =>
                 SameSeries(both, parse_load_hourly(input.doc))
            /\ \A h \in DOMAIN second : Same(both[h], second[h])
            /\ DOMAIN both = DOMAIN first \cup DOMAIN second
    /\ (input.kind = "bids" /\ aggregate_bids(input.doc).weighted_avg # None) =>
        \A product \in {"fcr", "afrr"} :
            LET block == _aggregate_and_densify(input.doc,
                             _series_suffix(product, "pos"), 4, 8)
                total == Plus(Plus(block[4], block[5]), Plus(block[6], block[7]))
                avg == aggregate_bids(input.doc).weighted_avg
            IN  IF product = "fcr" THEN Same(total, avg) ELSE Same(block[7], avg)
    /\ input.kind = "rows" =>
        LET other == [i \in DOMAIN input.doc |-> [input.doc[i] EXCEPT !.fuel = "y"]]
            one == parse_fuelinst(input.doc, 0, [f \in {"x", "y"} |-> "B04"], "B04")
            two == parse_fuelinst(input.doc \o other, 0,
                                  [f \in {"x", "y"} |-> "B04"], "B04")
        IN  /\ DOMAIN two = DOMAIN one
            /\ \A h \in DOMAIN one : Same(two[h], Plus(one[h], one[h]))
            /\ SameSeries(one, parse_demand(input.doc, 0))

\* A document says the same however the source writes it: compressed or in full
\* to the parsers that fill (the others read what is written, and lose no more),
\* with the consumption of a plant beside its generation, asked for from either
\* side of a border, with the bids of an hour split among several, in hours or
\* quarters, in one document or two.
ParsersFaithful ==
    /\ FillTransparent
    /\ WrittenPositionsOnly
    /\ ResolutionTransparent
    /\ PartsMakeTheWhole
    /\ PumpingKeptApart
    /\ BorderSidesAgree
    /\ WeightedPriceWithinBids
=============================================================================
