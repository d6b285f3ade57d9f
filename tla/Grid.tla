-------------------------------- MODULE Grid --------------------------------
(***************************************************************************)
(* The grid pipelines of one zone: ingest_grid, ingest_load_forecast and   *)
(* ingest_generation_forecast of backend/power/entsoe_grid.py, and         *)
(* ingest_elexon of backend/power/elexon.py, over the daily rule of        *)
(* backend/power/daily.py.                                                 *)
(*                                                                         *)
(* A run fetches its documents one after the other, any of which may fail  *)
(* alone; then it writes, without awaiting, one commit after the other:    *)
(* the daily tables (power_grid and power_gen_mix, or the forecast row)    *)
(* and the hourly series.  A raising commit or a kill abandons the rest.   *)
(* Which pipeline runs is fixed in the initial state.                      *)
(***************************************************************************)
EXTENDS Integers, Sequences, FiniteSets, FiniteSetsExt

CONSTANTS
    HOURS_PER_DAY,  \* hours of a day (24)
    Days,           \* the days of the window a run asks for
    Areas,          \* the A65 areas of the zone: two for IE_SEM, else one
    Values,         \* Values[leg]: what the source publishes for it
    None,           \* no value, no row
    MaxPublish,     \* bound: publications of the sources
    MaxFaults       \* bound: failed fetches, failed commits and kills

Hours == 0..(HOURS_PER_DAY - 1)
Kinds == {"grid", "forecast", "total", "elexon"}
Wind == "B19"
Solar == "B16"
Other == "B14"

\* A curve is a function of the hours it has.
Sum(c) == MapThenSumSet(LAMBDA h : c[h], DOMAIN c)
At(c, h) == IF h \in DOMAIN c THEN c[h] ELSE 0
Leg(f, k) == IF k \in DOMAIN f THEN f[k] ELSE <<>>
\* Upsert: the new hours over the old ones.
Over(new, old) == [h \in DOMAIN new \cup DOMAIN old |->
                     IF h \in DOMAIN new THEN new[h] ELSE old[h]]

-----------------------------------------------------------------------------
(* power/daily.py and the shapes of power/entsoe_grid.py *)

\* The row of a day: load averaged over the hours it has, generation over
\* `span` hours.  Means over the span are kept as sums, the residual as a
\* fraction.
DailyRow(load, gen, span) ==
    LET fuels == {f \in DOMAIN gen : DOMAIN gen[f] # {}}
        wind == Sum(Leg(gen, Wind))
        solar == Sum(Leg(gen, Solar))
        n == Cardinality(DOMAIN load)
    IN  [load |-> IF n = 0 THEN None ELSE [sum |-> Sum(load), n |-> n],
         wind |-> IF fuels = {} THEN None ELSE wind,
         solar |-> IF fuels = {} THEN None ELSE solar,
         residual |-> IF n = 0 \/ fuels = {} THEN None
                      ELSE [num |-> span * Sum(load) - n * (wind + solar),
                            den |-> n * span],
         load_hours |-> n,
         gen_hours |-> Cardinality(UNION {DOMAIN gen[f] : f \in fuels}),
         mix |-> [f \in fuels |-> Sum(gen[f])]]

\* A variant that averages over the hours published, as the code once did.
daily_over_published(load, gen) ==
    DailyRow(load, gen, Cardinality(DOMAIN Leg(gen, Solar)))

\* daily_from_hours: an hour without generation is a zero nobody sent.
daily_from_hours(load, gen) == DailyRow(load, gen, HOURS_PER_DAY)

share_is_claimable(row) ==
    row.load_hours = HOURS_PER_DAY /\ row.gen_hours = HOURS_PER_DAY

days_to_derive(S, now) == {d \in S : d < now}

\* A variant that adds up whichever components answered.
sum_what_is_there(parts) ==
    [h \in UNION {DOMAIN parts[a] : a \in DOMAIN parts} |->
        Sum([a \in DOMAIN parts |-> At(parts[a], h)])]

\* sum_component_load_hourly: only the hours every component published.
sum_component_load_hourly(parts) ==
    [h \in {x \in Hours : \A a \in DOMAIN parts : x \in DOMAIN parts[a]} |->
        Sum([a \in DOMAIN parts |-> parts[a][h]])]

\* build_hourly_forecast: an absent leg is zero, and without either leg the
\* hour has no residual.
build_hourly_forecast(load, gen) ==
    LET wind == Leg(gen, Wind)
        solar == Leg(gen, Solar)
    IN  [h \in {x \in DOMAIN load : x \in DOMAIN wind \cup DOMAIN solar} |->
            load[h] - At(wind, h) - At(solar, h)]

-----------------------------------------------------------------------------
VARIABLES
    kind,       \* the pipeline
    today,      \* the UTC day
    pub,        \* what the sources have published: leg -> day -> curve
    hourly,     \* power_hourly: series -> day -> curve
    rows,       \* power_grid, or the forecast table: day -> row
    mix,        \* power_gen_mix: day -> fuel -> mean
    todo,       \* documents still to fetch, each the set of its legs
    got,        \* leg -> day -> curve: what this run has fetched
    queue,      \* commits still to make
    pc, publications, faults

tables == <<hourly, rows, mix>>
vars == <<kind, today, pub, tables, todo, got, queue, pc, publications, faults>>

\* The documents of a run.  Elexon: the embedded estimates of NESO, then the
\* four documents of the day, all or none (fetch_day).
DocsOf(k) ==
    IF k = "grid" THEN [i \in DOMAIN Areas |-> {Areas[i]}] \o <<{Wind, Solar, Other}>>
    ELSE IF k = "forecast" THEN <<{Areas[1]}, {Wind, Solar}>>
    ELSE IF k = "total" THEN <<{Areas[1]}>>
    ELSE <<{"ewind", "esolar"}, {Areas[1], Wind, Other}>>
LegsOf(k) == UNION {DocsOf(k)[i] : i \in DOMAIN DocsOf(k)}

\* A day has hours, a leg publishes numbers, and an area has a name of its own.
ASSUME GridAssumption ==
    /\ HOURS_PER_DAY \in Nat \ {0}
    /\ Areas \in Seq({Areas[i] : i \in DOMAIN Areas})
    /\ \A i \in DOMAIN Areas : Areas[i] \notin {Wind, Solar, Other, "ewind", "esolar"}
    /\ \A k \in Kinds : \A l \in LegsOf(k) : Values[l] # {} /\ Values[l] \subseteq Int

Series == {"load", "residual", "ewind", "esolar", Wind, Solar, Other}
NoHours == [d \in Days |-> <<>>]

\* What the sources may have published before the first run: some of a day's
\* hours of load or all, solar for the hours of light, and perhaps nothing of
\* another fuel.  The estimates of embedded wind and solar come in one row.
HoursBefore(l) == IF l \in {Wind, Other} THEN {{}, Hours}
                  ELSE IF l \in {Solar, "ewind", "esolar"} THEN {{0}}
                  ELSE {{0}, Hours}
PublishedBefore(legs) ==
    {p \in [legs -> [Days -> {{}, {0}, Hours}]] :
        /\ \A l \in legs, d \in Days : p[l][d] \in HoursBefore(l)
        /\ {"ewind", "esolar"} \subseteq legs => p["ewind"] = p["esolar"]}
FirstValues(p) ==
    [l \in DOMAIN p |-> [d \in Days |-> [h \in p[l][d] |-> CHOOSE v \in Values[l] : TRUE]]]

Init ==
    /\ kind \in Kinds
    /\ today = Min(Days)
    /\ pub \in {FirstValues(p) : p \in PublishedBefore(LegsOf(kind))}
    /\ hourly = [s \in Series |-> NoHours]
    /\ rows = [d \in Days |-> None]
    /\ mix = [d \in Days |-> <<>>]
    /\ todo = <<>> /\ got = <<>> /\ queue = <<>>
    /\ pc = "idle"
    /\ publications = 0 /\ faults = 0

\* A source publishes or revises an hour; hours that were published stay.  What
\* it publishes while a run writes counts from the next fetch on: those steps
\* are left to the time between runs.
Publish(l, d, h) ==
    /\ pc # "write"
    /\ publications < MaxPublish
    /\ publications' = publications + 1
    /\ \E v \in Values[l] :
        pub' = [x \in DOMAIN pub |->
                  IF x = l \/ {x, l} = {"ewind", "esolar"}
                  THEN [pub[x] EXCEPT ![d] = Over([i \in {h} |-> v], @)]
                  ELSE pub[x]]
    /\ UNCHANGED <<kind, today, tables, todo, got, queue, pc, faults>>

Midnight ==
    /\ pc # "write"
    /\ today <= Max(Days)
    /\ today' = today + 1
    /\ UNCHANGED <<kind, pub, tables, todo, got, queue, pc, publications, faults>>

Start ==
    /\ pc = "idle"
    /\ pc' = "fetch"
    /\ todo' = DocsOf(kind)
    /\ got' = <<>>
    /\ UNCHANGED <<kind, today, pub, tables, queue, publications, faults>>

FetchOk ==
    /\ pc = "fetch" /\ todo # <<>>
    /\ todo' = Tail(todo)
    /\ got' = [l \in DOMAIN got \cup Head(todo) |->
                 IF l \in Head(todo) THEN pub[l] ELSE got[l]]
    /\ UNCHANGED <<kind, today, pub, tables, queue, pc, publications, faults>>

\* An HTTP error is caught and the document is missing in this run.
FetchFails ==
    /\ pc = "fetch" /\ todo # <<>>
    /\ faults < MaxFaults
    /\ faults' = faults + 1
    /\ todo' = Tail(todo)
    /\ UNCHANGED <<kind, today, pub, tables, got, queue, pc, publications>>

-----------------------------------------------------------------------------
(* What a run derives from a source: what it got, leg by leg *)

On(src, l, d) == IF l \in DOMAIN src THEN src[l][d] ELSE <<>>
AddTo(c, e) == [h \in DOMAIN c \cup DOMAIN e |-> At(c, h) + At(e, h)]
\* What is added to demand is added only in the hours demand has.
Lifted(c, e) == [h \in DOMAIN c |-> c[h] + At(e, h)]

\* The load of a day: the sum of the components, or demand with the embedded
\* generation that demand, metered at the grid, does not show.
LoadOn(src, d) ==
    IF kind = "grid"
    THEN sum_component_load_hourly([i \in DOMAIN Areas |-> On(src, Areas[i], d)])
    ELSE IF kind = "elexon"
    THEN Lifted(Lifted(On(src, Areas[1], d), On(src, "ewind", d)), On(src, "esolar", d))
    ELSE On(src, Areas[1], d)

\* Its generation by fuel.  ingest_elexon adds the embedded wind to the metered
\* wind, and what it knows of solar is the embedded estimate; a day that was not
\* fetched gets nothing.
FuelsOn(src, d) ==
    LET elexon == kind = "elexon"
        g == [f \in {Wind, Solar, Other} |->
                IF elexon /\ f = Wind
                THEN AddTo(On(src, Wind, d), On(src, "ewind", d))
                ELSE IF elexon /\ f = Solar THEN On(src, "esolar", d)
                ELSE On(src, f, d)]
    IN  [f \in {x \in DOMAIN g : /\ elexon => Areas[1] \in DOMAIN src
                                 /\ DOMAIN g[x] # {}} |-> g[f]]

\* Elexon subtracts what it has in every hour of demand; the others need a leg.
ResidualOn(src, d) ==
    LET load == LoadOn(src, d)
        gen == FuelsOn(src, d)
    IN  IF kind = "elexon"
        THEN [h \in DOMAIN load |-> load[h] - At(Leg(gen, Wind), h) - At(Leg(gen, Solar), h)]
        ELSE build_hourly_forecast(load, gen)

DaysWith(src) == {d \in Days : DOMAIN LoadOn(src, d) # {} \/ DOMAIN FuelsOn(src, d) # {}}
RowOn(src, d) == daily_from_hours(LoadOn(src, d), FuelsOn(src, d))

\* A commit: what it writes, for which days, and the data.
Item(s, data) == [what |-> s, days |-> {d \in Days : DOMAIN data[d] # {}}, data |-> data]
Daily == [what |-> "daily",
          days |-> IF kind = "forecast" THEN DaysWith(got)
                   ELSE days_to_derive(DaysWith(got), today),
          data |-> [d \in Days |-> RowOn(got, d)]]
Load == Item("load", [d \in Days |-> LoadOn(got, d)])
Fuel(f) == Item(f, [d \in Days |-> Leg(FuelsOn(got, d), f)])
Residual == Item("residual", [d \in Days |-> ResidualOn(got, d)])
Embedded(l) ==
    Item(l, [d \in Days |-> IF Areas[1] \in DOMAIN got THEN On(got, l, d) ELSE <<>>])
\* The legs of the forecast are stored for the hours of its load.
Within(i) == Item(i.what, [d \in Days |->
                [h \in DOMAIN i.data[d] \cap DOMAIN LoadOn(got, d) |-> i.data[d][h]]])

\* A series without hours is not written.
IfAny(item) == IF item.days = {} THEN <<>> ELSE <<item>>

\* The commits of a run in the order of the code.
CommitsOf ==
    IF kind = "grid"
    THEN <<Daily>> \o IfAny(Load) \o IfAny(Fuel(Wind)) \o IfAny(Fuel(Solar))
                   \o IfAny(Fuel(Other)) \o IfAny(Residual)
    ELSE IF kind = "forecast"
    THEN <<Daily>> \o IfAny(Load) \o IfAny(Within(Fuel(Wind)))
                   \o IfAny(Within(Fuel(Solar))) \o IfAny(Residual)
    ELSE IF kind = "total"
    THEN IfAny(Load)
    ELSE IfAny(Embedded("ewind")) \o IfAny(Embedded("esolar")) \o IfAny(Load)
         \o IfAny(Fuel(Wind)) \o IfAny(Fuel(Solar)) \o IfAny(Fuel(Other))
         \o IfAny(Residual) \o <<Daily>>

Derive ==
    /\ pc = "fetch" /\ todo = <<>>
    /\ pc' = "write"
    /\ queue' = CommitsOf
    /\ UNCHANGED <<kind, today, pub, tables, todo, got, publications, faults>>

-----------------------------------------------------------------------------
(* The commits *)

\* _upsert_grid: every column is written, a None too.
_upsert_grid(old, row) == row

\* ingest_load_forecast: a row needs a load to begin with, and a missing leg
\* leaves its column alone.
UpsertForecast(old, row) ==
    LET new == [load |-> row.load, wind |-> row.wind, solar |-> row.solar]
    IN  IF old = None THEN IF row.load = None THEN None ELSE new
        ELSE [c \in DOMAIN new |-> IF new[c] = None THEN old[c] ELSE new[c]]

\* _upsert_generation_mix: the fuels of the day; a fuel it had before stays.
_upsert_generation_mix(old, new) == Over(new, old)

CommitDaily ==
    /\ pc = "write" /\ queue # <<>> /\ Head(queue).what = "daily"
    /\ LET item == Head(queue)
       IN  /\ rows' = [d \in Days |->
                 IF d \notin item.days THEN rows[d]
                 ELSE IF kind = "forecast" THEN UpsertForecast(rows[d], item.data[d])
                 ELSE _upsert_grid(rows[d], item.data[d])]
           /\ mix' = [d \in Days |->
                 IF d \in item.days /\ kind # "forecast"
                 THEN _upsert_generation_mix(mix[d], item.data[d].mix) ELSE mix[d]]
    /\ queue' = Tail(queue)
    /\ UNCHANGED <<kind, today, pub, hourly, todo, got, pc, publications, faults>>

\* A variant in which an hour that is stored stays as it is.
CommitNewHoursOnly ==
    /\ pc = "write" /\ queue # <<>> /\ Head(queue).what # "daily"
    /\ LET item == Head(queue)
       IN  hourly' = [hourly EXCEPT ![item.what] =
                        [d \in Days |-> IF d \in item.days
                                        THEN Over(@[d], item.data[d]) ELSE @[d]]]
    /\ queue' = Tail(queue)
    /\ UNCHANGED <<kind, today, pub, rows, mix, todo, got, pc, publications, faults>>

\* upsert_day_hours of one series (HourlyStore has its inside).
CommitSeries ==
    /\ pc = "write" /\ queue # <<>> /\ Head(queue).what # "daily"
    /\ LET item == Head(queue)
       IN  hourly' = [hourly EXCEPT ![item.what] =
                        [d \in Days |-> IF d \in item.days
                                        THEN Over(item.data[d], @[d]) ELSE @[d]]]
    /\ queue' = Tail(queue)
    /\ UNCHANGED <<kind, today, pub, rows, mix, todo, got, pc, publications, faults>>

\* A commit raises, or the process is killed: what was committed stays.
Abandon ==
    /\ pc # "idle"
    /\ faults < MaxFaults
    /\ faults' = faults + 1
    /\ pc' = "idle" /\ todo' = <<>> /\ got' = <<>> /\ queue' = <<>>
    /\ UNCHANGED <<kind, today, pub, tables, publications>>

EndRun ==
    /\ pc = "write" /\ queue = <<>>
    /\ pc' = "idle" /\ got' = <<>>
    /\ UNCHANGED <<kind, today, pub, tables, todo, queue, publications, faults>>

\* scripts/rederive_daily.py: the rows of finished days from the hourly store,
\* one transaction a month; rows of days that are not over are deleted.
StoredFuels(d) ==
    [f \in {x \in {Wind, Solar, Other} : DOMAIN hourly[x][d] # {}} |-> hourly[f][d]]
rederive ==
    /\ kind \in {"grid", "elexon"} /\ pc = "idle"
    /\ LET with == {d \in Days : DOMAIN hourly["load"][d] # {}
                                 \/ DOMAIN StoredFuels(d) # {}}
           Row(d) == daily_from_hours(hourly["load"][d], StoredFuels(d))
       IN  /\ rows' = [d \in Days |-> IF d \notin with THEN rows[d]
                                      ELSE IF d >= today THEN None ELSE Row(d)]
           /\ mix' = [d \in Days |-> IF d \notin with THEN mix[d]
                                     ELSE IF d >= today THEN <<>>
                                     ELSE _upsert_generation_mix(mix[d], Row(d).mix)]
    /\ UNCHANGED <<kind, today, pub, hourly, todo, got, queue, pc, publications, faults>>

Work == Start \/ FetchOk \/ Derive \/ CommitDaily \/ CommitSeries \/ EndRun
Next == \/ \E l \in DOMAIN pub, d \in Days, h \in Hours : Publish(l, d, h)
        \/ Midnight \/ Work \/ FetchFails \/ Abandon \/ rederive

\* The scheduler starts the next run, and a run that is going proceeds: its
\* requests time out and its commits return.
Fairness == WF_vars(Work) /\ WF_vars(Midnight)
Spec == Init /\ [][Next]_vars /\ Fairness

-----------------------------------------------------------------------------
(* Properties *)

\* A sum of one published value of every component of the zone.
FullSum(v) ==
    \E f \in [DOMAIN Areas -> UNION {Values[Areas[i]] : i \in DOMAIN Areas}] :
        /\ \A i \in DOMAIN Areas : f[i] \in Values[Areas[i]]
        /\ v = Sum(f)

\* An hour of load.actual is the sum of one published value of EVERY component
\* of the zone (sum_component_load_hourly): whatever fetch fails and whichever
\* hours a component has, half of an island's demand is never stored as all.
NoPartialLoad ==
    kind = "grid" =>
        \A d \in Days : \A h \in DOMAIN hourly["load"][d] : FullSum(hourly["load"][d][h])

\* The two residuals agree (daily_from_hours, build_hourly_forecast): on a day
\* whose share may be claimed and that has a renewable leg in every hour, the
\* mean of the hourly residuals is the residual of the daily row, although a
\* fuel may be published for some hours only.
DailyMeansAgree ==
    kind \in {"grid", "elexon"} =>
        \A d \in DaysWith(got) :
            LET row == RowOn(got, d)
                r == ResidualOn(got, d)
            IN  (share_is_claimable(row) /\ DOMAIN r = Hours) =>
                    row.residual.num * HOURS_PER_DAY = Sum(r) * row.residual.den

\* What the tables say once everything published has been taken in.
Reflects(d) ==
    /\ hourly["load"][d] = LoadOn(pub, d)
    /\ kind # "total" => hourly["residual"][d] = ResidualOn(pub, d)
    /\ kind \in {"grid", "elexon"} =>
        /\ StoredFuels(d) = FuelsOn(pub, d)
        /\ d \in days_to_derive(DaysWith(pub), today) =>
            /\ rows[d] = daily_from_hours(hourly["load"][d], StoredFuels(d))
            /\ mix[d] = rows[d].mix
    /\ (kind = "forecast" /\ DOMAIN LoadOn(pub, d) # {}) =>
        rows[d] = UpsertForecast(None, RowOn(pub, d))

\* Once the sources and the faults are done, later runs bring the hourly series,
\* the daily rows and the mix to what was published, and they stay there:
\* whatever documents were missing and wherever runs were cut off before.
Converges == <>[](\A d \in Days : Reflects(d))

=============================================================================
