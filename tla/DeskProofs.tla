---------------------------- MODULE DeskProofs ----------------------------
(*****************************************************************************)
(* The theorems of DeskSpec, and those stated with the reference definitions *)
(* of DeskMC.  CaptureOfMonth, GroupRunsFinds, MapOfAnyOrder, RadarIsDesk    *)
(* and YearsNamed hold of any series, messages and record; the theorems of   *)
(* DeskSpec read the invariants of DeskMC off them and off FigureProofs.     *)
(*****************************************************************************)
EXTENDS DeskMC, FigureProofs

\* A case is picked once.
LEMMA AskedStays == ASSUME [DeskNext]_<<input, parsed, deskVars>> PROVE asked' = asked
BY DEF DeskNext, ParseDocument, deskVars, Ask, AskSample, AskOther, CacheOverview, ServeOverview, Pass

-----------------------------------------------------------------------------
(* Capture prices: the dicts and the database *)

\* The figures of the database are the same, month by month.
THEOREM CaptureOfMonth ==
    ASSUME NEW p, NEW g, IsPrice(p), IsGeneration(g), NEW m, NEW dicts, NEW sql,
           dicts = capture_metrics(OfMonth(p, m), OfMonth(g, m)), sql = _aggregate(p, g, 0)
    PROVE  /\ (dicts = None) = (m \notin DOMAIN sql)
           /\ dicts # None => /\ SameFigures(dicts, sql[m])
                              /\ AtMost(dicts.capture_price, dicts.capture_price_floor0)
<1>1. PICK H, rows : H = CommonHours(p, g, m) /\ rows = FuelRows(p, g, m)
  OBVIOUS
<1>2. PICK total, fig : total = Total(g, H) /\ fig = MonthFigures(p, g, H)
  OBVIOUS
<1>3. /\ IsFiniteSet(H) /\ H \subseteq DOMAIN p \cap DOMAIN g
      /\ \A h \in H : p[h] \in Int /\ g[h] \in Nat
  BY <1>1, RowsAreHours
<1>4. total \in Int /\ (total <= 0 => dicts = None) /\ (total > 0 => dicts = fig)
  BY <1>1, <1>2, DictFigures
<1>5. FuelGen(rows) = total /\ FuelFigures(rows) = fig
  <2>1. FuelGen(rows) = Total(g, H) /\ FuelFigures(rows) = MonthFigures(p, g, H)
    BY <1>1, RowSums
  <2> QED
    BY <1>2, <2>1
<1>6. /\ m \in DOMAIN sql <=> (m \in {MonthOf(DayOfHour(h)) : h \in DOMAIN g} /\ total > 0)
      /\ m \in DOMAIN sql => sql[m] = fig
  BY <1>1, <1>5 DEF _aggregate, FuelRows
<1>7. total > 0 => m \in {MonthOf(DayOfHour(h)) : h \in DOMAIN g}
  <2>1. H = {} => total = 0
    BY <1>2, TotalEmpty
  <2>2. H # {} => m \in {MonthOf(DayOfHour(h)) : h \in DOMAIN g}
    BY <1>1 DEF CommonHours, MonthOfHour
  <2> QED
    BY <2>1, <2>2
<1>8. PICK money, floored, negative :
        /\ money = Total([h \in H |-> p[h] * g[h]], H)
        /\ floored = Total([h \in H |-> Positive(p[h]) * g[h]], H)
        /\ negative = Total(g, {h \in H : p[h] < 0})
  OBVIOUS
<1>9. money \in Int /\ floored \in Int /\ negative \in Int /\ money <= floored
  <2>1. PICK a, b : /\ a = [h \in H |-> p[h] * g[h]]
                    /\ b = [h \in H |-> Positive(p[h]) * g[h]]
    OBVIOUS
  <2>2. ASSUME NEW h \in H PROVE a[h] \in Int /\ b[h] \in Int /\ a[h] <= b[h]
    <3>1. PICK x, y : x = p[h] /\ y = g[h]
      OBVIOUS
    <3>2. x \in Int /\ y \in Nat
      BY <1>3, <3>1
    <3>3. a[h] = x * y /\ b[h] = Positive(x) * y
      BY <2>1, <3>1
    <3>4. CASE x > 0
      BY <3>2, <3>3, <3>4 DEF Positive
    <3>5. CASE ~(x > 0)
      <4>1. b[h] = 0
        BY <3>2, <3>3, <3>5 DEF Positive
      <4>2. x * y <= 0
        BY <3>2, <3>5
      <4> QED
        BY <3>2, <3>3, <4>1, <4>2
    <3> QED
      BY <3>4, <3>5
  <2>3. money \in Int /\ floored \in Int /\ money <= floored
    BY <1>3, <1>8, <2>1, <2>2, TotalType, TotalMonotone
  <2>4. PICK N : N = {h \in H : p[h] < 0}
    OBVIOUS
  <2>5. IsFiniteSet(N) /\ \A h \in N : g[h] \in Int
    BY <1>3, <2>4, FS_Subset
  <2> QED
    BY <1>8, <2>3, <2>4, <2>5, TotalType
<1>10. PICK hours, days, count : 
        fig = [hours |-> hours, days |-> days, capture_price |-> Ratio(money, total),
               capture_price_floor0 |-> Ratio(floored, total),
               negative_gen |-> Ratio(negative, total), negative_hours |-> count]
        /\ hours \in Nat /\ days \in Nat /\ count \in Nat
  <2>1. PICK D : D = [h \in H |-> DayOfHour(h)]
    OBVIOUS
  <2>2. {DayOfHour(h) : h \in H} = {D[h] : h \in H}
    BY <2>1
  <2>3. IsFiniteSet({DayOfHour(h) : h \in H})
    BY <1>3, <2>2, Images
  <2>4. IsFiniteSet({h \in H : p[h] < 0 /\ g[h] > 0})
    <3>1. {h \in H : p[h] < 0 /\ g[h] > 0} \in SUBSET H
      OBVIOUS
    <3> QED
      BY <1>3, <3>1, FS_Subset
  <2> QED
    BY <1>2, <1>3, <1>8, <2>3, <2>4, FS_CardinalityType DEF MonthFigures
<1>11. CASE total > 0
  <2>1. sql[m] = fig /\ dicts = fig /\ m \in DOMAIN sql
    BY <1>4, <1>6, <1>7, <1>11
  <2>2. SameFigures(dicts, sql[m])
    <3>1. \A a, b \in Int : Same(Ratio(a, b), Ratio(a, b))
      BY DEF Same, Ratio
    <3> QED
      BY <1>4, <1>9, <1>10, <2>1, <3>1 DEF SameFigures
  <2>3. AtMost(dicts.capture_price, dicts.capture_price_floor0)
    <3>1. money * total <= floored * total
      BY <1>4, <1>9, <1>11
    <3> QED
      BY <1>10, <2>1, <3>1 DEF AtMost, Ratio
  <2>4. dicts # None
    <3>1. fig \in CaptureFigures
      BY <1>4, <1>9, <1>10 DEF CaptureFigures, Ratios, Ratio
    <3> QED
      BY <2>1, <3>1, FiguresAssumption DEF FiguresAssumption
  <2> QED
    BY <2>1, <2>2, <2>3, <2>4
<1>12. CASE ~(total > 0)
  BY <1>4, <1>6, <1>12
<1> QED
  BY <1>11, <1>12

-----------------------------------------------------------------------------
(* Episodes: the scan finds the maximal runs *)

\* The runs that EpisodesMatch asks for are the runs the scan finds.
LEMMA RunsAreRuns ==
    ASSUME NEW G \in SUBSET Int, IsFiniteSet(G)
    PROVE  /\ RunsOf(G) = AllRuns(G)
           /\ \A R \in AllRuns(G) : Min(R) \in Int /\ Max(R) \in Int /\ Min(R) <= Max(R)
<1>1. ASSUME NEW R \in SUBSET G, NEW a \in Int, NEW b \in Int, IsRun(G, R, a, b)
      PROVE  a = Min(R) /\ b = Max(R) /\ a <= b
  <2>1. a \in R /\ b \in R /\ R \in SUBSET Int /\ \A x \in R : a <= x /\ x <= b
    BY <1>1 DEF IsRun, OpenRun
  <2> QED
    BY <2>1, EndsAre
<1>2. ASSUME NEW R \in SUBSET G, R # {}
      PROVE  Min(R) \in R /\ Max(R) \in R
  <2>1. R \in SUBSET Int /\ IsFiniteSet(R)
    BY FS_Subset
  <2>2. PICK a \in R, b \in R : \A x \in R : a <= x /\ x <= b
    BY <1>2, <2>1, HasEnds
  <2> QED
    BY <2>1, <2>2, EndsAre
<1>3. ASSUME NEW R \in SUBSET G
      PROVE  R \in RunsOf(G) <=> R # {} /\ IsRun(G, R, Min(R), Max(R))
  <2>1. CASE R = {}
    BY <2>1 DEF RunsOf
  <2>2. CASE R # {}
    <3>1. PICK a, b : a = Min(R) /\ b = Max(R)
      OBVIOUS
    <3>2. a \in R /\ b \in R /\ a \in Int /\ b \in Int
      BY <1>2, <2>2, <3>1
    <3>3. R \in RunsOf(G) <=> /\ R = G \cap (a..b)
                              /\ \A x \in a..(b - 1) : {x, x + 1} \cap R # {}
                              /\ G \cap {a - 2, a - 1, b + 1, b + 2} = {}
      BY <2>2, <3>1 DEF RunsOf
    <3>4. IsRun(G, R, a, b) <=> /\ R = G \cap (a..b)
                                /\ \A x \in a..(b - 1) : x \in R \/ x + 1 \in R
                                /\ a - 1 \notin G /\ a - 2 \notin G /\ b + 1 \notin G /\ b + 2 \notin G
      BY <3>2 DEF IsRun, OpenRun
    <3>5. (\A x \in a..(b - 1) : {x, x + 1} \cap R # {}) <=> (\A x \in a..(b - 1) : x \in R \/ x + 1 \in R)
      OBVIOUS
    <3>6. G \cap {a - 2, a - 1, b + 1, b + 2} = {}
             <=> a - 1 \notin G /\ a - 2 \notin G /\ b + 1 \notin G /\ b + 2 \notin G
      OBVIOUS
    <3> QED
      BY <2>2, <3>1, <3>3, <3>4, <3>5, <3>6
  <2> QED
    BY <2>1, <2>2
<1>4. ASSUME NEW R \in SUBSET G
      PROVE  R \in AllRuns(G) <=> R # {} /\ IsRun(G, R, Min(R), Max(R))
  <2>1. R \in AllRuns(G) <=> \E a, b \in Int : IsRun(G, R, a, b)
    BY DEF AllRuns
  <2>2. R # {} => Min(R) \in Int /\ Max(R) \in Int
    BY <1>2
  <2>3. \A a, b \in Int : IsRun(G, R, a, b) => R # {} /\ a = Min(R) /\ b = Max(R)
    BY <1>1 DEF IsRun, OpenRun
  <2> QED
    BY <2>1, <2>2, <2>3
<1>5. RunsOf(G) \in SUBSET (SUBSET G) /\ AllRuns(G) \in SUBSET (SUBSET G)
  BY DEF RunsOf, AllRuns
<1>6. RunsOf(G) = AllRuns(G)
  BY <1>3, <1>4, <1>5
<1>7. ASSUME NEW R \in AllRuns(G) PROVE Min(R) \in Int /\ Max(R) \in Int /\ Min(R) <= Max(R)
  <2>1. R \in SUBSET G /\ R # {} /\ IsRun(G, R, Min(R), Max(R))
    BY <1>4, <1>5
  <2>2. Min(R) \in Int /\ Max(R) \in Int
    BY <1>2, <2>1
  <2> QED
    BY <1>1, <2>1, <2>2
<1> QED
  BY <1>6, <1>7

\* group_runs finds the maximal runs of the qualifying days: every one that is
\* long enough and populated, and nothing else.
THEOREM GroupRunsFinds ==
    ASSUME NEW f, DOMAIN f \in SUBSET Int, IsFiniteSet(DOMAIN f),
           NEW qualifying, NEW holes, NEW lowest, NEW G, G = (qualifying \cap DOMAIN f) \ holes
    PROVE  SpansOf(group_runs(f, qualifying, holes, lowest)) = Spans(G)
<1>1. G \in SUBSET (DOMAIN f) /\ G \in SUBSET Int /\ IsFiniteSet(G)
  BY FS_Subset
<1>2. CASE DOMAIN f = {}
  <2>1. group_runs(f, qualifying, holes, lowest) = {}
    BY <1>2 DEF group_runs
  <2>2. RunsOf(G) = {}
    BY <1>1, <1>2 DEF RunsOf
  <2> QED
    BY <2>1, <2>2 DEF SpansOf, Spans
<1>3. CASE DOMAIN f # {}
  <2>1. PICK lo \in Int, last \in Int : /\ lo = Min(DOMAIN f) /\ last = Max(DOMAIN f)
                                       /\ \A d \in DOMAIN f : lo <= d /\ d <= last
    <3>1. PICK a \in DOMAIN f, b \in DOMAIN f : \A x \in DOMAIN f : a <= x /\ x <= b
      BY <1>3, HasEnds
    <3>2. Min(DOMAIN f) = a /\ Max(DOMAIN f) = b
      BY <3>1, EndsAre
    <3> QED
      BY <3>1, <3>2
  <2>2. PICK s, closed : s = ScanState(f, G, last) /\ closed = ClosedRuns(s)
    OBVIOUS
  <2>3. closed = RunsOf(G)
    <3>1. s = RunScan(G, lo, last)
      BY <2>1, <2>2, ScanIsRunScan
    <3>2. PICK n \in Nat : last = (lo - 1) + n
      <4>1. lo <= last /\ last - (lo - 1) \in Nat /\ last = (lo - 1) + (last - (lo - 1))
        BY <1>3, <2>1
      <4> QED
        BY <4>1
    <3>3. \A d \in G : lo <= d /\ d <= last
      BY <1>1, <2>1
    <3>4. closed = AllRuns(G)
      <4>1. ClosedRuns(RunScan(G, lo, last)) = AllRuns(G)
        BY <1>1, <3>2, <3>3, ScanFindsRuns, ZenonT(30)
      <4> QED
        BY <2>2, <3>1, <4>1
    <3> QED
      BY <1>1, <3>4, RunsAreRuns
  <2>4. group_runs(f, qualifying, holes, lowest)
          = {r \in {_close(days, f, lowest) : days \in closed} :
                r.days >= MIN_DURATION_DAYS /\ AtMost(MIN_POPULATED, r.populated)}
    BY <1>3, <2>1, <2>2 DEF group_runs, ClosedRuns
  <2>5. ASSUME NEW R \in closed, NEW r, r = _close(R, f, lowest)
        PROVE  /\ (r.days >= MIN_DURATION_DAYS /\ AtMost(MIN_POPULATED, r.populated))
                     <=> (Max(R) > Min(R) /\ 10 * Cardinality(R) >= 8 * (Max(R) - Min(R) + 1))
               /\ <<r.start, r.end>> = <<Min(R), Max(R)>>
    <3>1. PICK a \in Int, b \in Int : a = Min(R) /\ b = Max(R)
      BY <1>1, <2>3, <2>5, RunsAreRuns
    <3>2. PICK n \in Nat : n = Cardinality(R)
      <4>1. R \in SUBSET G
        BY <2>3, <2>5 DEF RunsOf
      <4> QED
        BY <1>1, <4>1, FS_Subset, FS_CardinalityType
    <3>3. r.start = a /\ r.end = b /\ r.days = b - a + 1 /\ r.populated = Ratio(n, b - a + 1)
      BY <2>5, <3>1, <3>2, CloseFields
    <3>4. r.days >= MIN_DURATION_DAYS <=> b > a
      BY <3>3 DEF MIN_DURATION_DAYS
    <3>5. AtMost(MIN_POPULATED, r.populated) <=> 10 * n >= 8 * (b - a + 1)
      BY <3>3 DEF AtMost, MIN_POPULATED, Ratio
    <3> QED
      BY <3>1, <3>2, <3>3, <3>4, <3>5
  <2>6. PICK Ends, Kept : /\ Ends = [R \in closed |-> _close(R, f, lowest)]
                          /\ Kept = {R \in closed : /\ Max(R) > Min(R)
                                                    /\ 10 * Cardinality(R) >= 8 * (Max(R) - Min(R) + 1)}
    OBVIOUS
  <2>7. SpansOf(group_runs(f, qualifying, holes, lowest)) = {<<Min(R), Max(R)>> : R \in Kept}
    <3>1. group_runs(f, qualifying, holes, lowest)
            = {r \in {Ends[R] : R \in closed} :
                  r.days >= MIN_DURATION_DAYS /\ AtMost(MIN_POPULATED, r.populated)}
      BY <2>4, <2>6
    <3>2. group_runs(f, qualifying, holes, lowest) = {Ends[R] : R \in Kept}
      BY <2>5, <2>6, <3>1
    <3>3. \A R \in Kept : <<Ends[R].start, Ends[R].end>> = <<Min(R), Max(R)>>
      BY <2>5, <2>6
    <3> QED
      BY <3>2, <3>3 DEF SpansOf
  <2> QED
    BY <2>3, <2>6, <2>7 DEF Spans
<1> QED
  BY <1>2, <1>3

-----------------------------------------------------------------------------
(* The cases *)

\* What kind of case there is.
LEMMA KindOfCase ==
    ASSUME DeskInit
    PROVE  /\ asked.kind = "hours" => asked \in HourCases
           /\ asked.kind = "grid" => asked \in GridCases
           /\ asked.kind = "price" => asked \in PriceCases
           /\ asked.kind = "outages" => asked \in OutageCases
           /\ asked.kind = "ask" => asked \in AskCases
           /\ asked.kind = "gas" => asked \in GasCases
<1>1. NoCase.kind = "none"
  BY DEF NoCase, Case
<1>2. \A c \in Samples : c.kind = "sample"
  BY DEF Samples, Case
<1>3. \A c \in AskCases : c.kind = "ask"
  BY DEF AskCases, Case
<1>4. \A c \in GasCases : c.kind = "gas"
  BY DEF GasCases, GasCase
<1>5. \A c \in FlagCases : c.kind = "flags"
  BY DEF FlagCases
<1>6. \A c \in GridCases : c.kind = "grid"
  BY DEF GridCases, Case
<1>7. \A c \in PriceCases : c.kind = "price"
  BY DEF PriceCases, Case
<1>8. \A c \in HourCases : c.kind = "hours"
  BY DEF HourCases, Case
<1>9. \A c \in OutageCases : c.kind = "outages"
  BY DEF OutageCases, Case
<1> QED
  BY <1>1, <1>2, <1>3, <1>4, <1>5, <1>6, <1>7, <1>8, <1>9 DEF DeskInit, Cases

\* The series of the cases.
SeriesOnRecord ==
    asked.kind = "hours" => /\ IsPrice(asked.f) /\ IsGeneration(asked.g)
                            /\ DOMAIN asked.f \subseteq 0..3

\* A set of few hours has finite subsets, and so have the series on it.
LEMMA PartialSeries ==
    ASSUME NEW n \in Nat, NEW V, NEW f \in Partial(0..n, V)
    PROVE  DOMAIN f \subseteq 0..n /\ IsFiniteSet(DOMAIN f) /\ \A h \in DOMAIN f : f[h] \in V
<1>1. PICK S \in SUBSET (0..n) : f \in [S -> V]
  BY DEF Partial
<1>2. IsFiniteSet(0..n)
  BY FS_Interval
<1>3. IsFiniteSet(S)
  BY <1>2, FS_Subset
<1> QED
  BY <1>1, <1>3

\* Every case with hours has a price and a generation.
LEMMA CasesHaveSeries == ASSUME DeskInit PROVE SeriesOnRecord
<1> SUFFICES ASSUME asked.kind = "hours"
             PROVE  IsPrice(asked.f) /\ IsGeneration(asked.g) /\ DOMAIN asked.f \subseteq 0..3
  BY DEF SeriesOnRecord
<1>1. asked \in HourCases
  BY KindOfCase
<1>2. PICK f \in Partial(0..3, {-4, 1}), g \in Partial(0..3, {0, 7}) : asked = Case("hours", Empty, f, g)
  BY <1>1 DEF HourCases
<1>3. asked.f = f /\ asked.g = g
  BY <1>2 DEF Case
<1>4. IsPrice(f) /\ DOMAIN f \subseteq 0..3
  <2>1. DOMAIN f \subseteq 0..3 /\ IsFiniteSet(DOMAIN f) /\ \A h \in DOMAIN f : f[h] \in {-4, 1}
    BY PartialSeries
  <2> QED
    BY <2>1 DEF IsPrice
<1>5. IsGeneration(g)
  <2>1. DOMAIN g \subseteq 0..3 /\ IsFiniteSet(DOMAIN g) /\ \A h \in DOMAIN g : g[h] \in {0, 7}
    BY PartialSeries
  <2> QED
    BY <2>1 DEF IsGeneration
<1> QED
  BY <1>3, <1>4, <1>5

\* The capture figures of capture_metrics and of _FUEL_SQL are the same in every
\* month of every record (CaptureAgrees).
THEOREM CaptureComputedTwice == DeskSpec => []CaptureAgrees
<1>1. DeskInit => SeriesOnRecord
  BY CasesHaveSeries
<1>2. SeriesOnRecord /\ [DeskNext]_<<input, parsed, deskVars>> => SeriesOnRecord'
  BY AskedStays DEF SeriesOnRecord
<1>3. SeriesOnRecord => CaptureAgrees
  BY CaptureOfMonth, SMTT(30) DEF SeriesOnRecord, CaptureAgrees, OfMonth, MonthOfHour
<1> QED
  BY <1>1, <1>2, <1>3, PTL DEF DeskSpec

\* What is kept day by day and put together over a window is what the hours of
\* the window give (DaysPoolToHours).
THEOREM WindowsPool == DeskSpec => []DaysPoolToHours
<1>1. DeskInit => SeriesOnRecord
  BY CasesHaveSeries
<1>2. SeriesOnRecord /\ [DeskNext]_<<input, parsed, deskVars>> => SeriesOnRecord'
  BY AskedStays DEF SeriesOnRecord
<1>3. SeriesOnRecord => DaysPoolToHours
  <2> SUFFICES ASSUME SeriesOnRecord, asked.kind = "hours" PROVE DaysPoolToHours
    BY DEF DaysPoolToHours
  <2>1. PICK f, g : f = asked.f /\ g = asked.g
    OBVIOUS
  <2>2. IsPrice(f) /\ IsPrice(g) /\ DOMAIN f \subseteq 0..3
    BY <2>1 DEF SeriesOnRecord, IsGeneration, IsPrice
  <2>3. PICK both, gap, full, low, k : BandParts(f, g, both, gap, full, low, k)
    BY <2>2 DEF BandParts
  <2>4. PICK bias, mae, mse : HourErrors(f, g, both, bias, mae, mse)
    <3>1. PICK bias, mae, mse : /\ bias = [h \in both |-> f[h] - g[h]]
                                /\ mae = [h \in both |-> Abs(f[h] - g[h])]
                                /\ mse = [h \in both |-> (f[h] - g[h]) * (f[h] - g[h])]
      OBVIOUS
    <3> QED
      BY <2>2, <2>3, <3>1, SMTT(30) DEF HourErrors, BandParts
  <2>5. PICK bands : bands = compute_convergence(store_convergence(f, g))
    OBVIOUS
  <2>10. PICK window : window = aggregate_scores(ScoresOf(f, g, 0..3))
    OBVIOUS
  <2>11. PICK pooled : pooled = score_hours(f, g, both)
    OBVIOUS
  <2>6. \A h \in both : DayOfHour(h) <= 3
    <3>1. both \subseteq 0..3
      BY <2>2, <2>3 DEF BandParts
    <3> QED
      BY <3>1, HoursOfDay
  <2>7. /\ (both = {}) <=> (bands = None)
        /\ both # {} =>
             /\ bands.hours = Cardinality(both)
             /\ bands.full = Cardinality(full)
             /\ bands.moderate = Cardinality({h \in both : 1 < gap[h] /\ gap[h] <= 10})
             /\ Same(bands.mean_abs_spread, MeanOver(gap, both))
    BY <2>3, <2>5, BandsPool
  <2>8. /\ (both = {}) <=> (window = None)
        /\ both # {} => /\ window.n_hours = pooled.n_hours
                        /\ \A x \in {"mae", "bias", "mse"} : Same(window[x], pooled[x])
    <3>1. PICK n \in Nat : n = 3
      OBVIOUS
    <3>2. (\A h \in both : DayOfHour(h) <= n) /\ window = aggregate_scores(ScoresOf(f, g, 0..n))
      BY <2>6, <2>10, <3>1
    <3> QED
      BY <2>4, <2>11, <3>2, ScoresPool
  <2>9. /\ both = DOMAIN f \cap DOMAIN g /\ gap = [h \in both |-> Abs(f[h] - g[h])]
        /\ full = {h \in both : gap[h] <= 1}
    BY <2>3 DEF BandParts
  <2> QED
    BY <2>1, <2>5, <2>7, <2>8, <2>9, <2>10, <2>11 DEF DaysPoolToHours
<1> QED
  BY <1>1, <1>2, <1>3, PTL DEF DeskSpec

\* The records of the cases with days.
GridOnRecord == asked.kind = "grid" => DOMAIN asked.db.grid["z1"] = GridDays
PriceOnRecord ==
    asked.kind = "price" => /\ DOMAIN asked.db.price["z1"] \subseteq PriceDays
                            /\ \A d \in DOMAIN asked.db.price["z1"] : asked.db.price["z1"][d].neg \in Int

\* Every case of the instance is one of those.
LEMMA CasesHaveDays == ASSUME DeskInit PROVE GridOnRecord /\ PriceOnRecord
<1>0. "z1" \in Zones
  BY DeskAssumption
<1>1. ASSUME asked.kind = "grid" PROVE DOMAIN asked.db.grid["z1"] = GridDays
  <2>1. PICK g \in Grids, m \in Mixes : asked = Case("grid", GridDb(g, m), <<>>, <<>>)
    BY <1>1, KindOfCase DEF GridCases
  <2>2. asked.db = GridDb(g, m)
    BY <2>1 DEF Case
  <2>3. GridDb(g, m).grid = OnZ1(g)
    BY DEF GridDb, Empty
  <2>4. DOMAIN g = GridDays
    BY <2>1 DEF Grids
  <2> QED
    BY <1>0, <2>2, <2>3, <2>4 DEF OnZ1
<1>2. ASSUME asked.kind = "price"
      PROVE  /\ DOMAIN asked.db.price["z1"] \subseteq PriceDays
             /\ \A d \in DOMAIN asked.db.price["z1"] : asked.db.price["z1"][d].neg \in Int
  <2>1. PICK p \in Partial(PriceDays, PriceRow) : asked = Case("price", PriceDb(p), <<>>, <<>>)
    BY <1>2, KindOfCase DEF PriceCases
  <2>2. asked.db = PriceDb(p)
    BY <2>1 DEF Case
  <2>3. PriceDb(p).price = OnZ1(p)
    BY DEF PriceDb, Empty
  <2>4. asked.db.price["z1"] = p
    BY <1>0, <2>2, <2>3 DEF OnZ1
  <2>5. PICK S \in SUBSET PriceDays : p \in [S -> PriceRow]
    BY DEF Partial
  <2>6. \A r \in PriceRow : r.neg \in Int
    BY DEF PriceRow
  <2> QED
    BY <2>4, <2>5, <2>6
<1> QED
  BY <1>1, <1>2 DEF GridOnRecord, PriceOnRecord

\* The runs of dark days of a record with finitely many days.
LEMMA DarkRuns ==
    ASSUME NEW grid, DOMAIN grid \in SUBSET Int, IsFiniteSet(DOMAIN grid), NEW mix, NEW dark,
           dark = {d \in reliable_days(grid, mix, DOMAIN grid) :
                     is_dunkelflaute(Share(grid[d]), zone_thresholds(grid, MonthOfYear(d)))}
    PROVE  SpansOf(_runs_for_kind(grid, <<>>, mix, "dunkelflaute")) = Spans(dark)
<1>1. PICK reliable : reliable = reliable_days(grid, mix, DOMAIN grid)
  OBVIOUS
<1>2. PICK f : f = [d \in {x \in DOMAIN grid : HasLoad(grid[x])} |-> Share(grid[d])]
  OBVIOUS
<1>3. PICK q, holes : /\ q = {d \in DOMAIN f : is_dunkelflaute(f[d], zone_thresholds(grid, MonthOfYear(d)))}
                      /\ holes = DOMAIN grid \ reliable
  OBVIOUS
<1>4. _runs_for_kind(grid, <<>>, mix, "dunkelflaute") = group_runs(f, q, holes, TRUE)
  BY <1>1, <1>2, <1>3 DEF _runs_for_kind, _dunkelflaute_runs
<1>5. DOMAIN f \in SUBSET DOMAIN grid
  BY <1>2
<1>6. DOMAIN f \in SUBSET Int /\ IsFiniteSet(DOMAIN f)
  BY <1>5, FS_Subset
<1>7. ASSUME NEW d PROVE d \in dark <=> d \in (q \cap DOMAIN f) \ holes
  <2>1. d \in reliable <=> d \in DOMAIN grid /\ HasLoad(grid[d]) /\ renewable_share_reliable(mix, d, grid[d].load)
    BY <1>1 DEF reliable_days
  <2>2. d \in DOMAIN f <=> d \in DOMAIN grid /\ HasLoad(grid[d])
    BY <1>2
  <2>3. d \in DOMAIN f => f[d] = Share(grid[d])
    BY <1>2
  <2>4. d \in dark <=> d \in reliable /\ is_dunkelflaute(Share(grid[d]), zone_thresholds(grid, MonthOfYear(d)))
    BY <1>1
  <2>5. d \in q <=> d \in DOMAIN f /\ is_dunkelflaute(f[d], zone_thresholds(grid, MonthOfYear(d)))
    BY <1>3
  <2>6. d \in holes <=> d \in DOMAIN grid /\ d \notin reliable
    BY <1>3
  <2> QED
    BY <2>1, <2>2, <2>3, <2>4, <2>5, <2>6
<1>8. dark = (q \cap DOMAIN f) \ holes
  BY <1>7
<1> QED
  BY <1>4, <1>6, <1>8, GroupRunsFinds, ZenonT(30)

\* The runs of days with negative prices of a record with finitely many days.
LEMMA NegativeRuns ==
    ASSUME NEW price, DOMAIN price \in SUBSET Int, IsFiniteSet(DOMAIN price),
           \A d \in DOMAIN price : price[d].neg \in Int, NEW days,
           days = {d \in DOMAIN price : price[d].neg >= NEGATIVE_HOURS_MIN}
    PROVE  SpansOf(_runs_for_kind(<<>>, price, <<>>, "negative_prices")) = Spans(days)
<1>1. PICK f : f = [d \in {x \in DOMAIN price : price[x].neg # None} |-> price[d].neg]
  OBVIOUS
<1>2. PICK q : q = {d \in DOMAIN f : f[d] >= NEGATIVE_HOURS_MIN}
  OBVIOUS
<1>3. _runs_for_kind(<<>>, price, <<>>, "negative_prices") = group_runs(f, q, {}, FALSE)
  BY <1>1, <1>2 DEF _runs_for_kind, _price_runs
<1>4. DOMAIN f = DOMAIN price /\ \A d \in DOMAIN price : f[d] = price[d].neg
  BY <1>1, NoneAssumption
<1>5. PICK holes : holes = {}
  OBVIOUS
<1>6. days = (q \cap DOMAIN f) \ holes
  BY <1>2, <1>4, <1>5
<1>7. DOMAIN f \in SUBSET Int /\ IsFiniteSet(DOMAIN f)
  BY <1>4
<1>8. SpansOf(group_runs(f, q, holes, FALSE)) = Spans(days)
  BY <1>6, <1>7, GroupRunsFinds
<1> QED
  BY <1>3, <1>5, <1>8

\* The runs the episodes job stores are the maximal runs of qualifying days
\* (EpisodesMatch).
THEOREM EpisodesAreRuns == DeskSpec => []EpisodesMatch
<1> DEFINE Inv == GridOnRecord /\ PriceOnRecord
<1>1. DeskInit => Inv
  BY CasesHaveDays
<1>2. Inv /\ [DeskNext]_<<input, parsed, deskVars>> => Inv'
  BY AskedStays DEF GridOnRecord, PriceOnRecord
<1>3. Inv => EpisodesMatch
  <2> SUFFICES ASSUME GridOnRecord, PriceOnRecord PROVE EpisodesMatch
    OBVIOUS
  <2>1. ASSUME asked.kind = "grid", NEW grid, grid = asked.db.grid["z1"], NEW mix, mix = asked.db.mix["z1"],
               NEW dark,
               dark = {d \in reliable_days(grid, mix, GridDays) :
                         is_dunkelflaute(Share(grid[d]), zone_thresholds(grid, MonthOfYear(d)))}
        PROVE  SpansOf(_runs_for_kind(grid, <<>>, mix, "dunkelflaute")) = Spans(dark)
    <3>1. DOMAIN grid = GridDays
      BY <2>1 DEF GridOnRecord
    <3>2. DOMAIN grid \in SUBSET Int /\ IsFiniteSet(DOMAIN grid)
      BY <3>1, DeskAssumption
    <3> QED
      BY <2>1, <3>1, <3>2, DarkRuns
  <2>2. ASSUME asked.kind = "price", NEW price, price = asked.db.price["z1"], NEW days,
               days = {d \in DOMAIN price : price[d].neg >= NEGATIVE_HOURS_MIN}
        PROVE  SpansOf(_runs_for_kind(<<>>, price, <<>>, "negative_prices")) = Spans(days)
    <3>1. DOMAIN price \subseteq PriceDays /\ \A d \in DOMAIN price : price[d].neg \in Int
      BY <2>2 DEF PriceOnRecord
    <3>2. DOMAIN price \in SUBSET Int /\ IsFiniteSet(DOMAIN price)
      <4>1. PriceDays \subseteq Nat /\ IsFiniteSet(PriceDays) /\ DOMAIN price \in SUBSET PriceDays
        BY <3>1, DeskAssumption
      <4>2. PICK T : T = DOMAIN price
        OBVIOUS
      <4>5. \A x \in T : x \in PriceDays
        BY <4>1, <4>2
      <4>6. \A x \in PriceDays : x \in Int
        BY <4>1
      <4>3. T \in SUBSET PriceDays /\ T \in SUBSET Int
        BY <4>5, <4>6
      <4>4. IsFiniteSet(T)
        BY <4>1, <4>3, FS_Subset
      <4> QED
        BY <4>2, <4>3, <4>4
    <3> QED
      BY <2>2, <3>1, <3>2, NegativeRuns
  <2> QED
    BY <2>1, <2>2 DEF EpisodesMatch
<1> QED
  BY <1>1, <1>2, <1>3, PTL DEF DeskSpec

-----------------------------------------------------------------------------
(* The map of line outages: reports in any order *)

\* An order of a finite set is a sequence of its elements, and there is one.
LEMMA OrdersAre ==
    ASSUME NEW S, IsFiniteSet(S)
    PROVE  /\ Orders(S) # {}
           /\ \A s \in Orders(S) : /\ Len(s) \in Nat /\ DOMAIN s = 1..Len(s)
                                   /\ \A i \in 1..Len(s) : s[i] \in S
                                   /\ \A x \in S : \E i \in 1..Len(s) : s[i] = x
<1>1. PICK n \in Nat : n = Cardinality(S)
  BY FS_CardinalityType
<1>2. ASSUME NEW s \in Orders(S)
      PROVE  /\ Len(s) \in Nat /\ DOMAIN s = 1..Len(s)
             /\ \A i \in 1..Len(s) : s[i] \in S
             /\ \A x \in S : \E i \in 1..Len(s) : s[i] = x
  <2>1. s \in [1..n -> S] /\ \A x \in S : \E i \in DOMAIN s : s[i] = x
    BY <1>1 DEF Orders
  <2>2. s \in Seq(S) /\ Len(s) = n
    BY <2>1
  <2> QED
    BY <2>1, <2>2
<1>3. Orders(S) # {}
  <2>1. PICK s \in Bijection(1..n, S) : TRUE
    BY <1>1, FS_CardinalityType DEF ExistsBijection
  <2>2. s \in [1..n -> S] /\ \A x \in S : \E i \in 1..n : s[i] = x
    BY <2>1 DEF Bijection, Surjection
  <2>3. \A x \in S : \E i \in DOMAIN s : s[i] = x
    BY <2>2
  <2>4. s \in Orders(S)
    BY <1>1, <2>2, <2>3 DEF Orders
  <2> QED
    BY <2>4
<1> QED
  BY <1>2, <1>3

\* The map does not depend on the order of the rows, and every zone that
\* reported a line is named with it, whatever the messages.
THEOREM MapOfAnyOrder ==
    ASSUME NEW S, IsFiniteSet(S), IsReports(S), NEW t, NEW horizon
    PROVE  /\ Orders(S) # {}
           /\ \A s \in Orders(S) : get_transmission_outages_europe(s, t, horizon) = EventsOf(S, t, horizon)
           /\ \A o \in S : Shown(o, t, horizon) =>
                 \E e \in EventsOf(S, t, horizon) : o.zone \in e.by /\ MergeKey(o) = MergeKey(e.event)
<1>1. ASSUME NEW s \in Orders(S), NEW use, use = {i \in DOMAIN s : Shown(s[i], t, horizon)}, NEW k
      PROVE  /\ FirstOf(s, use, k, Len(s)) = ReportsOf(S, t, horizon, k)
             /\ MergedOf(s, use, k) = EventOf(ReportsOf(S, t, horizon, k))
             /\ ReportsOf(S, t, horizon, k) # {} => \E o : IsTightest(o, ReportsOf(S, t, horizon, k))
  <2>1. /\ Len(s) \in Nat /\ DOMAIN s = 1..Len(s) /\ \A i \in 1..Len(s) : s[i] \in S
        /\ \A x \in S : \E i \in 1..Len(s) : s[i] = x
    BY OrdersAre
  <2>2. use \in SUBSET (1..Len(s))
    BY <1>1, <2>1
  <2>3. FirstOf(s, use, k, Len(s)) = ReportsOf(S, t, horizon, k)
    BY <1>1, <2>1 DEF FirstOf, ReportsOf
  <2> QED
    BY <2>1, <2>2, <2>3, MergedIsEvent
<1>2. PICK shown : shown = {p \in S : Shown(p, t, horizon)}
  OBVIOUS
<1>3. ASSUME NEW s \in Orders(S)
      PROVE  get_transmission_outages_europe(s, t, horizon) = EventsOf(S, t, horizon)
  <2>1. PICK use : use = {i \in DOMAIN s : Shown(s[i], t, horizon)}
    OBVIOUS
  <2>2. get_transmission_outages_europe(s, t, horizon) = {MergedOf(s, use, MergeKey(s[i])) : i \in use}
    BY <2>1 DEF get_transmission_outages_europe
  <2>3. \A k : MergedOf(s, use, k) = EventOf(ReportsOf(S, t, horizon, k))
    BY <1>1, <2>1
  <2>4. shown = {s[i] : i \in use}
    <3>1. DOMAIN s = 1..Len(s) /\ \A i \in 1..Len(s) : s[i] \in S
      BY OrdersAre
    <3>2. \A x \in S : \E i \in 1..Len(s) : s[i] = x
      BY OrdersAre
    <3> QED
      BY <1>2, <2>1, <3>1, <3>2
  <2>5. EventsOf(S, t, horizon) = {EventOf(ReportsOf(S, t, horizon, MergeKey(s[i]))) : i \in use}
    BY <1>2, <2>4 DEF EventsOf
  <2> QED
    BY <2>2, <2>3, <2>5
<1>4. ASSUME NEW o \in S, Shown(o, t, horizon)
      PROVE  \E e \in EventsOf(S, t, horizon) : o.zone \in e.by /\ MergeKey(o) = MergeKey(e.event)
  <2>1. PICK k, T, e : k = MergeKey(o) /\ T = ReportsOf(S, t, horizon, k) /\ e = EventOf(T)
    OBVIOUS
  <2>2. o \in T /\ T \in SUBSET S /\ \A p \in T : MergeKey(p) = k
    BY <1>4, <2>1 DEF ReportsOf
  <2>3. PICK s : s \in Orders(S)
    BY OrdersAre
  <2>4. PICK x : IsTightest(x, T)
    BY <1>1, <2>1, <2>2, <2>3
  <2>5. ShownReport(T) = x /\ x \in T
    BY <2>2, <2>4, OneTightest DEF IsTightest
  <2>6. e.event = x /\ o.zone \in e.by
    BY <2>1, <2>2, <2>5 DEF EventOf
  <2>7. e \in EventsOf(S, t, horizon)
    BY <1>4, <2>1 DEF EventsOf
  <2> QED
    BY <2>1, <2>2, <2>5, <2>6, <2>7
<1>5. Orders(S) # {}
  BY OrdersAre
<1> QED
  BY <1>3, <1>4, <1>5

\* The messages of the cases.
MessagesOnRecord ==
    /\ asked.db.outages \in SUBSET (Plants \cup Lines)
    /\ asked.kind = "outages" => OneText(asked.db.outages)

\* Plants and lines have ids of their own, and a line is reported by one zone under an id.
LEMMA MessagesAre ==
    /\ \A o \in Plants : o.mrid \in 1..2 /\ o.doc = "A77" /\ o.end \in Int
    /\ \A o \in Lines : /\ o.mrid \in 3..5 /\ o.doc = "A78" /\ o.end \in Int /\ o.revision \in Int
                        /\ o.zone = (IF o.mrid = 4 THEN "z2" ELSE "z1") /\ o.available \in Int \cup {None}
<1>1. \A o \in Plants : o.mrid \in 1..2 /\ o.doc = "A77" /\ o.end \in Int
  BY DEF Plants, Plant
<1>2. \A i \in {3, 5}, x \in {None, 50}, u \in {None, "l1"} :
        LET o == Line(i, 1, "z1", "z2", x, u)
        IN  /\ o.mrid \in 3..5 /\ o.doc = "A78" /\ o.end \in Int /\ o.revision \in Int
            /\ o.zone = (IF o.mrid = 4 THEN "z2" ELSE "z1") /\ o.available \in Int \cup {None}
  BY DEF Line
<1>3. \A r \in {1, 2}, x \in {None, 50, 20} :
        LET o == Line(4, r, "z2", "z1", x, "l1")
        IN  /\ o.mrid \in 3..5 /\ o.doc = "A78" /\ o.end \in Int /\ o.revision \in Int
            /\ o.zone = (IF o.mrid = 4 THEN "z2" ELSE "z1") /\ o.available \in Int \cup {None}
  BY DEF Line
<1> QED
  BY <1>1, <1>2, <1>3 DEF Lines

\* The two kinds of reports of lines.
FirstReports == {Line(i, 1, "z1", "z2", x, u) : i \in {3, 5}, x \in {None, 50}, u \in {None, "l1"}}
SecondReports == {Line(4, r, "z2", "z1", x, "l1") : r \in {1, 2}, x \in {None, 50, 20}}

\* There are finitely many of them.
LEMMA FewMessages == IsFiniteSet(Plants \cup Lines)
<1>1. ASSUME NEW a, NEW b PROVE IsFiniteSet({a, b})
  <2>1. IsFiniteSet({a}) /\ IsFiniteSet({b}) /\ {a, b} = {a} \cup {b}
    BY FS_Singleton
  <2> QED
    BY <2>1, FS_Union
<1>2. ASSUME NEW a, NEW b, NEW c PROVE IsFiniteSet({a, b, c})
  <2>1. IsFiniteSet({a, b}) /\ IsFiniteSet({c}) /\ {a, b, c} = {a, b} \cup {c}
    BY <1>1, FS_Singleton
  <2> QED
    BY <2>1, FS_Union
<1>3. IsFiniteSet(Plants)
  <2>1. ASSUME NEW a, NEW b, NEW c, NEW d, NEW e PROVE IsFiniteSet({a, b, c, d, e})
    <3>1. PICK S, T : S = {a, b, c} /\ T = {d, e}
      OBVIOUS
    <3>2. IsFiniteSet(S) /\ IsFiniteSet(T)
      BY <1>1, <1>2, <3>1
    <3>3. IsFiniteSet(S \cup T)
      BY <3>2, FS_Union
    <3>4. {a, b, c, d, e} = S \cup T
      BY <3>1
    <3> QED
      BY <3>3, <3>4
  <2> QED
    BY <2>1 DEF Plants
<1>4. IsFiniteSet(FirstReports)
  <2>1. PICK A, B, C : A = {3, 5} /\ B = {None, 50} /\ C = {None, "l1"}
    OBVIOUS
  <2>2. IsFiniteSet(A) /\ IsFiniteSet(B) /\ IsFiniteSet(C)
    BY <1>1, <2>1
  <2>3. PICK D : D = B \X C
    OBVIOUS
  <2>4. IsFiniteSet(D)
    BY <2>2, <2>3, FS_Product
  <2>5. PICK E : E = A \X D
    OBVIOUS
  <2>6. IsFiniteSet(E)
    BY <2>2, <2>4, <2>5, FS_Product
  <2>7. PICK l : l = [p \in E |-> Line(p[1], 1, "z1", "z2", p[2][1], p[2][2])]
    OBVIOUS
  <2>8. {Line(i, 1, "z1", "z2", x, u) : i \in A, x \in B, u \in C} \in SUBSET {l[p] : p \in E}
    <3> SUFFICES ASSUME NEW i \in A, NEW x \in B, NEW u \in C
                 PROVE  \E p \in E : l[p] = Line(i, 1, "z1", "z2", x, u)
      OBVIOUS
    <3>1. <<i, <<x, u>>>> \in E
      BY <2>3, <2>5
    <3>2. l[<<i, <<x, u>>>>] = Line(i, 1, "z1", "z2", x, u)
      BY <2>7, <3>1
    <3> QED
      BY <3>1, <3>2
  <2>9. IsFiniteSet({l[p] : p \in E})
    BY <2>6, Images
  <2>10. PICK L : L = {l[p] : p \in E}
    OBVIOUS
  <2>11. IsFiniteSet({Line(i, 1, "z1", "z2", x, u) : i \in A, x \in B, u \in C})
    BY <2>8, <2>9, <2>10, FS_Subset
  <2> QED
    BY <2>1, <2>11 DEF FirstReports
<1>5. IsFiniteSet(SecondReports)
  <2>1. PICK A, B : A = {1, 2} /\ B = {None, 50, 20}
    OBVIOUS
  <2>2. IsFiniteSet(A) /\ IsFiniteSet(B)
    BY <1>1, <1>2, <2>1
  <2>3. PICK E : E = A \X B
    OBVIOUS
  <2>4. IsFiniteSet(E)
    BY <2>2, <2>3, FS_Product
  <2>5. PICK l : l = [p \in E |-> Line(4, p[1], "z2", "z1", p[2], "l1")]
    OBVIOUS
  <2>6. {Line(4, r, "z2", "z1", x, "l1") : r \in A, x \in B} \in SUBSET {l[p] : p \in E}
    <3> SUFFICES ASSUME NEW r \in A, NEW x \in B
                 PROVE  \E p \in E : l[p] = Line(4, r, "z2", "z1", x, "l1")
      OBVIOUS
    <3>1. <<r, x>> \in E
      BY <2>3
    <3>2. l[<<r, x>>] = Line(4, r, "z2", "z1", x, "l1")
      BY <2>5, <3>1
    <3> QED
      BY <3>1, <3>2
  <2>7. PICK L : L = {l[p] : p \in E}
    OBVIOUS
  <2>8. IsFiniteSet(L)
    BY <2>4, <2>7, Images
  <2>9. IsFiniteSet({Line(4, r, "z2", "z1", x, "l1") : r \in A, x \in B})
    BY <2>6, <2>7, <2>8, FS_Subset
  <2> QED
    BY <2>1, <2>9 DEF SecondReports
<1>6. IsFiniteSet(Lines)
  <2>1. Lines = FirstReports \cup SecondReports
    BY DEF Lines, FirstReports, SecondReports
  <2> QED
    BY <1>4, <1>5, <2>1, FS_Union
<1> QED
  BY <1>3, <1>6, FS_Union

\* So do all cases the desk is asked.
LEMMA CasesHaveMessages == ASSUME DeskInit PROVE MessagesOnRecord
<1>1. PICK M : M = Plants \cup Lines
  OBVIOUS
<1>2. Empty.outages = {}
  BY DEF Empty
<1>3. NoCase.kind = "none" /\ NoCase.db = Empty
  BY DEF NoCase, Case
<1>4. Sample.outages \in SUBSET M
  <2>1. Sample.outages = Plants \cup {Line(3, 1, "z1", "z2", 50, "l1")}
    BY DEF Sample, Empty
  <2>2. Line(3, 1, "z1", "z2", 50, "l1") \in Lines
    BY DEF Lines
  <2> QED
    BY <1>1, <2>1, <2>2
<1>5. \A c \in Samples : c.kind = "sample" /\ c.db.outages \in SUBSET M
  <2>1. [Sample EXCEPT !.grid = [z \in Zones |-> <<>>], !.price = [z \in Zones |-> <<>>]].outages = Sample.outages
    BY DEF Sample, Empty
  <2>2. PICK s : s = [Sample EXCEPT !.grid = [z \in Zones |-> <<>>], !.price = [z \in Zones |-> <<>>]]
    OBVIOUS
  <2>3. \A c \in Samples : c = Case("sample", Sample, <<>>, <<>>) \/ c = Case("sample", s, <<>>, <<>>)
    BY <2>2 DEF Samples
  <2>4. \A d : Case("sample", d, <<>>, <<>>).kind = "sample" /\ Case("sample", d, <<>>, <<>>).db = d
    BY DEF Case
  <2>5. s.outages \in SUBSET M
    BY <1>4, <2>1, <2>2
  <2> QED
    BY <1>4, <2>3, <2>4, <2>5
<1>6. \A c \in AskCases : c.kind = "ask" /\ c.db.outages = {}
  <2>1. \A f, g : AskDb(f, g).outages = {}
    BY DEF AskDb, Empty
  <2> QED
    BY <2>1 DEF AskCases, Case
<1>7. \A c \in GasCases : c.kind = "gas" /\ c.db = Empty
  BY DEF GasCases, GasCase
<1>8. \A c \in FlagCases : c.kind = "flags" /\ c.db = Empty
  BY DEF FlagCases
<1>9. \A c \in GridCases : c.kind = "grid" /\ c.db.outages = {}
  <2>1. \A g, m : GridDb(g, m).outages = {}
    BY DEF GridDb, Empty
  <2> QED
    BY <2>1 DEF GridCases, Case
<1>10. \A c \in PriceCases : c.kind = "price" /\ c.db.outages = {}
  <2>1. \A p : PriceDb(p).outages = {}
    BY DEF PriceDb, Empty
  <2> QED
    BY <2>1 DEF PriceCases, Case
<1>11. \A c \in HourCases : c.kind = "hours" /\ c.db = Empty
  BY DEF HourCases, Case
<1>12. \A c \in OutageCases : c.db.outages \in SUBSET M /\ OneText(c.db.outages)
  <2> SUFFICES ASSUME NEW c \in OutageCases PROVE c.db.outages \in SUBSET M /\ OneText(c.db.outages)
    OBVIOUS
  <2>1. PICK T \in SUBSET M : OneText(T) /\ c = Case("outages", OutageDb(T), <<>>, <<>>)
    BY <1>1 DEF OutageCases
  <2>2. c.db.outages = T
    BY <2>1 DEF Case, OutageDb, Empty
  <2> QED
    BY <2>1, <2>2
<1>13. asked.db.outages \in SUBSET M /\ (asked.kind = "outages" => OneText(asked.db.outages))
  BY <1>2, <1>3, <1>5, <1>6, <1>7, <1>8, <1>9, <1>10, <1>11, <1>12 DEF DeskInit, Cases
<1> QED
  BY <1>1, <1>13 DEF MessagesOnRecord

\* The rows the map reads are reports.
LEMMA RowsAreReports ==
    ASSUME NEW S \in SUBSET (Plants \cup Lines), OneText(S), NEW t \in Int
    PROVE  LET rows == latest_outage_revisions(S, None, t, "A78") IN IsFiniteSet(rows) /\ IsReports(rows)
<1>1. PICK rows : rows = latest_outage_revisions(S, None, t, "A78")
  OBVIOUS
<1>2. \A o \in rows : /\ o \in S /\ o.doc = "A78"
                      /\ \A p \in rows : (p.zone = o.zone /\ p.mrid = o.mrid) => p.revision <= o.revision
  BY <1>1, OutageAssumption DEF latest_outage_revisions
<1>3. rows \in SUBSET Lines
  BY <1>2, MessagesAre
<1>4. IsFiniteSet(rows)
  BY <1>3, FewMessages, FS_Subset
<1>5. ASSUME NEW o \in rows, NEW p \in rows, o.mrid = p.mrid PROVE o = p
  <2>1. o.zone = p.zone /\ o.revision \in Int /\ p.revision \in Int
    BY <1>3, <1>5, MessagesAre
  <2>2. o.revision = p.revision
    BY <1>2, <1>5, <2>1
  <2> QED
    BY <1>2, <1>5, <2>2 DEF OneText
<1>6. \A o \in rows : o.mrid \in Int /\ o.available \in Int \cup {None}
  BY <1>3, MessagesAre
<1> QED
  BY <1>1, <1>4, <1>5, <1>6 DEF IsReports

\* What is read twice is read the same: the situation of a zone alone and among all
\* zones, the lines of the map in any order of their rows (ReadingsAgree).
THEOREM ReadTwiceReadAlike == DeskSpec => []ReadingsAgree
<1> DEFINE Inv == MessagesOnRecord /\ now \in Nat
<1>1. DeskInit => Inv
  BY CasesHaveMessages DEF DeskInit, Start
<1>2. Inv /\ [DeskNext]_<<input, parsed, deskVars>> => Inv'
  <2> SUFFICES ASSUME Inv, [DeskNext]_<<input, parsed, deskVars>> PROVE Inv'
    OBVIOUS
  <2>1. now' = now \/ now' = now + 1
    BY DEF DeskNext, ParseDocument, deskVars, Ask, AskSample, AskOther, CacheOverview, ServeOverview, Pass
  <2>2. now' \in Nat
    BY <2>1
  <2>3. MessagesOnRecord'
    BY AskedStays DEF MessagesOnRecord
  <2> QED
    BY <2>2, <2>3
<1>3. Inv => ReadingsAgree
  <2> SUFFICES ASSUME MessagesOnRecord, now \in Nat PROVE ReadingsAgree
    OBVIOUS
  <2>1. PICK db, S : db = asked.db /\ S = asked.db.outages
    OBVIOUS
  <2>6. PICK t \in Nat : t = now
    OBVIOUS
  <2>2. S \in SUBSET (Plants \cup Lines) /\ \A o \in S : o \in Plants \/ o \in Lines
    BY <2>1 DEF MessagesOnRecord
  <2>3. IsMessages(db.outages)
    <3>1. \A o \in S : o.end \in Int /\ ((o.mrid \in 1..2 /\ o.doc = "A77") \/ (o.mrid \in 3..5 /\ o.doc = "A78"))
      <4> SUFFICES ASSUME NEW o \in S
                   PROVE  o.end \in Int /\ ((o.mrid \in 1..2 /\ o.doc = "A77") \/ (o.mrid \in 3..5 /\ o.doc = "A78"))
        OBVIOUS
      <4>1. CASE o \in Plants
        BY <4>1, MessagesAre
      <4>2. CASE o \in Lines
        BY <4>2, MessagesAre
      <4> QED
        BY <2>2, <4>1, <4>2
    <3> QED
      BY <2>1, <3>1 DEF IsMessages
  <2>4. SituationsAgree
    BY <2>1, <2>3, <2>6, SituationsReadAlike DEF SituationsAgree
  <2>5. MergeOrderFree
    <3> SUFFICES ASSUME asked.kind = "outages" PROVE MergeOrderFree
      BY DEF MergeOrderFree
    <3>1. PICK rows : rows = latest_outage_revisions(S, None, t, "A78")
      OBVIOUS
    <3>2. IsFiniteSet(rows) /\ IsReports(rows)
      BY <2>1, <2>2, <3>1, RowsAreReports DEF MessagesOnRecord
    <3>3. PICK events : events = EventsOf(rows, t, 30)
      OBVIOUS
    <3>4. /\ Orders(rows) # {}
          /\ \A s \in Orders(rows) : get_transmission_outages_europe(s, t, 30) = events
          /\ \A o \in rows : Shown(o, t, 30) =>
                \E e \in events : o.zone \in e.by /\ MergeKey(o) = MergeKey(e.event)
      BY <3>2, <3>3, MapOfAnyOrder
    <3>5. PICK merged : merged = {get_transmission_outages_europe(s, t, 30) : s \in Orders(rows)}
      OBVIOUS
    <3>6. merged = {events}
      BY <3>4, <3>5
    <3>7. Cardinality(merged) = 1
      BY <3>6, FS_Singleton
    <3> QED
      BY <2>1, <2>6, <3>1, <3>4, <3>5, <3>6, <3>7 DEF MergeOrderFree
  <2> QED
    BY <2>4, <2>5 DEF ReadingsAgree
<1> QED
  BY <1>1, <1>2, <1>3, PTL DEF DeskSpec

-----------------------------------------------------------------------------
(* The radar and the desk *)

Renewables(r) == Or0(r.wind) + Or0(r.solar)

\* Rows on record: a day with all its hours has a load.
ProperRow(r) ==
    /\ HasLoad(r) => r.load \in Nat \ {0} /\ Renewables(r) \in Int
    /\ share_is_claimable(r) => HasLoad(r)

\* v ten-thousandths are what s / l is rounded to, at most half of one away.
NearestTo(v, s, l) == -l <= 2 * (v * l) - 20000 * s /\ 2 * (v * l) - 20000 * s <= l
RoundedTo(v, s, l) == Round(Ratio(s, l), 10000) = Ratio(v, 10000) /\ NearestTo(v, s, l)
\* They and s / l lie on different sides of a / n.
OnBothSides(v, s, l, a, n) == (v * n < a * 10000) # (s * n < a * l)
\* s / l is at most half of a ten-thousandth away from a / n.
HalfAway(s, l, a, n) == Abs(s * n - a * l) <= (n * l) \div 20000

\* A rounded share is a number of ten-thousandths, at most half of one away.
LEMMA RoundIsNear ==
    ASSUME NEW s \in Int, NEW l \in Nat \ {0}
    PROVE  \E v \in Int : RoundedTo(v, s, l)
<1>1. PICK twice \in Int, m \in Nat \ {0} : twice = 2 * s * 10000 /\ m = 2 * l
  OBVIOUS
<1>2. PICK low \in Int, rest \in Int : low = (twice + l) \div m /\ rest = (twice + l) % m
  OBVIOUS
<1>3. twice + l = low * m + rest /\ 0 <= rest /\ rest < m
  <2>1. \A x \in Int, y \in Nat \ {0} : x = (x \div y) * y + (x % y) /\ 0 <= x % y /\ x % y < y
    OBVIOUS
  <2> QED
    BY <1>2, <2>1
<1>4. Round(Ratio(s, l), 10000) = Ratio(IF rest = 0 /\ low % 2 = 1 THEN low - 1 ELSE low, 10000)
  BY <1>1, <1>2 DEF Round, Ratio
<1>5. CASE rest = 0 /\ low % 2 = 1
  <2>1. Round(Ratio(s, l), 10000) = Ratio(low - 1, 10000) /\ low - 1 \in Int
    BY <1>4, <1>5
  <2>2. 2 * ((low - 1) * l) - 20000 * s = -l
    BY <1>1, <1>3, <1>5
  <2> QED
    BY <2>1, <2>2 DEF NearestTo, RoundedTo
<1>6. CASE ~(rest = 0 /\ low % 2 = 1)
  <2>1. Round(Ratio(s, l), 10000) = Ratio(low, 10000)
    BY <1>4, <1>6
  <2>2. 2 * (low * l) - 20000 * s = l - rest
    BY <1>1, <1>3
  <2> QED
    BY <1>1, <1>3, <2>1, <2>2 DEF NearestTo, RoundedTo
<1> QED
  BY <1>5, <1>6

\* A share that is rounded over a limit is as near to it.
LEMMA CrossedIsNear ==
    ASSUME NEW s \in Int, NEW l \in Nat \ {0}, NEW v \in Int, NearestTo(v, s, l),
           NEW a \in Int, NEW n \in Nat \ {0}, OnBothSides(v, s, l, a, n)
    PROVE  HalfAway(s, l, a, n)
<1>0. PICK p \in Nat : p = n * l
  OBVIOUS
<1>1. PICK sn, al, vn, vl \in Int : sn = s * n /\ al = a * l /\ vn = v * n /\ vl = v * l
  OBVIOUS
<1> DEFINE D == sn - al
           E == vn - a * 10000
           w == 2 * vl - 20000 * s
<1>2. D \in Int /\ E \in Int /\ w \in Int
  OBVIOUS
<1>3. PICK el \in Int, wn \in Int : el = E * l /\ wn = w * n
  BY <1>2
<1>4. 2 * el = wn + 20000 * D
  <2>1. PICK vnl \in Int : vnl = vl * n
    BY <1>1
  <2>2. el = vnl - 10000 * al
    <3>1. el = (vn - 10000 * a) * l
      BY <1>2, <1>3
    <3>2. vn * l = vnl
      BY <1>1, <2>1
    <3>3. (vn - 10000 * a) * l = vn * l - 10000 * al
      BY <1>1
    <3> QED
      BY <3>1, <3>2, <3>3
  <2>3. wn = 2 * vnl - 20000 * sn
    <3>1. wn = (2 * vl - 20000 * s) * n
      BY <1>2, <1>3
    <3>2. (2 * vl - 20000 * s) * n = 2 * (vl * n) - 20000 * sn
      BY <1>1
    <3> QED
      BY <2>1, <3>1, <3>2
  <2> QED
    BY <1>1, <1>2, <1>3, <2>1, <2>2, <2>3
<1>5. -p <= wn /\ wn <= p
  <2>1. -l <= w /\ w <= l
    BY <1>1, <1>2 DEF NearestTo
  <2>2. \A x, y \in Int : x <= y => x * n <= y * n
    OBVIOUS
  <2>3. (-l) * n <= w * n /\ w * n <= l * n /\ (-l) * n = -(l * n) /\ l * n = n * l
    BY <1>2, <2>1, <2>2
  <2> QED
    BY <1>0, <1>1, <1>3, <2>3
<1>6. (E < 0 => el < 0) /\ (E >= 0 => el >= 0)
  BY <1>2, <1>3
<1>7. (E < 0 /\ D >= 0) \/ (E >= 0 /\ D < 0)
  <2>1. v * n < a * 10000 <=> E < 0
    BY <1>1, <1>2
  <2>2. s * n < a * l <=> D < 0
    BY <1>1, <1>2
  <2>3. (E < 0) # (D < 0)
    BY <2>1, <2>2 DEF OnBothSides
  <2> QED
    BY <1>2, <2>3
<1>8. 20000 * Abs(D) <= p /\ Abs(D) \in Nat
  BY <1>0, <1>2, <1>3, <1>4, <1>5, <1>6, <1>7 DEF Abs
<1>9. \A x, y \in Nat : 20000 * x <= y => x <= y \div 20000
  OBVIOUS
<1> QED
  BY <1>0, <1>1, <1>2, <1>8, <1>9 DEF HalfAway

\* A row that compares with a limit differently once it is rounded is rounded over it.
LEMMA RoundedShare ==
    ASSUME NEW r, ProperRow(r), HasLoad(r), NEW limit, limit.sum \in Int, limit.n \in Nat \ {0}
    PROVE  \/ RoundedOver(r, limit)
           \/ Below(Round(Share(r), 10000), limit) <=> Below(Share(r), limit)
<1>1. PICK s \in Int, l \in Nat \ {0} : s = Renewables(r) /\ l = r.load
  BY DEF ProperRow
<1>2. Share(r) = Ratio(s, l)
  BY <1>1 DEF Share, Renewables
<1>3. PICK v \in Int : RoundedTo(v, s, l)
  BY <1>1, RoundIsNear
<1>4. PICK a \in Int, n \in Nat \ {0} : a = limit.sum /\ n = limit.n
  OBVIOUS
<1>5. OnBothSides(v, s, l, a, n) => HalfAway(s, l, a, n)
  <2>1. NearestTo(v, s, l)
    BY <1>3 DEF RoundedTo
  <2> QED
    BY <2>1, CrossedIsNear, Zenon
<1>6. Share(r).sum = s
  BY <1>2 DEF Ratio
<1>7. Below(Round(Share(r), 10000), limit) = (v * n < a * 10000) /\ Below(Share(r), limit) = (s * n < a * l)
  BY <1>2, <1>3, <1>4 DEF RoundedTo, Below, Ratio
<1> QED
  BY <1>1, <1>4, <1>5, <1>6, <1>7 DEF RoundedOver, OnBothSides, HalfAway

\* Comparing ratios is transitive.
LEMMA BelowOrEqual ==
    ASSUME NEW a \in Int, NEW c \in Int, NEW e \in Int,
           NEW b \in Nat \ {0}, NEW d \in Nat \ {0}, NEW f \in Nat \ {0},
           a * d < c * b, ~(e * d < c * f)
    PROVE  a * f < e * b
<1>1. PICK ad \in Int, cb \in Int, ed \in Int, cf \in Int, af \in Int, eb \in Int :
         /\ ad = a * d /\ cb = c * b /\ ed = e * d /\ cf = c * f /\ af = a * f /\ eb = e * b
  OBVIOUS
<1>2. ad < cb /\ cf <= ed
  BY <1>1
<1>3. \A x \in Int, y \in Int, k \in Nat \ {0} : (x < y <=> x * k < y * k) /\ (x <= y => x * k <= y * k)
  OBVIOUS
<1>4. ad * f < cb * f /\ cf * b <= ed * b
  BY <1>2, <1>3
<1>5. ad * f = af * d /\ cb * f = cf * b /\ ed * b = eb * d
  BY <1>1
<1>6. af * d < eb * d
  <2>1. PICK x, y, u \in Int : x = af * d /\ y = eb * d /\ u = cf * b
    OBVIOUS
  <2> QED
    BY <1>4, <1>5, <2>1
<1> QED
  BY <1>1, <1>3, <1>6

\* Finitely many ratios are ordered as their places are.
LEMMA PlacesExist ==
    ASSUME NEW S, IsFiniteSet(S), NEW a, NEW b, \A x \in S : a[x] \in Int /\ b[x] \in Nat \ {0}
    PROVE  \E v : /\ \A x \in S : v[x] \in Int
                  /\ \A x, y \in S : a[x] * b[y] < a[y] * b[x] <=> v[x] < v[y]
<1>1. PICK L : L = [x \in S |-> {y \in S : a[y] * b[x] < a[x] * b[y]}]
  OBVIOUS
<1>2. PICK v : v = [x \in S |-> Cardinality(L[x])]
  OBVIOUS
<1>3. ASSUME NEW x \in S PROVE IsFiniteSet(L[x]) /\ v[x] = Cardinality(L[x]) /\ v[x] \in Nat
  BY <1>1, <1>2, FS_Subset, FS_CardinalityType
<1>4. ASSUME NEW x \in S, NEW y \in S, ~(a[y] * b[x] < a[x] * b[y]) PROVE L[x] \in SUBSET L[y]
  <2>1. ASSUME NEW z \in L[x] PROVE z \in L[y]
    <3>1. z \in S /\ a[z] * b[x] < a[x] * b[z]
      BY <1>1, <2>1
    <3>2. a[z] * b[y] < a[y] * b[z]
      BY <1>4, <3>1, BelowOrEqual
    <3> QED
      BY <1>1, <3>1, <3>2
  <2> QED
    BY <2>1
<1>5. ASSUME NEW x \in S, NEW y \in S, a[x] * b[y] < a[y] * b[x] PROVE v[x] < v[y]
  <2>1. ~(a[y] * b[x] < a[x] * b[y])
    BY <1>5
  <2>2. L[x] \in SUBSET L[y]
    BY <1>4, <2>1
  <2>3. x \in L[y] /\ x \notin L[x]
    BY <1>1, <1>5
  <2>4. L[x] # L[y] /\ IsFiniteSet(L[y])
    BY <1>3, <2>3
  <2>5. Cardinality(L[x]) < Cardinality(L[y])
    BY <1>3, <2>2, <2>4, FS_Subset
  <2> QED
    BY <1>3, <2>5
<1>6. ASSUME NEW x \in S, NEW y \in S, ~(a[x] * b[y] < a[y] * b[x]) PROVE ~(v[x] < v[y])
  <2>1. L[y] \in SUBSET L[x]
    BY <1>4, <1>6
  <2>2. Cardinality(L[y]) <= Cardinality(L[x])
    BY <1>3, <2>1, FS_Subset
  <2> QED
    BY <1>3, <2>2
<1> QED
  BY <1>3, <1>5, <1>6

\* The threshold of a month with a day on record is the share of such a day.
LEMMA TailIsShare ==
    ASSUME NEW grid, IsFiniteSet(DOMAIN grid), \A d \in DOMAIN grid : ProperRow(grid[d]),
           NEW d \in DOMAIN grid, HasLoad(grid[d]), NEW month, month = MonthOfYear(d),
           NEW limit, limit = zone_thresholds(grid, month), limit.eligible
    PROVE  limit.tail_share.sum \in Int /\ limit.tail_share.n \in Nat \ {0}
<1>1. PICK all : all = {x \in DOMAIN grid : HasLoad(grid[x])}
  OBVIOUS
<1>2. PICK mine : mine = {x \in all : MonthOfYear(x) = month}
  OBVIOUS
<1>3. mine \in SUBSET (DOMAIN grid) /\ d \in mine
  BY <1>1, <1>2
<1>4. IsFiniteSet(mine)
  BY <1>3, FS_Subset
<1>5. PICK n \in Nat \ {0} : n = Cardinality(mine)
  BY <1>3, <1>4, FS_CardinalityType, FS_EmptySet
<1>6. PICK k : k = SqlRank(TailPercentile, n)
  OBVIOUS
<1>7. k \in 1..n
  <2>1. PICK a \in Int, b \in Int : a = TailPercentile.sum /\ b = TailPercentile.n /\ 0 <= a /\ a < b
    BY PercentileAssumption DEF Ratios
  <2>2. k = (2 * a * (n - 1) + b) \div (2 * b) + 1
    BY <1>6, <2>1 DEF SqlRank
  <2>3. PICK x \in Int, y \in Int : x = 2 * a * (n - 1) + b /\ y = 2 * b
    OBVIOUS
  <2>4. 0 <= x /\ x < n * y /\ 0 < y
    <3>1. PICK c \in Nat, m \in Nat : m = n - 1 /\ c = a * m
      BY <2>1
    <3>2. c <= b * m
      BY <2>1, <3>1
    <3>3. x = 2 * c + b /\ n * y = 2 * (b * m) + 2 * b
      BY <2>3, <3>1
    <3> QED
      BY <2>1, <2>3, <3>1, <3>2, <3>3
  <2>5. \A u \in Int, w \in Nat \ {0} : 0 <= u /\ u < n * w => u \div w \in 0..(n - 1)
    OBVIOUS
  <2>6. x \div y \in 0..(n - 1)
    BY <2>4, <2>5
  <2> QED
    BY <2>2, <2>3, <2>6
<1>8. PICK a : a = [x \in mine |-> Renewables(grid[x])]
  OBVIOUS
<1>8a. PICK b : b = [x \in mine |-> grid[x].load]
  OBVIOUS
<1>8b. \A x \in mine : a[x] \in Int /\ b[x] \in Nat \ {0}
  <2>1. \A x \in mine : grid[x].load \in Nat \ {0} /\ Renewables(grid[x]) \in Int
    BY <1>1, <1>2, <1>3 DEF ProperRow
  <2> QED
    BY <1>8, <1>8a, <2>1
<1>9. PICK v : /\ \A x \in mine : v[x] \in Int
               /\ \A x, y \in mine : Below(Share(grid[x]), Share(grid[y])) <=> v[x] < v[y]
  <2>1. PICK v : /\ \A x \in mine : v[x] \in Int
                 /\ \A x, y \in mine : a[x] * b[y] < a[y] * b[x] <=> v[x] < v[y]
    BY <1>4, <1>8b, PlacesExist
  <2>2. \A x, y \in mine : Below(Share(grid[x]), Share(grid[y])) <=> a[x] * b[y] < a[y] * b[x]
    BY <1>8, <1>8a DEF Below, Share, Renewables, Ratio
  <2> QED
    BY <2>1, <2>2
<1>10. PICK ranked : ranked = Ranked(LAMBDA x, y : Below(Share(grid[x]), Share(grid[y])), mine, k)
  BY ZenonT(30)
<1>11. ranked \in mine
  <2>1. PICK x \in mine : /\ Cardinality({y \in mine : v[y] < v[x]}) < k
                          /\ Cardinality({y \in mine : ~(v[x] < v[y])}) >= k
    <3>1. \A y \in mine : v[y] \in Int
      BY <1>9
    <3>2. k \in 1..Cardinality(mine)
      BY <1>5, <1>7
    <3> QED
      BY <1>4, <3>1, <3>2, RankExists
  <2>2. /\ {y \in mine : Below(Share(grid[y]), Share(grid[x]))} = {y \in mine : v[y] < v[x]}
        /\ {y \in mine : ~Below(Share(grid[x]), Share(grid[y]))} = {y \in mine : ~(v[x] < v[y])}
    BY <1>9
  <2>3. /\ Cardinality({y \in mine : Below(Share(grid[y]), Share(grid[x]))}) < k
        /\ Cardinality({y \in mine : ~Below(Share(grid[x]), Share(grid[y]))}) >= k
    BY <2>1, <2>2
  <2> QED
    BY <1>10, <2>3 DEF Ranked
<1>12. ByShare(grid, mine, k) = Share(grid[ranked])
  BY <1>10, Zenon DEF ByShare
<1>13. Share(grid[ranked]).sum \in Int /\ Share(grid[ranked]).n \in Nat \ {0}
  <2>1. grid[ranked].load \in Nat \ {0} /\ Renewables(grid[ranked]) \in Int
    BY <1>1, <1>2, <1>3, <1>11 DEF ProperRow
  <2> QED
    BY <2>1 DEF Share, Renewables, Ratio
<1>14. limit.tail_share = ByShare(grid, mine, k)
  BY <1>1, <1>2, <1>5, <1>6 DEF zone_thresholds
<1> QED
  BY <1>12, <1>13, <1>14

\* The share of a day lies on another side of its month's tail, or of 15%, once rounded.
RoundedAcross(grid, d) ==
    \E limit \in {zone_thresholds(grid, MonthOfYear(d)).tail_share, ABSOLUTE_THRESHOLD} :
        RoundedOver(grid[d], limit)

\* A row is as dark after rounding as before, unless it is rounded across a threshold.
LEMMA RoundedDark ==
    ASSUME NEW grid, IsFiniteSet(DOMAIN grid), \A x \in DOMAIN grid : ProperRow(grid[x]),
           NEW d \in DOMAIN grid, HasLoad(grid[d]), ~RoundedAcross(grid, d),
           NEW limit, limit = zone_thresholds(grid, MonthOfYear(d))
    PROVE  is_dunkelflaute(Round(Share(grid[d]), 10000), limit) <=> is_dunkelflaute(Share(grid[d]), limit)
<1>1. ProperRow(grid[d])
  OBVIOUS
<1>2. ABSOLUTE_THRESHOLD.sum \in Int /\ ABSOLUTE_THRESHOLD.n \in Nat \ {0}
  BY DEF ABSOLUTE_THRESHOLD, Ratio
<1>3. Below(Round(Share(grid[d]), 10000), ABSOLUTE_THRESHOLD) <=> Below(Share(grid[d]), ABSOLUTE_THRESHOLD)
  <2>1. ~RoundedOver(grid[d], ABSOLUTE_THRESHOLD)
    BY DEF RoundedAcross
  <2> QED
    BY <1>1, <1>2, <2>1, RoundedShare DEF Below
<1>4. CASE limit.eligible
  <2>1. limit.tail_share.sum \in Int /\ limit.tail_share.n \in Nat \ {0}
    BY <1>4, TailIsShare
  <2>2. ~RoundedOver(grid[d], limit.tail_share)
    BY DEF RoundedAcross
  <2>3. Below(Round(Share(grid[d]), 10000), limit.tail_share) <=> Below(Share(grid[d]), limit.tail_share)
    BY <1>1, <2>1, <2>2, RoundedShare DEF Below
  <2> QED
    BY <1>3, <2>3 DEF is_dunkelflaute
<1>5. CASE ~limit.eligible
  BY <1>5 DEF is_dunkelflaute
<1> QED
  BY <1>4, <1>5

\* What the radar asks of a day: all its hours, a dark share, a mix that covers the load.
DarkAndCovered(db, z, d) ==
    /\ is_dunkelflaute(Share(db.grid[z][d]), zone_thresholds(db.grid[z], MonthOfYear(d)))
    /\ renewable_share_reliable(db.mix[z], d, db.grid[z][d].load)
DarkDay(db, z, d) == share_is_claimable(db.grid[z][d]) /\ DarkAndCovered(db, z, d)

\* The desk flags days of its window with all their hours, and exactly the dark ones
\* where no share is rounded across a threshold.
LEMMA DeskFlagsDarkDays ==
    ASSUME NEW db, NEW z, IsFiniteSet(DOMAIN db.grid[z]),
           \A x \in DOMAIN db.grid[z] : ProperRow(db.grid[z][x]),
           NEW W, NEW d \in DOMAIN db.grid[z] \cap W
    PROVE  /\ _flag_dunkelflaute(db, z, GridRows(db, z, W))[d] => share_is_claimable(db.grid[z][d])
           /\ \/ RoundedAcross(db.grid[z], d)
              \/ _flag_dunkelflaute(db, z, GridRows(db, z, W))[d] <=> DarkDay(db, z, d)
<1>1. PICK grid, r, limit : grid = db.grid[z] /\ r = grid[d] /\ limit = zone_thresholds(grid, MonthOfYear(d))
  OBVIOUS
<1>2. PICK rows : rows = GridRows(db, z, W)
  OBVIOUS
<1>3. d \in DOMAIN rows /\ rows[d] = _grid_row_values(r)
  BY <1>1, <1>2 DEF GridRows
<1>4. PICK shares : shares = [x \in DOMAIN rows |-> ClaimedShare(rows[x])]
  OBVIOUS
<1>5. PICK reliable : reliable = reliable_days(grid, db.mix[z], DOMAIN rows)
  OBVIOUS
<1>6. _flag_dunkelflaute(db, z, rows)[d]
        = (shares[d] # None /\ d \in reliable /\ is_dunkelflaute(shares[d], limit))
  <2>1. _flag_dunkelflaute(db, z, rows) = flag_days(grid, shares, reliable)
    BY <1>1, <1>4, <1>5 DEF _flag_dunkelflaute
  <2>2. d \in DOMAIN shares
    BY <1>3, <1>4
  <2>3. flag_days(grid, shares, reliable)[d]
          = (/\ shares[d] # None /\ d \in reliable
             /\ is_dunkelflaute(shares[d], zone_thresholds(grid, MonthOfYear(d))))
    BY <2>2, FlagOfDay
  <2> QED
    BY <1>1, <2>1, <2>3
<1>7. d \in reliable <=> HasLoad(r) /\ renewable_share_reliable(db.mix[z], d, r.load)
  BY <1>1, <1>3, <1>5 DEF reliable_days
<1>8. renewable_share_reliable(db.mix[z], d, r.load) => HasLoad(r)
  BY DEF renewable_share_reliable, HasLoad
<1>9. DarkDay(db, z, d) <=> /\ share_is_claimable(r) /\ is_dunkelflaute(Share(r), limit)
                            /\ renewable_share_reliable(db.mix[z], d, r.load)
  BY <1>1 DEF DarkDay, DarkAndCovered
<1>10. share_is_claimable(rows[d]) <=> share_is_claimable(r)
  BY <1>3 DEF share_is_claimable, _grid_row_values
<1>11. shares[d] = ClaimedShare(rows[d])
  BY <1>3, <1>4
<1>12. shares[d] # None => share_is_claimable(r)
  BY <1>10, <1>11 DEF ClaimedShare
<1>13. ASSUME HasLoad(r), ~RoundedAcross(grid, d)
       PROVE  shares[d] # None /\ is_dunkelflaute(shares[d], limit)
                <=> share_is_claimable(r) /\ is_dunkelflaute(Share(r), limit)
  <2>1. CASE ~share_is_claimable(r)
    BY <1>12, <2>1
  <2>2. CASE share_is_claimable(r)
    <3>1. r.gh # None /\ r.gh > 0
      BY <2>2, DayAssumption, NoneAssumption DEF share_is_claimable
    <3>2. shares[d] = Round(Share(r), 10000)
      BY <1>3, <1>10, <1>11, <1>13, <2>2, <3>1 DEF ClaimedShare, _grid_row_values
    <3>3. shares[d] # None
      <4>1. PICK s \in Int, l \in Nat \ {0} : s = Renewables(r) /\ l = r.load
        BY <1>1, <1>13 DEF ProperRow
      <4>2. Share(r) = Ratio(s, l)
        BY <4>1 DEF Share, Renewables
      <4>3. PICK v \in Int : RoundedTo(v, s, l)
        BY <4>1, RoundIsNear
      <4>4. Ratio(v, 10000) \in Ratios
        BY DEF Ratio, Ratios
      <4> QED
        BY <3>2, <4>2, <4>3, <4>4, ScoresAssumption DEF RoundedTo
    <3>4. is_dunkelflaute(shares[d], limit) <=> is_dunkelflaute(Share(r), limit)
      BY <1>1, <1>13, <3>2, RoundedDark
    <3> QED
      BY <2>2, <3>3, <3>4
  <2> QED
    BY <2>1, <2>2
<1> QED
  BY <1>1, <1>2, <1>6, <1>7, <1>8, <1>9, <1>12, <1>13

\* The radar's day is the last of the days with all their hours.
LEMMA ClaimableDays ==
    ASSUME NEW grid, DOMAIN grid \in SUBSET Int, IsFiniteSet(DOMAIN grid),
           \A x \in DOMAIN grid : ProperRow(grid[x]),
           NEW day, day = ClaimableDay(grid)
    PROVE  /\ day # None => day \in DOMAIN grid /\ share_is_claimable(grid[day])
           /\ \A d \in DOMAIN grid : share_is_claimable(grid[d]) => day # None /\ d <= day
<1>1. PICK S : S = {d \in DOMAIN grid : share_is_claimable(grid[d])}
  OBVIOUS
<1>2. S \in SUBSET Int /\ IsFiniteSet(S)
  BY <1>1, FS_Subset
<1>3. CASE S = {}
  <2>1. day = None
    BY <1>1, <1>3 DEF ClaimableDay
  <2> QED
    BY <1>1, <1>3, <2>1
<1>4. CASE S # {}
  <2>1. PICK a \in S, b \in S : \A x \in S : a <= x /\ x <= b
    BY <1>2, <1>4, HasEnds
  <2>2. Max(S) = b
    BY <1>2, <2>1, EndsAre
  <2>3. HasLoad(grid[b])
    BY <1>1 DEF ProperRow
  <2>4. day = b
    BY <1>1, <1>4, <2>2, <2>3 DEF ClaimableDay
  <2>5. b # None
    BY <1>2, NoneAssumption
  <2> QED
    BY <1>1, <2>1, <2>4, <2>5
<1> QED
  BY <1>3, <1>4

\* The radar raises the zones whose day is dark, as of that day.
RaisedZones(db) ==
    {z \in Zones : ClaimableDay(db.grid[z]) # None /\ DarkAndCovered(db, z, ClaimableDay(db.grid[z]))}

LEMMA RadarRaises ==
    ASSUME NEW db
    PROVE  /\ \A r \in detect_dunkelflaute(db) :
                r.zone \in RaisedZones(db) /\ r.as_of = ClaimableDay(db.grid[r.zone])
           /\ \A z \in RaisedZones(db) : \E r \in detect_dunkelflaute(db) : r.zone = z
<1>1. PICK Raised : Raised = RaisedZones(db)
  OBVIOUS
<1>2. PICK result : result = [z \in Raised |->
          DetectorResult("dunkelflaute", z, "warning", ClaimableDay(db.grid[z]), _MAX_AGE_DAYS.power)]
  OBVIOUS
<1>3. detect_dunkelflaute(db) = {result[z] : z \in Raised}
  <2>1. detect_dunkelflaute(db)
          = {DetectorResult("dunkelflaute", z, "warning", ClaimableDay(db.grid[z]), _MAX_AGE_DAYS.power) :
                z \in Raised}
    BY <1>1 DEF detect_dunkelflaute, RaisedZones, DarkAndCovered
  <2> QED
    BY <1>2, <2>1
<1>4. ASSUME NEW z \in Raised PROVE result[z].zone = z /\ result[z].as_of = ClaimableDay(db.grid[z])
  <2>1. result[z] = DetectorResult("dunkelflaute", z, "warning", ClaimableDay(db.grid[z]), _MAX_AGE_DAYS.power)
    BY <1>2
  <2>2. \A a, b : /\ DetectorResult("dunkelflaute", z, "warning", a, b).zone = z
                  /\ DetectorResult("dunkelflaute", z, "warning", a, b).as_of = a
    BY DEF DetectorResult
  <2> QED
    BY <2>1, <2>2
<1> QED
  BY <1>1, <1>3, <1>4

\* A record of daily rows, and what the radar and the desk agree on.
ProperRecord(grid) ==
    /\ DOMAIN grid \in SUBSET Int /\ IsFiniteSet(DOMAIN grid)
    /\ \A x \in DOMAIN grid : ProperRow(grid[x])
SayTheSame(db, z, t, days, radar) ==
    LET day == ClaimableDay(db.grid[z])
        desk == get_grid(db, z, t, days).dunkelflaute
    IN  /\ \A r \in radar : r.as_of = day /\ day # None
        /\ \A d \in desk : day # None /\ d <= day
        /\ day # None /\ day \in _window(t, days) =>
               \/ radar # {} <=> day \in desk
               \/ RoundedAcross(db.grid[z], day)

\* Whatever is on record, days of any length and thresholds of any history: the radar
\* raises a zone, as of its last day with all hours, if and only if the desk flags that
\* day in its window, unless the rounding of the desk's share carries it across the
\* month's tail or 15%, from half of a ten-thousandth away; the desk flags no later day.
THEOREM RadarIsDesk ==
    ASSUME NEW db, NEW z \in Zones, ProperRecord(db.grid[z]),
           NEW t, NEW days, DOMAIN db.grid[z] \cap _window(t, days) # {}
    PROVE  SayTheSame(db, z, t, days, {r \in detect_dunkelflaute(db) : r.zone = z})
<1>0. PICK day, desk, radar :
         /\ day = ClaimableDay(db.grid[z]) /\ desk = get_grid(db, z, t, days).dunkelflaute
         /\ radar = {r \in detect_dunkelflaute(db) : r.zone = z}
  OBVIOUS
<1>1. PICK grid, W, rows : grid = db.grid[z] /\ W = _window(t, days) /\ rows = GridRows(db, z, W)
  OBVIOUS
<1>2. DOMAIN rows = DOMAIN grid \cap W
  BY <1>1 DEF GridRows
<1>3. desk = {d \in DOMAIN rows : _flag_dunkelflaute(db, z, rows)[d]}
  <2>1. rows # <<>>
    BY <1>1, <1>2
  <2> QED
    BY <1>0, <1>1, <2>1 DEF get_grid, _resolve_zone
<1>4. \A d \in DOMAIN grid \cap W : /\ d \in desk => share_is_claimable(grid[d])
                                    /\ RoundedAcross(grid, d) \/ (d \in desk <=> DarkDay(db, z, d))
  <2>1. \A d \in DOMAIN grid \cap W :
            /\ _flag_dunkelflaute(db, z, rows)[d] => share_is_claimable(grid[d])
            /\ RoundedAcross(grid, d) \/ (_flag_dunkelflaute(db, z, rows)[d] <=> DarkDay(db, z, d))
    BY <1>1, DeskFlagsDarkDays DEF ProperRecord
  <2> QED
    BY <1>2, <1>3, <2>1
<1>5. /\ day # None => day \in DOMAIN grid /\ share_is_claimable(grid[day])
      /\ \A d \in DOMAIN grid : share_is_claimable(grid[d]) => day # None /\ d <= day
  BY <1>0, <1>1, ClaimableDays DEF ProperRecord
<1>6. /\ \A r \in radar : r.as_of = day /\ day # None
      /\ radar # {} <=> day # None /\ DarkDay(db, z, day)
  <2>1. z \in RaisedZones(db) <=> day # None /\ DarkDay(db, z, day)
    BY <1>0, <1>1, <1>5 DEF RaisedZones, DarkDay
  <2>2. \A r \in radar : z \in RaisedZones(db) /\ r.as_of = day
    BY <1>0, RadarRaises
  <2>3. z \in RaisedZones(db) => radar # {}
    BY <1>0, RadarRaises
  <2> QED
    BY <2>1, <2>2, <2>3
<1>7. \A d \in desk : day # None /\ d <= day
  BY <1>1, <1>2, <1>3, <1>4, <1>5
<1> QED
  BY <1>0, <1>1, <1>4, <1>5, <1>6, <1>7 DEF SayTheSame

-----------------------------------------------------------------------------
(* The radar and the desk, in the cases *)

\* The cases with a grid: rows of zone z1, asked about at the first hour.
GridAsked ==
    asked.kind = "grid" =>
        /\ now = Start
        /\ \E g \in Grids, m \in Mixes : asked = Case("grid", GridDb(g, m), <<>>, <<>>)

\* Their rows have numbers, and a load on days with all their hours.
LEMMA RowsAreProper == ASSUME NEW r \in GridRow \cup FineRow PROVE ProperRow(r)
<1>1. None \notin Int /\ HoursPerDay \in Nat \ {0}
  BY NoneAssumption, DayAssumption
<1>2. /\ r.solar = 0 /\ r.wind \in Int /\ r.load \in {20, 1007, None}
      /\ r.load = None => r.lh = 0
  BY DEF GridRow, FineRow, Row
<1>3. Renewables(r) \in Int
  BY <1>1, <1>2 DEF Renewables, Or0
<1>4. HasLoad(r) <=> r.load \in {20, 1007}
  BY <1>1, <1>2 DEF HasLoad
<1>5. share_is_claimable(r) => HasLoad(r)
  BY <1>1, <1>2, <1>4 DEF share_is_claimable
<1> QED
  BY <1>3, <1>4, <1>5 DEF ProperRow

\* The radar and the desk say the same of the cases with a grid (RadarMatchesDesk).
LEMMA RadarOfCase == ASSUME GridAsked PROVE RadarMatchesDesk
<1> SUFFICES ASSUME asked.kind = "grid" PROVE RadarMatchesDesk
  BY DEF RadarMatchesDesk
<1>1. PICK g \in Grids, m \in Mixes : asked = Case("grid", GridDb(g, m), <<>>, <<>>)
  BY DEF GridAsked
<1>2. PICK db : db = GridDb(g, m)
  OBVIOUS
<1>3. asked.db = db /\ db.grid = OnZ1(g) /\ now = Start
  BY <1>1, <1>2, Zenon DEF Case, GridDb, Empty, GridAsked
<1>4. PICK z \in Zones : z = "z1"
  BY DeskAssumption
<1>5. db.grid[z] = g /\ DOMAIN g = GridDays /\ \A x \in Zones : x # z => db.grid[x] = <<>>
  BY <1>1, <1>3, <1>4 DEF OnZ1, Grids
<1>6. /\ DOMAIN g \in SUBSET Int /\ IsFiniteSet(DOMAIN g)
      /\ DOMAIN g \cap _window(Start, 4) # {} /\ DOMAIN g \subseteq _window(Start, 4)
  <2>1. GridDays \subseteq Nat /\ IsFiniteSet(GridDays)
    BY DeskAssumption
  <2>2. GridDays # {} /\ GridDays \subseteq _window(Start, 4)
    BY DeskAssumption
  <2>3. DOMAIN g = GridDays
    BY <1>5
  <2>4. GridDays \in SUBSET Int
    BY <2>1
  <2>5. GridDays \cap _window(Start, 4) = GridDays
    BY <2>2
  <2> QED
    BY <2>1, <2>2, <2>3, <2>4, <2>5
<1>7. \A x \in DOMAIN g : ProperRow(g[x])
  BY RowsAreProper DEF Grids
<1>8. PICK t, days : t = now /\ days = 4
  OBVIOUS
<1>9. PICK day, desk, all, radar :
         /\ day = ClaimableDay(db.grid[z]) /\ desk = get_grid(db, z, t, days).dunkelflaute
         /\ all = detect_dunkelflaute(db) /\ radar = {r \in all : r.zone = z}
  OBVIOUS
<1>10. SayTheSame(db, z, t, days, radar)
  <2>1. DOMAIN db.grid[z] \cap _window(t, days) # {}
    BY <1>3, <1>5, <1>6, <1>8
  <2>2. ProperRecord(db.grid[z])
    BY <1>5, <1>6, <1>7 DEF ProperRecord
  <2>3. radar = {r \in detect_dunkelflaute(db) : r.zone = z}
    BY <1>9
  <2> QED
    BY <2>1, <2>2, <2>3, RadarIsDesk
<1>11. radar = all
  <2>1. ASSUME NEW x \in Zones, x # z PROVE ClaimableDay(db.grid[x]) = None
    <3>1. DOMAIN db.grid[x] = {}
      BY <1>5, <2>1
    <3> QED
      BY <3>1 DEF ClaimableDay
  <2>2. ASSUME NEW r \in all PROVE r.zone = z
    <3>1. r.zone \in RaisedZones(db)
      BY <1>9, <2>2, RadarRaises
    <3> QED
      BY <2>1, <3>1 DEF RaisedZones
  <2> QED
    BY <1>9, <2>2
<1>12. day # None => day \in _window(t, days)
  <2>1. day # None => day \in DOMAIN g
    BY <1>5, <1>6, <1>7, <1>9, ClaimableDays
  <2> QED
    BY <1>3, <1>6, <1>8, <2>1
<1>13. /\ \A r \in radar : r.as_of = day /\ day # None
       /\ \A d \in desk : day # None /\ d <= day
       /\ day # None /\ day \in _window(t, days) =>
              (radar # {} <=> day \in desk) \/ RoundedAcross(db.grid[z], day)
  BY <1>9, <1>10 DEF SayTheSame
<1> QED
  BY <1>3, <1>4, <1>8, <1>9, <1>11, <1>12, <1>13 DEF RadarMatchesDesk, RoundedAcross

\* The radar and the desk say the same of a zone in every case the desk is asked
\* (RadarMatchesDesk).
THEOREM RadarAndDesk == DeskSpec => []RadarMatchesDesk
<1>1. DeskInit => GridAsked
  <2> SUFFICES ASSUME DeskInit, asked.kind = "grid" PROVE GridAsked
    BY DEF GridAsked
  <2>1. PICK g \in Grids, m \in Mixes : asked = Case("grid", GridDb(g, m), <<>>, <<>>)
    BY KindOfCase DEF GridCases
  <2>2. now = Start
    BY DEF DeskInit
  <2> QED
    BY <2>1, <2>2 DEF GridAsked
<1>2. GridAsked /\ [DeskNext]_<<input, parsed, deskVars>> => GridAsked'
  <2> SUFFICES ASSUME GridAsked, [DeskNext]_<<input, parsed, deskVars>> PROVE GridAsked'
    OBVIOUS
  <2>1. asked' = asked
    BY AskedStays
  <2>2. now' = now \/ asked.kind = "sample"
    BY DEF DeskNext, ParseDocument, deskVars, Ask, AskSample, AskOther, CacheOverview, ServeOverview, Pass
  <2> QED
    BY <2>1, <2>2 DEF GridAsked
<1>3. GridAsked => RadarMatchesDesk
  BY RadarOfCase
<1> QED
  BY <1>1, <1>2, <1>3, PTL DEF DeskSpec

-----------------------------------------------------------------------------
(* The question box names the years it does not show *)

\* What it takes for an answer to show or name its years.
LEMMA ShowsOrNames ==
    ASSUME NEW q, NEW a,
           (a.available /\ a.interpreted.grain = "yearly") =>
               IF q.id = "mix"
               THEN AllYears(q.from, a.interpreted.to, a.periods, NamedIn(a.coverage, a.interpreted.zones[1]))
               ELSE \A z \in DOMAIN a.columns :
                        AllYears(q.from, a.interpreted.to, DOMAIN a.columns[z], NamedIn(a.coverage, z))
    PROVE  YearsShownOrNamed(q, a)
BY DEF YearsShownOrNamed, AllYears, NamedIn

\* The question box names the years it does not show: of any record, whatever the
\* metric, the zones and the window of the question, every year asked for is in a
\* column of a yearly answer or in a note about it, and not both
\* (answer_structured, _coverage_note, _gap_note).
THEOREM YearsNamed ==
    ASSUME NEW db, HoursOnRecord(db), NEW q, IsYear(q.from), IsYear(q.to), NEW t \in Nat
    PROVE  YearsShownOrNamed(q, answer_structured(db, q.id, q.zones, q.from, q.to, t))
<1>1. PICK a : a = answer_structured(db, q.id, q.zones, q.from, q.to, t)
  OBVIOUS
<1>2. ASSUME a.available, a.interpreted.grain = "yearly"
      PROVE  IF q.id = "mix"
             THEN AllYears(q.from, a.interpreted.to, a.periods, NamedIn(a.coverage, a.interpreted.zones[1]))
             ELSE \A z \in DOMAIN a.columns :
                      AllYears(q.from, a.interpreted.to, DOMAIN a.columns[z], NamedIn(a.coverage, z))
  <2>1. PICK zones, from, to, start, end :
           /\ zones = KnownZones(q.zones) /\ from = q.from
           /\ to = (IF q.to = None THEN YearOfHour(t) ELSE Min({q.to, YearOfHour(t)}))
           /\ start = (IF q.from = None THEN None ELSE YearStart(q.from))
           /\ end = YearStart(to + 1)
    OBVIOUS
  <2>2. PICK metric, monthly : metric = METRIC_BY_ID[q.id] /\ monthly = (from = to)
    OBVIOUS
  <2>3. PICK found : found = (IF metric.fuels
                              THEN FuelColumns(db, zones, from, to, monthly, start, end)
                              ELSE ZoneColumns(db, metric, zones, from, to, monthly, start, end))
    OBVIOUS
  <2>4. /\ q.id \in DOMAIN METRIC_BY_ID
        /\ a = AnswerOf(found, metric.fuels, zones, Echo(q.id, None, from, to, monthly), PeriodOf(t, monthly))
    <3>1. PICK start0 : start0 = (IF from = None THEN None ELSE YearStart(from))
      OBVIOUS
    <3>2. /\ q.id \notin DOMAIN METRIC_BY_ID => ~a.available
          /\ zones = <<>> => ~a.available
      BY <1>1, <2>1 DEF answer_structured
    <3>3. /\ q.id \in DOMAIN METRIC_BY_ID /\ zones # <<>>
      BY <1>2, <3>2
    <3>4. a = AnswerOf(IF metric.fuels
                       THEN FuelColumns(db, zones, from, to, from = to, start, end)
                       ELSE ZoneColumns(db, metric, zones, from, to, from = to, start, end),
                       metric.fuels, zones, Echo(q.id, None, from, to, from = to), PeriodOf(t, from = to))
      BY <1>1, <2>1, <2>2, <3>3, ZenonT(30) DEF answer_structured
    <3>5. /\ FuelColumns(db, zones, from, to, from = to, start, end)
               = FuelColumns(db, zones, from, to, monthly, start, end)
          /\ ZoneColumns(db, metric, zones, from, to, from = to, start, end)
               = ZoneColumns(db, metric, zones, from, to, monthly, start, end)
          /\ Echo(q.id, None, from, to, from = to) = Echo(q.id, None, from, to, monthly)
          /\ PeriodOf(t, from = to) = PeriodOf(t, monthly)
      BY <2>2
    <3>6. a = AnswerOf(IF metric.fuels
                       THEN FuelColumns(db, zones, from, to, monthly, start, end)
                       ELSE ZoneColumns(db, metric, zones, from, to, monthly, start, end),
                       metric.fuels, zones, Echo(q.id, None, from, to, monthly), PeriodOf(t, monthly))
      BY <3>4, <3>5
    <3> QED
      BY <2>3, <3>3, <3>6
  <2>5. metric.fuels = (q.id = "mix")
    BY <2>2, <2>4, MixHasFuels
  <2>6. to \in Int
    BY <2>1, WindowEnds
  <2>7. IsYear(from)
    BY <2>1
  <2>8. PICK fuels, running : fuels = metric.fuels /\ running = PeriodOf(t, monthly)
    OBVIOUS
  <2>9. PICK id : id = q.id
    OBVIOUS
  <2>10. a = AnswerOf(found, fuels, zones, Echo(id, None, from, to, monthly), running)
    BY <2>4, <2>8, <2>9
  <2>11. /\ a.columns = found.columns /\ a.coverage = found.coverage
         /\ a.periods = UNION {DOMAIN found.columns[c] : c \in DOMAIN found.columns}
         /\ a.interpreted.zones = found.zones /\ a.interpreted.to = to
         /\ a.interpreted.grain = (IF monthly THEN "monthly" ELSE "yearly")
    BY <1>2, <2>10, AnswerShows
  <2>12. ~monthly
    BY <1>2, <2>11
  <2>13. CASE q.id = "mix"
    <3>1. found = FuelColumns(db, zones, from, to, monthly, start, end)
      BY <2>3, <2>5, <2>13
    <3>2. AllYears(from, to, UNION {DOMAIN found.columns[c] : c \in DOMAIN found.columns},
                   NamedIn(found.coverage, found.zones[1]))
      BY <2>6, <2>7, <2>12, <3>1, FuelColumnYears
    <3> QED
      BY <2>1, <2>11, <2>13, <3>2
  <2>14. CASE q.id # "mix"
    <3>1. found = ZoneColumns(db, metric, zones, from, to, monthly, start, end)
      BY <2>3, <2>5, <2>14
    <3>2. ASSUME NEW z \in DOMAIN found.columns
          PROVE  AllYears(from, to, DOMAIN found.columns[z], NamedIn(found.coverage, z))
      BY <2>6, <2>7, <2>12, <3>1, ZoneColumnYears
    <3> QED
      BY <2>1, <2>11, <2>14, <3>2
  <2> QED
    BY <2>13, <2>14
<1> QED
  BY <1>1, <1>2, ShowsOrNames

-----------------------------------------------------------------------------
(* The cases of the question box *)

\* The record of every case of the instance.
AskedOnRecord == asked.kind = "ask" => HoursOnRecord(asked.db)

LEMMA CasesHaveHours == ASSUME DeskInit PROVE AskedOnRecord
<1> SUFFICES ASSUME asked.kind = "ask" PROVE HoursOnRecord(asked.db)
  BY DEF AskedOnRecord
<1>1. asked \in AskCases
  BY KindOfCase
<1>2. PICK f, g : /\ \E S \in SUBSET AskHours : f = [h \in S |-> h + 1]
                  /\ \E S \in SUBSET {7, 12, 24, 25} : g = [h \in S |-> 2]
                  /\ asked.db = AskDb(f, g)
  <2>1. PICK f \in {[h \in S |-> h + 1] : S \in SUBSET AskHours},
             g \in {[h \in S |-> 2] : S \in SUBSET {7, 12, 24, 25}} : asked = Case("ask", AskDb(f, g), f, g)
    BY <1>1 DEF AskCases
  <2>2. \E S \in SUBSET AskHours : f = [h \in S |-> h + 1]
    BY <2>1
  <2>3. \E S \in SUBSET {7, 12, 24, 25} : g = [h \in S |-> 2]
    BY <2>1
  <2>4. asked.db = AskDb(f, g)
    BY <2>1 DEF Case
  <2> QED
    BY <2>2, <2>3, <2>4
<1>3. \A H \in SUBSET (0..36) : H \in SUBSET Nat /\ IsFiniteSet(H)
  <2>1. IsFiniteSet(0..36)
    <3>1. PICK n \in Nat : n = 36
      OBVIOUS
    <3>2. IsFiniteSet(0..n)
      BY FS_Interval
    <3> QED
      BY <3>1, <3>2
  <2>2. 0..36 \in SUBSET Nat
    OBVIOUS
  <2> QED
    BY <2>1, <2>2, FS_Subset
<1>4. PICK e : e = [h \in {3} |-> 5]
  OBVIOUS
<1>5. \A r : r \in {f, g, e, <<>>} => DOMAIN r \in SUBSET Nat /\ IsFiniteSet(DOMAIN r)
  <2>1. DOMAIN f \in SUBSET (0..36)
    BY <1>2 DEF AskHours
  <2>2. DOMAIN g \in SUBSET (0..36)
    BY <1>2
  <2>3. DOMAIN e \in SUBSET (0..36)
    BY <1>4
  <2>4. DOMAIN <<>> \in SUBSET (0..36)
    OBVIOUS
  <2>5. \A r : r \in {f, g, e, <<>>} => DOMAIN r \in SUBSET (0..36)
    BY <2>1, <2>2, <2>3, <2>4
  <2> QED
    BY <1>3, <2>5
<1>6. \A k \in DOMAIN AskDb(f, g).hours : AskDb(f, g).hours[k] \in {f, g, e, <<>>}
  BY <1>4 DEF AskDb, Empty
<1>7. ASSUME NEW s, NEW z PROVE Hourly(asked.db, s, z) \in {f, g, e, <<>>}
  BY <1>2, <1>6 DEF Hourly, Get
<1> QED
  BY <1>5, <1>7 DEF HoursOnRecord

\* The question box names the years it does not show, in every case of the
\* instance (GapsNamed).
THEOREM CasesNameTheirGaps == DeskSpec => []GapsNamed
<1>1. DeskInit => AskedOnRecord
  BY CasesHaveHours
<1>2. AskedOnRecord /\ [DeskNext]_<<input, parsed, deskVars>> => AskedOnRecord'
  BY AskedStays DEF AskedOnRecord
<1>3. AskedOnRecord => GapsNamed
  <2> SUFFICES ASSUME AskedOnRecord, asked.kind = "ask", NEW q \in QuestionsOf
               PROVE  YearsShownOrNamed(q, AnswerTo(asked, q))
    BY DEF GapsNamed
  <2>1. PICK db, t : db = asked.db /\ t = AskNow
    OBVIOUS
  <2>2. HoursOnRecord(db) /\ t \in Nat
    BY <2>1 DEF AskedOnRecord, AskNow
  <2>3. IsYear(q.from) /\ IsYear(q.to)
    BY DEF QuestionsOf, IsYear
  <2>4. YearsShownOrNamed(q, answer_structured(db, q.id, q.zones, q.from, q.to, t))
    BY <2>2, <2>3, YearsNamed
  <2> QED
    BY <2>1, <2>4 DEF AnswerTo
<1> QED
  BY <1>1, <1>2, <1>3, PTL DEF DeskSpec
=============================================================================
