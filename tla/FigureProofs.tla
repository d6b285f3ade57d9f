---------------------------- MODULE FigureProofs ----------------------------
(*****************************************************************************)
(* Proofs about the functions of Derived, Readings, Panels, PublicApi,       *)
(* Detectors, Questions and Gas, for any series, messages, registry and      *)
(* flows, whatever the hours of a day and the days of a month: bands and     *)
(* scores pool, the situation of a zone reads alike, the years not shown are *)
(* named, one report of a flow counts.                                       *)
(*****************************************************************************)
EXTENDS PublicApi, Detectors, Questions, Gas, DataTheorems, TLAPS

-----------------------------------------------------------------------------
(* Capture prices: the dicts and the database *)

\* A price and a series of generation on record: numbers for some of the hours.
IsPrice(p) == DOMAIN p \subseteq Nat /\ IsFiniteSet(DOMAIN p) /\ \A h \in DOMAIN p : p[h] \in Int
IsGeneration(g) == DOMAIN g \subseteq Nat /\ IsFiniteSet(DOMAIN g) /\ \A h \in DOMAIN g : g[h] \in Nat
OfMonth(x, m) == [h \in {k \in DOMAIN x : MonthOfHour(k) = m} |-> x[h]]
CommonHours(p, g, m) == {h \in DOMAIN p \cap DOMAIN g : MonthOfHour(h) = m}
FuelRows(p, g, m) == {r \in Joined(p, g, m) : r[1] >= 0}
MonthFigures(p, g, H) ==
    [hours |-> Cardinality(H), days |-> Cardinality({DayOfHour(h) : h \in H}),
     capture_price |-> Ratio(Total([h \in H |-> p[h] * g[h]], H), Total(g, H)),
     capture_price_floor0 |-> Ratio(Total([h \in H |-> Positive(p[h]) * g[h]], H), Total(g, H)),
     negative_gen |-> Ratio(Total(g, {h \in H : p[h] < 0}), Total(g, H)),
     negative_hours |-> Cardinality({h \in H : p[h] < 0 /\ g[h] > 0})]
RowAt(p, g) == [h \in DOMAIN p \cap DOMAIN g |-> <<h, p[h], g[h]>>]

\* Sums over the joined rows are sums over the common hours.
LEMMA RowsAreHours ==
    ASSUME NEW p, NEW g, IsPrice(p), IsGeneration(g), NEW m
    PROVE  LET H == CommonHours(p, g, m)
               rows == FuelRows(p, g, m)
           IN
           /\ IsFiniteSet(H) /\ H \subseteq DOMAIN p \cap DOMAIN g
           /\ \A h \in H : h \in Nat /\ p[h] \in Int /\ g[h] \in Nat
           /\ rows = {RowAt(p, g)[h] : h \in H}
           /\ \A h, k \in H : RowAt(p, g)[h] = RowAt(p, g)[k] => h = k
           /\ \A h \in H : RowAt(p, g)[h] = <<h, p[h], g[h]>> /\ RowAt(p, g)[h] \in rows
<1> DEFINE H == CommonHours(p, g, m)
<1> DEFINE rows == FuelRows(p, g, m)
<1>1. H \subseteq DOMAIN p \cap DOMAIN g
  BY DEF CommonHours
<1>2. IsFiniteSet(H) 
  BY <1>1, FS_Subset DEF IsPrice
<1>3. \A h \in H : h \in Nat /\ p[h] \in Int /\ g[h] \in Nat
  BY <1>1 DEF IsPrice, IsGeneration
<1>4. \A h \in H : RowAt(p, g)[h] = <<h, p[h], g[h]>>
  BY <1>1 DEF RowAt
<1>5. rows = {RowAt(p, g)[h] : h \in H}
  <2>1. Joined(p, g, m) = {<<h, p[h], g[h]>> : h \in H}
    BY DEF Joined, CommonHours, MonthOfHour
  <2>2. \A h \in H : <<h, p[h], g[h]>>[1] >= 0
    BY <1>3
  <2> QED
    BY <1>4, <2>1, <2>2 DEF FuelRows
<1>6. \A h, k \in H : RowAt(p, g)[h] = RowAt(p, g)[k] => h = k
  BY <1>4
<1> QED
  BY <1>1, <1>2, <1>3, <1>4, <1>5, <1>6

\* The models' sum is the total of DataTheorems.
LEMMA SumOverIsTotal == ASSUME NEW f, NEW S PROVE SumOver(f, S) = Total(f, S)
BY DEF SumOver, Total, MapThenSumSet, MapThenFoldSet

\* A figure of the rows and the same figure of the hours.
LEMMA RowSums ==
    ASSUME NEW p, NEW g, IsPrice(p), IsGeneration(g), NEW m, NEW rows,
           rows = FuelRows(p, g, m), NEW H, H = CommonHours(p, g, m)
    PROVE  FuelGen(rows) = Total(g, H) /\ FuelFigures(rows) = MonthFigures(p, g, H)
<1>0. PICK b : b = RowAt(p, g)
  OBVIOUS
<1>1. /\ IsFiniteSet(H) /\ H \subseteq DOMAIN p \cap DOMAIN g
      /\ \A h \in H : h \in Nat /\ p[h] \in Int /\ g[h] \in Nat
      /\ rows = {b[h] : h \in H}
      /\ \A h, k \in H : b[h] = b[k] => h = k
      /\ \A h \in H : b[h] = <<h, p[h], g[h]>> /\ b[h] \in rows
  <2>1. /\ IsFiniteSet(H) /\ H \subseteq DOMAIN p \cap DOMAIN g
        /\ \A h \in H : h \in Nat /\ p[h] \in Int /\ g[h] \in Nat
        /\ rows = {RowAt(p, g)[h] : h \in H}
        /\ \A h, k \in H : RowAt(p, g)[h] = RowAt(p, g)[k] => h = k
        /\ \A h \in H : RowAt(p, g)[h] = <<h, p[h], g[h]>> /\ RowAt(p, g)[h] \in rows
    BY RowsAreHours
  <2> QED
    BY <1>0, <2>1
<1>2. ASSUME NEW f, NEW c, \A h \in H : f[h] \in Int /\ f[h] = c[b[h]]
      PROVE  SumOver(c, rows) = Total(f, H)
  BY <1>1, <1>2, TotalImage, SumOverIsTotal
<1>3. FuelGen(rows) = Total(g, H)
  <2>1. PICK c : c = [r \in rows |-> r[3]]
    OBVIOUS
  <2>2. \A h \in H : g[h] \in Int /\ g[h] = c[b[h]]
    BY <1>1, <2>1
  <2> QED
    BY <1>2, <2>1, <2>2 DEF FuelGen
<1>4. Cardinality(rows) = Cardinality(H)
  BY <1>1, Images
<1>5. {DayOfHour(r[1]) : r \in rows} = {DayOfHour(h) : h \in H}
  <2>1. \A h \in H : b[h][1] = h
    BY <1>1
  <2> QED
    BY <1>1, <2>1
<1>6. SumOver([r \in rows |-> r[2] * r[3]], rows) = Total([h \in H |-> p[h] * g[h]], H)
  <2>1. PICK c : c = [r \in rows |-> r[2] * r[3]]
    OBVIOUS
  <2>2. PICK f : f = [h \in H |-> p[h] * g[h]]
    OBVIOUS
  <2>3. \A h \in H : f[h] \in Int /\ f[h] = c[b[h]]
    BY <1>1, <2>1, <2>2
  <2> QED
    BY <1>2, <2>1, <2>2, <2>3
<1>7. SumOver([r \in rows |-> IF r[2] > 0 THEN r[2] * r[3] ELSE 0], rows)
        = Total([h \in H |-> Positive(p[h]) * g[h]], H)
  <2>1. PICK c : c = [r \in rows |-> IF r[2] > 0 THEN r[2] * r[3] ELSE 0]
    OBVIOUS
  <2>2. PICK f : f = [h \in H |-> Positive(p[h]) * g[h]]
    OBVIOUS
  <2>3. ASSUME NEW h \in H PROVE f[h] \in Int /\ f[h] = c[b[h]]
    <3>1. c[b[h]] = IF p[h] > 0 THEN p[h] * g[h] ELSE 0
      BY <1>1, <2>1
    <3>2. f[h] = IF p[h] > 0 THEN p[h] * g[h] ELSE 0 * g[h]
      BY <2>2 DEF Positive
    <3>3. p[h] \in Int /\ g[h] \in Int
      BY <1>1
    <3> QED
      BY <3>1, <3>2, <3>3
  <2> QED
    BY <1>2, <2>1, <2>2, <2>3
<1>8. SumOver([r \in rows |-> IF r[2] < 0 THEN r[3] ELSE 0], rows) = Total(g, {h \in H : p[h] < 0})
  <2>1. PICK c : c = [r \in rows |-> IF r[2] < 0 THEN r[3] ELSE 0]
    OBVIOUS
  <2>2. PICK f : f = [h \in H |-> IF p[h] < 0 THEN g[h] ELSE 0]
    OBVIOUS
  <2>3. \A h \in H : f[h] \in Int /\ f[h] = c[b[h]]
    BY <1>1, <2>1, <2>2
  <2>4. PICK N : N = {h \in H : p[h] < 0}
    OBVIOUS
  <2>5. /\ N \in SUBSET H
        /\ \A h \in N : f[h] = g[h] /\ f[h] \in Int
        /\ \A h \in H \ N : f[h] = 0
    BY <1>1, <2>2, <2>4
  <2>6. Total(f, H) = Total(g, N)
    BY <1>1, <2>5, TotalWithin
  <2> QED
    BY <1>2, <2>1, <2>3, <2>4, <2>6
<1>9. SumOver([r \in rows |-> IF r[2] < 0 /\ r[3] > 0 THEN 1 ELSE 0], rows)
        = Cardinality({h \in H : p[h] < 0 /\ g[h] > 0})
  <2>1. PICK c : c = [r \in rows |-> IF r[2] < 0 /\ r[3] > 0 THEN 1 ELSE 0]
    OBVIOUS
  <2>2. PICK f : f = [h \in H |-> IF p[h] < 0 /\ g[h] > 0 THEN 1 ELSE 0]
    OBVIOUS
  <2>3. \A h \in H : f[h] \in Int /\ f[h] = c[b[h]]
    BY <1>1, <2>1, <2>2
  <2>4. PICK N : N = {h \in H : p[h] < 0 /\ g[h] > 0}
    OBVIOUS
  <2>5. N \in SUBSET H /\ (\A h \in N : f[h] = 1) /\ (\A h \in H \ N : f[h] = 0)
    BY <2>2, <2>4
  <2>6. Total(f, H) = Cardinality(N)
    BY <1>1, <2>5, TotalCount
  <2> QED
    BY <1>2, <2>1, <2>3, <2>4, <2>6
<1> QED
  BY <1>3, <1>4, <1>5, <1>6, <1>7, <1>8, <1>9 DEF FuelFigures, MonthFigures

\* The figures of the dicts, as totals over the common hours of the month.
LEMMA DictFigures ==
    ASSUME NEW p, NEW g, IsPrice(p), IsGeneration(g), NEW m, NEW H, H = CommonHours(p, g, m),
           NEW dicts, dicts = capture_metrics(OfMonth(p, m), OfMonth(g, m))
    PROVE  /\ Total(g, H) \in Int
           /\ Total(g, H) <= 0 => dicts = None
           /\ Total(g, H) > 0 => dicts = MonthFigures(p, g, H)
<1>1. /\ IsFiniteSet(H) /\ H \subseteq DOMAIN p \cap DOMAIN g
      /\ \A h \in H : p[h] \in Int /\ g[h] \in Nat
  BY RowsAreHours
<1>2. PICK pm, gm : pm = OfMonth(p, m) /\ gm = OfMonth(g, m)
  OBVIOUS
<1>3. DOMAIN gm \cap DOMAIN pm = H
  BY <1>2 DEF OfMonth, CommonHours
<1>4. \A h \in H : pm[h] = p[h] /\ gm[h] = g[h]
  BY <1>2 DEF OfMonth, CommonHours
<1>5. SumOver(gm, H) = Total(g, H) /\ Total(g, H) \in Int
  BY <1>1, <1>4, TotalSame, TotalType, SumOverIsTotal
<1>6. /\ [h \in H |-> pm[h] * gm[h]] = [h \in H |-> p[h] * g[h]]
      /\ [h \in H |-> Positive(pm[h]) * gm[h]] = [h \in H |-> Positive(p[h]) * g[h]]
      /\ {h \in H : pm[h] < 0} = {h \in H : p[h] < 0}
      /\ {h \in H : pm[h] < 0 /\ gm[h] > 0} = {h \in H : p[h] < 0 /\ g[h] > 0}
  BY <1>4
<1>7. SumOver(gm, {h \in H : p[h] < 0}) = Total(g, {h \in H : p[h] < 0})
  <2>1. PICK N : N = {h \in H : p[h] < 0}
    OBVIOUS
  <2>2. IsFiniteSet(N) /\ \A h \in N : gm[h] = g[h]
    BY <1>1, <1>4, <2>1, FS_Subset
  <2> QED
    BY <2>1, <2>2, TotalSame, SumOverIsTotal
<1>8. dicts = IF pm = <<>> \/ Total(g, H) <= 0 THEN None
                      ELSE MonthFigures(p, g, H)
  BY <1>2, <1>3, <1>5, <1>6, <1>7, SumOverIsTotal DEF capture_metrics, MonthFigures
<1>9. Total(g, H) > 0 => pm # <<>>
  <2>1. H = {} => Total(g, H) = 0
    BY TotalEmpty
  <2>2. H # {} => DOMAIN pm # {}
    BY <1>3
  <2> QED
    BY <2>1, <2>2
<1> QED
  BY <1>5, <1>8, <1>9

-----------------------------------------------------------------------------
(* Days put together: convergence bands and forecast scores *)

\* The sums of the model are the sums of the theorems.
LEMMA RatioSumIsTotal == ASSUME NEW f, NEW S PROVE RatioSum(f, S) = RatioTotal(f, S)
BY DEF RatioSum, RatioTotal, MapThenFoldSet, Plus, AddRatio, Zero, NoRatio, Ratio

\* The hours of a day are those that DayOfHour sends to it.
LEMMA HoursOfDay ==
    ASSUME NEW h \in Nat
    PROVE  /\ DayOfHour(h) \in 0..h
           /\ \A d \in Nat : h \in HoursOf(d) <=> DayOfHour(h) = d
<1>1. HoursPerDay \in Nat \ {0}
  BY DayAssumption
<1>2. \A H \in Nat \ {0} : /\ h \div H \in 0..h
                           /\ \A d \in Nat : h \in (d * H)..(d * H + H - 1) <=> h \div H = d
  OBVIOUS
<1> QED
  BY <1>1, <1>2 DEF HoursOf, DayOfHour

\* Day by day: a figure e of the hours S of the days D, k the day of an hour; a
\* day has the mean of its hours, and t weighs it by their number.
DayGroup(S, k, d) == {x \in S : k[x] = d}

\* The weighted days give the mean of the hours.
LEMMA PooledMean ==
    ASSUME NEW S, IsFiniteSet(S), S # {}, NEW k, NEW D, IsFiniteSet(D),
           \A x \in S : k[x] \in D, \A d \in D : DayGroup(S, k, d) # {},
           NEW e, \A x \in S : e[x] \in Int, NEW t,
           \A d \in D : t[d] = Ratio(Total(e, DayGroup(S, k, d)) * Cardinality(DayGroup(S, k, d)),
                                     Cardinality(DayGroup(S, k, d))),
           NEW s, s = RatioSum(t, D)
    PROVE  /\ s \in Ratios
           /\ Ratio(s.sum, s.n * Cardinality(S)) \in Ratios
           /\ Same(Ratio(s.sum, s.n * Cardinality(S)), MeanOver(e, S))
<1>1. PICK v : v = [d \in D |-> Total(e, DayGroup(S, k, d))]
  OBVIOUS
<1>2. ASSUME NEW d \in D
      PROVE  /\ v[d] \in Int /\ t[d].n \in Nat \ {0} /\ t[d].sum = v[d] * t[d].n
             /\ t[d] \in Ratios
  <2>1. PICK G : G = DayGroup(S, k, d)
    OBVIOUS
  <2>2. G \in SUBSET S /\ G # {}
    BY <2>1 DEF DayGroup
  <2>3. IsFiniteSet(G) /\ \A x \in G : e[x] \in Int
    BY <2>2, FS_Subset
  <2>4. Total(e, G) \in Int /\ Cardinality(G) \in Nat \ {0}
    BY <2>2, <2>3, TotalType, FS_CardinalityType, FS_EmptySet
  <2>5. t[d] = Ratio(v[d] * Cardinality(G), Cardinality(G)) /\ v[d] = Total(e, G)
    BY <1>1, <2>1
  <2> QED
    BY <2>4, <2>5 DEF Ratio, Ratios
<1>3. s = RatioTotal(t, D)
  BY RatioSumIsTotal
<1>4. s.n \in Nat \ {0} /\ s.sum = Total(v, D) * s.n
  BY <1>2, <1>3, RatioValue
<1>5. s \in Ratios
  BY <1>2, <1>3, RatioType DEF Ratios
<1>6. Total(e, S) = Total(v, D)
  <2>1. Total(e, S) = Total([d \in D |-> Total(e, {x \in S : k[x] = d})], D)
    BY TotalGroup
  <2> QED
    BY <1>1, <2>1 DEF DayGroup
<1>7. PICK n, a, m : n = Cardinality(S) /\ a = Total(e, S) /\ m = s.n
  OBVIOUS
<1>8. n \in Nat /\ a \in Int /\ m \in Nat
  BY <1>4, <1>7, TotalType, FS_CardinalityType
<1>9. (a * m) * n = a * (m * n)
  BY <1>8
<1>10. Ratio(s.sum, m * n) \in Ratios
  BY <1>5, <1>8 DEF Ratios, Ratio
<1>11. Same(Ratio(a * m, m * n), Ratio(a, n))
  BY <1>9 DEF Same, Ratio
<1>12. MeanOver(e, S) = Ratio(a, n)
  BY <1>7, SumOverIsTotal DEF MeanOver
<1> QED
  BY <1>4, <1>5, <1>6, <1>7, <1>10, <1>11, <1>12

\* Counting day by day.
LEMMA PooledCount ==
    ASSUME NEW S, IsFiniteSet(S), NEW k, NEW D, IsFiniteSet(D), \A x \in S : k[x] \in D,
           NEW c, \A d \in D : c[d] = Cardinality(DayGroup(S, k, d))
    PROVE  SumOver(c, D) = Cardinality(S)
<1>1. Cardinality(S) = Total([d \in D |-> Cardinality({x \in S : k[x] = d})], D)
  BY CountGroup
<1>2. PICK q : q = [d \in D |-> Cardinality({x \in S : k[x] = d})]
  OBVIOUS
<1>3. \A d \in D : c[d] = q[d]
  BY <1>2 DEF DayGroup
<1>4. Total(c, D) = Total(q, D)
  BY <1>3, TotalSame
<1> QED
  BY <1>1, <1>2, <1>4, SumOverIsTotal

\* Two price series: their common hours, the gap of an hour, the hours of full
\* and of low convergence, and the day of an hour.
BandParts(f, g, both, gap, full, low, k) ==
    /\ IsPrice(f) /\ IsPrice(g) /\ both = DOMAIN f \cap DOMAIN g
    /\ gap = [h \in both |-> Abs(f[h] - g[h])] /\ k = [h \in both |-> DayOfHour(h)]
    /\ full = {h \in both : gap[h] <= 1} /\ low = {h \in both : gap[h] > 10}

\* The parts are finite and the gaps are numbers.
LEMMA BandPartsType ==
    ASSUME NEW f, NEW g, NEW both, NEW gap, NEW full, NEW low, NEW k,
           BandParts(f, g, both, gap, full, low, k)
    PROVE  /\ IsFiniteSet(both) /\ (\A h \in both : gap[h] \in Int)
           /\ full \in SUBSET both /\ low \in SUBSET both
           /\ IsFiniteSet(full) /\ IsFiniteSet(low)
<1>1. IsFiniteSet(both) /\ \A h \in both : f[h] \in Int /\ g[h] \in Int
  BY FS_Subset DEF BandParts, IsPrice
<1>2. \A h \in both : gap[h] \in Int
  BY <1>1 DEF BandParts, Abs
<1>3. full \in SUBSET both /\ low \in SUBSET both
  BY DEF BandParts
<1> QED
  BY <1>1, <1>2, <1>3, FS_Subset

\* A day as store_convergence keeps it.
KeptDay(day, d, both, gap, full, low, k) ==
    /\ DOMAIN day = {"full", "low", "hours", "spread"}
    /\ day["full"] = Cardinality(DayGroup(full, k, d))
    /\ day["low"] = Cardinality(DayGroup(low, k, d))
    /\ day["hours"] = Cardinality(DayGroup(both, k, d))
    /\ day["spread"] = MeanOver(gap, DayGroup(both, k, d))

\* The days kept are those with a common hour, each as KeptDay says.
LEMMA BandDays ==
    ASSUME NEW f, NEW g, NEW both, NEW gap, NEW full, NEW low, NEW k,
           BandParts(f, g, both, gap, full, low, k), NEW days, days = store_convergence(f, g)
    PROVE  /\ IsFiniteSet(DOMAIN days) /\ \A h \in both : k[h] \in DOMAIN days
           /\ \A d \in DOMAIN days : DayGroup(both, k, d) # {}
           /\ \A d \in DOMAIN days : KeptDay(days[d], d, both, gap, full, low, k)
<1>1. /\ both = DOMAIN f \cap DOMAIN g /\ gap = [h \in both |-> Abs(f[h] - g[h])]
      /\ k = [h \in both |-> DayOfHour(h)]
  BY DEF BandParts
<1>2. DOMAIN days = {DayOfHour(h) : h \in both}
  BY <1>1 DEF store_convergence
<1>3. DOMAIN days = {k[h] : h \in both}
  BY <1>1, <1>2
<1>4. /\ \A d \in DOMAIN days : DayGroup(both, k, d) # {}
      /\ \A h \in both : k[h] \in DOMAIN days
  BY <1>3 DEF DayGroup
<1>0. IsFiniteSet(DOMAIN days)
  BY <1>3, BandPartsType, Images
<1>5. ASSUME NEW d \in DOMAIN days PROVE KeptDay(days[d], d, both, gap, full, low, k)
  <2>1. PICK G : G = DayGroup(both, k, d)
    OBVIOUS
  <2>2. G = {h \in both : DayOfHour(h) = d}
    BY <1>1, <2>1 DEF DayGroup
  <2>3. DayGroup(full, k, d) = {h \in G : gap[h] <= 1} /\ DayGroup(low, k, d) = {h \in G : gap[h] > 10}
    BY <2>1 DEF DayGroup, BandParts
  <2>4. days[d] = [full |-> band_counts(gap, G).full, low |-> band_counts(gap, G).low,
                   hours |-> Cardinality(G), spread |-> MeanOver(gap, G)]
    BY <1>1, <1>2, <1>5, <2>2 DEF store_convergence
  <2>5. /\ band_counts(gap, G).full = Cardinality({h \in G : gap[h] <= 1})
        /\ band_counts(gap, G).low = Cardinality({h \in G : gap[h] > 10})
    BY DEF band_counts, FULL_EUR, LOW_EUR
  <2>6. PICK nf, nl, nh, m : /\ nf = band_counts(gap, G).full /\ nl = band_counts(gap, G).low
                             /\ nh = Cardinality(G) /\ m = MeanOver(gap, G)
    OBVIOUS
  <2>7. days[d] = [full |-> nf, low |-> nl, hours |-> nh, spread |-> m]
    BY <2>4, <2>6
  <2>8. nf = Cardinality(DayGroup(full, k, d)) /\ nl = Cardinality(DayGroup(low, k, d))
    BY <2>3, <2>5, <2>6
  <2> QED
    BY <2>1, <2>6, <2>7, <2>8 DEF KeptDay
<1> QED
  BY <1>0, <1>4, <1>5

\* The hours of the three bands.
LEMMA ThreeBands ==
    ASSUME NEW f, NEW g, NEW both, NEW gap, NEW full, NEW low, NEW k,
           BandParts(f, g, both, gap, full, low, k)
    PROVE  Cardinality({h \in both : 1 < gap[h] /\ gap[h] <= 10})
             = Cardinality(both) - Cardinality(full) - Cardinality(low)
<1>1. PICK u, mid : u = full \cup low /\ mid = {h \in both : 1 < gap[h] /\ gap[h] <= 10}
  OBVIOUS
<1>2. /\ IsFiniteSet(both) /\ (\A h \in both : gap[h] \in Int)
      /\ full \in SUBSET both /\ low \in SUBSET both /\ IsFiniteSet(full) /\ IsFiniteSet(low)
  BY BandPartsType
<1>3. /\ mid \in SUBSET both /\ full \cap low = {} /\ u \cap mid = {} /\ both = u \cup mid
  <2>1. full = {h \in both : gap[h] <= 1} /\ low = {h \in both : gap[h] > 10}
    BY DEF BandParts
  <2> QED
    BY <1>1, <1>2, <2>1
<1>4. IsFiniteSet(mid) /\ IsFiniteSet(u)
  BY <1>1, <1>2, <1>3, FS_Subset, FS_Union
<1>5. ASSUME NEW A, NEW B, IsFiniteSet(A), IsFiniteSet(B), A \cap B = {}
      PROVE  Cardinality(A \cup B) = Cardinality(A) + Cardinality(B)
  <2>1. Cardinality(A \cup B) = Cardinality(A) + Cardinality(B) - Cardinality({})
    BY <1>5, FS_Union
  <2> QED
    BY <1>5, <2>1, FS_EmptySet, FS_CardinalityType
<1>6. /\ Cardinality(both) = Cardinality(u) + Cardinality(mid)
      /\ Cardinality(u) = Cardinality(full) + Cardinality(low)
  BY <1>1, <1>2, <1>3, <1>4, <1>5
<1>7. Cardinality(full) \in Nat /\ Cardinality(low) \in Nat /\ Cardinality(mid) \in Nat
  BY <1>2, <1>4, FS_CardinalityType
<1> QED
  BY <1>1, <1>6, <1>7

\* The bands of a border put together from its days are those of its hours.
THEOREM BandsPool ==
    ASSUME NEW f, NEW g, NEW both, NEW gap, NEW full, NEW low, NEW k,
           BandParts(f, g, both, gap, full, low, k),
           NEW bands, bands = compute_convergence(store_convergence(f, g))
    PROVE  /\ (both = {}) <=> (bands = None)
           /\ both # {} =>
                /\ bands.hours = Cardinality(both)
                /\ bands.full = Cardinality(full)
                /\ bands.moderate = Cardinality({h \in both : 1 < gap[h] /\ gap[h] <= 10})
                /\ Same(bands.mean_abs_spread, MeanOver(gap, both))
<1>1. PICK days, D : days = store_convergence(f, g) /\ D = DOMAIN days
  OBVIOUS
<1>2. /\ IsFiniteSet(both) /\ (\A h \in both : gap[h] \in Int)
      /\ full \in SUBSET both /\ low \in SUBSET both /\ IsFiniteSet(full) /\ IsFiniteSet(low)
  BY BandPartsType
<1>3. IsFiniteSet(D) /\ (\A h \in both : k[h] \in D) /\ (\A d \in D : DayGroup(both, k, d) # {})
  BY <1>1, BandDays
<1>4. ASSUME NEW d \in D PROVE KeptDay(days[d], d, both, gap, full, low, k)
  BY <1>1, BandDays
<1>5. (\A h \in both : k[h] \in D) /\ (\A h \in full : k[h] \in D) /\ (\A h \in low : k[h] \in D)
  BY <1>2, <1>3
<1>6. PICK nh, nf, nl : /\ nh = [d \in D |-> Get(days[d], "hours", 0)]
                        /\ nf = [d \in D |-> Get(days[d], "full", 0)]
                        /\ nl = [d \in D |-> Get(days[d], "low", 0)]
  OBVIOUS
<1>7. /\ \A d \in D : nh[d] = Cardinality(DayGroup(both, k, d))
      /\ \A d \in D : nf[d] = Cardinality(DayGroup(full, k, d))
      /\ \A d \in D : nl[d] = Cardinality(DayGroup(low, k, d))
  BY <1>4, <1>6 DEF Get, KeptDay
<1>8. /\ SumOver(nh, D) = Cardinality(both) /\ SumOver(nf, D) = Cardinality(full)
      /\ SumOver(nl, D) = Cardinality(low)
  BY <1>2, <1>3, <1>5, <1>7, PooledCount
<1>9. PICK t, s : /\ t = [d \in D |-> Ratio(days[d].spread.sum * days[d].hours, days[d].spread.n)]
                  /\ s = RatioSum(t, D)
  OBVIOUS
<1>10. ASSUME NEW d \in D
       PROVE  t[d] = Ratio(Total(gap, DayGroup(both, k, d)) * Cardinality(DayGroup(both, k, d)),
                           Cardinality(DayGroup(both, k, d)))
  <2>1. PICK G : G = DayGroup(both, k, d)
    OBVIOUS
  <2>2. days[d]["hours"] = Cardinality(G) /\ days[d]["spread"] = Ratio(Total(gap, G), Cardinality(G))
    BY <1>4, <2>1, SumOverIsTotal DEF MeanOver, KeptDay
  <2>3. t[d] = Ratio(Total(gap, G) * Cardinality(G), Cardinality(G))
    BY <1>9, <2>2 DEF Ratio
  <2> QED
    BY <2>1, <2>3
<1>11. {d \in D : {"spread", "hours"} \subseteq DOMAIN days[d]} = D
  BY <1>4, SMTT(30) DEF KeptDay
<1>12. bands = IF Cardinality(both) = 0 THEN None
               ELSE [hours |-> Cardinality(both), full |-> Cardinality(full), low |-> Cardinality(low),
                     moderate |-> Cardinality(both) - Cardinality(full) - Cardinality(low),
                     mean_abs_spread |-> Ratio(s.sum, s.n * Cardinality(both))]
  BY <1>1, <1>6, <1>8, <1>9, <1>11 DEF compute_convergence
<1>13. CASE both = {}
  BY <1>12, <1>13, FS_EmptySet
<1>14. CASE both # {}
  <2>1. Cardinality(both) \in Nat \ {0} /\ Cardinality(full) \in Nat /\ Cardinality(low) \in Nat
    BY <1>2, <1>14, FS_CardinalityType, FS_EmptySet
  <2>2. /\ Ratio(s.sum, s.n * Cardinality(both)) \in Ratios
        /\ Same(Ratio(s.sum, s.n * Cardinality(both)), MeanOver(gap, both))
    <3>1. s = RatioSum(t, D)
      BY <1>9
    <3> QED
      BY <1>2, <1>3, <1>10, <1>14, <3>1, PooledMean
  <2>3. bands \in BandFigures
    BY <1>12, <2>1, <2>2 DEF BandFigures
  <2>4. bands # None
    BY <2>3, BandsAssumption
  <2>5. Cardinality({h \in both : 1 < gap[h] /\ gap[h] <= 10})
          = Cardinality(both) - Cardinality(full) - Cardinality(low)
    BY ThreeBands
  <2> QED
    BY <1>12, <1>14, <2>1, <2>2, <2>4, <2>5
<1> QED
  BY <1>13, <1>14

\* The mean absolute error of a baseline is a ratio or absent.
LEMMA BaselineType ==
    ASSUME NEW g, IsPrice(g), NEW H, IsFiniteSet(H), \A h \in H : h \in DOMAIN g, NEW lag
    PROVE  _baseline_mae(g, H, lag) \in Ratios \cup {None}
<1>1. PICK S : S = {h \in H : h - lag \in DOMAIN g}
  OBVIOUS
<1>2. PICK e : e = [h \in S |-> Abs(g[h] - g[h - lag])]
  OBVIOUS
<1>3. S \in SUBSET H
  BY <1>1
<1>4. IsFiniteSet(S)
  BY <1>3, FS_Subset
<1>5. \A h \in S : e[h] \in Int
  BY <1>1, <1>2, <1>3 DEF IsPrice, Abs
<1>6. Total(e, S) \in Int /\ Cardinality(S) \in Int
  BY <1>4, <1>5, TotalType, FS_CardinalityType
<1>7. MeanOver(e, S) \in Ratios
  BY <1>6, SumOverIsTotal DEF MeanOver, Ratio, Ratios
<1>8. _baseline_mae(g, H, lag) = IF S = {} THEN None ELSE MeanOver(e, S)
  BY <1>1, <1>2 DEF _baseline_mae
<1> QED
  BY <1>7, <1>8

\* The three errors of an hour.
HourErrors(f, g, both, bias, mae, mse) ==
    /\ IsPrice(f) /\ IsPrice(g) /\ both = DOMAIN f \cap DOMAIN g
    /\ \A h \in both : /\ bias[h] = f[h] - g[h] /\ mae[h] = Abs(f[h] - g[h])
                       /\ mse[h] = (f[h] - g[h]) * (f[h] - g[h])

\* The errors of a finite number of hours, all of them numbers.
LEMMA HourErrorsType ==
    ASSUME NEW f, NEW g, NEW both, NEW bias, NEW mae, NEW mse, HourErrors(f, g, both, bias, mae, mse)
    PROVE  /\ IsFiniteSet(both) /\ \A h \in both : h \in DOMAIN g
           /\ \A h \in both : h \in Nat /\ f[h] \in Int /\ g[h] \in Int
           /\ \A h \in both : bias[h] \in Int /\ mae[h] \in Int /\ mse[h] \in Int
<1>1. /\ both \in SUBSET DOMAIN f /\ IsFiniteSet(DOMAIN f)
      /\ \A h \in both : h \in DOMAIN g /\ h \in Nat /\ f[h] \in Int /\ g[h] \in Int
  BY DEF HourErrors, IsPrice
<1>2. ASSUME NEW h \in both PROVE bias[h] \in Int /\ mae[h] \in Int /\ mse[h] \in Int
  BY <1>1 DEF HourErrors, Abs
<1> QED
  BY <1>1, <1>2, FS_Subset

\* The scores of a set of hours.
LEMMA ScoreFields ==
    ASSUME NEW f, NEW g, NEW both, NEW bias, NEW mae, NEW mse, HourErrors(f, g, both, bias, mae, mse),
           NEW H \in SUBSET both, NEW r, r = score_hours(f, g, H)
    PROVE  /\ H = {} => r = None
           /\ H # {} => /\ r \in DayScores /\ r["n_hours"] = Cardinality(H)
                        /\ r["bias"] = MeanOver(bias, H) /\ r["mae"] = MeanOver(mae, H)
                        /\ r["mse"] = MeanOver(mse, H)
<1>1. CASE H = {}
  BY <1>1 DEF score_hours
<1>2. CASE H # {}
  <2>1. IsFiniteSet(H) /\ \A h \in H : h \in DOMAIN g /\ f[h] \in Int /\ g[h] \in Int
    BY HourErrorsType, FS_Subset
  <2>2. PICK err : err = [h \in H |-> f[h] - g[h]]
    OBVIOUS
  <2>3. PICK a, q : a = [h \in H |-> Abs(err[h])] /\ q = [h \in H |-> err[h] * err[h]]
    OBVIOUS
  <2>4. PICK big : big = {h \in H : Abs(g[h]) >= MAPE_ACTUAL_FLOOR_MW}
    OBVIOUS
  <2>5. PICK t : t = [h \in big |-> Ratio(Abs(err[h]), Abs(g[h]))]
    OBVIOUS
  <2>6. PICK s, mape, p, w :
          /\ s = RatioSum(t, big)
          /\ mape = IF big = {} THEN None ELSE Ratio(100 * s.sum, s.n * Cardinality(big))
          /\ p = _baseline_mae(g, H, HoursPerDay) /\ w = _baseline_mae(g, H, SeasonalLag)
    OBVIOUS
  <2>7. r = [n_hours |-> Cardinality(H), bias |-> MeanOver(err, H), mae |-> MeanOver(a, H),
             mse |-> MeanOver(q, H), mape |-> mape, persistence |-> p, seasonal |-> w]
    BY <1>2, <2>2, <2>3, <2>4, <2>5, <2>6 DEF score_hours
  <2>8. \A h \in H : /\ err[h] = bias[h] /\ a[h] = mae[h] /\ q[h] = mse[h]
                     /\ err[h] \in Int /\ a[h] \in Int /\ q[h] \in Int
    <3>1. \A h \in H : /\ bias[h] = f[h] - g[h] /\ mae[h] = Abs(f[h] - g[h])
                       /\ mse[h] = (f[h] - g[h]) * (f[h] - g[h])
      BY DEF HourErrors
    <3>2. \A h \in H : err[h] = f[h] - g[h]
      BY <2>2
    <3>3. \A h \in H : a[h] = Abs(f[h] - g[h]) /\ q[h] = (f[h] - g[h]) * (f[h] - g[h])
      BY <2>3, <3>2
    <3>4. \A h \in H : bias[h] \in Int /\ mae[h] \in Int /\ mse[h] \in Int
      BY HourErrorsType
    <3> QED
      BY <3>1, <3>2, <3>3, <3>4
  <2>9. /\ MeanOver(err, H) = MeanOver(bias, H) /\ MeanOver(a, H) = MeanOver(mae, H)
        /\ MeanOver(q, H) = MeanOver(mse, H)
    <3>1. Total(err, H) = Total(bias, H) /\ Total(a, H) = Total(mae, H) /\ Total(q, H) = Total(mse, H)
      BY <2>1, <2>8, TotalSame
    <3> QED
      BY <3>1, SumOverIsTotal DEF MeanOver
  <2>10. MeanOver(err, H) \in Ratios /\ MeanOver(a, H) \in Ratios /\ MeanOver(q, H) \in Ratios
    <3>1. /\ Total(err, H) \in Int /\ Total(a, H) \in Int /\ Total(q, H) \in Int
          /\ Cardinality(H) \in Nat
      BY <2>1, <2>8, TotalType, FS_CardinalityType
    <3> QED
      BY <3>1, SumOverIsTotal DEF MeanOver, Ratio, Ratios
  <2>11. mape \in Ratios \cup {None}
    <3>1. big \in SUBSET H
      BY <2>4
    <3>2. IsFiniteSet(big)
      BY <2>1, <3>1, FS_Subset
    <3>3. \A h \in big : t[h] \in [sum : Int, n : Int]
      BY <2>1, <2>5, <2>8, <3>1 DEF Ratio, Abs
    <3>4. s \in [sum : Int, n : Int]
      BY <2>6, <3>2, <3>3, RatioSumIsTotal, RatioType
    <3>5. Cardinality(big) \in Int
      BY <3>2, FS_CardinalityType
    <3> QED
      BY <2>6, <3>4, <3>5 DEF Ratio, Ratios
  <2>12. p \in Ratios \cup {None} /\ w \in Ratios \cup {None}
    BY <2>1, <2>6, BaselineType DEF HourErrors
  <2>13. r \in DayScores
    BY <2>1, <2>7, <2>10, <2>11, <2>12, FS_CardinalityType DEF DayScores
  <2> QED
    BY <1>2, <2>7, <2>9, <2>13
<1> QED
  BY <1>1, <1>2

\* The rows of a scoreboard: scores or nothing for each of finitely many days.
IsBoard(rows) == IsFiniteSet(DOMAIN rows) /\ \A d \in DOMAIN rows : rows[d] = None \/ rows[d] \in DayScores
FigureNames == {"mae", "bias", "mse", "mape", "persistence", "seasonal"}

\* A sum over the days that have a figure is a ratio.
LEMMA ScoredSumType ==
    ASSUME NEW rows, IsBoard(rows), NEW x \in FigureNames, NEW y \in FigureNames, y \in {x, "mae"}
    PROVE  /\ ScoredSum(rows, y, ScoredWith(rows, x)) \in Ratios
           /\ ScoredHours(rows, ScoredWith(rows, x)) \in Int
<1>1. PICK T : T = ScoredWith(rows, x)
  OBVIOUS
<1>2. T \in SUBSET DOMAIN rows
  BY <1>1 DEF ScoredWith
<1>3. IsFiniteSet(T)
  BY <1>2, FS_Subset DEF IsBoard
<1>4. ASSUME NEW d \in T PROVE rows[d][y] \in Ratios /\ rows[d].n_hours \in Nat
  <2>1. rows[d] \in DayScores /\ rows[d][x] # None
    BY <1>1, <1>4 DEF ScoredWith, IsBoard
  <2>2. \A r \in DayScores : /\ r["mae"] \in Ratios /\ r["bias"] \in Ratios /\ r["mse"] \in Ratios
                             /\ r["mape"] \in Ratios \cup {None} /\ r["n_hours"] \in Nat
                             /\ r["persistence"] \in Ratios \cup {None}
                             /\ r["seasonal"] \in Ratios \cup {None}
    BY DEF DayScores
  <2> QED
    BY <2>1, <2>2 DEF FigureNames
<1>5. PICK t, n : /\ t = [d \in T |-> Ratio(rows[d][y].sum * rows[d].n_hours, rows[d][y].n)]
                  /\ n = [d \in T |-> rows[d].n_hours]
  OBVIOUS
<1>6. \A d \in T : t[d] \in [sum : Int, n : Int] /\ n[d] \in Int
  BY <1>4, <1>5 DEF Ratio, Ratios
<1>7. RatioTotal(t, T) \in [sum : Int, n : Int] /\ Total(n, T) \in Int
  BY <1>3, <1>6, RatioType, TotalType
<1>8. ScoredSum(rows, y, T) = RatioTotal(t, T) /\ ScoredHours(rows, T) = Total(n, T)
  BY <1>5, RatioSumIsTotal, SumOverIsTotal DEF ScoredSum, ScoredHours
<1> QED
  BY <1>1, <1>7, <1>8 DEF Ratios

\* A mean and a skill are ratios or absent.
LEMMA ScoredType ==
    ASSUME NEW rows, IsBoard(rows), NEW x \in FigureNames
    PROVE  ScoredMean(rows, x) \in Ratios \cup {None} /\ ScoredSkill(rows, x) \in Ratios \cup {None}
<1>1. PICK T, s, mine, n : /\ T = ScoredWith(rows, x) /\ s = ScoredSum(rows, x, T)
                           /\ mine = ScoredSum(rows, "mae", T) /\ n = ScoredHours(rows, T)
  OBVIOUS
<1>2. s \in Ratios /\ mine \in Ratios /\ n \in Int
  BY <1>1, ScoredSumType DEF FigureNames
<1>3. ScoredMean(rows, x) = IF T = {} THEN None ELSE Ratio(s.sum, s.n * n)
  BY <1>1 DEF ScoredMean
<1>4. ScoredSkill(rows, x) = IF s.sum <= 0 THEN None
                             ELSE Minus(Int1(1), Ratio(mine.sum * s.n, mine.n * s.sum))
  BY <1>1 DEF ScoredSkill
<1>5. s.sum \in Int /\ s.n \in Int /\ mine.sum \in Int /\ mine.n \in Int
  BY <1>2 DEF Ratios
<1>6. \A a, b \in Int : Minus(Int1(1), Ratio(a, b)) \in Ratios
  BY DEF Minus, Int1, Ratio, Ratios
<1>7. mine.sum * s.n \in Int /\ mine.n * s.sum \in Int /\ s.n * n \in Int
  BY <1>2, <1>5
<1> QED
  BY <1>3, <1>4, <1>5, <1>6, <1>7 DEF Ratio, Ratios

\* The board of the days 0..n: the days with common hours, each with the errors
\* of its hours.
BoardOf(f, g, n, both, k, rows, D) ==
    /\ k = [h \in both |-> DayOfHour(h)] /\ rows = ScoresOf(f, g, 0..n)
    /\ D = {d \in 0..n : DayGroup(both, k, d) # {}}

\* A day with a common hour has the scores of its hours, and any other none.
LEMMA BoardRows ==
    ASSUME NEW f, NEW g, NEW both, NEW bias, NEW mae, NEW mse, HourErrors(f, g, both, bias, mae, mse),
           NEW n \in Nat, \A h \in both : DayOfHour(h) <= n,
           NEW k, NEW rows, NEW D, BoardOf(f, g, n, both, k, rows, D)
    PROVE  /\ IsBoard(rows) /\ IsFiniteSet(D) /\ (\A h \in both : k[h] \in D)
           /\ {d \in DOMAIN rows : rows[d] # None} = D
           /\ \A x \in {"mae", "bias", "mse"} : ScoredWith(rows, x) = D
           /\ \A d \in D : /\ rows[d]["n_hours"] = Cardinality(DayGroup(both, k, d))
                           /\ rows[d]["bias"] = MeanOver(bias, DayGroup(both, k, d))
                           /\ rows[d]["mae"] = MeanOver(mae, DayGroup(both, k, d))
                           /\ rows[d]["mse"] = MeanOver(mse, DayGroup(both, k, d))
<1>1. DOMAIN rows = 0..n /\ D \in SUBSET (0..n) /\ IsFiniteSet(0..n)
  BY FS_Interval DEF ScoresOf, BoardOf
<1>2. ASSUME NEW d \in 0..n PROVE rows[d] = score_hours(f, g, DayGroup(both, k, d))
  <2>1. \A h \in both : h \in HoursOf(d) <=> k[h] = d
    BY HourErrorsType, HoursOfDay, SMTT(40) DEF BoardOf
  <2>2. DOMAIN f \cap DOMAIN g \cap HoursOf(d) = DayGroup(both, k, d)
    BY <2>1 DEF HourErrors, DayGroup
  <2> QED
    BY <1>2, <2>2 DEF ScoresOf, BoardOf
<1>3. ASSUME NEW d \in 0..n
      PROVE  /\ DayGroup(both, k, d) = {} => rows[d] = None
             /\ DayGroup(both, k, d) # {} =>
                  /\ rows[d] \in DayScores /\ rows[d]["n_hours"] = Cardinality(DayGroup(both, k, d))
                  /\ rows[d]["bias"] = MeanOver(bias, DayGroup(both, k, d))
                  /\ rows[d]["mae"] = MeanOver(mae, DayGroup(both, k, d))
                  /\ rows[d]["mse"] = MeanOver(mse, DayGroup(both, k, d))
  <2>1. PICK H : H = DayGroup(both, k, d)
    OBVIOUS
  <2>2. H \in SUBSET both /\ rows[d] = score_hours(f, g, H)
    BY <1>2, <2>1 DEF DayGroup
  <2>3. /\ H = {} => rows[d] = None
        /\ H # {} => /\ rows[d] \in DayScores /\ rows[d]["n_hours"] = Cardinality(H)
                     /\ rows[d]["bias"] = MeanOver(bias, H) /\ rows[d]["mae"] = MeanOver(mae, H)
                     /\ rows[d]["mse"] = MeanOver(mse, H)
    BY <2>2, ScoreFields
  <2> QED
    BY <2>1, <2>3
<1>4. IsBoard(rows)
  BY <1>1, <1>3 DEF IsBoard
<1>5. \A d \in 0..n : d \in D <=> DayGroup(both, k, d) # {}
  BY DEF BoardOf
<1>6. None \notin DayScores /\ None \notin Ratios
  BY ScoresAssumption
<1>7. \A d \in 0..n : rows[d] # None <=> d \in D
  BY <1>3, <1>5, <1>6
<1>8. \A d \in D : /\ rows[d]["mae"] # None /\ rows[d]["bias"] # None /\ rows[d]["mse"] # None
  <2>1. \A r \in DayScores : r["mae"] \in Ratios /\ r["bias"] \in Ratios /\ r["mse"] \in Ratios
    BY DEF DayScores
  <2>2. \A d \in D : rows[d] \in DayScores
    BY <1>1, <1>3, <1>5
  <2> QED
    BY <1>6, <2>1, <2>2
<1>9. \A x \in {"mae", "bias", "mse"} : ScoredWith(rows, x) = D
  BY <1>1, <1>7, <1>8 DEF ScoredWith
<1>10. \A h \in both : k[h] \in D
  <2>1. \A h \in both : k[h] \in 0..n
    BY HourErrorsType, HoursOfDay DEF BoardOf
  <2> QED
    BY <1>5, <2>1 DEF DayGroup
<1>11. IsFiniteSet(D) /\ {d \in DOMAIN rows : rows[d] # None} = D
  BY <1>1, <1>7, FS_Subset
<1>12. \A d \in D : /\ rows[d]["n_hours"] = Cardinality(DayGroup(both, k, d))
                    /\ rows[d]["bias"] = MeanOver(bias, DayGroup(both, k, d))
                    /\ rows[d]["mae"] = MeanOver(mae, DayGroup(both, k, d))
                    /\ rows[d]["mse"] = MeanOver(mse, DayGroup(both, k, d))
  BY <1>1, <1>3, <1>5
<1> QED
  BY <1>4, <1>9, <1>10, <1>11, <1>12

\* The mean of a figure over the days is its mean over the hours.
LEMMA ScoredMeanPools ==
    ASSUME NEW both, IsFiniteSet(both), both # {}, NEW e, \A h \in both : e[h] \in Int,
           NEW k, NEW D, IsFiniteSet(D), \A h \in both : k[h] \in D,
           \A d \in D : DayGroup(both, k, d) # {}, NEW rows, NEW x, ScoredWith(rows, x) = D,
           \A d \in D : /\ rows[d]["n_hours"] = Cardinality(DayGroup(both, k, d))
                        /\ rows[d][x] = MeanOver(e, DayGroup(both, k, d))
    PROVE  ScoredMean(rows, x) \in Ratios /\ Same(ScoredMean(rows, x), MeanOver(e, both))
<1>1. PICK t : t = [d \in D |-> Ratio(rows[d][x].sum * rows[d].n_hours, rows[d][x].n)]
  OBVIOUS
<1>2. PICK s : s = RatioSum(t, D)
  OBVIOUS
<1>3. PICK c : c = [d \in D |-> rows[d].n_hours]
  OBVIOUS
<1>4. \A d \in D : t[d] = Ratio(Total(e, DayGroup(both, k, d)) * Cardinality(DayGroup(both, k, d)),
                                Cardinality(DayGroup(both, k, d)))
  <2>1. ASSUME NEW d \in D, NEW G, G = DayGroup(both, k, d)
        PROVE  t[d] = Ratio(Total(e, G) * Cardinality(G), Cardinality(G))
    <3>1. rows[d]["n_hours"] = Cardinality(G) /\ rows[d][x] = Ratio(Total(e, G), Cardinality(G))
      BY <2>1, SumOverIsTotal DEF MeanOver
    <3>2. t[d] = Ratio(rows[d][x].sum * rows[d].n_hours, rows[d][x].n)
      BY <1>1
    <3> QED
      BY <3>1, <3>2 DEF Ratio
  <2> QED
    BY <2>1
<1>5. /\ Ratio(s.sum, s.n * Cardinality(both)) \in Ratios
      /\ Same(Ratio(s.sum, s.n * Cardinality(both)), MeanOver(e, both))
  BY <1>2, <1>4, PooledMean, ZenonT(60)
<1>6. \A d \in D : c[d] = Cardinality(DayGroup(both, k, d))
  BY <1>3
<1>7. ScoredHours(rows, D) = Cardinality(both)
  <2>1. SumOver(c, D) = Cardinality(both)
    BY <1>6, PooledCount
  <2> QED
    BY <1>3, <2>1 DEF ScoredHours
<1>8. D # {}
  OBVIOUS
<1>9. ScoredSum(rows, x, D) = s
  BY <1>1, <1>2 DEF ScoredSum
<1>10. ScoredMean(rows, x) = Ratio(s.sum, s.n * Cardinality(both))
  BY <1>7, <1>8, <1>9 DEF ScoredMean
<1> QED
  BY <1>5, <1>10

\* The errors of a forecast put together from its days are those of its hours.
THEOREM ScoresPool ==
    ASSUME NEW f, NEW g, NEW both, NEW bias, NEW mae, NEW mse, HourErrors(f, g, both, bias, mae, mse),
           NEW n \in Nat, \A h \in both : DayOfHour(h) <= n,
           NEW window, window = aggregate_scores(ScoresOf(f, g, 0..n)),
           NEW pooled, pooled = score_hours(f, g, both)
    PROVE  /\ (both = {}) <=> (window = None)
           /\ both # {} => /\ window.n_hours = pooled.n_hours
                           /\ \A x \in {"mae", "bias", "mse"} : Same(window[x], pooled[x])
<1>1. PICK k, rows, D : BoardOf(f, g, n, both, k, rows, D)
  BY DEF BoardOf
<1>2. rows = ScoresOf(f, g, 0..n)
  BY <1>1 DEF BoardOf
<1>3. /\ IsBoard(rows) /\ IsFiniteSet(D) /\ (\A h \in both : k[h] \in D)
      /\ {d \in DOMAIN rows : rows[d] # None} = D
      /\ \A x \in {"mae", "bias", "mse"} : ScoredWith(rows, x) = D
  BY <1>1, BoardRows
<1>4. \A d \in D : /\ rows[d]["n_hours"] = Cardinality(DayGroup(both, k, d))
                   /\ rows[d]["bias"] = MeanOver(bias, DayGroup(both, k, d))
                   /\ rows[d]["mae"] = MeanOver(mae, DayGroup(both, k, d))
                   /\ rows[d]["mse"] = MeanOver(mse, DayGroup(both, k, d))
  BY <1>1, BoardRows
<1>5. \A d \in D : DayGroup(both, k, d) # {}
  BY <1>1 DEF BoardOf
<1>6. IsFiniteSet(both) /\ \A h \in both : bias[h] \in Int /\ mae[h] \in Int /\ mse[h] \in Int
  BY HourErrorsType
<1>7. window = IF D = {} THEN None
               ELSE [days |-> Cardinality(D), n_hours |-> ScoredHours(rows, D),
                     mae |-> ScoredMean(rows, "mae"), bias |-> ScoredMean(rows, "bias"),
                     mse |-> ScoredMean(rows, "mse"), mape |-> ScoredMean(rows, "mape"),
                     skill_persistence |-> ScoredSkill(rows, "persistence"),
                     skill_seasonal |-> ScoredSkill(rows, "seasonal")]
  BY <1>2, <1>3 DEF aggregate_scores
<1>8. both = {} <=> D = {}
  BY <1>3, <1>5 DEF DayGroup
<1>9. CASE both = {}
  BY <1>7, <1>8, <1>9
<1>10. CASE both # {}
  <2>1. ScoredHours(rows, D) = Cardinality(both)
    <3>1. PICK c : c = [d \in D |-> rows[d].n_hours]
      OBVIOUS
    <3>2. \A d \in D : c[d] = Cardinality(DayGroup(both, k, d))
      BY <1>4, <3>1
    <3>3. SumOver(c, D) = Cardinality(both)
      BY <1>3, <1>6, <3>2, PooledCount
    <3> QED
      BY <3>1, <3>3 DEF ScoredHours
  <2>2. ScoredMean(rows, "mae") \in Ratios /\ Same(ScoredMean(rows, "mae"), MeanOver(mae, both))
    BY <1>3, <1>4, <1>5, <1>6, <1>10, ScoredMeanPools
  <2>3. ScoredMean(rows, "bias") \in Ratios /\ Same(ScoredMean(rows, "bias"), MeanOver(bias, both))
    BY <1>3, <1>4, <1>5, <1>6, <1>10, ScoredMeanPools
  <2>4. ScoredMean(rows, "mse") \in Ratios /\ Same(ScoredMean(rows, "mse"), MeanOver(mse, both))
    BY <1>3, <1>4, <1>5, <1>6, <1>10, ScoredMeanPools
  <2>5. /\ pooled["n_hours"] = Cardinality(both) /\ pooled["bias"] = MeanOver(bias, both)
        /\ pooled["mae"] = MeanOver(mae, both) /\ pooled["mse"] = MeanOver(mse, both)
    BY <1>10, ScoreFields
  <2>6. window # None
    <3>1. /\ ScoredMean(rows, "mape") \in Ratios \cup {None}
          /\ ScoredSkill(rows, "persistence") \in Ratios \cup {None}
          /\ ScoredSkill(rows, "seasonal") \in Ratios \cup {None}
      BY <1>3, ScoredType DEF FigureNames
    <3>2. Cardinality(D) \in Nat /\ ScoredHours(rows, D) \in Int
      BY <1>3, <1>6, <2>1, FS_CardinalityType
    <3>3. window \in WindowFigures
      BY <1>7, <1>8, <1>10, <2>2, <2>3, <2>4, <3>1, <3>2 DEF WindowFigures
    <3> QED
      BY <3>3, WindowAssumption
  <2>7. /\ window["n_hours"] = Cardinality(both) /\ window["mae"] = ScoredMean(rows, "mae")
        /\ window["bias"] = ScoredMean(rows, "bias") /\ window["mse"] = ScoredMean(rows, "mse")
    BY <1>7, <1>8, <1>10, <2>1
  <2> QED
    BY <1>10, <2>2, <2>3, <2>4, <2>5, <2>6, <2>7
<1> QED
  BY <1>9, <1>10

-----------------------------------------------------------------------------
(* Episodes: the scan finds the maximal runs *)

\* The scan of group_runs is the scan of the lemmas.
LEMMA ScanIsRunScan ==
    ASSUME NEW f, NEW good, NEW last
    PROVE  ScanState(f, good, last) = RunScan(good, Min(DOMAIN f), last)
BY DEF ScanState, RunScan, IsScan, ScanStep, NoRuns, EndsRun, MAX_GAP_DAYS

\* What _close keeps of a run.
LEMMA CloseFields ==
    ASSUME NEW R, NEW f, NEW lowest, NEW r, r = _close(R, f, lowest)
    PROVE  /\ r.start = Min(R) /\ r.end = Max(R) /\ r.days = Max(R) - Min(R) + 1
           /\ r.populated = Ratio(Cardinality(R), Max(R) - Min(R) + 1)
BY DEF _close

-----------------------------------------------------------------------------
(* The situation of a zone, alone and among all zones *)

\* Messages on record: they end at some time, and a message of a zone keeps its document.
IsMessages(outages) ==
    /\ \A o \in outages : o.end \in Int
    /\ \A o, p \in outages : (o.zone = p.zone /\ o.mrid = p.mrid) => o.doc = p.doc

\* The newest generation message of a zone that runs and is forced.
LatestOf(o, outages) == \A p \in outages : (p.zone = o.zone /\ p.mrid = o.mrid) => p.revision <= o.revision
ForcedNow(outages, z, t) ==
    {o \in outages : /\ o.zone = z /\ o.doc = "A77" /\ LatestOf(o, outages)
                     /\ Runs(o, t) /\ o.kind = "A54" /\ o.nominal # None}

\* The forced outages of a zone, ranked among its generation messages or among
\* the messages of every zone and document, are the same.
LEMMA ForcedOutagesAgree ==
    ASSUME NEW outages, IsMessages(outages), NEW z \in Zones, NEW t \in Int
    PROVE  forced_outage_mw_now(outages, z, t) = forced_outage_totals_now(outages, z, t)
<1>0. z # None /\ t # None /\ "A77" # None
  BY OutageAssumption, NoneAssumption
<1>1. PICK alone : alone = _running_forced(latest_outage_revisions(outages, z, t, "A77"), t)
  OBVIOUS
<1>2. PICK ranked : ranked = {o \in outages :
                        /\ o.mrid \in {q.mrid : q \in {p \in outages : p.end >= t /\ p.doc = "A77"}}
                        /\ LatestOf(o, outages)}
  OBVIOUS
<1>3. PICK among : among = {o \in _running_forced(ranked, t) : o.zone = z /\ o.doc = "A77"}
  OBVIOUS
<1>4. PICK mine : mine = {o \in outages : o.doc = "A77" /\ o.zone = z}
  OBVIOUS
<1>5. mine = {o \in outages : /\ "A77" = None \/ o.doc = "A77"
                              /\ z = None \/ o.zone = z \/ ("A77" = "A78" /\ o.other = z)}
  BY <1>0, <1>4
<1>6. latest_outage_revisions(outages, z, t, "A77") =
        {o \in mine : /\ o.mrid \in {q.mrid : q \in {p \in mine : t = None \/ p.end >= t}}
                      /\ LatestOf(o, mine)}
  BY <1>5 DEF latest_outage_revisions, LatestOf
<1>7. ASSUME NEW o \in outages, o.zone = z, o.doc = "A77", Runs(o, t)
      PROVE  /\ o \in mine /\ (LatestOf(o, mine) <=> LatestOf(o, outages))
             /\ o.mrid \in {q.mrid : q \in {p \in mine : t = None \/ p.end >= t}}
             /\ o.mrid \in {q.mrid : q \in {p \in outages : p.end >= t /\ p.doc = "A77"}}
  <2>1. o \in mine
    BY <1>4, <1>7
  <2>2. \A p \in outages : (p.zone = o.zone /\ p.mrid = o.mrid) => p \in mine
    BY <1>4, <1>7 DEF IsMessages
  <2>3. \A p \in mine : p \in outages
    BY <1>4
  <2>4. o.end >= t
    BY <1>7 DEF IsMessages, Runs
  <2> QED
    BY <1>7, <2>1, <2>2, <2>3, <2>4 DEF LatestOf
<1>8. ASSUME NEW o PROVE o \in alone <=> o \in ForcedNow(outages, z, t)
  <2>1. o \in alone <=> /\ o \in mine /\ LatestOf(o, mine) /\ Runs(o, t) /\ o.kind = "A54" /\ o.nominal # None
                        /\ o.mrid \in {q.mrid : q \in {p \in mine : t = None \/ p.end >= t}}
    BY <1>1, <1>6 DEF _running_forced
  <2>2. o \in mine <=> o \in outages /\ o.zone = z /\ o.doc = "A77"
    BY <1>4
  <2> QED
    BY <1>7, <2>1, <2>2 DEF ForcedNow
<1>9. ASSUME NEW o PROVE o \in among <=> o \in ForcedNow(outages, z, t)
  <2>1. o \in among <=> /\ o \in outages /\ LatestOf(o, outages) /\ Runs(o, t) /\ o.kind = "A54" /\ o.nominal # None
                        /\ o.mrid \in {q.mrid : q \in {p \in outages : p.end >= t /\ p.doc = "A77"}}
                        /\ o.zone = z /\ o.doc = "A77"
    BY <1>2, <1>3 DEF _running_forced
  <2> QED
    BY <1>7, <2>1 DEF ForcedNow
<1>10. alone = among
  BY <1>8, <1>9
<1>11. forced_outage_mw_now(outages, z, t) = MapThenSumSet(Offline, alone)
  BY <1>1 DEF forced_outage_mw_now
<1>12. forced_outage_totals_now(outages, z, t) = MapThenSumSet(Offline, among)
  BY <1>2, <1>3 DEF forced_outage_totals_now, LatestOf
<1> QED
  BY <1>10, <1>11, <1>12

\* The days of a window that are on record have a newest one.
LEMMA NewestRow ==
    ASSUME NEW db, NEW z, NEW t \in Nat, NEW rows, rows = GridRows(db, z, _window(t, BASELINE_DAYS)), rows # <<>>
    PROVE  Max(DOMAIN rows) \in DOMAIN rows
<1>1. DOMAIN rows = DOMAIN db.grid[z] \cap _window(t, BASELINE_DAYS)
  BY DEF GridRows
<1>2. PICK today \in Int : today = Today(t)
  BY HoursOfDay DEF Today
<1>3. PICK S : S = DOMAIN rows
  OBVIOUS
<1>4. S \in SUBSET ((today - BASELINE_DAYS)..today)
  BY <1>1, <1>2, <1>3 DEF _window
<1>5. S \in SUBSET Int /\ IsFiniteSet(S)
  <2>1. BASELINE_DAYS \in Int
    BY BaselineAssumption
  <2>2. PICK days : days = (today - BASELINE_DAYS)..today
    OBVIOUS
  <2>3. IsFiniteSet(days)
    BY <2>1, <2>2, FS_Interval
  <2>4. S \in SUBSET days /\ S \in SUBSET Int
    BY <1>4, <2>2
  <2> QED
    BY <2>3, <2>4, FS_Subset
<1>6. S # {}
  <2>1. rows = [d \in DOMAIN db.grid[z] \cap _window(t, BASELINE_DAYS) |-> _grid_row_values(db.grid[z][d])]
    BY DEF GridRows
  <2>2. S = {} => rows = [d \in {} |-> _grid_row_values(db.grid[z][d])]
    BY <1>1, <1>3, <2>1
  <2>3. [d \in {} |-> _grid_row_values(db.grid[z][d])] = <<>>
    OBVIOUS
  <2> QED
    BY <2>2, <2>3
<1>7. PICK a \in S, b \in S : \A x \in S : a <= x /\ x <= b
  BY <1>5, <1>6, HasEnds
<1>8. Max(S) = b
  BY <1>5, <1>7, EndsAre
<1> QED
  BY <1>3, <1>7, <1>8

\* A flag is about its own day.
LEMMA FlagOfDay ==
    ASSUME NEW grid, NEW shares, NEW reliable, NEW d \in DOMAIN shares
    PROVE  flag_days(grid, shares, reliable)[d]
             = (/\ shares[d] # None /\ d \in reliable
                /\ is_dunkelflaute(shares[d], zone_thresholds(grid, MonthOfYear(d))))
BY SMTT(30) DEF flag_days

\* The situation of a zone is the same read alone and read with all the others.
THEOREM SituationsReadAlike ==
    ASSUME NEW db, IsMessages(db.outages), NEW t \in Nat
    PROVE  load_power_situations_bulk(db, t) = [z \in Zones |-> load_power_situation(db, z, t)]
<1> DEFINE W == _window(t, BASELINE_DAYS)
           Grid(z) == GridRows(db, z, W)
           Last(z) == Max(DOMAIN Grid(z))
           Covered(z) ==
               Grid(z) = <<>> \/
                 LET load == db.grid[z][Last(z)].load
                     total == generation_total_mw(db.mix[z], Last(z))
                 IN  /\ Or0(load) > 0 /\ total # None
                     /\ AtMost(Ratio(COVERAGE_MIN_RATIO.sum * load, COVERAGE_MIN_RATIO.n), Int1(total))
           Flagged(z) ==
               Grid(z) # <<>> /\ flag_days(db.grid[z],
                   [d \in {Last(z)} |-> ClaimedShare(Latest(Grid(z)))],
                   IF Covered(z) THEN {Last(z)} ELSE {})[Last(z)]
<1>1. load_power_situations_bulk(db, t)
        = [z \in Zones |-> build_power_situation(z, On(db.price[z], W), Grid(z), Flagged(z),
                _latest_spark(db, z, t), Covered(z), forced_outage_totals_now(db.outages, z, t),
                installed_capacity_mw(db.installed[z]), t)]
  BY DEF load_power_situations_bulk
<1>2. ASSUME NEW z \in Zones
      PROVE  load_power_situation(db, z, t)
               = build_power_situation(z, On(db.price[z], W), Grid(z), Flagged(z),
                    _latest_spark(db, z, t), Covered(z), forced_outage_totals_now(db.outages, z, t),
                    installed_capacity_mw(db.installed[z]), t)
  <2>1. PICK rows, last : rows = Grid(z) /\ last = Last(z)
    OBVIOUS
  <2>2. PICK flagged : flagged = (rows # <<>> /\ _flag_dunkelflaute(db, z, rows)[last])
    OBVIOUS
  <2>3. PICK covered : covered = (rows = <<>> \/ renewable_share_reliable(db.mix[z], last, db.grid[z][last].load))
    OBVIOUS
  <2>4. load_power_situation(db, z, t)
          = build_power_situation(z, On(db.price[z], W), rows, flagged,
                    _latest_spark(db, z, t), covered, forced_outage_mw_now(db.outages, z, t),
                    installed_capacity_mw(db.installed[z]), t)
    BY <2>1, <2>2, <2>3 DEF load_power_situation, _resolve_zone
  <2>5. renewable_share_reliable(db.mix[z], last, db.grid[z][last].load)
          <=> /\ Or0(db.grid[z][last].load) > 0 /\ generation_total_mw(db.mix[z], last) # None
              /\ AtMost(Ratio(COVERAGE_MIN_RATIO.sum * db.grid[z][last].load, COVERAGE_MIN_RATIO.n),
                        Int1(generation_total_mw(db.mix[z], last)))
    BY DEF renewable_share_reliable, Or0
  <2>6. covered = Covered(z)
    BY <2>1, <2>3, <2>5, SMTT(40)
  <2>7. flagged = Flagged(z)
    <3>1. CASE rows = <<>>
      BY <2>1, <2>2, <3>1
    <3>2. CASE rows # <<>>
      <4>1. last \in DOMAIN rows
        BY <2>1, <3>2, NewestRow
      <4>2. PICK grid, mix : grid = db.grid[z] /\ mix = db.mix[z]
        OBVIOUS
      <4>3. PICK shares, reliable : /\ shares = [d \in DOMAIN rows |-> ClaimedShare(rows[d])]
                                    /\ reliable = reliable_days(grid, mix, DOMAIN rows)
        OBVIOUS
      <4>4. PICK share, newest : share = [d \in {last} |-> ClaimedShare(rows[last])]
                                 /\ newest = IF covered THEN {last} ELSE {}
        OBVIOUS
      <4>5. _flag_dunkelflaute(db, z, rows) = flag_days(grid, shares, reliable)
        BY <4>2, <4>3 DEF _flag_dunkelflaute
      <4>6. flagged = (/\ shares[last] # None /\ last \in reliable
                       /\ is_dunkelflaute(shares[last], zone_thresholds(grid, MonthOfYear(last))))
        BY <2>2, <3>2, <4>1, <4>3, <4>5, FlagOfDay
      <4>7. Flagged(z) = (/\ share[last] # None /\ last \in newest
                          /\ is_dunkelflaute(share[last], zone_thresholds(grid, MonthOfYear(last))))
        <5>1. Flagged(z) = (rows # <<>> /\ flag_days(grid, share, newest)[last])
          BY <2>1, <2>6, <4>2, <4>4 DEF Latest
        <5>2. last \in DOMAIN share
          BY <4>4
        <5> QED
          BY <3>2, <5>1, <5>2, FlagOfDay
      <4>8. shares[last] = share[last]
        BY <4>1, <4>3, <4>4
      <4>9. last \in reliable <=> last \in newest
        <5>1. last \in DOMAIN grid
          BY <2>1, <4>1, <4>2 DEF GridRows
        <5>2. last \in reliable <=> HasLoad(grid[last]) /\ renewable_share_reliable(mix, last, grid[last].load)
          BY <4>1, <4>3, <5>1 DEF reliable_days
        <5>3. last \in newest <=> renewable_share_reliable(mix, last, grid[last].load)
          BY <2>3, <3>2, <4>2, <4>4
        <5> QED
          BY <5>2, <5>3 DEF HasLoad, renewable_share_reliable
      <4> QED
        BY <4>6, <4>7, <4>8, <4>9
    <3> QED
      BY <3>1, <3>2
  <2>8. forced_outage_mw_now(db.outages, z, t) = forced_outage_totals_now(db.outages, z, t)
    BY ForcedOutagesAgree
  <2> QED
    BY <2>1, <2>4, <2>6, <2>7, <2>8
<1> QED
  BY <1>1, <1>2

-----------------------------------------------------------------------------
(* Gas: every physical flow once *)

\* The registry tells its rows apart by their point id (sync_points collapses it so).
IsRegistry(R) ==
    /\ IsFiniteSet(R)
    /\ \A r \in R : r.op \in Int /\ r.hasData \in BOOLEAN
    /\ \A r, s \in R : make_point_id(r) = make_point_id(s) => r = s
Classified(R) == {r \in R : classify_point(r) # None}
SamePoint(r, s) == r.key = s.key /\ r.dir = s.dir

\* Of finitely many elements with a number each there is one with the largest.
LEMMA LargestExists ==
    ASSUME NEW S, IsFiniteSet(S), S # {}, NEW f, \A x \in S : f[x] \in Int
    PROVE  \E x \in S : \A y \in S : f[y] <= f[x]
<1>1. PICK T : T = {f[x] : x \in S}
  OBVIOUS
<1>2. IsFiniteSet(T) /\ T \in SUBSET Int /\ T # {}
  <2>1. IsFiniteSet(T)
    BY <1>1, Images
  <2> QED
    BY <1>1, <2>1
<1>3. PICK b \in T : \A v \in T : v <= b
  BY <1>2, HasEnds
<1> QED
  BY <1>1, <1>3

\* The operator that stays active: the first in the order of sync_points.
Goes(r, s) ==
    \/ r.hasData /\ ~s.hasData
    \/ r.hasData = s.hasData /\ r.op < s.op
Keeper(R, r) == r \in Classified(R) /\ \A s \in Classified(R) : SamePoint(s, r) => ~Goes(s, r)

\* Every point has one.
LEMMA KeeperExists ==
    ASSUME NEW R, IsRegistry(R), NEW r \in Classified(R)
    PROVE  \E s \in Classified(R) : SamePoint(s, r) /\ Keeper(R, s)
<1>1. PICK G : G = {s \in Classified(R) : SamePoint(s, r)}
  OBVIOUS
<1>2. PICK D : D = {s \in G : s.hasData}
  OBVIOUS
<1>3. PICK T : T = IF D # {} THEN D ELSE G
  OBVIOUS
<1>4. r \in G /\ G \in SUBSET R /\ T \in SUBSET G /\ T # {}
  BY <1>1, <1>2, <1>3 DEF SamePoint, Classified
<1>5. IsFiniteSet(T)
  BY <1>4, FS_Subset DEF IsRegistry
<1>6. PICK f : f = [s \in T |-> -s.op]
  OBVIOUS
<1>7. \A s \in T : f[s] \in Int /\ f[s] = -s.op /\ s.op \in Int
  BY <1>4, <1>6 DEF IsRegistry
<1>8. PICK k \in T : \A s \in T : f[s] <= f[k]
  BY <1>4, <1>5, <1>7, LargestExists
<1>9. \A s \in G : ~Goes(s, k)
  <2> SUFFICES ASSUME NEW s \in G, Goes(s, k) PROVE FALSE
    OBVIOUS
  <2>1. s.hasData \in BOOLEAN /\ k.hasData \in BOOLEAN
    BY <1>4 DEF IsRegistry
  <2>2. CASE s \in T
    <3>1. s.op >= k.op /\ s.op \in Int /\ k.op \in Int
      BY <1>7, <1>8, <2>2
    <3>2. s.hasData = k.hasData
      BY <1>2, <1>3, <2>1, <2>2, <1>4
    <3> QED
      BY <3>1, <3>2 DEF Goes
  <2>3. CASE s \notin T
    BY <1>2, <1>3, <2>1, <2>3 DEF Goes
  <2> QED
    BY <2>2, <2>3
<1>10. k \in Classified(R) /\ SamePoint(k, r)
  BY <1>1, <1>4
<1>11. \A s \in Classified(R) : SamePoint(s, k) => s \in G
  BY <1>1, <1>10 DEF SamePoint
<1> QED
  BY <1>9, <1>10, <1>11 DEF Keeper

\* And no two.
LEMMA KeeperUnique ==
    ASSUME NEW R, IsRegistry(R), NEW r, NEW s, Keeper(R, r), Keeper(R, s), SamePoint(r, s)
    PROVE  r = s
<1>1. r \in R /\ s \in R /\ r \in Classified(R) /\ s \in Classified(R)
  BY DEF Keeper, Classified
<1>2. r.op \in Int /\ s.op \in Int /\ r.hasData \in BOOLEAN /\ s.hasData \in BOOLEAN
  BY <1>1 DEF IsRegistry
<1>3. ~Goes(r, s) /\ ~Goes(s, r)
  BY <1>1 DEF Keeper, SamePoint
<1>4. r.op = s.op
  <2>1. r.hasData = s.hasData
    <3>1. r.hasData => s.hasData
      BY <1>3, Zenon DEF Goes
    <3>2. s.hasData => r.hasData
      BY <1>3, Zenon DEF Goes
    <3> QED
      BY <1>2, <3>1, <3>2
  <2>2. ~(r.op < s.op) /\ ~(s.op < r.op)
    BY <1>3, <2>1 DEF Goes
  <2> QED
    BY <1>2, <2>2
<1>5. make_point_id(r) = make_point_id(s)
  BY <1>4 DEF make_point_id, SamePoint
<1> QED
  BY <1>1, <1>5 DEF IsRegistry

\* What sync_points writes for a row of the registry.
LEMMA SyncedRow ==
    ASSUME NEW R, IsRegistry(R), NEW points, NEW r \in R
    PROVE  /\ make_point_id(r) \in DOMAIN sync_points(points, R)
           /\ sync_points(points, R)[make_point_id(r)] =
                  [phys |-> r.phys, dir |-> r.dir, class |-> classify_point(r), active |-> Keeper(R, r)]
<1>1. PICK p : p = make_point_id(r)
  OBVIOUS
<1>2. PICK row : row = CHOOSE s \in R : make_point_id(s) = p
  OBVIOUS
<1>3. row = r
  BY <1>1, <1>2 DEF IsRegistry
<1>4. p \in DOMAIN points \cup {make_point_id(s) : s \in R} /\ ~(\A s \in R : make_point_id(s) # p)
  BY <1>1
<1>5. Keeper(R, r) <=>
          /\ classify_point(r) # None
          /\ \A s \in R : (s.key = r.key /\ s.dir = r.dir /\ classify_point(s) # None) => ~Goes(s, r)
  BY DEF Keeper, Classified, SamePoint
<1> DEFINE Keeps(s) == /\ classify_point(s) # None
                       /\ \A t \in R : (t.key = s.key /\ t.dir = s.dir /\ classify_point(t) # None)
                                         => ~Goes(t, s)
           Point(s) == [phys |-> s.phys, dir |-> s.dir, class |-> classify_point(s), active |-> Keeps(s)]
           Synced(q) == IF \A s \in R : make_point_id(s) # q THEN points[q]
                        ELSE Point(CHOOSE s \in R : make_point_id(s) = q)
           D == DOMAIN points \cup {make_point_id(s) : s \in R}
<1>6. sync_points(points, R) = [q \in D |-> Synced(q)]
  BY DEF sync_points, Goes
<1>7. Synced(p) = Point(row)
  BY <1>2, <1>4
<1>8. Keeps(r) <=> Keeper(R, r)
  BY <1>5
<1>9. Point(r) = [phys |-> r.phys, dir |-> r.dir, class |-> classify_point(r), active |-> Keeper(R, r)]
  <2>1. Keeps(r) = Keeper(R, r)
    BY <1>8 DEF Keeper
  <2> QED
    BY <2>1
<1>10. p \in D /\ Point(row) = Point(r)
  BY <1>3, <1>4
<1> HIDE DEF Point, Synced, D
<1>11. p \in DOMAIN sync_points(points, R) /\ sync_points(points, R)[p] = Synced(p)
  BY <1>6, <1>10
<1> QED
  BY <1>1, <1>7, <1>9, <1>10, <1>11

\* sync_points: "Keep exactly one operator per (pointKey, direction); prefer one that has
\* data".  Of any registry and whatever the table held: of the classified rows of one
\* point and direction one is active and no other, it has data if any of them has, and
\* a row that is not classified is not active.
THEOREM OneOperatorStays ==
    ASSUME NEW R, IsRegistry(R), NEW before, NEW points, points = sync_points(before, R)
    PROVE  /\ \A r \in R \ Classified(R) : ~points[make_point_id(r)].active
           /\ \A r \in Classified(R) : \E s \in Classified(R) :
                 /\ SamePoint(s, r) /\ points[make_point_id(s)].active /\ (r.hasData => s.hasData)
                 /\ \A t \in Classified(R) : SamePoint(t, r) /\ points[make_point_id(t)].active => t = s
<1>1. ASSUME NEW r \in R PROVE points[make_point_id(r)].active <=> Keeper(R, r)
  <2>1. PICK k : k = Keeper(R, r)
    OBVIOUS
  <2> DEFINE Point == [phys |-> r.phys, dir |-> r.dir, class |-> classify_point(r), active |-> k]
  <2>3. points[make_point_id(r)] = Point
    BY <2>1, SyncedRow
  <2>4. Point.active = k
    OBVIOUS
  <2> QED
    BY <2>1, <2>3, <2>4
<1>2. \A r \in R \ Classified(R) : ~Keeper(R, r)
  BY DEF Keeper
<1>3. ASSUME NEW r \in Classified(R)
      PROVE  \E s \in Classified(R) :
                 /\ SamePoint(s, r) /\ points[make_point_id(s)].active /\ (r.hasData => s.hasData)
                 /\ \A t \in Classified(R) : SamePoint(t, r) /\ points[make_point_id(t)].active => t = s
  <2>1. PICK s \in Classified(R) : SamePoint(s, r) /\ Keeper(R, s)
    BY KeeperExists
  <2>2. s \in R /\ r \in R /\ \A t \in Classified(R) : t \in R
    BY <2>1 DEF Classified
  <2>3. r.hasData => s.hasData
    BY <2>1, Zenon DEF Keeper, Goes, SamePoint
  <2>4. \A t \in Classified(R) : SamePoint(t, r) => SamePoint(t, s)
    BY <2>1 DEF SamePoint
  <2>5. \A t \in Classified(R) : SamePoint(t, r) /\ points[make_point_id(t)].active => t = s
    BY <1>1, <2>1, <2>2, <2>4, KeeperUnique
  <2>6. points[make_point_id(s)].active
    BY <1>1, <2>1, <2>2
  <2> QED
    BY <2>1, <2>3, <2>5, <2>6
<1> QED
  BY <1>1, <1>2, <1>3

\* The flows of a day are numbers, and the points finitely many.
IsFlows(gas) ==
    /\ IsFiniteSet(DOMAIN gas.points)
    /\ \A k \in DOMAIN gas.flows : gas.flows[k] \in Int \cup {None}

\* B has one report of each place that S has, and none of S is larger.
OneEach(gas, S, B, d) ==
    /\ B \subseteq S
    /\ \A p \in S : \E q \in B : /\ Place(gas, q) = Place(gas, p)
                                /\ Abs(Reported(gas, p, d)) <= Abs(Reported(gas, q, d))
    /\ \A p, q \in B : Place(gas, p) = Place(gas, q) => p = q

\* The supply of a day is made of the reports of B, and of LNG.
AddsUp(gas, B, d, row) ==
    /\ row.pipeline = SupplyOf(gas, B, d, "import_pipeline", {"entry", "exit"})
    /\ row.production = SupplyOf(gas, B, d, "production_entry", {"entry", "exit"})
    /\ row.uk_net = SupplyOf(gas, B, d, "interconnector_uk", {"entry"})
                    - SupplyOf(gas, B, d, "interconnector_uk", {"exit"})
    /\ row.supply = row.pipeline + row.production + row.lng + (IF row.uk_net > 0 THEN row.uk_net ELSE 0)

LEMMA CountedFinite ==
    ASSUME NEW gas, IsFlows(gas), NEW production, NEW d, NEW S, S = CountedPoints(gas, production, d)
    PROVE  /\ IsFiniteSet(S)
           /\ \A p \in S : Reported(gas, p, d) \in Int /\ Abs(Reported(gas, p, d)) \in Int
<1>1. \A p \in S : Reported(gas, p, d) \in Int
  BY DEF IsFlows, CountedPoints, Reported, Or0
<1>2. IsFiniteSet(S)
  BY FS_Subset DEF IsFlows, CountedPoints
<1> QED
  BY <1>1, <1>2 DEF Abs

LEMMA LargestOnce ==
    ASSUME NEW gas, NEW d, NEW S, IsFiniteSet(S),
           \A p \in S : Reported(gas, p, d) \in Int /\ Abs(Reported(gas, p, d)) \in Int,
           NEW B, B = LargestReports(gas, S, d)
    PROVE  OneEach(gas, S, B, d)
<1> DEFINE At(k) == {q \in S : Place(gas, q) = k}
           Best(k) == CHOOSE p \in At(k) : \A q \in At(k) : Abs(Reported(gas, q, d)) <= Abs(Reported(gas, p, d))
<1>3. ASSUME NEW r \in S, NEW k, k = Place(gas, r)
      PROVE  /\ Best(k) \in S /\ Place(gas, Best(k)) = k
             /\ Abs(Reported(gas, r, d)) <= Abs(Reported(gas, Best(k), d))
  <2>1. PICK T, f : T = At(k) /\ f = [q \in T |-> Abs(Reported(gas, q, d))]
    OBVIOUS
  <2>2. IsFiniteSet(T) /\ r \in T /\ T \in SUBSET S
    BY <1>3, <2>1, FS_Subset
  <2>3. \A q \in T : f[q] \in Int /\ f[q] = Abs(Reported(gas, q, d))
    BY <2>1, <2>2
  <2>4. \E p \in T : \A q \in T : f[q] <= f[p]
    BY <2>2, <2>3, LargestExists
  <2>5. \E p \in At(k) : \A q \in At(k) : Abs(Reported(gas, q, d)) <= Abs(Reported(gas, p, d))
    BY <2>1, <2>3, <2>4
  <2>6. PICK b : b = Best(k)
    OBVIOUS
  <2>7. b \in At(k) /\ \A q \in At(k) : Abs(Reported(gas, q, d)) <= Abs(Reported(gas, b, d))
    BY <2>5, <2>6
  <2>8. r \in At(k)
    BY <1>3
  <2> QED
    BY <2>6, <2>7, <2>8
<1>4. B = {Best(k) : k \in {Place(gas, p) : p \in S}}
  BY DEF LargestReports
<1> HIDE DEF Best
<1>5. \A q \in B : q \in S /\ q = Best(Place(gas, q))
  BY <1>3, <1>4
<1>6. \A p, q \in B : Place(gas, p) = Place(gas, q) => p = q
  <2> SUFFICES ASSUME NEW p \in B, NEW q \in B, Place(gas, p) = Place(gas, q) PROVE p = q
    OBVIOUS
  <2>1. PICK k : k = Place(gas, p) /\ k = Place(gas, q)
    OBVIOUS
  <2>2. p = Best(k) /\ q = Best(k)
    BY <1>5, <2>1
  <2> QED
    BY <2>2
<1>7. \A p \in S : Best(Place(gas, p)) \in B
  BY <1>4
<1>8. \A p \in S : \E q \in B : /\ Place(gas, q) = Place(gas, p)
                               /\ Abs(Reported(gas, p, d)) <= Abs(Reported(gas, q, d))
  BY <1>3, <1>7
<1> QED
  BY <1>5, <1>6, <1>8 DEF OneEach

\* The part of a number that is not negative.
LEMMA MaxWithZero == ASSUME NEW u \in Int PROVE Max({0, u}) = IF u > 0 THEN u ELSE 0
<1>1. CASE u > 0
  BY <1>1 DEF Max
<1>2. CASE ~(u > 0)
  BY <1>2 DEF Max
<1> QED
  BY <1>1, <1>2

\* compute_daily_supply: "The physical flow at a point is the SINGLE LARGEST operator
\* report".  Of any points and flows, on any day: the supply adds up, for pipelines,
\* production and the net of the interconnector, one report of every place and
\* direction that has one, and no report of that place is larger; LNG is added and an
\* interconnector that exports takes nothing away.
THEOREM LargestReportCounts ==
    ASSUME NEW gas, IsFlows(gas), NEW production, NEW daily, daily = compute_daily_supply(gas, production),
           NEW d \in DOMAIN daily
    PROVE  \E B : OneEach(gas, CountedPoints(gas, production, d), B, d) /\ AddsUp(gas, B, d, daily[d])
<1>1. PICK S, B : S = CountedPoints(gas, production, d) /\ B = LargestReports(gas, S, d)
  OBVIOUS
<1>2. OneEach(gas, S, B, d)
  BY <1>1, CountedFinite, LargestOnce
<1> DEFINE Uk == SupplyOf(gas, B, d, "interconnector_uk", {"entry"})
                   - SupplyOf(gas, B, d, "interconnector_uk", {"exit"})
           Pipeline == SupplyOf(gas, B, d, "import_pipeline", {"entry", "exit"})
           Production == SupplyOf(gas, B, d, "production_entry", {"entry", "exit"})
           Lng == Or0(Get(gas.lng, d, None))
<1>3. daily[d] = [pipeline |-> Pipeline, production |-> Production, lng |-> Lng, uk_net |-> Uk,
                  supply |-> Pipeline + Production + Lng + Max({0, Uk})]
  BY <1>1 DEF compute_daily_supply
<1>4. \A class, dirs : SupplyOf(gas, B, d, class, dirs) \in Int
  <2> SUFFICES ASSUME NEW class, NEW dirs PROVE SupplyOf(gas, B, d, class, dirs) \in Int
    OBVIOUS
  <2>1. PICK f, T : /\ f = [p \in B |-> Reported(gas, p, d)]
                    /\ T = {p \in B : gas.points[p].class = class /\ gas.points[p].dir \in dirs}
    OBVIOUS
  <2>2. B \subseteq S /\ IsFiniteSet(T) /\ \A p \in T : f[p] \in Int
    BY <1>1, <1>2, <2>1, CountedFinite, FS_Subset DEF OneEach
  <2>3. Total(f, T) \in Int
    BY <2>2, TotalType
  <2> QED
    BY <2>1, <2>3 DEF SupplyOf, SumOver, Total
<1>5. Max({0, Uk}) = IF Uk > 0 THEN Uk ELSE 0
  <2>1. PICK u \in Int : u = Uk
    BY <1>4
  <2> QED
    BY <2>1, MaxWithZero
<1> HIDE DEF Uk, Pipeline, Production, Lng
<1>6. /\ daily[d].pipeline = Pipeline /\ daily[d].production = Production /\ daily[d].uk_net = Uk
      /\ daily[d].supply = daily[d].pipeline + daily[d].production + daily[d].lng
                           + (IF daily[d].uk_net > 0 THEN daily[d].uk_net ELSE 0)
  BY <1>3, <1>5
<1> QED
  BY <1>1, <1>2, <1>6 DEF Uk, Pipeline, Production, AddsUp

\* The days of a balance, in order.
LEMMA TwoDays == Cardinality({}) = 0 /\ Cardinality({0}) = 1 /\ Cardinality({0, 1}) = 2
<1>1. Cardinality({}) = 0 /\ Cardinality({0}) = 1 /\ IsFiniteSet({0})
  BY FS_EmptySet, FS_Singleton
<1>2. {0} \cup {1} = {0, 1} /\ 1 \notin {0}
  OBVIOUS
<1>3. Cardinality({0} \cup {1}) = Cardinality({0}) + 1
  BY <1>1, <1>2, FS_AddElement
<1> QED
  BY <1>1, <1>2, <1>3

-----------------------------------------------------------------------------
(* The map of line outages: reports in any order *)

\* Reports of lines: a message is told by its id.
IsReports(S) ==
    /\ \A o \in S : o.mrid \in Int /\ o.available \in Int \cup {None}
    /\ \A o, p \in S : o.mrid = p.mrid => o = p

\* Which of two reports is the one to show, and the one of a set that is.
Tighter(o, p) ==
    \/ o.available # None /\ (p.available = None \/ o.available < p.available)
    \/ o.available = p.available /\ o.mrid < p.mrid
IsTightest(o, T) == o \in T /\ \A p \in T : p = o \/ Tighter(o, p)
ShownReport(T) == CHOOSE o \in T : IsTightest(o, T)
EventOf(T) == [event |-> IF T = {} THEN None ELSE ShownReport(T), by |-> {o.zone : o \in T}]

\* Of two reports one is tighter, and what is tighter than a tighter one is tighter.
LEMMA TighterOrders ==
    ASSUME NEW S, IsReports(S), NEW o \in S, NEW p \in S
    PROVE  /\ ~(Tighter(o, p) /\ Tighter(p, o)) /\ (o = p \/ Tighter(o, p) \/ Tighter(p, o))
           /\ \A q \in S : Tighter(o, p) /\ Tighter(p, q) => Tighter(o, q)
<1>1. None \notin Int
  BY NoneAssumption
<1>2. /\ o.mrid \in Int /\ (o.available \in Int \/ o.available = None)
      /\ p.mrid \in Int /\ (p.available \in Int \/ p.available = None)
      /\ o.mrid = p.mrid => o = p
  BY DEF IsReports
<1>3. ASSUME NEW q \in S, Tighter(o, p), Tighter(p, q) PROVE Tighter(o, q)
  <2>1. q.mrid \in Int /\ (q.available \in Int \/ q.available = None)
    BY DEF IsReports
  <2> QED
    BY <1>1, <1>2, <1>3, <2>1 DEF Tighter
<1> QED
  BY <1>1, <1>2, <1>3 DEF Tighter

\* A set of reports has one tightest at most.
LEMMA OneTightest ==
    ASSUME NEW S, IsReports(S), NEW T \in SUBSET S, NEW o, IsTightest(o, T)
    PROVE  ShownReport(T) = o
<1>1. ASSUME NEW p \in T, IsTightest(p, T) PROVE p = o
  <2>1. o \in T /\ (p = o \/ Tighter(o, p)) /\ (p = o \/ Tighter(p, o))
    BY <1>1 DEF IsTightest
  <2>2. ~(Tighter(o, p) /\ Tighter(p, o))
    BY <1>1, <2>1, TighterOrders
  <2> QED
    BY <2>1, <2>2
<1>2. o \in T
  BY DEF IsTightest
<1> QED
  BY <1>1, <1>2 DEF ShownReport

\* Merging a report keeps the tightest.
LEMMA MergeKeeps ==
    ASSUME NEW S, IsReports(S), NEW T \in SUBSET S, NEW x \in S,
           T # {} => \E o : IsTightest(o, T)
    PROVE  /\ MergeReport(x, EventOf(T)) = EventOf(T \cup {x})
           /\ \E o : IsTightest(o, T \cup {x})
<1>1. PICK U : U = T \cup {x}
  OBVIOUS
<1>2. PICK old : old = EventOf(T)
  OBVIOUS
<1>3. old.by = {o.zone : o \in T} /\ (T # {} => old.event = ShownReport(T))
  BY <1>2 DEF EventOf
<1>4. {o.zone : o \in U} = old.by \cup {x.zone}
  BY <1>1, <1>3
<1>5. old.by = {} <=> T = {}
  BY <1>3
<1>6. PICK kept : kept = IF old.by = {} THEN x ELSE KeepTighter(x, old.event)
  OBVIOUS
<1>7. IsTightest(kept, U)
  <2>1. CASE T = {}
    BY <1>1, <1>5, <1>6, <2>1 DEF IsTightest
  <2>2. CASE T # {}
    <3>1. PICK o : IsTightest(o, T)
      BY <2>2
    <3>2. old.event = o
      BY <1>3, <2>2, <3>1, OneTightest
    <3>3. kept = IF Tighter(x, o) THEN x ELSE o
      BY <1>5, <1>6, <2>2, <3>2 DEF KeepTighter, Tighter
    <3>4. o \in T /\ \A p \in T : p = o \/ Tighter(o, p)
      BY <3>1 DEF IsTightest
    <3>5. CASE Tighter(x, o)
      <4>1. \A p \in T : Tighter(x, p)
        BY <3>4, <3>5, TighterOrders
      <4> QED
        BY <1>1, <3>3, <3>5, <4>1 DEF IsTightest
    <3>6. CASE ~Tighter(x, o)
      <4>1. x = o \/ Tighter(o, x)
        BY <3>4, <3>6, TighterOrders
      <4> QED
        BY <1>1, <3>3, <3>4, <3>6, <4>1 DEF IsTightest
    <3> QED
      BY <3>5, <3>6
  <2> QED
    BY <2>1, <2>2
<1>8. U \in SUBSET S /\ U # {}
  BY <1>1
<1>9. ShownReport(U) = kept
  BY <1>7, <1>8, OneTightest
<1>10. MergeReport(x, old) = [event |-> kept, by |-> old.by \cup {x.zone}]
  BY <1>6 DEF MergeReport
<1>11. EventOf(U) = [event |-> kept, by |-> old.by \cup {x.zone}]
  BY <1>4, <1>8, <1>9 DEF EventOf
<1> QED
  BY <1>1, <1>2, <1>7, <1>10, <1>11

\* The reports of key k among the first i rows.
FirstOf(rows, use, k, i) == {rows[j] : j \in {l \in use : l <= i /\ MergeKey(rows[l]) = k}}
IsMerge(m, rows, use, k) ==
    m = [i \in 0..Len(rows) |->
            IF i = 0 THEN NoEvent
            ELSE IF i \in use /\ MergeKey(rows[i]) = k THEN MergeReport(rows[i], m[i - 1])
            ELSE m[i - 1]]

\* The merged event of a key is the tightest of its reports, with all their zones.
LEMMA MergedIsEvent ==
    ASSUME NEW S, IsReports(S), NEW rows, Len(rows) \in Nat, \A i \in 1..Len(rows) : rows[i] \in S,
           NEW use \in SUBSET (1..Len(rows)), NEW k
    PROVE  LET T == FirstOf(rows, use, k, Len(rows))
           IN  MergedOf(rows, use, k) = EventOf(T) /\ (T # {} => \E o : IsTightest(o, T))
<1>1. PICK n \in Nat : n = Len(rows)
  OBVIOUS
<1>2. PICK T : T = [i \in 0..n |-> FirstOf(rows, use, k, i)]
  OBVIOUS
<1>3. use \in SUBSET (Nat \ {0}) /\ use \in SUBSET (1..n)
  BY <1>1
<1>4. T[0] = {}
  BY <1>2, <1>3 DEF FirstOf
<1>5. ASSUME NEW i \in 0..n PROVE T[i] \in SUBSET S
  BY <1>1, <1>2, <1>3 DEF FirstOf
<1>6. ASSUME NEW i \in Nat, i + 1 <= n
      PROVE  T[i + 1] = IF i + 1 \in use /\ MergeKey(rows[i + 1]) = k THEN T[i] \cup {rows[i + 1]} ELSE T[i]
  <2>1. i \in 0..n /\ i + 1 \in 0..n
    BY <1>6
  <2>2. PICK A, B : /\ A = {l \in use : l <= i /\ MergeKey(rows[l]) = k}
                    /\ B = {l \in use : l <= i + 1 /\ MergeKey(rows[l]) = k}
    OBVIOUS
  <2>3. \A l \in use : l <= i + 1 <=> l <= i \/ l = i + 1
    BY <1>3
  <2>4. B = IF i + 1 \in use /\ MergeKey(rows[i + 1]) = k THEN A \cup {i + 1} ELSE A
    BY <2>2, <2>3
  <2>5. T[i] = {rows[j] : j \in A} /\ T[i + 1] = {rows[j] : j \in B}
    BY <1>2, <2>1, <2>2 DEF FirstOf
  <2> QED
    BY <2>4, <2>5
<1>7. \A i \in 0..n : T[i] # {} => \E o : IsTightest(o, T[i])
  <2>1. PICK N : N = {i \in Nat : i <= n => (T[i] # {} => \E o : IsTightest(o, T[i]))}
    OBVIOUS
  <2>2. 0 \in N
    BY <1>4, <2>1
  <2>3. ASSUME NEW i \in N PROVE i + 1 \in N
    <3> SUFFICES ASSUME i + 1 <= n, T[i + 1] # {} PROVE \E o : IsTightest(o, T[i + 1])
      BY <2>1
    <3>1. i \in Nat /\ i \in 0..n /\ (T[i] # {} => \E o : IsTightest(o, T[i])) /\ T[i] \in SUBSET S
      <4>1. i \in Nat /\ i \in 0..n /\ (T[i] # {} => \E o : IsTightest(o, T[i]))
        BY <2>1
      <4> QED
        BY <1>5, <4>1
    <3>2. CASE i + 1 \in use /\ MergeKey(rows[i + 1]) = k
      <4>1. PICK x \in S, before \in SUBSET S : x = rows[i + 1] /\ before = T[i]
        BY <1>1, <1>3, <3>1, <3>2
      <4>2. T[i + 1] = before \cup {x}
        BY <1>6, <3>1, <3>2, <4>1
      <4>3. before # {} => \E o : IsTightest(o, before)
        BY <3>1, <4>1
      <4>4. \E o : IsTightest(o, before \cup {x})
        BY <4>3, MergeKeeps
      <4> QED
        BY <4>2, <4>4
    <3>3. CASE ~(i + 1 \in use /\ MergeKey(rows[i + 1]) = k)
      BY <1>6, <3>1, <3>3
    <3> QED
      BY <3>2, <3>3
  <2>4. N = Nat
    BY <2>1, <2>2, <2>3, EveryNatural
  <2> QED
    BY <2>1, <2>4
<1>8. PICK w : w = [i \in 0..n |-> EventOf(T[i])]
  OBVIOUS
<1>9. IsMerge(w, rows, use, k)
  <2>1. ASSUME NEW i \in 0..n
        PROVE  w[i] = IF i = 0 THEN NoEvent
                      ELSE IF i \in use /\ MergeKey(rows[i]) = k THEN MergeReport(rows[i], w[i - 1])
                      ELSE w[i - 1]
    <3>1. CASE i = 0
      BY <1>4, <1>8, <3>1 DEF EventOf, NoEvent
    <3>2. CASE i # 0
      <4>1. PICK j \in Nat : j + 1 = i /\ j = i - 1 /\ j \in 0..n
        BY <3>2
      <4>2. w[i] = EventOf(T[i]) /\ w[j] = EventOf(T[j])
        BY <1>8, <4>1
      <4>3. T[i] = IF i \in use /\ MergeKey(rows[i]) = k THEN T[j] \cup {rows[i]} ELSE T[j]
        <5>1. j + 1 <= n
          BY <4>1
        <5>2. T[j + 1] = IF j + 1 \in use /\ MergeKey(rows[j + 1]) = k THEN T[j] \cup {rows[j + 1]} ELSE T[j]
          BY <1>6, <5>1
        <5> QED
          BY <4>1, <5>2
      <4>4. CASE i \in use /\ MergeKey(rows[i]) = k
        <5>1. rows[i] \in S /\ T[j] \in SUBSET S /\ (T[j] # {} => \E o : IsTightest(o, T[j]))
          BY <1>1, <1>3, <1>5, <1>7, <4>1, <4>4
        <5>2. MergeReport(rows[i], EventOf(T[j])) = EventOf(T[j] \cup {rows[i]})
          BY <5>1, MergeKeeps
        <5> QED
          BY <3>2, <4>1, <4>2, <4>3, <4>4, <5>2
      <4>5. CASE ~(i \in use /\ MergeKey(rows[i]) = k)
        BY <3>2, <4>1, <4>2, <4>3, <4>5
      <4> QED
        BY <4>4, <4>5
    <3> QED
      BY <3>1, <3>2
  <2> QED
    BY <1>1, <1>8, <2>1 DEF IsMerge
<1>10. PICK m : m = CHOOSE x : IsMerge(x, rows, use, k)
  OBVIOUS
<1>11. IsMerge(m, rows, use, k)
  BY <1>9, <1>10
<1>12. MergedOf(rows, use, k) = m[n]
  BY <1>1, <1>10 DEF MergedOf, IsMerge
<1>13. \A i \in 0..n : m[i] = w[i]
  <2>1. PICK N : N = {i \in Nat : i <= n => m[i] = w[i]}
    OBVIOUS
  <2>2. 0 \in N
    BY <1>1, <1>9, <1>11, <2>1 DEF IsMerge
  <2>3. ASSUME NEW i \in N PROVE i + 1 \in N
    <3> SUFFICES ASSUME i + 1 <= n PROVE m[i + 1] = w[i + 1]
      BY <2>1
    <3>1. PICK j \in 0..n : j = i + 1 /\ j # 0 /\ j - 1 = i
      BY <2>1
    <3>2. m[i] = w[i]
      BY <2>1
    <3>3. m[j] = IF i + 1 \in use /\ MergeKey(rows[i + 1]) = k THEN MergeReport(rows[i + 1], m[i]) ELSE m[i]
      BY <1>1, <1>11, <3>1 DEF IsMerge
    <3>4. w[j] = IF i + 1 \in use /\ MergeKey(rows[i + 1]) = k THEN MergeReport(rows[i + 1], w[i]) ELSE w[i]
      BY <1>1, <1>9, <3>1 DEF IsMerge
    <3> QED
      BY <3>1, <3>2, <3>3, <3>4
  <2>4. N = Nat
    BY <2>1, <2>2, <2>3, EveryNatural
  <2> QED
    BY <2>1, <2>4
<1>14. MergedOf(rows, use, k) = EventOf(T[n])
  BY <1>8, <1>12, <1>13
<1>15. T[n] # {} => \E o : IsTightest(o, T[n])
  BY <1>7
<1>16. T[n] = FirstOf(rows, use, k, Len(rows))
  BY <1>1, <1>2
<1> QED
  BY <1>14, <1>15, <1>16

\* What the map shows of a set of messages.
ReportsOf(S, t, horizon, k) == {o \in S : Shown(o, t, horizon) /\ MergeKey(o) = k}
EventsOf(S, t, horizon) ==
    {EventOf(ReportsOf(S, t, horizon, MergeKey(o))) : o \in {p \in S : Shown(p, t, horizon)}}

-----------------------------------------------------------------------------
(* The order statistics of a finite set *)

\* There is an element of every rank.
LEMMA RankExists ==
    ASSUME NEW S, IsFiniteSet(S), NEW v, \A x \in S : v[x] \in Int, NEW k \in 1..Cardinality(S)
    PROVE  \E x \in S : /\ Cardinality({y \in S : v[y] < v[x]}) < k
                        /\ Cardinality({y \in S : ~(v[x] < v[y])}) >= k
<1>0. Cardinality(S) \in Nat /\ k \in Nat /\ k >= 1
  BY FS_CardinalityType
<1>1. PICK L, U : /\ L = [x \in S |-> {y \in S : v[y] < v[x]}]
                  /\ U = [x \in S |-> {y \in S : ~(v[x] < v[y])}]
  OBVIOUS
<1>2. ASSUME NEW T \in SUBSET S PROVE IsFiniteSet(T) /\ Cardinality(T) \in Nat
  BY FS_Subset, FS_CardinalityType
<1>3. ASSUME NEW T \in SUBSET S, T # {}
      PROVE  \E x, z \in T : \A y \in T : v[x] <= v[y] /\ v[y] <= v[z]
  <2>1. PICK V : V = {v[x] : x \in T}
    OBVIOUS
  <2>2. V \in SUBSET Int /\ V # {}
    BY <1>3, <2>1
  <2>3. IsFiniteSet(V)
    BY <1>2, <2>1, Images
  <2>4. PICK a \in V, b \in V : \A e \in V : a <= e /\ e <= b
    BY <2>2, <2>3, HasEnds
  <2>5. PICK x \in T, z \in T : a = v[x] /\ b = v[z]
    BY <2>1
  <2> QED
    BY <2>1, <2>4, <2>5
<1>4. PICK A : A = {x \in S : Cardinality(L[x]) < k}
  OBVIOUS
<1>5. A # {}
  <2>1. S # {}
    BY <1>0, FS_EmptySet
  <2>2. PICK x \in S : \A y \in S : v[x] <= v[y]
    BY <1>3, <2>1
  <2>3. L[x] = {}
    BY <1>1, <2>2
  <2>4. Cardinality(L[x]) = 0
    BY <2>3, FS_EmptySet
  <2> QED
    BY <1>0, <1>4, <2>4
<1>6. PICK x \in A : \A y \in A : v[y] <= v[x]
  <2>1. A \in SUBSET S
    BY <1>4
  <2> QED
    BY <1>3, <1>5, <2>1
<1>7. x \in S /\ Cardinality(L[x]) < k
  BY <1>4
<1>8. Cardinality(U[x]) >= k
  <2>1. U[x] \in SUBSET S /\ Cardinality(U[x]) \in Nat
    BY <1>1, <1>2, <1>7
  <2> SUFFICES ASSUME Cardinality(U[x]) < k PROVE FALSE
    BY <1>0, <2>1
  <2>2. U[x] # S
    BY <1>0
  <2>3. PICK R : R = S \ U[x]
    OBVIOUS
  <2>4. R \in SUBSET S /\ R # {}
    BY <2>1, <2>2, <2>3
  <2>5. PICK z \in R : \A y \in R : v[z] <= v[y]
    BY <1>3, <2>4
  <2>6. z \in S /\ v[x] < v[z] /\ v[x] \in Int /\ v[z] \in Int
    BY <1>1, <1>7, <2>3, <2>4
  <2>7. L[z] \in SUBSET U[x]
    <3>1. ASSUME NEW y \in L[z] PROVE y \in U[x]
      <4>1. y \in S /\ v[y] < v[z] /\ v[y] \in Int
        BY <1>1, <2>6
      <4>2. y \notin R
        BY <2>5, <2>6, <4>1
      <4> QED
        BY <2>3, <4>1, <4>2
    <3> QED
      BY <3>1
  <2>8. Cardinality(L[z]) <= Cardinality(U[x]) /\ Cardinality(L[z]) \in Nat
    <3>1. IsFiniteSet(U[x])
      BY <1>2, <2>1
    <3>2. L[z] \in SUBSET S
      BY <2>1, <2>7
    <3> QED
      BY <1>2, <2>7, <3>1, <3>2, FS_Subset
  <2>9. z \in A
    BY <1>0, <1>4, <2>1, <2>6, <2>8
  <2> QED
    BY <1>6, <2>6, <2>9
<1> QED
  BY <1>1, <1>7, <1>8

-----------------------------------------------------------------------------
(* The question box names the years it does not show *)

\* Hours on record, and a year asked for or left open.
HoursOnRecord(db) == \A s, z : DOMAIN Hourly(db, s, z) \in SUBSET Nat /\ IsFiniteSet(DOMAIN Hourly(db, s, z))
IsYear(y) == y = None \/ y \in Int

\* What the notes of a zone name when its record begins in the year first.
YearsMissing(first, from, to, shown) ==
    (IF from = None \/ first <= from THEN {} ELSE from..(first - 1))
    \cup ((IF from = None THEN first ELSE Max({first, from}))..to \ shown)
NamedIn(notes, z) == UNION {n.years : n \in {m \in notes : m.zone = z /\ m.kind # "partial"}}
AllYears(from, to, shown, named) ==
    /\ shown # {} =>
         (IF from = None THEN Min(shown \cup named) ELSE from)..to \subseteq shown \cup named
    /\ shown \cap named = {}

\* Later hours are of later years.
LEMMA YearsInOrder ==
    ASSUME NEW a \in Nat, NEW b \in Nat, a <= b
    PROVE  YearOfHour(a) \in Nat /\ YearOfHour(b) \in Nat /\ YearOfHour(a) <= YearOfHour(b)
<1>1. \A m \in Nat \ {0}, x, y \in Nat : x <= y => x \div m \in Nat /\ y \div m \in Nat /\ x \div m <= y \div m
  OBVIOUS
<1>2. PICK H \in Nat \ {0}, D \in Nat \ {0}, M \in Nat \ {0} : H = HoursPerDay /\ D = DaysPerMonth /\ M = MonthsPerYear
  BY DayAssumption, CalendarAssumption
<1>3. \A x : YearOfHour(x) = ((x \div H) \div D) \div M
  BY <1>2 DEF YearOfHour, MonthOfHour, MonthOf, DayOfHour
<1>4. a \div H \in Nat /\ b \div H \in Nat /\ a \div H <= b \div H
  BY <1>1
<1>5. (a \div H) \div D \in Nat /\ (b \div H) \div D \in Nat /\ (a \div H) \div D <= (b \div H) \div D
  BY <1>1, <1>4
<1>6. /\ ((a \div H) \div D) \div M \in Nat /\ ((b \div H) \div D) \div M \in Nat
      /\ ((a \div H) \div D) \div M <= ((b \div H) \div D) \div M
  BY <1>1, <1>5
<1> QED
  BY <1>3, <1>6

\* The first hour of some series.
LEMMA OldestHour ==
    ASSUME NEW db, HoursOnRecord(db), NEW keys, NEW z,
           NEW s \in keys, NEW h \in DOMAIN Hourly(db, s, z)
    PROVE  _oldest(db, keys, z) \in Nat /\ _oldest(db, keys, z) <= h /\ h \in Nat
<1>1. PICK hours : hours = UNION {DOMAIN Hourly(db, k, z) : k \in keys}
  OBVIOUS
<1>2. hours \in SUBSET Nat /\ h \in hours
  BY <1>1 DEF HoursOnRecord
<1>3. PICK n \in hours : \A m \in hours : n <= m
  BY <1>2, LeastNatural
<1>4. Min(hours) = n
  <2>1. \A x \in hours : (\A y \in hours : x <= y) <=> x = n
    BY <1>2, <1>3
  <2> QED
    BY <2>1 DEF Min
<1>5. _oldest(db, keys, z) = n
  BY <1>1, <1>2, <1>4 DEF _oldest
<1> QED
  BY <1>2, <1>3, <1>5

\* The years named and the years shown are the years asked for.
LEMMA YearsAreAll ==
    ASSUME NEW shown \in SUBSET Int, NEW first \in Int, \A p \in shown : first <= p,
           NEW from, IsYear(from), NEW to \in Int
    PROVE  AllYears(from, to, shown, YearsMissing(first, from, to, shown))
<1>1. PICK named : named = YearsMissing(first, from, to, shown)
  OBVIOUS
<1>2. CASE from = None
  <2>1. named = first..to \ shown
    BY <1>1, <1>2 DEF YearsMissing
  <2>2. PICK S : S = shown \cup named
    OBVIOUS
  <2>3. \A y \in S : y \in Int /\ first <= y
    BY <2>1, <2>2
  <2>4. ASSUME shown # {} PROVE Min(S)..to \subseteq S
    <3>1. PICK T : T = {y - first : y \in S}
      OBVIOUS
    <3>2. T \in SUBSET Nat /\ T # {}
      <4>1. \A y \in S : y - first \in Nat
        BY <2>3
      <4>2. S # {}
        BY <2>2, <2>4
      <4> QED
        BY <3>1, <4>1, <4>2
    <3>3. PICK n \in T : \A m \in T : n <= m
      BY <3>2, LeastNatural
    <3>4. PICK x \in S : n = x - first
      BY <3>1
    <3>5. \A y \in S : x <= y
      <4>1. ASSUME NEW y \in S PROVE x <= y
        <5>1. y - first \in T
          BY <3>1
        <5> QED
          BY <2>3, <3>3, <3>4, <5>1
      <4> QED
        BY <4>1
    <3>6. Min(S) = x
      <4>1. \A e \in S : (\A y \in S : e <= y) <=> e = x
        BY <2>3, <3>5
      <4> QED
        BY <4>1 DEF Min
    <3>7. x \in Int /\ first <= x
      BY <2>3
    <3> QED
      BY <2>1, <2>2, <3>6, <3>7
  <2> QED
    BY <1>1, <1>2, <2>1, <2>2, <2>4 DEF AllYears
<1>3. CASE from # None
  <2>1. from \in Int
    BY <1>3 DEF IsYear
  <2>2. PICK e \in Int : e = Max({first, from}) /\ (e = first \/ e = from) /\ first <= e /\ from <= e
    <3>1. CASE first <= from
      <4>1. Max({first, from}) = from
        BY <2>1, <3>1 DEF Max
      <4> QED
        BY <2>1, <3>1, <4>1
    <3>2. CASE ~(first <= from)
      <4>1. Max({first, from}) = first
        BY <2>1, <3>2 DEF Max
      <4> QED
        BY <2>1, <3>2, <4>1
    <3> QED
      BY <3>1, <3>2
  <2>3. named = (IF first <= from THEN {} ELSE from..(first - 1)) \cup (e..to \ shown)
    BY <1>1, <1>3, <2>2 DEF YearsMissing
  <2>4. from..to \subseteq shown \cup named
    BY <2>1, <2>2, <2>3
  <2>5. shown \cap named = {}
    BY <2>1, <2>3
  <2> QED
    BY <1>1, <1>3, <2>4, <2>5 DEF AllYears
<1> QED
  BY <1>2, <1>3

\* The notes of a zone are its own, and name what is missing.
NotesRight(notes, z, first, from, to, shown) ==
    /\ \A n \in notes : n.zone = z
    /\ NamedIn(notes, z) = YearsMissing(first, from, to, shown)

LEMMA NotesName ==
    ASSUME NEW z, NEW oldest \in Nat, NEW monthly, ~monthly, NEW from, NEW to, NEW shown, shown # {}
    PROVE  NotesRight(ColumnNotes(z, oldest, from, to, monthly, shown), z, YearOfHour(oldest), from, to, shown)
<1>0. PICK notes : notes = ColumnNotes(z, oldest, from, to, monthly, shown)
  OBVIOUS
<1>1. PICK first : first = YearOfHour(oldest)
  OBVIOUS
<1>2. oldest # None
  BY NoneAssumption
<1>3. PICK before, inside :
         /\ before = (IF from = None \/ first <= from THEN {} ELSE from..(first - 1))
         /\ inside = (IF from = None THEN first ELSE Max({first, from}))..to \ shown
  OBVIOUS
<1>4. PICK a, b, c :
         /\ a = Note(z, "not on record", from..(first - 1)) /\ b = Note(z, "partial", {first})
         /\ c = Note(z, "no data", inside)
  OBVIOUS
<1>5. PICK A, B, C :
         /\ A = (IF from = None \/ first <= from THEN {} ELSE {a})
         /\ B = {n \in {b} : /\ oldest - YearStart(first) >= HoursPerDay
                             /\ from = None \/ first >= from
                             /\ first <= to}
         /\ C = (IF inside = {} THEN {} ELSE {c})
  OBVIOUS
<1>6. notes = (A \cup B) \cup C
  <2>1. _coverage_note(z, oldest, from, to, monthly) = A \cup B
    BY <1>1, <1>2, <1>4, <1>5, Zenon DEF _coverage_note
  <2>2. _gap_note(z, shown, YearOfHour(oldest), from, to) = C
    BY <1>1, <1>3, <1>4, <1>5, Zenon DEF _gap_note
  <2> QED
    BY <1>0, <2>1, <2>2 DEF ColumnNotes
<1>7. /\ a.zone = z /\ a.kind # "partial" /\ a.years = from..(first - 1)
      /\ b.zone = z /\ b.kind = "partial"
      /\ c.zone = z /\ c.kind # "partial" /\ c.years = inside
  BY <1>4, Zenon DEF Note
<1>8. \A n \in notes : /\ n.zone = z
                       /\ n.kind # "partial" => n.years = before \/ n.years = inside
  <2>1. \A n \in A : n = a /\ before = from..(first - 1)
    BY <1>3, <1>5
  <2>2. \A n \in B : n = b
    BY <1>5
  <2>3. \A n \in C : n = c
    BY <1>5
  <2> QED
    BY <1>6, <1>7, <2>1, <2>2, <2>3
<1>9. /\ before # {} => \E n \in notes : n.zone = z /\ n.kind # "partial" /\ n.years = before
      /\ inside # {} => \E n \in notes : n.zone = z /\ n.kind # "partial" /\ n.years = inside
  <2>1. before # {} => a \in notes /\ before = from..(first - 1)
    BY <1>3, <1>5, <1>6
  <2>2. inside # {} => c \in notes
    BY <1>5, <1>6
  <2> QED
    BY <1>7, <2>1, <2>2
<1>10. NamedIn(notes, z) = before \cup inside
  <2>1. ASSUME NEW y \in NamedIn(notes, z) PROVE y \in before \cup inside
    BY <1>8, <2>1 DEF NamedIn
  <2>2. ASSUME NEW y \in before \cup inside PROVE y \in NamedIn(notes, z)
    BY <1>9, <2>2 DEF NamedIn
  <2> QED
    BY <2>1, <2>2
<1> QED
  <2>1. YearsMissing(YearOfHour(oldest), from, to, shown) = before \cup inside
    BY <1>1, <1>3 DEF YearsMissing
  <2> QED
    BY <1>0, <1>8, <1>10, <2>1 DEF NotesRight

\* A period of a yearly column is the year of an hour of its series.
LEMMA AggregatedYears ==
    ASSUME NEW monthly, ~monthly, NEW f, NEW agg, NEW start, NEW end, NEW p \in DOMAIN _aggregate_periods(f, monthly, agg, start, end)
    PROVE  \E h \in DOMAIN f : YearOfHour(h) = p
BY DEF _aggregate_periods, InWindow, PeriodOf

\* So is a year of a capture factor of an hour of its generation.
LEMMA CaptureYears ==
    ASSUME NEW price, NEW gen, NEW start, NEW end, NEW p \in DOMAIN _capture_factor_yearly(price, gen, start, end)
    PROVE  \E h \in DOMAIN gen : YearOfHour(h) = p
BY Zenon DEF _capture_factor_yearly, InWindow

\* What the notes about a yearly column name are the years missing from it.
NotedWell(notes, z, from, to, shown) ==
    /\ \A n \in notes : n.zone = z
    /\ AllYears(from, to, shown, NamedIn(notes, z))

LEMMA NotedYears ==
    ASSUME NEW db, HoursOnRecord(db), NEW keys, NEW z, NEW shown, shown # {},
           \A p \in shown : \E s \in keys : \E h \in DOMAIN Hourly(db, s, z) : YearOfHour(h) = p,
           NEW from, IsYear(from), NEW to \in Int, NEW monthly, ~monthly
    PROVE  /\ _oldest(db, keys, z) # None
           /\ NotedWell(ColumnNotes(z, _oldest(db, keys, z), from, to, monthly, shown), z, from, to, shown)
<1>0. PICK oldest : oldest = _oldest(db, keys, z)
  OBVIOUS
<1>1. ASSUME NEW p \in shown
      PROVE  oldest \in Nat /\ YearOfHour(oldest) \in Nat /\ p \in Int /\ YearOfHour(oldest) <= p
  <2>1. PICK s \in keys : \E h \in DOMAIN Hourly(db, s, z) : YearOfHour(h) = p
    OBVIOUS
  <2>2. PICK h \in DOMAIN Hourly(db, s, z) : YearOfHour(h) = p
    BY <2>1
  <2>3. oldest \in Nat /\ oldest <= h /\ h \in Nat
    BY <1>0, OldestHour
  <2> QED
    BY <2>2, <2>3, YearsInOrder
<1>2. oldest \in Nat /\ YearOfHour(oldest) \in Int
  BY <1>1
<1>3. shown \in SUBSET Int /\ \A p \in shown : YearOfHour(oldest) <= p
  BY <1>1
<1>4. AllYears(from, to, shown, YearsMissing(YearOfHour(oldest), from, to, shown))
  BY <1>2, <1>3, YearsAreAll
<1>5. NotesRight(ColumnNotes(z, oldest, from, to, monthly, shown), z, YearOfHour(oldest), from, to, shown)
  BY <1>2, NotesName
<1>6. PICK notes : notes = ColumnNotes(z, oldest, from, to, monthly, shown)
  OBVIOUS
<1>7. NotedWell(notes, z, from, to, shown)
  BY <1>4, <1>5, <1>6 DEF NotedWell, NotesRight
<1> QED
  BY <1>0, <1>2, <1>6, <1>7, NoneAssumption

\* The notes of a zone are its own.
LEMMA NotesOwn ==
    ASSUME NEW z, NEW oldest, NEW from, NEW to, NEW monthly, NEW shown,
           NEW n \in ColumnNotes(z, oldest, from, to, monthly, shown)
    PROVE  n.zone = z
<1>1. \A kind, years : Note(z, kind, years).zone = z
  BY DEF Note
<1>2. ASSUME n \in _coverage_note(z, oldest, from, to, monthly) PROVE n.zone = z
  BY <1>1, <1>2, Zenon DEF _coverage_note
<1>3. ASSUME n \in _gap_note(z, shown, YearOfHour(oldest), from, to) PROVE n.zone = z
  BY <1>1, <1>3, Zenon DEF _gap_note
<1> QED
  BY <1>2, <1>3 DEF ColumnNotes

\* A year of a column is the year of an hour of a series it is made of.
LEMMA ColumnHours ==
    ASSUME NEW db, NEW metric, NEW z, NEW monthly, ~monthly, NEW start, NEW end,
           NEW p \in DOMAIN ZoneColumn(db, metric, z, monthly, start, end)
    PROVE  \E s \in OldestSeries(metric, monthly) : \E h \in DOMAIN Hourly(db, s, z) : YearOfHour(h) = p
<1>1. CASE metric.capture # None
  <2>1. /\ OldestSeries(metric, monthly) = {metric.capture}
        /\ ZoneColumn(db, metric, z, monthly, start, end)
             = _capture_factor_yearly(Hourly(db, "price.dayahead", z), Hourly(db, metric.capture, z), start, end)
    BY <1>1 DEF OldestSeries, ZoneColumn
  <2> QED
    BY <2>1, CaptureYears
<1>2. CASE metric.capture = None
  <2>1. OldestSeries(metric, monthly) = metric.series
    BY <1>2 DEF OldestSeries
  <2>2. PICK s \in metric.series :
            p \in DOMAIN _aggregate_periods(Hourly(db, s, z), monthly, metric.agg, start, end)
    BY <1>2 DEF ZoneColumn
  <2>3. PICK f, agg : f = Hourly(db, s, z) /\ agg = metric.agg
    OBVIOUS
  <2>4. \E h \in DOMAIN f : YearOfHour(h) = p
    BY <2>2, <2>3, AggregatedYears
  <2> QED
    BY <2>1, <2>3, <2>4
<1> QED
  BY <1>1, <1>2

\* A column per zone.
LEMMA ZoneColumnYears ==
    ASSUME NEW db, HoursOnRecord(db), NEW metric, NEW zones, NEW from, IsYear(from), NEW to \in Int,
           NEW start, NEW end, NEW monthly, ~monthly,
           NEW found, found = ZoneColumns(db, metric, zones, from, to, monthly, start, end),
           NEW z \in DOMAIN found.columns
    PROVE  AllYears(from, to, DOMAIN found.columns[z], NamedIn(found.coverage, z))
<1>1. PICK Z, keys, column, oldest :
         /\ Z = SeqExt!ToSet(zones) /\ keys = OldestSeries(metric, monthly)
         /\ column = [x \in Z |-> ZoneColumn(db, metric, x, monthly, start, end)]
         /\ oldest = [x \in Z |-> _oldest(db, keys, x)]
  OBVIOUS
<1>2. PICK notes : notes = [x \in Z |->
          IF oldest[x] = None THEN {Note(x, "none", {})}
          ELSE ColumnNotes(x, oldest[x], from, to, monthly, DOMAIN column[x])]
  OBVIOUS
<1>3. /\ found.columns = [x \in {y \in Z : column[y] # <<>>} |-> column[x]]
      /\ found.coverage = UNION {notes[x] : x \in Z}
  BY <1>1, <1>2 DEF ZoneColumns
<1>4. z \in Z /\ found.columns[z] = column[z]
  BY <1>3
<1>5. \A x \in Z : \A n \in notes[x] : n.zone = x
  <2>1. ASSUME NEW x \in Z, NEW n \in notes[x] PROVE n.zone = x
    <3>1. CASE oldest[x] = None
      BY <1>2, <2>1, <3>1 DEF Note
    <3>2. CASE oldest[x] # None
      BY <1>2, <2>1, <3>2, NotesOwn
    <3> QED
      BY <3>1, <3>2
  <2> QED
    BY <2>1
<1>6. NamedIn(found.coverage, z) = NamedIn(notes[z], z)
  <2>1. \A n : n \in found.coverage /\ n.zone = z <=> n \in notes[z]
    BY <1>3, <1>4, <1>5
  <2> QED
    BY <1>5, <2>1, <1>4 DEF NamedIn
<1>7. PICK shown : shown = DOMAIN column[z]
  OBVIOUS
<1>8. CASE shown = {}
  BY <1>4, <1>7, <1>8 DEF AllYears
<1>9. CASE shown # {}
  <2>1. \A p \in shown : \E s \in keys : \E h \in DOMAIN Hourly(db, s, z) : YearOfHour(h) = p
    <3>1. ASSUME NEW p \in shown
          PROVE  \E s \in keys : \E h \in DOMAIN Hourly(db, s, z) : YearOfHour(h) = p
      <4>1. p \in DOMAIN ZoneColumn(db, metric, z, monthly, start, end)
        BY <1>1, <1>4, <1>7
      <4> QED
        BY <1>1, <4>1, ColumnHours
    <3> QED
      BY <3>1
  <2>2. /\ _oldest(db, keys, z) # None
        /\ NotedWell(ColumnNotes(z, _oldest(db, keys, z), from, to, monthly, shown), z, from, to, shown)
    BY <1>9, <2>1, NotedYears
  <2>3. notes[z] = ColumnNotes(z, _oldest(db, keys, z), from, to, monthly, shown)
    BY <1>1, <1>2, <1>4, <1>7, <2>2
  <2> QED
    BY <1>4, <1>6, <1>7, <2>2, <2>3 DEF NotedWell
<1> QED
  BY <1>8, <1>9

\* The mix of one zone, in all its fuels.
LEMMA FuelColumnYears ==
    ASSUME NEW db, HoursOnRecord(db), NEW zones, NEW from, IsYear(from), NEW to \in Int,
           NEW start, NEW end, NEW monthly, ~monthly,
           NEW found, found = FuelColumns(db, zones, from, to, monthly, start, end)
    PROVE  AllYears(from, to, UNION {DOMAIN found.columns[c] : c \in DOMAIN found.columns},
                    NamedIn(found.coverage, found.zones[1]))
<1>1. PICK z, column, fuels :
         /\ z = zones[1]
         /\ column = [k \in GEN_KEYS |-> _aggregate_periods(Hourly(db, k, z), monthly, "mean", start, end)]
         /\ fuels = {k \in GEN_KEYS : column[k] # <<>>}
  OBVIOUS
<1>2. PICK shown, notes, extra :
         /\ shown = UNION {DOMAIN column[k] : k \in fuels}
         /\ notes = ColumnNotes(z, _oldest(db, fuels, z), from, to, monthly, shown)
         /\ extra = (IF Len(zones) > 1 THEN {Note(z, "one place", {})} ELSE {})
  OBVIOUS
<1>3. /\ found.columns = [k \in fuels |-> column[k]]
      /\ found.coverage = extra \cup notes
      /\ found.zones = <<z>>
  <2>1. \A k \in GEN_KEYS : _aggregate_periods(Hourly(db, k, zones[1]), monthly, "mean", start, end) = column[k]
    BY <1>1
  <2>2. fuels = {k \in GEN_KEYS : _aggregate_periods(Hourly(db, k, zones[1]), monthly, "mean", start, end) # <<>>}
    BY <1>1, <2>1
  <2>3. \A k \in fuels : column[k] = _aggregate_periods(Hourly(db, k, zones[1]), monthly, "mean", start, end)
    BY <1>1
  <2>4. [k \in fuels |-> _aggregate_periods(Hourly(db, k, zones[1]), monthly, "mean", start, end)] = [k \in fuels |-> column[k]]
    BY <2>3
  <2>5. UNION {DOMAIN _aggregate_periods(Hourly(db, k, zones[1]), monthly, "mean", start, end) : k \in fuels} = shown
    BY <1>2, <2>3, Zenon
  <2> QED
    BY <1>1, <1>2, <2>2, <2>4, <2>5, Zenon DEF FuelColumns
<1>4. UNION {DOMAIN found.columns[c] : c \in DOMAIN found.columns} = shown /\ found.zones[1] = z
  <2>1. DOMAIN found.columns = fuels /\ \A c \in fuels : found.columns[c] = column[c]
    BY <1>3
  <2>2. ASSUME NEW y PROVE y \in UNION {DOMAIN found.columns[c] : c \in DOMAIN found.columns} <=> y \in shown
    <3>1. y \in UNION {DOMAIN found.columns[c] : c \in DOMAIN found.columns}
              <=> \E c \in fuels : y \in DOMAIN found.columns[c]
      BY <2>1
    <3>2. y \in shown <=> \E c \in fuels : y \in DOMAIN column[c]
      BY <1>2, Zenon
    <3> QED
      BY <2>1, <3>1, <3>2
  <2> QED
    BY <1>3, <2>2
<1>5. NamedIn(found.coverage, z) = NamedIn(notes, z)
  <2>1. Note(z, "one place", {}).years = {}
    BY DEF Note
  <2>2. \A n \in extra : n = Note(z, "one place", {})
    BY <1>2, Zenon
  <2> QED
    <3>1. ASSUME NEW n
          PROVE  n \in found.coverage /\ n.years # {} <=> n \in notes /\ n.years # {}
      BY <1>3, <2>1, <2>2, Zenon
    <3>2. ASSUME NEW y, NEW S
          PROVE  y \in NamedIn(S, z) <=>
                   \E n : (n \in S /\ n.years # {}) /\ n.zone = z /\ n.kind # "partial" /\ y \in n.years
      BY DEF NamedIn
    <3>3. ASSUME NEW y PROVE y \in NamedIn(found.coverage, z) <=> y \in NamedIn(notes, z)
      BY <3>1, <3>2
    <3> QED
      BY <3>3
<1>6. CASE shown = {}
  BY <1>4, <1>6 DEF AllYears
<1>7. CASE shown # {}
  <2>1. \A p \in shown : \E s \in fuels : \E h \in DOMAIN Hourly(db, s, z) : YearOfHour(h) = p
    <3>1. ASSUME NEW p \in shown
          PROVE  \E s \in fuels : \E h \in DOMAIN Hourly(db, s, z) : YearOfHour(h) = p
      <4>1. PICK k \in fuels : p \in DOMAIN column[k]
        BY <1>2, Zenon
      <4>2. PICK f, agg : f = Hourly(db, k, z) /\ agg = "mean"
        OBVIOUS
      <4>3. p \in DOMAIN _aggregate_periods(f, monthly, agg, start, end)
        BY <1>1, <4>1, <4>2
      <4>4. \E h \in DOMAIN f : YearOfHour(h) = p
        BY <4>3, AggregatedYears
      <4> QED
        BY <4>2, <4>4
    <3> QED
      BY <3>1
  <2>2. NotedWell(notes, z, from, to, shown)
    BY <1>2, <1>7, <2>1, NotedYears, Zenon
  <2> QED
    BY <1>4, <1>5, <2>2 DEF NotedWell
<1> QED
  BY <1>6, <1>7

\* The window of a question ends in a year.
LEMMA WindowEnds ==
    ASSUME NEW to, IsYear(to), NEW t \in Nat
    PROVE  (IF to = None THEN YearOfHour(t) ELSE Min({to, YearOfHour(t)})) \in Int
<1>1. PICK y \in Nat : y = YearOfHour(t)
  BY YearsInOrder
<1>2. CASE to = None
  BY <1>1, <1>2
<1>3. CASE to # None
  <2>1. to \in Int
    BY <1>3 DEF IsYear
  <2>2. CASE to <= y
    <3>1. Min({to, y}) = to
      BY <1>1, <2>1, <2>2 DEF Min
    <3> QED
      BY <1>1, <1>3, <2>1, <3>1
  <2>3. CASE ~(to <= y)
    <3>1. Min({to, y}) = y
      BY <1>1, <2>1, <2>3 DEF Min
    <3> QED
      BY <1>1, <1>3, <3>1
  <2> QED
    BY <2>2, <2>3
<1> QED
  BY <1>2, <1>3

\* An answer that shows periods shows the columns found and their notes.
LEMMA AnswerShows ==
    ASSUME NEW found, NEW fuels, NEW zones, NEW id, NEW from, NEW to, NEW monthly, NEW running,
           NEW a, a = AnswerOf(found, fuels, zones, Echo(id, None, from, to, monthly), running), a.available
    PROVE  /\ a.columns = found.columns /\ a.coverage = found.coverage
           /\ a.periods = UNION {DOMAIN found.columns[c] : c \in DOMAIN found.columns}
           /\ a.interpreted.zones = found.zones /\ a.interpreted.to = to
           /\ a.interpreted.grain = (IF monthly THEN "monthly" ELSE "yearly")
<1>1. PICK echo : echo = Echo(id, None, from, to, monthly)
  OBVIOUS
<1>2. PICK periods : periods = UNION {DOMAIN found.columns[c] : c \in DOMAIN found.columns}
  OBVIOUS
<1>3. PICK g : g = (IF monthly THEN "monthly" ELSE "yearly")
  OBVIOUS
<1>4. echo = [metric |-> id, zones |-> None, from |-> from, to |-> to, grain |-> g]
  BY <1>1, <1>3 DEF Echo
<1>5. [echo EXCEPT !.zones = found.zones]
        = [metric |-> id, zones |-> found.zones, from |-> from, to |-> to, grain |-> g]
  BY <1>4
<1>6. a = ShownAnswer(found, fuels, zones, echo, periods, running)
  <2>1. CASE found.columns = <<>>
    BY <1>1, <2>1 DEF AnswerOf
  <2> QED
    BY <1>1, <1>2, <2>1 DEF AnswerOf
<1> QED
  BY <1>2, <1>3, <1>5, <1>6 DEF ShownAnswer

\* The mix alone has a column per fuel.
LEMMA MixHasFuels == \A id \in DOMAIN METRIC_BY_ID : METRIC_BY_ID[id].fuels = (id = "mix")
<1>1. DOMAIN METRIC_BY_ID = {"negative_hours", "load", "wind", "capture_solar", "mix"}
  BY DEF METRIC_BY_ID
<1>2. /\ METRIC_BY_ID["negative_hours"].fuels = FALSE
      /\ METRIC_BY_ID["load"].fuels = FALSE
      /\ METRIC_BY_ID["wind"].fuels = FALSE
      /\ METRIC_BY_ID["capture_solar"].fuels = FALSE
  BY DEF METRIC_BY_ID, Metric
<1>3. METRIC_BY_ID["mix"].fuels = TRUE
  BY DEF METRIC_BY_ID, Metric
<1> QED
  BY <1>1, <1>2, <1>3
=============================================================================
