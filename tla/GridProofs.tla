---------------------------- MODULE GridProofs ----------------------------
(***************************************************************************)
(* Proofs about the grid pipelines, for any areas, hours, days, values and *)
(* number of publications, failed fetches, failed commits and kills.       *)
(*                                                                         *)
(* No hour of load is stored from some of the zone's areas: what a sum is  *)
(* does not matter to that argument, which only follows where the terms    *)
(* come from.  The daily residual is the mean of the hourly ones: there    *)
(* the sums are those of DataTheorems.                                     *)
(***************************************************************************)
EXTENDS Grid, DataTheorems, TLAPS

-----------------------------------------------------------------------------
(* The inductive invariant *)

\* What a leg may say: every hour of every day is one of its values.
LegSays(l, days) ==
    /\ DOMAIN days = Days
    /\ \A d \in Days : \A h \in DOMAIN days[d] : days[d][h] \in Values[l]

\* The sources publish the legs of the pipeline.
SourcesSay == DOMAIN pub = LegsOf(kind) /\ \A l \in LegsOf(kind) : LegSays(l, pub[l])

\* A run asks for legs of the pipeline and has what they said at some time.
RunHas ==
    /\ todo \in Seq(SUBSET LegsOf(kind))
    /\ \A l \in DOMAIN got : LegSays(l, got[l])

\* An item that writes the load has full sums only.
ItemFull(item) ==
    item.what = "load" =>
        \A d \in Days : \A h \in DOMAIN item.data[d] : FullSum(item.data[d][h])
QueueFull == \E S : queue \in Seq(S) /\ \A item \in S : ItemFull(item)

StoreFull ==
    /\ DOMAIN hourly = Series
    /\ DOMAIN hourly["load"] = Days
    /\ \A d \in Days : \A h \in DOMAIN hourly["load"][d] : FullSum(hourly["load"][d][h])

\* The invariant of the pipeline that adds up areas.
GridInv == kind = "grid" => SourcesSay /\ RunHas /\ QueueFull /\ StoreFull

-----------------------------------------------------------------------------
(* The documents and the load of a run *)

\* A run of the pipeline asks for one document per area and one of generation.
LEMMA GridDocs ==
    ASSUME GridAssumption
    PROVE  /\ DocsOf("grid") \in Seq(SUBSET LegsOf("grid"))
           /\ \A i \in DOMAIN DocsOf("grid") :
                 \/ DocsOf("grid")[i] = {Wind, Solar, Other}
                 \/ \E j \in DOMAIN Areas : DocsOf("grid")[i] = {Areas[j]}
<1>1. PICK n \in Nat : DOMAIN Areas = 1 .. n
  <2>1. PICK S : Areas \in Seq(S)
    BY DEF GridAssumption
  <2> QED
    BY <2>1
<1>2. PICK A : A = [i \in DOMAIN Areas |-> {Areas[i]}]
  OBVIOUS
<1>3. PICK T : T = {{Areas[i]} : i \in DOMAIN Areas} \cup {{Wind, Solar, Other}}
  OBVIOUS
<1>b. PICK B : B = <<{Wind, Solar, Other}>>
  OBVIOUS
<1>4. A \in Seq(T) /\ B \in Seq(T)
  <2>1. A \in [1 .. n -> T]
    BY <1>1, <1>2, <1>3
  <2>2. {Wind, Solar, Other} \in T
    BY <1>3
  <2> QED
    BY <1>b, <2>1, <2>2
<1>5. DocsOf("grid") = A \o B
  BY <1>2, <1>b DEF DocsOf
<1>6. DocsOf("grid") \in Seq(T)
  <2>1. A \o B \in Seq(T)
    BY <1>4
  <2> QED
    BY <1>5, <2>1
<1>7. PICK docs : docs = DocsOf("grid")
  OBVIOUS
<1>8. PICK m \in Nat : DOMAIN docs = 1 .. m /\ docs \in [1 .. m -> T]
  BY <1>6, <1>7
<1>9. \A i \in DOMAIN docs : docs[i] \in T /\ docs[i] \in SUBSET LegsOf("grid")
  BY <1>7, <1>8 DEF LegsOf
<1>10. docs \in Seq(SUBSET LegsOf("grid"))
  BY <1>8, <1>9
<1> QED
  BY <1>3, <1>7, <1>9, <1>10

\* sum_component_load_hourly over what a run got adds up one value of each area.
LEMMA LoadFull ==
    ASSUME kind = "grid", RunHas, NEW d \in Days, NEW h \in DOMAIN LoadOn(got, d)
    PROVE  FullSum(LoadOn(got, d)[h])
<1>1. PICK parts : parts = [i \in DOMAIN Areas |-> On(got, Areas[i], d)]
  OBVIOUS
<1>2. LoadOn(got, d) = sum_component_load_hourly(parts)
  BY <1>1 DEF LoadOn
<1>3. PICK f : f = [a \in DOMAIN parts |-> parts[a][h]]
  OBVIOUS
<1>4. /\ \A a \in DOMAIN parts : h \in DOMAIN parts[a]
      /\ LoadOn(got, d)[h] = Sum(f)
  BY <1>2, <1>3 DEF sum_component_load_hourly
<1>5. ASSUME NEW i \in DOMAIN Areas PROVE f[i] \in Values[Areas[i]]
  <2>1. h \in DOMAIN On(got, Areas[i], d) /\ f[i] = On(got, Areas[i], d)[h]
    BY <1>1, <1>3, <1>4
  <2>2. Areas[i] \in DOMAIN got
    BY <2>1 DEF On
  <2> QED
    BY <2>1, <2>2 DEF RunHas, LegSays, On
<1>6. f \in [DOMAIN Areas -> UNION {Values[Areas[i]] : i \in DOMAIN Areas}]
  BY <1>1, <1>3, <1>5
<1> QED
  BY <1>4, <1>5, <1>6 DEF FullSum

\* The commits of a run are items, and the load among them is full.
LEMMA CommitsFull ==
    ASSUME kind = "grid", RunHas
    PROVE  \E S : CommitsOf \in Seq(S) /\ \A item \in S : ItemFull(item)
<1>1. PICK S : S = {Daily, Load, Fuel(Wind), Fuel(Solar), Fuel(Other), Residual}
  OBVIOUS
<1>2. ASSUME NEW item \in S PROVE IfAny(item) \in Seq(S)
  BY DEF IfAny
<1>3. CommitsOf \in Seq(S)
  <2>1. CommitsOf = <<Daily>> \o IfAny(Load) \o IfAny(Fuel(Wind)) \o IfAny(Fuel(Solar))
                              \o IfAny(Fuel(Other)) \o IfAny(Residual)
    BY DEF CommitsOf
  <2>2. <<Daily>> \in Seq(S)
    BY <1>1
  <2>3. /\ IfAny(Load) \in Seq(S) /\ IfAny(Fuel(Wind)) \in Seq(S)
        /\ IfAny(Fuel(Solar)) \in Seq(S) /\ IfAny(Fuel(Other)) \in Seq(S)
        /\ IfAny(Residual) \in Seq(S)
    BY <1>1, <1>2
  <2> QED
    BY <2>1, <2>2, <2>3
<1>4. ASSUME NEW item \in S PROVE ItemFull(item)
  <2>1. CASE item = Load
    <3>1. \A d \in Days : item.data[d] = LoadOn(got, d)
      BY <2>1 DEF Load, Item
    <3> QED
      BY <3>1, LoadFull DEF ItemFull
  <2>2. CASE item # Load
    <3>1. item.what \in {"daily", Wind, Solar, Other, "residual"}
      BY <1>1, <2>2 DEF Daily, Fuel, Residual, Item
    <3> QED
      BY <3>1 DEF ItemFull, Wind, Solar, Other
  <2> QED
    BY <2>1, <2>2
<1> QED
  BY <1>3, <1>4

-----------------------------------------------------------------------------
(* Steps *)

\* Before the first run.
LEMMA GridStart == ASSUME GridAssumption, Init PROVE GridInv
<1> SUFFICES ASSUME kind = "grid" PROVE SourcesSay /\ RunHas /\ QueueFull /\ StoreFull
  BY DEF GridInv
<1>1. SourcesSay
  <2>1. PICK p \in PublishedBefore(LegsOf(kind)) : pub = FirstValues(p)
    BY DEF Init
  <2>2. p \in [LegsOf(kind) -> [Days -> {{}, {0}, Hours}]]
    BY DEF PublishedBefore
  <2>3. DOMAIN pub = LegsOf(kind)
    BY <2>1, <2>2 DEF FirstValues
  <2>4. ASSUME NEW l \in LegsOf(kind) PROVE LegSays(l, pub[l])
    <3>1. pub[l] = [d \in Days |-> [h \in p[l][d] |-> CHOOSE v \in Values[l] : TRUE]]
      BY <2>1, <2>2 DEF FirstValues
    <3>2. (CHOOSE v \in Values[l] : TRUE) \in Values[l]
      BY GridAssumption DEF GridAssumption, Kinds
    <3> QED
      BY <3>1, <3>2 DEF LegSays
  <2> QED
    BY <2>3, <2>4 DEF SourcesSay
<1>2. RunHas
  BY DEF Init, RunHas
<1>3. QueueFull
  <2>1. queue \in Seq({})
    BY DEF Init
  <2> QED
    BY <2>1 DEF QueueFull
<1>4. StoreFull
  BY DEF Init, StoreFull, Series, NoHours
<1> QED
  BY <1>1, <1>2, <1>3, <1>4

\* An upsert of hours has the values of the new curve and of the old.
LEMMA Upserted ==
    ASSUME NEW new, NEW old, NEW h \in DOMAIN Over(new, old)
    PROVE  \/ h \in DOMAIN new /\ Over(new, old)[h] = new[h]
           \/ h \in DOMAIN old /\ Over(new, old)[h] = old[h]
BY DEF Over

\* The rest of the queue is as the queue was.
LEMMA QueueRest ==
    ASSUME QueueFull, queue # <<>>, queue' = Tail(queue)
    PROVE  QueueFull' /\ ItemFull(Head(queue))
<1>1. PICK S : queue \in Seq(S) /\ \A item \in S : ItemFull(item)
  BY DEF QueueFull
<1>2. Head(queue) \in S /\ queue' \in Seq(S)
  BY <1>1
<1>3. \E T : queue' \in Seq(T) /\ \A item \in T : ItemFull(item)
  BY <1>1, <1>2
<1> QED
  BY <1>1, <1>2, <1>3 DEF QueueFull

\* A step that leaves the queue, or empties it.
LEMMA QueueSame ==
    ASSUME QueueFull, queue' = queue \/ queue' = <<>>
    PROVE  QueueFull'
<1>1. PICK S : queue \in Seq(S) /\ \A item \in S : ItemFull(item)
  BY DEF QueueFull
<1>2. queue' \in Seq(S)
  <2>1. <<>> \in Seq(S)
    OBVIOUS
  <2> QED
    BY <1>1, <2>1
<1>3. \E T : queue' \in Seq(T) /\ \A item \in T : ItemFull(item)
  BY <1>1, <1>2
<1> QED
  BY <1>3 DEF QueueFull

\* What a source publishes is a value of the leg.
LEMMA PublishStep ==
    ASSUME GridAssumption, kind = "grid", SourcesSay,
           NEW l \in DOMAIN pub, NEW d \in Days, NEW h \in Hours, Publish(l, d, h)
    PROVE  SourcesSay'
<1>1. PICK v \in Values[l] :
        pub' = [x \in DOMAIN pub |->
                  IF x = l \/ {x, l} = {"ewind", "esolar"}
                  THEN [pub[x] EXCEPT ![d] = Over([i \in {h} |-> v], @)]
                  ELSE pub[x]]
  BY DEF Publish
<1>2. kind' = kind
  BY DEF Publish
<1>3. DOMAIN pub' = LegsOf(kind)
  BY <1>1 DEF SourcesSay
<1>4. \A x \in LegsOf(kind) : x # "ewind"
  <2>1. \A i \in DOMAIN Areas : Areas[i] # "ewind"
    BY DEF GridAssumption
  <2> QED
    BY <2>1, GridDocs DEF LegsOf, Wind, Solar, Other
<1>5. ASSUME NEW x \in LegsOf(kind) PROVE LegSays(x, pub'[x])
  <2>1. LegSays(x, pub[x]) /\ x \in DOMAIN pub
    BY DEF SourcesSay
  <2>2. CASE x = l
    <3>1. pub'[x] = [pub[x] EXCEPT ![d] = Over([i \in {h} |-> v], pub[x][d])]
      BY <1>1, <2>1, <2>2
    <3>2. ASSUME NEW e \in Days, NEW g \in DOMAIN pub'[x][e] PROVE pub'[x][e][g] \in Values[x]
      <4>1. CASE e = d
        <5>1. pub'[x][e] = Over([i \in {h} |-> v], pub[x][d])
          BY <2>1, <3>1, <4>1 DEF LegSays
        <5> QED
          BY <2>1, <2>2, <3>2, <5>1, Upserted DEF LegSays
      <4>2. CASE e # d
        BY <2>1, <3>1, <3>2, <4>2 DEF LegSays
      <4> QED
        BY <4>1, <4>2
    <3> QED
      BY <2>1, <3>1, <3>2 DEF LegSays
  <2>3. CASE x # l
    <3>1. {x, l} # {"ewind", "esolar"}
      BY <1>4 DEF SourcesSay
    <3> QED
      BY <1>1, <2>1, <2>3, <3>1
  <2> QED
    BY <2>2, <2>3
<1> QED
  BY <1>2, <1>3, <1>5 DEF SourcesSay

\* upsert_day_hours of the load, or of another series.
LEMMA SeriesStep ==
    ASSUME QueueFull, StoreFull, CommitSeries
    PROVE  QueueFull' /\ StoreFull'
<1>1. PICK item : item = Head(queue)
  OBVIOUS
<1>2. /\ queue # <<>> /\ queue' = Tail(queue)
      /\ hourly' = [hourly EXCEPT ![item.what] =
                      [d \in Days |-> IF d \in item.days
                         THEN Over(item.data[d], hourly[item.what][d])
                         ELSE hourly[item.what][d]]]
  BY <1>1 DEF CommitSeries
<1>3. QueueFull' /\ ItemFull(item)
  BY <1>1, <1>2, QueueRest
<1>4. "load" \in Series
  BY DEF Series
<1>5. CASE item.what = "load"
  <2>1. hourly'["load"] = [d \in Days |-> IF d \in item.days
                             THEN Over(item.data[d], hourly["load"][d])
                             ELSE hourly["load"][d]]
    BY <1>2, <1>4, <1>5 DEF StoreFull
  <2>2. ASSUME NEW d \in Days, NEW h \in DOMAIN hourly'["load"][d]
        PROVE  FullSum(hourly'["load"][d][h])
    <3>1. CASE d \in item.days
      <4>1. hourly'["load"][d] = Over(item.data[d], hourly["load"][d])
        BY <2>1, <3>1
      <4>2. PICK new, old : new = item.data[d] /\ old = hourly["load"][d]
        OBVIOUS
      <4>3. \/ h \in DOMAIN new /\ hourly'["load"][d][h] = new[h]
            \/ h \in DOMAIN old /\ hourly'["load"][d][h] = old[h]
        BY <2>2, <4>1, <4>2, Upserted
      <4>4. \A x \in DOMAIN new : FullSum(new[x])
        BY <1>3, <1>5, <4>2 DEF ItemFull
      <4>5. \A x \in DOMAIN old : FullSum(old[x])
        BY <4>2 DEF StoreFull
      <4> QED
        BY <4>3, <4>4, <4>5
    <3>2. CASE d \notin item.days
      BY <2>1, <2>2, <3>2 DEF StoreFull
    <3> QED
      BY <3>1, <3>2
  <2> QED
    BY <1>2, <1>3, <2>1, <2>2 DEF StoreFull, FullSum
<1>6. CASE item.what # "load"
  <2>1. hourly'["load"] = hourly["load"] /\ DOMAIN hourly' = Series
    BY <1>2, <1>4, <1>6 DEF StoreFull
  <2> QED
    BY <1>3, <2>1, SMTT(40) DEF StoreFull, FullSum
<1> QED
  BY <1>5, <1>6

\* Every step keeps the invariant.
LEMMA GridStep == ASSUME GridAssumption, GridInv, [Next]_vars PROVE GridInv'
<1>0. kind' = kind
  BY DEF Next, Work, vars, Publish, Midnight, Start, FetchOk, FetchFails, Derive,
         CommitDaily, CommitSeries, EndRun, Abandon, rederive
<1> SUFFICES ASSUME kind = "grid"
             PROVE  SourcesSay' /\ RunHas' /\ QueueFull' /\ StoreFull'
  BY <1>0 DEF GridInv
<1>1. SourcesSay /\ RunHas /\ QueueFull /\ StoreFull
  BY DEF GridInv
\* What the unchanged variables say stays so.
<1>a. UNCHANGED pub => SourcesSay'
  BY <1>0, <1>1 DEF SourcesSay
<1>b. UNCHANGED <<todo, got>> => RunHas'
  BY <1>0, <1>1 DEF RunHas
<1>c. UNCHANGED queue \/ queue' = <<>> => QueueFull'
  BY <1>1, QueueSame
<1>d. UNCHANGED hourly => StoreFull'
  BY <1>1 DEF StoreFull
<1>2. ASSUME NEW l \in DOMAIN pub, NEW d \in Days, NEW h \in Hours, Publish(l, d, h)
      PROVE  SourcesSay' /\ RunHas' /\ QueueFull' /\ StoreFull'
  <2>1. SourcesSay'
    BY <1>1, <1>2, PublishStep
  <2>2. UNCHANGED <<todo, got, queue, hourly>>
    BY <1>2 DEF Publish, tables
  <2> QED
    BY <1>b, <1>c, <1>d, <2>1, <2>2
<1>3. CASE Midnight \/ rederive \/ UNCHANGED vars
  BY <1>3, <1>a, <1>b, <1>c, <1>d DEF Midnight, rederive, vars, tables
<1>4. CASE Start
  <2>1. todo' \in Seq(SUBSET LegsOf(kind)) /\ got' = <<>>
    BY <1>4, GridDocs DEF Start
  <2>2. RunHas'
    BY <1>0, <2>1 DEF RunHas
  <2> QED
    BY <1>4, <1>a, <1>c, <1>d, <2>2 DEF Start, tables
<1>5. CASE FetchOk
  <2>1. todo # <<>> /\ todo' = Tail(todo)
    BY <1>5 DEF FetchOk
  <2>2. todo' \in Seq(SUBSET LegsOf(kind)) /\ Head(todo) \subseteq LegsOf(kind)
    BY <1>1, <2>1 DEF RunHas
  <2>3. ASSUME NEW l \in DOMAIN got' PROVE LegSays(l, got'[l])
    <3>1. got'[l] = IF l \in Head(todo) THEN pub[l] ELSE got[l]
      BY <1>5, <2>3 DEF FetchOk
    <3>2. l \in Head(todo) \/ l \in DOMAIN got
      BY <1>5, <2>3 DEF FetchOk
    <3> QED
      BY <1>1, <2>2, <3>1, <3>2 DEF SourcesSay, RunHas
  <2>4. RunHas'
    BY <1>0, <2>2, <2>3 DEF RunHas
  <2> QED
    BY <1>5, <1>a, <1>c, <1>d, <2>4 DEF FetchOk, tables
<1>6. CASE FetchFails
  <2>1. todo # <<>> /\ todo' = Tail(todo) /\ got' = got
    BY <1>6 DEF FetchFails
  <2>2. RunHas'
    BY <1>0, <1>1, <2>1 DEF RunHas
  <2> QED
    BY <1>6, <1>a, <1>c, <1>d, <2>2 DEF FetchFails, tables
<1>7. CASE Derive
  <2>1. QueueFull'
    <3>1. PICK S : CommitsOf \in Seq(S) /\ \A item \in S : ItemFull(item)
      BY <1>1, CommitsFull
    <3>2. queue' \in Seq(S)
      BY <1>7, <3>1 DEF Derive
    <3>3. \E T : queue' \in Seq(T) /\ \A item \in T : ItemFull(item)
      BY <3>1, <3>2
    <3> QED
      BY <3>3 DEF QueueFull
  <2> QED
    BY <1>7, <1>a, <1>b, <1>d, <2>1 DEF Derive, tables
<1>8. CASE CommitDaily
  <2>1. QueueFull'
    BY <1>1, <1>8, QueueRest DEF CommitDaily
  <2> QED
    BY <1>8, <1>a, <1>b, <1>d, <2>1 DEF CommitDaily
<1>9. CASE CommitSeries
  <2>1. QueueFull' /\ StoreFull'
    BY <1>1, <1>9, SeriesStep
  <2> QED
    BY <1>9, <1>a, <1>b, <2>1 DEF CommitSeries
<1>10. CASE EndRun
  <2>1. RunHas'
    BY <1>0, <1>1, <1>10 DEF EndRun, RunHas
  <2> QED
    BY <1>10, <1>a, <1>c, <1>d, <2>1 DEF EndRun, tables
<1>11. CASE Abandon
  <2>1. RunHas'
    BY <1>0, <1>11 DEF Abandon, RunHas
  <2> QED
    BY <1>11, <1>a, <1>c, <1>d, <2>1 DEF Abandon, tables
<1> QED
  BY <1>2, <1>3, <1>4, <1>5, <1>6, <1>7, <1>8, <1>9, <1>10, <1>11 DEF Next, Work

-----------------------------------------------------------------------------
(* The theorem *)

\* An hour of load.actual is always the sum of a published value of every
\* component of the zone (NoPartialLoad; sum_component_load_hourly under failed
\* fetches, restatements, failed commits and kills).
THEOREM LoadNeverPartial == Spec => []NoPartialLoad
<1>1. Init => GridInv
  BY GridStart, GridAssumption
<1>2. GridInv /\ [Next]_vars => GridInv'
  BY GridStep, GridAssumption
<1>3. GridInv => NoPartialLoad
  BY DEF GridInv, StoreFull, NoPartialLoad
<1> QED
  BY <1>1, <1>2, <1>3, PTL DEF Spec

-----------------------------------------------------------------------------
(* The two residuals *)

\* A curve: integers for some hours of the day.
IsCurve(c) == DOMAIN c \subseteq Hours /\ \A h \in DOMAIN c : c[h] \in Int

\* The sources publish curves, and a run has curves of them.
CurvesOf(f) == \A l \in DOMAIN f : DOMAIN f[l] = Days /\ \A d \in Days : IsCurve(f[l][d])
CurvesOnly == 
    kind \in {"grid", "elexon"} =>
        /\ DOMAIN pub = LegsOf(kind) /\ CurvesOf(pub)
        /\ todo \in Seq(SUBSET LegsOf(kind)) /\ CurvesOf(got)

\* The hours of a day are finitely many.
LEMMA HoursFinite == ASSUME GridAssumption PROVE IsFiniteSet(Hours)
BY FS_Interval DEF GridAssumption, Hours

\* No hours at all are a curve.
LEMMA EmptyCurve == IsCurve(<<>>)
BY DEF IsCurve

\* Sum is the total over the hours of the curve, and an integer.
LEMMA SumIsTotal ==
    ASSUME GridAssumption, NEW c, IsCurve(c)
    PROVE  Sum(c) = Total(c, DOMAIN c) /\ Sum(c) \in Int /\ IsFiniteSet(DOMAIN c)
<1>1. Sum(c) = Total(c, DOMAIN c)
  BY DEF Sum, Total
<1>2. IsFiniteSet(DOMAIN c)
  BY HoursFinite, FS_Subset DEF IsCurve
<1>3. Total(c, DOMAIN c) \in Int
  BY <1>2, TotalType DEF IsCurve
<1> QED
  BY <1>1, <1>2, <1>3

\* The absent hours of a leg are zeros nobody sent: they add nothing.
LEMMA SumOfAt ==
    ASSUME GridAssumption, NEW c, IsCurve(c)
    PROVE  Total([h \in Hours |-> At(c, h)], Hours) = Sum(c)
<1>1. PICK f : f = [h \in Hours |-> At(c, h)]
  OBVIOUS
<1>2. PICK D : D = DOMAIN c
  OBVIOUS
<1>3. D \in SUBSET Hours
  BY <1>2 DEF IsCurve
<1>4. \A x \in D : f[x] = c[x] /\ f[x] \in Int
  BY <1>1, <1>2 DEF At, IsCurve
<1>5. \A x \in Hours \ D : f[x] = 0
  BY <1>1, <1>2 DEF At
<1>6. Total(f, Hours) = Total(c, D)
  BY <1>3, <1>4, <1>5, HoursFinite, TotalWithin
<1> QED
  BY <1>1, <1>2, <1>6, SumIsTotal

\* The hourly residuals of a day that has them all add up to what the day's
\* load leaves of its wind and solar.
LEMMA ResidualsAddUp ==
    ASSUME GridAssumption, NEW load, NEW wind, NEW solar, NEW r,
           IsCurve(load), IsCurve(wind), IsCurve(solar),
           DOMAIN load = Hours, DOMAIN r = Hours,
           \A h \in Hours : r[h] = load[h] - At(wind, h) - At(solar, h)
    PROVE  Sum(r) \in Int /\ Sum(r) = Sum(load) - (Sum(wind) + Sum(solar))
<1>1. PICK w : w = [h \in Hours |-> At(wind, h)]
  OBVIOUS
<1>2. PICK s : s = [h \in Hours |-> At(solar, h)]
  OBVIOUS
<1>3. PICK ws : ws = [h \in Hours |-> w[h] + s[h]]
  OBVIOUS
<1>4. \A h \in Hours : w[h] \in Int /\ s[h] \in Int /\ ws[h] = w[h] + s[h] /\ load[h] \in Int
  BY <1>1, <1>2, <1>3 DEF At, IsCurve
<1>5. \A h \in Hours : r[h] \in Int /\ ws[h] \in Int /\ load[h] = r[h] + ws[h]
  BY <1>1, <1>2, <1>4
<1>6. Total(load, Hours) = Total(r, Hours) + Total(ws, Hours)
  BY <1>5, HoursFinite, TotalSum
<1>7. Total(ws, Hours) = Total(w, Hours) + Total(s, Hours)
  BY <1>4, HoursFinite, TotalSum
<1>8. Total(w, Hours) = Sum(wind) /\ Total(s, Hours) = Sum(solar)
  BY <1>1, <1>2, SumOfAt
<1>9. IsCurve(r)
  BY <1>5 DEF IsCurve
<1>10. /\ Sum(load) = Total(load, Hours) /\ Sum(r) = Total(r, Hours)
       /\ Sum(r) \in Int /\ Sum(wind) \in Int /\ Sum(solar) \in Int
  BY <1>9, SumIsTotal
<1> QED
  BY <1>6, <1>7, <1>8, <1>10

\* What a run got of a leg is a curve.
LEMMA OnCurve ==
    ASSUME NEW src, CurvesOf(src), NEW l, NEW d \in Days
    PROVE  IsCurve(On(src, l, d))
BY EmptyCurve DEF On, CurvesOf

\* The load of a day is a curve.
LEMMA LoadCurve ==
    ASSUME GridAssumption, kind \in {"grid", "elexon"},
           NEW src, CurvesOf(src), NEW d \in Days
    PROVE  IsCurve(LoadOn(src, d))
<1>1. CASE kind = "grid"
  <2>1. PICK parts : parts = [i \in DOMAIN Areas |-> On(src, Areas[i], d)]
    OBVIOUS
  <2>2. LoadOn(src, d) = sum_component_load_hourly(parts)
    BY <1>1, <2>1 DEF LoadOn
  <2>3. IsFiniteSet(DOMAIN Areas)
    <3>1. PICK S : Areas \in Seq(S)
      BY DEF GridAssumption
    <3>2. PICK n \in Nat : DOMAIN Areas = 1 .. n
      BY <3>1
    <3> QED
      BY <3>2, FS_Interval
  <2>4. ASSUME NEW h \in DOMAIN LoadOn(src, d) PROVE h \in Hours /\ LoadOn(src, d)[h] \in Int
    <3>1. PICK f : f = [a \in DOMAIN parts |-> parts[a][h]]
      OBVIOUS
    <3>2. h \in Hours /\ LoadOn(src, d)[h] = Sum(f) /\ \A a \in DOMAIN parts : h \in DOMAIN parts[a]
      BY <2>2, <3>1 DEF sum_component_load_hourly
    <3>3. \A a \in DOMAIN f : f[a] \in Int
      <4> TAKE a \in DOMAIN f
      <4>1. parts[a] = On(src, Areas[a], d) /\ h \in DOMAIN parts[a] /\ f[a] = parts[a][h]
        BY <2>1, <3>1, <3>2
      <4>2. IsCurve(parts[a])
        BY <4>1, OnCurve
      <4> QED
        BY <4>1, <4>2 DEF IsCurve
    <3>4. DOMAIN f = DOMAIN Areas
      BY <2>1, <3>1
    <3>5. Total(f, DOMAIN f) \in Int
      BY <2>3, <3>3, <3>4, TotalType
    <3>6. Sum(f) = Total(f, DOMAIN f)
      BY DEF Sum, Total
    <3> QED
      BY <3>2, <3>5, <3>6
  <2> QED
    BY <2>4 DEF IsCurve
<1>2. CASE kind = "elexon"
  <2>1. PICK c, w, s : c = On(src, Areas[1], d) /\ w = On(src, "ewind", d) /\ s = On(src, "esolar", d)
    OBVIOUS
  <2>2. IsCurve(c) /\ IsCurve(w) /\ IsCurve(s)
    BY <2>1, OnCurve
  <2>3. LoadOn(src, d) = Lifted(Lifted(c, w), s)
    BY <1>2, <2>1 DEF LoadOn
  <2>4. ASSUME NEW a, NEW b, IsCurve(a), IsCurve(b) PROVE IsCurve(Lifted(a, b))
    BY <2>4 DEF IsCurve, Lifted, At
  <2> QED
    BY <2>2, <2>3, <2>4
<1> QED
  BY <1>1, <1>2

\* The generation of a day by fuel: curves.
LEMMA FuelCurves ==
    ASSUME NEW src, CurvesOf(src), NEW d \in Days, NEW f
    PROVE  IsCurve(Leg(FuelsOn(src, d), f))
<1>1. CASE f \in DOMAIN FuelsOn(src, d)
  <2>1. f \in {Wind, Solar, Other}
    BY <1>1 DEF FuelsOn
  <2>2. PICK w, e : w = On(src, Wind, d) /\ e = On(src, "ewind", d)
    OBVIOUS
  <2>3. IsCurve(w) /\ IsCurve(e) /\ IsCurve(On(src, "esolar", d)) /\ IsCurve(On(src, f, d))
    BY <2>2, OnCurve
  <2>4. IsCurve(AddTo(w, e))
    BY <2>3 DEF IsCurve, AddTo, At
  <2>5. \/ FuelsOn(src, d)[f] = AddTo(w, e)
        \/ FuelsOn(src, d)[f] = On(src, "esolar", d)
        \/ FuelsOn(src, d)[f] = On(src, f, d)
    BY <1>1, <2>1, <2>2 DEF FuelsOn
  <2> QED
    BY <1>1, <2>3, <2>4, <2>5 DEF Leg
<1>2. CASE f \notin DOMAIN FuelsOn(src, d)
  BY <1>2, EmptyCurve DEF Leg
<1> QED
  BY <1>1, <1>2

\* The residual of an hour, however the pipeline builds it.
LEMMA ResidualHours ==
    ASSUME kind \in {"grid", "elexon"}, NEW src, NEW d \in Days
    PROVE  LET load == LoadOn(src, d)
               gen == FuelsOn(src, d)
               r == ResidualOn(src, d)
           IN  /\ DOMAIN r \subseteq DOMAIN load
               /\ \A h \in DOMAIN r : 
                    r[h] = load[h] - At(Leg(gen, Wind), h) - At(Leg(gen, Solar), h)
BY DEF ResidualOn, build_hourly_forecast

\* daily_from_hours of a full day: the residual of its row is exact.
LEMMA ClaimableRow ==
    ASSUME GridAssumption, NEW load, NEW gen,
           share_is_claimable(daily_from_hours(load, gen))
    PROVE  LET row == daily_from_hours(load, gen)
               H == HOURS_PER_DAY
           IN  row.residual = [num |-> H * Sum(load) - H * (Sum(Leg(gen, Wind)) + Sum(Leg(gen, Solar))),
                               den |-> H * H]
<1>1. PICK fuels : fuels = {f \in DOMAIN gen : DOMAIN gen[f] # {}}
  OBVIOUS
<1>2. PICK n : n = Cardinality(DOMAIN load)
  OBVIOUS
<1>3. PICK m : m = Cardinality(UNION {DOMAIN gen[f] : f \in fuels})
  OBVIOUS
<1>4. PICK row : row = daily_from_hours(load, gen)
  OBVIOUS
<1>5. /\ row.load_hours = n /\ row.gen_hours = m
      /\ row.residual = IF n = 0 \/ fuels = {} THEN None
           ELSE [num |-> HOURS_PER_DAY * Sum(load)
                           - n * (Sum(Leg(gen, Wind)) + Sum(Leg(gen, Solar))),
                 den |-> n * HOURS_PER_DAY]
  BY <1>1, <1>2, <1>3, <1>4 DEF daily_from_hours, DailyRow
<1>6. n = HOURS_PER_DAY /\ m = HOURS_PER_DAY /\ n # 0 /\ m # 0
  BY <1>4, <1>5 DEF share_is_claimable, GridAssumption
<1>7. fuels # {}
  <2>1. fuels = {} => UNION {DOMAIN gen[f] : f \in fuels} = {}
    OBVIOUS
  <2> QED
    BY <1>3, <1>6, <2>1, FS_EmptySet
<1> QED
  BY <1>4, <1>5, <1>6, <1>7

\* The two residuals of a day agree.
LEMMA ResidualsAgree ==
    ASSUME GridAssumption, kind \in {"grid", "elexon"}, CurvesOf(got), NEW d \in Days,
           share_is_claimable(RowOn(got, d)), DOMAIN ResidualOn(got, d) = Hours
    PROVE  RowOn(got, d).residual.num * HOURS_PER_DAY
             = Sum(ResidualOn(got, d)) * RowOn(got, d).residual.den
<1>1. PICK load, gen, r : 
        load = LoadOn(got, d) /\ gen = FuelsOn(got, d) /\ r = ResidualOn(got, d)
  OBVIOUS
<1>2. PICK wind, solar : wind = Leg(gen, Wind) /\ solar = Leg(gen, Solar)
  OBVIOUS
<1>3. IsCurve(load) /\ IsCurve(wind) /\ IsCurve(solar)
  BY <1>1, <1>2, LoadCurve, FuelCurves
<1>4. /\ DOMAIN r \subseteq DOMAIN load 
      /\ \A h \in DOMAIN r : r[h] = load[h] - At(wind, h) - At(solar, h)
  BY <1>1, <1>2, ResidualHours
<1>5. DOMAIN r = Hours /\ DOMAIN load = Hours
  BY <1>1, <1>3, <1>4 DEF IsCurve
<1>6. Sum(r) \in Int /\ Sum(r) = Sum(load) - (Sum(wind) + Sum(solar))
  BY <1>3, <1>4, <1>5, ResidualsAddUp
<1>7. PICK row : row = daily_from_hours(load, gen)
  OBVIOUS
<1>8. PICK H \in Nat : H = HOURS_PER_DAY
  BY DEF GridAssumption
<1>9. row.residual = [num |-> H * Sum(load) - H * (Sum(wind) + Sum(solar)), den |-> H * H]
  BY <1>1, <1>2, <1>7, <1>8, ClaimableRow DEF RowOn
<1>10. PICK a, b, c : a = Sum(load) /\ b = Sum(wind) + Sum(solar) /\ c = Sum(r)
  OBVIOUS
<1>11. a \in Int /\ b \in Int /\ c \in Int /\ c = a - b
  BY <1>3, <1>6, <1>10, SumIsTotal
<1>12. (H * a - H * b) * H = c * (H * H)
  <2>1. H * a - H * b = H * c
    BY <1>11
  <2> QED
    BY <1>11, <2>1
<1>13. row.residual.num = H * a - H * b /\ row.residual.den = H * H
  BY <1>9, <1>10
<1> QED
  BY <1>1, <1>7, <1>8, <1>10, <1>12, <1>13 DEF RowOn

\* What either pipeline asks for are legs of it.
LEMMA DocsAreLegs ==
    ASSUME GridAssumption, NEW k \in {"grid", "elexon"}
    PROVE  DocsOf(k) \in Seq(SUBSET LegsOf(k))
<1>1. CASE k = "elexon"
  <2>1. PICK a, b : a = {"ewind", "esolar"} /\ b = {Areas[1], Wind, Other}
    OBVIOUS
  <2>2. DocsOf(k) = <<a, b>>
    BY <1>1, <2>1 DEF DocsOf
  <2>3. a \in SUBSET LegsOf(k) /\ b \in SUBSET LegsOf(k)
    BY <2>2 DEF LegsOf
  <2> QED
    BY <2>2, <2>3
<1> QED
  BY <1>1, GridDocs

\* Before the first run.
LEMMA CurvesStart == ASSUME GridAssumption, Init PROVE CurvesOnly
<1> SUFFICES ASSUME kind \in {"grid", "elexon"}
             PROVE  /\ DOMAIN pub = LegsOf(kind) /\ CurvesOf(pub)
                    /\ todo \in Seq(SUBSET LegsOf(kind)) /\ CurvesOf(got)
  BY DEF CurvesOnly
<1>1. PICK p \in PublishedBefore(LegsOf(kind)) : pub = FirstValues(p)
  BY DEF Init
<1>2. p \in [LegsOf(kind) -> [Days -> {{}, {0}, Hours}]]
  BY DEF PublishedBefore
<1>3. {0} \subseteq Hours
  BY DEF GridAssumption, Hours
<1>4. DOMAIN pub = LegsOf(kind)
  BY <1>1, <1>2 DEF FirstValues
<1>5. ASSUME NEW l \in LegsOf(kind), NEW d \in Days
      PROVE  DOMAIN pub[l] = Days /\ IsCurve(pub[l][d])
  <2>1. PICK v : v = CHOOSE x \in Values[l] : TRUE
    OBVIOUS
  <2>2. v \in Int
    BY <2>1 DEF GridAssumption, Kinds
  <2>3. pub[l] = [e \in Days |-> [h \in p[l][e] |-> v]]
    BY <1>1, <1>2, <2>1 DEF FirstValues
  <2>4. p[l][d] \subseteq Hours
    BY <1>2, <1>3
  <2> QED
    BY <2>2, <2>3, <2>4 DEF IsCurve
<1>6. CurvesOf(pub)
  <2>1. ASSUME NEW l \in LegsOf(kind) PROVE DOMAIN pub[l] = Days
    BY <1>1, <1>2 DEF FirstValues
  <2> QED
    BY <1>4, <1>5, <2>1 DEF CurvesOf
<1>7. todo \in Seq(SUBSET LegsOf(kind)) /\ CurvesOf(got)
  BY DEF Init, CurvesOf
<1> QED
  BY <1>4, <1>6, <1>7

\* A publication makes curves of curves.
LEMMA CurvesPublished ==
    ASSUME GridAssumption, kind \in {"grid", "elexon"}, DOMAIN pub = LegsOf(kind), CurvesOf(pub),
           NEW l \in DOMAIN pub, NEW d \in Days, NEW h \in Hours, Publish(l, d, h)
    PROVE  DOMAIN pub' = LegsOf(kind) /\ CurvesOf(pub')
<1>1. PICK v \in Values[l] :
        pub' = [x \in DOMAIN pub |->
                  IF x = l \/ {x, l} = {"ewind", "esolar"}
                  THEN [pub[x] EXCEPT ![d] = Over([i \in {h} |-> v], @)]
                  ELSE pub[x]]
  BY DEF Publish
<1>2. v \in Int
  BY <1>1 DEF GridAssumption, Kinds
<1>3. PICK new : new = [i \in {h} |-> v]
  OBVIOUS
<1>4. ASSUME NEW old, IsCurve(old) PROVE IsCurve(Over(new, old))
  BY <1>2, <1>3, <1>4 DEF IsCurve, Over
<1>5. ASSUME NEW x \in DOMAIN pub PROVE DOMAIN pub'[x] = Days /\ \A e \in Days : IsCurve(pub'[x][e])
  <2>1. DOMAIN pub[x] = Days /\ \A e \in Days : IsCurve(pub[x][e])
    BY DEF CurvesOf
  <2>2. pub'[x] = [pub[x] EXCEPT ![d] = Over(new, pub[x][d])] \/ pub'[x] = pub[x]
    BY <1>1, <1>3
  <2> QED
    BY <1>4, <2>1, <2>2, ZenonT(60)
<1> QED
  BY <1>1, <1>5 DEF CurvesOf

\* Every step keeps curves.
LEMMA CurvesStep == ASSUME GridAssumption, CurvesOnly, [Next]_vars PROVE CurvesOnly'
<1>0. kind' = kind
  BY DEF Next, Work, vars, Publish, Midnight, Start, FetchOk, FetchFails, Derive,
         CommitDaily, CommitSeries, EndRun, Abandon, rederive
<1> SUFFICES ASSUME kind \in {"grid", "elexon"}
             PROVE  /\ DOMAIN pub' = LegsOf(kind) /\ CurvesOf(pub')
                    /\ todo' \in Seq(SUBSET LegsOf(kind)) /\ CurvesOf(got')
  BY <1>0 DEF CurvesOnly
<1>1. /\ DOMAIN pub = LegsOf(kind) /\ CurvesOf(pub)
      /\ todo \in Seq(SUBSET LegsOf(kind)) /\ CurvesOf(got)
  BY DEF CurvesOnly
<1>2. \/ UNCHANGED pub
      \/ DOMAIN pub' = LegsOf(kind) /\ CurvesOf(pub')
  <2>1. ASSUME NEW l \in DOMAIN pub, NEW d \in Days, NEW h \in Hours, Publish(l, d, h)
        PROVE  DOMAIN pub' = LegsOf(kind) /\ CurvesOf(pub')
    BY <1>1, <2>1, CurvesPublished
  <2> QED
    BY <2>1 DEF Next, Work, vars, Midnight, Start, FetchOk, FetchFails, Derive,
         CommitDaily, CommitSeries, EndRun, Abandon, rederive
<1>3. CASE UNCHANGED <<todo, got>>
  BY <1>1, <1>2, <1>3
<1>4. CASE Start
  <2>1. todo' \in Seq(SUBSET LegsOf(kind)) /\ got' = <<>>
    BY <1>4, DocsAreLegs DEF Start
  <2> QED
    BY <1>1, <1>2, <2>1 DEF CurvesOf
<1>5. CASE FetchOk
  <2>1. todo # <<>> /\ todo' = Tail(todo)
    BY <1>5 DEF FetchOk
  <2>2. todo' \in Seq(SUBSET LegsOf(kind)) /\ Head(todo) \subseteq LegsOf(kind)
    BY <1>1, <2>1
  <2>3. PICK doc : doc = Head(todo)
    OBVIOUS
  <2>4. got' = [l \in DOMAIN got \cup doc |-> IF l \in doc THEN pub[l] ELSE got[l]]
    BY <1>5, <2>3 DEF FetchOk
  <2>5. CurvesOf(got')
    BY <1>1, <2>2, <2>3, <2>4 DEF CurvesOf
  <2> QED
    BY <1>1, <1>2, <2>2, <2>5
<1>6. CASE FetchFails
  <2>1. todo # <<>> /\ todo' = Tail(todo) /\ got' = got
    BY <1>6 DEF FetchFails
  <2> QED
    BY <1>1, <1>2, <2>1
<1>7. CASE EndRun
  BY <1>1, <1>2, <1>7 DEF EndRun, CurvesOf
<1>8. CASE Abandon
  BY <1>1, <1>2, <1>8 DEF Abandon, CurvesOf
<1> QED
  BY <1>3, <1>4, <1>5, <1>6, <1>7, <1>8
  DEF Next, Work, vars, Publish, Midnight, Derive, CommitDaily, CommitSeries, rederive

\* The mean of the hourly residuals is the residual of the daily row, for any
\* number of hours, fuels published in part included (DailyMeansAgree;
\* daily_from_hours against build_hourly_forecast and ingest_elexon).
THEOREM DailyMeansHold == Spec => []DailyMeansAgree
<1>1. Init => CurvesOnly
  BY CurvesStart, GridAssumption
<1>2. CurvesOnly /\ [Next]_vars => CurvesOnly'
  BY CurvesStep, GridAssumption
<1>3. CurvesOnly => DailyMeansAgree
  BY ResidualsAgree, GridAssumption DEF CurvesOnly, DailyMeansAgree, DaysWith
<1> QED
  BY <1>1, <1>2, <1>3, PTL DEF Spec
=============================================================================
