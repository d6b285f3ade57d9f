------------------------------ MODULE Figures ------------------------------
(***************************************************************************)
(* Figures shared by the modules that read documents, derive statistics    *)
(* and answer requests: exact rationals (a sum over a number of terms),    *)
(* rounding, order statistics and z-scores.                                *)
(***************************************************************************)
EXTENDS Integers, Sequences, FiniteSets, FiniteSetsExt

CONSTANTS HoursPerDay,    \* hours of a day (24)
          None            \* an absent value

ASSUME DayAssumption == HoursPerDay \in Nat \ {0}
ASSUME NoneAssumption == None \notin Int

Ratio(s, n) == [sum |-> s, n |-> n]
Ratios == [sum : Int, n : Int]
Int1(x) == Ratio(x, 1)
Plus(a, b) ==
    IF a.n = b.n THEN Ratio(a.sum + b.sum, a.n) ELSE Ratio(a.sum * b.n + b.sum * a.n, a.n * b.n)
Minus(a, b) == Ratio(a.sum * b.n - b.sum * a.n, a.n * b.n)
Same(a, b) == a.sum * b.n = b.sum * a.n
AtMost(a, b) == a.sum * b.n <= b.sum * a.n
Below(a, b) == a.sum * b.n < b.sum * a.n
Zero == Ratio(0, 1)

Get(f, x, default) == IF x \in DOMAIN f THEN f[x] ELSE default
Abs(x) == IF x < 0 THEN -x ELSE x
Or0(x) == IF x = None THEN 0 ELSE x

\* Two results are the same series.
SameSeries(f, g) == DOMAIN f = DOMAIN g /\ \A x \in DOMAIN f : Same(f[x], g[x])

SumOver(f, S) == MapThenSumSet(LAMBDA x : f[x], S)
\* The sum of the ratios f[x] of x in S.
RatioSum(f, S) ==
    MapThenFoldSet(Plus, Zero, LAMBDA x : f[x], LAMBDA T : CHOOSE x \in T : TRUE, S)
MeanOver(f, S) == Ratio(SumOver(f, S), Cardinality(S))

\* round: the nearest multiple of 1/g, a tie to the even one.
Round(r, g) ==
    LET twice == 2 * r.sum * g
        low == (twice + r.n) \div (2 * r.n)
        tie == (twice + r.n) % (2 * r.n) = 0
    IN  Ratio(IF tie /\ low % 2 = 1 THEN low - 1 ELSE low, g)

\* The x of S of rank k in an order (1 comes first); ties in any order.
Ranked(Less(_, _), S, k) ==
    CHOOSE x \in S : /\ Cardinality({y \in S : Less(y, x)}) < k
                     /\ Cardinality({y \in S : ~Less(x, y)}) >= k
NthSmallest(f, S, k) == f[Ranked(LAMBDA x, y : f[x] < f[y], S, k)]

\* (x - mean) / deviation of the values of f over S, kept as integers: z is
\* n*x - sum over the root of n*squares - sum^2.
ZScore(x, f, S) ==
    LET n == Cardinality(S)
        s == SumOver(f, S)
    IN  [num |-> n * x - s, var |-> n * MapThenSumSet(LAMBDA i : f[i] * f[i], S) - s * s]
\* z >= k, for a rational k > 0.
ZAtLeast(z, k) == z.num > 0 /\ z.num * z.num * k.n * k.n >= k.sum * k.sum * z.var
ZAbsAtLeast(z, k) == z.num * z.num * k.n * k.n >= k.sum * k.sum * z.var

DayOfHour(h) == h \div HoursPerDay
=============================================================================
