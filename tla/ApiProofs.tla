------------------------------ MODULE ApiProofs ------------------------------
(***************************************************************************)
(* Proofs about the public API.                                            *)
(*                                                                         *)
(* Metering and keys (ApiUsage): nothing recorded vanishes unaccounted, no *)
(* report bills too much, and how far overlapping requests pass the cap.   *)
(*                                                                         *)
(* Guards of the heavy queries (ApiGuard): slots, the age of what is       *)
(* served, the spacing of scans and the warm cache, for any threads, keys, *)
(* number of slots, life of a value and schedule of the job.               *)
(***************************************************************************)
EXTENDS ApiMC, FiniteSetTheorems, TLAPS

-----------------------------------------------------------------------------
(* Tallies and ledgers *)

\* A ledger entry is a pair of natural numbers.
LEMMA EntryType ==
    ASSUME NEW f \in Ledgers, NEW d \in Days, NEW k \in Ids
    PROVE  f[d][k] \in Tally
BY DEF Ledgers

\* Addition of tallies is typed, commutative, associative, and has Zero.
LEMMA PlusLaws ==
    ASSUME NEW a \in Tally, NEW b \in Tally, NEW c \in Tally
    PROVE  /\ Plus(a, b) \in Tally
           /\ Plus(a, b) = Plus(b, a)
           /\ Plus(Plus(a, b), c) = Plus(a, Plus(b, c))
           /\ Plus(a, Zero) = a
           /\ Zero \in Tally
BY DEF Plus, Tally, Zero

\* Merging adds entry by entry.
LEMMA MergedParts ==
    ASSUME NEW f \in Ledgers, NEW g \in Ledgers
    PROVE  /\ Merged(f, g) \in Ledgers
           /\ \A d \in Days, k \in Ids : Merged(f, g)[d][k] = Plus(f[d][k], g[d][k])
<1>1. \A d \in Days, k \in Ids : Plus(f[d][k], g[d][k]) \in Tally
  BY EntryType, PlusLaws
<1> QED
  BY <1>1 DEF Merged, Ledgers

\* Ledgers that agree on every entry are equal.
LEMMA LedgersEqual ==
    ASSUME NEW f \in Ledgers, NEW g \in Ledgers,
           \A d \in Days, k \in Ids : f[d][k] = g[d][k]
    PROVE  f = g
<1>1. \A d \in Days : f[d] \in [Ids -> Tally] /\ g[d] \in [Ids -> Tally]
  BY DEF Ledgers
<1>2. \A d \in Days : f[d] = g[d]
  BY <1>1
<1> QED
  BY <1>2 DEF Ledgers

\* The empty ledger.
LEMMA EmptyLedger == Empty \in Ledgers /\ \A d \in Days, k \in Ids : Empty[d][k] = Zero
BY DEF Empty, Ledgers, Zero, Tally

\* What merging keeps: the empty ledger is neutral, order does not matter.
LEMMA MergedLaws ==
    ASSUME NEW f \in Ledgers, NEW g \in Ledgers, NEW h \in Ledgers
    PROVE  /\ Merged(f, Empty) = f
           /\ Merged(f, g) = Merged(g, f)
           /\ Merged(Merged(f, g), h) = Merged(f, Merged(g, h))
<1> USE EmptyLedger, MergedParts, EntryType
<1>1. Merged(f, Empty) = f
  <2>1. \A d \in Days, k \in Ids : Merged(f, Empty)[d][k] = f[d][k]
    BY PlusLaws
  <2> QED
    BY <2>1, LedgersEqual
<1>2. Merged(f, g) = Merged(g, f)
  <2>1. \A d \in Days, k \in Ids : Merged(f, g)[d][k] = Merged(g, f)[d][k]
    BY PlusLaws
  <2> QED
    BY <2>1, LedgersEqual
<1>3. Merged(Merged(f, g), h) = Merged(f, Merged(g, h))
  <2>1. ASSUME NEW d \in Days, NEW k \in Ids
        PROVE  Merged(Merged(f, g), h)[d][k] = Merged(f, Merged(g, h))[d][k]
    <3>1. /\ Merged(Merged(f, g), h)[d][k] = Plus(Plus(f[d][k], g[d][k]), h[d][k])
          /\ Merged(f, Merged(g, h))[d][k] = Plus(f[d][k], Plus(g[d][k], h[d][k]))
      OBVIOUS
    <3>2. /\ f[d][k] \in Tally
          /\ g[d][k] \in Tally
          /\ h[d][k] \in Tally
      OBVIOUS
    <3> QED
      BY <3>1, <3>2, PlusLaws
  <2>2. Merged(Merged(f, g), h) \in Ledgers /\ Merged(f, Merged(g, h)) \in Ledgers
    OBVIOUS
  <2> QED
    BY <2>1, <2>2, LedgersEqual
<1> QED
  BY <1>1, <1>2, <1>3

-----------------------------------------------------------------------------
(* The books balance *)

Metered == {"stamp", "record", "serve"}

\* The types the accounts rest on; a metered request has a key, and between two
\* flushes nothing is drained.
BooksOK ==
    /\ usage \in Ledgers /\ counters \in Ledgers /\ drained \in Ledgers
    /\ recorded \in Ledgers /\ lost \in Ledgers
    /\ keys \in [Ids -> {"none", "active", "revoked"}]
    /\ day \in Days
    /\ pc \in [Threads -> {"idle", "mint", "stamp", "record", "serve", "today",
                      "tail"}]
    /\ arg \in [Threads -> Ids \cup {NoKey}]
    /\ amount \in [Threads -> Tally]
    /\ stamp \in [Threads -> Days]
    /\ \A t \in Threads : pc[t] \in Metered => arg[t] \in Ids
    /\ ~flushing => drained = Empty

\* A ledger with a tally added to one entry.
Added(f, d, k, a) == [f EXCEPT ![d][k] = Plus(@, a)]

\* Only that entry changes.
LEMMA AddedEntry ==
    ASSUME NEW f \in Ledgers, NEW d \in Days, NEW k \in Ids, NEW a \in Tally
    PROVE  /\ Added(f, d, k, a) \in Ledgers
           /\ \A e \in Days, j \in Ids :
                Added(f, d, k, a)[e][j] =
                    IF e = d /\ j = k THEN Plus(f[e][j], a) ELSE f[e][j]
<1>1. Plus(f[d][k], a) \in Tally
  BY EntryType, PlusLaws
<1>2. Added(f, d, k, a) \in Ledgers
  BY <1>1 DEF Ledgers, Added
<1>3. \A e \in Days, j \in Ids :
        Added(f, d, k, a)[e][j] = IF e = d /\ j = k THEN Plus(f[e][j], a) ELSE f[e][j]
  BY DEF Ledgers, Added
<1> QED
  BY <1>2, <1>3

\* What record does to the counters, and the history of what it was given.
LEMMA RecordAdds ==
    ASSUME BooksOK, NEW t \in Threads, Record(t)
    PROVE  /\ arg[t] \in Ids /\ stamp[t] \in Days /\ amount[t] \in Tally
           /\ counters' = Added(counters, stamp[t], arg[t], amount[t])
           /\ recorded' = Added(recorded, stamp[t], arg[t], amount[t])
           /\ counters' \in Ledgers /\ recorded' \in Ledgers
<1>1. arg[t] \in Ids /\ stamp[t] \in Days /\ amount[t] \in Tally
  BY DEF Record, BooksOK, Metered
<1>2. /\ counters' = Added(counters, stamp[t], arg[t], amount[t])
      /\ recorded' = Added(recorded, stamp[t], arg[t], amount[t])
  BY DEF Record, Added
<1> QED
  BY <1>1, <1>2, AddedEntry DEF BooksOK

\* There is a first day.
LEMMA DayOne == 1 \in Days
BY UsageAssumption DEF Days

\* Every action preserves BooksOK.
LEMMA BooksStep == BooksOK /\ [Next]_vars => BooksOK'
<1> SUFFICES ASSUME BooksOK, [Next]_vars PROVE BooksOK'
  OBVIOUS
<1> USE EmptyLedger, DayOne DEF BooksOK, Goto, Metered, flush, local, ghosts
<1>0. Zero \in Tally /\ [requests |-> 1, points |-> 0] \in Tally
      /\ [requests |-> 0, points |-> 1] \in Tally
  BY DEF Zero, Tally
<1>1. CASE Midnight
  <2>1. day + 1 \in Days
    BY <1>1, UsageAssumption DEF Midnight, Days
  <2> QED
    BY <1>1, <2>1 DEF Midnight
<1>2. ASSUME NEW t \in Threads, CountKeys(t) PROVE BooksOK'
  BY <1>2 DEF CountKeys
<1>3. ASSUME NEW t \in Threads, MintKey(t) PROVE BooksOK'
  BY <1>3 DEF MintKey
<1>4. ASSUME NEW t \in Threads, RevokeKey(t) PROVE BooksOK'
  BY <1>4 DEF RevokeKey
<1>5. ASSUME NEW t \in Threads, ResolveKey(t) PROVE BooksOK'
  BY <1>0, <1>5 DEF ResolveKey, Active
<1>6. ASSUME NEW t \in Threads, StampDay(t) PROVE BooksOK'
  BY <1>6 DEF StampDay
<1>7. ASSUME NEW t \in Threads, Record(t) PROVE BooksOK'
  <2>2. counters' \in Ledgers /\ recorded' \in Ledgers
    BY <1>7, RecordAdds
  <2> QED
    BY <1>0, <1>7, <2>2, SMTT(40) DEF Record, Ends, NoKey
<1>8. ASSUME NEW t \in Threads, Serve(t) PROVE BooksOK'
  BY <1>0, <1>8 DEF Serve, Ends, NoKey
<1>9. ASSUME NEW t \in Threads, ReadLedger(t) PROVE BooksOK'
  BY <1>9 DEF ReadLedger, Issued
<1>10. ASSUME NEW t \in Threads, ReadTail(t) PROVE BooksOK'
  BY <1>0, <1>10 DEF ReadTail, Ends, NoKey
<1>11. CASE FlushDrains
  BY <1>11 DEF FlushDrains
<1>16. ASSUME NEW t \in Threads, NameToday(t) PROVE BooksOK'
  BY <1>16 DEF NameToday
<1>12. CASE FlushCommits
  BY <1>12, MergedParts DEF FlushCommits
<1>13. CASE FlushFails
  BY <1>13, MergedParts DEF FlushFails
<1>14. CASE Restart
  BY <1>0, <1>14, MergedParts DEF Restart, NoKey
<1>15. CASE UNCHANGED vars
  BY <1>15 DEF vars
<1> QED
  BY <1>1, <1>2, <1>3, <1>4, <1>5, <1>6, <1>7, <1>8, <1>9, <1>10, <1>11, <1>12,
     <1>13, <1>14, <1>15, <1>16 DEF Next

\* A recorded tally enters both sides of the account.
LEMMA RecordBalances ==
    ASSUME BooksOK, EverythingAccounted, NEW t \in Threads, Record(t)
    PROVE  EverythingAccounted'
<1>1. arg[t] \in Ids /\ stamp[t] \in Days /\ amount[t] \in Tally
  BY RecordAdds
<1>2. /\ recorded' \in Ledgers /\ counters' \in Ledgers
      /\ \A d \in Days, k \in Ids :
           /\ recorded'[d][k] = IF d = stamp[t] /\ k = arg[t]
                                THEN Plus(recorded[d][k], amount[t]) ELSE recorded[d][k]
           /\ counters'[d][k] = IF d = stamp[t] /\ k = arg[t]
                                THEN Plus(counters[d][k], amount[t]) ELSE counters[d][k]
  BY RecordAdds, AddedEntry, SMTT(40) DEF BooksOK
<1> DEFINE before == Merged(usage, drained)
           after  == Merged(before, Merged(counters', lost))
<1>3. before \in Ledgers /\ after \in Ledgers /\ Merged(counters, lost) \in Ledgers
      /\ Merged(counters', lost) \in Ledgers
  BY <1>2, MergedParts DEF BooksOK
<1>4. ASSUME NEW d \in Days, NEW k \in Ids PROVE recorded'[d][k] = after[d][k]
  <2>1. after[d][k] = Plus(before[d][k], Plus(counters'[d][k], lost[d][k]))
    BY <1>2, <1>3, MergedParts DEF BooksOK
  <2>2. recorded[d][k] = Plus(before[d][k], Plus(counters[d][k], lost[d][k]))
    BY <1>3, MergedParts DEF BooksOK, EverythingAccounted
  <2>3. before[d][k] \in Tally /\ counters[d][k] \in Tally /\ lost[d][k] \in Tally
    BY <1>3, EntryType DEF BooksOK
  <2> HIDE DEF before, after
  <2>4. Plus(Plus(before[d][k], Plus(counters[d][k], lost[d][k])), amount[t]) =
        Plus(before[d][k], Plus(Plus(counters[d][k], amount[t]), lost[d][k]))
    BY <1>1, <2>3 DEF Plus, Tally
  <2> QED
    BY <1>2, <2>1, <2>2, <2>4
<1>5. recorded' = after
  BY <1>2, <1>3, <1>4, LedgersEqual
<1>6. usage' = usage /\ drained' = drained /\ lost' = lost
  BY DEF Record, flush
<1> QED
  BY <1>5, <1>6 DEF EverythingAccounted

\* Every action preserves the account.
LEMMA AccountStep == BooksOK /\ EverythingAccounted /\ [Next]_vars => EverythingAccounted'
<1> SUFFICES ASSUME BooksOK, EverythingAccounted, [Next]_vars
             PROVE  EverythingAccounted'
  OBVIOUS
<1> USE DEF BooksOK, EverythingAccounted
<1>1. CASE UNCHANGED <<usage, drained, counters, lost, recorded>>
  BY <1>1
<1>2. ASSUME NEW t \in Threads, Record(t) PROVE EverythingAccounted'
  BY <1>2, RecordBalances
<1>3. CASE FlushDrains
  <2>1. Merged(Merged(usage, Empty), Merged(counters, lost)) =
        Merged(Merged(usage, counters), Merged(Empty, lost))
    BY EmptyLedger, MergedLaws, MergedParts
  <2> QED
    BY <1>3, <2>1 DEF FlushDrains, ghosts
<1>4. CASE FlushCommits
  <2>1. Merged(Merged(usage, drained), Empty) = Merged(usage, drained)
    BY EmptyLedger, MergedLaws, MergedParts
  <2> QED
    BY <1>4, <2>1 DEF FlushCommits, ghosts
<1>5. CASE FlushFails
  <2>1. Merged(Merged(usage, drained), Merged(counters, lost)) =
        Merged(Merged(usage, Empty), Merged(counters, Merged(lost, drained)))
    <3>1. Merged(Merged(usage, drained), Merged(counters, lost)) =
          Merged(usage, Merged(drained, Merged(counters, lost)))
      BY MergedLaws, MergedParts
    <3>2. Merged(drained, Merged(counters, lost)) = Merged(Merged(counters, lost), drained)
      BY MergedLaws, MergedParts
    <3>3. Merged(Merged(counters, lost), drained) = Merged(counters, Merged(lost, drained))
      BY MergedLaws
    <3> QED
      BY <3>1, <3>2, <3>3, EmptyLedger, MergedLaws
  <2> QED
    BY <1>5, <2>1 DEF FlushFails
<1>6. CASE Restart
  <2>1. Merged(Merged(usage, drained), Merged(counters, lost)) =
        Merged(Merged(usage, Empty), Merged(Empty, Merged(lost, Merged(counters, drained))))
    <3>1. Merged(Merged(usage, drained), Merged(counters, lost)) =
          Merged(usage, Merged(drained, Merged(counters, lost)))
      BY MergedLaws, MergedParts
    <3>2. Merged(drained, Merged(counters, lost)) = Merged(Merged(drained, counters), lost)
      BY MergedLaws
    <3>3. Merged(Merged(drained, counters), lost) = Merged(lost, Merged(counters, drained))
      BY MergedLaws, MergedParts
    <3>4. Merged(Empty, Merged(lost, Merged(counters, drained))) =
          Merged(lost, Merged(counters, drained))
      BY EmptyLedger, MergedLaws, MergedParts
    <3> QED
      BY <3>1, <3>2, <3>3, <3>4, MergedLaws
  <2> QED
    BY <1>6, <2>1 DEF Restart
<1> QED
  BY <1>1, <1>2, <1>3, <1>4, <1>5, <1>6
  DEF Next, vars, ghosts, flush, Midnight, CountKeys, MintKey, RevokeKey,
      ResolveKey, StampDay, Serve, ReadLedger, NameToday, ReadTail

\* The first state of the books.
LEMMA BooksInit == Init => BooksOK /\ EverythingAccounted
<1> SUFFICES ASSUME Init PROVE BooksOK /\ EverythingAccounted
  OBVIOUS
<1>1. BooksOK
  BY EmptyLedger, DayOne DEF Init, BooksOK, Metered, NoKey, Zero, Tally
<1>2. Merged(Merged(Empty, Empty), Merged(Empty, Empty)) = Empty
  BY EmptyLedger, MergedLaws
<1> QED
  BY <1>1, <1>2 DEF Init, EverythingAccounted

\* Nothing recorded vanishes or is counted twice (EverythingAccounted), for any
\* number of threads, keys, requests and days, while flushes run and fail.
THEOREM UsageAccounted == Spec => []EverythingAccounted
<1> DEFINE J == BooksOK /\ EverythingAccounted
<1>1. Init => J
  BY BooksInit
<1>2. J /\ [Next]_vars => J'
  BY BooksStep, AccountStep
<1> QED
  BY <1>1, <1>2, PTL DEF Spec

-----------------------------------------------------------------------------
(* Usage reports *)

\* A report under way has a key, and the rows it read are still in the ledger,
\* which only grows; a report given is one of a key.
ReportsOK ==
    /\ rows \in [Threads -> [Days -> Tally]]
    /\ report \in [Threads -> Reports]
    /\ \A t \in Threads : pc[t] \in {"today", "tail"} =>
          /\ arg[t] \in Ids
          /\ \A d \in Days : AtMost(rows[t][d], usage[d][arg[t]])

\* The order of tallies: Zero is the least, adding goes up, and it is
\* transitive.
LEMMA AtMostLaws ==
    ASSUME NEW a \in Tally, NEW b \in Tally, NEW c \in Tally
    PROVE  /\ AtMost(a, a)
           /\ AtMost(a, Plus(a, b))
           /\ AtMost(a, Plus(b, a))
           /\ AtMost(a, b) /\ AtMost(b, c) => AtMost(a, c)
           /\ AtMost(a, b) => AtMost(Plus(a, c), Plus(b, c))
BY DEF AtMost, Plus, Tally

\* No step takes anything out of the ledger or out of what was recorded.
LEMMA LedgerGrows ==
    ASSUME BooksOK, [Next]_vars, NEW d \in Days, NEW k \in Ids
    PROVE  /\ AtMost(usage[d][k], usage'[d][k])
           /\ AtMost(recorded[d][k], recorded'[d][k])
<1>0. /\ usage[d][k] \in Tally /\ recorded[d][k] \in Tally
      /\ drained[d][k] \in Tally
  BY EntryType DEF BooksOK
<1>1. ASSUME usage' = usage, recorded' = recorded
      PROVE  /\ AtMost(usage[d][k], usage'[d][k])
             /\ AtMost(recorded[d][k], recorded'[d][k])
  BY <1>0, <1>1, AtMostLaws
<1>2. ASSUME NEW t \in Threads, Record(t)
      PROVE  /\ AtMost(usage[d][k], usage'[d][k])
             /\ AtMost(recorded[d][k], recorded'[d][k])
  <2>1. amount[t] \in Tally /\ usage' = usage
    BY <1>2, RecordAdds DEF Record
  <2>2. \/ recorded'[d][k] = recorded[d][k]
        \/ recorded'[d][k] = Plus(recorded[d][k], amount[t])
    BY <1>2, RecordAdds, AddedEntry, SMTT(40) DEF BooksOK
  <2> QED
    BY <1>0, <2>1, <2>2, AtMostLaws
<1>3. ASSUME FlushCommits
      PROVE  /\ AtMost(usage[d][k], usage'[d][k])
             /\ AtMost(recorded[d][k], recorded'[d][k])
  <2>1. usage'[d][k] = Plus(usage[d][k], drained[d][k]) /\ recorded' = recorded
    BY <1>3, MergedParts DEF FlushCommits, ghosts, BooksOK
  <2> QED
    BY <1>0, <2>1, AtMostLaws
<1> QED
  BY <1>1, <1>2, <1>3
  DEF Next, vars, ghosts, Midnight, CountKeys, MintKey, RevokeKey, ResolveKey,
      StampDay, Serve, ReadLedger, NameToday, ReadTail, FlushDrains, FlushFails,
      Restart

\* The ledger and the memory of a day together hold at most what was recorded.
LEMMA PartsRecorded ==
    ASSUME BooksOK, EverythingAccounted, NEW d \in Days, NEW k \in Ids
    PROVE  /\ AtMost(Plus(usage[d][k], counters[d][k]), recorded[d][k])
           /\ AtMost(usage[d][k], recorded[d][k])
<1>1. /\ usage[d][k] \in Tally /\ drained[d][k] \in Tally
      /\ counters[d][k] \in Tally /\ lost[d][k] \in Tally
  BY EntryType DEF BooksOK
<1>2. recorded[d][k] = Plus(Plus(usage[d][k], drained[d][k]),
                            Plus(counters[d][k], lost[d][k]))
  <2>1. Merged(usage, drained) \in Ledgers /\ Merged(counters, lost) \in Ledgers
    BY MergedParts DEF BooksOK
  <2> QED
    BY <2>1, MergedParts DEF BooksOK, EverythingAccounted
<1> QED
  BY <1>1, <1>2 DEF AtMost, Plus, Tally

\* The rows of a key, and an empty report.
LEMMA ReportParts ==
    /\ NoRows \in [Days -> Tally]
    /\ \A f \in Ledgers, k \in Ids :
          RowsOf(f, k) \in [Days -> Tally] /\ \A d \in Days : RowsOf(f, k)[d] = f[d][k]
    /\ \A f \in Ledgers, k \in Ids :
          [NoReport EXCEPT !.before = RowsOf(f, k)] \in Reports
<1>1. NoRows \in [Days -> Tally] /\ Zero \in Tally
  BY DEF NoRows, Zero, Tally
<1>2. \A f \in Ledgers, k \in Ids :
        RowsOf(f, k) \in [Days -> Tally] /\ \A d \in Days : RowsOf(f, k)[d] = f[d][k]
  BY EntryType DEF RowsOf
<1> QED
  BY <1>1, <1>2, DayOne DEF NoReport, Reports

\* A step that gives no report and reads no rows leaves those under way right.
LEMMA ReportsStay ==
    ASSUME BooksOK, ReportsOK, [Next]_vars, UNCHANGED <<rows, report>>,
           \A t \in Threads : pc'[t] \in {"today", "tail"} =>
               pc[t] \in {"today", "tail"} /\ arg'[t] = arg[t]
    PROVE  ReportsOK'
<1> SUFFICES ASSUME NEW t \in Threads, pc'[t] \in {"today", "tail"},
                    NEW d \in Days
             PROVE  arg'[t] \in Ids /\ AtMost(rows'[t][d], usage'[d][arg'[t]])
  BY DEF ReportsOK
<1>1. /\ arg'[t] = arg[t] /\ arg[t] \in Ids /\ rows'[t] = rows[t]
      /\ AtMost(rows[t][d], usage[d][arg[t]])
  BY DEF ReportsOK
<1>2. /\ rows[t][d] \in Tally /\ usage[d][arg[t]] \in Tally
      /\ usage'[d][arg[t]] \in Tally
  BY <1>1, BooksStep, EntryType DEF ReportsOK, BooksOK
<1> QED
  BY <1>1, <1>2, LedgerGrows, AtMostLaws

\* Every action preserves ReportsOK.
LEMMA ReportsStep == BooksOK /\ ReportsOK /\ [Next]_vars => ReportsOK'
<1> SUFFICES ASSUME BooksOK, ReportsOK, [Next]_vars PROVE ReportsOK'
  OBVIOUS
<1>1. ASSUME UNCHANGED <<rows, report, pc, arg>> PROVE ReportsOK'
  BY <1>1, ReportsStay
<1>2. ASSUME NEW t \in Threads, UNCHANGED <<rows, report>>,
             \E l \in {"idle", "mint", "stamp", "record", "serve"} : Goto(t, l),
             \A u \in Threads : u # t => arg'[u] = arg[u]
      PROVE  ReportsOK'
  BY <1>2, ReportsStay DEF Goto, BooksOK
<1>3. ASSUME NEW t \in Threads, Ends(t),
             \A u \in Threads : u # t => report'[u] = report[u],
             report' \in [Threads -> Reports]
      PROVE  ReportsOK'
  <2>1. rows' \in [Threads -> [Days -> Tally]]
    BY <1>3, ReportParts DEF Ends, ReportsOK
  <2>2. ASSUME NEW u \in Threads, pc'[u] \in {"today", "tail"}, NEW d \in Days
        PROVE  arg'[u] \in Ids /\ AtMost(rows'[u][d], usage'[d][arg'[u]])
    <3>1. u # t
      BY <1>3, <2>2 DEF Ends, Goto, BooksOK
    <3>2. pc'[u] = pc[u] /\ arg'[u] = arg[u] /\ rows'[u] = rows[u]
      BY <1>3, <3>1 DEF Ends, Goto, BooksOK, ReportsOK
    <3>3. arg[u] \in Ids /\ AtMost(rows[u][d], usage[d][arg[u]])
      BY <2>2, <3>2 DEF ReportsOK
    <3>4. /\ rows[u][d] \in Tally /\ usage[d][arg[u]] \in Tally
          /\ usage'[d][arg[u]] \in Tally
      BY <3>3, BooksStep, EntryType DEF ReportsOK, BooksOK
    <3> QED
      BY <3>2, <3>3, <3>4, LedgerGrows, AtMostLaws
  <2> QED
    BY <1>3, <2>1, <2>2, DayOne DEF ReportsOK
<1>4. ASSUME NEW t \in Threads,
             CountKeys(t) \/ MintKey(t) \/ RevokeKey(t) \/ ResolveKey(t) \/ StampDay(t)
      PROVE  ReportsOK'
  BY <1>1, <1>2, <1>4
  DEF CountKeys, MintKey, RevokeKey, ResolveKey, StampDay, local, BooksOK
<1>5. ASSUME NEW t \in Threads, Record(t) \/ Serve(t) PROVE ReportsOK'
  <2>1. report' = report
    BY <1>5 DEF Record, Serve
  <2>2. \/ Ends(t)
        \/ /\ Goto(t, "serve") \/ Goto(t, "stamp")
           /\ UNCHANGED <<arg, rows>>
    BY <1>5 DEF Record, Serve
  <2> QED
    BY <1>2, <1>3, <2>1, <2>2 DEF ReportsOK
<1>6. ASSUME NEW t \in Threads, ReadLedger(t) PROVE ReportsOK'
  <2>1. PICK k \in Issued :
           /\ arg' = [arg EXCEPT ![t] = k]
           /\ rows' = [rows EXCEPT ![t] = RowsOf(usage, k)]
           /\ report' = [report EXCEPT ![t] =
                [NoReport EXCEPT !.before = RowsOf(recorded, k)]]
    BY <1>6 DEF ReadLedger
  <2>2. k \in Ids /\ pc' = [pc EXCEPT ![t] = "today"] /\ usage' = usage
    BY <1>6 DEF ReadLedger, Goto, Issued
  <2>3. rows' \in [Threads -> [Days -> Tally]] /\ report' \in [Threads -> Reports]
    BY <2>1, <2>2, ReportParts DEF ReportsOK, BooksOK
  <2>4. ASSUME NEW u \in Threads, pc'[u] \in {"today", "tail"}, NEW d \in Days
        PROVE  arg'[u] \in Ids /\ AtMost(rows'[u][d], usage'[d][arg'[u]])
    <3>1. CASE u = t
      <4>1. arg'[u] = k /\ rows'[u][d] = usage[d][k] /\ usage[d][k] \in Tally
        BY <2>1, <2>2, <3>1, ReportParts, EntryType DEF BooksOK, ReportsOK
      <4> QED
        BY <2>2, <4>1, AtMostLaws
    <3>2. CASE u # t
      BY <2>1, <2>2, <2>4, <3>2 DEF ReportsOK, BooksOK
    <3> QED
      BY <3>1, <3>2
  <2> QED
    BY <2>3, <2>4, DayOne DEF ReportsOK
<1>7. ASSUME NEW t \in Threads, NameToday(t) PROVE ReportsOK'
  BY <1>7, ReportsStay DEF NameToday, Goto, BooksOK
<1>8. ASSUME NEW t \in Threads, ReadTail(t) PROVE ReportsOK'
  <2>1. arg[t] \in Ids /\ rows[t] \in [Days -> Tally] /\ report[t] \in Reports
    BY <1>8 DEF ReadTail, ReportsOK
  <2>2. /\ counters[day][arg[t]] \in Tally /\ day \in Days /\ stamp[t] \in Days
    BY <2>1, EntryType DEF BooksOK
  <2>3. [key |-> arg[t], rows |-> rows[t], tail |-> counters[day][arg[t]],
         counted |-> day, named |-> stamp[t], before |-> report[t].before] \in Reports
    BY <2>1, <2>2 DEF Reports
  <2>4. /\ report' \in [Threads -> Reports]
        /\ \A u \in Threads : u # t => report'[u] = report[u]
    BY <1>8, <2>3 DEF ReadTail, ReportsOK
  <2> QED
    BY <1>3, <1>8, <2>4 DEF ReadTail
<1>9. CASE Restart
  BY <1>9, ReportParts DEF Restart, ReportsOK
<1> QED
  BY <1>1, <1>4, <1>5, <1>6, <1>7, <1>8, <1>9
  DEF Next, vars, local, Midnight, FlushDrains, FlushCommits, FlushFails

\* A report is right when it is given, and what was recorded only grows.
LEMMA NotOverStep ==
    BooksOK /\ EverythingAccounted /\ ReportsOK /\ ReportNotOver /\ [Next]_vars
        => ReportNotOver'
<1> SUFFICES ASSUME BooksOK, EverythingAccounted, ReportsOK, ReportNotOver, [Next]_vars,
                    NEW u \in Threads, report'[u].key # NoKey, NEW d \in Days
             PROVE  AtMost(IF d = report'[u].counted
                           THEN Plus(report'[u].rows[d], report'[u].tail)
                           ELSE report'[u].rows[d],
                           recorded'[d][report'[u].key])
  BY DEF ReportNotOver
<1>1. CASE report'[u] = report[u]
  <2> DEFINE r == report[u]
             shown == IF d = r.counted THEN Plus(r.rows[d], r.tail) ELSE r.rows[d]
  <2>1. r \in Reports /\ r.key \in Ids
    BY <1>1 DEF ReportsOK, Reports
  <2>2. shown \in Tally
    BY <2>1, PlusLaws DEF Reports
  <2>3. AtMost(shown, recorded[d][r.key])
    BY <1>1 DEF ReportNotOver
  <2>4. recorded[d][r.key] \in Tally /\ recorded'[d][r.key] \in Tally
    BY <2>1, BooksStep, EntryType DEF BooksOK
  <2>5. AtMost(recorded[d][r.key], recorded'[d][r.key])
    BY <2>1, LedgerGrows
  <2>6. AtMost(shown, recorded'[d][r.key])
    BY <2>2, <2>3, <2>4, <2>5, AtMostLaws
  <2> QED
    BY <1>1, <2>6
<1>2. ASSUME ReadTail(u)
      PROVE  AtMost(IF d = report'[u].counted
                    THEN Plus(report'[u].rows[d], report'[u].tail)
                    ELSE report'[u].rows[d],
                    recorded'[d][report'[u].key])
  <2>1. /\ report'[u].key = arg[u] /\ report'[u].rows = rows[u]
        /\ report'[u].tail = counters[day][arg[u]] /\ report'[u].counted = day
        /\ recorded' = recorded
    BY <1>2 DEF ReadTail, ReportsOK, ghosts
  <2>2. arg[u] \in Ids /\ AtMost(rows[u][d], usage[d][arg[u]])
    BY <1>2 DEF ReadTail, ReportsOK
  <2>3. /\ rows[u][d] \in Tally /\ usage[d][arg[u]] \in Tally
        /\ counters[d][arg[u]] \in Tally /\ recorded[d][arg[u]] \in Tally
    BY <2>2, EntryType DEF BooksOK, ReportsOK
  <2>4. /\ AtMost(Plus(usage[d][arg[u]], counters[d][arg[u]]), recorded[d][arg[u]])
        /\ AtMost(usage[d][arg[u]], recorded[d][arg[u]])
    BY <2>2, PartsRecorded
  <2>5. AtMost(rows[u][d], recorded[d][arg[u]])
    BY <2>2, <2>3, <2>4, AtMostLaws
  <2>6. AtMost(Plus(rows[u][d], counters[d][arg[u]]), recorded[d][arg[u]])
    BY <2>2, <2>3, <2>4 DEF AtMost, Plus, Tally
  <2> QED
    BY <2>1, <2>5, <2>6
<1>3. ASSUME NEW t \in Threads, ReadLedger(t) PROVE report'[u] = report[u]
  <2>1. CASE u = t
    <3>1. report'[u].key = NoKey
      BY <1>3, <2>1 DEF ReadLedger, ReportsOK, NoReport
    <3> QED
      BY <3>1
  <2> QED
    BY <1>3, <2>1 DEF ReadLedger, ReportsOK
<1>4. ASSUME NEW t \in Threads, ReadTail(t), t # u PROVE report'[u] = report[u]
  BY <1>4 DEF ReadTail, ReportsOK
<1> QED
  BY <1>1, <1>2, <1>3, <1>4
  DEF Next, vars, Midnight, CountKeys, MintKey, RevokeKey, ResolveKey, StampDay,
      Record, Serve, NameToday, FlushDrains, FlushCommits, FlushFails, Restart

\* A usage report never bills more than was recorded, on any day (ReportNotOver),
\* for any number of threads, keys, requests and days, while flushes drain,
\* commit and fail between its two reads.
THEOREM ReportsNotOver == Spec => []ReportNotOver
<1> DEFINE J == BooksOK /\ EverythingAccounted /\ ReportsOK /\ ReportNotOver
<1>1. Init => J
  <2> SUFFICES ASSUME Init PROVE J
    OBVIOUS
  <2>1. BooksOK /\ EverythingAccounted
    BY BooksInit
  <2>2. NoReport \in Reports
    BY ReportParts, DayOne DEF NoReport, Reports, Zero, Tally
  <2>3. ReportsOK
    BY <2>2, ReportParts DEF Init, ReportsOK
  <2>4. ReportNotOver
    BY DEF Init, ReportNotOver, NoReport
  <2> QED
    BY <2>1, <2>3, <2>4
<1>2. J /\ [Next]_vars => J'
  BY BooksStep, AccountStep, ReportsStep, NotOverStep
<1> QED
  BY <1>1, <1>2, PTL DEF Spec

-----------------------------------------------------------------------------
(* The cap on active keys *)

\* The sets that KeyCap counts are finite.
LEMMA CapFinite ==
    /\ IsFiniteSet(Active) /\ IsFiniteSet(Minting)
    /\ Cardinality(Active) \in Nat /\ Cardinality(Minting) \in Nat
    /\ Cardinality(Threads) \in Nat
    /\ Cardinality(Minting) <= Cardinality(Threads)
<1>1. IsFiniteSet(Ids)
  BY FS_Interval, UsageAssumption DEF Ids
<1>2. Active \in SUBSET Ids /\ Minting \in SUBSET Threads
  BY DEF Active, Minting
<1> QED
  BY <1>1, <1>2, FS_Subset, FS_CardinalityType, UsageAssumption

\* Threads about to mint and active keys together: the second part of KeyCap.
RaceBound ==
    Cardinality(Active) + Cardinality(Minting)
        <= MAX_ACTIVE_KEYS + Cardinality(Threads) - 1

\* Every action preserves the bound: counting needs a free place, minting trades
\* a thread for a key.
LEMMA RaceStep == BooksOK /\ RaceBound /\ [Next]_vars => RaceBound'
<1> SUFFICES ASSUME BooksOK, RaceBound, [Next]_vars PROVE RaceBound'
  OBVIOUS
<1>0. /\ IsFiniteSet(Active) /\ IsFiniteSet(Minting)
      /\ Cardinality(Active) \in Nat /\ Cardinality(Minting) \in Nat
      /\ Cardinality(Threads) \in Nat /\ MAX_ACTIVE_KEYS \in Nat
  BY CapFinite, UsageAssumption
<1>1. ASSUME Active' \in SUBSET Active, Minting' \in SUBSET Minting PROVE RaceBound'
  <2>1. /\ Cardinality(Active') <= Cardinality(Active)
        /\ Cardinality(Minting') <= Cardinality(Minting)
        /\ Cardinality(Active') \in Nat /\ Cardinality(Minting') \in Nat
    BY <1>0, <1>1, FS_Subset, FS_CardinalityType
  <2> QED
    BY <1>0, <2>1 DEF RaceBound
<1>2. ASSUME NEW t \in Threads, CountKeys(t) PROVE RaceBound'
  <2>1. Active' = Active
    BY <1>2 DEF CountKeys, Active
  <2>2. Cardinality(Active) < MAX_ACTIVE_KEYS
    BY <1>2 DEF CountKeys, BelowCap
  <2>3. Minting' \in SUBSET Threads
    BY DEF Minting
  <2>4. Cardinality(Minting') <= Cardinality(Threads) /\ Cardinality(Minting') \in Nat
    BY <2>3, FS_Subset, FS_CardinalityType, UsageAssumption
  <2> QED
    BY <1>0, <2>1, <2>2, <2>4 DEF RaceBound
<1>3. ASSUME NEW t \in Threads, MintKey(t) PROVE RaceBound'
  <2> DEFINE n == Cardinality(Issued) + 1
  <2>1. Active' \in SUBSET (Active \cup {n})
    BY <1>3 DEF MintKey, Active, BooksOK
  <2>2. Minting' = Minting \ {t} /\ t \in Minting
    BY <1>3 DEF MintKey, Goto, Minting, BooksOK
  <2>3. /\ IsFiniteSet(Active \cup {n})
        /\ Cardinality(Active \cup {n}) <= Cardinality(Active) + 1
        /\ Cardinality(Active \cup {n}) \in Nat
    <3>1. /\ IsFiniteSet(Active \cup {n})
          /\ Cardinality(Active \cup {n}) =
               IF n \in Active THEN Cardinality(Active) ELSE Cardinality(Active) + 1
      BY <1>0, FS_AddElement
    <3> QED
      BY <1>0, <3>1
  <2>4. Cardinality(Active') <= Cardinality(Active \cup {n}) /\ Cardinality(Active') \in Nat
    BY <2>1, <2>3, FS_Subset, FS_CardinalityType
  <2>5. Cardinality(Minting') = Cardinality(Minting) - 1
    BY <1>0, <2>2, FS_RemoveElement
  <2> QED
    BY <1>0, <2>3, <2>4, <2>5 DEF RaceBound
<1>4. ASSUME NEW t \in Threads, RevokeKey(t) PROVE RaceBound'
  <2>1. Active' \in SUBSET Active
    BY <1>4 DEF RevokeKey, Active, BooksOK
  <2>2. Minting' = Minting
    BY <1>4 DEF RevokeKey, Minting, local
  <2> QED
    BY <1>1, <2>1, <2>2
<1>5. ASSUME UNCHANGED <<keys, pc>> PROVE RaceBound'
  <2>1. Active' = Active /\ Minting' = Minting
    BY <1>5 DEF Active, Minting
  <2> QED
    BY <1>1, <2>1
<1>6. ASSUME NEW t \in Threads,
             NEW l \in {"idle", "stamp", "record", "serve", "today", "tail"},
             Goto(t, l), UNCHANGED keys
      PROVE  RaceBound'
  <2>1. Active' = Active
    BY <1>6 DEF Active
  <2>2. Minting' \in SUBSET Minting
    BY <1>6 DEF Goto, Minting, BooksOK
  <2> QED
    BY <1>1, <2>1, <2>2
<1>7. ASSUME NEW t \in Threads,
             ResolveKey(t) \/ StampDay(t) \/ Record(t) \/ Serve(t)
             \/ ReadLedger(t) \/ NameToday(t) \/ ReadTail(t)
      PROVE  RaceBound'
  <2>1. UNCHANGED keys
    BY <1>7 DEF ResolveKey, StampDay, Record, Serve, ReadLedger, NameToday, ReadTail
  <2>2. \E l \in {"idle", "stamp", "record", "serve", "today", "tail"} : Goto(t, l)
    BY <1>7 DEF ResolveKey, StampDay, Record, Serve, ReadLedger, NameToday, ReadTail,
           Ends
  <2> QED
    BY <1>6, <2>1, <2>2
<1>8. CASE Restart
  <2>1. Active' = Active /\ Minting' = {}
    BY <1>8 DEF Restart, Active, Minting
  <2> QED
    BY <1>1, <2>1
<1> QED
  BY <1>2, <1>3, <1>4, <1>5, <1>7, <1>8
  DEF Next, vars, local, Midnight, FlushDrains, FlushCommits, FlushFails

\* A request whose count no mint has outdated still sees a free place.
CountsHold == \A t \in Minting \ overtaken : Cardinality(Active) < MAX_ACTIVE_KEYS
CapInv == RaceBound /\ CountsHold /\ Cardinality(Active \ late) <= MAX_ACTIVE_KEYS

\* A step that mints nothing and lets no further request mint.
LEMMA CapQuiet ==
    ASSUME CountsHold, Cardinality(Active \ late) <= MAX_ACTIVE_KEYS, Active' \subseteq Active,
           late' = late, Minting' \ overtaken' \subseteq Minting \ overtaken
    PROVE  CountsHold' /\ Cardinality(Active' \ late') <= MAX_ACTIVE_KEYS
<1>1. /\ IsFiniteSet(Active) /\ Cardinality(Active) \in Nat /\ MAX_ACTIVE_KEYS \in Nat
      /\ IsFiniteSet(Active \ late)
  BY CapFinite, FS_Difference, UsageAssumption
<1>2. Cardinality(Active') \in Nat /\ Cardinality(Active') <= Cardinality(Active)
  BY <1>1, FS_Subset, FS_CardinalityType
<1>3. Active' \ late' \in SUBSET (Active \ late)
  OBVIOUS
<1>4. /\ Cardinality(Active' \ late') <= Cardinality(Active \ late)
      /\ Cardinality(Active' \ late') \in Nat /\ Cardinality(Active \ late) \in Nat
  BY <1>1, <1>3, FS_Subset, FS_CardinalityType
<1> QED
  BY <1>1, <1>2, <1>4 DEF CountsHold

\* Only keys minted on an outdated count come on top of the cap.
LEMMA CapStep == BooksOK /\ CapInv /\ [Next]_vars => CapInv'
<1> SUFFICES ASSUME BooksOK, CapInv, [Next]_vars PROVE CapInv'
  OBVIOUS
<1>0. /\ IsFiniteSet(Active) /\ Cardinality(Active) \in Nat /\ MAX_ACTIVE_KEYS \in Nat
      /\ pc \in [Threads -> {"idle", "mint", "stamp", "record", "serve", "today", "tail"}]
      /\ keys \in [Ids -> {"none", "active", "revoked"}]
      /\ CountsHold /\ Cardinality(Active \ late) <= MAX_ACTIVE_KEYS
  BY CapFinite, UsageAssumption DEF CapInv, BooksOK
<1> DEFINE Capped == CountsHold /\ Cardinality(Active \ late) <= MAX_ACTIVE_KEYS
<1>1. ASSUME NEW t \in Threads, CountKeys(t) PROVE Capped'
  <2>1. Active' = Active /\ late' = late /\ Cardinality(Active) < MAX_ACTIVE_KEYS
    BY <1>1 DEF CountKeys, Active, BelowCap
  <2> QED
    BY <1>0, <2>1 DEF CountsHold
<1>2. ASSUME NEW t \in Threads, MintKey(t) PROVE Capped'
  <2> DEFINE n == Cardinality(Issued) + 1
  <2>1. Active' \subseteq Active \cup {n} /\ Minting' \ overtaken' = {} /\ t \in Minting
    BY <1>0, <1>2 DEF MintKey, Goto, Active, Minting
  <2>2. late' = IF t \in overtaken THEN late \cup {n} ELSE late
    BY <1>2 DEF MintKey
  <2> HIDE DEF n
  <2>3. CASE t \in overtaken
    <3>1. Active' \ late' \in SUBSET (Active \ late) /\ IsFiniteSet(Active \ late)
      BY <1>0, <2>1, <2>2, <2>3, FS_Difference
    <3>2. /\ Cardinality(Active' \ late') <= Cardinality(Active \ late)
          /\ Cardinality(Active' \ late') \in Nat /\ Cardinality(Active \ late) \in Nat
      BY <3>1, FS_Subset, FS_CardinalityType
    <3> QED
      BY <1>0, <2>1, <3>2 DEF CountsHold
  <2>4. CASE t \notin overtaken
    <3>1. Cardinality(Active) < MAX_ACTIVE_KEYS
      BY <1>0, <2>1, <2>4 DEF CountsHold
    <3>2. /\ IsFiniteSet(Active \cup {n})
          /\ Cardinality(Active \cup {n}) \in {Cardinality(Active), Cardinality(Active) + 1}
      BY <1>0, FS_AddElement
    <3>3. Active' \ late' \in SUBSET (Active \cup {n})
      BY <2>1
    <3>4. /\ Cardinality(Active' \ late') <= Cardinality(Active \cup {n})
          /\ Cardinality(Active' \ late') \in Nat /\ Cardinality(Active \cup {n}) \in Nat
      BY <3>2, <3>3, FS_Subset, FS_CardinalityType
    <3> QED
      BY <1>0, <2>1, <3>1, <3>2, <3>4 DEF CountsHold
  <2> QED
    BY <2>3, <2>4
<1>3. ASSUME NEW t \in Threads, RevokeKey(t) PROVE Capped'
  <2>1. Active' \subseteq Active /\ UNCHANGED <<late, overtaken, pc>>
    BY <1>0, <1>3 DEF RevokeKey, Active, local, ghosts
  <2> QED
    BY <1>0, <2>1, CapQuiet DEF Minting
<1>4. ASSUME UNCHANGED <<keys, pc, overtaken, late>> PROVE Capped'
  BY <1>0, <1>4, CapQuiet DEF Active, Minting
<1>5. ASSUME NEW t \in Threads,
             ResolveKey(t) \/ StampDay(t) \/ Record(t) \/ Serve(t)
             \/ ReadLedger(t) \/ NameToday(t) \/ ReadTail(t)
      PROVE  Capped'
  <2>1. UNCHANGED <<keys, overtaken, late>>
    BY <1>5 DEF ResolveKey, StampDay, Record, Serve, ReadLedger, NameToday, ReadTail, ghosts
  <2>2. \E l \in {"idle", "stamp", "record", "serve", "today", "tail"} : Goto(t, l)
    BY <1>5 DEF ResolveKey, StampDay, Record, Serve, ReadLedger, NameToday, ReadTail, Ends
  <2>3. Active' = Active /\ Minting' \subseteq Minting
    BY <1>0, <2>1, <2>2 DEF Goto, Minting, Active
  <2> QED
    BY <1>0, <2>1, <2>3, CapQuiet
<1>6. ASSUME Restart PROVE Capped'
  <2>1. Active' = Active /\ Minting' = {} /\ late' = late
    BY <1>6 DEF Restart, Active, Minting
  <2> QED
    BY <1>0, <2>1, CapQuiet
<1>7. Capped'
  BY <1>1, <1>2, <1>3, <1>4, <1>5, <1>6
  DEF Next, vars, local, ghosts, Midnight, FlushDrains, FlushCommits, FlushFails
<1> QED
  BY <1>7, RaceStep DEF CapInv

\* create_key counts and inserts in two statements: in every behaviour of any number
\* of threads, revocations and restarts the cap on active keys holds but for keys
\* minted on a count another INSERT had outdated, and it is passed by fewer keys than
\* there are threads; one thread alone keeps it.
THEOREM KeysBounded == Spec => []KeyCap
<1>1. Init => BooksOK /\ CapInv
  <2> SUFFICES ASSUME Init PROVE BooksOK /\ CapInv
    OBVIOUS
  <2>1. BooksOK
    BY BooksInit
  <2>2. Active = {} /\ Minting = {} /\ (Active \ late = {})
    BY DEF Init, Active, Minting
  <2>3. Cardinality(Threads) \in Nat /\ Cardinality(Threads) # 0
    BY FS_CardinalityType, FS_EmptySet, UsageAssumption
  <2>4. CapInv
    <3>1. Cardinality(Active) = 0 /\ Cardinality(Minting) = 0 /\ Cardinality(Active \ late) = 0
      BY <2>2, FS_EmptySet
    <3>2. RaceBound
      BY <2>3, <3>1, UsageAssumption DEF RaceBound
    <3> QED
      BY <2>2, <3>1, <3>2, UsageAssumption DEF CapInv, CountsHold
  <2> QED
    BY <2>1, <2>4
<1>2. BooksOK /\ CapInv /\ [Next]_vars => (BooksOK /\ CapInv)'
  BY BooksStep, CapStep
<1>3. CapInv => KeyCap
  BY DEF CapInv, RaceBound, KeyCap
<1> QED
  BY <1>1, <1>2, <1>3, PTL DEF Spec

-----------------------------------------------------------------------------
(* The heavy-query slots *)

InFlight == {t \in Serving : place[t] # "idle"}
Slots ==
    /\ place \in [Serving -> {"idle", "fast", "wait", "recheck", "scan", "store"}]
    /\ free \in 0 .. HEAVY_QUERY_SLOTS
    /\ IsFiniteSet(InFlight)
    /\ free + Cardinality(InFlight) = HEAVY_QUERY_SLOTS

\* A thread that is in a request and leaves it gives its slot back.
LEMMA SlotReturned ==
    ASSUME GuardAssumption, Slots, NEW t \in Serving, place[t] # "idle",
           place' = [place EXCEPT ![t] = "idle"], free' = free + 1
    PROVE  Slots'
<1>1. InFlight' = InFlight \ {t} /\ t \in InFlight
  BY DEF InFlight, Slots
<1>2. IsFiniteSet(InFlight') /\ Cardinality(InFlight') = Cardinality(InFlight) - 1
  BY <1>1, FS_RemoveElement DEF Slots
<1>3. Cardinality(InFlight') \in Nat /\ Cardinality(InFlight) \in Nat
  BY <1>2, FS_CardinalityType DEF Slots
<1> QED
  BY <1>2, <1>3 DEF Slots, GuardAssumption

\* A thread that goes on keeps it.
LEMMA SlotKept ==
    ASSUME Slots, NEW t \in Serving, place[t] # "idle",
           NEW l \in {"fast", "wait", "recheck", "scan", "store"},
           place' = [place EXCEPT ![t] = l], free' = free
    PROVE  Slots'
<1>1. InFlight' = InFlight
  BY DEF InFlight, Slots
<1> QED
  BY <1>1 DEF Slots

\* Every action keeps the count.
LEMMA SlotsStep == GuardAssumption /\ Slots /\ [GuardNext]_guardVars => Slots'
<1> SUFFICES ASSUME GuardAssumption, Slots, [GuardNext]_guardVars PROVE Slots'
  OBVIOUS
<1>1. ASSUME NEW t \in Serving, Request(t) PROVE Slots'
  <2>1. /\ place[t] = "idle" /\ place' = [place EXCEPT ![t] = "fast"] /\ free > 0 /\ free' = free - 1
    BY <1>1 DEF Request, GoesTo
  <2>2. InFlight' = InFlight \cup {t} /\ t \notin InFlight
    BY <2>1 DEF InFlight, Slots
  <2>3. IsFiniteSet(InFlight') /\ Cardinality(InFlight') = Cardinality(InFlight) + 1
    BY <2>2, FS_AddElement DEF Slots
  <2>4. Cardinality(InFlight) \in Nat
    BY FS_CardinalityType DEF Slots
  <2> QED
    BY <2>1, <2>3, <2>4 DEF Slots, GuardAssumption
<1>2. ASSUME NEW t \in Serving, Fast(t) PROVE Slots'
  BY <1>2, SlotReturned, SlotKept DEF Fast, Returns, Leaves, GoesTo
<1>3. ASSUME NEW t \in Serving, TakeLock(t) PROVE Slots'
  BY <1>3, SlotKept DEF TakeLock, GoesTo
<1>4. ASSUME NEW t \in Serving, Recheck(t) PROVE Slots'
  BY <1>4, SlotReturned, SlotKept DEF Recheck, Returns, Leaves, GoesTo
<1>5. ASSUME NEW t \in Serving, Scan(t) PROVE Slots'
  BY <1>5, SlotKept DEF Scan, GoesTo
<1>6. ASSUME NEW t \in Serving, ScanRaises(t) PROVE Slots'
  BY <1>6, SlotReturned DEF ScanRaises, Leaves, GoesTo
<1>7. ASSUME NEW t \in Serving, Store(t) PROVE Slots'
  BY <1>7, SlotReturned DEF Store, Returns, Leaves, GoesTo
<1>8. CASE UNCHANGED <<place, free>>
  BY <1>8 DEF Slots, InFlight
<1> QED
  BY <1>1, <1>2, <1>3, <1>4, <1>5, <1>6, <1>7, <1>8
  DEF GuardNext, Serves, Tick, Busy, WarmStart, WarmScan, WarmStore, WarmRaises, guardVars, request

-----------------------------------------------------------------------------
(* Types *)

\* A filled slot has the time of its scan, and a running job is at one of its keys.
Types ==
    /\ GuardTypeOK
    /\ \A k \in Keys : slot[k] = NoSlot \/ slot[k].asOf \in Times
    /\ wpc # "idle" => idx \in 1 .. Len(WarmKeys)

\* What the constants are.
LEMMA Constants ==
    ASSUME GuardAssumption
    PROVE  /\ AnyKey \in Keys /\ 0 \in Times /\ Times \subseteq Int
           /\ Len(WarmKeys) \in Nat
           /\ \A i \in 1 .. Len(WarmKeys) : WarmKeys[i] \in Keys
           /\ Scheduled => 1 \in 1 .. Len(WarmKeys)
<1>1. AnyKey \in Keys
  BY DEF GuardAssumption, AnyKey
<1> QED
  BY <1>1 DEF GuardAssumption, Times, Scheduled

\* A request that ends leaves typed locals.
LEMMA LeavesTypes ==
    ASSUME GuardAssumption, Types, NEW t \in Serving, Leaves(t)
    PROVE  /\ key' \in [Serving -> Keys]
           /\ t0' \in [Serving -> Times] /\ asOf' \in [Serving -> Times]
           /\ place' \in [Serving -> {"idle", "fast", "wait", "recheck", "scan", "store"}]
BY Constants DEF Leaves, GoesTo, Types, GuardTypeOK

\* What is returned was read at a time the clock has shown.
LEMMA ReturnsTypes ==
    ASSUME GuardAssumption, Types, NEW t \in Serving, NEW a \in Times, Returns(t, a)
    PROVE  answer' \in [Serving -> Times]
<1>1. t0[t] \in Times
  BY DEF Types, GuardTypeOK
<1>2. (IF a < t0[t] THEN t0[t] - a ELSE 0) \in Times
  BY <1>1 DEF Times, GuardAssumption
<1> QED
  BY <1>2 DEF Returns, Types, GuardTypeOK
\* A hit is on a filled slot.
LEMMA HitFilled ==
    ASSUME Types, NEW t \in Serving, Hit(t)
    PROVE  slot[key[t]].asOf \in Times
BY DEF Hit, Types, GuardTypeOK

\* Every action preserves the types.
LEMMA TypesStep == GuardAssumption /\ Slots /\ Types /\ [GuardNext]_guardVars => Types'
<1> SUFFICES ASSUME GuardAssumption, Slots, Types, [GuardNext]_guardVars PROVE Types'
  OBVIOUS
<1>0. free' \in 0 .. HEAVY_QUERY_SLOTS
  BY SlotsStep DEF Slots
<1> USE <1>0, Constants DEF Types, GuardTypeOK, request, job
<1>1. CASE Tick
  <2>1. now' \in Times
    BY <1>1 DEF Tick, Times, GuardAssumption
  <2> QED
    BY <1>1, <2>1 DEF Tick
<1>2. ASSUME NEW t \in Serving, Request(t) PROVE Types'
  <2>1. queries' \in 0 .. MaxQueries
    BY <1>2 DEF Request, GuardAssumption
  <2>2. PICK k \in Keys : key' = [key EXCEPT ![t] = k]
    BY <1>2 DEF Request
  <2> QED
    BY <1>2, <2>1, <2>2 DEF Request, GoesTo
<1>3. ASSUME NEW t \in Serving, Busy(t) PROVE Types'
  <2>1. queries' \in 0 .. MaxQueries
    BY <1>3 DEF Busy, GuardAssumption
  <2> QED
    BY <1>3, <2>1 DEF Busy
<1>4. ASSUME NEW t \in Serving, Fast(t) PROVE Types'
  <2>1. CASE Hit(t) /\ Returns(t, slot[key[t]].asOf)
    <3>1. answer' \in [Serving -> Times] /\ Leaves(t)
      BY <2>1, HitFilled, ReturnsTypes DEF Returns
    <3> QED
      BY <1>4, <3>1, LeavesTypes DEF Fast
  <2>2. CASE ~Hit(t)
    BY <1>4, <2>2 DEF Fast, GoesTo
  <2> QED
    BY <1>4, <2>1, <2>2 DEF Fast
<1>5. ASSUME NEW t \in Serving, TakeLock(t) PROVE Types'
  BY <1>5 DEF TakeLock, GoesTo
<1>6. ASSUME NEW t \in Serving, Recheck(t) PROVE Types'
  <2>1. CASE Hit(t) /\ Returns(t, slot[key[t]].asOf) /\ lock' = Free
    <3>1. answer' \in [Serving -> Times] /\ Leaves(t)
      BY <2>1, HitFilled, ReturnsTypes DEF Returns
    <3> QED
      BY <1>6, <2>1, <3>1, LeavesTypes DEF Recheck
  <2>2. CASE ~Hit(t)
    BY <1>6, <2>2 DEF Recheck, GoesTo
  <2> QED
    BY <1>6, <2>1, <2>2 DEF Recheck
<1>7. ASSUME NEW t \in Serving, Scan(t) PROVE Types'
  BY <1>7 DEF Scan, GoesTo
<1>8. ASSUME NEW t \in Serving, ScanRaises(t) PROVE Types'
  BY <1>8, LeavesTypes DEF ScanRaises
<1>9. ASSUME NEW t \in Serving, Store(t) PROVE Types'
  <2>1. answer' \in [Serving -> Times] /\ Leaves(t)
    BY <1>9, ReturnsTypes DEF Store, Returns
  <2>2. PICK v : v = [asOf |-> asOf[t], expires |-> Expiry(t)]
    OBVIOUS
  <2>3. v \in [asOf : Times \cup {Never}, expires : Int] /\ v.asOf \in Times
    BY <2>2, SMTT(40) DEF Expiry, GuardAssumption
  <2>4. slot' = [slot EXCEPT ![key[t]] = v]
    BY <1>9, <2>2 DEF Store
  <2>5. /\ slot' \in [Keys -> [asOf : Times \cup {Never}, expires : Int]]
        /\ \A k \in Keys : slot'[k] = NoSlot \/ slot'[k].asOf \in Times
    BY <2>3, <2>4
  <2>6. lastScan' \in [Keys -> Times \cup {Never}]
    BY <1>9 DEF Store
  <2> QED
    BY <1>9, <2>1, <2>5, <2>6, LeavesTypes DEF Store
<1>10. CASE WarmStart
  <2>1. due' \in Nat
    BY <1>10 DEF WarmStart, GuardAssumption
  <2> QED
    BY <1>10, <2>1, SMTT(40) DEF WarmStart
<1>11. CASE WarmScan
  BY <1>11 DEF WarmScan
<1>12. CASE WarmStore
  <2>1. PICK k \in Keys : k = WarmKeys[idx]
    BY <1>12 DEF WarmStore
  <2>2. PICK v : v = [asOf |-> wAsOf, expires |-> wt0 + TTL]
    OBVIOUS
  <2>3. v \in [asOf : Times \cup {Never}, expires : Int] /\ v.asOf \in Times
    BY <2>2 DEF GuardAssumption
  <2>4. slot' = [slot EXCEPT ![k] = v] /\ warmed' = warmed \cup {k}
    BY <1>12, <2>1, <2>2 DEF WarmStore, Warm
  <2>5. idx' \in 1 .. Len(WarmKeys) + 1 /\ (wpc' # "idle" => idx' \in 1 .. Len(WarmKeys))
        /\ wpc' \in {"idle", "scan", "store"}
    BY <1>12, SMTT(40) DEF WarmStore
  <2>6. /\ slot' \in [Keys -> [asOf : Times \cup {Never}, expires : Int]]
        /\ \A j \in Keys : slot'[j] = NoSlot \/ slot'[j].asOf \in Times
    BY <2>3, <2>4
  <2> QED
    BY <1>12, <2>4, <2>5, <2>6, SMTT(40) DEF WarmStore
<1>13. CASE WarmRaises
  BY <1>13, SMTT(40) DEF WarmRaises
<1>14. CASE UNCHANGED guardVars
  BY <1>14 DEF guardVars
<1> QED
  BY <1>1, <1>2, <1>3, <1>4, <1>5, <1>6, <1>7, <1>8, <1>9, <1>10, <1>11, <1>12, <1>13,
     <1>14 DEF GuardNext, Serves

\* The first state.
LEMMA GuardStart == ASSUME GuardAssumption, GuardInit PROVE Slots /\ Types
<1>1. InFlight = {}
  BY DEF InFlight, GuardInit
<1>2. Slots
  BY <1>1, FS_EmptySet DEF Slots, GuardInit, GuardAssumption
<1>3. NoSlot \in [asOf : Times \cup {Never}, expires : Int]
  BY DEF NoSlot, Never
<1>4. Types
  BY <1>3, Constants DEF Types, GuardTypeOK, GuardInit, GuardAssumption
<1> QED
  BY <1>2, <1>4

\* No path through a request leaks or doubles a heavy-query slot (SlotsConserved;
\* api_guard.py:44-56), for any number of threads and slots.
THEOREM SlotsKept == ASSUME GuardAssumption PROVE GuardSpec => []SlotsConserved
<1> DEFINE J == Slots /\ Types
<1>1. GuardInit => J
  BY GuardStart
<1>2. J /\ [GuardNext]_guardVars => J'
  BY SlotsStep, TypesStep
<1>3. J => SlotsConserved
  BY DEF Slots, Types, SlotsConserved, InFlight
<1> QED
  BY <1>1, <1>2, <1>3, PTL DEF GuardSpec
-----------------------------------------------------------------------------
(* Times *)

\* The cache lock is held by the thread that is between its recheck and its store.
Locked == \A t \in Serving : place[t] \in {"recheck", "scan", "store"} <=> lock = t

\* A clock is read before the scan it dates, so a value expires at most TTL after
\* its scan read the store.
Clocks ==
    /\ \A t \in Serving : t0[t] <= now /\ (place[t] = "store" => t0[t] <= asOf[t])
    /\ wt0 <= now /\ (wpc = "store" => wt0 <= wAsOf)
    /\ \A k \in Keys : lastScan[k] <= now
    /\ \A k \in Keys : slot[k] # NoSlot => slot[k].expires <= slot[k].asOf + TTL
    /\ AnswerFresh

\* The job starts on time and a run of it is short.
OnTime ==
    /\ Scheduled => now <= due
    /\ wpc # "idle" => /\ Scheduled /\ begun <= wt0
                       /\ now <= begun + MaxScan /\ due = begun + WarmPeriod

\* A scan leaves a value that lasts for Spacing, and a thread that scans has found
\* none that is still good.
ScansApart ==
    /\ \A k \in Keys : lastScan[k] # Never =>
          slot[k] # NoSlot /\ slot[k].expires >= lastScan[k] + Spacing(k)
    /\ \A t \in Serving : place[t] \in {"scan", "store"} => ~Hit(t)

GuardInv == Slots /\ Types /\ Locked /\ Clocks /\ OnTime /\ ScansApart

\* The numbers behind the types.
LEMMA Numbers ==
    ASSUME GuardAssumption, Types
    PROVE  /\ now \in Nat /\ due \in Nat /\ begun \in Nat /\ wt0 \in Nat /\ wAsOf \in Nat
           /\ TTL \in Nat /\ MaxScan \in Nat /\ WarmPeriod \in Nat
           /\ \A t \in Serving : /\ t0[t] \in Nat /\ asOf[t] \in Nat /\ answer[t] \in Nat
                                 /\ key[t] \in Keys
           /\ \A k \in Keys : /\ lastScan[k] \in Int /\ slot[k].expires \in Int
                              /\ slot[k].asOf \in Int /\ Spacing(k) \in Int
                              /\ Spacing(k) <= TTL /\ (k \in Warming => Spacing(k) = TTL - MaxScan)
           /\ \A k \in Keys : slot[k] # NoSlot => slot[k].asOf \in Nat
<1>1. Times \subseteq Nat /\ Times \cup {Never} \subseteq Int
  BY DEF Times, Never, GuardAssumption
<1> QED
  BY <1>1, SMTT(40) DEF Types, GuardTypeOK, GuardAssumption, Spacing

\* Every action preserves the hold of the lock.
LEMMA LockedStep == GuardAssumption /\ Types /\ Locked /\ [GuardNext]_guardVars => Locked'
<1> SUFFICES ASSUME GuardAssumption, Types, Locked, [GuardNext]_guardVars PROVE Locked'
  OBVIOUS
<1>0. Free \notin Serving /\ place \in [Serving -> {"idle", "fast", "wait", "recheck", "scan", "store"}]
  BY DEF GuardAssumption, Types, GuardTypeOK
<1> USE <1>0 DEF Locked, GoesTo
<1>1. ASSUME NEW t \in Serving, Request(t) PROVE Locked'
  BY <1>1 DEF Request
<1>2. ASSUME NEW t \in Serving, Fast(t) PROVE Locked'
  BY <1>2 DEF Fast, Returns, Leaves
<1>3. ASSUME NEW t \in Serving, TakeLock(t) PROVE Locked'
  BY <1>3 DEF TakeLock
<1>4. ASSUME NEW t \in Serving, Recheck(t) PROVE Locked'
  BY <1>4 DEF Recheck, Returns, Leaves
<1>5. ASSUME NEW t \in Serving, Scan(t) PROVE Locked'
  BY <1>5 DEF Scan
<1>6. ASSUME NEW t \in Serving, ScanRaises(t) PROVE Locked'
  BY <1>6 DEF ScanRaises, Leaves
<1>7. ASSUME NEW t \in Serving, Store(t) PROVE Locked'
  BY <1>7 DEF Store, Returns, Leaves
<1>8. CASE UNCHANGED <<place, lock>>
  BY <1>8
<1> QED
  BY <1>1, <1>2, <1>3, <1>4, <1>5, <1>6, <1>7, <1>8
  DEF GuardNext, Serves, Tick, Busy, WarmStart, WarmScan, WarmStore, WarmRaises, guardVars, request

\* Every action preserves the schedule.
LEMMA OnTimeStep == GuardAssumption /\ Types /\ Clocks /\ OnTime /\ [GuardNext]_guardVars => OnTime'
<1> SUFFICES ASSUME GuardAssumption, Types, Clocks, OnTime, [GuardNext]_guardVars PROVE OnTime'
  OBVIOUS
<1> USE Numbers DEF OnTime, Clocks
<1>1. CASE Tick
  BY <1>1 DEF Tick, job
<1>2. CASE WarmStart
  BY <1>2 DEF WarmStart
<1>3. CASE WarmScan
  BY <1>3 DEF WarmScan
<1>4. CASE WarmStore
  BY <1>4 DEF WarmStore
<1>5. CASE WarmRaises
  BY <1>5 DEF WarmRaises
<1>6. CASE UNCHANGED <<now, job>>
  BY <1>6 DEF job
<1> QED
  BY <1>1, <1>2, <1>3, <1>4, <1>5, <1>6
  DEF GuardNext, Serves, Request, Busy, Fast, TakeLock, Recheck, Scan, ScanRaises, Store, guardVars

\* A request that hits gets a value of TTL at most.
LEMMA HitFresh ==
    ASSUME GuardAssumption, Types, Clocks, NEW t \in Serving, Hit(t)
    PROVE  t0[t] - slot[key[t]].asOf <= TTL
BY Numbers DEF Hit, Clocks

\* The clocks after a request has returned a value.
LEMMA ReturnsClocks ==
    ASSUME GuardAssumption, Types, Clocks, NEW t \in Serving, NEW a \in Int,
           Returns(t, a), t0[t] - a <= TTL, now' = now
    PROVE  /\ \A u \in Serving : t0'[u] <= now' /\ (place'[u] = "store" => t0'[u] <= asOf'[u])
           /\ AnswerFresh'
<1>1. /\ place' = [place EXCEPT ![t] = "idle"] /\ t0' = [t0 EXCEPT ![t] = 0]
      /\ asOf' = [asOf EXCEPT ![t] = 0]
      /\ answer' = [answer EXCEPT ![t] = IF a < t0[t] THEN t0[t] - a ELSE 0]
  BY DEF Returns, Leaves, GoesTo
<1>2. (IF a < t0[t] THEN t0[t] - a ELSE 0) <= TTL
  BY Numbers
<1>3. \A u \in Serving : answer'[u] <= TTL
  BY <1>1, <1>2 DEF Types, GuardTypeOK, Clocks, AnswerFresh
<1>4. \A u \in Serving : t0'[u] <= now' /\ (place'[u] = "store" => t0'[u] <= asOf'[u])
  BY <1>1, Numbers DEF Types, GuardTypeOK, Clocks
<1> QED
  BY <1>3, <1>4 DEF AnswerFresh

\* Every action preserves the order of the clocks.
LEMMA ClocksStep == GuardAssumption /\ Types /\ Clocks /\ [GuardNext]_guardVars => Clocks'
<1> SUFFICES ASSUME GuardAssumption, Types, Clocks, [GuardNext]_guardVars PROVE Clocks'
  OBVIOUS
<1>0. /\ place \in [Serving -> {"idle", "fast", "wait", "recheck", "scan", "store"}]
      /\ DOMAIN t0 = Serving /\ DOMAIN asOf = Serving /\ DOMAIN lastScan = Keys
      /\ DOMAIN slot = Keys
  BY DEF Types, GuardTypeOK
<1> USE <1>0, Numbers DEF Clocks, AnswerFresh
<1>1. CASE Tick
  <2>1. now' = now + 1 /\ UNCHANGED <<slot, place, t0, asOf, answer, wpc, wt0, wAsOf, lastScan>>
    BY <1>1 DEF Tick, request, job
  <2> QED
    BY <2>1
<1>2. ASSUME NEW t \in Serving, Request(t) PROVE Clocks'
  <2>1. /\ t0' = [t0 EXCEPT ![t] = now] /\ place' = [place EXCEPT ![t] = "fast"]
        /\ UNCHANGED <<now, slot, asOf, answer, wpc, wt0, wAsOf, lastScan>>
    BY <1>2 DEF Request, GoesTo, job
  <2> QED
    BY <2>1
<1>3. ASSUME NEW t \in Serving, NEW l \in {"wait", "recheck", "scan"},
             place' = [place EXCEPT ![t] = l],
             UNCHANGED <<now, slot, t0, asOf, answer, wpc, wt0, wAsOf, lastScan>>
      PROVE  Clocks'
  BY <1>3
<1>4. ASSUME NEW t \in Serving, Hit(t), Returns(t, slot[key[t]].asOf),
             UNCHANGED <<now, slot, wpc, wt0, wAsOf, lastScan>>
      PROVE  Clocks'
  <2>1. PICK a \in Int : a = slot[key[t]].asOf
    OBVIOUS
  <2>2. Returns(t, a) /\ t0[t] - a <= TTL
    BY <1>4, <2>1, HitFresh
  <2> QED
    BY <1>4, <2>2, ReturnsClocks
<1>5. ASSUME NEW t \in Serving, Scan(t) PROVE Clocks'
  <2>1. /\ asOf' = [asOf EXCEPT ![t] = now] /\ place' = [place EXCEPT ![t] = "store"]
        /\ UNCHANGED <<now, slot, t0, answer, wpc, wt0, wAsOf, lastScan>>
    BY <1>5 DEF Scan, GoesTo, job
  <2> QED
    BY <2>1
<1>6. ASSUME NEW t \in Serving, ScanRaises(t) PROVE Clocks'
  <2>1. /\ asOf' = [asOf EXCEPT ![t] = 0] /\ t0' = [t0 EXCEPT ![t] = 0]
        /\ place' = [place EXCEPT ![t] = "idle"]
        /\ UNCHANGED <<now, slot, answer, wpc, wt0, wAsOf, lastScan>>
    BY <1>6 DEF ScanRaises, Leaves, GoesTo, job
  <2> QED
    BY <2>1
<1>7. ASSUME NEW t \in Serving, Store(t) PROVE Clocks'
  <2>1. PICK a \in Int : a = asOf[t]
    OBVIOUS
  <2>2. PICK r \in Int : r = t0[t]
    OBVIOUS
  <2>3. PICK k \in Keys : k = key[t]
    OBVIOUS
  <2>4. PICK v : v = [asOf |-> a, expires |-> r + TTL]
    OBVIOUS
  <2>5. /\ place[t] = "store" /\ Returns(t, a)
        /\ slot' = [slot EXCEPT ![k] = v] /\ lastScan' = [lastScan EXCEPT ![k] = r]
        /\ UNCHANGED <<now, wpc, wt0, wAsOf>>
    BY <1>7, <2>1, <2>2, <2>3, <2>4 DEF Store, Expiry, job
  <2>6. r <= a /\ r <= now
    BY <2>1, <2>2, <2>5
  <2>7. r - a <= TTL
    BY <2>6
  <2>8. /\ \A u \in Serving : t0'[u] <= now' /\ (place'[u] = "store" => t0'[u] <= asOf'[u])
        /\ AnswerFresh'
    BY <2>2, <2>5, <2>7, ReturnsClocks
  <2>9. \A j \in Keys : lastScan'[j] <= now'
    BY <2>5, <2>6
  <2>10. v.expires <= v.asOf + TTL
    BY <2>4, <2>6
  <2>11. \A j \in Keys : slot'[j] # NoSlot => slot'[j].expires <= slot'[j].asOf + TTL
    BY <2>5, <2>10
  <2>12. wt0' <= now' /\ (wpc' = "store" => wt0' <= wAsOf')
    BY <2>5
  <2> QED
    BY <2>8, <2>9, <2>11, <2>12
<1>8. CASE WarmStart
  <2>1. wt0' = now /\ wpc' = "scan" /\ UNCHANGED <<now, slot, place, t0, asOf, answer, lastScan>>
    BY <1>8 DEF WarmStart, request
  <2> QED
    BY <2>1
<1>9. CASE WarmScan
  <2>1. wAsOf' = now /\ UNCHANGED <<now, slot, place, t0, asOf, answer, lastScan, wt0>>
    BY <1>9 DEF WarmScan, request
  <2> QED
    BY <2>1
<1>10. CASE WarmStore
  <2>1. PICK k \in Keys : k = WarmKeys[idx]
    BY <1>10, Constants DEF WarmStore, Types
  <2>2. PICK v : v = [asOf |-> wAsOf, expires |-> wt0 + TTL]
    OBVIOUS
  <2>3. /\ wpc = "store" /\ wpc' \in {"scan", "idle"} /\ wt0' = now
        /\ slot' = [slot EXCEPT ![k] = v]
        /\ UNCHANGED <<now, place, t0, asOf, answer, lastScan>>
    BY <1>10, <2>1, <2>2 DEF WarmStore, Warm, request
  <2>4. v.expires <= v.asOf + TTL
    BY <2>2, <2>3
  <2>5. \A j \in Keys : slot'[j] # NoSlot => slot'[j].expires <= slot'[j].asOf + TTL
    BY <2>3, <2>4
  <2> QED
    BY <2>3, <2>5
<1>11. CASE WarmRaises
  <2>1. wpc' = "idle" /\ UNCHANGED <<now, slot, place, t0, asOf, answer, lastScan, wt0>>
    BY <1>11 DEF WarmRaises, request
  <2> QED
    BY <2>1
<1>12. ASSUME NEW t \in Serving, Serves(t) PROVE Clocks'
  <2>1. CASE Fast(t)
    BY <2>1, <1>3, <1>4 DEF Fast, GoesTo, job
  <2>2. CASE TakeLock(t)
    BY <2>2, <1>3 DEF TakeLock, GoesTo, job
  <2>3. CASE Recheck(t)
    BY <2>3, <1>3, <1>4 DEF Recheck, GoesTo, job
  <2> QED
    BY <1>5, <1>6, <1>7, <1>12, <2>1, <2>2, <2>3 DEF Serves
<1>13. CASE UNCHANGED guardVars
  BY <1>13 DEF guardVars, request, job
<1>14. ASSUME NEW t \in Serving, Busy(t) PROVE Clocks'
  BY <1>14 DEF Busy, request, job
<1> QED
  BY <1>1, <1>2, <1>8, <1>9, <1>10, <1>11, <1>12, <1>13, <1>14 DEF GuardNext

-----------------------------------------------------------------------------
(* The spacing of scans *)

\* A value that lasts TTL from a clock read at r, stored for k, outlasts the last scan.
LEMMA StoredOutlasts ==
    ASSUME GuardAssumption, Types, NEW k \in Keys, NEW a \in Nat, NEW r \in Int, NEW v,
           v = [asOf |-> a, expires |-> r + TTL],
           slot' = [slot EXCEPT ![k] = v], lastScan'[k] \in Int,
           r + TTL >= lastScan'[k] + Spacing(k),
           \A j \in Keys \ {k} : lastScan'[j] = lastScan[j],
           \A j \in Keys : lastScan[j] # Never =>
              slot[j] # NoSlot /\ slot[j].expires >= lastScan[j] + Spacing(j)
    PROVE  \A j \in Keys : lastScan'[j] # Never =>
              slot'[j] # NoSlot /\ slot'[j].expires >= lastScan'[j] + Spacing(j)
<1>1. v # NoSlot /\ v.expires = r + TTL
  <2>1. v.asOf = a /\ NoSlot.asOf = -1 /\ v.expires = r + TTL
    BY DEF NoSlot, Never
  <2> QED
    BY <2>1
<1>2. slot'[k] = v /\ \A j \in Keys \ {k} : slot'[j] = slot[j]
  BY DEF Types, GuardTypeOK
<1>3. lastScan'[k] # Never => slot'[k] # NoSlot /\ slot'[k].expires >= lastScan'[k] + Spacing(k)
  BY <1>1, <1>2
<1>4. \A j \in Keys \ {k} : lastScan'[j] # Never =>
         slot'[j] # NoSlot /\ slot'[j].expires >= lastScan'[j] + Spacing(j)
  BY <1>2
<1> QED
  BY <1>3, <1>4

\* Nobody scans while the lock is free, and while t is in its scan nobody else is.
LEMMA OneScans ==
    ASSUME GuardAssumption, Locked
    PROVE  /\ lock = Free => \A u \in Serving : place[u] \notin {"recheck", "scan", "store"}
           /\ \A t, u \in Serving : ( /\ place[t] \in {"recheck", "scan", "store"}
                                      /\ place[u] \in {"recheck", "scan", "store"} ) => t = u
BY DEF Locked, GuardAssumption

\* A store by the job comes late by the length of a run at most.
LEMMA WarmOutlasts ==
    ASSUME GuardAssumption, Types, Clocks, OnTime, wpc # "idle"
    PROVE  LET k == WarmKeys[idx] IN
           /\ k \in Keys /\ k \in Warming
           /\ wt0 + TTL >= lastScan[k] + Spacing(k)
           /\ wt0 + TTL >= begun + TTL
<1>1. PICK k \in Keys : k = WarmKeys[idx]
  BY Constants DEF Types
<1>2. k \in Warming
  <2>1. idx \in DOMAIN WarmKeys
    BY DEF Types, GuardAssumption
  <2> QED
    BY <1>1, <2>1 DEF Warming
<1>3. lastScan[k] <= now /\ now <= begun + MaxScan /\ begun <= wt0
  BY DEF Clocks, OnTime
<1>4. Spacing(k) = TTL - MaxScan /\ lastScan[k] \in Int
  BY <1>2, Numbers
<1>5. wt0 + TTL >= lastScan[k] + Spacing(k) /\ wt0 + TTL >= begun + TTL
  BY <1>3, <1>4, Numbers
<1> QED
  BY <1>1, <1>2, <1>5

\* Every action preserves the spacing.
LEMMA ScansApartStep ==
    ASSUME GuardAssumption, Types, Types', Locked, Clocks, OnTime, ScansApart, [GuardNext]_guardVars
    PROVE  ScansApart'
<1>0. /\ place \in [Serving -> {"idle", "fast", "wait", "recheck", "scan", "store"}]
      /\ DOMAIN t0 = Serving /\ DOMAIN key = Serving /\ DOMAIN lastScan = Keys
      /\ DOMAIN slot = Keys
  BY DEF Types, GuardTypeOK
<1> USE <1>0 DEF ScansApart
<1>1. ASSUME NEW t \in Serving, NEW l \in {"idle", "fast", "wait", "recheck"},
             place' = [place EXCEPT ![t] = l], UNCHANGED <<slot, lastScan>>,
             \A u \in Serving \ {t} : key'[u] = key[u] /\ t0'[u] = t0[u]
      PROVE  ScansApart'
  <2>1. \A u \in Serving : place'[u] \in {"scan", "store"} =>
           /\ place[u] \in {"scan", "store"} /\ key'[u] = key[u] /\ t0'[u] = t0[u]
    BY <1>1
  <2> QED
    BY <1>1, <2>1 DEF Hit
<1>2. ASSUME NEW t \in Serving, Leaves(t), UNCHANGED <<slot, lastScan>> PROVE ScansApart'
  BY <1>1, <1>2 DEF Leaves, GoesTo
<1>3. ASSUME NEW t \in Serving, Request(t) PROVE ScansApart'
  BY <1>1, <1>3 DEF Request, GoesTo
<1>4. ASSUME NEW t \in Serving, Fast(t) PROVE ScansApart'
  BY <1>1, <1>2, <1>4 DEF Fast, Returns, GoesTo
<1>5. ASSUME NEW t \in Serving, TakeLock(t) PROVE ScansApart'
  BY <1>1, <1>5 DEF TakeLock, GoesTo
<1>6. ASSUME NEW t \in Serving, Recheck(t) PROVE ScansApart'
  <2>1. CASE Leaves(t)
    BY <1>2, <1>6, <2>1 DEF Recheck
  <2>2. CASE ~Hit(t) /\ GoesTo(t, "scan") /\ UNCHANGED <<lock, free, key, t0, asOf, answer>>
    <3>1. \A u \in Serving : place'[u] \in {"scan", "store"} => ~Hit(u)
      BY <2>2 DEF GoesTo
    <3> QED
      BY <1>6, <2>2, <3>1 DEF Recheck, Hit
  <2> QED
    BY <1>6, <2>1, <2>2 DEF Recheck, Returns
<1>7. ASSUME NEW t \in Serving, Scan(t) PROVE ScansApart'
  <2>1. place[t] = "scan" /\ place' = [place EXCEPT ![t] = "store"] /\ UNCHANGED <<slot, lastScan, key, t0>>
    BY <1>7 DEF Scan, GoesTo
  <2> QED
    BY <2>1 DEF Hit
<1>8. ASSUME NEW t \in Serving, ScanRaises(t) PROVE ScansApart'
  BY <1>2, <1>8 DEF ScanRaises
<1>9. ASSUME NEW t \in Serving, Store(t) PROVE ScansApart'
  <2>1. PICK a \in Nat : a = asOf[t]
    BY Numbers
  <2>2. PICK r \in Nat : r = t0[t]
    BY Numbers
  <2>3. PICK k \in Keys : k = key[t]
    BY Numbers
  <2>4. PICK v : v = [asOf |-> a, expires |-> r + TTL]
    OBVIOUS
  <2>5. /\ place[t] = "store" /\ place' = [place EXCEPT ![t] = "idle"]
        /\ slot' = [slot EXCEPT ![k] = v] /\ lastScan' = [lastScan EXCEPT ![k] = r]
    BY <1>9, <2>1, <2>2, <2>3, <2>4 DEF Store, Expiry, Returns, Leaves, GoesTo
  <2>6. lastScan'[k] = r /\ \A j \in Keys \ {k} : lastScan'[j] = lastScan[j]
    BY <2>5
  <2>7. r \in Int /\ lastScan'[k] \in Int /\ r + TTL >= lastScan'[k] + Spacing(k)
    BY <2>6, Numbers
  <2>8. \A j \in Keys : lastScan'[j] # Never =>
           slot'[j] # NoSlot /\ slot'[j].expires >= lastScan'[j] + Spacing(j)
    BY <2>4, <2>5, <2>6, <2>7, StoredOutlasts
  <2>9. \A u \in Serving : place'[u] \notin {"scan", "store"}
    BY <2>5, OneScans
  <2> QED
    BY <2>8, <2>9
<1>10. CASE WarmStore
  <2>1. PICK k \in Keys : k = WarmKeys[idx]
    BY <1>10, WarmOutlasts DEF WarmStore
  <2>2. PICK a \in Nat : a = wAsOf
    BY Numbers
  <2>3. PICK r \in Nat : r = wt0
    BY Numbers
  <2>4. PICK v : v = [asOf |-> a, expires |-> r + TTL]
    OBVIOUS
  <2>5. /\ wpc = "store" /\ lock = Free /\ slot' = [slot EXCEPT ![k] = v]
        /\ UNCHANGED <<place, lastScan>>
    BY <1>10, <2>1, <2>2, <2>3, <2>4 DEF WarmStore, Warm, request
  <2>6. /\ r \in Int /\ lastScan'[k] \in Int /\ r + TTL >= lastScan'[k] + Spacing(k)
        /\ \A j \in Keys \ {k} : lastScan'[j] = lastScan[j]
    BY <2>1, <2>3, <2>5, WarmOutlasts, Numbers
  <2>7. \A j \in Keys : lastScan'[j] # Never =>
           slot'[j] # NoSlot /\ slot'[j].expires >= lastScan'[j] + Spacing(j)
    BY <2>4, <2>5, <2>6, StoredOutlasts
  <2>8. \A u \in Serving : place'[u] \notin {"scan", "store"}
    BY <2>5, OneScans
  <2> QED
    BY <2>7, <2>8
<1>11. CASE UNCHANGED <<slot, lastScan, place, key, t0>>
  BY <1>11 DEF Hit
<1> QED
  BY <1>3, <1>4, <1>5, <1>6, <1>7, <1>8, <1>9, <1>10, <1>11
  DEF GuardNext, Serves, Tick, Busy, WarmStart, WarmScan, WarmRaises, guardVars, request

\* The invariant.
LEMMA GuardInvariant == ASSUME GuardAssumption PROVE GuardSpec => []GuardInv
<1>1. GuardInit => GuardInv
  <2> SUFFICES ASSUME GuardInit PROVE GuardInv
    OBVIOUS
  <2>1. Slots /\ Types
    BY GuardStart
  <2>2. Locked /\ OnTime
    BY DEF GuardInit, Locked, OnTime, GuardAssumption
  <2>3. Clocks
    BY DEF GuardInit, Clocks, AnswerFresh, GuardAssumption, Never
  <2>4. ScansApart
    BY DEF GuardInit, ScansApart
  <2> QED
    BY <2>1, <2>2, <2>3, <2>4 DEF GuardInv
<1>2. GuardInv /\ [GuardNext]_guardVars => GuardInv'
  BY SlotsStep, TypesStep, LockedStep, ClocksStep, OnTimeStep, ScansApartStep DEF GuardInv
<1> QED
  BY <1>1, <1>2, PTL DEF GuardSpec

\* The requests that scan for a key are Spacing apart (ScansSpaced; api_guard.py:62,
\* `recomputing at most once per ttl seconds`), for any number of threads.
THEOREM ScansKeptApart == ASSUME GuardAssumption PROVE GuardSpec => ScansSpaced
<1> DEFINE Apart == \A k \in Keys : lastScan[k] # Never /\ lastScan'[k] # lastScan[k] =>
                       lastScan'[k] >= lastScan[k] + Spacing(k)
<1>1. ASSUME GuardInv, [GuardNext]_guardVars PROVE [Apart]_guardVars
  <2>1. CASE \E t \in Serving : Store(t)
    <3>1. PICK t \in Serving : Store(t)
      BY <2>1
    <3>2. PICK k \in Keys : k = key[t]
      BY Numbers, <1>1 DEF GuardInv
    <3>3. lastScan' = [lastScan EXCEPT ![k] = t0[t]] /\ ~Hit(t)
      BY <1>1, <3>1, <3>2 DEF Store, GuardInv, ScansApart
    <3>4. lastScan[k] # Never => t0[t] >= lastScan[k] + Spacing(k)
      BY <1>1, <3>2, <3>3, Numbers DEF GuardInv, ScansApart, Hit
    <3>5. lastScan \in [Keys -> Times \cup {Never}]
      BY <1>1 DEF GuardInv, Types, GuardTypeOK
    <3> QED
      BY <3>3, <3>4, <3>5
  <2>2. CASE UNCHANGED lastScan
    BY <2>2
  <2> QED
    BY <1>1, <2>1, <2>2
    DEF GuardNext, Serves, Tick, Request, Busy, Fast, TakeLock, Recheck, Scan, ScanRaises,
        WarmStart, WarmScan, WarmStore, WarmRaises, guardVars
<1> QED
  BY <1>1, GuardInvariant, PTL DEF GuardSpec, ScansSpaced

-----------------------------------------------------------------------------
(* The warm cache *)

\* The value of a key lasts until e at least.
Lasts(k, e) == slot[k] # NoSlot /\ slot[k].expires >= e

\* A warmed key was stored by the last run of the job that has passed it, or by the
\* one before; no request scans for it.
Warmth ==
    /\ warmed \subseteq Warming
    /\ wpc = "idle" => \A k \in warmed : Lasts(k, due - WarmPeriod + TTL)
    /\ wpc # "idle" =>
         /\ \A k \in warmed : Lasts(k, begun - WarmPeriod + TTL)
         /\ \A i \in 1 .. Len(WarmKeys) :
               i < idx /\ WarmKeys[i] \in warmed => Lasts(WarmKeys[i], begun + TTL)
    /\ StaysWarm

\* The value of a warmed key has not expired.
LEMMA WarmedHits ==
    ASSUME GuardAssumption, WarmAssumption, Types, Clocks, OnTime, Warmth,
           NEW t \in Serving, key[t] \in warmed
    PROVE  Hit(t)
<1>1. PICK k \in Keys : k = key[t]
  BY Numbers
<1>2. Scheduled
  BY DEF Warmth, Warming, Scheduled, GuardAssumption
<1>3. slot[k] # NoSlot /\ now < slot[k].expires
  <2>1. CASE wpc = "idle"
    <3>1. Lasts(k, due - WarmPeriod + TTL) /\ now <= due
      BY <1>1, <1>2, <2>1 DEF Warmth, OnTime
    <3> QED
      BY <3>1, Numbers DEF Lasts, WarmAssumption
  <2>2. CASE wpc # "idle"
    <3>1. Lasts(k, begun - WarmPeriod + TTL) /\ now <= begun + MaxScan
      BY <1>1, <2>2 DEF Warmth, OnTime
    <3> QED
      BY <3>1, Numbers DEF Lasts, WarmAssumption
  <2> QED
    BY <2>1, <2>2
<1>4. t0[t] <= now
  BY DEF Clocks
<1> QED
  BY <1>1, <1>3, <1>4, Numbers DEF Hit

\* A step that leaves the job and the warmed slots alone leaves them warm.
LEMMA WarmthKept ==
    ASSUME GuardAssumption, Types, Warmth, UNCHANGED job,
           \A k \in warmed : slot'[k] = slot[k], StaysWarm'
    PROVE  Warmth'
<1>1. UNCHANGED <<warmed, wpc, idx, begun, due>>
  BY DEF job
<1>2. \A k \in warmed : \A e \in Int : Lasts(k, e) => Lasts(k, e)'
  BY DEF Lasts
<1>3. /\ begun + TTL \in Int /\ begun - WarmPeriod + TTL \in Int
      /\ due - WarmPeriod + TTL \in Int
  BY Numbers
<1> QED
  BY <1>1, <1>2, <1>3 DEF Warmth, Lasts

\* What a store by the job does to the slots.
LEMMA WarmStored ==
    ASSUME GuardAssumption, Types, Clocks, OnTime, WarmStore,
           NEW k \in Keys, k = WarmKeys[idx]
    PROVE  /\ Lasts(k, begun + TTL)'
           /\ \A j \in Keys \ {k} : slot'[j] = slot[j]
<1>2. PICK v : v = [asOf |-> wAsOf, expires |-> wt0 + TTL]
  OBVIOUS
<1>3. wpc # "idle" /\ slot' = [slot EXCEPT ![k] = v] /\ begun' = begun
  BY <1>2 DEF WarmStore, Warm
<1>4. slot'[k] = v /\ \A j \in Keys \ {k} : slot'[j] = slot[j]
  BY <1>3 DEF Types, GuardTypeOK
<1>5. v.expires >= begun + TTL /\ v.asOf \in Nat
  BY <1>2, <1>3, WarmOutlasts, Numbers
<1>6. v # NoSlot
  <2>1. NoSlot.asOf = -1
    BY DEF NoSlot, Never
  <2> QED
    BY <1>5, <2>1
<1>7. Lasts(k, begun + TTL)'
  BY <1>3, <1>4, <1>5, <1>6 DEF Lasts
<1> QED
  BY <1>4, <1>7

\* Every action keeps the warmed keys warm.
LEMMA WarmthStep ==
    ASSUME GuardAssumption, WarmAssumption, GuardInv, GuardInv', Warmth, [GuardNext]_guardVars
    PROVE  Warmth'
<1>0. /\ Types /\ Types' /\ Locked /\ Clocks /\ OnTime /\ Clocks' /\ OnTime'
      /\ place \in [Serving -> {"idle", "fast", "wait", "recheck", "scan", "store"}]
      /\ DOMAIN key = Serving /\ DOMAIN slot = Keys
  BY DEF GuardInv, Types, GuardTypeOK
<1>1. ASSUME NEW t \in Serving, place' = [place EXCEPT ![t] = "idle"],
             \A u \in Serving \ {t} : key'[u] = key[u], UNCHANGED warmed
      PROVE  StaysWarm'
  BY <1>0, <1>1 DEF Warmth, StaysWarm
<1>2. ASSUME NEW t \in Serving, Leaves(t), UNCHANGED <<slot, job>> PROVE Warmth'
  BY <1>0, <1>1, <1>2, WarmthKept DEF Leaves, GoesTo, job
<1>3. ASSUME NEW t \in Serving, NEW l \in {"fast", "wait", "recheck"},
             place' = [place EXCEPT ![t] = l], \A u \in Serving \ {t} : key'[u] = key[u],
             UNCHANGED <<slot, job>>
      PROVE  Warmth'
  <2>1. StaysWarm'
    BY <1>0, <1>3 DEF Warmth, StaysWarm, job
  <2> QED
    BY <1>0, <1>3, <2>1, WarmthKept
<1>4. ASSUME NEW t \in Serving, Request(t) PROVE Warmth'
  BY <1>0, <1>3, <1>4 DEF Request, GoesTo
<1>5. ASSUME NEW t \in Serving, Fast(t) PROVE Warmth'
  BY <1>2, <1>3, <1>5 DEF Fast, Returns, GoesTo
<1>6. ASSUME NEW t \in Serving, TakeLock(t) PROVE Warmth'
  BY <1>3, <1>6 DEF TakeLock, GoesTo
<1>7. ASSUME NEW t \in Serving, Recheck(t) PROVE Warmth'
  <2>1. CASE Leaves(t)
    BY <1>2, <1>7, <2>1 DEF Recheck
  <2>2. CASE ~Hit(t) /\ GoesTo(t, "scan") /\ UNCHANGED key
    <3>1. key[t] \notin warmed
      BY <1>0, <2>2, WarmedHits
    <3>2. StaysWarm'
      BY <1>0, <1>7, <2>2, <3>1 DEF Recheck, GoesTo, Warmth, StaysWarm, job
    <3> QED
      BY <1>0, <1>7, <3>2, WarmthKept DEF Recheck
  <2> QED
    BY <1>7, <2>1, <2>2 DEF Recheck, Returns
<1>8. ASSUME NEW t \in Serving, Scan(t) PROVE Warmth'
  <2>1. StaysWarm'
    BY <1>0, <1>8 DEF Scan, GoesTo, Warmth, StaysWarm, job
  <2> QED
    BY <1>0, <1>8, <2>1, WarmthKept DEF Scan
<1>9. ASSUME NEW t \in Serving, ScanRaises(t) PROVE Warmth'
  BY <1>2, <1>9 DEF ScanRaises
<1>10. ASSUME NEW t \in Serving, Store(t) PROVE Warmth'
  <2>1. key[t] \notin warmed
    BY <1>10 DEF Store, Warmth, StaysWarm
  <2>2. PICK v : slot' = [slot EXCEPT ![key[t]] = v]
    BY <1>10 DEF Store
  <2>3. warmed \subseteq Keys
    BY <1>0 DEF Types, GuardTypeOK
  <2>4. \A k \in warmed : slot'[k] = slot[k]
    BY <1>0, <2>1, <2>2, <2>3
  <2>5. StaysWarm'
    BY <1>0, <1>1, <1>10 DEF Store, Returns, Leaves, GoesTo, job
  <2> QED
    BY <1>0, <1>10, <2>4, <2>5, WarmthKept DEF Store
<1>11. ASSUME UNCHANGED <<slot, request, job>> PROVE Warmth'
  <2>1. StaysWarm'
    BY <1>11 DEF request, job, Warmth, StaysWarm
  <2> QED
    BY <1>0, <1>11, <2>1, WarmthKept
<1>12. CASE WarmStart
  <2>1. /\ wpc = "idle" /\ now = due /\ begun' = now /\ wpc' = "scan" /\ idx' = 1
        /\ UNCHANGED <<slot, warmed, place, key>>
    BY <1>12 DEF WarmStart, request
  <2>2. \A k \in warmed : Lasts(k, begun - WarmPeriod + TTL)'
    BY <2>1 DEF Warmth, Lasts
  <2>3. StaysWarm'
    BY <2>1 DEF Warmth, StaysWarm
  <2> QED
    BY <2>1, <2>2, <2>3 DEF Warmth
<1>13. CASE WarmScan
  <2>1. /\ wpc = "scan" /\ wpc' = "store"
        /\ UNCHANGED <<slot, warmed, place, key, idx, begun>>
    BY <1>13 DEF WarmScan, request
  <2> QED
    BY <2>1 DEF Warmth, StaysWarm, Lasts
<1>14. CASE WarmStore
  <2>1. PICK k \in Keys : k = WarmKeys[idx]
    BY <1>0, <1>14, WarmOutlasts DEF WarmStore
  <2>2. PICK n \in 1 .. Len(WarmKeys) : n = idx
    BY <1>0, <1>14 DEF WarmStore, Types
  <2>3. /\ wpc = "store" /\ lock = Free /\ warmed' = warmed \cup {k}
        /\ UNCHANGED <<place, key, begun, due>>
        /\ idx' = IF n < Len(WarmKeys) THEN n + 1 ELSE 1
        /\ wpc' = IF n < Len(WarmKeys) THEN "scan" ELSE "idle"
    BY <1>14, <2>1, <2>2 DEF WarmStore, request
  <2>4. Lasts(k, begun + TTL)' /\ \A j \in Keys \ {k} : slot'[j] = slot[j]
    BY <1>0, <1>14, <2>1, WarmStored
  <2>5. warmed \subseteq Keys /\ k \in Warming
    BY <1>0, <2>1, <2>3, WarmOutlasts DEF Types, GuardTypeOK
  <2>6. \A j \in Keys : slot'[j].expires \in Int /\ begun \in Nat /\ TTL \in Nat
           /\ WarmPeriod \in Nat /\ Len(WarmKeys) \in Nat
    BY <1>0, Numbers, Constants DEF Types, GuardTypeOK
  <2>7. \A j \in warmed' : Lasts(j, begun - WarmPeriod + TTL)'
    <3>1. Lasts(k, begun - WarmPeriod + TTL)'
      BY <2>3, <2>4, <2>6 DEF Lasts
    <3>2. \A j \in warmed \ {k} : Lasts(j, begun - WarmPeriod + TTL)'
      BY <2>3, <2>4, <2>5 DEF Warmth, Lasts
    <3> QED
      BY <2>3, <3>1, <3>2
  <2>8. \A i \in 1 .. Len(WarmKeys) :
           i <= n /\ WarmKeys[i] \in warmed' => Lasts(WarmKeys[i], begun + TTL)'
    <3> SUFFICES ASSUME NEW i \in 1 .. Len(WarmKeys), i <= n, WarmKeys[i] \in warmed'
                 PROVE  Lasts(WarmKeys[i], begun + TTL)'
      OBVIOUS
    <3>1. CASE WarmKeys[i] = k
      BY <2>4, <3>1
    <3>2. CASE WarmKeys[i] # k
      <4>1. i < n
        BY <2>1, <2>2, <2>6, <3>2
      <4> QED
        BY <2>2, <2>3, <2>4, <2>5, <3>2, <4>1 DEF Warmth, Lasts
    <3> QED
      BY <3>1, <3>2
  <2>9. StaysWarm'
    BY <1>0, <2>3, OneScans DEF StaysWarm
  <2>10. CASE n < Len(WarmKeys)
    <3>1. \A i \in 1 .. Len(WarmKeys) : i < idx' => i <= n
      BY <2>3, <2>6, <2>10
    <3> QED
      BY <2>3, <2>5, <2>7, <2>8, <2>9, <2>10, <3>1 DEF Warmth
  <2>11. CASE n = Len(WarmKeys)
    <3>1. due = begun + WarmPeriod
      BY <1>0, <2>3 DEF OnTime
    <3>2. \A j \in warmed' : \E i \in 1 .. Len(WarmKeys) : i <= n /\ j = WarmKeys[i]
      <4>1. DOMAIN WarmKeys = 1 .. Len(WarmKeys)
        BY DEF GuardAssumption
      <4> QED
        BY <2>3, <2>5, <2>6, <2>11, <4>1 DEF Warmth, Warming
    <3>3. \A j \in warmed' : Lasts(j, begun + TTL)'
      BY <2>8, <3>2
    <3>4. due' - WarmPeriod + TTL = begun' + TTL
      BY <2>3, <2>6, <3>1, <2>1
    <3>5. \A j \in warmed' : Lasts(j, due - WarmPeriod + TTL)'
      BY <3>3, <3>4 DEF Lasts
    <3> QED
      BY <2>3, <2>5, <2>9, <2>11, <3>5 DEF Warmth
  <2> QED
    BY <2>2, <2>6, <2>10, <2>11, <2>1
<1>15. CASE WarmRaises
  BY <1>15 DEF WarmRaises, Warmth, StaysWarm
<1> QED
  BY <1>4, <1>5, <1>6, <1>7, <1>8, <1>9, <1>10, <1>11, <1>12, <1>13, <1>14, <1>15
  DEF GuardNext, Serves, Tick, Busy, guardVars

\* What a request gets was read no more than TTL before it, and of a key that the job
\* keeps warm it costs no scan (ServedFresh; api_guard.py:58-93 and scheduler.py:494,
\* `no user request ever pays the scan`): for any schedule in which a value outlives
\* the time from one start of the job to the end of its next run.
THEOREM ServesFresh ==
    ASSUME GuardAssumption, WarmAssumption PROVE GuardSpec => []ServedFresh
<1>1. GuardInit => Warmth
  BY DEF GuardInit, Warmth, StaysWarm
<1>2. GuardInv /\ GuardInv' /\ Warmth /\ [GuardNext]_guardVars => Warmth'
  BY WarmthStep
<1>3. GuardInv /\ Warmth => ServedFresh
  BY DEF GuardInv, Clocks, Warmth, ServedFresh
<1> QED
  BY <1>1, <1>2, <1>3, GuardInvariant, PTL DEF GuardSpec
=============================================================================
