------------------------------ MODULE ApiUsage ------------------------------
(***************************************************************************)
(* API keys and their metered usage: backend/auth/api_keys.py,             *)
(* backend/metering.py, backend/routes/keys.py and the scheduler's         *)
(* api_usage_flush job, for the keys of one email.                         *)
(*                                                                         *)
(* The endpoints are sync handlers: each request runs in a thread of       *)
(* Starlette's pool.  The flush runs on the event-loop thread, one at a    *)
(* time, in parallel with them.  Steps are what happens under              *)
(* metering._lock, one SELECT, or one commit.                              *)
(***************************************************************************)
EXTENDS Integers, FiniteSets

CONSTANTS
    Threads,          \* threads of the pool
    MAX_ACTIVE_KEYS,
    MaxKeys,          \* bound: keys ever minted
    MaxRequests,      \* bound: keyed requests
    MaxDay,           \* bound: UTC days
    FlushMayFail,     \* whether the flush's statements or commit raise
    MayRestart        \* whether the process is restarted (once)

Ids == 1 .. MaxKeys
Days == 1 .. MaxDay

\* [requests, points], the two columns of a counter and of a ledger row.
Tally == [requests : Nat, points : Nat]
Zero == [requests |-> 0, points |-> 0]
Plus(a, b) == [requests |-> a.requests + b.requests, points |-> a.points + b.points]
AtMost(a, b) == a.requests <= b.requests /\ a.points <= b.points

\* Tallies per day and key; an absent entry is Zero.
Ledgers == [Days -> [Ids -> Tally]]
Empty == [d \in Days |-> [k \in Ids |-> Zero]]
Merged(f, g) == [d \in Days |-> [k \in Ids |-> Plus(f[d][k], g[d][k])]]

\* The rows of one key, per day.
RowsOf(f, k) == [d \in Days |-> f[d][k]]
NoRows == [d \in Days |-> Zero]

\* A report of a key: the rows it read, the tail it read and the day of that
\* tail, the day it calls today, and what was recorded when it was asked for.
NoKey == 0
NoReport == [key |-> NoKey, rows |-> NoRows, tail |-> Zero, counted |-> 1,
             named |-> 1, before |-> NoRows]

ASSUME UsageAssumption ==
    /\ IsFiniteSet(Threads) /\ Threads # {}
    /\ MAX_ACTIVE_KEYS \in Nat
    /\ MaxKeys \in Nat /\ MaxRequests \in Nat /\ MaxDay \in Nat \ {0}
    /\ FlushMayFail \in BOOLEAN /\ MayRestart \in BOOLEAN

VARIABLES
    keys,       \* api_keys: keys[k] is "none", "active" or "revoked"
    lastUsed,   \* api_keys: ids whose last_used_at is set
    usage,      \* api_usage_daily, committed
    counters,   \* metering._counters
    drained,    \* what the running flush took out of the counters
    flushing,   \* whether a flush is between its drain and its commit
    day,        \* the UTC day
    pc, arg, amount, stamp, rows,  \* per thread: the request being served
    report,     \* per thread: the last answer of /api/v1/keys/usage
    requests, restarted,
    recorded,   \* history: everything record() was called with
    lost,       \* history: what restarts and failed flushes lost
    overtaken,  \* history: threads about to mint, on a count another mint outdated
    late        \* history: the keys minted on such a count

flush  == <<drained, flushing>>
local  == <<pc, arg, amount, stamp, rows>>
ghosts == <<recorded, lost, overtaken, late>>
vars == <<keys, lastUsed, usage, counters, flush, day, local, report, requests,
          restarted, ghosts>>

Init ==
    /\ keys = [k \in Ids |-> "none"]
    /\ lastUsed = {}
    /\ usage = Empty
    /\ counters = Empty
    /\ drained = Empty
    /\ flushing = FALSE
    /\ day = 1
    /\ pc = [t \in Threads |-> "idle"]
    /\ arg = [t \in Threads |-> NoKey]
    /\ amount = [t \in Threads |-> Zero]
    /\ stamp = [t \in Threads |-> 1]
    /\ rows = [t \in Threads |-> NoRows]
    /\ report = [t \in Threads |-> NoReport]
    /\ requests = 0
    /\ restarted = FALSE
    /\ recorded = Empty
    /\ lost = Empty
    /\ overtaken = {}
    /\ late = {}

Goto(t, l) == pc' = [pc EXCEPT ![t] = l]

\* The request is answered: its locals are gone.
Ends(t) ==
    /\ Goto(t, "idle")
    /\ arg' = [arg EXCEPT ![t] = NoKey]
    /\ amount' = [amount EXCEPT ![t] = Zero]
    /\ stamp' = [stamp EXCEPT ![t] = 1]
    /\ rows' = [rows EXCEPT ![t] = NoRows]

Active == {k \in Ids : keys[k] = "active"}
Issued == {k \in Ids : keys[k] # "none"}
Minting == {t \in Threads : pc[t] = "mint"}

Midnight ==
    /\ day < MaxDay
    /\ day' = day + 1
    /\ UNCHANGED <<keys, lastUsed, usage, counters, flush, local, report,
                   requests, restarted, ghosts>>

-----------------------------------------------------------------------------
(* create_key and revoke_key *)

\* Mutation: the cap is off by one.
BelowCapOrAt == Cardinality(Active) <= MAX_ACTIVE_KEYS

\* The count of unrevoked keys is below the cap.
BelowCap == Cardinality(Active) < MAX_ACTIVE_KEYS

\* create_key's SELECT; at the cap it raises and the request is over.
CountKeys(t) ==
    /\ pc[t] = "idle"
    /\ BelowCap
    /\ Goto(t, "mint")
    /\ overtaken' = overtaken \ {t}
    /\ UNCHANGED <<keys, lastUsed, usage, counters, flush, day, arg, amount,
                   stamp, rows, report, requests, restarted, recorded, lost, late>>

\* create_key's INSERT and commit, under the next autoincrement id.
MintKey(t) ==
    /\ pc[t] = "mint"
    /\ Cardinality(Issued) < MaxKeys
    /\ keys' = [keys EXCEPT ![Cardinality(Issued) + 1] = "active"]
    /\ Goto(t, "idle")
    /\ late' = IF t \in overtaken THEN late \cup {Cardinality(Issued) + 1} ELSE late
    /\ overtaken' = (overtaken \cup Minting) \ {t}
    /\ UNCHANGED <<lastUsed, usage, counters, flush, day, arg, amount, stamp,
                   rows, report, requests, restarted, recorded, lost>>

\* revoke_key sets revoked_at; the row stays.
RevokeKey(t) ==
    /\ pc[t] = "idle"
    /\ \E k \in Active : keys' = [keys EXCEPT ![k] = "revoked"]
    /\ UNCHANGED <<lastUsed, usage, counters, flush, day, local, report,
                   requests, restarted, ghosts>>

-----------------------------------------------------------------------------
(* resolve_request_key and record *)

\* The key of a request is looked up, once per request; an unknown or revoked
\* one leaves the request anonymous and unmetered.
ResolveKey(t) ==
    /\ pc[t] = "idle"
    /\ requests < MaxRequests
    /\ requests' = requests + 1
    /\ \E k \in Active : arg' = [arg EXCEPT ![t] = k]
    /\ amount' = [amount EXCEPT ![t] = [requests |-> 1, points |-> 0]]
    /\ Goto(t, "stamp")
    /\ UNCHANGED <<keys, lastUsed, usage, counters, flush, day, stamp, rows,
                   report, restarted, ghosts>>

\* record computes today's date before it takes the lock.
StampDay(t) ==
    /\ pc[t] = "stamp"
    /\ stamp' = [stamp EXCEPT ![t] = day]
    /\ Goto(t, "record")
    /\ UNCHANGED <<keys, lastUsed, usage, counters, flush, day, arg, amount,
                   rows, report, requests, restarted, ghosts>>

\* record, under the lock.
Record(t) ==
    /\ pc[t] = "record"
    /\ counters' = [counters EXCEPT ![stamp[t]][arg[t]] = Plus(@, amount[t])]
    /\ recorded' = [recorded EXCEPT ![stamp[t]][arg[t]] = Plus(@, amount[t])]
    /\ IF amount[t].requests = 1
       THEN Goto(t, "serve") /\ UNCHANGED <<arg, amount, stamp, rows>>
       ELSE Ends(t)
    /\ UNCHANGED <<keys, lastUsed, usage, flush, day, report, requests,
                   restarted, lost, overtaken, late>>

\* The endpoint: /series, /snapshot and the archive also record their points.
Serve(t) ==
    /\ pc[t] = "serve"
    /\ \/ /\ amount' = [amount EXCEPT ![t] = [requests |-> 0, points |-> 1]]
          /\ Goto(t, "stamp")
          /\ UNCHANGED <<arg, stamp, rows>>
       \/ Ends(t)
    /\ UNCHANGED <<keys, lastUsed, usage, counters, flush, day, report, requests,
                   restarted, ghosts>>

-----------------------------------------------------------------------------
(* flush *)

\* Mutations: the counters are not cleared; only today's are drained.
FlushCopies ==
    /\ ~flushing
    /\ counters # Empty
    /\ drained' = counters
    /\ flushing' = TRUE
    /\ UNCHANGED <<keys, lastUsed, usage, counters, day, local, report, requests,
                   restarted, ghosts>>

FlushDrainsToday ==
    /\ ~flushing
    /\ counters[day] # Empty[day]
    /\ drained' = [Empty EXCEPT ![day] = counters[day]]
    /\ counters' = [counters EXCEPT ![day] = Empty[day]]
    /\ flushing' = TRUE
    /\ UNCHANGED <<keys, lastUsed, usage, day, local, report, requests,
                   restarted, ghosts>>

\* The counters are taken and cleared under the lock.
FlushDrains ==
    /\ ~flushing
    /\ counters # Empty
    /\ drained' = counters
    /\ counters' = Empty
    /\ flushing' = TRUE
    /\ UNCHANGED <<keys, lastUsed, usage, day, local, report, requests,
                   restarted, ghosts>>

\* The upserts and the last_used_at stamps land in one commit.
FlushCommits ==
    /\ flushing
    /\ usage' = Merged(usage, drained)
    /\ lastUsed' = lastUsed \cup {k \in Ids : \E d \in Days : drained[d][k] # Zero}
    /\ drained' = Empty
    /\ flushing' = FALSE
    /\ UNCHANGED <<keys, counters, day, local, report, requests, restarted, ghosts>>

\* A statement or the commit raises; the job logs it, and what was drained is
\* dropped.
FlushFails ==
    /\ FlushMayFail
    /\ flushing
    /\ lost' = Merged(lost, drained)
    /\ drained' = Empty
    /\ flushing' = FALSE
    /\ UNCHANGED <<keys, lastUsed, usage, counters, day, local, report, requests,
                   restarted, recorded, overtaken, late>>

\* A hard restart of the process: its memory is gone.
Restart ==
    /\ MayRestart /\ ~restarted
    /\ restarted' = TRUE
    /\ lost' = Merged(lost, Merged(counters, drained))
    /\ counters' = Empty
    /\ drained' = Empty
    /\ flushing' = FALSE
    /\ pc' = [t \in Threads |-> "idle"]
    /\ arg' = [t \in Threads |-> NoKey]
    /\ amount' = [t \in Threads |-> Zero]
    /\ stamp' = [t \in Threads |-> 1]
    /\ rows' = [t \in Threads |-> NoRows]
    /\ overtaken' = {}
    /\ UNCHANGED <<keys, lastUsed, usage, day, report, requests, recorded, late>>

-----------------------------------------------------------------------------
(* GET /api/v1/keys/usage, for one of the email's keys *)

\* Mutation: the tail is added to the rows here and once more at the end.
ReadLedgerAndTail(t) ==
    /\ pc[t] = "idle"
    /\ \E k \in Issued :
         /\ arg' = [arg EXCEPT ![t] = k]
         /\ rows' = [rows EXCEPT ![t] =
              [RowsOf(usage, k) EXCEPT ![day] = Plus(@, counters[day][k])]]
         /\ report' = [report EXCEPT ![t] =
              [NoReport EXCEPT !.before = RowsOf(recorded, k)]]
    /\ Goto(t, "today")
    /\ UNCHANGED <<keys, lastUsed, usage, counters, flush, day, amount, stamp,
                   requests, restarted, ghosts>>

\* The SELECT of the flushed rows.
ReadLedger(t) ==
    /\ pc[t] = "idle"
    /\ \E k \in Issued :
         /\ arg' = [arg EXCEPT ![t] = k]
         /\ rows' = [rows EXCEPT ![t] = RowsOf(usage, k)]
         /\ report' = [report EXCEPT ![t] =
              [NoReport EXCEPT !.before = RowsOf(recorded, k)]]
    /\ Goto(t, "today")
    /\ UNCHANGED <<keys, lastUsed, usage, counters, flush, day, amount, stamp,
                   requests, restarted, ghosts>>

\* The date under which the tail will be shown.
NameToday(t) ==
    /\ pc[t] = "today"
    /\ stamp' = [stamp EXCEPT ![t] = day]
    /\ Goto(t, "tail")
    /\ UNCHANGED <<keys, lastUsed, usage, counters, flush, day, arg, amount,
                   rows, report, requests, restarted, ghosts>>

\* usage_today, which asks for the date again, and the answer.
ReadTail(t) ==
    /\ pc[t] = "tail"
    /\ report' = [report EXCEPT ![t] =
         [key |-> arg[t], rows |-> rows[t], tail |-> counters[day][arg[t]],
          counted |-> day, named |-> stamp[t], before |-> @.before]]
    /\ Ends(t)
    /\ UNCHANGED <<keys, lastUsed, usage, counters, flush, day, requests,
                   restarted, ghosts>>

-----------------------------------------------------------------------------
Next ==
    \/ Midnight
    \/ \E t \in Threads :
         \/ CountKeys(t) \/ MintKey(t) \/ RevokeKey(t)
         \/ ResolveKey(t) \/ StampDay(t) \/ Record(t) \/ Serve(t)
         \/ ReadLedger(t) \/ NameToday(t) \/ ReadTail(t)
    \/ FlushDrains \/ FlushCommits \/ FlushFails
    \/ Restart

Spec == Init /\ [][Next]_vars

\* The flush job fires every five minutes and a started one ends.
Fairness == WF_vars(FlushDrains) /\ WF_vars(FlushCommits)

FairSpec == Spec /\ Fairness

-----------------------------------------------------------------------------
(* Properties *)

Reports == [key : Ids \cup {NoKey}, rows : [Days -> Tally], tail : Tally,
            counted : Days, named : Days, before : [Days -> Tally]]

\* Every variable has its type; usage is only ever counted for a key that has
\* a row (`Rows are never deleted -- the usage ledger keys on id`).
TypeOK ==
    /\ keys \in [Ids -> {"none", "active", "revoked"}]
    /\ lastUsed \subseteq Ids
    /\ usage \in Ledgers /\ counters \in Ledgers /\ drained \in Ledgers
    /\ flushing \in BOOLEAN
    /\ day \in Days
    /\ pc \in [Threads -> {"idle", "mint", "stamp", "record", "serve", "today", "tail"}]
    /\ arg \in [Threads -> Ids \cup {NoKey}]
    /\ amount \in [Threads -> Tally]
    /\ stamp \in [Threads -> Days]
    /\ rows \in [Threads -> [Days -> Tally]]
    /\ report \in [Threads -> Reports]
    /\ requests \in 0 .. MaxRequests
    /\ restarted \in BOOLEAN
    /\ recorded \in Ledgers /\ lost \in Ledgers
    /\ overtaken \subseteq Threads /\ late \subseteq Ids
    /\ \A k \in Ids \ Issued : RowsOf(recorded, k) = NoRows

\* Nothing recorded vanishes or is counted twice: it is in the ledger, in the
\* running flush or in memory, once, or it was lost by a restart or by a flush
\* whose commit failed (metering.py: the drain under the lock, the commit).
EverythingAccounted ==
    recorded = Merged(Merged(usage, drained), Merged(counters, lost))

\* A usage report never bills more than was recorded, on any day, although the
\* flush moves counts from memory to the ledger while the report adds the two
\* up (keys.py:90-113): the tail it read was recorded on the day it was read
\* for, beside all that the rows of that day show.
ReportNotOver ==
    \A t \in Threads :
        LET r == report[t]
        IN  r.key # NoKey =>
                \A d \in Days :
                    AtMost(IF d = r.counted THEN Plus(r.rows[d], r.tail) ELSE r.rows[d],
                           recorded[d][r.key])

\* What the answer shows for a day: the tail is under the day called today.
Shown(r, d) == IF d = r.named THEN Plus(r.rows[d], r.tail) ELSE r.rows[d]

\* keys.py:81-82, `a usage check right after a request must not read zero`: a
\* report shows at least what was recorded before it was asked for.
ReportComplete ==
    \A t \in Threads : report[t].key # NoKey =>
        \A d \in Days : AtMost(report[t].before[d], Shown(report[t], d))

\* keys.py:114, `Today includes the un-flushed in-memory tail`: no day shows
\* more than was recorded on it.
ReportNamesDay ==
    \A t \in Threads : report[t].key # NoKey =>
        \A d \in Days : AtMost(Shown(report[t], d), recorded[d][report[t].key])

\* api_keys.py:25-26, MAX_ACTIVE_KEYS, `Active (unrevoked) keys per email`: the
\* count and the INSERT are two statements.  The cap holds but for keys minted on a
\* count that another request's INSERT had outdated, whatever is revoked, restarted
\* or refused in between, and it is passed by fewer keys than there are threads.
KeyCap ==
    /\ Cardinality(Active \ late) <= MAX_ACTIVE_KEYS
    /\ Cardinality(Active) + Cardinality(Minting)
         <= MAX_ACTIVE_KEYS + Cardinality(Threads) - 1

\* api_keys.py:25-26 and :42, `Raises ValueError at the active-key cap`, as they
\* stand: an email never has more active keys than the cap.
CapAsStated == Cardinality(Active) <= MAX_ACTIVE_KEYS

\* Everything recorded reaches the ledger in the end, the counts of a day that
\* is over included, but for what a restart or a failed flush lost.
AllFlushed == <>[](recorded = Merged(usage, lost))
=============================================================================
