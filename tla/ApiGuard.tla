------------------------------ MODULE ApiGuard ------------------------------
(***************************************************************************)
(* The availability guards of backend/api_guard.py, heavy_query_guard,     *)
(* cached_value and warm_value, under the threads that serve requests and  *)
(* the scheduler's coverage_warm job, which runs in a thread of its own.   *)
(*                                                                         *)
(* A cached value is identified by the instant its scan read the store.    *)
(* Time is a bounded counter of the monotonic clock; the job starts on     *)
(* time and a warming run ends within MaxScan, the assumptions under which *)
(* its schedule can be argued about.                                       *)
(***************************************************************************)
EXTENDS Integers, FiniteSets, Sequences

CONSTANTS
    Serving,      \* threads of the pool
    Keys,         \* cache keys
    WarmKeys,     \* the keys coverage_warm recomputes, in order; <<>>: no job
    HEAVY_QUERY_SLOTS,
    TTL,          \* _COVERAGE_TTL
    WarmDelay,    \* the job's first run after boot
    WarmPeriod,   \* its interval
    MaxScan,      \* how long one run of the job takes at most
    ScansFail,    \* whether a request's compute() may raise
    WarmFailsToo, \* whether the job's may
    Free,         \* _cache_lock is held by nobody
    MaxTime,      \* bound on the clock
    MaxQueries    \* bound on requests

\* What is assumed of the constants.
GuardAssumption ==
    /\ Free \notin Serving
    /\ Keys # {}
    /\ WarmKeys \in Seq(Keys)
    /\ HEAVY_QUERY_SLOTS \in Nat \ {0}
    /\ TTL \in Nat /\ WarmDelay \in Nat /\ WarmPeriod \in Nat \ {0}
    /\ MaxScan \in Nat /\ MaxScan < WarmPeriod  \* seconds against half an hour
    /\ MaxTime \in Nat /\ MaxQueries \in Nat
    /\ ScansFail \in BOOLEAN /\ WarmFailsToo \in BOOLEAN

\* A value outlives the time from one start of the job to the end of its next run
\* (an hour against half an hour and seconds).
WarmAssumption == WarmPeriod + MaxScan < TTL

AnyKey == CHOOSE k \in Keys : TRUE
Never == -1
NoSlot == [asOf |-> Never, expires |-> Never]
Times == 0 .. MaxTime

VARIABLES
    now,                     \* time.monotonic()
    slot,                    \* _cache
    lock,                    \* _cache_lock
    free,                    \* the value of _heavy_sem
    place, key, t0, asOf,    \* per thread: the request being served
    answer,                  \* per thread: how much older than its request the last
                             \* value returned was
    wpc, idx, wt0, wAsOf,    \* the job
    begun,                   \* when the running job started
    due,                     \* when the job starts next
    queries,
    lastScan,                \* history: t0 of the last request that scanned a key
    warmed                   \* history: keys the job has stored since it last raised

request == <<place, key, t0, asOf, answer>>
job     == <<wpc, idx, wt0, wAsOf, begun, due, warmed>>
guardVars == <<now, slot, lock, free, request, job, queries, lastScan>>

GuardInit ==
    /\ now = 0
    /\ slot = [k \in Keys |-> NoSlot]
    /\ lock = Free
    /\ free = HEAVY_QUERY_SLOTS
    /\ place = [t \in Serving |-> "idle"]
    /\ key = [t \in Serving |-> AnyKey]
    /\ t0 = [t \in Serving |-> 0]
    /\ asOf = [t \in Serving |-> 0]
    /\ answer = [t \in Serving |-> 0]
    /\ wpc = "idle"
    /\ idx = 1
    /\ wt0 = 0
    /\ wAsOf = 0
    /\ begun = 0
    /\ due = WarmDelay
    /\ queries = 0
    /\ lastScan = [k \in Keys |-> Never]
    /\ warmed = {}

Scheduled == WarmKeys # <<>>
Warming == {WarmKeys[i] : i \in DOMAIN WarmKeys}

\* Time passes, but not past the start of the job nor past the end of its run.
Tick ==
    /\ now < MaxTime
    /\ Scheduled => now < due
    /\ wpc # "idle" => now < begun + MaxScan
    /\ now' = now + 1
    /\ UNCHANGED <<slot, lock, free, request, job, queries, lastScan>>

-----------------------------------------------------------------------------
(* heavy_query_guard and cached_value *)

GoesTo(t, l) == place' = [place EXCEPT ![t] = l]

\* The request is over: the dependency's finally gives the slot back.
Leaves(t) ==
    /\ free' = free + 1
    /\ GoesTo(t, "idle")
    /\ key' = [key EXCEPT ![t] = AnyKey]
    /\ t0' = [t0 EXCEPT ![t] = 0]
    /\ asOf' = [asOf EXCEPT ![t] = 0]

Returns(t, a) ==
    /\ answer' = [answer EXCEPT ![t] = IF a < t0[t] THEN t0[t] - a ELSE 0]
    /\ Leaves(t)

\* The non-blocking acquire; cached_value reads the clock once, at its start.
Request(t) ==
    /\ place[t] = "idle"
    /\ queries < MaxQueries
    /\ queries' = queries + 1
    /\ free > 0
    /\ free' = free - 1
    /\ \E k \in Keys : key' = [key EXCEPT ![t] = k]
    /\ t0' = [t0 EXCEPT ![t] = now]
    /\ GoesTo(t, "fast")
    /\ UNCHANGED <<now, slot, lock, asOf, answer, job, lastScan>>

\* Every slot is taken: 503.
Busy(t) ==
    /\ place[t] = "idle"
    /\ queries < MaxQueries
    /\ queries' = queries + 1
    /\ free = 0
    /\ UNCHANGED <<now, slot, lock, free, request, job, lastScan>>

\* The slot has not expired at the time the request read.
Hit(t) == slot[key[t]] # NoSlot /\ t0[t] < slot[key[t]].expires

\* The unlocked check.
Fast(t) ==
    /\ place[t] = "fast"
    /\ \/ Hit(t) /\ Returns(t, slot[key[t]].asOf)
       \/ ~Hit(t) /\ GoesTo(t, "wait") /\ UNCHANGED <<free, key, t0, asOf, answer>>
    /\ UNCHANGED <<now, slot, lock, job, queries, lastScan>>

TakeLock(t) ==
    /\ place[t] = "wait"
    /\ lock = Free
    /\ lock' = t
    /\ GoesTo(t, "recheck")
    /\ UNCHANGED <<now, slot, free, key, t0, asOf, answer, job, queries, lastScan>>

\* The check inside the lock: another thread may have filled the slot.
Recheck(t) ==
    /\ place[t] = "recheck"
    /\ \/ Hit(t) /\ Returns(t, slot[key[t]].asOf) /\ lock' = Free
       \/ ~Hit(t) /\ GoesTo(t, "scan")
          /\ UNCHANGED <<lock, free, key, t0, asOf, answer>>
    /\ UNCHANGED <<now, slot, job, queries, lastScan>>

\* compute(), inside the lock.
Scan(t) ==
    /\ place[t] = "scan"
    /\ asOf' = [asOf EXCEPT ![t] = now]
    /\ GoesTo(t, "store")
    /\ UNCHANGED <<now, slot, lock, free, key, t0, answer, job, queries, lastScan>>

\* Mutation: an exception skips the release of the heavy-query slot.
ScanLeaksSlot(t) ==
    /\ ScansFail
    /\ place[t] = "scan"
    /\ lock' = Free
    /\ GoesTo(t, "idle")
    /\ UNCHANGED <<now, slot, free, key, t0, asOf, answer, job, queries, lastScan>>

\* Mutation: an exception leaves the lock held.
ScanKeepsLock(t) ==
    /\ ScansFail
    /\ place[t] = "scan"
    /\ Leaves(t)
    /\ UNCHANGED <<now, slot, lock, answer, job, queries, lastScan>>

\* compute() raises: the with block frees the lock, nothing is cached.
ScanRaises(t) ==
    /\ ScansFail
    /\ place[t] = "scan"
    /\ lock' = Free
    /\ Leaves(t)
    /\ UNCHANGED <<now, slot, answer, job, queries, lastScan>>

\* Mutation: the value expires TTL after it was stored.
ExpiryLate(t) == now + TTL

\* The value expires TTL after the request read the clock.
Expiry(t) == t0[t] + TTL

Store(t) ==
    /\ place[t] = "store"
    /\ slot' = [slot EXCEPT ![key[t]] = [asOf |-> asOf[t], expires |-> Expiry(t)]]
    /\ lastScan' = [lastScan EXCEPT ![key[t]] = t0[t]]
    /\ lock' = Free
    /\ Returns(t, asOf[t])
    /\ UNCHANGED <<now, job, queries>>

-----------------------------------------------------------------------------
(* coverage_warm and warm_value *)

\* The interval has elapsed; the previous run is over (MaxScan < WarmPeriod).
WarmStart ==
    /\ Scheduled
    /\ now = due
    /\ wpc = "idle"
    /\ due' = due + WarmPeriod
    /\ begun' = now
    /\ wpc' = "scan"
    /\ idx' = 1
    /\ wt0' = now
    /\ UNCHANGED <<now, slot, lock, free, request, wAsOf, queries, lastScan, warmed>>

\* warm_value computes outside the lock.
WarmScan ==
    /\ wpc = "scan"
    /\ wAsOf' = now
    /\ wpc' = "store"
    /\ UNCHANGED <<now, slot, lock, free, request, idx, wt0, begun, due, queries,
                   lastScan, warmed>>

\* What the job leaves in the slot.
Warm(k) == [asOf |-> wAsOf, expires |-> wt0 + TTL]

WarmStore ==
    LET k == WarmKeys[idx] IN
    /\ wpc = "store"
    /\ lock = Free
    /\ slot' = [slot EXCEPT ![k] = Warm(k)]
    /\ warmed' = warmed \cup {k}
    /\ idx' = IF idx < Len(WarmKeys) THEN idx + 1 ELSE 1
    /\ wpc' = IF idx < Len(WarmKeys) THEN "scan" ELSE "idle"
    /\ wt0' = now
    /\ wAsOf' = 0
    /\ UNCHANGED <<now, lock, free, request, begun, due, queries, lastScan>>

\* A scan of the job raises: the job logs it, the remaining keys are skipped.
WarmRaises ==
    /\ WarmFailsToo
    /\ wpc = "scan"
    /\ wpc' = "idle"
    /\ idx' = 1
    /\ warmed' = {}
    /\ UNCHANGED <<now, slot, lock, free, request, wt0, wAsOf, begun, due,
                   queries, lastScan>>

-----------------------------------------------------------------------------
Serves(t) ==
    \/ Fast(t) \/ TakeLock(t) \/ Recheck(t) \/ Scan(t) \/ ScanRaises(t) \/ Store(t)

GuardNext ==
    \/ Tick
    \/ \E t \in Serving : Request(t) \/ Busy(t) \/ Serves(t)
    \/ WarmStart \/ WarmScan \/ WarmStore \/ WarmRaises

GuardSpec == GuardInit /\ [][GuardNext]_guardVars

\* While some thread can go on, one does; its scans end.  Neither is the lock assumed
\* to be fair nor does the job have to run.
GuardFairness == WF_guardVars(\E t \in Serving : Serves(t))

GuardFairSpec == GuardSpec /\ GuardFairness

-----------------------------------------------------------------------------
(* Properties *)

\* Every variable has its type; the semaphore is never above its initial value
\* (a BoundedSemaphore raises there).
GuardTypeOK ==
    /\ now \in Times
    /\ slot \in [Keys -> [asOf : Times \cup {Never}, expires : Int]]
    /\ lock \in Serving \cup {Free}
    /\ free \in 0 .. HEAVY_QUERY_SLOTS
    /\ place \in [Serving -> {"idle", "fast", "wait", "recheck", "scan", "store"}]
    /\ key \in [Serving -> Keys]
    /\ t0 \in [Serving -> Times] /\ asOf \in [Serving -> Times]
    /\ answer \in [Serving -> Times]
    /\ wpc \in {"idle", "scan", "store"}
    /\ idx \in 1 .. Len(WarmKeys) + 1
    /\ wt0 \in Times /\ wAsOf \in Times /\ begun \in Times
    /\ due \in Nat
    /\ queries \in 0 .. MaxQueries
    /\ lastScan \in [Keys -> Times \cup {Never}]
    /\ warmed \subseteq Keys

\* No path through a request, a hit, a scan or an exception, leaks or doubles a
\* heavy-query slot (and every variable has its type).
SlotsConserved ==
    /\ GuardTypeOK
    /\ free + Cardinality({t \in Serving : place[t] # "idle"}) = HEAVY_QUERY_SLOTS

\* A value is served for at most TTL: what a request returns was read from the
\* store no more than TTL before the request, however long threads waited for
\* the lock or their scans took, and whatever the job stored in between.
AnswerFresh == \A t \in Serving : answer[t] <= TTL

\* api_guard.py:62, `recomputing at most once per ttl seconds`: the requests
\* that scan for a key are TTL apart, also when a herd waits for the lock.  The
\* job may replace a value by one whose clock was read earlier, by at most the
\* length of its run, and brings the next scan of that key forward by as much.
Spacing(k) == IF k \in Warming THEN TTL - MaxScan ELSE TTL
ScansSpaced ==
    [][\A k \in Keys : lastScan[k] # Never /\ lastScan'[k] # lastScan[k] =>
          lastScan'[k] >= lastScan[k] + Spacing(k)]_guardVars

\* scheduler.py:494, `Recomputing here every 30 min against the 1 h TTL means no
\* user request ever pays the scan`: once the job has stored a key and while its
\* scans succeed, no request scans for it (under WarmAssumption).
StaysWarm ==
    \A t \in Serving : key[t] \in warmed => place[t] \notin {"scan", "store"}

\* What a request gets is fresh and, of a warmed key, costs it no scan.
ServedFresh == AnswerFresh /\ StaysWarm

\* Every request is answered, although scans raise under the lock that all the
\* others wait for: when no more requests come, no thread is left in one.
Answered == <>[](\A t \in Serving : place[t] = "idle")

\* A herd is answered, at the price of one scan per TTL: neither by letting every
\* thread of it scan nor by leaving some of it waiting.
HerdAnswered == ScansSpaced /\ Answered
=============================================================================
