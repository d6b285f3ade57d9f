---------------------------- MODULE HourlyStore ----------------------------
(***************************************************************************)
(* The canonical hourly time-series store of backend/power/hourly_store.py *)
(* (`upsert_hourly` and `_record_ledger`), the SQLAlchemy session and the  *)
(* SQLite write-ahead-log connection it runs on (backend/database.py), and *)
(* the three ways its callers handle an exception.                         *)
(*                                                                         *)
(* A writer is one session on one connection: the ingest job in the app    *)
(* process, a backfill script in another.  The session is created with     *)
(* autoflush=False and Python's sqlite3 only issues BEGIN before the first *)
(* INSERT, so the SELECTs that precede it run in autocommit mode and see   *)
(* whatever is committed at that moment.  The write lock is taken by the   *)
(* first INSERT of the transaction and given back by the commit.           *)
(***************************************************************************)
EXTENDS Integers, FiniteSets

CONSTANTS
    Series,       \* series keys ('price.dayahead', 'residual.actual', ...)
    Zones,        \* bidding-zone keys
    Excluded,     \* series matched by REVISION_EXCLUDED_PREFIXES
    Hours,        \* the ts_utc values in play
    Values,       \* values, in units of REVISION_FLOOR
    NoRow,        \* "no row yet" in power_hourly
    Writers,      \* sessions that call upsert_hourly
    Policy,       \* Policy[w]: how w's caller handles an exception
    Free,         \* the write lock is held by nobody
    Other,        \* ... or by a writer of other tables
    Contended,    \* whether such writers exist
    BatchSize,    \* _BATCH, the rows per INSERT
    MaxAttempts,  \* _with_retry's attempts
    MaxBatches,   \* bound: batches submitted
    MaxOther      \* bound: commits of writers of other tables

Policies == {"continue", "retry", "end"}

ASSUME ConstantAssumption ==
    /\ Excluded \subseteq Series
    /\ Series \cap Zones = {}
    /\ Hours \subseteq Int
    /\ IsFiniteSet(Hours)
    /\ Values \subseteq Int
    /\ NoRow \notin Values
    /\ Free # Other /\ Free \notin Writers /\ Other \notin Writers
    /\ Policy \in [Writers -> Policies]
    /\ Contended \in BOOLEAN
    /\ BatchSize \in Nat \ {0}
    /\ MaxAttempts \in Nat \ {0}
    /\ MaxBatches \in Nat
    /\ MaxOther \in Nat

VARIABLES
    store,      \* power_hourly: store[s][z][h], committed
    dims,       \* keys in series_dim and zone_dim, committed
    revisions,  \* power_revision rows, committed
    arrivals,   \* ingest_arrival, committed: totals per series and zone
    version,    \* number of commits in the write-ahead log
    lock,       \* who holds SQLite's write lock
    pc,         \* where in upsert_hourly the writer is
    batch,      \* the batch being written: [series, zone, points]
    existing,   \* the `existing` dict read by _record_ledger
    tx,         \* transaction state of the connection
    snap,       \* what the connection's read transaction has pinned
    newDims,    \* dimension rows inserted, not yet committed
    newRevs,    \* revision rows inserted, not yet committed
    pending,    \* IngestArrival objects in the session, not yet committed
    written,    \* hours of the batch upserted, not yet committed
    session,    \* "ok", or "inactive" after a failed flush
    err,        \* the exception the call ended with
    attempts,   \* failed attempts of the current batch
    batches,    \* batches submitted so far
    others      \* commits of writers of other tables so far

disk == <<store, dims, revisions, arrivals, version>>
txn  == <<newDims, newRevs, pending, written>>
vars == <<disk, txn, lock, pc, batch, existing, tx, snap, session, err,
          attempts, batches, others>>

-----------------------------------------------------------------------------
(* Values and batches *)

\* REVISION_FLOOR is the unit of Values, REVISION_REL_TOL is 1/1000.
REVISION_FLOOR == 1
RelTolDenominator == 1000

Abs(x) == IF x < 0 THEN -x ELSE x

\* The epsilon test of _record_ledger, in integers:
\* abs(new - old) > max(REVISION_FLOOR, REVISION_REL_TOL * abs(old)).
Moved(old, new) ==
    /\ Abs(new - old) > REVISION_FLOOR
    /\ RelTolDenominator * Abs(new - old) > Abs(old)

\* A batch's points, None left out and deduped last-wins: none at all is a batch
\* too.
Points == UNION {[H -> Values] : H \in SUBSET Hours}
Batches == [series : Series, zone : Zones, points : Points]

HoursOf(b) == DOMAIN b.points

\* The values of a power_hourly table at the batch's hours.
ValuesAt(table, b) == [h \in HoursOf(b) |-> table[b.series][b.zone][h]]

NewHours(b, ex)   == {h \in HoursOf(b) : ex[h] = NoRow}
MovedHours(b, ex) ==
    {h \in HoursOf(b) : ex[h] # NoRow /\ Moved(ex[h], b.points[h])}

Revision(b, h, old, at) ==
    [series |-> b.series, zone |-> b.zone, hour |-> h,
     old |-> old, new |-> b.points[h], at |-> at]

\* The rows _record_ledger inserts: none for a derived series.
RevisionRows(b, ex) ==
    IF b.series \in Excluded THEN {}
    ELSE {Revision(b, h, ex[h], version) : h \in MovedHours(b, ex)}

\* Totals of ingest_arrival: number of rows, sum of n_new, sum of n_changed.
Tally == [rows : Nat, new : Nat, changed : Nat]
Nothing == [rows |-> 0, new |-> 0, changed |-> 0]
Plus(a, b) == [rows |-> a.rows + b.rows, new |-> a.new + b.new,
               changed |-> a.changed + b.changed]
NoArrivals == [s \in Series |-> [z \in Zones |-> Nothing]]

EmptyTable == [s \in Series |-> [z \in Zones |-> [h \in Hours |-> NoRow]]]
NoSnapshot == [version |-> 0, dims |-> {}, store |-> EmptyTable]

NoBatch == [series |-> NoRow, zone |-> NoRow, points |-> <<>>]
NothingRead == [h \in {} |-> NoRow]

-----------------------------------------------------------------------------
Init ==
    /\ store = EmptyTable
    /\ dims = {}
    /\ revisions = {}
    /\ arrivals = NoArrivals
    /\ version = 0
    /\ lock = Free
    /\ pc = [w \in Writers |-> "idle"]
    /\ batch = [w \in Writers |-> NoBatch]
    /\ existing = [w \in Writers |-> NothingRead]
    /\ tx = [w \in Writers |-> "auto"]
    /\ snap = [w \in Writers |-> NoSnapshot]
    /\ newDims = [w \in Writers |-> {}]
    /\ newRevs = [w \in Writers |-> {}]
    /\ pending = [w \in Writers |-> NoArrivals]
    /\ written = [w \in Writers |-> {}]
    /\ session = [w \in Writers |-> "ok"]
    /\ err = [w \in Writers |-> "none"]
    /\ attempts = [w \in Writers |-> 0]
    /\ batches = 0
    /\ others = 0

-----------------------------------------------------------------------------
(* The SQLite connection *)

\* What a SELECT sees: the pinned snapshot, or what is committed now.
Committed == [version |-> version, dims |-> dims, store |-> store]
View(w) == IF tx[w] = "read" THEN snap[w] ELSE Committed

\* A SELECT: inside an explicit transaction the first one pins a snapshot.
Reads(w) ==
    /\ tx' = [tx EXCEPT ![w] = IF @ = "begun" THEN "read" ELSE @]
    /\ snap' = [snap EXCEPT ![w] = IF tx[w] = "begun" THEN Committed ELSE @]

\* A commit has happened since the connection's snapshot.
Stale(w) == tx[w] = "read" /\ snap[w].version # version

\* An INSERT can go ahead: the lock is this connection's already, or it is
\* free and no commit happened since the connection's snapshot.
CanWrite(w) ==
    \/ lock = w
    \/ lock = Free /\ ~Stale(w)

\* An INSERT raises "database is locked": another connection keeps the lock
\* for longer than busy_timeout, or the snapshot is stale (no wait helps).
CanFail(w) ==
    \/ lock \notin {Free, w}
    \/ Stale(w)

Locks(w) ==
    /\ CanWrite(w)
    /\ lock' = w
    /\ tx' = [tx EXCEPT ![w] = "write"]
    /\ snap' = [snap EXCEPT ![w] = NoSnapshot]

\* The connection and the session go back to their initial state: rollback(),
\* close(), or the end of the process.
Resets(w) ==
    /\ lock' = IF lock = w THEN Free ELSE lock
    /\ tx' = [tx EXCEPT ![w] = "auto"]
    /\ snap' = [snap EXCEPT ![w] = NoSnapshot]
    /\ newDims' = [newDims EXCEPT ![w] = {}]
    /\ newRevs' = [newRevs EXCEPT ![w] = {}]
    /\ pending' = [pending EXCEPT ![w] = NoArrivals]
    /\ written' = [written EXCEPT ![w] = {}]

\* The call ends with exception e; what it had read is gone.
Raises(w, e) ==
    /\ pc' = [pc EXCEPT ![w] = "failed"]
    /\ err' = [err EXCEPT ![w] = e]
    /\ existing' = [existing EXCEPT ![w] = NothingRead]

\* The caller is done with the batch, one way or the other.
Done(w) ==
    /\ pc' = [pc EXCEPT ![w] = "idle"]
    /\ batch' = [batch EXCEPT ![w] = NoBatch]
    /\ existing' = [existing EXCEPT ![w] = NothingRead]
    /\ err' = [err EXCEPT ![w] = "none"]
    /\ attempts' = [attempts EXCEPT ![w] = 0]

\* An INSERT issued by session.execute fails: BEGIN has been issued, the
\* session stays usable and keeps its pending objects.
ExecuteFails(w) ==
    /\ CanFail(w)
    /\ Raises(w, "locked")
    /\ tx' = [tx EXCEPT ![w] = IF @ = "auto" THEN "begun" ELSE @]
    /\ UNCHANGED <<disk, txn, lock, batch, snap, session, attempts, batches,
                   others>>

\* An INSERT issued by session.flush fails: the transaction is rolled back
\* and the session is unusable until rollback() or close().
FlushFails(w, e) ==
    /\ Raises(w, e)
    /\ Resets(w)
    /\ session' = [session EXCEPT ![w] = "inactive"]
    /\ UNCHANGED <<disk, batch, attempts, batches, others>>

-----------------------------------------------------------------------------
(* upsert_hourly *)

\* A caller starts upsert_hourly with a parsed batch.
Submit(w) ==
    /\ pc[w] = "idle"
    /\ batches < MaxBatches
    /\ \E b \in Batches : batch' = [batch EXCEPT ![w] = b]
    /\ batches' = batches + 1
    /\ pc' = [pc EXCEPT ![w] = "series"]
    /\ UNCHANGED <<disk, txn, lock, existing, tx, snap, session, err, attempts,
                   others>>

\* The dimension key being resolved, and the step that follows it.
Key(w) == IF pc[w] \in {"series", "newseries"} THEN batch[w].series
                                               ELSE batch[w].zone
\* Mutation: ids are kept in a cache shared by the sessions of the process.
KnownToAny(w) == View(w).dims \cup UNION {newDims[v] : v \in Writers}

Known(w) == View(w).dims \cup newDims[w]

\* _get_or_create_id: the SELECT by key.
LookupDim(w) ==
    /\ pc[w] \in {"series", "zone"}
    /\ session[w] = "ok"
    /\ Reads(w)
    /\ pc' = [pc EXCEPT ![w] =
                IF Key(w) \notin Known(w)
                THEN IF @ = "series" THEN "newseries" ELSE "newzone"
                ELSE IF @ = "series" THEN "zone" ELSE "ledger"]
    /\ UNCHANGED <<disk, txn, lock, batch, existing, session, err, attempts,
                   batches, others>>

\* Any use of a session whose flush failed raises PendingRollbackError.
LookupInactive(w) ==
    /\ pc[w] = "series"
    /\ session[w] = "inactive"
    /\ Raises(w, "inactive")
    /\ UNCHANGED <<disk, txn, lock, batch, tx, snap, session, attempts, batches,
                   others>>

\* _get_or_create_id: add + flush inserts the missing dimension row.
CreateDim(w) ==
    /\ pc[w] \in {"newseries", "newzone"}
    /\ Key(w) \notin dims
    /\ Locks(w)
    /\ newDims' = [newDims EXCEPT ![w] = @ \cup {Key(w)}]
    /\ pc' = [pc EXCEPT ![w] = IF @ = "newseries" THEN "zone" ELSE "ledger"]
    /\ UNCHANGED <<disk, newRevs, pending, written, batch, existing,
                   session, err, attempts, batches, others>>

\* ... and fails: the database is locked, or another writer has committed the
\* same key since the SELECT (the key column is unique).
CreateDimFails(w) ==
    /\ pc[w] \in {"newseries", "newzone"}
    /\ \/ CanFail(w) /\ FlushFails(w, "locked")
       \/ CanWrite(w) /\ Key(w) \in dims /\ FlushFails(w, "integrity")

\* `if not rows: return 0`, after the ids have been resolved: nothing is committed,
\* a dimension row just flushed and the write lock it took stay with the connection.
ReturnEmpty(w) ==
    /\ pc[w] = "ledger"
    /\ HoursOf(batch[w]) = {}
    /\ Done(w)
    /\ UNCHANGED <<disk, txn, lock, tx, snap, session, batches, others>>

\* _record_ledger: ONE SELECT over the batch's range.
ReadExisting(w) ==
    /\ pc[w] = "ledger"
    /\ HoursOf(batch[w]) # {}
    /\ Reads(w)
    /\ existing' = [existing EXCEPT ![w] = ValuesAt(View(w).store, batch[w])]
    /\ pc' = [pc EXCEPT ![w] = "revise"]
    /\ UNCHANGED <<disk, txn, lock, batch, session, err, attempts, batches,
                   others>>

\* Mutation: every point of the batch is counted as new.
ArrivalAllNew(b, ex) == [rows |-> 1, new |-> Cardinality(HoursOf(b)),
                         changed |-> Cardinality(MovedHours(b, ex))]

\* The arrival row of a batch, given the existing values it was diffed with.
Arrival(b, ex) == [rows |-> 1, new |-> Cardinality(NewHours(b, ex)),
                   changed |-> Cardinality(MovedHours(b, ex))]

AddArrival(w) ==
    LET b == batch[w] IN
    pending' = [pending EXCEPT ![w][b.series][b.zone] =
                                    Plus(@, Arrival(b, existing[w]))]

\* _record_ledger: insert the revision rows if there are any, then add the
\* arrival object to the session.
RecordLedger(w) ==
    /\ pc[w] = "revise"
    /\ LET rows == RevisionRows(batch[w], existing[w]) IN
         \/ /\ rows = {}
            /\ UNCHANGED <<lock, tx, snap, newRevs>>
         \/ /\ rows # {}
            /\ Locks(w)
            /\ newRevs' = [newRevs EXCEPT ![w] = rows]
    /\ AddArrival(w)
    /\ pc' = [pc EXCEPT ![w] = "chunks"]
    /\ UNCHANGED <<disk, newDims, written, batch, existing, session, err,
                   attempts, batches, others>>

RecordLedgerFails(w) ==
    /\ pc[w] = "revise"
    /\ RevisionRows(batch[w], existing[w]) # {}
    /\ ExecuteFails(w)

\* One INSERT ... ON CONFLICT DO UPDATE of up to _BATCH rows.
UpsertChunk(w) ==
    LET rest == HoursOf(batch[w]) \ written[w] IN
    /\ pc[w] = "chunks"
    /\ Locks(w)
    /\ \E c \in SUBSET rest :
         /\ Cardinality(c) = IF Cardinality(rest) < BatchSize
                             THEN Cardinality(rest) ELSE BatchSize
         /\ written' = [written EXCEPT ![w] = @ \cup c]
         /\ pc' = [pc EXCEPT ![w] = IF c = rest THEN "commit" ELSE "chunks"]
    /\ UNCHANGED <<disk, newDims, newRevs, pending, batch, existing,
                   session, err, attempts, batches, others>>

UpsertChunkFails(w) ==
    /\ pc[w] = "chunks"
    /\ ExecuteFails(w)

\* Mutation: ON CONFLICT DO NOTHING.
OverwrittenIfNew(b, hs) ==
    [store EXCEPT ![b.series][b.zone] =
        [h \in Hours |-> IF h \in hs /\ @[h] = NoRow THEN b.points[h] ELSE @[h]]]

\* What the upserted hours leave in power_hourly.
Overwritten(b, hs) ==
    [store EXCEPT ![b.series][b.zone] =
        [h \in Hours |-> IF h \in hs THEN b.points[h] ELSE @[h]]]

\* Mutation: the call flushes and leaves the commit to its caller.
CommitLeftToCaller(w) ==
    /\ pc[w] = "commit"
    /\ Done(w)
    /\ UNCHANGED <<disk, txn, lock, tx, snap, session, batches, others>>

\* db.commit(): flushes the pending arrivals and lands the transaction.
Commit(w) ==
    /\ pc[w] = "commit"
    /\ store' = Overwritten(batch[w], written[w])
    /\ dims' = dims \cup newDims[w]
    /\ revisions' = revisions \cup newRevs[w]
    /\ arrivals' = [s \in Series |-> [z \in Zones |->
                        Plus(arrivals[s][z], pending[w][s][z])]]
    /\ version' = version + 1
    /\ Resets(w)
    /\ Done(w)
    /\ UNCHANGED <<session, batches, others>>

-----------------------------------------------------------------------------
(* Callers *)

\* The scheduler's steps: `except Exception: logger.error(...)`, then the
\* next zone on the same session.
CallerContinues(w) ==
    /\ pc[w] = "failed"
    /\ Policy[w] = "continue"
    /\ Done(w)
    /\ UNCHANGED <<disk, txn, lock, tx, snap, session, batches, others>>

\* A job of one step, as the hourly outage snapshot: the exception ends the job,
\* which closes its session; the next run opens another.
CallerEnds(w) ==
    /\ pc[w] = "failed"
    /\ Policy[w] = "end"
    /\ Done(w)
    /\ Resets(w)
    /\ session' = [session EXCEPT ![w] = "ok"]
    /\ UNCHANGED <<disk, batches, others>>

\* _with_retry: the same batch again on the same session.
Retryable(w) == err[w] = "locked" /\ attempts[w] + 1 < MaxAttempts

\* Mutation: the attempts are not counted.
CallerRetriesUncounted(w) ==
    /\ pc[w] = "failed"
    /\ Policy[w] = "retry"
    /\ pc' = [pc EXCEPT ![w] = "series"]
    /\ err' = [err EXCEPT ![w] = "none"]
    /\ UNCHANGED <<disk, txn, lock, batch, existing, tx, snap, session, attempts,
                   batches, others>>

CallerRetries(w) ==
    /\ pc[w] = "failed"
    /\ Policy[w] = "retry"
    /\ Retryable(w)
    /\ attempts' = [attempts EXCEPT ![w] = @ + 1]
    /\ pc' = [pc EXCEPT ![w] = "series"]
    /\ err' = [err EXCEPT ![w] = "none"]
    /\ UNCHANGED <<disk, txn, lock, batch, existing, tx, snap, session,
                   batches, others>>

\* _with_retry re-raises, the script ends; it may be started again.
CallerGivesUp(w) ==
    /\ pc[w] = "failed"
    /\ Policy[w] = "retry"
    /\ ~Retryable(w)
    /\ Done(w)
    /\ Resets(w)
    /\ session' = [session EXCEPT ![w] = "ok"]
    /\ UNCHANGED <<disk, batches, others>>

\* The end of a job: finally: db.close().
EndJob(w) ==
    /\ pc[w] = "idle"
    /\ tx[w] # "auto" \/ session[w] # "ok" \/ pending[w] # NoArrivals
    /\ Resets(w)
    /\ session' = [session EXCEPT ![w] = "ok"]
    /\ UNCHANGED <<disk, pc, batch, existing, err, attempts, batches,
                   others>>

\* The process is killed inside upsert_hourly and started again.
Crash(w) ==
    /\ pc[w] # "idle"
    /\ Done(w)
    /\ Resets(w)
    /\ session' = [session EXCEPT ![w] = "ok"]
    /\ UNCHANGED <<disk, batches, others>>

-----------------------------------------------------------------------------
(* Writers of other tables (alerts, users, daily rows, ...) *)

OtherLocks ==
    /\ Contended
    /\ others < MaxOther
    /\ lock = Free
    /\ lock' = Other
    /\ UNCHANGED <<disk, txn, pc, batch, existing, tx, snap, session, err,
                   attempts, batches, others>>

OtherCommits ==
    /\ lock = Other
    /\ lock' = Free
    /\ version' = version + 1
    /\ others' = others + 1
    /\ UNCHANGED <<store, dims, revisions, arrivals, txn, pc, batch, existing,
                   tx, snap, session, err, attempts, batches>>

-----------------------------------------------------------------------------
\* What a call of upsert_hourly does next.
Upsert(w) ==
    \/ LookupDim(w) \/ LookupInactive(w)
    \/ CreateDim(w) \/ CreateDimFails(w)
    \/ ReturnEmpty(w) \/ ReadExisting(w)
    \/ RecordLedger(w) \/ RecordLedgerFails(w)
    \/ UpsertChunk(w) \/ UpsertChunkFails(w)
    \/ Commit(w)

\* What the caller does with an exception.
Handle(w) ==
    \/ CallerContinues(w) \/ CallerEnds(w)
    \/ CallerRetries(w) \/ CallerGivesUp(w)

Next ==
    \/ \E w \in Writers :
         Submit(w) \/ Upsert(w) \/ Handle(w) \/ EndJob(w) \/ Crash(w)
    \/ OtherLocks
    \/ OtherCommits

Spec == Init /\ [][Next]_vars

\* A running call and its handler go on (the process is scheduled), and a
\* writer of other tables commits.  Nothing is assumed of Submit, EndJob or
\* Crash, nor of which of success and timeout an INSERT meets.
Fairness ==
    /\ \A w \in Writers : WF_vars(Upsert(w) \/ Handle(w))
    /\ WF_vars(OtherCommits)

FairSpec == Spec /\ Fairness

-----------------------------------------------------------------------------
(* Types and the inductive invariant *)

Keys == Series \cup Zones
Table == [Series -> [Zones -> [Hours -> Values \cup {NoRow}]]]
Tallies == [Series -> [Zones -> Tally]]
RevisionType == [series : Series, zone : Zones, hour : Hours,
                 old : Values, new : Values, at : Nat]
Existing == UNION {[H -> Values \cup {NoRow}] : H \in SUBSET Hours}
Locations == {"idle", "series", "newseries", "zone", "newzone", "ledger",
              "revise", "chunks", "commit", "failed"}

\* Every variable has its type; attempts stays below _with_retry's limit.
TypeOK ==
    /\ store \in Table
    /\ dims \subseteq Keys
    /\ revisions \subseteq RevisionType
    /\ arrivals \in Tallies
    /\ version \in Nat
    /\ lock \in Writers \cup {Free, Other}
    /\ pc \in [Writers -> Locations]
    /\ batch \in [Writers -> Batches \cup {NoBatch}]
    /\ existing \in [Writers -> Existing]
    /\ tx \in [Writers -> {"auto", "begun", "read", "write"}]
    /\ snap \in [Writers -> [version : Nat, dims : SUBSET Keys, store : Table]]
    /\ newDims \in [Writers -> SUBSET Keys]
    /\ newRevs \in [Writers -> SUBSET RevisionType]
    /\ pending \in [Writers -> Tallies]
    /\ written \in [Writers -> SUBSET Hours]
    /\ session \in [Writers -> {"ok", "inactive"}]
    /\ err \in [Writers -> {"none", "locked", "integrity", "inactive"}]
    /\ attempts \in [Writers -> 0 .. MaxAttempts - 1]
    /\ batches \in Nat
    /\ others \in Nat

\* Where a call in progress stands.
InCall   == Locations \ {"idle"}
Resolved == {"ledger", "revise", "chunks", "commit"}
Diffed   == {"revise", "chunks", "commit"}

\* A connection is in a write transaction exactly when it holds the lock, and
\* only then has it uncommitted rows.
TransactionInv ==
    \A w \in Writers :
        /\ tx[w] = "write" <=> lock = w
        /\ tx[w] # "write" => newDims[w] = {} /\ newRevs[w] = {} /\ written[w] = {}

\* A call in progress has a batch, and its uncommitted rows are the batch's.
CallOK(w) ==
    /\ pc[w] \in InCall => batch[w] \in Batches
    /\ pc[w] \in Diffed => DOMAIN existing[w] = HoursOf(batch[w])
    /\ pc[w] \notin {"chunks", "commit"} => written[w] = {} /\ newRevs[w] = {}
    /\ pc[w] = "chunks" => written[w] \subseteq HoursOf(batch[w])
    /\ pc[w] = "commit" => lock = w /\ written[w] = HoursOf(batch[w])
    /\ pc[w] = "failed" => lock # w
    /\ lock = w /\ pc[w] \notin {"chunks", "commit"} => newDims[w] # {}
    /\ pc[w] \in Diffed => HoursOf(batch[w]) # {}
    /\ session[w] = "inactive" => lock # w /\ pc[w] \in {"idle", "series", "failed"}

CallInv == \A w \in Writers : CallOK(w)

\* The dimension rows a call relies on are committed or its own.
DimsOK(w) ==
    /\ snap[w].dims \subseteq dims
    /\ pc[w] \in {"zone", "newzone"} \cup Resolved =>
           batch[w].series \in dims \cup newDims[w]
    /\ pc[w] \in Resolved => batch[w].zone \in dims \cup newDims[w]

\* What a sole writer has read is what it will overwrite, and the revision
\* rows of its transaction are those of its batch.
SoleOK(w) ==
    /\ tx[w] = "read" => snap[w].store = store
    /\ pc[w] \in Diffed => existing[w] = ValuesAt(store, batch[w])
    /\ pc[w] \in {"chunks", "commit"} =>
           newRevs[w] = RevisionRows(batch[w], existing[w])

DimsInv == \A w \in Writers : DimsOK(w)
SoleInv == \A w \in Writers : SoleOK(w)

-----------------------------------------------------------------------------
(* Properties *)

\* The step ends w's call of upsert_hourly, with a return or an exception.
Leaves(w) == /\ pc[w] \notin {"idle", "failed"}
             /\ pc'[w] \in {"idle", "failed"}

\* hourly_store.py:4, `batched so the write lock is released frequently`: a call
\* that leaves its connection with SQLite's write lock, for its caller to keep
\* across the next await while every other writer waits, is the call of an empty
\* batch, it returned, and dimension rows are all that is not committed.  Whatever
\* an empty batch left is released by the next call that has points, also when
\* that call fails.
NoLockAcrossCalls ==
    [][\A w \in Writers :
         Leaves(w) /\ lock' = w =>
             /\ HoursOf(batch[w]) = {} /\ pc'[w] = "idle"
             /\ newDims'[w] # {} /\ newRevs'[w] = {} /\ written'[w] = {}]_vars

\* Every row of power_hourly refers to committed rows of series_dim and
\* zone_dim, whatever sessions created them, failed or were killed
\* (resolve_series_id, resolve_zone_id: ids are flushed, not committed).
DimsCoverRows ==
    \A s \in Series, z \in Zones, h \in Hours :
        store[s][z][h] # NoRow => s \in dims /\ z \in dims

\* The revision rows a change of the table from t to t2 calls for: one per
\* hour of a non-derived series that had a row and moved beyond epsilon.
LedgerOf(t, t2) ==
    {r \in [series : Series \ Excluded, zone : Zones, hour : Hours,
            old : Values, new : Values, at : {version}] :
        /\ r.old = t[r.series][r.zone][r.hour]
        /\ r.new = t2[r.series][r.zone][r.hour]
        /\ Moved(r.old, r.new)}

\* PowerRevision's promise: a step that changes stored values adds exactly
\* the revision rows of that change, with the value that was overwritten as
\* old_value, and no other step touches the ledger.  It holds when upsert_hourly
\* has one writer, whatever happens on the write lock.
LedgerExact ==
    [][revisions' = revisions \cup LedgerOf(store, store')]_vars

\* The store of one writer as its readers are told of it.
Ledger == INSTANCE LedgerStore WITH table <- store, ledger <- revisions, clock <- version

\* upsert_hourly of one writer implements LedgerStore: its lookups, chunks,
\* failed INSERTs, retries and crashes are invisible, and a commit is one Put.
ImplementsLedgerStore == Ledger!LedgerSpec

RowsOf(s, z) == {h \in Hours : store[s][z][h] # NoRow}
RevisionsOf(s, z) == {r \in revisions : r.series = s /\ r.zone = z}

\* The arrival log adds up: n_new over a series' arrivals is the number of its
\* rows, n_changed the number of its revisions.  It holds for one writer whose
\* INSERTs never meet a locked database, or whose job ends when one does.
ArrivalTotals ==
    \A s \in Series, z \in Zones :
        /\ arrivals[s][z].new = Cardinality(RowsOf(s, z))
        /\ s \notin Excluded =>
              arrivals[s][z].changed = Cardinality(RevisionsOf(s, z))

\* A call of upsert_hourly and its handler come to an end: no batch is retried
\* for ever, and the lock is not waited for for ever.
BatchResolved ==
    \A w \in Writers : pc[w] # "idle" ~> pc[w] = "idle"

=============================================================================
